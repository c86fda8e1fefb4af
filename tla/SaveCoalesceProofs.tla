------------------------ MODULE SaveCoalesceProofs ------------------------
(***************************************************************************)
(* Proofs about SaveCoalesce, for every bound on versions and failures.    *)
(* IInv is inductive; the safety properties follow from it.                *)
(***************************************************************************)
EXTENDS SaveCoalesce, TLAPS

(* The initial state satisfies the inductive invariant. *)
LEMMA InitIInv == Init => IInv
<1> SUFFICES ASSUME Init PROVE IInv
  OBVIOUS
<1>1. TypeOK
  BY DEF Init, TypeOK, Phases, Writers, WriterPCs, Torn
<1>2. ThreadsTracked
  BY DEF Init, ThreadsTracked, Session, Writers, SaveSteps
<1>3. VersionsOrdered
  BY DEF Init, VersionsOrdered, Session, Writers
<1>4. KeysFirst
  BY DEF Init, KeysFirst, Writers, SaveSteps
<1>5. MarksCovered /\ CleanExitDurable
  BY DEF Init, MarksCovered, CleanExitDurable, Session, Saved, Writers, SaveSteps
<1> QED
  BY <1>1, <1>2, <1>3, <1>4, <1>5 DEF IInv

(* Start preserves the inductive invariant. *)
LEMMA StartIInv ==
  ASSUME IInv, Start
  PROVE  IInv'
<1>1. TypeOK'
  BY DEF IInv, TypeOK, Phases, Start, disk, Writers, WriterPCs, SaveSteps,
         Torn
<1>2. ThreadsTracked'
  BY DEF IInv, TypeOK, ThreadsTracked, Phases, Session, Start, disk, Writers,
         WriterPCs, SaveSteps, Torn
<1>3. VersionsOrdered'
  BY DEF IInv, TypeOK, ThreadsTracked, VersionsOrdered, Phases, Session,
         Start, disk, Writers, WriterPCs, SaveSteps, Torn
<1>4. KeysFirst'
  BY DEF IInv, TypeOK, ThreadsTracked, VersionsOrdered, KeysFirst, Phases,
         Session, Start, disk, Writers, WriterPCs, SaveSteps, Torn
<1>5. MarksCovered'
  BY DEF IInv, TypeOK, ThreadsTracked, VersionsOrdered, MarksCovered, Phases,
         Session, Saved, Start, disk, Writers, WriterPCs, SaveSteps, Torn
<1>6. CleanExitDurable'
  BY DEF IInv, TypeOK, ThreadsTracked, VersionsOrdered, MarksCovered,
         CleanExitDurable, Phases, Session, Saved, Start, disk, Writers,
         WriterPCs, SaveSteps, Torn
<1> QED
  BY <1>1, <1>2, <1>3, <1>4, <1>5, <1>6 DEF IInv

(* MarkDirty preserves the inductive invariant. *)
LEMMA MarkDirtyIInv ==
  ASSUME IInv, MarkDirty
  PROVE  IInv'
<1>1. TypeOK'
  BY DEF IInv, TypeOK, Phases, MarkDirty, Selecting, NewVersion, disk,
         Writers, WriterPCs, SaveSteps, Torn
<1>2. ThreadsTracked'
  BY DEF IInv, TypeOK, ThreadsTracked, Phases, Session, MarkDirty, Selecting,
         NewVersion, disk, Writers, WriterPCs, SaveSteps, Torn
<1>3. VersionsOrdered'
  BY DEF IInv, TypeOK, ThreadsTracked, VersionsOrdered, Phases, Session,
         MarkDirty, Selecting, NewVersion, disk, Writers, WriterPCs,
         SaveSteps, Torn
<1>4. KeysFirst'
  BY DEF IInv, TypeOK, ThreadsTracked, VersionsOrdered, KeysFirst, Phases,
         Session, MarkDirty, Selecting, NewVersion, disk, Writers, WriterPCs,
         SaveSteps, Torn
<1>5. MarksCovered'
  BY DEF IInv, TypeOK, ThreadsTracked, VersionsOrdered, MarksCovered, Phases,
         Session, Saved, MarkDirty, Selecting, NewVersion, disk, Writers,
         WriterPCs, SaveSteps, Torn
<1>6. CleanExitDurable'
  BY DEF IInv, TypeOK, ThreadsTracked, VersionsOrdered, MarksCovered,
         CleanExitDurable, Phases, Session, Saved, MarkDirty, Selecting,
         NewVersion, disk, Writers, WriterPCs, SaveSteps, Torn
<1> QED
  BY <1>1, <1>2, <1>3, <1>4, <1>5, <1>6 DEF IInv

(* TakeForSave preserves the inductive invariant. *)
LEMMA TakeForSaveIInv ==
  ASSUME IInv, TakeForSave
  PROVE  IInv'
<1>1. TypeOK'
  BY DEF IInv, TypeOK, Phases, TakeForSave, Selecting, Begin, disk, Writers,
         WriterPCs, SaveSteps, Torn
<1>2. ThreadsTracked'
  BY DEF IInv, TypeOK, ThreadsTracked, Phases, Session, TakeForSave,
         Selecting, Begin, disk, Writers, WriterPCs, SaveSteps, Torn
<1>3. VersionsOrdered'
  BY DEF IInv, TypeOK, ThreadsTracked, VersionsOrdered, Phases, Session,
         TakeForSave, Selecting, Begin, disk, Writers, WriterPCs, SaveSteps,
         Torn
<1>4. KeysFirst'
  BY DEF IInv, TypeOK, ThreadsTracked, VersionsOrdered, KeysFirst, Phases,
         Session, TakeForSave, Selecting, Begin, disk, Writers, WriterPCs,
         SaveSteps, Torn
<1>5. MarksCovered'
  BY DEF IInv, TypeOK, ThreadsTracked, VersionsOrdered, MarksCovered, Phases,
         Session, Saved, TakeForSave, Selecting, Begin, disk, Writers,
         WriterPCs, SaveSteps, Torn
<1>6. CleanExitDurable'
  BY DEF IInv, TypeOK, ThreadsTracked, VersionsOrdered, MarksCovered,
         CleanExitDurable, Phases, Session, Saved, TakeForSave, Selecting,
         Begin, disk, Writers, WriterPCs, SaveSteps, Torn
<1> QED
  BY <1>1, <1>2, <1>3, <1>4, <1>5, <1>6 DEF IInv

(* SnapshotFails preserves the inductive invariant. *)
LEMMA SnapshotFailsIInv ==
  ASSUME IInv, SnapshotFails
  PROVE  IInv'
<1>1. TypeOK'
  BY DEF IInv, TypeOK, Phases, SnapshotFails, Selecting, Fault, disk,
         Writers, WriterPCs, SaveSteps, Torn
<1>2. ThreadsTracked'
  BY DEF IInv, TypeOK, ThreadsTracked, Phases, Session, SnapshotFails,
         Selecting, Fault, disk, Writers, WriterPCs, SaveSteps, Torn
<1>3. VersionsOrdered'
  BY DEF IInv, TypeOK, ThreadsTracked, VersionsOrdered, Phases, Session,
         SnapshotFails, Selecting, Fault, disk, Writers, WriterPCs,
         SaveSteps, Torn
<1>4. KeysFirst'
  BY DEF IInv, TypeOK, ThreadsTracked, VersionsOrdered, KeysFirst, Phases,
         Session, SnapshotFails, Selecting, Fault, disk, Writers, WriterPCs,
         SaveSteps, Torn
<1>5. MarksCovered'
  BY DEF IInv, TypeOK, ThreadsTracked, VersionsOrdered, MarksCovered, Phases,
         Session, Saved, SnapshotFails, Selecting, Fault, disk, Writers,
         WriterPCs, SaveSteps, Torn
<1>6. CleanExitDurable'
  BY DEF IInv, TypeOK, ThreadsTracked, VersionsOrdered, MarksCovered,
         CleanExitDurable, Phases, Session, Saved, SnapshotFails, Selecting,
         Fault, disk, Writers, WriterPCs, SaveSteps, Torn
<1> QED
  BY <1>1, <1>2, <1>3, <1>4, <1>5, <1>6 DEF IInv

(* SaveDone preserves the inductive invariant. *)
LEMMA SaveDoneIInv ==
  ASSUME IInv, SaveDone
  PROVE  IInv'
<1>1. TypeOK'
  BY DEF IInv, TypeOK, Phases, SaveDone, Selecting, Finish, disk, Writers,
         WriterPCs, SaveSteps, Torn
<1>2. ThreadsTracked'
  BY DEF IInv, TypeOK, ThreadsTracked, Phases, Session, SaveDone, Selecting,
         Finish, disk, Writers, WriterPCs, SaveSteps, Torn
<1>3. VersionsOrdered'
  BY DEF IInv, TypeOK, ThreadsTracked, VersionsOrdered, Phases, Session,
         SaveDone, Selecting, Finish, disk, Writers, WriterPCs, SaveSteps,
         Torn
<1>4. KeysFirst'
  BY DEF IInv, TypeOK, ThreadsTracked, VersionsOrdered, KeysFirst, Phases,
         Session, SaveDone, Selecting, Finish, disk, Writers, WriterPCs,
         SaveSteps, Torn
<1>5. MarksCovered'
  BY DEF IInv, TypeOK, ThreadsTracked, VersionsOrdered, MarksCovered, Phases,
         Session, Saved, SaveDone, Selecting, Finish, disk, Writers,
         WriterPCs, SaveSteps, Torn
<1>6. CleanExitDurable'
  BY DEF IInv, TypeOK, ThreadsTracked, VersionsOrdered, MarksCovered,
         CleanExitDurable, Phases, Session, Saved, SaveDone, Selecting,
         Finish, disk, Writers, WriterPCs, SaveSteps, Torn
<1> QED
  BY <1>1, <1>2, <1>3, <1>4, <1>5, <1>6 DEF IInv

(* ExternalSave preserves the inductive invariant. *)
LEMMA ExternalSaveIInv ==
  ASSUME IInv, ExternalSave
  PROVE  IInv'
<1>1. TypeOK'
  BY DEF IInv, TypeOK, Phases, ExternalSave, Selecting, NewVersion, Begin,
         sched, disk, Writers, WriterPCs, SaveSteps, Torn
<1>2. ThreadsTracked'
  BY DEF IInv, TypeOK, ThreadsTracked, Phases, Session, ExternalSave,
         Selecting, NewVersion, Begin, sched, disk, Writers, WriterPCs,
         SaveSteps, Torn
<1>3. VersionsOrdered'
  BY DEF IInv, TypeOK, ThreadsTracked, VersionsOrdered, Phases, Session,
         ExternalSave, Selecting, NewVersion, Begin, sched, disk, Writers,
         WriterPCs, SaveSteps, Torn
<1>4. KeysFirst'
  BY DEF IInv, TypeOK, ThreadsTracked, VersionsOrdered, KeysFirst, Phases,
         Session, ExternalSave, Selecting, NewVersion, Begin, sched, disk,
         Writers, WriterPCs, SaveSteps, Torn
<1>5. MarksCovered'
  BY DEF IInv, TypeOK, ThreadsTracked, VersionsOrdered, MarksCovered, Phases,
         Session, Saved, ExternalSave, Selecting, NewVersion, Begin, sched,
         disk, Writers, WriterPCs, SaveSteps, Torn
<1>6. CleanExitDurable'
  BY DEF IInv, TypeOK, ThreadsTracked, VersionsOrdered, MarksCovered,
         CleanExitDurable, Phases, Session, Saved, ExternalSave, Selecting,
         NewVersion, Begin, sched, disk, Writers, WriterPCs, SaveSteps, Torn
<1> QED
  BY <1>1, <1>2, <1>3, <1>4, <1>5, <1>6 DEF IInv

(* ExternalSaveDone preserves the inductive invariant. *)
LEMMA ExternalSaveDoneIInv ==
  ASSUME IInv, ExternalSaveDone
  PROVE  IInv'
<1>1. TypeOK'
  BY DEF IInv, TypeOK, Phases, ExternalSaveDone, disk, Writers, WriterPCs,
         SaveSteps, Torn
<1>2. ThreadsTracked'
  BY DEF IInv, TypeOK, ThreadsTracked, Phases, Session, ExternalSaveDone,
         disk, Writers, WriterPCs, SaveSteps, Torn
<1>3. VersionsOrdered'
  BY DEF IInv, TypeOK, ThreadsTracked, VersionsOrdered, Phases, Session,
         ExternalSaveDone, disk, Writers, WriterPCs, SaveSteps, Torn
<1>4. KeysFirst'
  BY DEF IInv, TypeOK, ThreadsTracked, VersionsOrdered, KeysFirst, Phases,
         Session, ExternalSaveDone, disk, Writers, WriterPCs, SaveSteps, Torn
<1>5. MarksCovered'
  BY DEF IInv, TypeOK, ThreadsTracked, VersionsOrdered, MarksCovered, Phases,
         Session, Saved, ExternalSaveDone, disk, Writers, WriterPCs,
         SaveSteps, Torn
<1>6. CleanExitDurable'
  BY DEF IInv, TypeOK, ThreadsTracked, VersionsOrdered, MarksCovered,
         CleanExitDurable, Phases, Session, Saved, ExternalSaveDone, disk,
         Writers, WriterPCs, SaveSteps, Torn
<1> QED
  BY <1>1, <1>2, <1>3, <1>4, <1>5, <1>6 DEF IInv

(* DegradedDelete preserves the inductive invariant. *)
LEMMA DegradedDeleteIInv ==
  ASSUME IInv, DegradedDelete
  PROVE  IInv'
<1>1. TypeOK'
  BY DEF IInv, TypeOK, Phases, DegradedDelete, Selecting, NewVersion, Begin,
         disk, Writers, WriterPCs, SaveSteps, Torn
<1>2. ThreadsTracked'
  BY DEF IInv, TypeOK, ThreadsTracked, Phases, Session, DegradedDelete,
         Selecting, NewVersion, Begin, disk, Writers, WriterPCs, SaveSteps,
         Torn
<1>3. VersionsOrdered'
  BY DEF IInv, TypeOK, ThreadsTracked, VersionsOrdered, Phases, Session,
         DegradedDelete, Selecting, NewVersion, Begin, disk, Writers,
         WriterPCs, SaveSteps, Torn
<1>4. KeysFirst'
  BY DEF IInv, TypeOK, ThreadsTracked, VersionsOrdered, KeysFirst, Phases,
         Session, DegradedDelete, Selecting, NewVersion, Begin, disk,
         Writers, WriterPCs, SaveSteps, Torn
<1>5. MarksCovered'
  BY DEF IInv, TypeOK, ThreadsTracked, VersionsOrdered, MarksCovered, Phases,
         Session, Saved, DegradedDelete, Selecting, NewVersion, Begin, disk,
         Writers, WriterPCs, SaveSteps, Torn
<1>6. CleanExitDurable'
  BY DEF IInv, TypeOK, ThreadsTracked, VersionsOrdered, MarksCovered,
         CleanExitDurable, Phases, Session, Saved, DegradedDelete, Selecting,
         NewVersion, Begin, disk, Writers, WriterPCs, SaveSteps, Torn
<1> QED
  BY <1>1, <1>2, <1>3, <1>4, <1>5, <1>6 DEF IInv

(* FlushDone preserves the inductive invariant. *)
LEMMA FlushDoneIInv ==
  ASSUME IInv, FlushDone
  PROVE  IInv'
<1>1. TypeOK'
  BY DEF IInv, TypeOK, Phases, FlushDone, disk, Writers, WriterPCs,
         SaveSteps, Torn
<1>2. ThreadsTracked'
  BY DEF IInv, TypeOK, ThreadsTracked, Phases, Session, FlushDone, disk,
         Writers, WriterPCs, SaveSteps, Torn
<1>3. VersionsOrdered'
  BY DEF IInv, TypeOK, ThreadsTracked, VersionsOrdered, Phases, Session,
         FlushDone, disk, Writers, WriterPCs, SaveSteps, Torn
<1>4. KeysFirst'
  BY DEF IInv, TypeOK, ThreadsTracked, VersionsOrdered, KeysFirst, Phases,
         Session, FlushDone, disk, Writers, WriterPCs, SaveSteps, Torn
<1>5. MarksCovered'
  BY DEF IInv, TypeOK, ThreadsTracked, VersionsOrdered, MarksCovered, Phases,
         Session, Saved, FlushDone, disk, Writers, WriterPCs, SaveSteps, Torn
<1>6. CleanExitDurable'
  BY DEF IInv, TypeOK, ThreadsTracked, VersionsOrdered, MarksCovered,
         CleanExitDurable, Phases, Session, Saved, FlushDone, disk, Writers,
         WriterPCs, SaveSteps, Torn
<1> QED
  BY <1>1, <1>2, <1>3, <1>4, <1>5, <1>6 DEF IInv

(* HandOff preserves the inductive invariant. *)
LEMMA HandOffIInv ==
  ASSUME IInv, HandOff
  PROVE  IInv'
<1>1. TypeOK'
  BY DEF IInv, TypeOK, Phases, HandOff, Selecting, disk, Writers, WriterPCs,
         SaveSteps, Torn
<1>2. ThreadsTracked'
  BY DEF IInv, TypeOK, ThreadsTracked, Phases, Session, HandOff, Selecting,
         disk, Writers, WriterPCs, SaveSteps, Torn
<1>3. VersionsOrdered'
  BY DEF IInv, TypeOK, ThreadsTracked, VersionsOrdered, Phases, Session,
         HandOff, Selecting, disk, Writers, WriterPCs, SaveSteps, Torn
<1>4. KeysFirst'
  BY DEF IInv, TypeOK, ThreadsTracked, VersionsOrdered, KeysFirst, Phases,
         Session, HandOff, Selecting, disk, Writers, WriterPCs, SaveSteps,
         Torn
<1>5. MarksCovered'
  BY DEF IInv, TypeOK, ThreadsTracked, VersionsOrdered, MarksCovered, Phases,
         Session, Saved, HandOff, Selecting, disk, Writers, WriterPCs,
         SaveSteps, Torn
<1>6. CleanExitDurable'
  BY DEF IInv, TypeOK, ThreadsTracked, VersionsOrdered, MarksCovered,
         CleanExitDurable, Phases, Session, Saved, HandOff, Selecting, disk,
         Writers, WriterPCs, SaveSteps, Torn
<1> QED
  BY <1>1, <1>2, <1>3, <1>4, <1>5, <1>6 DEF IInv

(* DegradedExit preserves the inductive invariant. *)
LEMMA DegradedExitIInv ==
  ASSUME IInv, DegradedExit
  PROVE  IInv'
<1>1. TypeOK'
  BY DEF IInv, TypeOK, Phases, DegradedExit, Selecting, sched, disk, Writers,
         WriterPCs, SaveSteps, Torn
<1>2. ThreadsTracked'
  BY DEF IInv, TypeOK, ThreadsTracked, Phases, Session, DegradedExit,
         Selecting, sched, disk, Writers, WriterPCs, SaveSteps, Torn
<1>3. VersionsOrdered'
  BY DEF IInv, TypeOK, ThreadsTracked, VersionsOrdered, Phases, Session,
         DegradedExit, Selecting, sched, disk, Writers, WriterPCs, SaveSteps,
         Torn
<1>4. KeysFirst'
  BY DEF IInv, TypeOK, ThreadsTracked, VersionsOrdered, KeysFirst, Phases,
         Session, DegradedExit, Selecting, sched, disk, Writers, WriterPCs,
         SaveSteps, Torn
<1>5. MarksCovered'
  BY DEF IInv, TypeOK, ThreadsTracked, VersionsOrdered, MarksCovered, Phases,
         Session, Saved, DegradedExit, Selecting, sched, disk, Writers,
         WriterPCs, SaveSteps, Torn
<1>6. CleanExitDurable'
  BY DEF IInv, TypeOK, ThreadsTracked, VersionsOrdered, MarksCovered,
         CleanExitDurable, Phases, Session, Saved, DegradedExit, Selecting,
         sched, disk, Writers, WriterPCs, SaveSteps, Torn
<1> QED
  BY <1>1, <1>2, <1>3, <1>4, <1>5, <1>6 DEF IInv

(* Exit preserves the inductive invariant. *)
LEMMA ExitIInv ==
  ASSUME IInv, Exit
  PROVE  IInv'
<1>1. TypeOK'
  BY DEF IInv, TypeOK, Phases, Exit, Selecting, sched, disk, Writers,
         WriterPCs, SaveSteps, Torn
<1>2. ThreadsTracked'
  BY DEF IInv, TypeOK, ThreadsTracked, Phases, Session, Exit, Selecting,
         sched, disk, Writers, WriterPCs, SaveSteps, Torn
<1>3. VersionsOrdered'
  BY DEF IInv, TypeOK, ThreadsTracked, VersionsOrdered, Phases, Session,
         Exit, Selecting, sched, disk, Writers, WriterPCs, SaveSteps, Torn
<1>4. KeysFirst'
  BY DEF IInv, TypeOK, ThreadsTracked, VersionsOrdered, KeysFirst, Phases,
         Session, Exit, Selecting, sched, disk, Writers, WriterPCs,
         SaveSteps, Torn
<1>5. MarksCovered'
  BY DEF IInv, TypeOK, ThreadsTracked, VersionsOrdered, MarksCovered, Phases,
         Session, Saved, Exit, Selecting, sched, disk, Writers, WriterPCs,
         SaveSteps, Torn
<1>6. CleanExitDurable'
  BY DEF IInv, TypeOK, ThreadsTracked, VersionsOrdered, MarksCovered,
         CleanExitDurable, Phases, Session, Saved, Exit, Selecting, sched,
         disk, Writers, WriterPCs, SaveSteps, Torn
<1> QED
  BY <1>1, <1>2, <1>3, <1>4, <1>5, <1>6 DEF IInv

(* DrainInFlight preserves the inductive invariant. *)
LEMMA DrainInFlightIInv ==
  ASSUME IInv, DrainInFlight
  PROVE  IInv'
<1>1. TypeOK'
  BY DEF IInv, TypeOK, Phases, DrainInFlight, Selecting, Finish, disk,
         Writers, WriterPCs, SaveSteps, Torn
<1>2. ThreadsTracked'
  BY DEF IInv, TypeOK, ThreadsTracked, Phases, Session, DrainInFlight,
         Selecting, Finish, disk, Writers, WriterPCs, SaveSteps, Torn
<1>3. VersionsOrdered'
  BY DEF IInv, TypeOK, ThreadsTracked, VersionsOrdered, Phases, Session,
         DrainInFlight, Selecting, Finish, disk, Writers, WriterPCs,
         SaveSteps, Torn
<1>4. KeysFirst'
  BY DEF IInv, TypeOK, ThreadsTracked, VersionsOrdered, KeysFirst, Phases,
         Session, DrainInFlight, Selecting, Finish, disk, Writers, WriterPCs,
         SaveSteps, Torn
<1>5. MarksCovered'
  BY DEF IInv, TypeOK, ThreadsTracked, VersionsOrdered, MarksCovered, Phases,
         Session, Saved, DrainInFlight, Selecting, Finish, disk, Writers,
         WriterPCs, SaveSteps, Torn
<1>6. CleanExitDurable'
  BY DEF IInv, TypeOK, ThreadsTracked, VersionsOrdered, MarksCovered,
         CleanExitDurable, Phases, Session, Saved, DrainInFlight, Selecting,
         Finish, disk, Writers, WriterPCs, SaveSteps, Torn
<1> QED
  BY <1>1, <1>2, <1>3, <1>4, <1>5, <1>6 DEF IInv

(* ExitFlush preserves the inductive invariant. *)
LEMMA ExitFlushIInv ==
  ASSUME IInv, ExitFlush
  PROVE  IInv'
<1>1. TypeOK'
  BY DEF IInv, TypeOK, Phases, ExitFlush, Selecting, Begin, sched, disk,
         Writers, WriterPCs, SaveSteps, Torn
<1>2. ThreadsTracked'
  BY DEF IInv, TypeOK, ThreadsTracked, Phases, Session, ExitFlush, Selecting,
         Begin, sched, disk, Writers, WriterPCs, SaveSteps, Torn
<1>3. VersionsOrdered'
  BY DEF IInv, TypeOK, ThreadsTracked, VersionsOrdered, Phases, Session,
         ExitFlush, Selecting, Begin, sched, disk, Writers, WriterPCs,
         SaveSteps, Torn
<1>4. KeysFirst'
  BY DEF IInv, TypeOK, ThreadsTracked, VersionsOrdered, KeysFirst, Phases,
         Session, ExitFlush, Selecting, Begin, sched, disk, Writers,
         WriterPCs, SaveSteps, Torn
<1>5. MarksCovered'
  BY DEF IInv, TypeOK, ThreadsTracked, VersionsOrdered, MarksCovered, Phases,
         Session, Saved, ExitFlush, Selecting, Begin, sched, disk, Writers,
         WriterPCs, SaveSteps, Torn
<1>6. CleanExitDurable'
  BY DEF IInv, TypeOK, ThreadsTracked, VersionsOrdered, MarksCovered,
         CleanExitDurable, Phases, Session, Saved, ExitFlush, Selecting,
         Begin, sched, disk, Writers, WriterPCs, SaveSteps, Torn
<1> QED
  BY <1>1, <1>2, <1>3, <1>4, <1>5, <1>6 DEF IInv

(* ExitSnapshotFails preserves the inductive invariant. *)
LEMMA ExitSnapshotFailsIInv ==
  ASSUME IInv, ExitSnapshotFails
  PROVE  IInv'
<1>1. TypeOK'
  BY DEF IInv, TypeOK, Phases, ExitSnapshotFails, Selecting, Fault, sched,
         disk, Writers, WriterPCs, SaveSteps, Torn
<1>2. ThreadsTracked'
  BY DEF IInv, TypeOK, ThreadsTracked, Phases, Session, ExitSnapshotFails,
         Selecting, Fault, sched, disk, Writers, WriterPCs, SaveSteps, Torn
<1>3. VersionsOrdered'
  BY DEF IInv, TypeOK, ThreadsTracked, VersionsOrdered, Phases, Session,
         ExitSnapshotFails, Selecting, Fault, sched, disk, Writers,
         WriterPCs, SaveSteps, Torn
<1>4. KeysFirst'
  BY DEF IInv, TypeOK, ThreadsTracked, VersionsOrdered, KeysFirst, Phases,
         Session, ExitSnapshotFails, Selecting, Fault, sched, disk, Writers,
         WriterPCs, SaveSteps, Torn
<1>5. MarksCovered'
  BY DEF IInv, TypeOK, ThreadsTracked, VersionsOrdered, MarksCovered, Phases,
         Session, Saved, ExitSnapshotFails, Selecting, Fault, sched, disk,
         Writers, WriterPCs, SaveSteps, Torn
<1>6. CleanExitDurable'
  BY DEF IInv, TypeOK, ThreadsTracked, VersionsOrdered, MarksCovered,
         CleanExitDurable, Phases, Session, Saved, ExitSnapshotFails,
         Selecting, Fault, sched, disk, Writers, WriterPCs, SaveSteps, Torn
<1> QED
  BY <1>1, <1>2, <1>3, <1>4, <1>5, <1>6 DEF IInv

(* ExitFlushDone preserves the inductive invariant. *)
LEMMA ExitFlushDoneIInv ==
  ASSUME IInv, ExitFlushDone
  PROVE  IInv'
<1>1. TypeOK'
  BY DEF IInv, TypeOK, Phases, ExitFlushDone, sched, disk, Writers,
         WriterPCs, SaveSteps, Torn
<1>2. ThreadsTracked'
  BY DEF IInv, TypeOK, ThreadsTracked, Phases, Session, ExitFlushDone, sched,
         disk, Writers, WriterPCs, SaveSteps, Torn
<1>3. VersionsOrdered'
  BY DEF IInv, TypeOK, ThreadsTracked, VersionsOrdered, Phases, Session,
         ExitFlushDone, sched, disk, Writers, WriterPCs, SaveSteps, Torn
<1>4. KeysFirst'
  BY DEF IInv, TypeOK, ThreadsTracked, VersionsOrdered, KeysFirst, Phases,
         Session, ExitFlushDone, sched, disk, Writers, WriterPCs, SaveSteps,
         Torn
<1>5. MarksCovered'
  BY DEF IInv, TypeOK, ThreadsTracked, VersionsOrdered, MarksCovered, Phases,
         Session, Saved, ExitFlushDone, sched, disk, Writers, WriterPCs,
         SaveSteps, Torn
<1>6. CleanExitDurable'
  BY DEF IInv, TypeOK, ThreadsTracked, VersionsOrdered, MarksCovered,
         CleanExitDurable, Phases, Session, Saved, ExitFlushDone, sched,
         disk, Writers, WriterPCs, SaveSteps, Torn
<1> QED
  BY <1>1, <1>2, <1>3, <1>4, <1>5, <1>6 DEF IInv

(* Crash preserves the inductive invariant. *)
LEMMA CrashIInv ==
  ASSUME IInv, Crash
  PROVE  IInv'
<1>1. TypeOK'
  BY DEF IInv, TypeOK, Phases, Crash, sched, disk, Writers, WriterPCs,
         SaveSteps, Torn
<1>2. ThreadsTracked'
  BY DEF IInv, TypeOK, ThreadsTracked, Phases, Session, Crash, sched, disk,
         Writers, WriterPCs, SaveSteps, Torn
<1>3. VersionsOrdered'
  BY DEF IInv, TypeOK, ThreadsTracked, VersionsOrdered, Phases, Session,
         Crash, sched, disk, Writers, WriterPCs, SaveSteps, Torn
<1>4. KeysFirst'
  BY DEF IInv, TypeOK, ThreadsTracked, VersionsOrdered, KeysFirst, Phases,
         Session, Crash, sched, disk, Writers, WriterPCs, SaveSteps, Torn
<1>5. MarksCovered'
  BY DEF IInv, TypeOK, ThreadsTracked, VersionsOrdered, MarksCovered, Phases,
         Session, Saved, Crash, sched, disk, Writers, WriterPCs, SaveSteps,
         Torn
<1>6. CleanExitDurable'
  BY DEF IInv, TypeOK, ThreadsTracked, VersionsOrdered, MarksCovered,
         CleanExitDurable, Phases, Session, Saved, Crash, sched, disk,
         Writers, WriterPCs, SaveSteps, Torn
<1> QED
  BY <1>1, <1>2, <1>3, <1>4, <1>5, <1>6 DEF IInv

(* WriteSecrets preserves the inductive invariant. *)
LEMMA WriteSecretsIInv ==
  ASSUME NEW w \in Writers, IInv, WriteSecrets(w)
  PROVE  IInv'
<1>1. TypeOK'
  BY DEF IInv, TypeOK, Phases, WriteSecrets, sched, Writers, WriterPCs,
         SaveSteps, Torn
<1>2. ThreadsTracked'
  BY DEF IInv, TypeOK, ThreadsTracked, Phases, Session, WriteSecrets, sched,
         Writers, WriterPCs, SaveSteps, Torn
<1>3. VersionsOrdered'
  BY DEF IInv, TypeOK, ThreadsTracked, VersionsOrdered, Phases, Session,
         WriteSecrets, sched, Writers, WriterPCs, SaveSteps, Torn
<1>4. KeysFirst'
  BY DEF IInv, TypeOK, ThreadsTracked, VersionsOrdered, KeysFirst, Phases,
         Session, WriteSecrets, sched, Writers, WriterPCs, SaveSteps, Torn
<1>5. MarksCovered'
  BY DEF IInv, TypeOK, ThreadsTracked, VersionsOrdered, MarksCovered, Phases,
         Session, Saved, WriteSecrets, sched, Writers, WriterPCs, SaveSteps,
         Torn
<1>6. CleanExitDurable'
  BY DEF IInv, TypeOK, ThreadsTracked, VersionsOrdered, MarksCovered,
         CleanExitDurable, Phases, Session, Saved, WriteSecrets, sched,
         Writers, WriterPCs, SaveSteps, Torn
<1> QED
  BY <1>1, <1>2, <1>3, <1>4, <1>5, <1>6 DEF IInv

(* TruncateFile preserves the inductive invariant. *)
LEMMA TruncateFileIInv ==
  ASSUME NEW w \in Writers, IInv, TruncateFile(w)
  PROVE  IInv'
<1>1. TypeOK'
  BY DEF IInv, TypeOK, Phases, TruncateFile, sched, Writers, WriterPCs,
         SaveSteps, Torn
<1>2. ThreadsTracked'
  BY DEF IInv, TypeOK, ThreadsTracked, Phases, Session, TruncateFile, sched,
         Writers, WriterPCs, SaveSteps, Torn
<1>3. VersionsOrdered'
  BY DEF IInv, TypeOK, ThreadsTracked, VersionsOrdered, Phases, Session,
         TruncateFile, sched, Writers, WriterPCs, SaveSteps, Torn
<1>4. KeysFirst'
  BY DEF IInv, TypeOK, ThreadsTracked, VersionsOrdered, KeysFirst, Phases,
         Session, TruncateFile, sched, Writers, WriterPCs, SaveSteps, Torn
<1>5. MarksCovered'
  BY DEF IInv, TypeOK, ThreadsTracked, VersionsOrdered, MarksCovered, Phases,
         Session, Saved, TruncateFile, sched, Writers, WriterPCs, SaveSteps,
         Torn
<1>6. CleanExitDurable'
  BY DEF IInv, TypeOK, ThreadsTracked, VersionsOrdered, MarksCovered,
         CleanExitDurable, Phases, Session, Saved, TruncateFile, sched,
         Writers, WriterPCs, SaveSteps, Torn
<1> QED
  BY <1>1, <1>2, <1>3, <1>4, <1>5, <1>6 DEF IInv

(* WriteFile preserves the inductive invariant. *)
LEMMA WriteFileIInv ==
  ASSUME NEW w \in Writers, IInv, WriteFile(w)
  PROVE  IInv'
<1>1. TypeOK'
  BY DEF IInv, TypeOK, Phases, WriteFile, sched, Writers, WriterPCs,
         SaveSteps, Torn
<1>2. ThreadsTracked'
  BY DEF IInv, TypeOK, ThreadsTracked, Phases, Session, WriteFile, sched,
         Writers, WriterPCs, SaveSteps, Torn
<1>3. VersionsOrdered'
  BY DEF IInv, TypeOK, ThreadsTracked, VersionsOrdered, Phases, Session,
         WriteFile, sched, Writers, WriterPCs, SaveSteps, Torn
<1>4. KeysFirst'
  BY DEF IInv, TypeOK, ThreadsTracked, VersionsOrdered, KeysFirst, Phases,
         Session, WriteFile, sched, Writers, WriterPCs, SaveSteps, Torn
<1>5. MarksCovered'
  BY DEF IInv, TypeOK, ThreadsTracked, VersionsOrdered, MarksCovered, Phases,
         Session, Saved, WriteFile, sched, Writers, WriterPCs, SaveSteps,
         Torn
<1>6. CleanExitDurable'
  BY DEF IInv, TypeOK, ThreadsTracked, VersionsOrdered, MarksCovered,
         CleanExitDurable, Phases, Session, Saved, WriteFile, sched, Writers,
         WriterPCs, SaveSteps, Torn
<1> QED
  BY <1>1, <1>2, <1>3, <1>4, <1>5, <1>6 DEF IInv

(* SaveFails preserves the inductive invariant. *)
LEMMA SaveFailsIInv ==
  ASSUME NEW w \in Writers, IInv, SaveFails(w)
  PROVE  IInv'
<1>1. TypeOK'
  BY DEF IInv, TypeOK, Phases, SaveFails, Fault, sched, disk, Writers,
         WriterPCs, SaveSteps, Torn
<1>2. ThreadsTracked'
  BY DEF IInv, TypeOK, ThreadsTracked, Phases, Session, SaveFails, Fault,
         sched, disk, Writers, WriterPCs, SaveSteps, Torn
<1>3. VersionsOrdered'
  BY DEF IInv, TypeOK, ThreadsTracked, VersionsOrdered, Phases, Session,
         SaveFails, Fault, sched, disk, Writers, WriterPCs, SaveSteps, Torn
<1>4. KeysFirst'
  BY DEF IInv, TypeOK, ThreadsTracked, VersionsOrdered, KeysFirst, Phases,
         Session, SaveFails, Fault, sched, disk, Writers, WriterPCs,
         SaveSteps, Torn
<1>5. MarksCovered'
  BY DEF IInv, TypeOK, ThreadsTracked, VersionsOrdered, MarksCovered, Phases,
         Session, Saved, SaveFails, Fault, sched, disk, Writers, WriterPCs,
         SaveSteps, Torn
<1>6. CleanExitDurable'
  BY DEF IInv, TypeOK, ThreadsTracked, VersionsOrdered, MarksCovered,
         CleanExitDurable, Phases, Session, Saved, SaveFails, Fault, sched,
         disk, Writers, WriterPCs, SaveSteps, Torn
<1> QED
  BY <1>1, <1>2, <1>3, <1>4, <1>5, <1>6 DEF IInv

(* Every step, stuttering included, preserves the inductive invariant. *)
LEMMA NextIInv == IInv /\ [Next]_vars => IInv'
<1> SUFFICES ASSUME IInv, [Next]_vars PROVE IInv'
  OBVIOUS
<1>1. CASE Start
  BY <1>1, StartIInv
<1>2. CASE MarkDirty
  BY <1>2, MarkDirtyIInv
<1>3. CASE TakeForSave
  BY <1>3, TakeForSaveIInv
<1>4. CASE SnapshotFails
  BY <1>4, SnapshotFailsIInv
<1>5. CASE SaveDone
  BY <1>5, SaveDoneIInv
<1>6. CASE ExternalSave
  BY <1>6, ExternalSaveIInv
<1>7. CASE ExternalSaveDone
  BY <1>7, ExternalSaveDoneIInv
<1>8. CASE DegradedDelete
  BY <1>8, DegradedDeleteIInv
<1>9. CASE FlushDone
  BY <1>9, FlushDoneIInv
<1>10. CASE HandOff
  BY <1>10, HandOffIInv
<1>11. CASE DegradedExit
  BY <1>11, DegradedExitIInv
<1>12. CASE Exit
  BY <1>12, ExitIInv
<1>13. CASE DrainInFlight
  BY <1>13, DrainInFlightIInv
<1>14. CASE ExitFlush
  BY <1>14, ExitFlushIInv
<1>15. CASE ExitSnapshotFails
  BY <1>15, ExitSnapshotFailsIInv
<1>16. CASE ExitFlushDone
  BY <1>16, ExitFlushDoneIInv
<1>17. CASE Crash
  BY <1>17, CrashIInv
<1>18. CASE \E w \in Writers : WriterStep(w) \/ SaveFails(w)
  BY <1>18, WriteSecretsIInv, TruncateFileIInv, WriteFileIInv, SaveFailsIInv
  DEF WriterStep
<1>19. CASE UNCHANGED vars
  BY <1>19 DEF vars, IInv, TypeOK, ThreadsTracked, VersionsOrdered, KeysFirst,
         MarksCovered, CleanExitDurable, Phases, Session, Saved, Writers,
         WriterPCs, SaveSteps, Torn
<1> QED
  BY <1>1, <1>2, <1>3, <1>4, <1>5, <1>6, <1>7, <1>8, <1>9, <1>10,
     <1>11, <1>12, <1>13, <1>14, <1>15, <1>16, <1>17, <1>18, <1>19
  DEF Next

(* IInv is an invariant of the specification. *)
THEOREM Inductive == Spec => []IInv
<1>1. Init => IInv
  BY InitIInv
<1>2. IInv /\ [Next]_vars => IInv'
  BY NextIInv
<1> QED
  BY <1>1, <1>2, PTL DEF Spec

(* The scheduler, the threads and the disk keep their types; a session      *)
(* never runs on a half-written config file.                                *)
THEOREM TypeCorrect == Spec => []TypeOK
<1>1. IInv => TypeOK
  BY DEF IInv
<1> QED
  BY <1>1, Inductive, PTL

(* No mark_dirty is lost while the runtime loop selects. *)
THEOREM MarksKept == Spec => []NoLostMark
<1>1. IInv => NoLostMark
  BY DEF IInv, TypeOK, ThreadsTracked, MarksCovered, NoLostMark, Session, Saved
<1> QED
  BY <1>1, Inductive, PTL

(* A clean exit of the runtime loop leaves every marked change on disk. *)
THEOREM ExitDurable == Spec => []CleanExitDurable
<1>1. IInv => CleanExitDurable
  BY DEF IInv
<1> QED
  BY <1>1, Inductive, PTL

(* Without overlapping saves, no crash or failure leaves a record on disk   *)
(* whose keys are not.                                                      *)
THEOREM KeysCoverRecords == Spec => []KeysBeforeRecords
<1>1. IInv => KeysBeforeRecords
  BY DEF IInv, KeysFirst, KeysBeforeRecords
<1> QED
  BY <1>1, Inductive, PTL
=============================================================================
