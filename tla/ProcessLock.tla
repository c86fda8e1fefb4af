---------------------------- MODULE ProcessLock ----------------------------
(***************************************************************************)
(* Processes that start on one profile and the lock file that keeps all    *)
(* but one out.  Every call on the file system is a step; a process may    *)
(* die between any two.  No process number is used twice.                  *)
(***************************************************************************)
CONSTANTS Procs, NoFile, Empty      \* process numbers; no lock file; a lock file without text

ASSUME ProcsAssumption == NoFile \notin Procs /\ Empty \notin Procs /\ NoFile # Empty

VARIABLES
    stage,      \* where each process is
    lock,       \* the lock file: NoFile, Empty, or the number in it
    writes,     \* processes about to write to the file there is now
    seen,       \* the number each process read
    stolen      \* history: a file was taken for stale that was no longer the one read

lockVars == <<stage, lock, writes, seen, stolen>>

Stages == {"new", "writing", "reading", "judging", "taking", "running", "gone"}

LockInit ==
    /\ stage = [p \in Procs |-> "new"] /\ lock = NoFile /\ writes = {}
    /\ seen = [p \in Procs |-> NoFile] /\ stolen = FALSE

Go(p, s) == stage' = [stage EXCEPT ![p] = s]

(* create_new: the file is created by exactly one process. *)
Create(p) ==
    /\ stage[p] = "new"
    /\ \/ /\ lock = NoFile /\ lock' = Empty /\ writes' = {p} /\ Go(p, "writing")
       \/ /\ lock # NoFile /\ Go(p, "reading") /\ UNCHANGED <<lock, writes>>
    /\ UNCHANGED <<seen, stolen>>

(* write_all: the number reaches the file this process has open, if it is    *)
(* still the one in the directory; a failed write ends the start.            *)
Write(p) ==
    /\ stage[p] = "writing"
    /\ \/ Go(p, "running") /\ lock' = IF p \in writes THEN p ELSE lock
       \/ Go(p, "gone") /\ UNCHANGED lock
    /\ writes' = writes \ {p}
    /\ UNCHANGED <<seen, stolen>>

(* A variant that takes a file without a number for a stale one. *)
Read_EmptyIsStale(p) ==
    /\ stage[p] = "reading" /\ seen' = [seen EXCEPT ![p] = lock]
    /\ Go(p, IF lock = NoFile THEN "gone" ELSE IF lock = Empty THEN "taking" ELSE "judging")
    /\ UNCHANGED <<lock, writes, stolen>>

(* read_to_string and Pid::from_str: no file and no number are errors. *)
Read(p) ==
    /\ stage[p] = "reading" /\ seen' = [seen EXCEPT ![p] = lock]
    /\ Go(p, IF lock \in Procs THEN "judging" ELSE "gone")
    /\ UNCHANGED <<lock, writes, stolen>>

Alive(q) == stage[q] \notin {"new", "gone"}

(* The processes of the machine are listed after the file is read. *)
Judge(p) ==
    /\ stage[p] = "judging"
    /\ Go(p, IF Alive(seen[p]) THEN "gone" ELSE "taking")
    /\ UNCHANGED <<lock, writes, seen, stolen>>

(* create_lock_file: fs::write truncates or creates, then writes. *)
Truncate(p) ==
    /\ stage[p] = "taking" /\ lock' = Empty /\ Go(p, "writing")
    /\ writes' = IF lock = NoFile THEN {p} ELSE writes \cup {p}
    /\ stolen' = (stolen \/ lock # seen[p])
    /\ UNCHANGED seen

(* remove_lock_file at exit, whatever the file holds. *)
Exit(p) ==
    /\ stage[p] = "running" /\ Go(p, "gone") /\ lock' = NoFile /\ writes' = {}
    /\ UNCHANGED <<seen, stolen>>

(* The process dies, or leaves main on an early error. *)
Crash(p) ==
    /\ Alive(p) /\ Go(p, "gone") /\ writes' = writes \ {p}
    /\ UNCHANGED <<lock, seen, stolen>>

LockNext ==
    \E p \in Procs : \/ Create(p) \/ Write(p) \/ Read(p) \/ Judge(p) \/ Truncate(p) \/ Exit(p)
                     \/ Crash(p)

LockSpec == LockInit /\ [][LockNext]_lockVars

-----------------------------------------------------------------------------
LockTypeOK ==
    /\ stage \in [Procs -> Stages] /\ lock \in Procs \cup {NoFile, Empty}
    /\ writes \subseteq Procs /\ seen \in [Procs -> Procs \cup {NoFile, Empty}]
    /\ stolen \in BOOLEAN

(* Two processes run on one profile only when one of them overwrote a lock  *)
(* that had changed since it was read.                                      *)
OneInstance ==
    ~stolen => \A p, q \in Procs : stage[p] = "running" /\ stage[q] = "running" => p = q
=============================================================================
