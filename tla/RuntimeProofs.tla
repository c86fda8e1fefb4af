--------------------------- MODULE RuntimeProofs ---------------------------
(***************************************************************************)
(* The machines of the runtime that share no state, each for every value   *)
(* of its constants: the sync driver, the single-instance lock, the        *)
(* persona sessions, a persona's listener, the status poll and the         *)
(* Elections panel; and that the runs' type invariant holds of them all.   *)
(***************************************************************************)
EXTENDS MCRuntime, FiniteSetTheorems, SequenceTheorems, TLAPS

-----------------------------------------------------------------------------
(* SyncDriver.  For every choice of the gap, the pull interval and the       *)
(* backoffs: cycles of the sync never overlap, and a saved change waits no   *)
(* longer than the longest of them.                                          *)
LongestWait == IF clean THEN MinGap ELSE BackoffMax

(* A change that no exchange carries is asked for, or else the timed pull   *)
(* comes before the backoff ends.                                           *)
ChangeAskedFor ==
    /\ fresh /\ ~disabled /\ (in_flight \/ clean) => wanted
    /\ fresh /\ ~wanted /\ ~disabled => pull <= wait

(* What a change has waited, and what it still has to wait. *)
Patience ==
    /\ (~fresh \/ in_flight) => age = 0
    /\ ~in_flight /\ ~disabled => wait <= LongestWait
    /\ linked /\ ~in_flight /\ ~disabled /\ age > 0 => age + wait <= LongestWait
    /\ ~linked => age = 0

DriverInv == DriverTypeOK /\ OneCycle /\ ChangeAskedFor /\ Patience

LEMMA Ticks ==
    /\ MinGap \in Nat /\ PullEvery \in Nat /\ BackoffStart \in Nat /\ BackoffMax \in Nat
    /\ MinGap > 0 /\ PullEvery > 0 /\ BackoffStart > 0 /\ BackoffMax > 0
    /\ MinGap <= BackoffMax /\ PullEvery <= BackoffMax
  BY DriverAssumption

(* The type invariant in two parts: flags and numbers. *)
DriverFlags ==
    /\ linked \in BOOLEAN /\ in_flight \in BOOLEAN /\ disabled \in BOOLEAN
    /\ wanted \in BOOLEAN /\ clean \in BOOLEAN /\ fresh \in BOOLEAN /\ carried \in BOOLEAN

DriverNumbers ==
    /\ wait \in 0..BackoffMax /\ pull \in 0..PullEvery /\ backoff \in 1..BackoffMax
    /\ running \in Nat /\ age \in Nat

LEMMA DriverTypeParts == DriverTypeOK <=> DriverFlags /\ DriverNumbers
  BY Zenon DEF DriverTypeOK, DriverFlags, DriverNumbers

LEMMA DriverInitHolds == DriverInit => DriverInv
<1> SUFFICES ASSUME DriverInit PROVE DriverInv
  OBVIOUS
<1>1. DriverFlags
  BY Zenon DEF DriverInit, DriverFlags
<1>2. DriverNumbers
  BY Ticks DEF DriverInit, DriverNumbers, AtMost
<1>3. OneCycle /\ ChangeAskedFor /\ Patience
  BY Ticks DEF DriverInit, OneCycle, ChangeAskedFor, Patience, LongestWait
<1> QED BY <1>1, <1>2, <1>3, DriverTypeParts DEF DriverInv

LEMMA DriverFlagsStep == DriverFlags /\ [DriverNext]_driverVars => DriverFlags'
<1> SUFFICES ASSUME DriverFlags, [DriverNext]_driverVars PROVE DriverFlags'
  OBVIOUS
<1> USE DEF DriverFlags, history
<1>1. CASE Link
  BY <1>1, Zenon DEF Link
<1>2. CASE SaveDone
  BY <1>2, Zenon DEF SaveDone
<1>3. CASE Tick
  <2>1. CASE linked /\ should_start(Less(wait), Less(pull))
    BY <1>3, <2>1, Zenon DEF Tick
  <2>2. CASE ~(linked /\ should_start(Less(wait), Less(pull)))
    BY <1>3, <2>2, Zenon DEF Tick
  <2> QED BY <2>1, <2>2
<1>4. ASSUME NEW outcome \in {"ok", "transient", "contract", "refused"}, NEW lost_race \in BOOLEAN,
             CycleDone(outcome, lost_race)
      PROVE  DriverFlags'
  <2>1. in_flight' \in BOOLEAN /\ clean' \in BOOLEAN /\ disabled' \in BOOLEAN
    BY <1>4, Zenon DEF CycleDone, finished
  <2>2. wanted' \in BOOLEAN /\ fresh' \in BOOLEAN /\ carried' \in BOOLEAN /\ linked' \in BOOLEAN
    BY <1>4, Zenon DEF CycleDone, StillWanted
  <2> QED BY <2>1, <2>2
<1>5. CASE UNCHANGED driverVars
  BY <1>5, Zenon DEF driverVars
<1> QED BY <1>1, <1>2, <1>3, <1>4, <1>5 DEF DriverNext

LEMMA DriverNumbersStep ==
    DriverNumbers /\ OneCycle /\ [DriverNext]_driverVars => DriverNumbers' /\ OneCycle'
<1> SUFFICES ASSUME DriverNumbers, OneCycle, [DriverNext]_driverVars PROVE DriverNumbers' /\ OneCycle'
  OBVIOUS
<1> USE Ticks DEF DriverNumbers, OneCycle, history
<1>1. CASE Link
  BY <1>1 DEF Link
<1>2. CASE SaveDone
  BY <1>2 DEF SaveDone
<1>3. CASE Tick
  BY <1>3 DEF Tick, Less, should_start
<1>4. ASSUME NEW outcome \in {"ok", "transient", "contract", "refused"}, NEW lost_race \in BOOLEAN,
             CycleDone(outcome, lost_race)
      PROVE  DriverNumbers' /\ OneCycle'
  <2>1. running = 1 /\ running' = 0 /\ in_flight' = FALSE /\ age' = 0 /\ pull' = pull
    BY <1>4 DEF CycleDone, finished
  <2>2. AtMost(BackoffStart, BackoffMax) \in 1..BackoffMax /\ Doubled \in 1..BackoffMax
    BY DEF Doubled, AtMost
  <2>3. wait' \in 0..BackoffMax /\ backoff' \in 1..BackoffMax
    BY <1>4, <2>2 DEF CycleDone, finished
  <2> QED BY <2>1, <2>3
<1>5. CASE UNCHANGED driverVars
  BY <1>5 DEF driverVars
<1> QED BY <1>1, <1>2, <1>3, <1>4, <1>5 DEF DriverNext

LEMMA DriverTypeStep ==
    DriverTypeOK /\ OneCycle /\ [DriverNext]_driverVars => DriverTypeOK' /\ OneCycle'
<1>1. DriverTypeOK' <=> DriverFlags' /\ DriverNumbers'
  BY Zenon DEF DriverTypeOK, DriverFlags, DriverNumbers
<1> QED BY <1>1, DriverTypeParts, DriverFlagsStep, DriverNumbersStep

LEMMA DriverStep == DriverInv /\ [DriverNext]_driverVars => DriverInv'
<1> SUFFICES ASSUME DriverInv, [DriverNext]_driverVars PROVE DriverInv'
  OBVIOUS
<1>0. DriverTypeOK /\ OneCycle /\ DriverTypeOK' /\ OneCycle'
  BY DriverTypeStep DEF DriverInv
<1> USE Ticks, <1>0 DEF DriverTypeOK, OneCycle, ChangeAskedFor, Patience, LongestWait, history
<1>1. CASE Link
  BY <1>1 DEF Link, DriverInv
<1>2. CASE SaveDone
  BY <1>2 DEF SaveDone, DriverInv
<1>3. CASE Tick
  <2>1. CASE linked /\ should_start(Less(wait), Less(pull))
    BY <1>3, <2>1 DEF Tick, DriverInv, should_start, Less
  <2>2. CASE ~(linked /\ should_start(Less(wait), Less(pull)))
    <3>0. /\ UNCHANGED <<in_flight, wanted, fresh, disabled, clean, linked>>
          /\ wait' = Less(wait) /\ pull' = Less(pull)
      BY <1>3, <2>2 DEF Tick
    <3>1. ChangeAskedFor'
      <4>1. pull <= wait => Less(pull) <= Less(wait)
        BY DEF Less
      <4> QED BY <3>0, <4>1 DEF DriverInv
    <3>2. ASSUME linked, ~in_flight, ~disabled, fresh PROVE Less(wait) = wait - 1 /\ wait > 0
      BY <2>2, <3>2 DEF DriverInv, should_start, Less
    <3>3. Patience'
      <4>1. CASE linked /\ fresh /\ ~in_flight /\ ~disabled
        <5>1. age' = age + 1
          BY <1>3, <2>2, <4>1 DEF Tick
        <5>2. wait' = wait - 1 /\ wait > 0
          BY <3>0, <3>2, <4>1
        <5> QED BY <3>0, <4>1, <5>1, <5>2 DEF DriverInv
      <4>2. CASE ~(linked /\ fresh /\ ~in_flight /\ ~disabled)
        <5>1. age' = age
          BY <1>3, <2>2, <4>2 DEF Tick
        <5>2. wait' <= wait
          BY <3>0 DEF Less
        <5> QED BY <3>0, <4>2, <5>1, <5>2 DEF DriverInv
      <4> QED BY <4>1, <4>2
    <3> QED BY <1>0, <3>1, <3>3 DEF DriverInv
  <2> QED BY <2>1, <2>2
<1>4. ASSUME NEW outcome \in {"ok", "transient", "contract", "refused"}, NEW lost_race \in BOOLEAN,
             CycleDone(outcome, lost_race)
      PROVE  DriverInv'
  <2>1. in_flight /\ ~in_flight' /\ age' = 0 /\ pull' = pull
    BY <1>4 DEF CycleDone, finished
  <2>2. Patience'
    BY <1>4, <2>1 DEF CycleDone, finished
  <2>3. ChangeAskedFor'
    <3>1. CASE outcome = "ok"
      BY <1>4, <2>1, <3>1 DEF CycleDone, finished, StillWanted, DriverInv
    <3>2. CASE outcome = "transient"
      BY <1>4, <2>1, <3>2 DEF CycleDone, finished, StillWanted, DriverInv
    <3>3. CASE outcome = "contract"
      BY <1>4, <2>1, <3>3 DEF CycleDone, finished, StillWanted, DriverInv
    <3>4. CASE outcome = "refused"
      BY <1>4, <2>1, <3>4 DEF CycleDone, finished, StillWanted, DriverInv
    <3> QED BY <1>4, <3>1, <3>2, <3>3, <3>4
  <2> QED BY <1>0, <2>2, <2>3 DEF DriverInv
<1>5. CASE UNCHANGED driverVars
  BY <1>5 DEF driverVars, DriverInv
<1> QED BY <1>1, <1>2, <1>3, <1>4, <1>5 DEF DriverNext

(* Every variable of the driver keeps its type; the backoff never passes its *)
(* ceiling, however long cycles fail.                                        *)
THEOREM DriverTypeCorrect == DriverSpec => []DriverTypeOK
<1>1. DriverInv => DriverTypeOK
  BY DEF DriverInv
<1> QED BY <1>1, DriverInitHolds, DriverStep, PTL DEF DriverSpec

(* should_start never lets a second exchange begin while one is under way. *)
THEOREM OneCycleAlways == DriverSpec => []OneCycle
<1>1. DriverInv => OneCycle
  BY DEF DriverInv
<1> QED BY <1>1, DriverInitHolds, DriverStep, PTL DEF DriverSpec

(* A saved change waits at most the gap between cycles, or the longest       *)
(* backoff once cycles fail, whatever the outcomes and their order.          *)
THEOREM PromptlyCarriedAlways == DriverSpec => []PromptlyCarried
<1>1. DriverInv => PromptlyCarried
  BY Ticks DEF DriverInv, PromptlyCarried, Patience, LongestWait, DriverTypeOK
<1> QED BY <1>1, DriverInitHolds, DriverStep, PTL DEF DriverSpec

-----------------------------------------------------------------------------
(* ProcessLock.  Any number of processes may start on one profile: while no  *)
(* changed lock is taken for a stale one, at most one of them runs.          *)
OwnsFile(p) == stage[p] \in {"writing", "running"}

(* A number in the file, or read from it, is that of a process that has run. *)
NumbersHaveRun ==
    /\ lock \in Procs => stage[lock] \in {"running", "gone"}
    /\ \A p \in Procs : seen[p] \in Procs => stage[seen[p]] \in {"running", "gone"}

(* Only a process that is gone has its file taken over. *)
TakenFromTheDead ==
    /\ \A p \in Procs : stage[p] = "judging" => seen[p] \in Procs
    /\ \A p \in Procs : stage[p] = "taking" => seen[p] \in Procs /\ stage[seen[p]] = "gone"

(* The file tells whose it is. *)
FileOfOwner ==
    \A p \in Procs :
        /\ stage[p] = "writing" => lock = Empty /\ p \in writes
        /\ stage[p] = "running" => lock = p

OneOwner == \A p, q \in Procs : OwnsFile(p) /\ OwnsFile(q) => p = q

LockInv ==
    /\ LockTypeOK /\ NumbersHaveRun /\ TakenFromTheDead
    /\ ~stolen => FileOfOwner /\ OneOwner

LEMMA LockInitHolds == LockInit => LockInv
  BY ProcsAssumption DEF LockInit, LockInv, LockTypeOK, Stages, NumbersHaveRun, TakenFromTheDead,
     FileOfOwner, OneOwner, OwnsFile

LEMMA LockTypeStep == LockTypeOK /\ [LockNext]_lockVars => LockTypeOK'
<1> SUFFICES ASSUME LockTypeOK, [LockNext]_lockVars PROVE LockTypeOK'
  OBVIOUS
<1> USE DEF LockTypeOK, Stages
<1>1. ASSUME NEW p \in Procs, Create(p) PROVE LockTypeOK'
  BY <1>1 DEF Create, Go
<1>2. ASSUME NEW p \in Procs, Write(p) PROVE LockTypeOK'
  BY <1>2 DEF Write, Go
<1>3. ASSUME NEW p \in Procs, Read(p) PROVE LockTypeOK'
  BY <1>3 DEF Read, Go
<1>4. ASSUME NEW p \in Procs, Judge(p) PROVE LockTypeOK'
  BY <1>4 DEF Judge, Go
<1>5. ASSUME NEW p \in Procs, Truncate(p) PROVE LockTypeOK'
  BY <1>5, Zenon DEF Truncate, Go
<1>6. ASSUME NEW p \in Procs, Exit(p) PROVE LockTypeOK'
  BY <1>6 DEF Exit, Go
<1>7. ASSUME NEW p \in Procs, Crash(p) PROVE LockTypeOK'
  BY <1>7 DEF Crash, Go
<1>8. CASE UNCHANGED lockVars
  BY <1>8 DEF lockVars
<1> QED BY <1>1, <1>2, <1>3, <1>4, <1>5, <1>6, <1>7, <1>8 DEF LockNext

LEMMA LockStep == LockInv /\ [LockNext]_lockVars => LockInv'
<1> SUFFICES ASSUME LockInv, [LockNext]_lockVars PROVE LockInv'
  OBVIOUS
<1>0. LockTypeOK /\ LockTypeOK'
  BY LockTypeStep DEF LockInv
<1> USE ProcsAssumption, <1>0 DEF LockInv, LockTypeOK, Stages, NumbersHaveRun, TakenFromTheDead,
      FileOfOwner, OneOwner, OwnsFile, Go
<1>1. ASSUME NEW p \in Procs, Create(p) PROVE LockInv'
  BY <1>1 DEF Create
<1>2. ASSUME NEW p \in Procs, Write(p) PROVE LockInv'
  BY <1>2 DEF Write
<1>3. ASSUME NEW p \in Procs, Read(p) PROVE LockInv'
  BY <1>3 DEF Read
<1>4. ASSUME NEW p \in Procs, Judge(p) PROVE LockInv'
  BY <1>4 DEF Judge, Alive
<1>5. ASSUME NEW p \in Procs, Truncate(p) PROVE LockInv'
  <2>1. seen[p] \in Procs /\ stage[seen[p]] = "gone"
    BY <1>5 DEF Truncate
  <2>2. NumbersHaveRun'
    BY <1>5 DEF Truncate
  <2>3. TakenFromTheDead'
    BY <1>5 DEF Truncate
  <2>4. ASSUME ~stolen' PROVE FileOfOwner' /\ OneOwner'
    <3>1. ~stolen /\ lock = seen[p]
      BY <1>5, <2>4 DEF Truncate
    <3>2. \A q \in Procs : ~OwnsFile(q)
      BY <2>1, <3>1
    <3>3. \A q \in Procs : OwnsFile(q)' => q = p
      BY <1>5, <3>2 DEF Truncate
    <3>4. lock' = Empty /\ p \in writes' /\ stage'[p] = "writing"
      BY <1>5 DEF Truncate
    <3> QED BY <3>3, <3>4
  <2> QED BY <2>2, <2>3, <2>4
<1>6. ASSUME NEW p \in Procs, Exit(p) PROVE LockInv'
  BY <1>6 DEF Exit
<1>7. ASSUME NEW p \in Procs, Crash(p) PROVE LockInv'
  BY <1>7 DEF Crash, Alive
<1>8. CASE UNCHANGED lockVars
  BY <1>8 DEF lockVars
<1> QED BY <1>1, <1>2, <1>3, <1>4, <1>5, <1>6, <1>7, <1>8 DEF LockNext

(* Every variable of the lock keeps its type. *)
THEOREM LockTypeCorrect == LockSpec => []LockTypeOK
<1>1. LockInit => LockTypeOK
  BY LockInitHolds DEF LockInv
<1> QED BY <1>1, LockTypeStep, PTL DEF LockSpec

(* check_duplicate_instance keeps all but one process out, for any number of *)
(* starts, exits and crashes, unless a lock is overwritten that is no longer *)
(* the one that was read.                                                    *)
THEOREM OneInstanceAlways == LockSpec => []OneInstance
<1>1. LockInv => OneInstance
  BY DEF LockInv, OneInstance, OneOwner, OwnsFile
<1> QED BY <1>1, LockInitHolds, LockStep, PTL DEF LockSpec

-----------------------------------------------------------------------------
(* Sessions.  For any personas, communities, cap and channel: never more     *)
(* sessions than the cap, and a session serves exactly the live memberships  *)
(* that were not refused one.                                                *)
LinkStates == {"absent", "down", "up"}
Statuses == {"none", "Connecting", "Connected", "Failed", "Disconnected"}
Transitions == Personas \X {"down", "up"}

Registry ==
    /\ member \in [Personas \X Vtcs -> {"none", "live", "ended"}]
    /\ serves \in [Personas -> SUBSET Vtcs] /\ Cardinality(HasSession(serves)) <= MaxSessions
    /\ status \in [Personas -> Statuses]
    /\ \A p \in Personas : serves[p] = {} <=> status[p] = "none"
    /\ net \in [Personas -> LinkStates]
    /\ moves \in 0..MaxMoves
Reports ==
    /\ sampled \in [Personas -> LinkStates]
    /\ events \in Seq(Transitions) /\ Len(events) <= Capacity
    /\ online \subseteq Personas
    /\ indicator \in {"Connected", "Connecting", "PersonaOnline", "NoActiveCommunity"}
    /\ flaps \in 0..MaxFlaps
SessionsInv == Registry /\ Reports /\ SessionForLive

LEMMA Aggregated ==
    ASSUME NEW s, NEW st, NEW on
    PROVE  aggregate_status(s, st, on) \in {"Connected", "Connecting", "PersonaOnline", "NoActiveCommunity"}
  BY DEF aggregate_status

LEMMA SomePersonas ==
    ASSUME NEW S, S \subseteq Personas
    PROVE  IsFiniteSet(S) /\ Cardinality(S) \in Nat
  BY SessionsAssumption, FS_Subset, FS_CardinalityType

(* A registry whose sessions are among those of another keeps to the cap.   *)
LEMMA FewerSessions ==
    ASSUME Registry, NEW s, HasSession(s) \subseteq HasSession(serves)
    PROVE  Cardinality(HasSession(s)) <= MaxSessions
<1>1. IsFiniteSet(HasSession(serves)) /\ Cardinality(HasSession(serves)) \in Nat /\ Cardinality(HasSession(s)) \in Nat
  BY SomePersonas DEF HasSession
<1>2. Cardinality(HasSession(s)) <= Cardinality(HasSession(serves))
  BY <1>1, FS_Subset
<1> QED BY <1>1, <1>2, SessionsAssumption DEF Registry

LEMMA SessionsInitHolds == SessionsInit => SessionsInv
<1> SUFFICES ASSUME SessionsInit PROVE SessionsInv
  OBVIOUS
<1>1. PICK has \in SUBSET {p \in Personas : Live(member, p) # {}} :
        /\ \/ has = {p \in Personas : Live(member, p) # {}} /\ Cardinality(has) <= MaxSessions
           \/ Cardinality(has) = MaxSessions
        /\ serves = [p \in Personas |-> IF p \in has THEN Live(member, p) ELSE {}]
        /\ excused = {pv \in Personas \X Vtcs : member[pv] = "live" /\ pv[1] \notin has}
  BY DEF SessionsInit
<1>2. member \in [Personas \X Vtcs -> {"none", "live", "ended"}]
  BY DEF SessionsInit
<1>3. serves \in [Personas -> SUBSET Vtcs] /\ HasSession(serves) = has
  BY <1>1 DEF Live, HasSession
<1>4. Cardinality(HasSession(serves)) <= MaxSessions
  BY <1>1, <1>3, SessionsAssumption
<1>5. /\ status \in [Personas -> Statuses] /\ \A p \in Personas : serves[p] = {} <=> status[p] = "none"
      /\ net \in [Personas -> LinkStates]
  BY DEF SessionsInit, Statuses, LinkStates
<1>6. Registry
  BY <1>2, <1>3, <1>4, <1>5, SessionsAssumption DEF SessionsInit, Registry
<1>7. Reports
  BY Aggregated, SessionsAssumption DEF SessionsInit, Reports, LinkStates
<1>8. SessionForLive
  BY <1>1 DEF SessionForLive, Live
<1> QED BY <1>6, <1>7, <1>8 DEF SessionsInv

LEMMA RegisterStep ==
    ASSUME SessionsInv, NEW p \in Personas, NEW v \in Vtcs, register_joined_session(p, v)
    PROVE  SessionsInv'
<1> USE DEF SessionsInv
<1>1. member' = [member EXCEPT ![<<p, v>>] = "live"] /\ moves' \in 0..MaxMoves
  BY SessionsAssumption DEF register_joined_session, Moving, Registry
<1>2. Reports'
  BY Aggregated DEF register_joined_session, Apply, Reports
<1>3. member' \in [Personas \X Vtcs -> {"none", "live", "ended"}]
  BY <1>1 DEF Registry
<1>4. CASE serves[p] # {} /\ serves' = [serves EXCEPT ![p] = @ \cup {v}] /\ excused' = excused \ {<<p, v>>}
           /\ UNCHANGED <<status, net>>
  <2>1. HasSession(serves') \subseteq HasSession(serves)
    BY <1>4 DEF HasSession, Registry
  <2>2. Cardinality(HasSession(serves')) <= MaxSessions
    BY <2>1, FewerSessions
  <2>3. Registry'
    BY <1>1, <1>3, <1>4, <2>2 DEF Registry
  <2>4. SessionForLive'
    BY <1>1, <1>4 DEF SessionForLive, Registry
  <2> QED BY <1>2, <2>3, <2>4
<1>5. CASE serves[p] = {} /\ excused' = excused \cup {<<p, v>>} /\ UNCHANGED <<serves, status, net>>
  <2>1. Registry'
    BY <1>1, <1>3, <1>5 DEF Registry, HasSession
  <2>2. SessionForLive'
    BY <1>1, <1>5 DEF SessionForLive, Registry
  <2> QED BY <1>2, <2>1, <2>2
<1>6. CASE /\ serves[p] = {} /\ ~AtCapacity
           /\ serves' = [serves EXCEPT ![p] = {v}] /\ excused' = excused \ {<<p, v>>}
           /\ \E x \in {"Connected", "Connecting", "Failed"} : status' = [status EXCEPT ![p] = x]
           /\ net' \in {net, [net EXCEPT ![p] = "up"]}
  <2>1. HasSession(serves') = HasSession(serves) \cup {p} /\ p \notin HasSession(serves)
    BY <1>6 DEF HasSession, Registry
  <2>2. Cardinality(HasSession(serves')) = Cardinality(HasSession(serves)) + 1
    BY <2>1, SomePersonas, FS_AddElement DEF HasSession
  <2>3. Cardinality(HasSession(serves)) < MaxSessions /\ Cardinality(HasSession(serves)) \in Nat
    BY <1>6, SomePersonas, SessionsAssumption DEF AtCapacity, HasSession
  <2>4. Cardinality(HasSession(serves')) <= MaxSessions
    BY <2>2, <2>3, SessionsAssumption
  <2>5. PICK x \in {"Connected", "Connecting", "Failed"} : status' = [status EXCEPT ![p] = x]
    BY <1>6
  <2>7. status' \in [Personas -> Statuses] /\ serves' \in [Personas -> SUBSET Vtcs]
    BY <1>6, <2>5 DEF Registry, Statuses
  <2>8. \A q \in Personas : serves'[q] = {} <=> status'[q] = "none"
    BY <1>6, <2>5 DEF Registry
  <2>9. net' \in [Personas -> LinkStates]
    BY <1>6 DEF Registry, LinkStates
  <2>10. Registry'
    BY <1>1, <1>3, <2>4, <2>7, <2>8, <2>9 DEF Registry
  <2>6. SessionForLive'
    BY <1>1, <1>6 DEF SessionForLive, Registry
  <2> QED BY <1>2, <2>10, <2>6
<1>7. \/ serves[p] # {} /\ serves' = [serves EXCEPT ![p] = @ \cup {v}] /\ excused' = excused \ {<<p, v>>}
         /\ UNCHANGED <<status, net>>
      \/ serves[p] = {} /\ excused' = excused \cup {<<p, v>>} /\ UNCHANGED <<serves, status, net>>
      \/ /\ serves[p] = {} /\ ~AtCapacity
         /\ serves' = [serves EXCEPT ![p] = {v}] /\ excused' = excused \ {<<p, v>>}
         /\ \E x \in {"Connected", "Connecting", "Failed"} : status' = [status EXCEPT ![p] = x]
         /\ net' \in {net, [net EXCEPT ![p] = "up"]}
  BY DEF register_joined_session
<1> QED BY <1>4, <1>5, <1>6, <1>7

(* Taking one community from a session. *)
LEMMA DeregisterStep ==
    ASSUME SessionsInv, NEW p \in Personas, NEW v \in Vtcs, deregister_inactive_community(p, v),
           moves' \in 0..MaxMoves, NEW x \in {"none", "live", "ended"}, member' = [member EXCEPT ![<<p, v>>] = x],
           x = "live" => <<p, v>> \in excused', excused \ {<<p, v>>} \subseteq excused'
    PROVE  SessionsInv'
<1> USE DEF SessionsInv
<1>1. /\ serves' = [serves EXCEPT ![p] = @ \ {v}]
      /\ status' = [status EXCEPT ![p] = IF serves[p] \subseteq {v} THEN "none" ELSE @]
      /\ net' \in {net, [net EXCEPT ![p] = "absent"]}
      /\ UNCHANGED <<sampled, events, online, flaps>>
      /\ indicator' \in {indicator, "NoActiveCommunity"}
  BY DEF deregister_inactive_community, deregister
<1>2. HasSession(serves') \subseteq HasSession(serves)
  BY <1>1 DEF HasSession, Registry
<1>3. Cardinality(HasSession(serves')) <= MaxSessions
  BY <1>2, FewerSessions
<1>4. Registry'
  <2>1. member' \in [Personas \X Vtcs -> {"none", "live", "ended"}]
    BY DEF Registry
  <2>2. serves' \in [Personas -> SUBSET Vtcs] /\ status' \in [Personas -> Statuses] /\ net' \in [Personas -> LinkStates]
    BY <1>1 DEF Registry, Statuses, LinkStates
  <2>3. ASSUME NEW q \in Personas PROVE serves'[q] = {} <=> status'[q] = "none"
    BY <1>1 DEF Registry
  <2> QED BY <1>3, <2>1, <2>2, <2>3 DEF Registry
<1>5. Reports'
  BY <1>1 DEF Reports
<1>6. SessionForLive'
  BY <1>1 DEF SessionForLive, Registry
<1> QED BY <1>4, <1>5, <1>6

LEMMA LoopStep ==
    ASSUME SessionsInv, Reports', UNCHANGED <<member, serves, excused, moves>>,
           net' \in [Personas -> LinkStates], status' \in [Personas -> Statuses],
           \A p \in Personas : serves[p] = {} <=> status'[p] = "none"
    PROVE  SessionsInv'
  BY DEF SessionsInv, Registry, SessionForLive, HasSession

LEMMA SessionsStep == SessionsInv /\ [SessionsNext]_sessionVars => SessionsInv'
<1> SUFFICES ASSUME SessionsInv, [SessionsNext]_sessionVars PROVE SessionsInv'
  OBVIOUS
<1> USE DEF SessionsInv
<1>1. ASSUME NEW p \in Personas, NEW v \in Vtcs, register_joined_session(p, v) PROVE SessionsInv'
  BY <1>1, RegisterStep
<1>2. ASSUME NEW p \in Personas, NEW v \in Vtcs, End(p, v) PROVE SessionsInv'
  <2>1. moves' \in 0..MaxMoves
    BY <1>2, SessionsAssumption DEF End, Moving, Registry
  <2>2. deregister_inactive_community(p, v) /\ member' = [member EXCEPT ![<<p, v>>] = "ended"]
        /\ excused' = excused \ {<<p, v>>}
    BY <1>2, Zenon DEF End
  <2> QED BY <2>1, <2>2, DeregisterStep
<1>3. ASSUME NEW p \in Personas, NEW v \in Vtcs, DeleteCommunity(p, v) PROVE SessionsInv'
  <2>1. moves' \in 0..MaxMoves
    BY <1>3, SessionsAssumption DEF DeleteCommunity, Moving, Registry
  <2>2. deregister_inactive_community(p, v)
    BY <1>3, Zenon DEF DeleteCommunity
  <2>3. CASE member' = [member EXCEPT ![<<p, v>>] = "none"] /\ excused' = excused
    BY <2>1, <2>2, <2>3, DeregisterStep
  <2>4. CASE member[<<p, v>>] = "live" /\ member' = member /\ excused' = excused \cup {<<p, v>>}
    <3>1. member' = [member EXCEPT ![<<p, v>>] = "live"]
      BY <2>4 DEF Registry
    <3> QED BY <2>1, <2>2, <2>4, <3>1, DeregisterStep
  <2> QED BY <1>3, <2>3, <2>4 DEF DeleteCommunity
<1>4. ASSUME NEW p \in Personas, Flap(p) PROVE SessionsInv'
  <2>1. Reports' /\ net' \in [Personas -> LinkStates] /\ UNCHANGED <<member, serves, excused, moves, status>>
    BY <1>4, SessionsAssumption DEF Flap, Reports, Registry, LinkStates
  <2> QED BY <2>1, LoopStep DEF Registry
<1>5. ASSUME NEW p \in Personas, Poll(p) PROVE SessionsInv'
  <2>1. events' \in Seq(Transitions) /\ Len(events') <= Capacity
    <3>1. CASE net[p] = "absent"
      BY <1>5, <3>1 DEF Poll, Reports
    <3>2. CASE net[p] # "absent"
      <4>1. <<p, net[p]>> \in Transitions
        BY <3>2 DEF Registry, LinkStates, Transitions
      <4>2. CASE Len(events) < Capacity
        <5>1. events' = Append(events, <<p, net[p]>>)
          BY <1>5, <3>2, <4>2 DEF Poll
        <5> QED BY <4>1, <4>2, <5>1, SessionsAssumption DEF Reports
      <4>3. CASE ~(Len(events) < Capacity)
        <5>1. events' = Append(Tail(events), <<p, net[p]>>)
          BY <1>5, <3>2, <4>3 DEF Poll
        <5>2. events # <<>> /\ Len(events) = Capacity
          BY <4>3, SessionsAssumption DEF Reports
        <5>3. Tail(events) \in Seq(Transitions) /\ Len(Tail(events)) = Len(events) - 1
          BY <5>2 DEF Reports
        <5> QED BY <4>1, <5>1, <5>2, <5>3, SessionsAssumption
      <4> QED BY <4>2, <4>3
    <3> QED BY <3>1, <3>2
  <2>2. Reports' /\ UNCHANGED <<member, serves, excused, moves, status, net>>
    BY <1>5, <2>1 DEF Poll, Reports, Registry, LinkStates
  <2> QED BY <2>2, LoopStep DEF Registry
<1>6. CASE TakeEvent
  <2>1. events # <<>> /\ events' = Tail(events)
    BY <1>6 DEF TakeEvent
  <2>2. PICK p \in Personas, x \in {"down", "up"} : Head(events) = <<p, x>>
    BY <2>1 DEF Reports, Transitions
  <2>3. events' \in Seq(Transitions) /\ Len(events') <= Capacity
    BY <2>1, SessionsAssumption DEF Reports
  <2>7. UNCHANGED <<member, serves, net, sampled, excused, moves, flaps>>
    BY <1>6 DEF TakeEvent
  <2>8. indicator' \in {indicator, aggregate_status(serves', status', online')}
    BY <1>6 DEF TakeEvent, Apply
  <2>9. online' \in {online \cup {p}, online \ {p}}
    BY <1>6, <2>2 DEF TakeEvent
  <2>11. Head(events)[1] = p /\ Head(events)[2] = x
    BY <2>2
  <2>10. \/ status' = status
         \/ serves[p] # {} /\ \E now \in {"Connected", "Disconnected"} : status' = [status EXCEPT ![p] = now]
    <3>1. CASE serves[p] = {}
      BY <1>6, <2>2, <3>1 DEF TakeEvent
    <3>2. CASE serves[p] # {} /\ x = "up"
      <4>1. status' = [status EXCEPT ![p] = "Connected"]
        BY <1>6, <2>11, <3>2, Zenon DEF TakeEvent
      <4> QED BY <3>2, <4>1
    <3>3. CASE serves[p] # {} /\ x = "down"
      <4>1. status' = [status EXCEPT ![p] = "Disconnected"]
        BY <1>6, <2>11, <3>3, Zenon DEF TakeEvent
      <4> QED BY <3>3, <4>1
    <3> QED BY <3>1, <3>2, <3>3
  <2>4. /\ online' \in {online \cup {p}, online \ {p}}
        /\ UNCHANGED <<member, serves, net, sampled, excused, moves, flaps>>
        /\ indicator' \in {indicator, aggregate_status(serves', status', online')}
    BY <2>7, <2>8, <2>9
  <2>5. Reports'
    BY <2>3, <2>4, Aggregated DEF Reports
  <2>6. status' \in [Personas -> Statuses] /\ \A q \in Personas : serves[q] = {} <=> status'[q] = "none"
    BY <2>10 DEF Registry, Statuses
  <2> QED BY <2>4, <2>5, <2>6, LoopStep DEF Registry
<1>7. CASE reconcile_sessions
  <2>1. /\ status' = [p \in Personas |-> Reconciled(p)]
        /\ UNCHANGED <<member, serves, online, net, sampled, events, excused, moves, flaps>>
        /\ indicator' \in {indicator, aggregate_status(serves', status', online')}
    BY <1>7 DEF reconcile_sessions, Apply
  <2>2. Reports'
    BY <2>1, Aggregated DEF Reports
  <2>3. ASSUME NEW p \in Personas PROVE Reconciled(p) \in Statuses /\ (serves[p] = {} <=> Reconciled(p) = "none")
    BY DEF Reconciled, Statuses, Registry
  <2> QED BY <2>1, <2>2, <2>3, LoopStep DEF Registry
<1>8. CASE UNCHANGED sessionVars
  BY <1>8 DEF sessionVars, Registry, Reports, SessionForLive, HasSession
<1> QED BY <1>1, <1>2, <1>3, <1>4, <1>5, <1>6, <1>7, <1>8, Zenon DEF SessionsNext

(* Never more sessions than the cap, at start-up and after any order of     *)
(* joins and ends (register, startup_register).                             *)
THEOREM SessionsTypeCorrect == SessionsSpec => []SessionsTypeOK
<1>1. SessionsInv => SessionsTypeOK
  BY DEF SessionsInv, Registry, Reports, SessionsTypeOK, Statuses, LinkStates
<1> QED BY <1>1, SessionsInitHolds, SessionsStep, PTL DEF SessionsSpec

(* A session serves exactly the live memberships that were not refused one, *)
(* through joins, ends, refused deletions and listeners that come and go    *)
(* (attach, deregister, deregister_inactive_community).                     *)
THEOREM SessionForLiveAlways == SessionsSpec => []SessionForLive
<1>1. SessionsInv => SessionForLive
  BY DEF SessionsInv
<1> QED BY <1>1, SessionsInitHolds, SessionsStep, PTL DEF SessionsSpec

-----------------------------------------------------------------------------
(* Listeners.  For any number of release timers: one socket of a persona at a *)
(* time, a claim behind it, on somebody's list while it is wanted and gone    *)
(* once it is removed.                                                        *)
ListenerFlags ==
    /\ installed \in BOOLEAN /\ stranded \in BOOLEAN /\ waiting \in BOOLEAN /\ releasing \in BOOLEAN
    /\ overlap \in BOOLEAN /\ cut \in BOOLEAN /\ stripped \in BOOLEAN /\ forgot \in BOOLEAN

ListenerKinds ==
    /\ held \in {"none", "renewable", "last"}
    /\ renewal \in {"off", "asleep", "asking", "ending", "closing"}
    /\ ending \in {"no", "again", "gone", "release"}
    /\ at \in [Callers \cup {"loop"} -> Steps] /\ timers \in 0..MaxTimers
    /\ claim \in {"free", "ours", "other"} /\ keeper \in {"collects", "declines", "absent"}
    /\ intent \in {"up", "down", "either"}
    /\ renewal # "off" => held # "none"

(* While a claim covers the socket, or one about to open, nobody gives it up *)
(* and a renewal task looks after it.                                        *)
ClaimKept ==
    /\ keeper = "collects" /\ ~cut /\ (installed \/ Connecting) => claim = "ours" /\ ~releasing
    /\ keeper = "collects" /\ ~cut /\ (installed \/ \E c \in Callers : at[c] = "connecting")
          => renewal \in {"asleep", "asking", "ending"}
    /\ keeper = "collects" /\ (\E c \in Callers : at[c] = "connecting") => renewal \in {"off", "asleep"}

(* Somebody has a spec in hand and has not looked in vain. *)
Bringing ==
    \/ at["job"] # "idle"
    \/ at["supervisor"] \in {"closing", "removed", "lock", "asking", "granted", "connecting"}
    \/ at["retry"] \in {"lock", "asking", "granted", "connecting"}

(* A rebuild under way is on the supervisor's list unless it was stripped    *)
(* of it; a listener that is wanted and missing is listed, being brought up  *)
(* or about to be put back; a renewal that closes knows what for.            *)
OnSomeList ==
    /\ Rebuilding /\ ~stripped => stranded
    /\ ~forgot /\ intent = "up" /\ ~installed => stranded \/ waiting \/ Bringing \/ PuttingBack
    /\ renewal \in {"ending", "closing"} => ending # "no"

LEMMA ListenersTypeParts == ListenersTypeOK <=> ListenerFlags /\ ListenerKinds
  BY Zenon DEF ListenersTypeOK, ListenerFlags, ListenerKinds

LEMMA ListenersInitHolds ==
    ListenersInit => ListenerFlags /\ ListenerKinds /\ OneSocket /\ ClaimKept /\ OnSomeList /\ RemovedStaysRemoved
<1> SUFFICES ASSUME ListenersInit
             PROVE  ListenerFlags /\ ListenerKinds /\ OneSocket /\ ClaimKept /\ OnSomeList /\ RemovedStaysRemoved
  OBVIOUS
<1> USE DEF ListenersInit
<1>1. ListenerFlags
  BY Zenon DEF ListenerFlags
<1>2. ListenerKinds
  BY TimersAssumption DEF ListenerKinds, Steps
<1>3. OneSocket /\ ClaimKept /\ OnSomeList /\ RemovedStaysRemoved
  BY DEF OneSocket, Closing, ClaimKept, Connecting, OnSomeList, Rebuilding, RemovedStaysRemoved, Callers, Removers
<1> QED BY <1>1, <1>2, <1>3

LEMMA Booleans ==
    /\ Working \in BOOLEAN /\ Connecting \in BOOLEAN /\ Closing \in BOOLEAN
    /\ Rebuilding \in BOOLEAN /\ PuttingBack \in BOOLEAN /\ collects_for \in BOOLEAN
<1>1. Rebuilding \in BOOLEAN
  BY SMT DEF Rebuilding
<1> QED BY <1>1, Zenon DEF Working, Connecting, Closing, PuttingBack, collects_for

LEMMA RemoveKeepsFlags ==
    ASSUME NEW back \in BOOLEAN, remove_listener(back)
    PROVE  installed' \in BOOLEAN /\ stranded' \in BOOLEAN /\ waiting' \in BOOLEAN /\ stripped' \in BOOLEAN
  BY Booleans, Zenon DEF remove_listener

LEMMA ListenerFlagsStep == ListenerFlags /\ [ListenersNext]_listenerVars => ListenerFlags'
<1> SUFFICES ASSUME ListenerFlags, [ListenersNext]_listenerVars PROVE ListenerFlags'
  OBVIOUS
<1> USE DEF ListenerFlags, claims, excuses
<1>1. CASE Want
  BY <1>1, Zenon DEF Want
<1>2. CASE Reconnect
  <2>1. installed' \in BOOLEAN /\ stranded' \in BOOLEAN /\ waiting' \in BOOLEAN /\ stripped' \in BOOLEAN
    BY <1>2, RemoveKeepsFlags, Zenon DEF Reconnect, Removes
  <2> QED BY <1>2, <2>1, Zenon DEF Reconnect
<1>3. CASE Unwant
  <2>1. installed' \in BOOLEAN /\ stranded' \in BOOLEAN /\ waiting' \in BOOLEAN /\ stripped' \in BOOLEAN
    BY <1>3, RemoveKeepsFlags, Zenon DEF Unwant, Removes
  <2> QED BY <1>3, <2>1, Zenon DEF Unwant
<1>4. ASSUME NEW r \in Removers, Closed(r) PROVE ListenerFlags'
  BY <1>4, Zenon DEF Closed, release_unless_back, AfterRemoval
<1>5. ASSUME NEW c \in Callers, Lock(c) PROVE ListenerFlags'
  BY <1>5, Booleans, Zenon DEF Lock, Added, Connects
<1>6. ASSUME NEW c \in Callers, Grant(c) PROVE ListenerFlags'
  BY <1>6, Zenon DEF Grant
<1>7. ASSUME NEW c \in Callers, Granted(c) PROVE ListenerFlags'
  BY <1>7, Booleans, Zenon DEF Granted, Connects
<1>8. ASSUME NEW c \in Callers, Declined(c) PROVE ListenerFlags'
  BY <1>8, Booleans, Zenon DEF Declined, Connects
<1>9. ASSUME NEW c \in Callers, Refused(c) PROVE ListenerFlags'
  BY <1>9, Booleans, Zenon DEF Refused
<1>10. ASSUME NEW c \in Callers, Connected(c) PROVE ListenerFlags'
  BY <1>10, Booleans, Zenon DEF Connected, Added
<1>11. ASSUME NEW c \in Callers, ConnectFails(c) PROVE ListenerFlags'
  BY <1>11, Zenon DEF ConnectFails, release_unless_back
<1>12. CASE Sample
  BY <1>12, Zenon DEF Sample
<1>13. CASE Rebuild
  <2>1. CASE Removes("supervisor")
    <3>1. installed' \in BOOLEAN /\ stranded' \in BOOLEAN /\ waiting' \in BOOLEAN /\ stripped' \in BOOLEAN
      BY <2>1, RemoveKeepsFlags, Zenon DEF Removes
    <3> QED BY <1>13, <3>1, Zenon DEF Rebuild
  <2>2. CASE ~Removes("supervisor")
    BY <1>13, <2>2, Zenon DEF Rebuild
  <2> QED BY <2>1, <2>2
<1>14. CASE Strand
  BY <1>14, Zenon DEF Strand
<1>15. CASE TakeDue
  BY <1>15, Zenon DEF TakeDue
<1>16. CASE RetryClaim
  BY <1>16, Zenon DEF RetryClaim
<1>17. CASE ReleaseArrives
  BY <1>17, Zenon DEF ReleaseArrives
<1>18. CASE TimerFires
  BY <1>18, Booleans, Zenon DEF TimerFires, release_due
<1>19. CASE RenewalWakes
  BY <1>19, Booleans, Zenon DEF RenewalWakes, SelfRelease, close_for_collection
<1>20. CASE RenewalRemoves
  <2>1. installed' \in BOOLEAN /\ stranded' \in BOOLEAN /\ waiting' \in BOOLEAN /\ stripped' \in BOOLEAN
    <3>1. (~installed /\ ending = "again") \in BOOLEAN
      BY Zenon
    <3>2. remove_listener(~installed /\ ending = "again")
      BY <1>20, Zenon DEF RenewalRemoves
    <3> QED BY <3>1, <3>2, RemoveKeepsFlags
  <2> QED BY <1>20, <2>1, Booleans, Zenon DEF RenewalRemoves, RenewalReturns, SelfRelease
<1>21. CASE RenewalClosed
  BY <1>21, Booleans, Zenon DEF RenewalClosed, RenewalReturns, SelfRelease
<1>22. CASE RenewalAnswered
  BY <1>22, Zenon DEF RenewalAnswered, close_for_collection
<1>23. CASE ClaimEnds
  BY <1>23, Zenon DEF ClaimEnds
<1>24. CASE Others
  BY <1>24, Zenon DEF Others
<1>25. CASE UNCHANGED listenerVars
  BY <1>25, Zenon DEF listenerVars
<1> QED BY <1>1, <1>2, <1>3, <1>4, <1>5, <1>6, <1>7, <1>8, <1>9, <1>10, <1>11, <1>12, <1>13,
             <1>14, <1>15, <1>16, <1>17, <1>18, <1>19, <1>20, <1>21, <1>22, <1>23, <1>24, <1>25
   DEF ListenersNext, Adding

LEMMA ListenerKindsStep == ListenerKinds /\ [ListenersNext]_listenerVars => ListenerKinds'
<1> SUFFICES ASSUME ListenerKinds, [ListenersNext]_listenerVars PROVE ListenerKinds'
  OBVIOUS
<1> USE TimersAssumption DEF ListenerKinds, claims, excuses, Callers, Removers, Steps, Move
<1>1. CASE Want
  BY <1>1 DEF Want
<1>2. CASE Reconnect
  BY <1>2 DEF Reconnect, Removes, remove_listener, AfterRemoval, release_unless_back
<1>3. CASE Unwant
  BY <1>3 DEF Unwant, Removes, remove_listener, AfterRemoval, release_unless_back
<1>4. ASSUME NEW r \in Removers, Closed(r) PROVE ListenerKinds'
  BY <1>4 DEF Closed, release_unless_back, AfterRemoval
<1>5. ASSUME NEW c \in Callers, Lock(c) PROVE ListenerKinds'
  BY <1>5 DEF Lock, Added, Connects
<1>6. ASSUME NEW c \in Callers, Grant(c) PROVE ListenerKinds'
  BY <1>6 DEF Grant
<1>7. ASSUME NEW c \in Callers, Granted(c) PROVE ListenerKinds'
  BY <1>7 DEF Granted, Connects
<1>8. ASSUME NEW c \in Callers, Declined(c) PROVE ListenerKinds'
  BY <1>8 DEF Declined, Connects
<1>9. ASSUME NEW c \in Callers, Refused(c) PROVE ListenerKinds'
  BY <1>9 DEF Refused
<1>10. ASSUME NEW c \in Callers, Connected(c) PROVE ListenerKinds'
  BY <1>10 DEF Connected, Added
<1>11. ASSUME NEW c \in Callers, ConnectFails(c) PROVE ListenerKinds'
  BY <1>11 DEF ConnectFails, release_unless_back
<1>12. CASE Sample
  BY <1>12 DEF Sample
<1>13. CASE Rebuild
  BY <1>13 DEF Rebuild, Removes, remove_listener, AfterRemoval, release_unless_back
<1>14. CASE Strand
  BY <1>14 DEF Strand
<1>15. CASE TakeDue
  BY <1>15 DEF TakeDue
<1>16. CASE RetryClaim
  BY <1>16 DEF RetryClaim
<1>17. CASE ReleaseArrives
  BY <1>17 DEF ReleaseArrives
<1>18. CASE TimerFires
  BY <1>18 DEF TimerFires, release_due
<1>19. CASE RenewalWakes
  BY <1>19 DEF RenewalWakes, SelfRelease, close_for_collection
<1>20. CASE RenewalRemoves
  <2>1. UNCHANGED <<at, claim, keeper>> /\ (intent' = intent \/ intent' = "either" \/ intent' = "down")
    BY <1>20, Zenon DEF RenewalRemoves
  <2>2. timers' \in 0..MaxTimers
    <3>1. IF installed THEN UNCHANGED timers ELSE release_unless_back
      BY <1>20, Zenon DEF RenewalRemoves, remove_listener
    <3> QED BY <3>1 DEF release_unless_back
  <2>3. \/ renewal' = "closing" /\ ending' = ending /\ held' = held
        \/ renewal' = "off" /\ ending' = "no" /\ (held' = held \/ held' = "none")
    BY <1>20, Zenon DEF RenewalRemoves, RenewalReturns, SelfRelease
  <2> QED BY <1>20, <2>1, <2>2, <2>3 DEF RenewalRemoves
<1>21. CASE RenewalClosed
  <2>1. release_unless_back /\ UNCHANGED <<at, intent, claim, keeper>>
    BY <1>21, Zenon DEF RenewalClosed
  <2>2. renewal' = "off" /\ ending' = "no" /\ (held' = held \/ held' = "none")
    BY <1>21, Zenon DEF RenewalClosed, RenewalReturns, SelfRelease
  <2> QED BY <2>1, <2>2 DEF release_unless_back
<1>22. CASE RenewalAnswered
  BY <1>22 DEF RenewalAnswered, close_for_collection
<1>23. CASE ClaimEnds
  BY <1>23 DEF ClaimEnds
<1>24. CASE Others
  BY <1>24 DEF Others
<1>25. CASE UNCHANGED listenerVars
  BY <1>25 DEF listenerVars
<1> QED BY <1>1, <1>2, <1>3, <1>4, <1>5, <1>6, <1>7, <1>8, <1>9, <1>10, <1>11, <1>12, <1>13,
             <1>14, <1>15, <1>16, <1>17, <1>18, <1>19, <1>20, <1>21, <1>22, <1>23, <1>24, <1>25
   DEF ListenersNext, Adding

LEMMA OneSocketStep == ListenerFlags /\ ListenerKinds /\ OneSocket /\ [ListenersNext]_listenerVars => OneSocket'
<1> SUFFICES ASSUME ListenerFlags /\ ListenerKinds /\ OneSocket, [ListenersNext]_listenerVars PROVE OneSocket'
  OBVIOUS
<1> USE DEF ListenerKinds, OneSocket, Closing, claims, excuses, Callers, Removers, Steps, Move
<1>1. CASE Want
  BY <1>1 DEF Want
<1>2. CASE Reconnect
  BY <1>2 DEF Reconnect, Removes, remove_listener, AfterRemoval, release_unless_back
<1>3. CASE Unwant
  BY <1>3 DEF Unwant, Removes, remove_listener, AfterRemoval, release_unless_back
<1>4. ASSUME NEW r \in Removers, Closed(r) PROVE OneSocket'
  BY <1>4 DEF Closed, release_unless_back, AfterRemoval
<1>5. ASSUME NEW c \in Callers, Lock(c) PROVE OneSocket'
  <2>1. CASE installed
    BY <1>5, <2>1 DEF Lock, Added
  <2>2. CASE ~installed /\ keeper = "absent"
    <3>1. (Closing => overlap') /\ (overlap => overlap') /\ ~installed'
      BY <1>5, <2>2, Zenon DEF Lock, Connects, ListenerFlags
    <3> QED BY <1>5, <2>2, <3>1 DEF Lock, Connects
  <2>3. CASE ~installed /\ keeper # "absent"
    BY <1>5, <2>3 DEF Lock
  <2> QED BY <2>1, <2>2, <2>3
<1>6. ASSUME NEW c \in Callers, Grant(c) PROVE OneSocket'
  BY <1>6 DEF Grant
<1>7. ASSUME NEW c \in Callers, Granted(c) PROVE OneSocket'
  BY <1>7 DEF Granted, Connects
<1>8. ASSUME NEW c \in Callers, Declined(c) PROVE OneSocket'
  BY <1>8 DEF Declined, Connects
<1>9. ASSUME NEW c \in Callers, Refused(c) PROVE OneSocket'
  BY <1>9 DEF Refused
<1>10. ASSUME NEW c \in Callers, Connected(c) PROVE OneSocket'
  BY <1>10 DEF Connected, Added
<1>11. ASSUME NEW c \in Callers, ConnectFails(c) PROVE OneSocket'
  BY <1>11 DEF ConnectFails, release_unless_back
<1>12. CASE Sample
  BY <1>12 DEF Sample
<1>13. CASE Rebuild
  BY <1>13 DEF Rebuild, Removes, remove_listener, AfterRemoval, release_unless_back
<1>14. CASE Strand
  BY <1>14 DEF Strand
<1>15. CASE TakeDue
  BY <1>15 DEF TakeDue
<1>16. CASE RetryClaim
  BY <1>16 DEF RetryClaim
<1>17. CASE ReleaseArrives
  BY <1>17 DEF ReleaseArrives
<1>18. CASE TimerFires
  BY <1>18 DEF TimerFires, release_due
<1>19. CASE RenewalWakes
  <2>1. CASE ~collects_for /\ SelfRelease
            /\ UNCHANGED <<installed, stranded, waiting, at, intent, overlap, stripped, forgot, ending, timers,
                           claim, keeper>>
    <3>1. renewal = "asleep" /\ renewal' = "off" /\ UNCHANGED <<installed, at, overlap>>
      BY <1>19, <2>1, Zenon DEF RenewalWakes, SelfRelease
    <3> QED BY <3>1
  <2>2. CASE close_for_collection(held = "renewable")
    BY <1>19, <2>2 DEF RenewalWakes, close_for_collection
  <2>3. CASE collects_for /\ held = "renewable" /\ renewal' = "asking"
            /\ UNCHANGED <<installed, stranded, waiting, at, intent, excuses, held, ending, timers, releasing,
                           claim, keeper>>
    BY <1>19, <2>3 DEF RenewalWakes
  <2> QED BY <1>19, <2>1, <2>2, <2>3, Zenon DEF RenewalWakes
<1>20. CASE RenewalRemoves
  BY <1>20 DEF RenewalRemoves, remove_listener, release_unless_back, RenewalReturns, SelfRelease
<1>21. CASE RenewalClosed
  BY <1>21 DEF RenewalClosed, release_unless_back, RenewalReturns, SelfRelease
<1>22. CASE RenewalAnswered
  BY <1>22 DEF RenewalAnswered, close_for_collection
<1>23. CASE ClaimEnds
  BY <1>23 DEF ClaimEnds
<1>24. CASE Others
  BY <1>24 DEF Others
<1>25. CASE UNCHANGED listenerVars
  BY <1>25 DEF listenerVars
<1> QED BY <1>1, <1>2, <1>3, <1>4, <1>5, <1>6, <1>7, <1>8, <1>9, <1>10, <1>11, <1>12, <1>13,
             <1>14, <1>15, <1>16, <1>17, <1>18, <1>19, <1>20, <1>21, <1>22, <1>23, <1>24, <1>25
   DEF ListenersNext, Adding

LEMMA ClaimKeptStep == ListenerKinds /\ ListenerFlags /\ OneSocket /\ ClaimKept /\ [ListenersNext]_listenerVars => ClaimKept'
<1> SUFFICES ASSUME ListenerKinds /\ ListenerFlags /\ OneSocket /\ ClaimKept, [ListenersNext]_listenerVars PROVE ClaimKept'
  OBVIOUS
<1> USE DEF ListenerKinds, ClaimKept, claims, excuses, Callers, Removers, Steps, Move, Connecting
<1>1. CASE Want
  BY <1>1 DEF Want
<1>2. CASE Reconnect
  BY <1>2 DEF Reconnect, Removes, remove_listener, AfterRemoval, release_unless_back
<1>3. CASE Unwant
  BY <1>3 DEF Unwant, Removes, remove_listener, AfterRemoval, release_unless_back
<1>4. ASSUME NEW r \in Removers, Closed(r) PROVE ClaimKept'
  BY <1>4 DEF Closed, release_unless_back, AfterRemoval
<1>5. ASSUME NEW c \in Callers, Lock(c) PROVE ClaimKept'
  BY <1>5 DEF Lock, Added, Connects
<1>6. ASSUME NEW c \in Callers, Grant(c) PROVE ClaimKept'
  <2>1. (releasing => cut') /\ releasing' = releasing /\ ~installed
    BY <1>6, Zenon DEF Grant, OneSocket, ListenerFlags
  <2>2. \A d \in Callers : at[d] # "connecting" /\ at'[d] # "connecting"
    BY <1>6 DEF Grant, OneSocket
  <2>3. claim' = "ours" /\ installed' = installed
    BY <1>6, Zenon DEF Grant
  <2> QED BY <2>1, <2>2, <2>3
<1>7. ASSUME NEW c \in Callers, Granted(c) PROVE ClaimKept'
  BY <1>7 DEF Granted, Connects
<1>8. ASSUME NEW c \in Callers, Declined(c) PROVE ClaimKept'
  BY <1>8 DEF Declined, Connects
<1>9. ASSUME NEW c \in Callers, Refused(c) PROVE ClaimKept'
  BY <1>9 DEF Refused
<1>10. ASSUME NEW c \in Callers, Connected(c) PROVE ClaimKept'
  BY <1>10 DEF Connected, Added
<1>11. ASSUME NEW c \in Callers, ConnectFails(c) PROVE ClaimKept'
  BY <1>11 DEF ConnectFails, release_unless_back
<1>12. CASE Sample
  BY <1>12 DEF Sample
<1>13. CASE Rebuild
  BY <1>13 DEF Rebuild, Removes, remove_listener, AfterRemoval, release_unless_back
<1>14. CASE Strand
  BY <1>14 DEF Strand
<1>15. CASE TakeDue
  BY <1>15 DEF TakeDue
<1>16. CASE RetryClaim
  BY <1>16 DEF RetryClaim
<1>17. CASE ReleaseArrives
  BY <1>17 DEF ReleaseArrives
<1>18. CASE TimerFires
  <2>1. CASE release_due /\ held # "none"
    <3>1. (Connecting => cut') /\ (cut => cut') /\ ~installed' /\ ~installed
      BY <1>18, <2>1, Zenon DEF TimerFires, release_due, collects_for, ListenerFlags
    <3>2. renewal' = "off" /\ UNCHANGED <<at, claim, keeper>>
      BY <1>18, <2>1, Zenon DEF TimerFires
    <3> QED BY <3>1, <3>2
  <2>2. CASE ~(release_due /\ held # "none")
    BY <1>18, <2>2 DEF TimerFires
  <2> QED BY <2>1, <2>2
<1>19. CASE RenewalWakes
  <2>1. CASE ~collects_for /\ SelfRelease
            /\ UNCHANGED <<installed, stranded, waiting, at, intent, overlap, stripped, forgot, ending, timers,
                           claim, keeper>>
    <3>1. renewal' = "off" /\ ~(\E c \in Callers : at[c] = "connecting" /\ keeper = "collects")
      BY <1>19, <2>1 DEF RenewalWakes, SelfRelease
    <3>2. ~installed
      BY <2>1 DEF collects_for
    <3>3. releasing' \in BOOLEAN /\ (releasing' /\ Connecting => cut') /\ (cut => cut')
      BY <2>1, Zenon DEF SelfRelease, ListenerFlags
    <3>4. UNCHANGED <<installed, at, claim, keeper>>
      BY <2>1
    <3> QED BY <3>1, <3>2, <3>3, <3>4
  <2>2. CASE close_for_collection(held = "renewable")
    BY <1>19, <2>2 DEF RenewalWakes, close_for_collection
  <2>3. CASE collects_for /\ held = "renewable" /\ renewal' = "asking"
            /\ UNCHANGED <<installed, stranded, waiting, at, intent, excuses, held, ending, timers, releasing,
                           claim, keeper>>
    BY <1>19, <2>3 DEF RenewalWakes
  <2> QED BY <1>19, <2>1, <2>2, <2>3, Zenon DEF RenewalWakes
<1>20. CASE RenewalRemoves
  <2>1. /\ (cut => cut') /\ (Connecting /\ releasing' => cut' \/ releasing)
        /\ UNCHANGED <<at, claim, keeper>> /\ ~installed'
    <3>1. UNCHANGED <<at, claim, keeper>> /\ ~installed'
      BY <1>20, Zenon DEF RenewalRemoves, remove_listener
    <3>2. SelfRelease \/ UNCHANGED <<releasing, cut>>
      BY <1>20, Zenon DEF RenewalRemoves, RenewalReturns
    <3>3. CASE SelfRelease
      BY <3>1, <3>3, Zenon DEF SelfRelease, ListenerFlags
    <3>4. CASE UNCHANGED <<releasing, cut>>
      BY <3>1, <3>4, Zenon
    <3> QED BY <3>2, <3>3, <3>4
  <2>2. renewal = "ending" /\ ~(keeper = "collects" /\ \E c \in Callers : at[c] = "connecting")
    BY <1>20 DEF RenewalRemoves
  <2> QED BY <2>1, <2>2
<1>21. CASE RenewalClosed
  <2>1. /\ (cut => cut') /\ (Connecting /\ releasing' => cut' \/ releasing)
        /\ UNCHANGED <<at, claim, keeper>> /\ installed' = installed
    <3>1. UNCHANGED <<at, claim, keeper>> /\ installed' = installed
      BY <1>21, Zenon DEF RenewalClosed
    <3>2. SelfRelease \/ UNCHANGED <<releasing, cut>>
      BY <1>21, Zenon DEF RenewalClosed, RenewalReturns
    <3>3. CASE SelfRelease
      BY <3>1, <3>3, Zenon DEF SelfRelease, ListenerFlags
    <3>4. CASE UNCHANGED <<releasing, cut>>
      BY <3>1, <3>4, Zenon
    <3> QED BY <3>2, <3>3, <3>4
  <2>2. renewal = "closing" /\ ~(keeper = "collects" /\ \E c \in Callers : at[c] = "connecting")
    BY <1>21 DEF RenewalClosed
  <2>3. ~(keeper = "collects" /\ ~cut /\ installed)
    BY <2>2
  <2> QED BY <2>1, <2>2, <2>3
<1>22. CASE RenewalAnswered
  BY <1>22 DEF RenewalAnswered, close_for_collection
<1>23. CASE ClaimEnds
  BY <1>23 DEF ClaimEnds
<1>24. CASE Others
  BY <1>24 DEF Others
<1>25. CASE UNCHANGED listenerVars
  BY <1>25 DEF listenerVars
<1> QED BY <1>1, <1>2, <1>3, <1>4, <1>5, <1>6, <1>7, <1>8, <1>9, <1>10, <1>11, <1>12, <1>13,
             <1>14, <1>15, <1>16, <1>17, <1>18, <1>19, <1>20, <1>21, <1>22, <1>23, <1>24, <1>25
   DEF ListenersNext, Adding

LEMMA OnSomeListStep == ListenerKinds /\ OnSomeList /\ [ListenersNext]_listenerVars => OnSomeList'
<1> SUFFICES ASSUME ListenerKinds /\ OnSomeList, [ListenersNext]_listenerVars PROVE OnSomeList'
  OBVIOUS
<1> USE DEF ListenerKinds, OnSomeList, Bringing, Rebuilding, PuttingBack, claims, excuses, Callers, Removers, Steps, Move
<1>1. CASE Want
  BY <1>1 DEF Want
<1>2. CASE Reconnect
  BY <1>2 DEF Reconnect, Removes, remove_listener, AfterRemoval, release_unless_back
<1>3. CASE Unwant
  BY <1>3 DEF Unwant, Removes, remove_listener, AfterRemoval, release_unless_back
<1>4. ASSUME NEW r \in Removers, Closed(r) PROVE OnSomeList'
  BY <1>4 DEF Closed, release_unless_back, AfterRemoval
<1>5. ASSUME NEW c \in Callers, Lock(c) PROVE OnSomeList'
  <2>1. CASE installed
    BY <1>5, <2>1 DEF Lock, Added
  <2>2. CASE ~installed /\ keeper = "absent"
    BY <1>5, <2>2 DEF Lock, Connects
  <2>3. CASE ~installed /\ keeper # "absent"
    BY <1>5, <2>3 DEF Lock
  <2> QED BY <2>1, <2>2, <2>3
<1>6. ASSUME NEW c \in Callers, Grant(c) PROVE OnSomeList'
  BY <1>6 DEF Grant
<1>7. ASSUME NEW c \in Callers, Granted(c) PROVE OnSomeList'
  BY <1>7 DEF Granted, Connects
<1>8. ASSUME NEW c \in Callers, Declined(c) PROVE OnSomeList'
  BY <1>8 DEF Declined, Connects
<1>9. ASSUME NEW c \in Callers, Refused(c) PROVE OnSomeList'
  BY <1>9 DEF Refused
<1>10. ASSUME NEW c \in Callers, Connected(c) PROVE OnSomeList'
  BY <1>10 DEF Connected, Added
<1>11. ASSUME NEW c \in Callers, ConnectFails(c) PROVE OnSomeList'
  BY <1>11 DEF ConnectFails, release_unless_back
<1>12. CASE Sample
  BY <1>12 DEF Sample
<1>13. CASE Rebuild
  BY <1>13 DEF Rebuild, Removes, remove_listener, AfterRemoval, release_unless_back
<1>14. CASE Strand
  BY <1>14 DEF Strand
<1>15. CASE TakeDue
  BY <1>15 DEF TakeDue
<1>16. CASE RetryClaim
  BY <1>16 DEF RetryClaim
<1>17. CASE ReleaseArrives
  BY <1>17 DEF ReleaseArrives
<1>18. CASE TimerFires
  BY <1>18 DEF TimerFires, release_due
<1>19. CASE RenewalWakes
  <2>1. CASE ~collects_for /\ SelfRelease
            /\ UNCHANGED <<installed, stranded, waiting, at, intent, overlap, stripped, forgot, ending, timers,
                           claim, keeper>>
    <3>1. renewal = "asleep" /\ renewal' = "off" /\ UNCHANGED <<installed, stranded, waiting, at, intent, stripped, forgot>>
      BY <1>19, <2>1, Zenon DEF RenewalWakes, SelfRelease
    <3> QED BY <3>1
  <2>2. CASE close_for_collection(held = "renewable")
    BY <1>19, <2>2 DEF RenewalWakes, close_for_collection
  <2>3. CASE collects_for /\ held = "renewable" /\ renewal' = "asking"
            /\ UNCHANGED <<installed, stranded, waiting, at, intent, excuses, held, ending, timers, releasing,
                           claim, keeper>>
    BY <1>19, <2>3 DEF RenewalWakes
  <2> QED BY <1>19, <2>1, <2>2, <2>3, Zenon DEF RenewalWakes
<1>20. CASE RenewalRemoves
  <2>1. /\ renewal = "ending" /\ ~installed' /\ ~stranded' /\ (waiting' <=> ~installed /\ ending = "again")
        /\ (Rebuilding => stripped') /\ at' = at
    BY <1>20, Zenon DEF RenewalRemoves, remove_listener
  <2>2. (forgot => forgot') /\ (ending = "gone" /\ collects_for => forgot')
    BY <1>20, Zenon DEF RenewalRemoves
  <2>3. intent' = intent \/ (ending = "release" /\ (intent' = "either" \/ intent' = "down"))
    BY <1>20, Zenon DEF RenewalRemoves
  <2>4. \/ installed /\ renewal' = "closing" /\ ending' = ending
        \/ ~installed /\ renewal' = "off"
    BY <1>20, Zenon DEF RenewalRemoves, RenewalReturns, SelfRelease
  <2>5. (Rebuilding' => Rebuilding) /\ (Bringing => Bringing') /\ ending # "no"
    BY <2>1
  <2>6. CASE ending = "again"
    BY <2>1, <2>2, <2>3, <2>4, <2>5, <2>6, Zenon
  <2>7. CASE ending = "gone"
    BY <2>1, <2>2, <2>3, <2>4, <2>5, <2>7, Zenon DEF collects_for
  <2>8. CASE ending = "release"
    <3>1. intent' # "up"
      BY <1>20, <2>8 DEF RenewalRemoves
    <3>2. renewal' \in {"ending", "closing"} => ending' # "no"
      BY <2>4, <2>8
    <3> QED BY <2>1, <2>5, <3>1, <3>2, Zenon
  <2> QED BY <2>5, <2>6, <2>7, <2>8
<1>21. CASE RenewalClosed
  BY <1>21 DEF RenewalClosed, release_unless_back, RenewalReturns, SelfRelease
<1>22. CASE RenewalAnswered
  BY <1>22 DEF RenewalAnswered, close_for_collection
<1>23. CASE ClaimEnds
  BY <1>23 DEF ClaimEnds
<1>24. CASE Others
  BY <1>24 DEF Others
<1>25. CASE UNCHANGED listenerVars
  BY <1>25 DEF listenerVars
<1> QED BY <1>1, <1>2, <1>3, <1>4, <1>5, <1>6, <1>7, <1>8, <1>9, <1>10, <1>11, <1>12, <1>13,
             <1>14, <1>15, <1>16, <1>17, <1>18, <1>19, <1>20, <1>21, <1>22, <1>23, <1>24, <1>25
   DEF ListenersNext, Adding

LEMMA RemovedStaysStep == ListenerKinds /\ RemovedStaysRemoved /\ [ListenersNext]_listenerVars => RemovedStaysRemoved'
<1> SUFFICES ASSUME ListenerKinds /\ RemovedStaysRemoved, [ListenersNext]_listenerVars PROVE RemovedStaysRemoved'
  OBVIOUS
<1> USE DEF ListenerKinds, RemovedStaysRemoved, Working, PuttingBack, collects_for, claims, excuses, Callers, Removers, Steps, Move
<1>1. CASE Want
  BY <1>1 DEF Want
<1>2. CASE Reconnect
  BY <1>2 DEF Reconnect, Removes, remove_listener, AfterRemoval, release_unless_back
<1>3. CASE Unwant
  BY <1>3 DEF Unwant, Removes, remove_listener, AfterRemoval, release_unless_back
<1>4. ASSUME NEW r \in Removers, Closed(r) PROVE RemovedStaysRemoved'
  BY <1>4 DEF Closed, release_unless_back, AfterRemoval
<1>5. ASSUME NEW c \in Callers, Lock(c) PROVE RemovedStaysRemoved'
  BY <1>5 DEF Lock, Added, Connects
<1>6. ASSUME NEW c \in Callers, Grant(c) PROVE RemovedStaysRemoved'
  BY <1>6 DEF Grant
<1>7. ASSUME NEW c \in Callers, Granted(c) PROVE RemovedStaysRemoved'
  BY <1>7 DEF Granted, Connects
<1>8. ASSUME NEW c \in Callers, Declined(c) PROVE RemovedStaysRemoved'
  BY <1>8 DEF Declined, Connects
<1>9. ASSUME NEW c \in Callers, Refused(c) PROVE RemovedStaysRemoved'
  BY <1>9 DEF Refused
<1>10. ASSUME NEW c \in Callers, Connected(c) PROVE RemovedStaysRemoved'
  BY <1>10 DEF Connected, Added
<1>11. ASSUME NEW c \in Callers, ConnectFails(c) PROVE RemovedStaysRemoved'
  BY <1>11 DEF ConnectFails, release_unless_back
<1>12. CASE Sample
  BY <1>12 DEF Sample
<1>13. CASE Rebuild
  BY <1>13 DEF Rebuild, Removes, remove_listener, AfterRemoval, release_unless_back
<1>14. CASE Strand
  BY <1>14 DEF Strand
<1>15. CASE TakeDue
  BY <1>15 DEF TakeDue
<1>16. CASE RetryClaim
  BY <1>16 DEF RetryClaim
<1>17. CASE ReleaseArrives
  BY <1>17 DEF ReleaseArrives
<1>18. CASE TimerFires
  BY <1>18 DEF TimerFires, release_due
<1>19. CASE RenewalWakes
  BY <1>19 DEF RenewalWakes, SelfRelease, close_for_collection
<1>20. CASE RenewalRemoves
  BY <1>20 DEF RenewalRemoves, remove_listener, release_unless_back, RenewalReturns, SelfRelease
<1>21. CASE RenewalClosed
  BY <1>21 DEF RenewalClosed, release_unless_back, RenewalReturns, SelfRelease
<1>22. CASE RenewalAnswered
  BY <1>22 DEF RenewalAnswered, close_for_collection
<1>23. CASE ClaimEnds
  BY <1>23 DEF ClaimEnds
<1>24. CASE Others
  BY <1>24 DEF Others
<1>25. CASE UNCHANGED listenerVars
  BY <1>25 DEF listenerVars
<1> QED BY <1>1, <1>2, <1>3, <1>4, <1>5, <1>6, <1>7, <1>8, <1>9, <1>10, <1>11, <1>12, <1>13,
             <1>14, <1>15, <1>16, <1>17, <1>18, <1>19, <1>20, <1>21, <1>22, <1>23, <1>24, <1>25
   DEF ListenersNext, Adding

(* Every variable keeps its type, and no renewal task outlives the claim it *)
(* renews.                                                                  *)
THEOREM ListenersTypeCorrect == ListenersSpec => []ListenersTypeOK
<1> QED BY ListenersInitHolds, ListenerFlagsStep, ListenerKindsStep, ListenersTypeParts, PTL DEF ListenersSpec

(* The connect lock and the second look under it keep two sockets of one   *)
(* DID from ever being opened together, or one beside an installed one; and *)
(* an old socket is closed first, unless an add and somebody else's removal *)
(* overlapped.                                                              *)
THEOREM OneSocketAlways == ListenersSpec => []OneSocket
<1> QED BY ListenersInitHolds, ListenerFlagsStep, ListenerKindsStep, OneSocketStep, PTL DEF ListenersSpec

(* No reconnect, rebuild, renewal or late timer leaves an open socket       *)
(* without its claim, but for a release that meets a grant.                 *)
THEOREM ClaimedWhileOpenAlways == ListenersSpec => []ClaimedWhileOpen
<1>1. ClaimKept => ClaimedWhileOpen
  BY Zenon DEF ClaimKept, ClaimedWhileOpen
<1> QED BY <1>1, ListenersInitHolds, ListenerFlagsStep, ListenerKindsStep, OneSocketStep, ClaimKeptStep, PTL
   DEF ListenersSpec

(* A wanted listener that is missing is on a list, being brought up or about *)
(* to be put back, but for the ways of losing it that forgot names.          *)
THEOREM NeverForgottenAlways == ListenersSpec => []NeverForgotten
<1>1. ListenerKinds /\ OnSomeList => NeverForgotten
  BY DEF ListenerKinds, OnSomeList, Bringing, NeverForgotten, ComesBack, Working, Callers, Steps
<1> QED BY <1>1, ListenersInitHolds, ListenerKindsStep, OnSomeListStep, PTL DEF ListenersSpec

(* Nothing brings back a listener removed with no add under way and no close *)
(* that had read its spec to come back.                                      *)
THEOREM RemovedStaysRemovedAlways == ListenersSpec => []RemovedStaysRemoved
<1> QED BY ListenersInitHolds, ListenerKindsStep, RemovedStaysStep, PTL DEF ListenersSpec

-----------------------------------------------------------------------------
(* JoinPoll.  For any number of joins, cap, ceiling and bound on asking again.  *)
LEMMA BackoffBounded ==
    ASSUME NEW j \in Joins, gap \in [Joins -> 0..GapCap]
    PROVE  poll_backoff(j) \in 0..GapCap
BY PacerAssumption DEF poll_backoff

LEMMA ElapsedBounded ==
    ASSUME NEW j \in Joins, since \in [Joins -> 0..GapCap + 1]
    PROVE  Elapsed(j) \in 0..GapCap + 1
BY PacerAssumption DEF Elapsed

LEMMA PollTickKeepsType ==
    ASSUME PacerTypeOK, NEW early \in BOOLEAN, NEW approved \in {{}, Joins}, PollTick(early, approved)
    PROVE  PacerTypeOK'
<1> DEFINE kept == sent \cap pending
           ready == {j \in pending : \/ j \notin kept
                                     \/ Elapsed(j) > gap[j]
                                     \/ Elapsed(j) = gap[j] /\ ~early}
           due == Due(ready)
           forgotten == Joins \ kept
<1>1. due \subseteq Joins /\ kept \subseteq Joins
  BY DEF Due, PacerTypeOK
<1>2. CASE /\ pending = {}
           /\ asked' = {} /\ since' = [j \in Joins |-> IF j \in sent THEN Elapsed(j) ELSE 0]
           /\ UNCHANGED <<pending, sent, gap, resends, changes>>
  <2>1. since' \in [Joins -> 0..GapCap + 1]
    BY <1>2, ElapsedBounded, PacerAssumption DEF PacerTypeOK
  <2> QED BY <1>2, <2>1 DEF PacerTypeOK
<1>3. CASE /\ pending # {}
           /\ asked' = due /\ sent' = kept \cup due
           /\ gap' = [j \in Joins |-> IF j \in due THEN IF j \in kept THEN poll_backoff(j) ELSE 1
                                      ELSE IF j \in forgotten THEN 0 ELSE gap[j]]
           /\ since' = [j \in Joins |-> IF j \in due \cup forgotten THEN 0 ELSE Elapsed(j)]
           /\ resends' = [j \in Joins |->
                  IF j \in forgotten THEN IF j \in due \cap approved /\ MaxResends > 0 THEN 1 ELSE 0
                  ELSE IF j \in due \cap approved /\ MayResend(j) THEN resends[j] + 1 ELSE resends[j]]
           /\ UNCHANGED <<pending, changes>>
  <2> HIDE DEF due, kept, forgotten
  <2>1. gap' \in [Joins -> 0..GapCap]
    BY <1>3, BackoffBounded, PacerAssumption DEF PacerTypeOK
  <2>2. since' \in [Joins -> 0..GapCap + 1]
    BY <1>3, ElapsedBounded, PacerAssumption DEF PacerTypeOK
  <2>3. resends' \in [Joins -> 0..MaxResends]
    BY <1>3, PacerAssumption DEF PacerTypeOK, MayResend
  <2>4. pending' = pending /\ changes' = changes /\ asked' = due /\ sent' = kept \cup due
    BY <1>3
  <2> QED BY <1>1, <2>1, <2>2, <2>3, <2>4 DEF PacerTypeOK
<1> QED BY <1>2, <1>3, Zenon DEF PollTick

LEMMA PacerInitHolds == PacerInit => PacerTypeOK
  BY PacerAssumption DEF PacerInit, PacerTypeOK

LEMMA PacerStep == PacerTypeOK /\ [PacerNext]_pacerVars => PacerTypeOK'
<1> SUFFICES ASSUME PacerTypeOK, [PacerNext]_pacerVars PROVE PacerTypeOK'
  OBVIOUS
<1>1. ASSUME NEW j \in Joins, Change(j) PROVE PacerTypeOK'
  BY <1>1, PacerAssumption DEF Change, PacerTypeOK
<1>2. CASE PacerTick
  BY <1>2, PollTickKeepsType DEF PacerTick
<1>3. CASE UNCHANGED pacerVars
  BY <1>3 DEF pacerVars, PacerTypeOK
<1> QED BY <1>1, <1>2, <1>3 DEF PacerNext

(* No join's credentials are asked for again more than MAX_RESEND_ASKS times  *)
(* while it is parked, and no backoff passes its cap (join_status_poll).      *)
THEOREM PacerTypeCorrect == PacerSpec => []PacerTypeOK
<1> QED BY PacerInitHolds, PacerStep, PTL DEF PacerSpec

-----------------------------------------------------------------------------
(* Elections.  For any elections, communities and order of answers: a         *)
(* membership is presented, and a ballot cast, only where the member said so. *)
Targets == Homes \cup {HeldBy[e] : e \in Ballots}
Presented == {Audience[e] : e \in Ballots}
Papers == [election : Ballots \cup {None}, answers : Ballots \cup {None}]
Shown == [e : Ballots, state : States]
Flows == [e : Ballots \cup {None}, intent : Intents]
Offers == [e : Ballots, intent : Intents]
RequestType ==
    [purpose : {"list", "show", "issue"}, e : Ballots \cup {None}, about : Ballots \cup {None},
     intent : Intents, to : Targets, presents : BOOLEAN, page : {1, 2}]
VtaKinds == {"Register", "Accept", "Vote", "Keep"}
NextType ==
    [kind : {"Refresh", "ListPage"}]
    \cup [kind : {"ReadPresenting"}, e : Ballots, intent : Intents]
    \cup [kind : {"SendShowDocument"}, e : Ballots, intent : Intents, to : Targets]
    \cup [kind : {"SendIssueDocument"}, e : Ballots, to : Targets]
    \cup [kind : {"SendIssue"}, e : Ballots]
    \cup [kind : VtaKinds \cup {"Deliver"}, of : Papers]
ViewType ==
    [home : Homes, screen : Screens, shown : Shown \cup {None}, form : Ballots \cup {None}, target : Targets,
     presenting : Presented \cup {None}, opening : Ballots \cup {None}, disclose : Offers \cup {None},
     pending : RequestType \cup {None}, flow : Flows \cup {None}, next : NextType \cup {None},
     cast : Papers \cup {None}, loaded : BOOLEAN, told : BOOLEAN, due : BOOLEAN]
AskType ==
    [kind : {"notified"}] \cup [kind : {"read"}, e : Ballots, intent : Intents]
    \cup [kind : VtaKinds, shown : Ballots, of : Papers]
VtaJobType == [home : Homes, community : Targets, ask : AskType]
CastJobType == [home : Homes, of : Papers, box : Ballots]
LaneType == [send : BOOLEAN, vta : VtaJobType \cup {None}, cast : CastJobType \cup {None}]

(* What the panel waits for, takes next or asks the VTA for is what the       *)
(* member chose (chosen) or confirmed (sure), and what a VTA is needed for    *)
(* is under way only with one.                                                *)
PendingMeant(v, p, c) ==
    /\ p.presents => p.about \in c
    /\ p.purpose = "show" => p.e \in Ballots /\ (v.presenting # None \/ v.screen = "disclose" => p.e \in c)
NextMeant(n, c, sure) ==
    /\ n.kind \in {"ReadPresenting", "SendShowDocument"} => n.e \in c
    /\ n.kind \in {"Vote", "Deliver"} => n.of.election \in sure /\ connected
Meant(v, c, sure) ==
    /\ v.shown # None /\ v.presenting # None => v.shown.e \in c
    /\ v.pending # None => PendingMeant(v, v.pending, c)
    /\ v.next # None => NextMeant(v.next, c, sure)
    /\ v.cast # None => v.cast.election \in sure
    /\ v.flow # None \/ v.form # None \/ v.cast # None => connected
GoodView(v, c, sure) == v = None \/ (v \in ViewType /\ Meant(v, c, sure))
GoodLanes(l, c, sure) ==
    /\ l \in LaneType
    /\ l.vta # None =>
         /\ connected
         /\ l.vta.ask.kind = "read" => l.vta.ask.e \in c
         /\ l.vta.ask.kind = "Vote" => l.vta.ask.of.election \in sure
    /\ l.cast # None => l.cast.of.election \in sure /\ connected
ElectionsInv ==
    /\ GoodView(view, chosen, confirmed) /\ GoodLanes(lanes, chosen, confirmed)
    /\ connected \in BOOLEAN /\ tickets \subseteq Ballots /\ tickets_taken \subseteq Ballots \cup {None}
    /\ turns \in 0..MaxTurns

(* A view that shows something, and what the panel's own steps make of one.   *)
Showing(v, c, sure) == v \in ViewType /\ Meant(v, c, sure)
Good(r, c, sure) == Showing(r.view, c, sure) /\ GoodLanes(r.lanes, c, sure)

LEMMA FailKeeps ==
    ASSUME NEW v, NEW c, NEW sure, NEW purpose, Showing(v, c, sure)
    PROVE  Showing(fail(v, purpose), c, sure)
<1>1. [v EXCEPT !.flow = None] \in ViewType
  BY DEF Showing, ViewType
<1>2. Meant([v EXCEPT !.flow = None], c, sure)
  BY DEF Showing, ViewType, Meant, PendingMeant
<1> QED BY <1>1, <1>2 DEF Showing, fail

LEMMA AnsweredKeeps ==
    ASSUME NEW v, NEW c, NEW sure, Showing(v, c, sure)
    PROVE  Showing(Answered(v), c, sure)
<1>1. Answered(v) \in ViewType
  BY DEF Showing, ViewType, Answered
<1>2. Meant(Answered(v), c, sure)
  BY DEF Showing, ViewType, Meant, PendingMeant, Answered
<1> QED BY <1>1, <1>2 DEF Showing

LEMMA ResetKeeps ==
    ASSUME NEW v, NEW c, NEW sure, Showing(v, c, sure), v.pending = None \/ v.screen # "disclose"
    PROVE  Showing(reset_target(v), c, sure)
<1>1. reset_target(v) \in ViewType
  BY DEF Showing, ViewType, reset_target, Targets
<1>2. Meant(reset_target(v), c, sure)
  BY DEF Showing, ViewType, Meant, PendingMeant, reset_target
<1> QED BY <1>1, <1>2 DEF Showing

LEMMA SendKeeps ==
    ASSUME NEW v, NEW l, NEW c, NEW sure, NEW request \in RequestType, NEW ok,
           Showing(v, c, sure), GoodLanes(l, c, sure), PendingMeant(v, request, c)
    PROVE  Good(send(v, l, request, ok), c, sure)
<1> DEFINE w == [v EXCEPT !.pending = request]
           k == [l EXCEPT !.send = TRUE]
<1>1. w \in ViewType
  BY DEF Showing, ViewType
<1>2. Meant(w, c, sure)
  BY DEF Showing, ViewType, Meant, PendingMeant
<1>3. GoodLanes(k, c, sure)
  BY DEF GoodLanes, LaneType
<1>4. Showing(fail(v, request.purpose), c, sure)
  BY FailKeeps
<1> HIDE DEF w, k
<1>5. Good([taken |-> TRUE, view |-> w, lanes |-> k], c, sure)
  BY <1>1, <1>2, <1>3 DEF Good, Showing
<1> QED BY <1>4, <1>5 DEF send, Good, Busy, Taken, w, k

LEMMA SignedKeeps ==
    ASSUME NEW v, NEW l, NEW c, NEW sure, NEW request \in RequestType, NEW document, NEW ok,
           Showing(v, c, sure), GoodLanes(l, c, sure), PendingMeant(v, request, c)
    PROVE  Good(send_signed(v, l, request, document, ok), c, sure)
BY SendKeeps DEF send_signed

LEMMA AskKeeps ==
    ASSUME NEW v, NEW l, NEW c, NEW sure, NEW ask \in AskType,
           Showing(v, c, sure), GoodLanes(l, c, sure), connected \in BOOLEAN,
           ask.kind = "read" => ask.e \in c,
           ask.kind = "Vote" => ask.of.election \in sure
    PROVE  Good(ask_vta(v, l, ask), c, sure)
<1> DEFINE w == [v EXCEPT !.flow = None, !.next = None]
           job == [home |-> v.home, community |-> v.target, ask |-> ask]
           k == [l EXCEPT !.vta = job]
<1>1. w \in ViewType
  BY DEF Showing, ViewType
<1>2. Meant(w, c, sure)
  BY DEF Showing, ViewType, Meant, PendingMeant
<1>3. job \in VtaJobType
  BY DEF VtaJobType, Showing, ViewType
<1> HIDE DEF job
<1>4. k \in LaneType /\ k.vta = job /\ k.cast = l.cast
  BY <1>3 DEF GoodLanes, LaneType
<1>5. job.ask = ask
  BY DEF job
<1>6. connected => GoodLanes(k, c, sure)
  BY <1>4, <1>5 DEF GoodLanes
<1> HIDE DEF w, k
<1>7. Good([taken |-> TRUE, view |-> w, lanes |-> l], c, sure)
  BY <1>1, <1>2 DEF Good, Showing
<1>8. connected => Good([taken |-> TRUE, view |-> v, lanes |-> k], c, sure)
  BY <1>6 DEF Good
<1> QED BY <1>7, <1>8 DEF ask_vta, Good, Busy, Taken, w, k, job

LEMMA DeliverKeeps ==
    ASSUME NEW v, NEW l, NEW c, NEW sure, NEW built \in Papers,
           Showing(v, c, sure), GoodLanes(l, c, sure), connected, built.election \in sure
    PROVE  Good(deliver(v, l, built), c, sure)
<1> DEFINE job == [home |-> v.home, of |-> built, box |-> v.shown.e]
           k == [l EXCEPT !.cast = job]
<1>1. v.shown # None => job \in CastJobType
  BY DEF CastJobType, Showing, ViewType, Shown
<1>2. job.of = built
  OBVIOUS
<1> HIDE DEF job
<1>3. v.shown # None => k \in LaneType /\ k.vta = l.vta /\ k.cast = job
  BY <1>1 DEF GoodLanes, LaneType
<1>4. v.shown # None => GoodLanes(k, c, sure)
  BY <1>2, <1>3 DEF GoodLanes
<1> HIDE DEF k
<1>5. v.shown # None => Good([taken |-> TRUE, view |-> v, lanes |-> k], c, sure)
  BY <1>4 DEF Good
<1> QED BY <1>5 DEF deliver, Good, Busy, Taken, k, job

LEMMA RefreshKeeps ==
    ASSUME NEW v, NEW l, NEW c, NEW sure, NEW ok, Showing(v, c, sure), GoodLanes(l, c, sure)
    PROVE  Good(refresh(v, l, ok), c, sure)
<1> DEFINE w == [v EXCEPT !.due = TRUE]
           q == ListRequest(v, 1)
<1>1. w \in ViewType
  BY DEF Showing, ViewType
<1>2. Meant(w, c, sure)
  BY DEF Showing, ViewType, Meant, PendingMeant
<1>3. q \in RequestType /\ q.purpose = "list" /\ q.presents = FALSE
  BY DEF ListRequest, RequestType, Showing, ViewType, Intents, Targets
<1> HIDE DEF w, q
<1>4. PendingMeant(w, q, c)
  BY <1>3 DEF PendingMeant
<1>5. Good(send(w, l, q, ok), c, sure)
  BY <1>1, <1>2, <1>3, <1>4, SendKeeps DEF Showing
<1> QED BY <1>5 DEF refresh, w, q

LEMMA NextSet ==
    ASSUME NEW v, NEW n, NEW c, NEW sure, Showing(v, c, sure), n \in NextType, NextMeant(n, c, sure)
    PROVE  Showing([v EXCEPT !.next = n], c, sure)
<1> DEFINE w == [v EXCEPT !.next = n]
<1>1. w \in ViewType
  BY DEF Showing, ViewType
<1>2. Meant(w, c, sure)
  BY DEF Showing, ViewType, Meant, PendingMeant
<1> QED BY <1>1, <1>2 DEF Showing

LEMMA NextUnset ==
    ASSUME NEW v, NEW c, NEW sure, Showing(v, c, sure)
    PROVE  Showing([v EXCEPT !.next = None], c, sure)
<1> DEFINE w == [v EXCEPT !.next = None]
<1>1. w \in ViewType
  BY DEF Showing, ViewType
<1>2. Meant(w, c, sure)
  BY DEF Showing, ViewType, Meant, PendingMeant
<1> QED BY <1>1, <1>2 DEF Showing

LEMMA ReadKeeps ==
    ASSUME NEW v, NEW l, NEW c, NEW sure, NEW e \in Ballots, NEW aim \in Intents, NEW ok,
           Showing(v, c, sure), GoodLanes(l, c, sure), v.screen # "disclose",
           v.presenting # None => e \in c
    PROVE  Good(read_election(v, l, e, aim, ok), c, sure)
<1> DEFINE n == [kind |-> "ReadPresenting", e |-> e, intent |-> aim]
           q == ShowRequest(e, aim, v.target, FALSE)
<1>1. n \in NextType /\ n.kind = "ReadPresenting" /\ n.e = e
  BY DEF NextType
<1>2. q \in RequestType /\ q.purpose = "show" /\ q.e = e /\ q.presents = FALSE
  <2>1. v.target \in Targets
    BY DEF Showing, ViewType
  <2> QED BY <2>1 DEF ShowRequest, RequestType
<1> HIDE DEF n, q
<1>3. v.presenting # None => NextMeant(n, c, sure)
  BY <1>1 DEF NextMeant
<1>4. v.presenting # None => Showing([v EXCEPT !.next = n], c, sure)
  BY <1>1, <1>3, NextSet
<1>5. v.presenting = None => PendingMeant(v, q, c)
  BY <1>2 DEF PendingMeant
<1>6. v.presenting = None => Good(send(v, l, q, ok), c, sure)
  BY <1>2, <1>5, SendKeeps
<1> QED BY <1>4, <1>6 DEF read_election, Good, Taken, n, q

(* The fields a step has, by its kind. *)
LEMMA NextFields ==
    ASSUME NEW n \in NextType
    PROVE  /\ n.kind \in {"Refresh", "ListPage", "ReadPresenting", "SendShowDocument", "SendIssueDocument",
                          "SendIssue", "Deliver"} \cup VtaKinds
           /\ n.kind = "ReadPresenting" => n.e \in Ballots /\ n.intent \in Intents
           /\ n.kind = "SendShowDocument" => n.e \in Ballots /\ n.intent \in Intents /\ n.to \in Targets
           /\ n.kind = "SendIssueDocument" => n.e \in Ballots /\ n.to \in Targets
           /\ n.kind = "SendIssue" => n.e \in Ballots
           /\ n.kind \in VtaKinds \cup {"Deliver"} => n.of \in Papers
BY DEF NextType, VtaKinds

LEMMA TakeNextKeeps ==
    ASSUME NEW v, NEW l, NEW n \in NextType, NEW c, NEW sure, NEW ok,
           Showing(v, c, sure), GoodLanes(l, c, sure), NextMeant(n, c, sure), connected \in BOOLEAN
    PROVE  Good(TakeNext(v, l, n, ok), c, sure)
<1>1. v.target \in Targets /\ v.home \in Targets /\ v \in ViewType
  BY DEF Showing, ViewType, Targets
<1>2. CASE n.kind = "Refresh"
  <2>1. Good(refresh(v, l, ok), c, sure)
    BY RefreshKeeps
  <2> QED BY <1>2, <2>1 DEF TakeNext, Good, Busy, Taken
<1>3. CASE n.kind = "ListPage"
  <2> DEFINE q == ListRequest(v, 2)
  <2>1. q \in RequestType /\ q.purpose = "list" /\ q.presents = FALSE
    BY <1>1 DEF ListRequest, RequestType, Intents
  <2> HIDE DEF q
  <2>2. Good(send(v, l, q, ok), c, sure)
    BY <2>1, SendKeeps DEF PendingMeant
  <2> QED BY <1>3, <2>2 DEF TakeNext, q
<1>4. CASE n.kind = "ReadPresenting"
  <2> DEFINE ask == [kind |-> "read", e |-> n.e, intent |-> n.intent]
  <2>1. n.e \in Ballots /\ n.intent \in Intents /\ n.e \in c
    BY <1>4, NextFields DEF NextMeant
  <2>2. ask \in AskType /\ ask.kind = "read" /\ ask.e \in c
    BY <2>1 DEF AskType
  <2> HIDE DEF ask
  <2>3. Good(ask_vta(v, l, ask), c, sure)
    BY <2>2, AskKeeps
  <2> QED BY <1>4, <2>3 DEF TakeNext, ask
<1>5. CASE n.kind = "SendShowDocument"
  <2> DEFINE q == ShowRequest(n.e, n.intent, v.target, TRUE)
  <2>1. n.e \in Ballots /\ n.intent \in Intents /\ n.e \in c
    BY <1>5, NextFields DEF NextMeant
  <2>2. q \in RequestType /\ q.e = n.e /\ q.about = n.e
    BY <1>1, <2>1 DEF ShowRequest, RequestType
  <2> HIDE DEF q
  <2>3. PendingMeant(v, q, c)
    BY <2>1, <2>2 DEF PendingMeant
  <2>4. Good(send_signed(v, l, q, n, ok), c, sure)
    BY <2>2, <2>3, SignedKeeps
  <2> QED BY <1>5, <2>4 DEF TakeNext, q
<1>6. CASE n.kind = "SendIssueDocument"
  <2> DEFINE e == IF v.shown = None THEN None ELSE v.shown.e
             q == IssueRequest(e, n.e, v.target)
  <2>1. n.e \in Ballots
    BY <1>6, NextFields
  <2>2. e \in Ballots \cup {None}
    BY <1>1 DEF ViewType, Shown
  <2> HIDE DEF e
  <2>3. q \in RequestType /\ q.purpose = "issue" /\ q.presents = FALSE
    BY <1>1, <2>1, <2>2 DEF IssueRequest, RequestType, Intents
  <2> HIDE DEF q
  <2>4. PendingMeant(v, q, c)
    BY <2>3 DEF PendingMeant
  <2>5. Good(send_signed(v, l, q, n, ok), c, sure)
    BY <2>3, <2>4, SignedKeeps
  <2> QED BY <1>6, <2>5 DEF TakeNext, q, e
<1>7. CASE n.kind = "SendIssue"
  <2> DEFINE q == IssueRequest(n.e, n.e, v.target)
  <2>1. n.e \in Ballots
    BY <1>7, NextFields
  <2>2. q \in RequestType /\ q.purpose = "issue" /\ q.presents = FALSE
    BY <1>1, <2>1 DEF IssueRequest, RequestType, Intents
  <2> HIDE DEF q
  <2>3. PendingMeant(v, q, c)
    BY <2>2 DEF PendingMeant
  <2>4. Good(send(v, l, q, ok), c, sure)
    BY <2>2, <2>3, SendKeeps
  <2> QED BY <1>7, <2>4 DEF TakeNext, q
<1>8. CASE n.kind = "Deliver"
  <2>1. n.of \in Papers /\ n.of.election \in sure /\ connected
    BY <1>8, NextFields DEF NextMeant
  <2>2. Good(deliver(v, l, n.of), c, sure)
    BY <2>1, DeliverKeeps
  <2> QED BY <1>8, <2>2 DEF TakeNext
<1>9. CASE n.kind \in VtaKinds
  <2> DEFINE ask == [kind |-> n.kind, shown |-> v.shown.e, of |-> n.of]
  <2>1. n.of \in Papers /\ (n.kind = "Vote" => n.of.election \in sure)
    BY <1>9, NextFields DEF NextMeant
  <2>2. v.shown # None => v.shown.e \in Ballots
    BY <1>1 DEF ViewType, Shown
  <2>3. v.shown # None => ask \in AskType
    BY <1>9, <2>1, <2>2 DEF AskType
  <2>4. ask.kind \in VtaKinds /\ (ask.kind = "Vote" => ask.of.election \in sure)
    BY <1>9, <2>1
  <2> HIDE DEF ask
  <2>5. v.shown # None => Good(ask_vta(v, l, ask), c, sure)
    BY <2>3, <2>4, AskKeeps DEF VtaKinds
  <2> QED BY <1>9, <2>5 DEF TakeNext, Good, Taken, ask, VtaKinds
<1> QED BY <1>2, <1>3, <1>4, <1>5, <1>6, <1>7, <1>8, <1>9, NextFields DEF VtaKinds

LEMMA NotifiedKeeps ==
    ASSUME NEW v, NEW l, NEW c, NEW sure,
           Showing(v, c, sure), GoodLanes(l, c, sure), connected \in BOOLEAN
    PROVE  Good(ask_notified(v, l), c, sure)
<1> DEFINE ask == [kind |-> "notified"]
           r == ask_vta(v, l, ask)
<1>1. ASSUME NEW w, Showing(w, c, sure)
      PROVE  Showing([w EXCEPT !.due = FALSE], c, sure)
  <2>1. [w EXCEPT !.due = FALSE] \in ViewType
    <3>1. \A b \in BOOLEAN : [w EXCEPT !.due = b] \in ViewType
      BY <1>1 DEF Showing, ViewType
    <3> QED BY <3>1
  <2>2. Meant([w EXCEPT !.due = FALSE], c, sure)
    BY <1>1 DEF Showing, ViewType, Meant, PendingMeant
  <2> QED BY <2>1, <2>2 DEF Showing
<1>2. ask \in AskType /\ ask.kind = "notified"
  BY DEF AskType
<1> HIDE DEF ask
<1>3. Good(r, c, sure)
  BY <1>2, AskKeeps
<1> HIDE DEF r
<1>4. Showing([v EXCEPT !.due = FALSE], c, sure) /\ Showing([r.view EXCEPT !.due = FALSE], c, sure)
  BY <1>1, <1>3 DEF Good
<1> QED BY <1>3, <1>4 DEF ask_notified, Good, Busy, Taken, r, ask

LEMMA AdvanceKeeps ==
    ASSUME NEW v, NEW l, NEW c, NEW sure, NEW ok,
           GoodView(v, c, sure), GoodLanes(l, c, sure), connected \in BOOLEAN
    PROVE  GoodView(advance(v, l, ok).view, c, sure) /\ GoodLanes(advance(v, l, ok).lanes, c, sure)
<1> DEFINE a == ask_notified(v, l)
           w == [a.view EXCEPT !.next = None]
           r == TakeNext(w, a.lanes, v.next, ok)
           u == [r.view EXCEPT !.next = v.next]
<1>1. CASE v = None
  BY <1>1 DEF advance, Taken, GoodView
<1>2. CASE v # None
  <2>1. Showing(v, c, sure)
    BY <1>2 DEF GoodView, Showing
  <2>2. Good(a, c, sure)
    BY <2>1, NotifiedKeeps
  <2> HIDE DEF a
  <2>3. Showing(w, c, sure) /\ GoodLanes(a.lanes, c, sure)
    BY <2>2, NextUnset DEF Good
  <2>4. v.next # None => v.next \in NextType /\ NextMeant(v.next, c, sure)
    BY <2>1 DEF Showing, ViewType, Meant
  <2> HIDE DEF w
  <2>5. v.next # None => Good(r, c, sure)
    BY <2>3, <2>4, TakeNextKeeps
  <2> HIDE DEF r
  <2>6. v.next # None => Showing(u, c, sure)
    BY <2>4, <2>5, NextSet DEF Good
  <2> HIDE DEF u
  <2>7. advance(v, l, ok) = IF v.next = None THEN a ELSE IF r.taken THEN r
                            ELSE [taken |-> FALSE, view |-> u, lanes |-> r.lanes]
    BY <1>2 DEF advance, Busy, a, w, r, u
  <2> QED BY <2>2, <2>5, <2>6, <2>7 DEF Good, GoodView, Showing
<1> QED BY <1>1, <1>2

(* What the loop leaves after a reply, an outcome or the tick. *)
LEMMA Advances ==
    ASSUME NEW v, NEW l, NEW n, NEW c, NEW sure, Advance(v, l, n),
           GoodView(v, c, sure), GoodLanes(l, c, sure), connected \in BOOLEAN, n \in Nat, turns \in 0..MaxTurns
    PROVE  GoodView(view', c, sure) /\ GoodLanes(lanes', c, sure) /\ turns' \in 0..MaxTurns
<1>1. PICK ok \in BOOLEAN : /\ Spent(IF ok THEN n ELSE n + 1)
                            /\ view' = advance(v, l, ok).view /\ lanes' = advance(v, l, ok).lanes
  BY DEF Advance
<1>2. turns' \in 0..MaxTurns
  BY <1>1, ElectionsAssumption DEF Spent
<1> QED BY <1>1, <1>2, AdvanceKeeps

(* One step.  Every step leaves the connection as it is. *)
LEMMA InvAfter ==
    ASSUME ElectionsInv, connected' = connected, turns' \in 0..MaxTurns,
           GoodView(view', chosen', confirmed'), GoodLanes(lanes', chosen', confirmed'),
           tickets' \subseteq Ballots, tickets_taken' \subseteq Ballots \cup {None}
    PROVE  ElectionsInv'
<1>1. GoodView(view, chosen, confirmed)'
  BY DEF GoodView, Meant, PendingMeant, NextMeant
<1>2. GoodLanes(lanes, chosen, confirmed)'
  BY DEF GoodLanes
<1> QED BY <1>1, <1>2 DEF ElectionsInv

LEMMA InvUnchosen ==
    ASSUME ElectionsInv, NoHistory, turns' \in 0..MaxTurns,
           GoodView(view', chosen, confirmed), GoodLanes(lanes', chosen, confirmed)
    PROVE  ElectionsInv'
BY InvAfter DEF NoHistory, ElectionsInv

LEMMA SpentInBounds ==
    ASSUME NEW n \in Nat, Spent(n), turns \in 0..MaxTurns
    PROVE  turns' \in 0..MaxTurns
BY ElectionsAssumption DEF Spent

LEMMA InvGives ==
    ASSUME ElectionsInv
    PROVE  /\ connected \in BOOLEAN /\ turns \in 0..MaxTurns /\ GoodLanes(lanes, chosen, confirmed)
           /\ GoodView(view, chosen, confirmed)
           /\ view # None => Showing(view, chosen, confirmed)
BY DEF ElectionsInv, GoodView, Showing

LEMMA ScreenSet ==
    ASSUME NEW v, NEW c, NEW sure, NEW screen \in Screens, Showing(v, c, sure), screen # "disclose"
    PROVE  Showing([v EXCEPT !.screen = screen], c, sure)
<1>1. [v EXCEPT !.screen = screen] \in ViewType
  BY DEF Showing, ViewType
<1>2. Meant([v EXCEPT !.screen = screen], c, sure)
  BY DEF Showing, ViewType, Meant, PendingMeant
<1> QED BY <1>1, <1>2 DEF Showing

(* What a key does is kept, when what it makes of the panel is. *)
LEMMA KeyKeeps ==
    ASSUME ElectionsInv, NoHistory, NEW r, NEW ok \in BOOLEAN, NEW n \in Nat, Spent(IF ok THEN n ELSE n + 1),
           view' = r.view, lanes' = r.lanes, Good(r, chosen, confirmed)
    PROVE  ElectionsInv'
<1>1. turns' \in 0..MaxTurns
  <2>1. (IF ok THEN n ELSE n + 1) \in Nat
    OBVIOUS
  <2> QED BY <2>1, SpentInBounds, InvGives
<1>2. GoodView(view', chosen, confirmed) /\ GoodLanes(lanes', chosen, confirmed)
  BY DEF Good, GoodView, Showing
<1> QED BY <1>1, <1>2, InvUnchosen

LEMMA OpenKeeps ==
    ASSUME ElectionsInv, NEW home \in Homes, Open(home)
    PROVE  ElectionsInv'
<1> DEFINE v == NewView(home)
           r(ok) == refresh(v, lanes, ok)
<1>1. PICK ok \in BOOLEAN : view' = r(ok).view /\ lanes' = r(ok).lanes /\ Spent(IF ok THEN 0 ELSE 0 + 1)
  BY DEF Open, Does
<1>2. NoHistory
  BY DEF Open
<1>3. v \in ViewType
  BY DEF NewView, ViewType, Targets, Screens
<1>4. Meant(v, chosen, confirmed)
  BY DEF NewView, Meant
<1> HIDE DEF v
<1>5. Good(r(ok), chosen, confirmed)
  BY <1>3, <1>4, RefreshKeeps, InvGives DEF Showing
<1> HIDE DEF r
<1>6. 0 \in Nat
  OBVIOUS
<1> QED BY <1>1, <1>2, <1>5, <1>6, KeyKeeps

LEMMA BackKeeps ==
    ASSUME ElectionsInv, Back
    PROVE  ElectionsInv'
<1>1. /\ view # None /\ Spent(1) /\ NoHistory /\ lanes' = lanes
      /\ Showing(view, chosen, confirmed) /\ GoodLanes(lanes, chosen, confirmed)
  BY InvGives DEF Back
<1>2. turns' \in 0..MaxTurns
  BY <1>1, SpentInBounds, InvGives
<1>3. GoodView(view', chosen, confirmed)
  <2>1. view \in ViewType /\ view.screen \in Screens
    BY <1>1 DEF Showing, ViewType
  <2>2. CASE view.screen = "list"
    BY <1>1, <2>2 DEF Back, GoodView
  <2>3. CASE view.screen = "disclose"
    <3> DEFINE v == [view EXCEPT !.screen = "list", !.target = view.home, !.presenting = None, !.opening = None,
                                 !.disclose = None]
    <3>1. view' = v
      BY <1>1, <2>1, <2>3 DEF Back, reset_target, ViewType
    <3>2. v \in ViewType
      BY <2>1 DEF ViewType, Targets, Screens
    <3>3. Meant(v, chosen, confirmed)
      BY <1>1, <2>1, <2>3 DEF Showing, ViewType, Meant, PendingMeant
    <3> QED BY <3>1, <3>2, <3>3 DEF GoodView
  <2>4. CASE view.screen = "detail"
    <3> DEFINE v == [view EXCEPT !.screen = "list", !.target = view.home, !.presenting = None, !.opening = None,
                                 !.disclose = None, !.shown = None, !.flow = None]
    <3>1. view' = v
      BY <1>1, <2>1, <2>4 DEF Back, reset_target, ViewType
    <3>2. v \in ViewType
      BY <2>1 DEF ViewType, Targets, Screens
    <3>3. Meant(v, chosen, confirmed)
      BY <1>1, <2>1, <2>4 DEF Showing, ViewType, Meant, PendingMeant
    <3> QED BY <3>1, <3>2, <3>3 DEF GoodView
  <2>5. CASE view.screen = "ballot"
    <3> DEFINE v == [view EXCEPT !.form = None, !.screen = "detail"]
    <3>1. view' = v
      BY <1>1, <2>5 DEF Back
    <3>2. v \in ViewType
      BY <2>1 DEF ViewType, Targets, Screens
    <3>3. Meant(v, chosen, confirmed)
      BY <1>1, <2>1, <2>5 DEF Showing, ViewType, Meant, PendingMeant
    <3> QED BY <3>1, <3>2, <3>3 DEF GoodView
  <2>6. CASE view.screen = "confirm"
    BY <1>1, <2>6, ScreenSet DEF Back, GoodView, Showing, Screens
  <2>7. CASE view.screen = "result"
    BY <1>1, <2>7, ScreenSet DEF Back, GoodView, Showing, Screens
  <2> QED BY <2>1, <2>2, <2>3, <2>4, <2>5, <2>6, <2>7 DEF Screens
<1> QED BY <1>1, <1>2, <1>3, InvUnchosen

LEMMA Blanked ==
    ASSUME NEW v \in ViewType, NEW screen \in Screens
    PROVE  [v EXCEPT !.screen = screen, !.shown = None] \in ViewType
BY DEF ViewType

LEMMA OpenedAt ==
    ASSUME NEW v \in ViewType, NEW target \in Targets, NEW e \in Ballots \cup {None}
    PROVE  [v EXCEPT !.target = target, !.opening = e] \in ViewType
BY DEF ViewType

LEMMA ShowSelectedKeeps ==
    ASSUME NEW v, NEW l, NEW e \in Ballots, NEW ok, NEW c, NEW sure,
           Showing(v, c, sure), GoodLanes(l, c, sure), v.pending = None
    PROVE  Good(show_selected(v, l, e, ok), c, sure)
<1> DEFINE z == reset_target(v)
           opened == IF e \in Listed(v) THEN z ELSE [z EXCEPT !.target = HeldBy[e], !.opening = e]
           w == [opened EXCEPT !.screen = "detail", !.shown = None]
           q == ShowRequest(e, "view", w.target, FALSE)
           r == send(w, l, q, ok)
           u == [r.view EXCEPT !.screen = "list"]
<1>1. Showing(z, c, sure) /\ z.pending = None /\ z.presenting = None
  <2>1. v \in ViewType
    BY DEF Showing
  <2>2. z.pending = None /\ z.presenting = None
    BY <2>1 DEF reset_target, ViewType
  <2> QED BY <2>2, ResetKeeps
<1> HIDE DEF z
<1>2. Showing(opened, c, sure) /\ opened.pending = None /\ opened.presenting = None
  <2> DEFINE o == [z EXCEPT !.target = HeldBy[e], !.opening = e]
  <2>1. o \in ViewType /\ o.pending = None /\ o.presenting = None
    <3>1. z \in ViewType /\ HeldBy[e] \in Targets /\ e \in Ballots \cup {None}
      BY <1>1 DEF Showing, Targets
    <3>2. o \in ViewType
      BY <3>1, OpenedAt
    <3>3. o.pending = z.pending /\ o.presenting = z.presenting
      BY <3>1 DEF ViewType
    <3> QED BY <1>1, <3>2, <3>3
  <2>2. Meant(o, c, sure)
    BY <1>1 DEF Showing, ViewType, Meant, PendingMeant
  <2> QED BY <1>1, <2>1, <2>2 DEF Showing
<1> HIDE DEF opened
<1>3. w \in ViewType /\ w.pending = None /\ w.presenting = None /\ w.screen = "detail" /\ w.target \in Targets
  <2>1. opened \in ViewType
    BY <1>2 DEF Showing
  <2>2. "detail" \in Screens
    BY DEF Screens
  <2>3. w \in ViewType
    BY <2>1, <2>2, Blanked
  <2>4. w.pending = opened.pending /\ w.presenting = opened.presenting /\ w.screen = "detail"
    BY <2>1 DEF ViewType
  <2> QED BY <1>2, <2>3, <2>4 DEF ViewType
<1>4. Meant(w, c, sure)
  BY <1>2 DEF Showing, ViewType, Meant, PendingMeant
<1> HIDE DEF w
<1>5. q \in RequestType /\ q.e = e /\ q.presents = FALSE
  BY <1>3 DEF ShowRequest, RequestType, Intents
<1> HIDE DEF q
<1>6. PendingMeant(w, q, c)
  BY <1>3, <1>5 DEF PendingMeant
<1>7. Good(r, c, sure)
  BY <1>3, <1>4, <1>5, <1>6, SendKeeps DEF Showing
<1> HIDE DEF r
<1>8. Showing(u, c, sure)
  BY <1>7, ScreenSet DEF Good, Screens
<1> HIDE DEF u
<1>9. show_selected(v, l, e, ok) = IF r.taken THEN r ELSE [taken |-> FALSE, view |-> u, lanes |-> r.lanes]
  BY DEF show_selected, Busy, u, r, q, w, opened, z
<1> QED BY <1>7, <1>8, <1>9 DEF Good

LEMMA ShowKeeps ==
    ASSUME ElectionsInv, NEW e \in Ballots, Show(e)
    PROVE  ElectionsInv'
<1> DEFINE r(ok) == show_selected(view, lanes, e, ok)
<1>1. PICK ok \in BOOLEAN : view' = r(ok).view /\ lanes' = r(ok).lanes /\ Spent(IF ok THEN 0 ELSE 0 + 1)
  BY DEF Show, Does
<1>2. NoHistory /\ view # None /\ view.pending = None
  BY DEF Show, On
<1>3. Good(r(ok), chosen, confirmed)
  BY <1>2, ShowSelectedKeeps, InvGives
<1> HIDE DEF r
<1>4. 0 \in Nat
  OBVIOUS
<1> QED BY <1>1, <1>2, <1>3, <1>4, KeyKeeps

LEMMA GoodGrows ==
    ASSUME NEW v, NEW l, NEW c, NEW sure, NEW c2, NEW sure2, c \subseteq c2, sure \subseteq sure2
    PROVE  /\ Showing(v, c, sure) => Showing(v, c2, sure2)
           /\ GoodView(v, c, sure) => GoodView(v, c2, sure2)
           /\ GoodLanes(l, c, sure) => GoodLanes(l, c2, sure2)
BY DEF Showing, GoodView, GoodLanes, Meant, PendingMeant, NextMeant

LEMMA RefreshScreenKeeps ==
    ASSUME ElectionsInv, refresh_screen
    PROVE  ElectionsInv'
<1>1. view # None /\ view.pending = None /\ NoHistory
  BY DEF refresh_screen
<1>2. Showing(view, chosen, confirmed) /\ GoodLanes(lanes, chosen, confirmed) /\ 1 \in Nat
  BY <1>1, InvGives
<1>3. CASE On("list") /\ LET Again(ok) == refresh(view, lanes, ok) IN Does(Again, 1)
  <2> DEFINE r(ok) == refresh(view, lanes, ok)
  <2>1. PICK ok \in BOOLEAN : view' = r(ok).view /\ lanes' = r(ok).lanes /\ Spent(IF ok THEN 1 ELSE 1 + 1)
    BY <1>3 DEF Does
  <2>2. Good(r(ok), chosen, confirmed)
    BY <1>2, RefreshKeeps
  <2> HIDE DEF r
  <2> QED BY <1>1, <1>2, <2>1, <2>2, KeyKeeps
<1>4. CASE /\ On("detail") /\ view.shown # None
           /\ LET Again(ok) == read_election(view, lanes, view.shown.e, "view", ok) IN Does(Again, 1)
  <2> DEFINE r(ok) == read_election(view, lanes, view.shown.e, "view", ok)
  <2>1. PICK ok \in BOOLEAN : view' = r(ok).view /\ lanes' = r(ok).lanes /\ Spent(IF ok THEN 1 ELSE 1 + 1)
    BY <1>4 DEF Does
  <2>2. /\ view.shown.e \in Ballots /\ "view" \in Intents /\ view.screen # "disclose"
        /\ view.presenting # None => view.shown.e \in chosen
    BY <1>2, <1>4 DEF On, Showing, ViewType, Shown, Meant, Intents
  <2>3. Good(r(ok), chosen, confirmed)
    BY <1>2, <2>2, ReadKeeps
  <2> HIDE DEF r
  <2> QED BY <1>1, <1>2, <2>1, <2>3, KeyKeeps
<1>5. CASE /\ On("detail") /\ view.shown = None
           /\ \E e \in rows(view) : LET Again(ok) == show_selected(view, lanes, e, ok) IN Does(Again, 1)
  <2>1. PICK e \in rows(view) : LET Again(ok) == show_selected(view, lanes, e, ok) IN Does(Again, 1)
    BY <1>5
  <2> DEFINE r(ok) == show_selected(view, lanes, e, ok)
  <2>2. PICK ok \in BOOLEAN : view' = r(ok).view /\ lanes' = r(ok).lanes /\ Spent(IF ok THEN 1 ELSE 1 + 1)
    BY <2>1 DEF Does
  <2>3. e \in Ballots
    BY DEF rows, Listed
  <2>4. Good(r(ok), chosen, confirmed)
    BY <1>1, <1>2, <2>3, ShowSelectedKeeps
  <2> HIDE DEF r
  <2> QED BY <1>1, <1>2, <2>2, <2>4, KeyKeeps
<1> QED BY <1>3, <1>4, <1>5 DEF refresh_screen

LEMMA FlowSet ==
    ASSUME NEW v, NEW c, NEW sure, NEW flow \in Flows, Showing(v, c, sure), connected
    PROVE  Showing([v EXCEPT !.flow = flow], c, sure)
<1>1. [v EXCEPT !.flow = flow] \in ViewType
  BY DEF Showing, ViewType
<1>2. Meant([v EXCEPT !.flow = flow], c, sure)
  BY DEF Showing, ViewType, Meant, PendingMeant
<1> QED BY <1>1, <1>2 DEF Showing

LEMMA FlowUnset ==
    ASSUME NEW v, NEW c, NEW sure, Showing(v, c, sure)
    PROVE  Showing([v EXCEPT !.flow = None], c, sure)
<1>1. [v EXCEPT !.flow = None] \in ViewType
  BY DEF Showing, ViewType
<1>2. Meant([v EXCEPT !.flow = None], c, sure)
  BY DEF Showing, ViewType, Meant, PendingMeant
<1> QED BY <1>1, <1>2 DEF Showing

LEMMA StartFlowKeeps ==
    ASSUME ElectionsInv, NEW aim \in {"ticket", "vote"}, start_flow(aim)
    PROVE  ElectionsInv'
<1> DEFINE v == [view EXCEPT !.flow = [e |-> view.shown.e, intent |-> aim]]
           r(ok) == read_election(v, lanes, view.shown.e, aim, ok)
           started(ok) == IF r(ok).taken THEN r(ok) ELSE [r(ok) EXCEPT !.view.flow = None]
<1>1. /\ NoHistory /\ connected /\ view # None /\ view.screen = "detail" /\ view.shown # None
      /\ Showing(view, chosen, confirmed) /\ GoodLanes(lanes, chosen, confirmed) /\ 1 \in Nat
  BY InvGives DEF start_flow, On
<1>2. PICK ok \in BOOLEAN :
        view' = started(ok).view /\ lanes' = started(ok).lanes /\ Spent(IF ok THEN 1 ELSE 1 + 1)
  BY DEF start_flow, Does
<1>3. /\ view.shown.e \in Ballots /\ aim \in Intents /\ view \in ViewType
      /\ view.presenting # None => view.shown.e \in chosen
  BY <1>1 DEF Showing, ViewType, Shown, Meant, Intents
<1>4. [e |-> view.shown.e, intent |-> aim] \in Flows
  BY <1>3 DEF Flows
<1>5. Showing(v, chosen, confirmed)
  BY <1>1, <1>4, FlowSet
<1>6. v.screen = "detail" /\ v.presenting = view.presenting
  BY <1>1, <1>3 DEF ViewType
<1> HIDE DEF v
<1>7. Good(r(ok), chosen, confirmed)
  BY <1>1, <1>3, <1>5, <1>6, ReadKeeps
<1>8. r(ok) = [taken |-> r(ok).taken, view |-> r(ok).view, lanes |-> r(ok).lanes]
  BY DEF read_election, send, Taken, Busy
<1> HIDE DEF r
<1>9. Showing([r(ok).view EXCEPT !.flow = None], chosen, confirmed)
  BY <1>7, FlowUnset DEF Good
<1>10. [r(ok) EXCEPT !.view.flow = None]
         = [taken |-> r(ok).taken, view |-> [r(ok).view EXCEPT !.flow = None], lanes |-> r(ok).lanes]
  BY <1>8
<1>11. Good(started(ok), chosen, confirmed)
  BY <1>7, <1>9, <1>10 DEF Good
<1> HIDE DEF started
<1> QED BY <1>1, <1>2, <1>11, KeyKeeps

(* What is presented from here on is what the member chose. *)
LEMMA PresentKeeps ==
    ASSUME ElectionsInv, present
    PROVE  ElectionsInv'
<1> DEFINE d == view.disclose
<1>1. /\ view # None /\ view.screen = "disclose" /\ d # None
      /\ lanes' = lanes /\ connected' = connected /\ turns' = turns /\ tickets' = tickets
      /\ tickets_taken' = tickets_taken /\ confirmed' = confirmed
      /\ Showing(view, chosen, confirmed) /\ GoodLanes(lanes, chosen, confirmed) /\ turns \in 0..MaxTurns
  BY InvGives DEF present, On
<1>2. view \in ViewType
  BY <1>1 DEF Showing
<1>3. CASE ~connected
  <2> DEFINE v == [view EXCEPT !.disclose = None, !.screen = "list"]
  <2>1. view' = v /\ chosen' = chosen
    BY <1>3 DEF present
  <2>2. v \in ViewType
    BY <1>2 DEF ViewType, Screens
  <2>3. Meant(v, chosen, confirmed)
    BY <1>1, <1>2 DEF Showing, ViewType, Meant, PendingMeant
  <2> HIDE DEF v
  <2>4. GoodView(view', chosen', confirmed')
    BY <1>1, <2>1, <2>2, <2>3 DEF GoodView
  <2> QED BY <1>1, <2>1, <2>4, InvAfter DEF ElectionsInv
<1>4. CASE connected
  <2> DEFINE n == [kind |-> "ReadPresenting", e |-> d.e, intent |-> d.intent]
             c == chosen \cup {d.e}
             v == [view EXCEPT !.disclose = None, !.target = HeldBy[d.e], !.presenting = Audience[d.e],
                               !.screen = "detail", !.shown = None, !.next = n]
  <2>1. view' = v /\ chosen' = c
    BY <1>4 DEF present
  <2>2. d \in Offers
    BY <1>1, <1>2 DEF ViewType
  <2>3. d.e \in Ballots /\ d.intent \in Intents /\ HeldBy[d.e] \in Targets /\ Audience[d.e] \in Presented
    BY <2>2 DEF Offers, Targets, Presented
  <2>4. n \in NextType /\ NextMeant(n, c, confirmed)
    BY <2>3 DEF NextType, NextMeant
  <2>5. Showing(view, c, confirmed) /\ GoodLanes(lanes, c, confirmed)
    BY <1>1, GoodGrows
  <2>6. "detail" \in Screens
    BY DEF Screens
  <2> HIDE DEF n, c
  <2>7. v \in ViewType
    BY <1>2, <2>3, <2>4, <2>6 DEF ViewType
  <2>8. Meant(v, c, confirmed)
    BY <1>1, <1>2, <2>4, <2>5 DEF Showing, ViewType, Meant, PendingMeant
  <2> HIDE DEF v
  <2>9. GoodView(view', chosen', confirmed') /\ GoodLanes(lanes', chosen', confirmed')
    BY <1>1, <2>1, <2>5, <2>7, <2>8 DEF GoodView
  <2> QED BY <1>1, <2>9, InvAfter DEF ElectionsInv
<1> QED BY <1>3, <1>4

LEMMA ReviewKeeps ==
    ASSUME ElectionsInv, review
    PROVE  ElectionsInv'
<1>1. /\ view # None /\ view' = [view EXCEPT !.screen = "confirm"] /\ NoHistory /\ lanes' = lanes /\ turns' = turns
      /\ Showing(view, chosen, confirmed) /\ GoodLanes(lanes, chosen, confirmed) /\ turns \in 0..MaxTurns
  BY InvGives DEF review, On
<1>2. Showing(view', chosen, confirmed)
  BY <1>1, ScreenSet DEF Screens
<1> QED BY <1>1, <1>2, InvUnchosen DEF GoodView, Showing

LEMMA CastKeeps ==
    ASSUME ElectionsInv, cast
    PROVE  ElectionsInv'
<1> DEFINE e == view.shown.e
           n == [kind |-> "Vote", of |-> Ballot(view)]
           flow == [e |-> e, intent |-> "vote"]
           sure == confirmed \cup {e}
           v == [view EXCEPT !.flow = flow, !.next = n]
<1>1. /\ view # None /\ view.form # None /\ view.shown # None
      /\ view' = v /\ confirmed' = sure /\ Spent(IF e \in confirmed THEN 1 ELSE 0)
      /\ lanes' = lanes /\ connected' = connected /\ tickets' = tickets
      /\ tickets_taken' = tickets_taken /\ chosen' = chosen
      /\ Showing(view, chosen, confirmed) /\ GoodLanes(lanes, chosen, confirmed) /\ turns \in 0..MaxTurns
  BY InvGives DEF cast, On
<1>2. turns' \in 0..MaxTurns
  BY <1>1, SpentInBounds
<1>3. view \in ViewType /\ e \in Ballots /\ view.form \in Ballots /\ connected
  BY <1>1 DEF Showing, ViewType, Shown, Meant
<1>4. Ballot(view) \in Papers /\ Ballot(view).election = e
  BY <1>3 DEF Ballot, Paper, Papers
<1>5. n \in NextType /\ NextMeant(n, chosen, sure)
  BY <1>3, <1>4 DEF NextType, NextMeant, VtaKinds
<1>6. flow \in Flows
  BY <1>3 DEF Flows, Intents
<1>7. Showing(view, chosen, sure) /\ GoodLanes(lanes, chosen, sure)
  BY <1>1, GoodGrows
<1> HIDE DEF n, flow, sure, e
<1>8. v \in ViewType
  BY <1>3, <1>5, <1>6 DEF ViewType
<1>9. Meant(v, chosen, sure)
  BY <1>3, <1>5, <1>7 DEF Showing, ViewType, Meant, PendingMeant
<1> HIDE DEF v
<1>10. GoodView(view', chosen', confirmed') /\ GoodLanes(lanes', chosen', confirmed')
  BY <1>1, <1>7, <1>8, <1>9 DEF GoodView
<1> QED BY <1>1, <1>2, <1>10, InvAfter DEF ElectionsInv

LEMMA ResendKeeps ==
    ASSUME ElectionsInv, resend
    PROVE  ElectionsInv'
<1> DEFINE e == IF view.shown = None THEN None ELSE view.shown.e
           n == [kind |-> "Deliver", of |-> view.cast]
           flow == [e |-> e, intent |-> "vote"]
           v == [view EXCEPT !.flow = flow, !.next = n]
<1>1. /\ view # None /\ view.cast # None /\ view' = v /\ NoHistory /\ lanes' = lanes /\ turns' = turns
      /\ Showing(view, chosen, confirmed) /\ GoodLanes(lanes, chosen, confirmed) /\ turns \in 0..MaxTurns
  BY InvGives DEF resend, On
<1>2. view \in ViewType /\ view.cast \in Papers /\ view.cast.election \in confirmed /\ connected
  BY <1>1 DEF Showing, ViewType, Meant
<1>3. e \in Ballots \cup {None}
  BY <1>2 DEF ViewType, Shown
<1>4. n \in NextType /\ NextMeant(n, chosen, confirmed)
  BY <1>2 DEF NextType, NextMeant
<1> HIDE DEF e
<1>5. flow \in Flows
  BY <1>3 DEF Flows, Intents
<1> HIDE DEF n, flow
<1>6. v \in ViewType
  BY <1>2, <1>4, <1>5 DEF ViewType
<1>7. Meant(v, chosen, confirmed)
  BY <1>1, <1>2, <1>4 DEF Showing, ViewType, Meant, PendingMeant
<1> HIDE DEF v
<1> QED BY <1>1, <1>6, <1>7, InvUnchosen DEF GoodView

(* The answers.  What an answer leaves is what the loop goes on from. *)
LEMMA AnswerKeeps ==
    ASSUME ElectionsInv, NoHistory, NEW v, NEW l, NEW n \in Nat, Advance(v, l, n),
           GoodView(v, chosen, confirmed), GoodLanes(l, chosen, confirmed)
    PROVE  ElectionsInv'
BY Advances, InvGives, InvUnchosen

LEMMA LanesFreed ==
    ASSUME NEW l, NEW c, NEW sure, GoodLanes(l, c, sure)
    PROVE  /\ GoodLanes([l EXCEPT !.send = FALSE], c, sure)
           /\ GoodLanes([l EXCEPT !.vta = None], c, sure)
           /\ GoodLanes([l EXCEPT !.cast = None], c, sure)
<1>1. \A b \in BOOLEAN : GoodLanes([l EXCEPT !.send = b], c, sure)
  BY DEF GoodLanes, LaneType
<1>2. GoodLanes([l EXCEPT !.vta = None], c, sure)
  BY DEF GoodLanes, LaneType
<1>3. GoodLanes([l EXCEPT !.cast = None], c, sure)
  BY DEF GoodLanes, LaneType
<1> QED BY <1>1, <1>2, <1>3

LEMMA SendDoneKeeps ==
    ASSUME ElectionsInv, NEW left \in BOOLEAN, SendDone(left)
    PROVE  ElectionsInv'
<1> DEFINE v == IF left \/ view = None THEN view
                ELSE IF view.pending = None THEN view
                ELSE fail(Answered(view), view.pending.purpose)
           l == [lanes EXCEPT !.send = FALSE]
           n == IF left THEN 0 ELSE 1
<1>1. Advance(v, l, n) /\ NoHistory /\ n \in Nat
  BY DEF SendDone
<1>2. GoodView(v, chosen, confirmed)
  BY InvGives, AnsweredKeeps, FailKeeps DEF GoodView, Showing
<1>3. GoodLanes(l, chosen, confirmed)
  BY InvGives, LanesFreed
<1> HIDE DEF v, l, n
<1> QED BY <1>1, <1>2, <1>3, AnswerKeeps

LEMMA ListReplyKeeps ==
    ASSUME ElectionsInv, NEW last \in BOOLEAN, ListReply(last)
    PROVE  ElectionsInv'
<1> DEFINE a == Answered(view)
           page == [kind |-> "ListPage"]
           w == [a EXCEPT !.loaded = TRUE]
           u == [a EXCEPT !.next = page]
           v == IF last THEN w ELSE u
<1>1. Advance(v, lanes, 0) /\ NoHistory /\ view # None
  BY DEF ListReply, Waits
<1>2. Showing(a, chosen, confirmed) /\ 0 \in Nat
  BY <1>1, InvGives, AnsweredKeeps
<1> HIDE DEF a
<1>3. Showing(w, chosen, confirmed)
  <2>1. w \in ViewType
    BY <1>2 DEF Showing, ViewType
  <2>2. Meant(w, chosen, confirmed)
    BY <1>2 DEF Showing, ViewType, Meant, PendingMeant
  <2> QED BY <2>1, <2>2 DEF Showing
<1>4. page \in NextType /\ NextMeant(page, chosen, confirmed)
  BY DEF NextType, NextMeant
<1> HIDE DEF page
<1>5. Showing(u, chosen, confirmed)
  BY <1>2, <1>4, NextSet
<1> HIDE DEF w, u
<1>6. GoodView(v, chosen, confirmed)
  BY <1>3, <1>5 DEF GoodView, Showing
<1> HIDE DEF v
<1> QED BY <1>1, <1>2, <1>6, InvGives, AnswerKeeps

(* The election that is read is one the member chose, if its read presents. *)
LEMMA ShowReplyKeeps ==
    ASSUME ElectionsInv, NEW state \in States, ShowReply(state)
    PROVE  ElectionsInv'
<1> DEFINE a == Answered(view)
           shown == [e |-> view.pending.e, state |-> state]
           v == [a EXCEPT !.shown = shown]
           n == [kind |-> "Register", of |-> Paper(None, None)]
           w == IF view.pending.intent = "view" THEN v ELSE after_show(v)
<1>1. /\ Advance(w, lanes, 0) /\ NoHistory
      /\ view # None /\ view.pending # None /\ view.pending.purpose = "show"
  BY DEF ShowReply, Waits
<1>2. Showing(view, chosen, confirmed) /\ Showing(a, chosen, confirmed) /\ 0 \in Nat
  BY <1>1, InvGives, AnsweredKeeps
<1>3. /\ view.pending.e \in Ballots
      /\ view.presenting # None => view.pending.e \in chosen
  BY <1>1, <1>2 DEF Showing, Meant, PendingMeant
<1>4. shown \in Shown /\ shown.e = view.pending.e
  BY <1>3 DEF Shown
<1>5. a.presenting = view.presenting /\ a.pending = None
  BY <1>2 DEF Showing, ViewType, Answered
<1> HIDE DEF a, shown
<1>6. v \in ViewType
  BY <1>2, <1>4 DEF Showing, ViewType
<1>7. Meant(v, chosen, confirmed)
  BY <1>2, <1>3, <1>4, <1>5 DEF Showing, ViewType, Meant, PendingMeant
<1> HIDE DEF v
<1>8. n \in NextType /\ NextMeant(n, chosen, confirmed)
  BY DEF NextType, VtaKinds, NextMeant, Paper, Papers
<1> HIDE DEF n
<1>9. Showing([v EXCEPT !.flow = None], chosen, confirmed) /\ Showing([v EXCEPT !.next = n], chosen, confirmed)
  BY <1>6, <1>7, <1>8, FlowUnset, NextSet DEF Showing
<1>10. GoodView(w, chosen, confirmed)
  BY <1>6, <1>7, <1>9 DEF GoodView, Showing, after_show, n
<1> HIDE DEF w
<1> QED BY <1>1, <1>2, <1>10, InvGives, AnswerKeeps

LEMMA TicketIssuedKeeps ==
    ASSUME ElectionsInv, TicketIssued
    PROVE  ElectionsInv'
<1> DEFINE a == Answered(view)
           n == [kind |-> "Accept", of |-> Paper(view.pending.about, None)]
           v == [a EXCEPT !.next = n]
<1>1. Advance(v, lanes, 0) /\ NoHistory /\ view # None /\ view.pending # None
  BY DEF TicketIssued, Waits
<1>2. Showing(view, chosen, confirmed) /\ Showing(a, chosen, confirmed) /\ 0 \in Nat
  BY <1>1, InvGives, AnsweredKeeps
<1>3. view.pending.about \in Ballots \cup {None}
  BY <1>1, <1>2 DEF Showing, ViewType, RequestType
<1>4. n \in NextType /\ NextMeant(n, chosen, confirmed)
  BY <1>3 DEF NextType, VtaKinds, NextMeant, Paper, Papers
<1> HIDE DEF a, n
<1>5. GoodView(v, chosen, confirmed)
  BY <1>2, <1>4, NextSet DEF GoodView, Showing
<1> HIDE DEF v
<1> QED BY <1>1, <1>2, <1>5, InvGives, AnswerKeeps

LEMMA Offered ==
    ASSUME NEW v \in ViewType, NEW screen \in Screens, NEW offer \in Offers
    PROVE  [v EXCEPT !.flow = None, !.screen = screen, !.disclose = offer] \in ViewType
BY DEF ViewType

LEMMA RefusalKeeps ==
    ASSUME ElectionsInv, NEW unknown \in BOOLEAN, RefusalReply(unknown)
    PROVE  ElectionsInv'
<1> DEFINE p == view.pending
           a == Answered(view)
           offer == [e |-> p.e, intent |-> p.intent]
           w == [a EXCEPT !.flow = None, !.screen = "disclose", !.disclose = offer]
           offered == /\ unknown /\ p.purpose = "show" /\ view.presenting = None
                      /\ view.opening = p.e /\ ToAnotherParty(p.e)
           v == IF offered THEN w ELSE fail(a, p.purpose)
<1>1. Advance(v, lanes, 0) /\ NoHistory /\ view # None /\ p # None
  BY DEF RefusalReply
<1>2. Showing(view, chosen, confirmed) /\ Showing(a, chosen, confirmed) /\ 0 \in Nat
  BY <1>1, InvGives, AnsweredKeeps
<1>3. p.intent \in Intents /\ (p.purpose = "show" => p.e \in Ballots)
  BY <1>1, <1>2 DEF Showing, ViewType, RequestType, Meant, PendingMeant
<1>4. a.pending = None /\ a \in ViewType
  BY <1>2 DEF Showing, ViewType, Answered
<1>5. p.purpose = "show" => offer \in Offers
  BY <1>3 DEF Offers
<1>6. "disclose" \in Screens
  BY DEF Screens
<1> HIDE DEF a, offer
<1>7. p.purpose = "show" => w \in ViewType
  BY <1>4, <1>5, <1>6, Offered
<1>8. Meant(w, chosen, confirmed)
  BY <1>2, <1>4 DEF Showing, ViewType, Meant, PendingMeant
<1>9. Showing(fail(a, p.purpose), chosen, confirmed)
  BY <1>2, FailKeeps
<1> HIDE DEF w
<1>10. GoodView(v, chosen, confirmed)
  BY <1>7, <1>8, <1>9 DEF GoodView, Showing
<1> HIDE DEF v
<1> QED BY <1>1, <1>2, <1>10, InvGives, AnswerKeeps

LEMMA VtaOutcomeKeeps ==
    ASSUME ElectionsInv, NEW v, NEW n \in Nat, VtaOutcome(v, n), view # None => Showing(v, chosen, confirmed)
    PROVE  GoodView(view', chosen, confirmed) /\ GoodLanes(lanes', chosen, confirmed) /\ turns' \in 0..MaxTurns
<1> DEFINE w == IF ForView(lanes.vta) THEN v ELSE view
           l == [lanes EXCEPT !.vta = None]
<1>1. Advance(w, l, n)
  BY DEF VtaOutcome
<1>2. GoodView(w, chosen, confirmed)
  BY InvGives DEF ForView, GoodView, Showing
<1>3. GoodLanes(l, chosen, confirmed)
  BY InvGives, LanesFreed
<1> HIDE DEF w, l
<1> QED BY <1>1, <1>2, <1>3, InvGives, Advances

LEMMA AskFields ==
    ASSUME ElectionsInv, lanes.vta # None
    PROVE  /\ connected /\ lanes.vta.community \in Targets
           /\ lanes.vta.ask.kind \in {"notified", "read"} \cup VtaKinds
           /\ lanes.vta.ask.kind = "read" =>
                lanes.vta.ask.e \in Ballots /\ lanes.vta.ask.intent \in Intents /\ lanes.vta.ask.e \in chosen
           /\ lanes.vta.ask.kind \in VtaKinds => lanes.vta.ask.shown \in Ballots /\ lanes.vta.ask.of \in Papers
           /\ lanes.vta.ask.kind = "Vote" => lanes.vta.ask.of.election \in confirmed
<1>1. GoodLanes(lanes, chosen, confirmed)
  BY InvGives
<1>2. lanes.vta \in VtaJobType
  BY <1>1 DEF GoodLanes, LaneType
<1>3. lanes.vta.ask \in AskType
  BY <1>2 DEF VtaJobType
<1> DEFINE ask == lanes.vta.ask
<1>4. /\ ask.kind \in {"notified", "read"} \cup VtaKinds
      /\ ask.kind = "read" => ask.e \in Ballots /\ ask.intent \in Intents
      /\ ask.kind \in VtaKinds => ask.shown \in Ballots /\ ask.of \in Papers
  <2> HIDE DEF ask
  <2>1. ask \in AskType
    BY <1>3 DEF ask
  <2> QED BY <2>1 DEF AskType, VtaKinds
<1> QED BY <1>1, <1>2, <1>4 DEF GoodLanes, VtaJobType

LEMMA NotifiedReplyKeeps ==
    ASSUME ElectionsInv, Notified
    PROVE  ElectionsInv'
<1> DEFINE v == [view EXCEPT !.told = TRUE]
<1>1. VtaOutcome(v, 0) /\ NoHistory /\ 0 \in Nat
  BY DEF Notified
<1>2. ASSUME view # None
      PROVE  Showing(v, chosen, confirmed)
  <2>1. Showing(view, chosen, confirmed)
    BY <1>2, InvGives
  <2>2. v \in ViewType
    BY <2>1 DEF Showing, ViewType
  <2>3. Meant(v, chosen, confirmed)
    BY <2>1 DEF Showing, ViewType, Meant, PendingMeant
  <2> QED BY <2>2, <2>3 DEF Showing
<1> HIDE DEF v
<1> QED BY <1>1, <1>2, VtaOutcomeKeeps, InvUnchosen

LEMMA ReadSignedKeeps ==
    ASSUME ElectionsInv, ReadSigned
    PROVE  ElectionsInv'
<1> DEFINE n == [kind |-> "SendShowDocument", e |-> lanes.vta.ask.e,
                 intent |-> lanes.vta.ask.intent, to |-> lanes.vta.community]
           v == [view EXCEPT !.next = n]
<1>1. VtaOutcome(v, 0) /\ NoHistory /\ 0 \in Nat /\ lanes.vta # None /\ lanes.vta.ask.kind = "read"
  BY DEF ReadSigned, VtaJob
<1>2. n \in NextType /\ NextMeant(n, chosen, confirmed)
  BY <1>1, AskFields DEF NextType, NextMeant
<1> HIDE DEF n
<1>3. view # None => Showing(v, chosen, confirmed)
  BY <1>2, InvGives, NextSet
<1> HIDE DEF v
<1> QED BY <1>1, <1>3, VtaOutcomeKeeps, InvUnchosen

LEMMA Drafted ==
    ASSUME NEW v \in ViewType, NEW e \in Ballots, NEW screen \in Screens
    PROVE  [v EXCEPT !.form = e, !.screen = screen] \in ViewType
BY DEF ViewType

LEMMA AlreadyHeldKeeps ==
    ASSUME NEW v, NEW c, NEW sure, Showing(v, c, sure)
    PROVE  Showing(AlreadyHeld(v), c, sure)
<1> DEFINE w == [v EXCEPT !.flow = None]
           u == [w EXCEPT !.form = v.shown.e, !.screen = "ballot"]
<1>1. Showing(w, c, sure)
  BY FlowUnset
<1> HIDE DEF w
<1>2. ASSUME v.flow # None, v.shown # None
      PROVE  Showing(u, c, sure)
  <2>1. v.shown.e \in Ballots /\ connected
    BY <1>2 DEF Showing, ViewType, Shown, Meant
  <2>2. "ballot" \in Screens
    BY DEF Screens
  <2>3. u \in ViewType
    BY <1>1, <2>1, <2>2, Drafted DEF Showing
  <2>4. Meant(u, c, sure)
    BY <1>1, <2>1 DEF Showing, ViewType, Meant, PendingMeant
  <2> QED BY <2>3, <2>4 DEF Showing
<1> QED BY <1>1, <1>2 DEF AlreadyHeld, w

LEMMA RegisteredKeeps ==
    ASSUME ElectionsInv, Registered
    PROVE  ElectionsInv'
<1> DEFINE e == lanes.vta.ask.shown
           n == IF ToAnotherParty(e) THEN [kind |-> "SendIssueDocument", e |-> e, to |-> lanes.vta.community]
                ELSE [kind |-> "SendIssue", e |-> e]
           v == IF e \in tickets THEN AlreadyHeld(view) ELSE [view EXCEPT !.next = n]
<1>1. VtaOutcome(v, 0) /\ NoHistory /\ 0 \in Nat /\ lanes.vta # None /\ lanes.vta.ask.kind = "Register"
  BY DEF Registered, VtaJob
<1>2. e \in Ballots /\ lanes.vta.community \in Targets
  BY <1>1, AskFields DEF VtaKinds
<1>3. n \in NextType /\ NextMeant(n, chosen, confirmed)
  BY <1>2 DEF NextType, NextMeant
<1> HIDE DEF n
<1>4. view # None => Showing(v, chosen, confirmed)
  BY <1>3, InvGives, NextSet, AlreadyHeldKeeps
<1> HIDE DEF v
<1> QED BY <1>1, <1>4, VtaOutcomeKeeps, InvUnchosen

LEMMA TicketAcceptedKeeps ==
    ASSUME ElectionsInv, TicketAccepted
    PROVE  ElectionsInv'
<1> DEFINE n == [kind |-> "Refresh"]
           v == [view EXCEPT !.flow = None, !.next = n]
<1>1. /\ VtaOutcome(v, 0) /\ 0 \in Nat /\ lanes.vta # None /\ lanes.vta.ask.kind = "Accept"
      /\ tickets' = tickets \cup {lanes.vta.ask.shown}
      /\ connected' = connected /\ chosen' = chosen /\ confirmed' = confirmed
  BY DEF TicketAccepted, VtaJob
<1>2. tickets' \subseteq Ballots
  BY <1>1, AskFields DEF ElectionsInv, VtaKinds
<1>3. tickets_taken' \subseteq Ballots \cup {None}
  <2>1. view # None /\ view.flow # None => view.flow.e \in Ballots \cup {None}
    BY InvGives DEF Showing, ViewType, Flows
  <2> QED BY <2>1 DEF TicketAccepted, ForView, ElectionsInv
<1>4. n \in NextType /\ NextMeant(n, chosen, confirmed)
  BY DEF NextType, NextMeant
<1> HIDE DEF n
<1>5. ASSUME view # None
      PROVE  Showing(v, chosen, confirmed)
  <2>1. Showing(view, chosen, confirmed)
    BY <1>5, InvGives
  <2>2. v \in ViewType
    BY <1>4, <2>1 DEF Showing, ViewType
  <2>3. Meant(v, chosen, confirmed)
    BY <1>4, <2>1 DEF Showing, ViewType, Meant, PendingMeant
  <2> QED BY <2>2, <2>3 DEF Showing
<1> HIDE DEF v
<1>6. GoodView(view', chosen, confirmed) /\ GoodLanes(lanes', chosen, confirmed) /\ turns' \in 0..MaxTurns
  BY <1>1, <1>5, VtaOutcomeKeeps
<1> QED BY <1>1, <1>2, <1>3, <1>6, InvAfter

(* The cast that is built is of the election the member confirmed: the VTA    *)
(* builds it from the ballot of the election it is shown.                     *)
LEMMA VotedKeeps ==
    ASSUME ElectionsInv, Voted
    PROVE  ElectionsInv'
<1> DEFINE ask == lanes.vta.ask
           built == Paper(ask.shown, ask.of.answers)
           n == [kind |-> "Deliver", of |-> built]
           v == [view EXCEPT !.form = None, !.cast = built, !.screen = "result", !.next = n]
<1>1. /\ VtaOutcome(v, 0) /\ 0 \in Nat /\ NoHistory /\ lanes.vta # None /\ ask.kind = "Vote"
      /\ ask.of.election = ask.shown
  BY DEF Voted, VtaJob, Impossible, check_ballot
<1>2. connected /\ ask.shown \in Ballots /\ ask.of \in Papers /\ ask.of.election \in confirmed
  BY <1>1, AskFields DEF VtaKinds
<1>3. built \in Papers /\ built.election \in confirmed
  BY <1>1, <1>2 DEF Paper, Papers
<1> HIDE DEF built
<1>4. n \in NextType /\ NextMeant(n, chosen, confirmed)
  BY <1>2, <1>3 DEF NextType, NextMeant
<1>5. "result" \in Screens
  BY DEF Screens
<1> HIDE DEF n
<1>6. ASSUME view # None
      PROVE  Showing(v, chosen, confirmed)
  <2>1. Showing(view, chosen, confirmed)
    BY <1>6, InvGives
  <2>2. v \in ViewType
    BY <1>3, <1>4, <1>5, <2>1 DEF Showing, ViewType
  <2>3. Meant(v, chosen, confirmed)
    BY <1>2, <1>3, <1>4, <2>1 DEF Showing, ViewType, Meant, PendingMeant
  <2> QED BY <2>2, <2>3 DEF Showing
<1> HIDE DEF v
<1> QED BY <1>1, <1>6, VtaOutcomeKeeps, InvUnchosen

LEMMA KeptKeeps ==
    ASSUME ElectionsInv, Kept
    PROVE  ElectionsInv'
<1> DEFINE v == [view EXCEPT !.flow = None, !.cast = None]
<1>1. VtaOutcome(v, 0) /\ NoHistory /\ 0 \in Nat
  BY DEF Kept
<1>2. ASSUME view # None
      PROVE  Showing(v, chosen, confirmed)
  <2>1. Showing(view, chosen, confirmed)
    BY <1>2, InvGives
  <2>2. v \in ViewType
    BY <2>1 DEF Showing, ViewType
  <2>3. Meant(v, chosen, confirmed)
    BY <2>1 DEF Showing, ViewType, Meant, PendingMeant
  <2> QED BY <2>2, <2>3 DEF Showing
<1> HIDE DEF v
<1> QED BY <1>1, <1>2, VtaOutcomeKeeps, InvUnchosen

LEMMA VtaErrorKeeps ==
    ASSUME ElectionsInv, VtaError
    PROVE  ElectionsInv'
<1> DEFINE ask == lanes.vta.ask
           u == [view EXCEPT !.flow = None]
           w == [view EXCEPT !.flow = None, !.screen = IF ask.kind = "Vote" THEN "ballot" ELSE @]
           v == IF ask.kind = "notified" THEN view ELSE w
           n == IF Impossible(ask) THEN 0 ELSE 1
<1>1. /\ VtaOutcome(v, n) /\ n \in Nat /\ lanes.vta # None
      /\ tickets' = tickets \/ (ask.kind = "Accept" /\ tickets' = tickets \cup {ask.shown})
      /\ tickets_taken' = tickets_taken
      /\ connected' = connected /\ chosen' = chosen /\ confirmed' = confirmed
  BY DEF VtaError
<1>2. tickets' \subseteq Ballots /\ tickets_taken' \subseteq Ballots \cup {None}
  BY <1>1, AskFields DEF ElectionsInv, VtaKinds
<1>3. ASSUME view # None
      PROVE  Showing(w, chosen, confirmed)
  <2>1. Showing(view, chosen, confirmed) /\ view \in ViewType
    BY <1>3, InvGives DEF Showing
  <2>2. Showing(u, chosen, confirmed)
    BY <2>1, FlowUnset
  <2>3. Showing([u EXCEPT !.screen = "ballot"], chosen, confirmed)
    BY <2>2, ScreenSet DEF Screens
  <2>4. w = IF ask.kind = "Vote" THEN [u EXCEPT !.screen = "ballot"] ELSE u
    BY <2>1 DEF ViewType
  <2> HIDE DEF w, u
  <2> QED BY <2>2, <2>3, <2>4
<1>4. view # None => Showing(v, chosen, confirmed)
  BY <1>3, InvGives
<1> HIDE DEF v, n
<1>5. GoodView(view', chosen, confirmed) /\ GoodLanes(lanes', chosen, confirmed) /\ turns' \in 0..MaxTurns
  BY <1>1, <1>4, VtaOutcomeKeeps
<1> QED BY <1>1, <1>2, <1>5, InvAfter

LEMMA CastOutcomeKeeps ==
    ASSUME ElectionsInv, NoHistory, NEW v, NEW n \in Nat, CastOutcome(v, n),
           view # None => Showing(v, chosen, confirmed)
    PROVE  ElectionsInv'
<1> DEFINE u == [v EXCEPT !.screen = "result"]
           w == IF ForView(lanes.cast) THEN u ELSE view
           l == [lanes EXCEPT !.cast = None]
<1>1. Advance(w, l, n)
  BY DEF CastOutcome
<1>2. view # None => Showing(u, chosen, confirmed)
  BY ScreenSet DEF Screens
<1> HIDE DEF u
<1>3. GoodView(w, chosen, confirmed)
  BY <1>2, InvGives DEF ForView, GoodView, Showing
<1>4. GoodLanes(l, chosen, confirmed)
  BY InvGives, LanesFreed
<1> HIDE DEF w, l
<1> QED BY <1>1, <1>3, <1>4, AnswerKeeps

LEMMA CastFields ==
    ASSUME ElectionsInv, lanes.cast # None
    PROVE  connected /\ lanes.cast.of \in Papers /\ lanes.cast.of.election \in confirmed
BY InvGives DEF GoodLanes, LaneType, CastJobType

LEMMA ReceiptKeeps ==
    ASSUME ElectionsInv, Receipt
    PROVE  ElectionsInv'
<1> DEFINE n == [kind |-> "Keep", of |-> lanes.cast.of]
           v == [view EXCEPT !.next = n]
<1>1. CastOutcome(v, 0) /\ NoHistory /\ 0 \in Nat /\ lanes.cast # None
  BY DEF Receipt
<1>2. n \in NextType /\ NextMeant(n, chosen, confirmed)
  BY <1>1, CastFields DEF NextType, NextMeant, VtaKinds
<1> HIDE DEF n
<1>3. view # None => Showing(v, chosen, confirmed)
  BY <1>2, InvGives, NextSet
<1> HIDE DEF v
<1> QED BY <1>1, <1>3, CastOutcomeKeeps

LEMMA CastFailsKeeps ==
    ASSUME ElectionsInv, NEW lost \in BOOLEAN, CastFails(lost)
    PROVE  ElectionsInv'
<1> DEFINE left == IF lost THEN lanes.cast.of ELSE None
           v == [view EXCEPT !.flow = None, !.cast = left]
           n == IF OwnBox \/ lost THEN 1 ELSE 0
<1>1. CastOutcome(v, n) /\ NoHistory /\ n \in Nat /\ lanes.cast # None
  BY DEF CastFails
<1>2. connected /\ left \in Papers \cup {None} /\ (left # None => left.election \in confirmed)
  BY <1>1, CastFields
<1> HIDE DEF left
<1>3. ASSUME view # None
      PROVE  Showing(v, chosen, confirmed)
  <2>1. Showing(view, chosen, confirmed)
    BY <1>3, InvGives
  <2>2. v \in ViewType
    BY <1>2, <2>1 DEF Showing, ViewType
  <2>3. Meant(v, chosen, confirmed)
    BY <1>2, <2>1 DEF Showing, ViewType, Meant, PendingMeant
  <2> QED BY <2>2, <2>3 DEF Showing
<1> HIDE DEF v, n
<1> QED BY <1>1, <1>3, CastOutcomeKeeps

LEMMA TickKeeps ==
    ASSUME ElectionsInv, NEW expires \in BOOLEAN, tick(expires)
    PROVE  ElectionsInv'
<1> DEFINE v == IF expires THEN fail(Answered(view), view.pending.purpose) ELSE view
<1>1. Advance(v, lanes, 0) /\ NoHistory /\ 0 \in Nat /\ view # None
  BY DEF tick
<1>2. GoodView(v, chosen, confirmed)
  BY <1>1, InvGives, AnsweredKeeps, FailKeeps DEF GoodView, Showing
<1> HIDE DEF v
<1> QED BY <1>1, <1>2, InvGives, AnswerKeeps

LEMMA JobLostKeeps ==
    ASSUME ElectionsInv, NEW lane \in DOMAIN NoJobs, job_lost(lane)
    PROVE  ElectionsInv'
<1> DEFINE u == [view EXCEPT !.pending = None, !.flow = None, !.next = None]
           v == IF view = None THEN view ELSE u
           l == [lanes EXCEPT ![lane] = NoJobs[lane]]
<1>1. Advance(v, l, 1) /\ NoHistory /\ 1 \in Nat
  BY DEF job_lost
<1>2. ASSUME view # None
      PROVE  Showing(u, chosen, confirmed)
  <2>1. Showing(view, chosen, confirmed)
    BY <1>2, InvGives
  <2>2. u \in ViewType
    BY <2>1 DEF Showing, ViewType
  <2>3. Meant(u, chosen, confirmed)
    BY <2>1 DEF Showing, ViewType, Meant, PendingMeant
  <2> QED BY <2>2, <2>3 DEF Showing
<1> HIDE DEF u
<1>3. GoodView(v, chosen, confirmed)
  BY <1>2 DEF GoodView, Showing
<1>4. GoodLanes(l, chosen, confirmed)
  <2>1. CASE lane = "send"
    BY <2>1, InvGives, LanesFreed DEF NoJobs
  <2>2. CASE lane = "vta"
    BY <2>2, InvGives, LanesFreed DEF NoJobs
  <2>3. CASE lane = "cast"
    BY <2>3, InvGives, LanesFreed DEF NoJobs
  <2> QED BY <2>1, <2>2, <2>3 DEF NoJobs
<1> HIDE DEF v, l
<1> QED BY <1>1, <1>3, <1>4, AnswerKeeps

LEMMA ElectionsInvInit ==
    ASSUME ElectionsInit
    PROVE  ElectionsInv
BY ElectionsAssumption DEF ElectionsInit, ElectionsInv, NoJobs, GoodView, GoodLanes, LaneType

LEMMA ElectionsInvStep ==
    ASSUME ElectionsInv, [ElectionsNext]_electionVars
    PROVE  ElectionsInv'
<1>1. CASE UNCHANGED electionVars
  BY <1>1 DEF electionVars, ElectionsInv, GoodView, GoodLanes, Meant, PendingMeant, NextMeant
<1>2. CASE Key
  BY <1>2, OpenKeeps, BackKeeps, RefreshScreenKeeps, PresentKeeps, ReviewKeeps, CastKeeps, ResendKeeps,
     ShowKeeps, StartFlowKeeps, Zenon DEF Key
<1>3. CASE SendEnds
  BY <1>3, SendDoneKeeps DEF SendEnds
<1>4. CASE VtaEnds
  BY <1>4, NotifiedReplyKeeps, ReadSignedKeeps, RegisteredKeeps, TicketAcceptedKeeps, VotedKeeps, KeptKeeps,
     VtaErrorKeeps, Zenon DEF VtaEnds
<1>5. CASE CastEnds
  BY <1>5, ReceiptKeeps, CastFailsKeeps, Zenon DEF CastEnds
<1> QED
  BY <1>1, <1>2, <1>3, <1>4, <1>5, ListReplyKeeps, ShowReplyKeeps, TicketIssuedKeeps, RefusalKeeps, TickKeeps,
     JobLostKeeps, Zenon DEF ElectionsNext

LEMMA ElectionsInvGives ==
    ASSUME ElectionsInv
    PROVE  OnlyByChoice
<1>1. /\ view # None => Showing(view, chosen, confirmed)
      /\ GoodLanes(lanes, chosen, confirmed)
  BY InvGives
<1>2. ASSUME view # None
      PROVE  /\ view.screen \in Screens /\ view.home \in Homes
             /\ view.shown # None => view.shown.e \in Ballots /\ view.shown.state \in States
             /\ view.flow # None => view.flow.e \in Ballots \cup {None} /\ connected
             /\ view.pending # None /\ view.pending.presents => view.pending.about \in chosen
             /\ view.cast # None => view.cast.election \in confirmed
  BY <1>1, <1>2 DEF Showing, ViewType, Shown, Flows, Meant, PendingMeant
<1>3. ASSUME NEW p \in RequestType
      PROVE  [f \in DOMAIN p \ {"to"} |-> p[f]] \in Requests
  <2>1. DOMAIN p \ {"to"} = {"purpose", "e", "about", "intent", "presents", "page"}
    BY DEF RequestType
  <2>2. [f \in DOMAIN p \ {"to"} |-> p[f]] =
          [purpose |-> p.purpose, e |-> p.e, about |-> p.about, intent |-> p.intent, presents |-> p.presents,
           page |-> p.page]
    BY <2>1
  <2> QED BY <2>2 DEF RequestType, Requests
<1>4. view # None /\ view.pending # None => view.pending \in RequestType
  BY <1>1 DEF Showing, ViewType
<1>5. lanes.send \in BOOLEAN /\ (lanes.vta # None => connected)
  BY <1>1 DEF GoodLanes, LaneType
<1>6. ElectionsTypeOK
  BY <1>2, <1>3, <1>4, <1>5 DEF ElectionsInv, ElectionsTypeOK
<1> QED BY <1>1, <1>2, <1>6 DEF OnlyByChoice, GoodLanes

(* The panel (Elections): whatever comes back late, and to whichever screen,  *)
(* a membership is presented only to read an election the member chose to     *)
(* present it for (present), and a cast is built and sent only for an         *)
(* election whose ballot the member confirmed (cast, vote_payload).           *)
THEOREM OnlyByChoiceAlways == ElectionsSpec => []OnlyByChoice
<1>1. ElectionsInit => ElectionsInv
  BY ElectionsInvInit
<1>2. ElectionsInv /\ [ElectionsNext]_electionVars => ElectionsInv'
  BY ElectionsInvStep
<1>3. ElectionsInv => OnlyByChoice
  BY ElectionsInvGives
<1> QED BY <1>1, <1>2, <1>3, PTL DEF ElectionsSpec

-----------------------------------------------------------------------------
(* The machines side by side, as the runs move them.                          *)
LEMMA MachinesBegin ==
    ASSUME Init
    PROVE  /\ machine \in Machines
           /\ DriverInit /\ PacerInit /\ LockInit /\ SessionsInit /\ ListenersInit /\ ElectionsInit
BY Zenon DEF Init

LEMMA MachinesMove ==
    ASSUME [Next]_vars
    PROVE  /\ machine' = machine
           /\ [DriverNext]_driverVars /\ [PacerNext]_pacerVars /\ [LockNext]_lockVars
           /\ [SessionsNext]_sessionVars /\ [ListenersNext]_listenerVars /\ [ElectionsNext]_electionVars
BY DEF Next, vars

(* Each machine keeps its type and its bounds, for every choice of the        *)
(* constants: two exchanges of the sync never overlap and its backoff keeps   *)
(* to the ceiling, a join's credential is asked for again MAX_RESEND_ASKS     *)
(* times at most, sessions keep to their cap, and no renewal task outlives    *)
(* its claim.                                                                 *)
THEOREM MachinesTypeCorrect == Spec => []TypeOK
<1>1. Init => machine \in Machines
  BY MachinesBegin
<1>2. machine \in Machines /\ [Next]_vars => (machine \in Machines)'
  BY MachinesMove
<1>3. Init => DriverInit /\ PacerInit /\ LockInit /\ SessionsInit /\ ListenersInit
  BY MachinesBegin
<1>4. [Next]_vars => /\ [DriverNext]_driverVars /\ [PacerNext]_pacerVars /\ [LockNext]_lockVars
                     /\ [SessionsNext]_sessionVars /\ [ListenersNext]_listenerVars
  BY MachinesMove
<1>5. DriverInv => DriverTypeOK /\ OneCycle
  BY DEF DriverInv
<1>6. SessionsInv => SessionsTypeOK
  BY DEF SessionsInv, Registry, Reports, SessionsTypeOK, Statuses, LinkStates
<1>7. ListenerFlags /\ ListenerKinds => ListenersTypeOK
  BY ListenersTypeParts
<1>8. /\ machine \in Machines /\ DriverTypeOK /\ OneCycle /\ PacerTypeOK /\ LockTypeOK
      /\ SessionsTypeOK /\ ListenersTypeOK
      => TypeOK
  BY DEF TypeOK
<1>9. LockInv => LockTypeOK
  BY DEF LockInv
<1> QED
  BY <1>1, <1>2, <1>3, <1>4, <1>5, <1>6, <1>7, <1>8, <1>9, DriverInitHolds, DriverStep, PacerInitHolds, PacerStep,
     LockInitHolds, LockStep, SessionsInitHolds, SessionsStep, ListenersInitHolds, ListenerFlagsStep,
     ListenerKindsStep, PTL DEF Spec
=============================================================================
