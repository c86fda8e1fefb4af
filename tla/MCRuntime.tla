----------------------------- MODULE MCRuntime -----------------------------
(* The machines of the runtime that share no state.  A behaviour moves one   *)
(* of them, so that one run checks them all without their product.           *)
EXTENDS SyncDriver, JoinPoll, ProcessLock, Sessions, Listeners, Elections

CONSTANTS Machines      \* a subset of the names below

VARIABLE machine

vars == <<machine, driverVars, pacerVars, lockVars, sessionVars, listenerVars,
          electionVars>>

(* The club holds one election for its own members, and the federation puts  *)
(* another to them; both ask the same question.                              *)
ClubAndFederation == [e \in Ballots |-> IF e = "agm" THEN "club" ELSE "federation"]
ClubMembers == [e \in Ballots |-> "club"]
OneQuestion == [e \in Ballots |-> "chair"]

Init ==
    /\ machine \in Machines
    /\ DriverInit /\ (machine # "driver" => linked)
    /\ PacerInit /\ (machine # "pacer" => pending = {})
    /\ LockInit
    /\ SessionsInit /\ (machine # "sessions" => /\ \A pv \in Personas \X Vtcs : member[pv] = "none"
                                                /\ \A p \in Personas : net[p] = "up")
    /\ ListenersInit /\ (machine # "listeners" => claim = "free" /\ keeper = "collects")
    /\ ElectionsInit /\ (machine = "elections" => tickets \in {{}, Ballots})
                     /\ (machine # "elections" => connected /\ tickets = {})

Next ==
    /\ machine' = machine
    /\ \/ machine = "driver" /\ DriverNext
          /\ UNCHANGED <<pacerVars, lockVars, sessionVars, listenerVars, electionVars>>
       \/ machine = "pacer" /\ PacerNext
          /\ UNCHANGED <<driverVars, lockVars, sessionVars, listenerVars, electionVars>>
       \/ machine = "lock" /\ LockNext
          /\ UNCHANGED <<driverVars, pacerVars, sessionVars, listenerVars, electionVars>>
       \/ machine = "sessions" /\ SessionsNext
          /\ UNCHANGED <<driverVars, pacerVars, lockVars, listenerVars, electionVars>>
       \/ machine = "listeners" /\ ListenersNext
          /\ UNCHANGED <<driverVars, pacerVars, lockVars, sessionVars, electionVars>>
       \/ machine = "elections" /\ ElectionsNext
          /\ UNCHANGED <<driverVars, pacerVars, lockVars, sessionVars, listenerVars>>

(* The intervals of the loop keep firing. *)
Spec ==
    /\ Init /\ [][Next]_vars
    /\ WF_pacerVars(machine = "pacer" /\ PacerTick)
    /\ WF_sessionVars(machine = "sessions" /\ reconcile_sessions)
    /\ ElectionsFairness

(* Each machine keeps its type and its bounds: two exchanges of the sync     *)
(* never overlap and its backoff keeps to the ceiling, a join's credential   *)
(* is asked for again MAX_RESEND_ASKS times at most, sessions keep to their  *)
(* cap, and no renewal task outlives its claim.                              *)
TypeOK ==
    /\ machine \in Machines
    /\ DriverTypeOK /\ OneCycle
    /\ PacerTypeOK /\ LockTypeOK /\ SessionsTypeOK /\ ListenersTypeOK
=============================================================================
