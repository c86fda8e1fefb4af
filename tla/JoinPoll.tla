------------------------------ MODULE JoinPoll ------------------------------
(***************************************************************************)
(* Which Pending joins each tick of the status poll asks about: a backoff  *)
(* per join, and a cap on the polls of one tick.  A tick is the first      *)
(* backoff (both are 60 s).                                                *)
(***************************************************************************)
EXTENDS Naturals, FiniteSets

CONSTANTS
    Parked,         \* how many joins there can be; joins are numbered in the account's order
    PerTick,        \* MAX_POLLS_PER_TICK
    GapCap,         \* POLL_BACKOFF_CAP in ticks
    MaxResends,     \* MAX_RESEND_ASKS
    MaxChanges      \* bound: joins and resolutions in one behaviour

Joins == 1..Parked

ASSUME PacerAssumption ==
    /\ {Parked, PerTick, GapCap} \subseteq Nat \ {0} /\ {MaxResends, MaxChanges} \subseteq Nat
    /\ Parked <= PerTick * GapCap

VARIABLES
    pending,        \* the account's Pending joins
    sent,           \* the pacer's entries: joins it remembers asking about
    gap,            \* per join: the backoff since the last poll; stands for `attempts`
    since,          \* per join: ticks since the last poll
    resends,        \* per join: polls that asked for the credentials again
    asked,          \* the joins the last tick asked about
    changes

pacerVars == <<pending, sent, gap, since, resends, asked, changes>>

PacerInit ==
    /\ pending \in SUBSET Joins /\ sent = {} /\ asked = {} /\ changes = 0
    /\ gap = [j \in Joins |-> 0] /\ since = [j \in Joins |-> 0] /\ resends = [j \in Joins |-> 0]

(* A join is submitted, or resolves. *)
Change(j) ==
    /\ changes < MaxChanges /\ changes' = changes + 1
    /\ pending' = IF j \in pending THEN pending \ {j} ELSE pending \cup {j}
    /\ UNCHANGED <<sent, gap, since, resends, asked>>

(* poll_backoff: none before the first poll, then doubling up to the cap. *)
poll_backoff(j) == IF gap[j] = 0 THEN 1 ELSE IF 2 * gap[j] <= GapCap THEN 2 * gap[j] ELSE GapCap

Elapsed(j) == IF since[j] <= GapCap THEN since[j] + 1 ELSE since[j]

(* A variant whose cap counts the joins it looks at. *)
Due_CountsAll(ready) == {j \in ready : Cardinality({i \in pending : i < j}) < PerTick}

(* The first PerTick of the joins whose backoff has passed. *)
Due(ready) == {j \in ready : Cardinality({i \in ready : i < j}) < PerTick}

MayResend(j) == resends[j] < MaxResends

(* The tick of the loop.  `early`: the clock reads a little less than whole  *)
(* ticks; `approved`: joins whose credential is missing.                     *)
PollTick(early, approved) ==
    LET kept == sent \cap pending
        ready == {j \in pending : \/ j \notin kept
                                  \/ Elapsed(j) > gap[j]
                                  \/ Elapsed(j) = gap[j] /\ ~early}
        due == Due(ready)
        forgotten == Joins \ kept
    IN \/ /\ pending = {}
          /\ asked' = {} /\ since' = [j \in Joins |-> IF j \in sent THEN Elapsed(j) ELSE 0]
          /\ UNCHANGED <<pending, sent, gap, resends, changes>>
       \/ /\ pending # {}
          /\ asked' = due /\ sent' = kept \cup due
          /\ gap' = [j \in Joins |-> IF j \in due THEN IF j \in kept THEN poll_backoff(j) ELSE 1
                                     ELSE IF j \in forgotten THEN 0 ELSE gap[j]]
          /\ since' = [j \in Joins |-> IF j \in due \cup forgotten THEN 0 ELSE Elapsed(j)]
          /\ resends' = [j \in Joins |->
                 IF j \in forgotten THEN IF j \in due \cap approved /\ MaxResends > 0 THEN 1 ELSE 0
                 ELSE IF j \in due \cap approved /\ MayResend(j) THEN resends[j] + 1 ELSE resends[j]]
          /\ UNCHANGED <<pending, changes>>

PacerTick == \E early \in BOOLEAN, approved \in {{}, Joins} : PollTick(early, approved)

PacerNext == (\E j \in Joins : Change(j)) \/ PacerTick

(* The interval of the loop's select keeps firing. *)
PacerSpec == PacerInit /\ [][PacerNext]_pacerVars /\ WF_pacerVars(PacerTick)

-----------------------------------------------------------------------------
(* No join's credentials are asked for again more than MAX_RESEND_ASKS      *)
(* times while it is parked, whatever else resolves meanwhile.              *)
PacerTypeOK ==
    /\ pending \subseteq Joins /\ sent \subseteq Joins /\ asked \subseteq Joins
    /\ gap \in [Joins -> 0..GapCap] /\ since \in [Joins -> 0..GapCap + 1]
    /\ resends \in [Joins -> 0..MaxResends] /\ changes \in 0..MaxChanges

(* A join that stays parked is asked about again and again, though a tick   *)
(* asks about a few only and always looks at the same ones first.           *)
EachAsked == \A j \in Joins : []<>(j \notin pending \/ j \in asked)
=============================================================================
