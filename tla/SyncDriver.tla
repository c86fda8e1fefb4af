----------------------------- MODULE SyncDriver -----------------------------
(***************************************************************************)
(* When the runtime loop exchanges account state with the VTA: cycles are  *)
(* asked for by saves and by a timer, never overlap, and back off when     *)
(* they fail.  Time is counted in ticks of the loop, durations rounded up. *)
(***************************************************************************)
EXTENDS Naturals

CONSTANTS MinGap, PullEvery, BackoffStart, BackoffMax   \* in ticks

ASSUME DriverAssumption ==
    /\ {MinGap, PullEvery, BackoffStart, BackoffMax} \subseteq Nat \ {0}
    /\ MinGap <= BackoffMax
    /\ PullEvery <= BackoffMax

VARIABLES
    linked,      \* the loop holds a VTA client
    in_flight, disabled, wanted,
    wait,        \* ticks until not_before
    pull,        \* ticks until next_pull
    backoff,     \* the next transient failure's delay; stands for `failures`
    clean,       \* failures = 0
    running,     \* exchanges spawned and not yet reported
    fresh,       \* history: a saved change no exchange has carried yet
    carried,     \* history: the exchange under way carries one
    age          \* history: ticks a fresh change has waited with no exchange under way

driverVars == <<linked, in_flight, disabled, wanted, wait, pull, backoff, clean,
                running, fresh, carried, age>>
history == <<fresh, carried, age>>

AtMost(n, bound) == IF n <= bound THEN n ELSE bound
Less(n) == IF n = 0 THEN 0 ELSE n - 1

DriverInit ==
    /\ linked \in BOOLEAN
    /\ in_flight = FALSE /\ disabled = FALSE /\ wanted = FALSE
    /\ wait = 0 /\ pull = PullEvery
    /\ backoff = AtMost(BackoffStart, BackoffMax) /\ clean = TRUE
    /\ running = 0 /\ fresh = FALSE /\ carried = FALSE /\ age = 0

(* The VTA supervisor has a session. *)
Link ==
    /\ ~linked /\ linked' = TRUE
    /\ UNCHANGED <<in_flight, disabled, wanted, wait, pull, backoff, clean, running, history>>

(* A save has completed: what it wrote may be news for the VTA. *)
SaveDone ==
    /\ wanted' = TRUE /\ fresh' = TRUE
    /\ UNCHANGED <<linked, in_flight, disabled, wait, pull, backoff, clean, running, carried, age>>

(* A variant that asks only the clock. *)
should_start_Overlapping(w, p) == ~disabled /\ w = 0 /\ (wanted \/ p = 0)

should_start(w, p) == ~disabled /\ ~in_flight /\ w = 0 /\ (wanted \/ p = 0)

Tick ==
    LET w == Less(wait)
        p == Less(pull)
    IN /\ wait' = w
       /\ IF linked /\ should_start(w, p)
          THEN /\ in_flight' = TRUE /\ wanted' = FALSE /\ pull' = PullEvery
               /\ running' = running + 1
               /\ carried' = fresh /\ fresh' = FALSE /\ age' = 0
          ELSE /\ pull' = p
               /\ age' = IF linked /\ fresh /\ ~in_flight /\ ~disabled THEN age + 1 ELSE age
               /\ UNCHANGED <<in_flight, wanted, running, carried, fresh>>
       /\ UNCHANGED <<linked, disabled, backoff, clean>>

Doubled == AtMost(2 * backoff, BackoffMax)

(* A variant that takes a cycle's success for the answer to every request.  *)
StillWanted_Answered(outcome, lost_race) == lost_race \/ outcome = "transient"

(* What a failed cycle was carrying, or a record merged after a lost race,  *)
(* still needs to go up.                                                    *)
StillWanted(outcome, lost_race) == wanted \/ lost_race \/ outcome = "transient"

finished(outcome) ==
    /\ in_flight' = FALSE
    /\ \/ /\ outcome = "ok"
          /\ clean' = TRUE /\ backoff' = AtMost(BackoffStart, BackoffMax)
          /\ wait' = MinGap /\ UNCHANGED disabled
       \/ /\ outcome = "transient"
          /\ clean' = FALSE /\ wait' = backoff /\ backoff' = Doubled
          /\ UNCHANGED disabled
       \/ /\ outcome = "contract"
          /\ clean' = FALSE /\ wait' = BackoffMax /\ backoff' = Doubled
          /\ UNCHANGED disabled
       \/ /\ outcome = "refused"
          /\ disabled' = TRUE /\ UNCHANGED <<clean, backoff, wait>>

(* The exchange reports. *)
CycleDone(outcome, lost_race) ==
    /\ running > 0 /\ running' = running - 1
    /\ finished(outcome)
    /\ wanted' = StillWanted(outcome, lost_race)
    /\ fresh' = (fresh \/ lost_race \/ (carried /\ outcome # "ok"))
    /\ carried' = FALSE /\ age' = 0
    /\ UNCHANGED <<linked, pull>>

DriverNext ==
    \/ Link \/ SaveDone \/ Tick
    \/ \E outcome \in {"ok", "transient", "contract", "refused"}, lost_race \in BOOLEAN :
        CycleDone(outcome, lost_race)

DriverSpec == DriverInit /\ [][DriverNext]_driverVars

-----------------------------------------------------------------------------
DriverTypeOK ==
    /\ linked \in BOOLEAN /\ in_flight \in BOOLEAN /\ disabled \in BOOLEAN
    /\ wanted \in BOOLEAN /\ clean \in BOOLEAN /\ fresh \in BOOLEAN /\ carried \in BOOLEAN
    /\ wait \in 0..BackoffMax /\ pull \in 0..PullEvery /\ backoff \in 1..BackoffMax
    /\ running \in Nat /\ age \in Nat

(* "At most one cycle runs at a time": two exchanges would push from one     *)
(* base and merge into one account.                                         *)
OneCycle == running = IF in_flight THEN 1 ELSE 0

(* A change saved here, at whatever moment of a cycle, of its failures or   *)
(* of their backoff, is carried by the next exchange within the gap between *)
(* cycles, or within the longest backoff once cycles have failed; a request *)
(* made while a cycle runs is not taken for answered by it.                 *)
PromptlyCarried ==
    linked /\ ~disabled => age <= IF clean THEN MinGap ELSE BackoffMax
=============================================================================
