----------------------------- MODULE VerifyQueue -----------------------------
(***************************************************************************)
(* The queue of inbound messages waiting on an off-loop check: two lanes,  *)
(* caps per lane and per sender, a rate on relationship requests, one      *)
(* check at a time, and the copies of communities' messages that survive   *)
(* an exit (Verifier, queue_for_check, restore_kept and the loop's inbound *)
(* arm).                                                                   *)
(***************************************************************************)
EXTENDS Integers, FiniteSets, Sequences, SequencesExt

CONSTANTS Senders,      \* authenticated senders
          Communities,  \* the ones we hold a membership record with at first
          None,
          PriorityCap, OtherCap, SenderCap, KeptCap, RequestRate,
          Budgets       \* bounds: [script, restarts, dups, movers], one per behaviour

Kinds == {"plain", "request", "large"}  \* a relationship request; too big to keep

Messages == [from : Senders, n : Nat \ {0}, kind : Kinds]
Checks == [m : Messages, check : BOOLEAN]  \* a queued message, and whether it needs one

ASSUME VerifyQueueAssumption ==
    /\ Communities \subseteq Senders /\ None \notin Senders /\ None \notin Checks
    /\ {PriorityCap, OtherCap, SenderCap, KeptCap, RequestRate} \subseteq Nat \ {0}
    /\ Budgets \subseteq [script : [Senders -> Seq(Kinds)], restarts : Nat, dups : Nat,
                          movers : SUBSET Senders]

VARIABLES
    priority, other,    \* the lanes: queued messages, and whether they need a check
    senders,            \* sender -> messages queued or running, and its lane
    running,            \* the message being checked
    rate,               \* relationship-request checks queued this minute
    members,            \* senders we hold a membership record with
    seen,               \* messages observed this session
    kept,               \* config.private.deferred_inbound
    backlog,            \* kept messages not queued again yet
    restoring,          \* restore_kept is at work: the loop does nothing else
    budget,             \* each sender's messages; restarts, redeliveries and changes left
    arrived, moved,     \* messages of each sender so far; whose membership changed
    handled,            \* history: per sender, the messages in the order handled
    aside,              \* history: messages queued while their sender was a member
    dropped,            \* history: messages refused when set aside a second time
    late,               \* history: messages rechecked, or left in the backlog
    unkept              \* history: messages whose copy did not fit

queue == <<priority, other, senders, running, rate>>
history == <<handled, aside, dropped, late, unkept>>
bounds == <<budget, arrived, moved>>
vars == <<queue, members, seen, kept, backlog, restoring, bounds, history>>

NoLane == [count |-> 0, lane |-> None]
QueueState == [priority |-> priority, other |-> other, senders |-> senders,
               running |-> running, rate |-> rate]

Init ==
    /\ priority = <<>> /\ other = <<>> /\ running = None /\ rate = 0
    /\ senders = [s \in Senders |-> NoLane]
    /\ members = Communities /\ seen = {}
    /\ kept = <<>> /\ backlog = <<>> /\ restoring = FALSE
    /\ budget \in Budgets /\ arrived = [s \in Senders |-> 0] /\ moved = {}
    /\ handled = [s \in Senders |-> <<>>] /\ aside = {}
    /\ dropped = {} /\ late = {} /\ unkept = {}

-----------------------------------------------------------------------------
(* Verifier, on its state v; q is a message with its job.                   *)
LaneOf(v, s, lane) == IF v.senders[s].count = 0 THEN lane ELSE v.senders[s].lane

(* A variant that takes the other lane first. *)
start_next_OtherFirst(v) ==
    IF v.running # None THEN v
    ELSE IF v.other # <<>> THEN [v EXCEPT !.running = Head(v.other), !.other = Tail(@)]
    ELSE IF v.priority # <<>> THEN [v EXCEPT !.running = Head(v.priority), !.priority = Tail(@)]
    ELSE v

start_next(v) ==
    IF v.running # None THEN v
    ELSE IF v.priority # <<>> THEN [v EXCEPT !.running = Head(v.priority), !.priority = Tail(@)]
    ELSE IF v.other # <<>> THEN [v EXCEPT !.running = Head(v.other), !.other = Tail(@)]
    ELSE v

is_full_for(v, s, lane) ==
    \/ v.senders[s].count >= SenderCap
    \/ IF LaneOf(v, s, lane) = "Priority" THEN Len(v.priority) >= PriorityCap
       ELSE Len(v.other) >= OtherCap

IsRequest(q) == q.check /\ q.m.kind = "request"

Refuses(v, q, lane) ==
    is_full_for(v, q.m.from, lane) \/ (IsRequest(q) /\ v.rate >= RequestRate)

(* A variant in which a sender's later messages take the preferred lane. *)
enqueue_AnyLane(v, q, lane) ==
    start_next([v EXCEPT
        !.priority = IF lane = "Priority" THEN Append(@, q) ELSE @,
        !.other = IF lane = "Other" THEN Append(@, q) ELSE @,
        !.senders[q.m.from] = [count |-> @.count + 1, lane |-> lane],
        !.rate = IF IsRequest(q) THEN @ + 1 ELSE @])

enqueue(v, q, lane) ==
    LET at == LaneOf(v, q.m.from, lane)
    IN start_next([v EXCEPT
           !.priority = IF at = "Priority" THEN Append(@, q) ELSE @,
           !.other = IF at = "Other" THEN Append(@, q) ELSE @,
           !.senders[q.m.from] = [count |-> @.count + 1, lane |-> at],
           !.rate = IF IsRequest(q) THEN @ + 1 ELSE @])

(* The check that ran is over: its sender's place is free, the next starts. *)
finished(v) ==
    LET s == v.running.m.from
        n == v.senders[s].count - 1
    IN start_next([v EXCEPT
           !.running = None,
           !.senders[s] = IF n = 0 THEN NoLane ELSE [@ EXCEPT !.count = n]])

(* lane_for *)
lane_for(s) == IF s \in members THEN "Priority" ELSE "Other"

-----------------------------------------------------------------------------
(* Whether a message needs a check (verification_job) is read off the       *)
(* account's records at each triage: any answer is possible each time.      *)
Become(v) ==
    /\ priority' = v.priority /\ other' = v.other /\ senders' = v.senders
    /\ running' = v.running /\ rate' = v.rate

(* A variant that looks for the copy in the kept list as it was. *)
queue_for_check_NotKept(v, k, q) ==
    LET lane == lane_for(q.m.from)
    IN IF Refuses(v, q, lane)
       THEN Become(v) /\ kept' = k /\ UNCHANGED <<unkept, aside>>
       ELSE /\ Become(enqueue(v, q, lane))
            /\ kept' = IF lane = "Priority" /\ q.m \notin ToSet(kept) THEN Append(k, q.m) ELSE k
            /\ aside' = IF lane = "Priority" THEN aside \cup {q.m} ELSE aside
            /\ UNCHANGED unkept

(* From a queue v and a kept list k: the message is queued and, a member's, *)
(* kept if it is small enough and there is room; or it is dropped.          *)
queue_for_check(v, k, q) ==
    LET lane == lane_for(q.m.from)
        keep == lane = "Priority" /\ q.m \notin ToSet(k)
        fits == q.m.kind # "large" /\ Len(k) < KeptCap
    IN IF Refuses(v, q, lane)
       THEN Become(v) /\ kept' = k /\ UNCHANGED <<unkept, aside>>
       ELSE /\ Become(enqueue(v, q, lane))
            /\ kept' = IF keep /\ fits THEN Append(k, q.m) ELSE k
            /\ unkept' = IF keep /\ ~fits THEN unkept \cup {q.m} ELSE unkept
            /\ aside' = IF lane = "Priority" THEN aside \cup {q.m} ELSE aside

(* The message's handler runs. *)
Handle(m) == handled' = [handled EXCEPT ![m.from] = Append(@, m.n)]

(* A variant in which a message that needs no check never waits its turn. *)
process_inbound_NoWait(m) ==
    /\ ~restoring
    /\ seen' = seen \cup {m}
    /\ \/ m \in seen /\ UNCHANGED <<queue, kept, handled, unkept, aside>>
       \/ /\ m \notin seen /\ UNCHANGED handled
          /\ queue_for_check(QueueState, kept, [m |-> m, check |-> TRUE])
       \/ /\ m \notin seen
          /\ Handle(m) /\ UNCHANGED <<queue, kept, unkept, aside>>
    /\ UNCHANGED <<members, backlog, restoring, moved, dropped, late>>

(* A message comes in.  One seen this session is dropped; one that needs a  *)
(* check, or has its sender's messages ahead of it, is set aside; any other *)
(* is handled at once.                                                      *)
process_inbound(m) ==
    /\ ~restoring
    /\ seen' = seen \cup {m}
    /\ \/ m \in seen /\ UNCHANGED <<queue, kept, handled, unkept, aside>>
       \/ /\ m \notin seen
          /\ \E check \in BOOLEAN :
                 /\ check \/ senders[m.from].count > 0
                 /\ queue_for_check(QueueState, kept, [m |-> m, check |-> check])
          /\ UNCHANGED handled
       \/ /\ m \notin seen /\ senders[m.from].count = 0
          /\ Handle(m) /\ UNCHANGED <<queue, kept, unkept, aside>>
    /\ UNCHANGED <<members, backlog, restoring, moved, dropped, late>>

Arrive(s) ==
    LET n == arrived[s] + 1
    IN /\ n <= Len(budget.script[s]) /\ arrived' = [arrived EXCEPT ![s] = n]
       /\ process_inbound([from |-> s, n |-> n, kind |-> budget.script[s][n]])
       /\ UNCHANGED budget

(* The mediator delivers once more a message we have not handled yet. *)
Redeliver ==
    /\ budget.dups > 0 /\ budget' = [budget EXCEPT !.dups = @ - 1]
    /\ \E m \in ToSet(kept) : process_inbound(m)
    /\ UNCHANGED arrived

(* The loop takes the finished check.  A message that only waited its turn  *)
(* is triaged again and may be set aside for a check; any other is handled. *)
(* Its kept copy goes, and the backlog is tried again.                      *)
Return ==
    /\ ~restoring /\ running # None
    /\ LET m == running.m
           v == finished(QueueState)
           k == RemoveFirst(kept, m)
           again == [m |-> m, check |-> TRUE]
       IN \/ /\ ~running.check
             /\ queue_for_check(v, k, again)
             /\ dropped' = IF Refuses(v, again, lane_for(m.from)) THEN dropped \cup {m}
                           ELSE dropped
             /\ late' = late \cup {m} /\ UNCHANGED handled
          \/ /\ Become(v) /\ kept' = k
             /\ Handle(m) /\ UNCHANGED <<dropped, unkept, aside, late>>
    /\ restoring' = (backlog # <<>>)
    /\ UNCHANGED <<members, seen, backlog, bounds>>

(* restore_kept, one message a step: it stops at the first that does not    *)
(* fit.                                                                     *)
restore_kept ==
    /\ restoring
    /\ \/ /\ backlog = <<>>
          /\ restoring' = FALSE
          /\ UNCHANGED <<queue, seen, kept, backlog, aside, late, unkept>>
       \/ /\ backlog # <<>>
          /\ \E check \in BOOLEAN :
                 LET m == Head(backlog)
                     q == [m |-> m, check |-> check]
                     full == is_full_for(QueueState, m.from, "Priority")
                 IN /\ seen' = IF full THEN seen ELSE seen \cup {m}
                    /\ IF full \/ Refuses(QueueState, q, lane_for(m.from))
                       THEN /\ restoring' = FALSE /\ late' = late \cup ToSet(backlog)
                            /\ UNCHANGED <<queue, kept, backlog, aside, unkept>>
                       ELSE /\ queue_for_check(QueueState, kept, q)
                            /\ backlog' = Tail(backlog)
                            /\ UNCHANGED <<restoring, late>>
    /\ UNCHANGED <<members, bounds, handled, dropped>>

(* A variant in which the backlog waits for a check to finish. *)
Tick_Idle ==
    /\ ~restoring /\ backlog # <<>> /\ running # None
    /\ restoring' = TRUE
    /\ UNCHANGED <<queue, members, seen, kept, backlog, bounds, history>>

(* The join-status tick tries the backlog again. *)
Tick ==
    /\ ~restoring /\ backlog # <<>>
    /\ restoring' = TRUE
    /\ UNCHANGED <<queue, members, seen, kept, backlog, bounds, history>>

(* The oldest request check is a minute old. *)
Minute ==
    /\ rate > 0 /\ rate' = rate - 1
    /\ UNCHANGED <<priority, other, senders, running, members, seen, kept, backlog,
                   restoring, bounds, history>>

(* The first membership with a sender is recorded, or the last one goes. *)
Move(s) ==
    /\ ~restoring /\ s \in budget.movers \ moved
    /\ members' = IF s \in members THEN members \ {s} ELSE members \cup {s}
    /\ moved' = moved \cup {s}
    /\ UNCHANGED <<queue, seen, kept, backlog, restoring, budget, arrived, history>>

(* A clean exit and a start: the queue is empty, and what was kept is the   *)
(* backlog.                                                                 *)
Restart ==
    /\ ~restoring /\ budget.restarts > 0 /\ budget' = [budget EXCEPT !.restarts = @ - 1]
    /\ priority' = <<>> /\ other' = <<>> /\ running' = None /\ rate' = 0
    /\ senders' = [s \in Senders |-> NoLane]
    /\ seen' = {} /\ backlog' = kept /\ restoring' = TRUE
    /\ UNCHANGED <<members, kept, arrived, moved, history>>

Next ==
    \/ \E s \in Senders : Arrive(s) \/ Move(s)
    \/ Redeliver \/ Return \/ restore_kept \/ Tick \/ Minute \/ Restart

Spec == Init /\ [][Next]_vars

(* JOB_TIMEOUT ends every check; the loop selects, ticks and time passes.   *)
FairSpec == Spec /\ SF_vars(Return) /\ WF_vars(restore_kept) /\ WF_vars(Tick) /\ WF_vars(Minute)

-----------------------------------------------------------------------------
InLanes == priority \o other
Waiting == ToSet(InLanes) \cup (IF running = None THEN {} ELSE {running})

(* The number of messages of s in a lane. *)
Queued(s, lane) == Cardinality({i \in DOMAIN lane : lane[i].m.from = s})

SendersTracked ==
    /\ \A s \in Senders :
        senders[s].count = Queued(s, priority) + Queued(s, other)
                           + (IF running # None /\ running.m.from = s THEN 1 ELSE 0)
    /\ \A q \in ToSet(priority) : senders[q.m.from].lane = "Priority"
    /\ \A q \in ToSet(other) : senders[q.m.from].lane = "Other"

(* Every variable keeps its type, the queue never outgrows its caps, the    *)
(* verifier is idle only when nothing is queued, and the per-sender book is *)
(* exact: its count is what is queued or running, and everything queued     *)
(* waits in the one lane the book names, even when the sender's membership  *)
(* changed meanwhile.                                                       *)
TypeOK ==
    /\ SendersTracked
    /\ Waiting \subseteq Checks
    /\ Len(priority) <= PriorityCap /\ Len(other) <= OtherCap
    /\ Len(kept) <= KeptCap /\ rate \in 0 .. RequestRate
    /\ \A s \in Senders : senders[s].count \in 0 .. SenderCap
    /\ running = None => InLanes = <<>>
    /\ ToSet(kept) \cup ToSet(backlog) \cup seen \subseteq Messages
    /\ members \subseteq Senders /\ restoring \in BOOLEAN

(* A sender's messages are handled in the order they arrived and once each, *)
(* also when the mediator delivers one again, except one that needed a      *)
(* check only when its turn came, or that a restart left in the backlog.    *)
OrderPerSender ==
    \A s \in Senders : \A i, j \in DOMAIN handled[s] :
        i < j /\ handled[s][i] >= handled[s][j]
            => \E m \in late : m.from = s /\ m.n = handled[s][j]

(* The mediator has deleted it, so nothing set aside from a community we    *)
(* still belong to is lost: it was handled or is kept, whatever restarts    *)
(* came in between, unless it could not be kept.  One that waited its turn  *)
(* is not dropped for want of room when it is set aside again, since its    *)
(* own place is free by then: only the rate on requests can refuse it.      *)
CommunityMessagesSurvive ==
    /\ \A m \in dropped :
        m.kind = "request" \/ m.from \in moved \/ m.from \notin members
    /\ \A m \in aside \ (dropped \cup unkept) :
        m.from \in members => m \in ToSet(kept) \/ m.n \in ToSet(handled[m.from])

(* No stranger's check starts while a community's message is in the queue.  *)
NeverDelays ==
    LET starts == running' # None /\ running' # running
        steady == Senders \ (moved \cup moved')
    IN starts /\ running'.m.from \in steady \ members
           => \A q \in ToSet(InLanes) : q.m.from \notin steady \cap members

(* "A stranger flooding the second lane never delays a community's".        *)
StrangersNeverDelay == [][NeverDelays]_vars

(* Every queued or kept message comes back in the end. *)
Drains == <>[](Waiting = {} /\ backlog = <<>>)
=============================================================================
