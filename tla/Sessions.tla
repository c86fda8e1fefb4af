------------------------------ MODULE Sessions ------------------------------
(***************************************************************************)
(* The registry of persona sessions, the listeners behind them, and the    *)
(* connection indicator.  The messaging layer's state is sampled by a      *)
(* poller whose transitions reach the loop through a bounded channel; a    *)
(* timer reads the live state besides.  How listeners come and go is in    *)
(* module Listeners: here they change at any moment.                       *)
(***************************************************************************)
EXTENDS Naturals, FiniteSets, Sequences

CONSTANTS
    Personas, Vtcs,
    MaxSessions,      \* DEFAULT_MAX_SESSIONS
    Capacity,         \* LISTENER_STATUS_CAPACITY: what the loop may lag behind
    MaxMoves,         \* bound: joins, ends and deletions
    MaxFlaps          \* bound: changes of the listeners that nobody here makes

ASSUME SessionsAssumption ==
    /\ IsFiniteSet(Personas)
    /\ MaxSessions \in Nat \ {0} /\ Capacity \in Nat \ {0} /\ MaxMoves \in Nat /\ MaxFlaps \in Nat

VARIABLES
    member,        \* per persona and community: "none", "live", "ended"
    serves,        \* per persona: its session's communities; none, no session
    status,        \* per persona: its session's status
    net,           \* the messaging layer: "absent", "down", "up"
    sampled,       \* what the poller last saw of it
    events,        \* transitions on their way to the loop
    online,        \* online_listeners
    indicator,
    excused,       \* history: live memberships refused a session, or whose deletion was refused
    moves, flaps

sessionVars == <<member, serves, status, net, sampled, events, online, indicator, excused, moves, flaps>>

Live(m, p) == {v \in Vtcs : m[<<p, v>>] = "live"}
HasSession(s) == {p \in Personas : s[p] # {}}

aggregate_status(s, st, on) ==
    IF \E p \in HasSession(s) : st[p] = "Connected" THEN "Connected"
    ELSE IF HasSession(s) # {} THEN "Connecting"
    ELSE IF on # {} THEN "PersonaOnline"
    ELSE "NoActiveCommunity"

(* Start-up registers the communities that need a session until the cap is  *)
(* reached, and reads the listeners' live state.                            *)
SessionsInit ==
    /\ member \in [Personas \X Vtcs -> {"none", "live"}]
    /\ \E has \in SUBSET {p \in Personas : Live(member, p) # {}} :
        /\ \/ has = {p \in Personas : Live(member, p) # {}} /\ Cardinality(has) <= MaxSessions
           \/ Cardinality(has) = MaxSessions
        /\ serves = [p \in Personas |-> IF p \in has THEN Live(member, p) ELSE {}]
        /\ excused = {pv \in Personas \X Vtcs : member[pv] = "live" /\ pv[1] \notin has}
    /\ net \in [Personas -> {"down", "up"}]
    /\ status = [p \in Personas |-> IF serves[p] = {} THEN "none"
                                    ELSE IF net[p] = "up" THEN "Connected" ELSE "Connecting"]
    /\ sampled = [p \in Personas |-> "absent"] /\ events = <<>> /\ online = {}
    /\ indicator = aggregate_status(serves, status, online)
    /\ moves = 0 /\ flaps = 0

Moving == moves < MaxMoves /\ moves' = moves + 1
Apply == indicator' = aggregate_status(serves', status', online')

AtCapacity == Cardinality(HasSession(serves)) >= MaxSessions

(* A join brings the community's session up: attached to the persona's, or  *)
(* refused at the cap or for want of an identity, or bound to the listener  *)
(* there is, or with a new one that connects or fails.                      *)
register_joined_session(p, v) ==
    /\ member[<<p, v>>] # "live" /\ Moving
    /\ member' = [member EXCEPT ![<<p, v>>] = "live"]
    /\ \/ /\ serves[p] # {} /\ serves' = [serves EXCEPT ![p] = @ \cup {v}]
          /\ excused' = excused \ {<<p, v>>} /\ UNCHANGED <<status, net>>
       \/ /\ serves[p] = {} /\ (AtCapacity \/ net[p] = "absent")
          /\ excused' = excused \cup {<<p, v>>} /\ UNCHANGED <<serves, status, net>>
       \/ /\ serves[p] = {} /\ ~AtCapacity
          /\ serves' = [serves EXCEPT ![p] = {v}] /\ excused' = excused \ {<<p, v>>}
          /\ \/ /\ net[p] # "absent" /\ UNCHANGED net
                /\ status' = [status EXCEPT ![p] = IF net[p] = "up" THEN "Connected" ELSE "Connecting"]
             \/ /\ net[p] = "absent" /\ net' = [net EXCEPT ![p] = "up"]
                /\ status' = [status EXCEPT ![p] = "Connecting"]
             \/ /\ net[p] = "absent" /\ UNCHANGED net
                /\ status' = [status EXCEPT ![p] = "Failed"]
    /\ UNCHANGED online /\ Apply
    /\ UNCHANGED <<sampled, events, flaps>>

(* A variant that drops the session with its first community. *)
deregister_Whole(p, v) ==
    /\ serves' = [serves EXCEPT ![p] = {}] /\ status' = [status EXCEPT ![p] = "none"]

(* The session goes with its last community. *)
deregister(p, v) ==
    /\ serves' = [serves EXCEPT ![p] = @ \ {v}]
    /\ status' = [status EXCEPT ![p] = IF serves[p] \subseteq {v} THEN "none" ELSE @]

StillLive(p) == Live(member', p) # {}

(* The session goes; the listener too, once its persona has no live          *)
(* membership; the indicator, once no persona has one.                       *)
deregister_inactive_community(p, v) ==
    /\ deregister(p, v)
    /\ net' = IF StillLive(p) THEN net ELSE [net EXCEPT ![p] = "absent"]
    /\ indicator' = IF \E q \in Personas : Live(member', q) # {} THEN indicator
                    ELSE "NoActiveCommunity"
    /\ UNCHANGED <<sampled, events, online, flaps>>

(* A membership is rejected, expires, is withdrawn or left. *)
End(p, v) ==
    /\ member[<<p, v>>] = "live" /\ Moving
    /\ member' = [member EXCEPT ![<<p, v>>] = "ended"]
    /\ deregister_inactive_community(p, v)
    /\ excused' = excused \ {<<p, v>>}

(* DeleteCommunity.  The row may have changed since the key was pressed: a  *)
(* live membership is not deleted, but its session goes all the same.       *)
DeleteCommunity(p, v) ==
    /\ member[<<p, v>>] # "none" /\ Moving
    /\ \/ /\ member[<<p, v>>] = "ended" /\ member' = [member EXCEPT ![<<p, v>>] = "none"]
          /\ UNCHANGED excused
       \/ /\ member[<<p, v>>] = "live" /\ UNCHANGED member
          /\ excused' = excused \cup {<<p, v>>}
    /\ deregister_inactive_community(p, v)

-----------------------------------------------------------------------------
(* A listener connects, drops, is rebuilt or installed. *)
Flap(p) ==
    /\ flaps < MaxFlaps /\ flaps' = flaps + 1
    /\ \E s \in {"absent", "down", "up"} \ {net[p]} : net' = [net EXCEPT ![p] = s]
    /\ UNCHANGED <<member, serves, status, sampled, events, online, indicator, excused, moves>>

(* poll_listener_status: a change is broadcast, except that a listener which *)
(* is gone is only forgotten.  A full channel drops its oldest event.        *)
Poll(p) ==
    /\ net[p] # sampled[p] /\ sampled' = [sampled EXCEPT ![p] = net[p]]
    /\ events' = IF net[p] = "absent" THEN events
                 ELSE Append(IF Len(events) < Capacity THEN events ELSE Tail(events), <<p, net[p]>>)
    /\ UNCHANGED <<member, serves, status, net, online, indicator, excused, moves, flaps>>

(* The loop takes a transition. *)
TakeEvent ==
    /\ events # <<>> /\ events' = Tail(events)
    /\ LET p == Head(events)[1]
           up == Head(events)[2] = "up"
           now == IF up THEN "Connected" ELSE "Disconnected"
       IN /\ online' = IF up THEN online \cup {p} ELSE online \ {p}
          /\ status' = IF serves[p] = {} THEN status ELSE [status EXCEPT ![p] = now]
    /\ UNCHANGED serves
    /\ IF online' # online \/ status' # status THEN Apply ELSE UNCHANGED indicator
    /\ UNCHANGED <<member, net, sampled, excused, moves, flaps>>

(* A variant that only takes sessions down. *)
Reconciled_DownOnly(p) ==
    IF status[p] = "Connected" /\ net[p] # "up" THEN "Disconnected" ELSE status[p]

Reconciled(p) ==
    IF serves[p] = {} THEN "none"
    ELSE IF net[p] = "up" THEN "Connected"
    ELSE IF status[p] = "Connected" THEN "Disconnected" ELSE status[p]

(* The reconcile timer. *)
reconcile_sessions ==
    /\ status' = [p \in Personas |-> Reconciled(p)]
    /\ UNCHANGED <<serves, online>>
    /\ IF status' # status THEN Apply ELSE UNCHANGED indicator
    /\ UNCHANGED <<member, net, sampled, events, excused, moves, flaps>>

SessionsNext ==
    \/ \E p \in Personas, v \in Vtcs :
        register_joined_session(p, v) \/ End(p, v) \/ DeleteCommunity(p, v)
    \/ \E p \in Personas : Flap(p) \/ Poll(p)
    \/ TakeEvent \/ reconcile_sessions

(* The loop's 15 s interval keeps firing. *)
SessionsSpec == SessionsInit /\ [][SessionsNext]_sessionVars /\ WF_sessionVars(reconcile_sessions)

-----------------------------------------------------------------------------
(* Never more sessions than the cap, at start-up or after any order of      *)
(* joins and ends.                                                          *)
SessionsTypeOK ==
    /\ member \in [Personas \X Vtcs -> {"none", "live", "ended"}]
    /\ serves \in [Personas -> SUBSET Vtcs] /\ Cardinality(HasSession(serves)) <= MaxSessions
    /\ \A p \in Personas : IF serves[p] = {} THEN status[p] = "none"
                           ELSE status[p] \in {"Connecting", "Connected", "Failed", "Disconnected"}
    /\ net \in [Personas -> {"absent", "down", "up"}]
    /\ sampled \in [Personas -> {"absent", "down", "up"}]
    /\ Len(events) <= Capacity /\ online \subseteq Personas
    /\ indicator \in {"Connected", "Connecting", "PersonaOnline", "NoActiveCommunity"}
    /\ moves \in 0..MaxMoves /\ flaps \in 0..MaxFlaps

(* Sessions serve exactly the live memberships: a persona that leaves one    *)
(* community keeps its session for the others, an ended membership keeps     *)
(* none.  Communities refused at the cap, and those whose deletion was       *)
(* refused, are excused.                                                     *)
SessionForLive ==
    \A p \in Personas, v \in Vtcs : <<p, v>> \notin excused =>
        (v \in serves[p] <=> member[<<p, v>>] = "live")

(* However transitions are lost, dropped or overtaken, a session whose        *)
(* listener is up is shown as connected again.                                *)
StatusSettles ==
    \A p \in Personas : []<>(serves[p] = {} \/ net[p] # "up" \/ indicator = "Connected")
=============================================================================
