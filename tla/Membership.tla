----------------------------- MODULE Membership -----------------------------
(***************************************************************************)
(* The memberships an account holds with one community: joins submitted,   *)
(* the community's verdicts, status answers, credentials, notices and      *)
(* renewals applied in any order, status polls, expiry, withdrawal,        *)
(* leaving and deletion, with messages lost or late and the account        *)
(* stopping between changes and their save.                                *)
(***************************************************************************)
EXTENDS Naturals, FiniteSets, Sequences, SequencesExt

CONSTANTS Personas,
          None,          \* no persona
          MaxJoins,      \* bound on submits; the document id of join k is k
          MaxAsks,       \* MAX_RESEND_ASKS
          Budgets        \* who joins in turn, what may happen how often: one per behaviour

ASSUME MembershipAssumption ==
    /\ None \notin Personas
    /\ MaxJoins \in Nat \ {0} /\ MaxAsks \in Nat \ {0}
    /\ Budgets \subseteq [joins : BoundedSeq(Personas, MaxJoins), faults : Nat, crashes : Nat, renewals : Nat,
                          decides : Nat, elsewhere : Nat, turns : Nat, rejoins : BOOLEAN]

Joins == 1..MaxJoins
Vid(k) == MaxJoins + k               \* the id the community gives join k
NoReq == 0

Ended == {"Rejected", "Removed", "Left", "Withdrawn", "Expired"}
Live == {"Pending", "Active"}

VARIABLES
    recs,       \* account.communities[vtc]: the records, in order
    saved,      \* the same on disk
    joins,      \* submits so far
    asks,       \* per persona, polls that asked for the credential again
    renewals,   \* renewal requests pending in memory
    job,        \* the persona whose leave is being sent
    requests,   \* the community's join requests
    net,        \* messages on their way from the community
    left        \* what is left of the budget

client == <<recs, saved, joins, asks, renewals, job>>
vars == <<client, requests, net, left>>

Init ==
    /\ recs = <<>> /\ saved = <<>> /\ joins = 0
    /\ asks = [p \in Personas |-> 0] /\ renewals = {} /\ job = None
    /\ requests = [k \in Joins |-> [by |-> None, state |-> "none", acked |-> FALSE]]
    /\ net = {} /\ left \in Budgets

-----------------------------------------------------------------------------
(* CommunityRecord *)
new_pending(p, k) ==
    [persona |-> p, own |-> k, status |-> "Pending", req |-> k, confirmed |-> FALSE,
     approved |-> FALSE, delivered |-> "unreported", answer |-> "none", vmc |-> NoReq]

Becomes(r, status) == [r EXCEPT !.status = status, !.req = NoReq]
is_live(r) == r.status \in Live
withdraw(r) == IF r.status = "Pending" THEN Becomes(r, "Withdrawn") ELSE r
confirm_request_id(r, id) ==
    IF r.status = "Pending" THEN [r EXCEPT !.req = id, !.confirmed = TRUE] ELSE r
(* A variant that only asks about joins whose id the community has told us. *)
is_pollable_pending_Confirmed(r) == r.status = "Pending" /\ r.confirmed

is_pollable_pending(r) == r.status = "Pending"
approved_awaiting_credential(r) == r.status = "Pending" /\ r.approved /\ r.vmc = NoReq
can_renew(r) == r.status = "Active" \/ approved_awaiting_credential(r)
wants_credential_resend(r) ==
    approved_awaiting_credential(r) /\ r.delivered = "no" /\ r.answer # "refused"

(* Account: indices into the records, 0 for none. *)
FirstIndex(P(_)) ==
    LET found == {i \in 1..Len(recs) : P(recs[i])}
    IN IF found = {} THEN 0 ELSE CHOOSE i \in found : \A j \in found : i <= j

membership(p) == FirstIndex(LAMBDA r : r.persona = p)
membership_by_pending_request(id) == FirstIndex(LAMBDA r : r.status = "Pending" /\ r.req = id)
has_live_membership(p) == membership(p) # 0 /\ is_live(recs[membership(p)])

Unconfirmed == {i \in 1..Len(recs) : recs[i].status = "Pending" /\ ~recs[i].confirmed}

(* A variant that answers to several joins with the first of them. *)
membership_awaiting_request_id_First(to) ==
    IF Unconfirmed = {} THEN 0
    ELSE membership(recs[CHOOSE i \in Unconfirmed : \A j \in Unconfirmed : i <= j].persona)

membership_awaiting_request_id(to) ==
    LET addressed == {i \in Unconfirmed : recs[i].persona = to}
        chosen == IF Cardinality(Unconfirmed) = 1 THEN Unconfirmed ELSE addressed
    IN IF Cardinality(chosen) # 1 THEN 0
       ELSE membership(recs[CHOOSE i \in chosen : TRUE].persona)

SetRec(i, r) == IF i = 0 THEN recs ELSE [recs EXCEPT ![i] = r]

-----------------------------------------------------------------------------
(* The community and the network. A message names its kind, the persona it  *)
(* is addressed to and the join it is about.                                *)
Verdict(k, p, effect) == [kind |-> "verdict", to |-> p, k |-> k, effect |-> effect]
Credential(k, p) == [kind |-> "credential", to |-> p, k |-> k]
Refusal(k, p) == [kind |-> "error", to |-> p, k |-> k]
Notice(k, p) == [kind |-> "notice", to |-> p, k |-> k]
Renewed(k, p, n) == [kind |-> "renewed", to |-> p, k |-> k, n |-> n]
NotMember(n, p) == [kind |-> "notMember", to |-> p, k |-> 0, n |-> n]
StatusOf(k, p, answer) ==
    [kind |-> "status", to |-> p, k |-> k, status |-> requests[k].state,
     delivered |-> IF requests[k].acked THEN "yes" ELSE "no", answer |-> answer]

(* What the community does with a submit, at once: the request it keeps and *)
(* the messages it sends. A lost submit leaves no trace.                    *)
Replies(k, p) ==
    {[state |-> "approved", msgs |-> {Verdict(k, p, "allow"), Credential(k, p)}],
     [state |-> "rejected", msgs |-> {Verdict(k, p, "deny")}],
     [state |-> "open", msgs |-> {Verdict(k, p, "refer")}],
     [state |-> "none", msgs |-> {Refusal(k, p)}],
     [state |-> "none", msgs |-> {}]}

MemberOf(p) == {k \in Joins : requests[k].by = p /\ requests[k].state = "approved"}
Newest(S) == CHOOSE k \in S : \A j \in S : j <= k
Known(p) == {k \in Joins : requests[k].by = p /\ requests[k].state # "none"}

(* A reviewer's decision on a referred join. *)
Decide(k) ==
    /\ left.decides > 0 /\ requests[k].state = "open"
    /\ \E reply \in {r \in Replies(k, requests[k].by) : r.state \in {"approved", "rejected"}} :
        /\ requests' = [requests EXCEPT ![k].state = reply.state]
        /\ net' = net \cup reply.msgs
    /\ left' = [left EXCEPT !.decides = @ - 1]
    /\ UNCHANGED client

(* Another client of the member withdraws the request, or the community     *)
(* removes the member.                                                      *)
DecideElsewhere(k) ==
    /\ left.elsewhere > 0
    /\ \/ /\ requests[k].state = "open"
          /\ requests' = [requests EXCEPT ![k].state = "withdrawn"]
          /\ UNCHANGED net
       \/ /\ requests[k].state = "approved"
          /\ requests' = [requests EXCEPT ![k].state = "ended"]
          /\ net' = net \cup {Notice(k, requests[k].by)}
    /\ left' = [left EXCEPT !.elsewhere = @ - 1]
    /\ UNCHANGED client

(* A message is lost, or refused by its off-loop check. *)
Lose(m) ==
    /\ left.faults > 0
    /\ left' = [left EXCEPT !.faults = @ - 1]
    /\ net' = net \ {m}
    /\ UNCHANGED <<client, requests>>

-----------------------------------------------------------------------------
(* Inbound documents. *)
OnVerdict(m) ==
    LET i == membership_by_pending_request(m.k)
        r == confirm_request_id(recs[i], Vid(m.k))
    IN /\ recs' = SetRec(i, IF m.effect = "deny" THEN Becomes(r, "Rejected") ELSE r)
       /\ UNCHANGED <<renewals, requests>>

OnTrustTaskError(m) ==
    LET i == membership_by_pending_request(m.k)
    IN /\ recs' = SetRec(i, Becomes(recs[i], "Rejected"))
       /\ UNCHANGED <<renewals, requests>>

(* An answer that says nothing of a re-delivery keeps the last that did. *)
record_credential_delivery(r, m) ==
    [r EXCEPT !.delivered = m.delivered, !.answer = IF m.answer = "none" THEN @ ELSE m.answer]

(* A variant that takes an unsigned approval for the admission. *)
StatusApplied_Activates(r, m) ==
    IF m.status = "approved" THEN Becomes(r, "Active") ELSE r

StatusApplied(r, m) ==
    CASE m.status = "approved" -> record_credential_delivery([r EXCEPT !.approved = TRUE], m)
      [] m.status = "rejected" -> Becomes(r, "Rejected")
      [] m.status = "withdrawn" -> withdraw(r)
      [] OTHER -> r

OnStatus(m) ==
    LET known == membership_by_pending_request(Vid(m.k))
        i == IF known # 0 THEN known ELSE membership_awaiting_request_id(m.to)
    IN /\ recs' = SetRec(i, StatusApplied(confirm_request_id(recs[i], Vid(m.k)), m))
       /\ UNCHANGED <<renewals, requests>>

(* Our half of the membership pair goes out on admission, best effort: the  *)
(* community then holds our acknowledgement.                                *)
Acknowledge(k, admitted) ==
    \/ UNCHANGED requests
    \/ admitted /\ requests' = [requests EXCEPT ![k].acked = TRUE]

(* A variant that stores a credential on a membership that has ended. *)
credential_issue_admissible_Any(i) == i # 0

credential_issue_admissible(i) == i # 0 /\ is_live(recs[i])

Hold(r, k) == [Becomes(r, "Active") EXCEPT !.vmc = k]

OnCredential(m) ==
    LET i == membership(m.to)
        ok == credential_issue_admissible(i)
    IN /\ recs' = IF ok THEN SetRec(i, Hold(recs[i], m.k)) ELSE recs
       /\ Acknowledge(m.k, ok /\ recs[i].status = "Pending")
       /\ UNCHANGED renewals

OnRemovalNotice(m) ==
    LET i == membership(m.to)
    IN /\ recs' = IF i # 0 /\ recs[i].status = "Active"
                  THEN SetRec(i, Becomes(recs[i], "Removed")) ELSE recs
       /\ UNCHANGED <<renewals, requests>>

OnRenewed(m) ==
    LET i == membership(m.to)
        ok == m.n \in renewals /\ i # 0 /\ can_renew(recs[i])
    IN /\ recs' = IF ok THEN SetRec(i, Hold(recs[i], m.k)) ELSE recs
       /\ renewals' = renewals \ {m.n}
       /\ Acknowledge(m.k, ok)

OnRenewalRefused(m) ==
    /\ renewals' = renewals \ {m.n}
    /\ UNCHANGED <<recs, requests>>

Deliver(m) ==
    /\ net' = net \ {m}
    /\ CASE m.kind = "verdict" -> OnVerdict(m)
         [] m.kind = "error" -> OnTrustTaskError(m)
         [] m.kind = "status" -> OnStatus(m)
         [] m.kind = "credential" -> OnCredential(m)
         [] m.kind = "notice" -> OnRemovalNotice(m)
         [] m.kind = "renewed" -> OnRenewed(m)
         [] m.kind = "notMember" -> OnRenewalRefused(m)
    /\ UNCHANGED <<saved, joins, asks, job, left>>

-----------------------------------------------------------------------------
(* The member and the loop. *)

(* A variant that never looks for a membership the persona has already. *)
is_duplicate_membership_Never(p) == FALSE

is_duplicate_membership(p) == has_live_membership(p)

(* Joining as a persona, perhaps again: the request goes out, the record is *)
(* added and the configuration saved. Only if left.rejoins does a member    *)
(* join again as a persona whose ended record is still kept.                *)
MayJoin(p) ==
    /\ left.joins # <<>> /\ p = Head(left.joins) /\ ~is_duplicate_membership(p)
    /\ ~left.rejoins /\ membership(p) # 0 => is_live(recs[membership(p)])

Send(p, k) ==
    \E reply \in Replies(k, p) :
        /\ requests' = [requests EXCEPT ![k] = [by |-> p, state |-> reply.state, acked |-> FALSE]]
        /\ net' = net \cup reply.msgs
        /\ IF reply.msgs = {}
           THEN left.faults > 0 /\ left' = [left EXCEPT !.joins = Tail(@), !.faults = @ - 1]
           ELSE left' = [left EXCEPT !.joins = Tail(@)]

Submit(p) ==
    /\ MayJoin(p)
    /\ joins' = joins + 1
    /\ Send(p, joins')
    /\ recs' = Append(recs, new_pending(p, joins'))
    /\ \/ saved' = recs'
       \/ left.crashes > 0 /\ UNCHANGED saved   \* the save may fail
    /\ UNCHANGED <<asks, renewals, job>>

(* A stop loses what was not saved and everything held in memory only. *)
Restart ==
    /\ recs' = saved /\ renewals' = {} /\ job' = None
    /\ asks' = [p \in Personas |-> 0]

Crash ==
    /\ left.crashes > 0
    /\ left' = [left EXCEPT !.crashes = @ - 1]
    /\ Restart
    /\ UNCHANGED <<saved, joins, requests, net>>

(* The account stops between sending a request and recording it. *)
SubmitCut(p) ==
    /\ left.crashes > 0 /\ MayJoin(p)
    /\ joins' = joins + 1
    /\ \E reply \in Replies(joins', p) :
        /\ requests' = [requests EXCEPT ![joins'] =
                          [by |-> p, state |-> reply.state, acked |-> FALSE]]
        /\ net' = net \cup reply.msgs
    /\ left' = [left EXCEPT !.crashes = @ - 1, !.joins = Tail(@)]
    /\ Restart
    /\ UNCHANGED saved

(* A coalesced save has run (SaveCoalesce has its steps). Left out once no  *)
(* stop can follow.                                                         *)
Save ==
    /\ left.crashes > 0 /\ saved # recs /\ saved' = recs
    /\ UNCHANGED <<recs, joins, asks, renewals, job, requests, net, left>>

(* A poll about the i-th record: by the community's id if we hold it, else  *)
(* about the persona's latest request. After CREDENTIAL_RESEND_GRACE_SECS   *)
(* what was sent has arrived or is lost. A request of somebody else's, or   *)
(* none, gets no answer. The pacer forgets the asks of joins that are       *)
(* pending no more. Bound: one answer per join under way.                   *)
Poll(i) ==
    LET r == recs[i]
        p == r.persona
        asked == IF r.confirmed THEN {k \in Known(p) : Vid(k) = r.req} ELSE Known(p)
        k == Newest(asked)
        grace == \A m \in net : m.kind = "credential" => m.to # p
        again == grace /\ wants_credential_resend(r) /\ asks[p] < MaxAsks
        resent == again /\ asked # {} /\ k \in MemberOf(p) /\ ~requests[k].acked
    IN /\ is_pollable_pending(r)
       /\ \A m \in net : m.kind = "status" /\ asked # {} => m.k # k
       /\ asks' = [q \in Personas |->
                     IF q = p THEN asks[q] + (IF again THEN 1 ELSE 0)
                     ELSE IF \E j \in 1..Len(recs) : recs[j].persona = q /\ recs[j].status = "Pending"
                     THEN asks[q] ELSE 0]
       /\ \/ asked = {} /\ UNCHANGED <<net, left>>
          \/ /\ asked # {} /\ UNCHANGED left
             /\ net' = net \cup {StatusOf(k, p, IF resent THEN "queued" ELSE "none")}
                        \cup (IF resent THEN {Credential(k, p)} ELSE {})
          \/ /\ again /\ asked # {} /\ left.faults > 0
             /\ left' = [left EXCEPT !.faults = @ - 1]
             /\ net' = net \cup {StatusOf(k, p, "refused")}
       /\ UNCHANGED <<recs, saved, joins, renewals, job, requests>>

(* The member ends or forgets a membership, or its wait is over: bounded by *)
(* left.turns. The rows of the communities panel name a persona; the record *)
(* is looked up again.                                                      *)
Turn == left.turns > 0 /\ left' = [left EXCEPT !.turns = @ - 1]

WithdrawJoin(i) ==
    LET j == membership(recs[i].persona)
    IN /\ Turn /\ recs[i].status = "Pending"
       /\ recs' = SetRec(j, withdraw(recs[j]))
       /\ UNCHANGED <<saved, joins, asks, renewals, job, requests, net>>

DeleteCommunity(i) ==
    LET j == membership(recs[i].persona)
    IN /\ Turn /\ recs[j].status \in Ended
       /\ recs' = RemoveAt(recs, j)
       /\ UNCHANGED <<saved, joins, asks, renewals, job, requests, net>>

LeaveCommunity(i) ==
    /\ Turn /\ recs[i].status = "Active" /\ job = None
    /\ job' = recs[i].persona
    /\ UNCHANGED <<recs, saved, joins, asks, renewals, requests, net>>

(* The farewell went out, and arrived or not, or could not be sent. *)
LeaveApplied ==
    LET i == membership(job)
    IN /\ job # None /\ job' = None
       /\ \/ /\ recs' = SetRec(i, Becomes(recs[i], "Left"))
             /\ \/ requests' = [k \in Joins |-> IF k \in MemberOf(job)
                                                THEN [requests[k] EXCEPT !.state = "ended"]
                                                ELSE requests[k]]
                \/ UNCHANGED requests
          \/ UNCHANGED <<recs, requests>>
       /\ UNCHANGED <<saved, joins, asks, renewals, net, left>>

(* expire_stale_pending_with: the waits are over for some pending joins. *)
ExpireStale(i) ==
    /\ Turn /\ recs[i].status = "Pending"
    /\ recs' = SetRec(i, Becomes(recs[i], "Expired"))
    /\ UNCHANGED <<saved, joins, asks, renewals, job, requests, net>>

(* Renewals are numbered by what is left of the budget. *)
RenewCommunity(i) ==
    LET p == recs[i].persona
        n == left.renewals
    IN /\ n > 0 /\ job = None /\ can_renew(recs[i])
       /\ left' = [left EXCEPT !.renewals = @ - 1]
       /\ renewals' = renewals \cup {n}
       /\ net' = net \cup {IF MemberOf(p) = {} THEN NotMember(n, p)
                           ELSE Renewed(Newest(MemberOf(p)), p, n)}
       /\ UNCHANGED <<recs, saved, joins, asks, job, requests>>

(* PENDING_TTL has passed. *)
RenewalLapses(n) ==
    /\ renewals' = renewals \ {n}
    /\ UNCHANGED <<recs, saved, joins, asks, job, requests, net, left>>

Next ==
    \/ \E p \in Personas : Submit(p) \/ SubmitCut(p)
    \/ \E k \in Joins : Decide(k) \/ DecideElsewhere(k)
    \/ \E m \in net : Deliver(m) \/ Lose(m)
    \/ \E i \in 1..Len(recs) :
        \/ Poll(i) \/ WithdrawJoin(i) \/ DeleteCommunity(i) \/ LeaveCommunity(i)
        \/ ExpireStale(i) \/ RenewCommunity(i)
    \/ LeaveApplied \/ Save \/ Crash
    \/ \E n \in renewals : RenewalLapses(n)

Spec == Init /\ [][Next]_vars

(* The status tick keeps asking about each pending join, and each message   *)
(* that is not lost arrives. Nothing obliges the member, a reviewer or the  *)
(* clock.                                                                   *)
PollJoin(k) == \E i \in 1..Len(recs) : recs[i].own = k /\ Poll(i)
Arrives(k, kind) == \E m \in net : m.k = k /\ m.kind = kind /\ Deliver(m)
Fairness ==
    \A k \in Joins : /\ WF_vars(PollJoin(k))
                     /\ \A kind \in {"status", "credential"} : WF_vars(Arrives(k, kind))
FairSpec == Spec /\ Fairness

-----------------------------------------------------------------------------
Record == [persona : Personas, own : Joins, status : Live \cup Ended,
           req : 0..(2 * MaxJoins), confirmed : BOOLEAN, approved : BOOLEAN,
           delivered : {"unreported", "no", "yes"}, answer : {"none", "queued", "refused"},
           vmc : 0..MaxJoins]

(* Records keep their shape: one is pending while it waits on a request. *)
TypeOK ==
    /\ \A rs \in {recs, saved} : \A i \in 1..Len(rs) :
        rs[i] \in Record /\ (rs[i].status = "Pending" <=> rs[i].req # NoReq)
    /\ joins \in 0..MaxJoins /\ asks \in [Personas -> 0..MaxAsks]
    /\ job \in Personas \cup {None} /\ renewals \subseteq Nat

(* Admission is the membership credential: an Active record holds one, and  *)
(* the community issued it to that persona for a request it approved.  On   *)
(* records that keep their type.                                            *)
AdmittedByCredential ==
    /\ TypeOK
    /\ \A i \in 1..Len(recs) : recs[i].status = "Active" =>
        /\ recs[i].vmc # NoReq
        /\ requests[recs[i].vmc].by = recs[i].persona
        /\ requests[recs[i].vmc].state \in {"approved", "ended"}

(* "The (vtc, persona) pair is unique, so this resolves at most one": a     *)
(* live membership is the one its persona resolves to.                      *)
LiveResolvable ==
    \A i \in 1..Len(recs) : is_live(recs[i]) => membership(recs[i].persona) = i

(* With several joins unconfirmed, the answers to id-less polls come in any *)
(* order and no join takes the id of another persona's request.             *)
AnswersFindTheirJoin ==
    [][Cardinality(Unconfirmed) > 1 =>
        \A i \in Unconfirmed, j \in 1..Len(recs') :
            /\ recs'[j].own = recs[i].own
            /\ recs'[j].status = "Pending" /\ recs'[j].confirmed
            => requests[recs'[j].req - MaxJoins].by = recs[i].persona]_vars

(* Each join goes through the states of MembershipLifecycle: no message,    *)
(* however late, revives a membership that has ended, and a stop takes the  *)
(* account back to its last save and no further.                            *)
StateIn(rs, k) ==
    LET found == {i \in 1..Len(rs) : rs[i].own = k}
    IN IF found # {} THEN rs[CHOOSE i \in found : TRUE].status
       ELSE IF k <= joins THEN "Gone" ELSE "None"
Lifecycle == INSTANCE MembershipLifecycle WITH
    status <- [k \in Joins |-> StateIn(recs, k)],
    durable <- [k \in Joins |-> StateIn(saved, k)]
KeepsLifecycle == Lifecycle!Spec

(* A join the community approved does not stay Pending, whatever single     *)
(* messages were lost: the polls learn of the approval and have the         *)
(* credential sent again. Left for renewal are the joins of which the       *)
(* community believes, or says, that nothing more is to be sent, and the    *)
(* records that took the id of another request (README, Observations).      *)
Waiting(k) ==
    \E i \in 1..Len(recs) :
        /\ recs[i].own = k /\ recs[i].status = "Pending"
        /\ requests[k].state = "approved"
        /\ recs[i].delivered # "yes" /\ recs[i].answer # "refused"
        /\ recs[i].confirmed => recs[i].req = Vid(k)
ApprovedJoinCompletes == \A k \in Joins : Waiting(k) ~> ~Waiting(k)
=============================================================================
