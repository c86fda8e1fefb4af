------------------------------- MODULE Vetting -------------------------------
(***************************************************************************)
(* Vetting between two accounts: an applicant asks a vetter, the vetter    *)
(* opens a session, the applicant answers it with a card, and the vetter   *)
(* signs a statement or declines.  Each account does one send at a time    *)
(* off its loop and applies the outcome later; messages take any time, in  *)
(* any order, and may be lost.                                             *)
(*                                                                         *)
(* A session's card and statement are what they bind: the application the  *)
(* card was made for, the session, and the identity the card shows.        *)
(***************************************************************************)
EXTENDS Naturals, FiniteSets

CONSTANTS
    MaxRequests,        \* bound: requests the applicant makes
    MaxApplications,    \* bound: applications to the community, one after another
    MaxOpened,          \* bound: sessions the vetter opens
    MaxFailures,        \* bound: sends that fail
    MaxPost,            \* bound: messages under way
    MaxOpenRequests,    \* VetterPolicy::max_open_requests
    TicketUses,         \* how many requests the vetter's ticket admits
    Faces,              \* what a card can show
    Nothing

ASSUME VettingAssumption ==
    /\ {MaxRequests, MaxApplications, MaxOpened, MaxOpenRequests, TicketUses} \subseteq Nat \ {0}
    /\ {MaxFailures, MaxPost} \subseteq Nat
    /\ Nothing \notin Faces

VARIABLES
    application,      \* the application there is, 0 for none
    started,          \* how many there have been
    requests,         \* its requests, by the document that asked
    statements,       \* the statements it holds
    identity_claims,  \* what its cards have shown
    applicantJob,     \* the applicant's send under way
    desk,             \* the vetter's entries, by the document that asked
    uses_left,        \* of the ticket
    issued,           \* statements the vetter has on its list
    vetterJob,        \* the vetter's send under way
    post,             \* messages sent and not handled
    opened,           \* how many sessions were opened
    failures,         \* sends that failed
    expired,          \* sessions past their expires_at
    overwritten,      \* history: sessions replaced by an older one at the applicant
    restored          \* history: entries whose closing was undone

applicantVars == <<application, started, requests, statements, identity_claims, applicantJob>>
vetterVars == <<desk, uses_left, issued, vetterJob, opened, restored>>
vettingVars == <<applicantVars, vetterVars, post, failures, expired, overwritten>>

Docs == 1..MaxRequests
Card == [application : 1..MaxApplications, session : 1..MaxOpened, face : Faces]
Statement == [doc : Docs, session : 1..MaxOpened, card : Card]
Request == [state : {"none", "sent", "accepted", "refused", "session", "attested", "declined"},
            session : 0..MaxOpened, card : Card \cup {Nothing}]
DeskEntry == [state : {"none", "accepted", "session", "card", "attested", "declined"},
              session : 0..MaxOpened, card : Card \cup {Nothing}]
At(state, s, c) == [state |-> state, session |-> s, card |-> c]
Blank == At("none", 0, Nothing)
Accepted == At("accepted", 0, Nothing)

PostKinds == {"request", "accept", "refuse", "session", "card", "statement", "decline"}
Message == [kind : PostKinds, doc : 0..MaxRequests, session : 0..MaxOpened, card : Card \cup {Nothing}]
Letter(kind, d, s, c) == [kind |-> kind, doc |-> d, session |-> s, card |-> c]

(* A send: its message, what undoing it restores, and how far it is. *)
SendJob == [msg : Message, previous : DeskEntry \cup {Nothing}, done : {"no", "sent", "failed"}]

(* What there may not be is an Option, and None is no value of it. *)
ASSUME NothingIsNothingElse == Nothing \notin Card \cup SendJob

Send(m, previous) == [msg |-> m, previous |-> previous, done |-> "no"]
Idle == Nothing
Ended(job) == job # Idle /\ job.done # "no"

VettingInit ==
    /\ application = 0 /\ started = 0
    /\ requests = [d \in Docs |-> Blank] /\ statements = {} /\ identity_claims = Nothing
    /\ applicantJob = Idle
    /\ desk = [d \in Docs |-> Blank] /\ uses_left = TicketUses /\ issued = {}
    /\ vetterJob = Idle
    /\ post = {} /\ failures = 0 /\ opened = 0 /\ expired = {}
    /\ overwritten = {} /\ restored = {}

----------------------------------------------------------------------------
(* The applicant. *)

start_application ==
    /\ application = 0 /\ started < MaxApplications
    /\ application' = started + 1 /\ started' = started + 1
    /\ UNCHANGED <<requests, statements, identity_claims, applicantJob, vetterVars, post, failures, expired, overwritten>>

(* Abandoned by the user, or retired once joined: the record goes, the vetter *)
(* is not told.                                                               *)
abandon_application ==
    /\ application # 0 /\ started < MaxApplications /\ application' = 0
    /\ requests' = [d \in Docs |-> Blank] /\ statements' = {} /\ identity_claims' = Nothing
    /\ UNCHANGED <<started, applicantJob, vetterVars, post, failures, expired, overwritten>>

(* A document id nothing is left of stands for a new one. *)
Used(d) == requests[d].state # "none" \/ desk[d].state # "none" \/ \E m \in post : m.doc = d
Fresh(d) == ~Used(d) /\ \A e \in 1..(d - 1) : Used(e)

request_vetter(d) ==
    /\ applicantJob = Idle /\ application # 0 /\ Fresh(d)
    /\ requests' = [requests EXCEPT ![d] = At("sent", 0, Nothing)]
    /\ applicantJob' = Send(Letter("request", d, 0, Nothing), Nothing)
    /\ UNCHANGED <<application, started, statements, identity_claims, vetterVars, post, failures, expired, overwritten>>

(* A variant that lets a card show another identity. *)
IdentityUnchanged_Unchecked(f) == TRUE

(* The check on a face's claims against what earlier cards showed. *)
IdentityUnchanged(f) == identity_claims \in {Nothing, f}

send_card(d, f) ==
    /\ applicantJob = Idle /\ application # 0
    /\ requests[d].state = "session" /\ requests[d].card = Nothing
    /\ requests[d].session \notin expired
    /\ IdentityUnchanged(f)
    /\ applicantJob' = Send(Letter("card", 0, requests[d].session,
                                [application |-> application, session |-> requests[d].session, face |-> f]),
                            Nothing)
    /\ UNCHANGED <<application, started, requests, statements, identity_claims, vetterVars, post, failures, expired, overwritten>>

Leaves(m, done) ==
    \/ done = "sent" /\ Cardinality(post) < MaxPost /\ post' = post \cup {m} /\ UNCHANGED failures
    \/ done = "failed" /\ failures < MaxFailures /\ failures' = failures + 1 /\ UNCHANGED post

LosePost(m) ==
    /\ m \in post /\ post' = post \ {m}
    /\ UNCHANGED <<applicantVars, vetterVars, failures, expired, overwritten>>

(* The send leaves, or fails; a card is not made for a session that is over. *)
RunApplicantJob(done) ==
    /\ applicantJob # Idle /\ applicantJob.done = "no"
    /\ done = "sent" /\ applicantJob.msg.kind = "card" => applicantJob.msg.session \notin expired
    /\ applicantJob' = [applicantJob EXCEPT !.done = done]
    /\ Leaves(applicantJob.msg, done)
    /\ UNCHANGED <<application, started, requests, statements, identity_claims, vetterVars, expired, overwritten>>

(* A variant that closes every session. *)
Swept_All(rs) ==
    [d \in Docs |-> IF rs[d].state = "session" THEN Accepted ELSE rs[d]]

(* The requests after prune. *)
Swept(rs) ==
    [d \in Docs |-> IF rs[d].state = "session" /\ rs[d].session \in expired THEN Accepted ELSE rs[d]]

forget_unsent(d) ==
    IF requests[d].state = "sent" THEN [requests EXCEPT ![d] = Blank] ELSE requests

RequestOutcome ==
    /\ Ended(applicantJob) /\ applicantJob.msg.kind = "request"
    /\ requests' = Swept(IF applicantJob.done = "failed" THEN forget_unsent(applicantJob.msg.doc) ELSE requests)
    /\ applicantJob' = Idle
    /\ UNCHANGED <<application, started, statements, identity_claims, vetterVars, post, failures, expired, overwritten>>

(* The card is recorded in the session it went into, if the application still *)
(* has that session.                                                          *)
record_sent_card(c) ==
    LET at == {d \in Docs : /\ application = c.application
                            /\ IdentityUnchanged(c.face)
                            /\ requests[d].state = "session" /\ requests[d].session = c.session}
    IN /\ requests' = Swept([d \in Docs |-> IF d \in at THEN [requests[d] EXCEPT !.card = c] ELSE requests[d]])
       /\ identity_claims' = IF at # {} THEN c.face ELSE identity_claims

CardOutcome ==
    /\ Ended(applicantJob) /\ applicantJob.msg.kind = "card"
    /\ IF applicantJob.done = "sent"
       THEN record_sent_card(applicantJob.msg.card)
       ELSE requests' = Swept(requests) /\ UNCHANGED identity_claims
    /\ applicantJob' = Idle
    /\ UNCHANGED <<application, started, statements, vetterVars, post, failures, expired, overwritten>>

(* The hourly sweep of the applicant's book. *)
prune_applications ==
    /\ requests' = Swept(requests) /\ requests' # requests
    /\ UNCHANGED <<application, started, statements, identity_claims, applicantJob, vetterVars, post, failures, expired, overwritten>>

(* A message for the applicant is handled: its request moves to r, or nothing *)
(* happens.                                                                   *)
Reply(m, kind) == m \in post /\ m.kind = kind /\ post' = post \ {m}
Becomes(m, from, r) ==
    requests' = IF requests[m.doc].state \in from THEN [requests EXCEPT ![m.doc] = r] ELSE requests
Handling == <<application, started, identity_claims, applicantJob, vetterVars, failures, expired>>

on_accepted(m) ==
    /\ Reply(m, "accept") /\ Becomes(m, {"sent", "accepted"}, Accepted)
    /\ UNCHANGED <<Handling, statements, overwritten>>

on_refused(m) ==
    /\ Reply(m, "refuse") /\ Becomes(m, {"sent"}, At("refused", 0, Nothing))
    /\ UNCHANGED <<Handling, statements, overwritten>>

on_session(m) ==
    /\ Reply(m, "session")
    /\ IF m.session \notin expired
       THEN /\ Becomes(m, {"accepted", "session"}, At("session", m.session, Nothing))
            /\ overwritten' = overwritten \cup {s \in {requests[m.doc].session} : s > m.session}
       ELSE UNCHANGED <<requests, overwritten>>
    /\ UNCHANGED <<Handling, statements>>

(* The statement is about a session of ours and the card we sent into it. *)
Answers(m) ==
    /\ requests[m.doc].state = "session" /\ requests[m.doc].session = m.session
    /\ requests[m.doc].card = m.card

on_statement(m) ==
    /\ Reply(m, "statement")
    /\ IF Answers(m)
       THEN /\ requests' = [requests EXCEPT ![m.doc] = At("attested", 0, Nothing)]
            /\ statements' = statements \cup {[doc |-> m.doc, session |-> m.session, card |-> m.card]}
       ELSE UNCHANGED <<requests, statements>>
    /\ UNCHANGED <<Handling, overwritten>>

on_decline(m) ==
    /\ Reply(m, "decline") /\ Becomes(m, {"accepted", "session"}, At("declined", 0, Nothing))
    /\ UNCHANGED <<Handling, statements, overwritten>>

----------------------------------------------------------------------------
(* The vetter. *)

(* A variant that counts a signed entry as open. *)
is_open_Signed(e) == e.state \in {"accepted", "session", "card", "attested"}

is_open(e) == e.state \in {"accepted", "session", "card"}
open_requests == {d \in Docs : is_open(desk[d])}

HasCapacity == Cardinality(open_requests) < MaxOpenRequests

(* A request is accepted and takes a use of the ticket, or is refused: the *)
(* ticket is used up, the vetter is not eligible, or its desk is full.     *)
take_request(m, eligible) ==
    /\ m \in post /\ m.kind = "request"
    /\ IF uses_left > 0 /\ eligible /\ HasCapacity
       THEN /\ desk' = [desk EXCEPT ![m.doc] = Accepted]
            /\ uses_left' = uses_left - 1
            /\ post' = (post \ {m}) \cup {Letter("accept", m.doc, 0, Nothing)}
       ELSE /\ post' = (post \ {m}) \cup {Letter("refuse", m.doc, 0, Nothing)}
            /\ UNCHANGED <<desk, uses_left>>
    /\ UNCHANGED <<applicantVars, issued, vetterJob, opened, restored, failures, expired, overwritten>>

(* Opened again, a session replaces the one before, and its card. *)
open_session(d) ==
    /\ vetterJob = Idle /\ is_open(desk[d]) /\ opened < MaxOpened
    /\ opened' = opened + 1
    /\ desk' = [desk EXCEPT ![d] = At("session", opened + 1, Nothing)]
    /\ vetterJob' = Send(Letter("session", d, opened + 1, Nothing), Nothing)
    /\ UNCHANGED <<applicantVars, uses_left, issued, restored, post, failures, expired, overwritten>>

receive_card(m) ==
    /\ m \in post /\ m.kind = "card" /\ post' = post \ {m}
    /\ desk' = [d \in Docs |-> IF /\ desk[d].state = "session" /\ desk[d].session = m.session
                                  /\ m.session \notin expired
                               THEN At("card", m.session, m.card)
                               ELSE desk[d]]
    /\ UNCHANGED <<applicantVars, uses_left, issued, vetterJob, opened, restored, failures, expired, overwritten>>

attest(d) ==
    /\ vetterJob = Idle /\ desk[d].state = "card"
    /\ desk' = [desk EXCEPT ![d] = At("attested", 0, Nothing)]
    /\ issued' = issued \cup {[doc |-> d, session |-> desk[d].session, card |-> desk[d].card]}
    /\ vetterJob' = Send(Letter("statement", d, desk[d].session, desk[d].card), desk[d])
    /\ UNCHANGED <<applicantVars, uses_left, opened, restored, post, failures, expired, overwritten>>

decline(d) ==
    /\ vetterJob = Idle /\ is_open(desk[d])
    /\ desk' = [desk EXCEPT ![d] = At("declined", 0, Nothing)]
    /\ vetterJob' = Send(Letter("decline", d, 0, Nothing), desk[d])
    /\ UNCHANGED <<applicantVars, uses_left, issued, opened, restored, post, failures, expired, overwritten>>

RunVetterJob(done) ==
    /\ vetterJob # Idle /\ vetterJob.done = "no"
    /\ vetterJob' = [vetterJob EXCEPT !.done = done]
    /\ Leaves(vetterJob.msg, done)
    /\ UNCHANGED <<applicantVars, desk, uses_left, issued, opened, restored, expired, overwritten>>

(* The desk after prune: a session nobody answered closes.  A closed entry  *)
(* stays, though the code moves it to the record of who was vetted.         *)
Tidied(es) ==
    [d \in Docs |-> IF es[d].state = "session" /\ es[d].session \in expired THEN Accepted ELSE es[d]]

(* A statement or decline that did not leave is undone. *)
Undone(d, previous) ==
    /\ desk' = Tidied([desk EXCEPT ![d] = previous])
    /\ issued' = {st \in issued : st.doc # d}
    /\ restored' = restored \cup {d}

VetterOutcome ==
    /\ Ended(vetterJob) /\ vetterJob' = Idle
    /\ IF vetterJob.done = "failed" /\ vetterJob.msg.kind \in {"statement", "decline"}
       THEN Undone(vetterJob.msg.doc, vetterJob.previous)
       ELSE desk' = Tidied(desk) /\ UNCHANGED <<issued, restored>>
    /\ UNCHANGED <<applicantVars, uses_left, opened, post, failures, expired, overwritten>>

(* The hourly sweep of the vetter's book. *)
prune_desk ==
    /\ desk' = Tidied(desk) /\ desk' # desk
    /\ UNCHANGED <<applicantVars, uses_left, issued, vetterJob, opened, restored, post, failures, expired, overwritten>>

(* A session reaches its expires_at; one that is in neither book is past telling. *)
Expire(s) ==
    /\ \E d \in Docs : s \in {requests[d].session, desk[d].session}
    /\ s \notin expired /\ expired' = expired \cup {s}
    /\ UNCHANGED <<applicantVars, vetterVars, post, failures, overwritten>>

VettingNext ==
    \/ start_application \/ abandon_application \/ prune_applications \/ prune_desk
    \/ \E d \in Docs : request_vetter(d) \/ open_session(d) \/ attest(d) \/ decline(d)
    \/ \E d \in Docs, f \in Faces : send_card(d, f)
    \/ \E done \in {"sent", "failed"} : RunApplicantJob(done) \/ RunVetterJob(done)
    \/ RequestOutcome \/ CardOutcome \/ VetterOutcome
    \/ \E m \in post : \/ on_accepted(m) \/ on_refused(m) \/ on_session(m)
                       \/ on_statement(m) \/ on_decline(m)
                       \/ \E eligible \in BOOLEAN : take_request(m, eligible)
                       \/ receive_card(m) \/ LosePost(m)
    \/ \E s \in 1..opened : Expire(s)

VettingSpec == VettingInit /\ [][VettingNext]_vettingVars

----------------------------------------------------------------------------
(* Both books hold values of their shape; a use of the ticket stands behind *)
(* every entry on the desk, and the vetter holds no more requests open than *)
(* its policy says, the ones reopened by a failed send aside (take_request, *)
(* sent_result).                                                            *)
VettingTypeOK ==
    /\ Cardinality(open_requests \ restored) <= MaxOpenRequests
    /\ application \in 0..MaxApplications /\ started \in application..MaxApplications
    /\ requests \in [Docs -> Request] /\ statements \subseteq Statement
    /\ identity_claims \in Faces \cup {Nothing}
    /\ desk \in [Docs -> DeskEntry] /\ issued \subseteq Statement
    /\ uses_left + Cardinality({d \in Docs : desk[d].state # "none"}) = TicketUses
    /\ post \subseteq Message /\ applicantJob \in SendJob \cup {Idle} /\ vetterJob \in SendJob \cup {Idle}
    /\ opened \in 0..MaxOpened /\ expired \cup overwritten \subseteq 1..opened
    /\ restored \subseteq Docs

(* The desk keeps to its policy (VettingTypeOK), and the two books agree on *)
(* how a request ended: what the applicant has as attested the vetter       *)
(* signed and has on its list, and what it has as declined the vetter       *)
(* declined and never signed, also when an outcome, a late session or a     *)
(* failed send comes in between (sent_result, on_session, on_statement,     *)
(* on_decline).                                                             *)
SidesAgree ==
    /\ VettingTypeOK
    /\ statements \subseteq issued
    /\ \A d \in Docs :
        /\ requests[d].state = "attested" <=> \E st \in statements : st.doc = d
        /\ requests[d].state = "attested" => desk[d].state = "attested"
        /\ requests[d].state = "declined" => /\ desk[d].state = "declined"
                                              /\ \A st \in issued : st.doc # d

(* Every statement an application holds is on a card it sent itself, and    *)
(* all show one identity, though cards are made from copies of the          *)
(* application and some are never recorded (card_claims, record_sent_card,  *)
(* on_statement).                                                           *)
OneIdentity ==
    \A st \in statements : /\ st.card.application = application
                            /\ st.card.session = st.session
                            /\ st.card.face = identity_claims

(* A statement that reaches the application its card was made for is kept,  *)
(* unless its session is over, an older session was delivered after it, or  *)
(* the card's own outcome is still to be applied (on_statement, prune).     *)
StatementsTaken ==
    [][\A m \in post :
        /\ on_statement(m)
        /\ application = m.card.application
        /\ m.session \notin expired \cup overwritten
        /\ applicantJob = Idle \/ applicantJob.msg.card # m.card
        => \E st \in statements' : st.session = m.session]_vettingVars
=============================================================================
