---------------------------- MODULE Relationships ----------------------------
(***************************************************************************)
(* The relationship handshake between accounts (request, accept, finalize, *)
(* reject), and what an established relationship carries: relationship     *)
(* credentials (VRCs) and trust pings.                                     *)
(*                                                                         *)
(* Each account is one event loop.  A user action prepares a job on the    *)
(* loop, the job sends its message off the loop, and its outcome is        *)
(* applied on the loop later; inbound messages are handled in between.     *)
(* One job runs per busy domain.  Messages whose proofs need a network     *)
(* check leave the loop and come back.  The network does not order         *)
(* messages, may lose them, and may deliver them again after a restart.    *)
(***************************************************************************)
EXTENDS Integers, FiniteSets, Sequences

CONSTANTS Parties,      \* the accounts, one persona each
          None,         \* no record, no job, no DID in the body
          MaxTasks,     \* MAX_TASKS: the inbox's capacity
          MaxRelationships,
          Budgets       \* bounds: how often each kind of thing may happen

ASSUME RelationshipsAssumption ==
    /\ MaxTasks \in Nat \ {0} /\ MaxRelationships \in Nat \ {0}
    /\ None \notin Parties
    /\ \A b \in Budgets : \A f \in DOMAIN b : b[f] \in Nat

VARIABLES
    db,         \* per account: relationships, tasks, VRCs issued and received
    saved,      \* per account: the db a clean exit leaves on disk
    job,        \* per account and busy domain: the job in flight
    held,       \* per account: messages off the loop, the first being checked
    seen,       \* per account: the messages seen this session
    epoch,      \* per account: how often it was restarted
    net,        \* messages under way
    sent,       \* every message ever sent
    nextId,     \* the next request, VRC-request or ping id
    left,       \* what may still happen
    spoiled,    \* history: threads a fault, a restart or a user's change of mind cut
    early,      \* history: threads with a message that came before its record, or to a full inbox
    crossed     \* history: threads whose our_did another request's outcome wrote

ghosts == <<spoiled, early, crossed>>
vars == <<db, saved, job, held, seen, epoch, net, sent, nextId, left, spoiled, early, crossed>>

-----------------------------------------------------------------------------
(* A DID names its owner; thread and epoch tell minted R-DIDs apart.         *)
persona(p) == <<p, 0, 0>>
RDid(p, id) == <<p, id, epoch[p]>>
Owner(did) == did[1]

Domains == {"Relationship", "Inbox"}

(* A message's id is its type, thread and the sender's session.              *)
Msg(p, type, thid, from, to, did) ==
    [type |-> type, thid |-> thid, from |-> from, to |-> to, did |-> did, ep |-> epoch[p]]

Job(kind, q, id, our, theirs) ==
    [kind |-> kind, peer |-> q, id |-> id, our |-> our, theirs |-> theirs, st |-> "run"]

Rel(task, our, remote, st) == [task |-> task, our |-> our, remote |-> remote, st |-> st]
Task(id, kind, q, did) == [id |-> id, kind |-> kind, peer |-> q, did |-> did]

(* What there may not be is an Option, and None is no value of it.           *)
Dids == Parties \X Nat \X Nat
States == {"RequestSent", "RequestAccepted", "Established"}
JobKinds == {"Create", "Remove", "Ping", "RequestVrc", "Accept", "Reject", "IssueVrc", "RejectVrc"}
RelType == [task : Nat, our : Dids, remote : Dids, st : States]
JobType == [kind : JobKinds, peer : Parties, id : Nat, our : Dids \cup {None},
            theirs : Dids \cup {None}, st : {"run", "sent", "failed"}]
ASSUME NoneIsNothingElse == None \notin Dids \cup RelType \cup JobType

EmptyDb == [rel |-> [q \in Parties |-> None], tasks |-> {}, issued |-> {}, received |-> {}]

Init ==
    /\ db = [p \in Parties |-> EmptyDb] /\ saved = db
    /\ job = [p \in Parties |-> [m \in Domains |-> None]]
    /\ held = [p \in Parties |-> <<>>] /\ seen = [p \in Parties |-> {}]
    /\ epoch = [p \in Parties |-> 0]
    /\ net = {} /\ sent = {} /\ nextId = 1
    /\ left \in Budgets
    /\ spoiled = {} /\ early = {} /\ crossed = {}

Spend(f) == left[f] > 0 /\ left' = [left EXCEPT ![f] = @ - 1]

-----------------------------------------------------------------------------
(* Relationships: lookups and removal on one account's d. *)
Known(d) == {q \in Parties : d.rel[q] # None}

(* A variant that matches the thread whatever state the record is in. *)
awaiting_AnyState(d, m, st) ==
    {q \in Known(d) : d.rel[q].task = m.thid /\ persona(q) = m.from}

(* The record a handshake message answers. *)
awaiting(d, m, st) ==
    {q \in Known(d) : d.rel[q].task = m.thid /\ d.rel[q].st = st /\ persona(q) = m.from}

find_by_remote_did(d, did) == {q \in Known(d) : d.rel[q].remote = did \/ persona(q) = did}

WithoutTask(d, id) == [d EXCEPT !.tasks = {t \in @ : t.id # id}]
WithTask(d, t) == [d EXCEPT !.tasks = {x \in @ : x.id # t.id} \cup {t}]

(* Relationships::remove: the record and the VRCs filed under its key. *)
RemoveRel(d, q) ==
    [d EXCEPT !.rel[q] = None,
              !.issued = {v \in @ : v.key # persona(q)},
              !.received = {v \in @ : v.key # persona(q)}]

check_task_capacity(d, id) ==
    (\A t \in d.tasks : t.id # id) /\ Cardinality(d.tasks) < MaxTasks

relationship_request_admissible(d, m) ==
    /\ check_task_capacity(d, m.thid)
    /\ Cardinality(Known(d)) < MaxRelationships
    /\ find_by_remote_did(d, m.from) = {}
    /\ \A t \in d.tasks : ~(t.kind = "RequestIn" /\ persona(t.peer) = m.from)

Established(d, q) == d.rel[q] # None /\ d.rel[q].st = "Established"

(* The established peer a message came from, over its DID with us. *)
EstablishedSender(d, m) == {q \in find_by_remote_did(d, m.from) : d.rel[q].st = "Established"}

(* vet_vrc_issued: the peer whose VRC this may be; the issuer is m.from. *)
vet_vrc_issued(d, m) == {q \in EstablishedSender(d, m) : d.rel[q].remote = m.from}

OurVrcRequest(d, m, q) == \E t \in d.tasks : t.id = m.thid /\ t.kind = "VrcRequestOut" /\ t.peer = q

is_our_vrc_request_to(d, m) ==
    {q \in Parties : /\ OurVrcRequest(d, m, q)
                     /\ persona(q) = m.from \/ (d.rel[q] # None /\ d.rel[q].remote = m.from)}

(* verification_job: only a message that could be acted on is checked. *)
verification_job(d, m) ==
    CASE m.type = "request" -> relationship_request_admissible(d, m)
      [] m.type = "accept" -> awaiting(d, m, "RequestSent") # {}
      [] m.type = "vrc" -> vet_vrc_issued(d, m) # {}
      [] OTHER -> FALSE

-----------------------------------------------------------------------------
(* The inbound handlers: an account's d after message m, ok telling whether *)
(* the message's proofs were checked and hold.                              *)
OnRejected(d, m) ==
    IF awaiting(d, m, "RequestSent") = {} THEN d
    ELSE WithoutTask(RemoveRel(d, Owner(m.from)), m.thid)

OnAccepted(d, m, ok) ==
    IF awaiting(d, m, "RequestSent") = {} \/ ~ok THEN d
    ELSE WithoutTask([d EXCEPT !.rel[Owner(m.from)] =
                          Rel(@.task, @.our, m.did, "Established")], m.thid)

OnFinalize(d, m) ==
    IF awaiting(d, m, "RequestAccepted") = {} THEN d
    ELSE WithoutTask([d EXCEPT !.rel[Owner(m.from)].st = "Established"], m.thid)

OnRequest(d, m, ok) ==
    IF ~relationship_request_admissible(d, m) \/ ~ok THEN d
    ELSE WithTask(d, Task(m.thid, "RequestIn", Owner(m.from), m.did))

OnVrcRequest(d, m) ==
    IF EstablishedSender(d, m) = {} \/ ~check_task_capacity(d, m.thid) THEN d
    ELSE WithTask(d, Task(m.thid, "VrcRequestIn", CHOOSE q \in EstablishedSender(d, m) : TRUE, None))

(* A variant that leaves the request's task in the inbox. *)
OnVrcRequestRejected_KeepsTask(d, m) == d

OnVrcRequestRejected(d, m) ==
    IF is_our_vrc_request_to(d, m) = {} THEN d ELSE WithoutTask(d, m.thid)

(* An answer to our request takes over its task; any other VRC is filed     *)
(* under the message's own id.                                              *)
OnVrcIssued(d, m, ok) ==
    IF vet_vrc_issued(d, m) = {} \/ ~ok THEN d
    ELSE LET q == CHOOSE r \in vet_vrc_issued(d, m) : TRUE
             answer == OurVrcRequest(d, m, q)
             id == IF answer THEN m.thid ELSE -m.thid
             d1 == IF answer THEN WithoutTask(d, m.thid) ELSE d
         IN IF ~check_task_capacity(d1, id) THEN d1
            ELSE WithTask(d1, Task(id, "VrcIssued", q, m.from))

OnTrustPing(d, m) ==
    IF ~check_task_capacity(d, m.thid) \/ find_by_remote_did(d, m.from) = {} THEN d
    ELSE WithTask(d, Task(m.thid, "Ping", CHOOSE q \in find_by_remote_did(d, m.from) : TRUE, None))

Handled(d, m, ok) ==
    CASE m.type = "reject" -> OnRejected(d, m)
      [] m.type = "accept" -> OnAccepted(d, m, ok)
      [] m.type = "finalize" -> OnFinalize(d, m)
      [] m.type = "request" -> OnRequest(d, m, ok)
      [] m.type = "vrcRequest" -> OnVrcRequest(d, m)
      [] m.type = "vrcReject" -> OnVrcRequestRejected(d, m)
      [] m.type = "vrc" -> OnVrcIssued(d, m, ok)
      [] m.type = "ping" -> OnTrustPing(d, m)
      [] m.type = "pong" -> WithoutTask(d, m.thid)

(* What handling m sends: the finalize of an accept, the answer to a ping.  *)
Replies(p, d, m, ok) ==
    IF m.type = "accept" /\ ok /\ awaiting(d, m, "RequestSent") # {}
    THEN {Msg(p, "finalize", m.thid, persona(p), m.from, None)}
    ELSE IF m.type = "ping" THEN {Msg(p, "pong", m.thid, m.to, m.from, None)} ELSE {}

(* A message that comes before, or after, the record it is about, and a VRC *)
(* request that meets a full inbox.                                         *)
Early(p, m) ==
    \/ m.type = "finalize" /\ job[p]["Inbox"] # None /\ job[p]["Inbox"].id = m.thid
    \/ m.type = "vrcRequest" /\ (EstablishedSender(db[p], m) = {} \/ ~check_task_capacity(db[p], m.thid))
    \/ m.type = "vrc" /\ (vet_vrc_issued(db[p], m) = {} \/ ~OurVrcRequest(db[p], m, Owner(m.from)))
    \/ m.type = "vrcReject" /\ is_our_vrc_request_to(db[p], m) = {}

(* The handler runs to its end on the loop; a change is marked for saving.  *)
Process(p, m, ok) ==
    LET d == Handled(db[p], m, ok)
        out == Replies(p, db[p], m, ok)
    IN /\ db' = [db EXCEPT ![p] = d]
       /\ saved' = IF d = db[p] THEN saved ELSE [saved EXCEPT ![p] = d]
       /\ sent' = sent \cup out
       /\ net' = (net \ {m}) \cup out
       /\ early' = IF Early(p, m) THEN early \cup {m.thid} ELSE early

-----------------------------------------------------------------------------
(* Inbound: seen before, or set aside for its check, or to wait its turn    *)
(* behind its sender's messages, or handled at once.                        *)
Waiting(p, did) == \E i \in DOMAIN held[p] : held[p][i].m.from = did

Deliver(p, m) ==
    /\ m \in net /\ Owner(m.to) = p
    /\ seen' = [seen EXCEPT ![p] = @ \cup {m}]
    /\ IF m \in seen[p]
       THEN net' = net \ {m} /\ UNCHANGED <<db, saved, held, sent, early>>
       ELSE LET check == verification_job(db[p], m) IN
            IF check \/ Waiting(p, m.from)
            THEN /\ held' = [held EXCEPT ![p] = Append(@, [m |-> m, check |-> check])]
                 /\ net' = net \ {m}
                 /\ UNCHANGED <<db, saved, sent, early>>
            ELSE Process(p, m, FALSE) /\ UNCHANGED held
    /\ UNCHANGED <<job, epoch, nextId, left, spoiled, crossed>>

(* The check of the first held message ends well; one that only waited its  *)
(* turn is triaged again, and goes to the end if it now needs a check.      *)
Return(p) ==
    /\ held[p] # <<>>
    /\ LET h == Head(held[p])
       IN IF ~h.check /\ verification_job(db[p], h.m)
          THEN /\ held' = [held EXCEPT ![p] = Append(Tail(@), [h EXCEPT !.check = TRUE])]
               /\ UNCHANGED <<db, saved, sent, net, early>>
          ELSE /\ held' = [held EXCEPT ![p] = Tail(@)]
               /\ Process(p, h.m, h.check)
    /\ UNCHANGED <<job, seen, epoch, nextId, left, spoiled, crossed>>

(* The check fails, or times out: the message is refused. *)
CheckFails(p) ==
    /\ held[p] # <<>> /\ Head(held[p]).check
    /\ Spend("faults")
    /\ held' = [held EXCEPT ![p] = Tail(@)]
    /\ Process(p, Head(held[p]).m, FALSE)
    /\ spoiled' = spoiled \cup {Head(held[p]).m.thid}
    /\ UNCHANGED <<job, seen, epoch, nextId, crossed>>

(* The network loses a message (its delivery window runs out) ... *)
Lose(m) ==
    /\ m \in net /\ Spend("faults")
    /\ net' = net \ {m} /\ spoiled' = spoiled \cup {m.thid}
    /\ UNCHANGED <<db, saved, job, held, seen, epoch, sent, nextId, early, crossed>>

(* ... or the mediator delivers one again. *)
Redeliver(m) ==
    /\ m \in sent \ net /\ Spend("dups")
    /\ net' = net \cup {m} /\ spoiled' = spoiled \cup {m.thid}
    /\ UNCHANGED <<db, saved, job, held, seen, epoch, sent, nextId, early, crossed>>

-----------------------------------------------------------------------------
(* User actions: the loop-thread half of each job.                          *)
Claim(p, domain, j) ==
    /\ job[p][domain] = None
    /\ job' = [job EXCEPT ![p][domain] = j]

(* A variant that records the request only once it is sent. *)
SubmitRequest_NoRecord(p, q, our) ==
    /\ p # q /\ ~Established(db[p], q)
    /\ Spend("requests")
    /\ Claim(p, "Relationship", Job("Create", q, nextId, our, None))
    /\ nextId' = nextId + 1
    /\ UNCHANGED <<db, saved, held, seen, epoch, net, sent, ghosts>>

(* prepare_submit: the record is there, provisionally, before the send.     *)
SubmitRequest(p, q, our) ==
    /\ p # q /\ ~Established(db[p], q)
    /\ Spend("requests")
    /\ Claim(p, "Relationship", Job("Create", q, nextId, our, None))
    /\ db' = [db EXCEPT ![p].rel[q] = Rel(nextId, persona(p), persona(q), "RequestSent")]
    /\ nextId' = nextId + 1
    /\ spoiled' = IF db[p].rel[q] = None THEN spoiled ELSE spoiled \cup {db[p].rel[q].task}
    /\ UNCHANGED <<saved, held, seen, epoch, net, sent, early, crossed>>

(* prepare_ping, prepare_request_vrc: over the relationship's DIDs.         *)
SubmitOver(p, q, kind, cost) ==
    /\ db[p].rel[q] # None
    /\ Spend(cost)
    /\ Claim(p, "Relationship", Job(kind, q, nextId, db[p].rel[q].our, db[p].rel[q].remote))
    /\ nextId' = nextId + 1
    /\ UNCHANGED <<db, saved, held, seen, epoch, net, sent, ghosts>>

(* prepare_remove *)
SubmitRemove(p, q) ==
    /\ db[p].rel[q] # None
    /\ Spend("removes")
    /\ Claim(p, "Relationship", Job("Remove", q, 0, None, None))
    /\ UNCHANGED <<db, saved, held, seen, epoch, net, sent, nextId, ghosts>>

(* prepare_accept_relationship, prepare_reject_relationship *)
AnswerRequest(p, t, kind, our) ==
    /\ t \in db[p].tasks /\ t.kind = "RequestIn"
    /\ Claim(p, "Inbox", Job(kind, t.peer, t.id, our, t.did))
    /\ UNCHANGED <<db, saved, held, seen, epoch, net, sent, nextId, left, ghosts>>

(* prepare_accept_vrc_request, prepare_reject_vrc_request *)
AnswerVrcRequest(p, t, kind) ==
    /\ t \in db[p].tasks /\ t.kind = "VrcRequestIn" /\ db[p].rel[t.peer] # None
    /\ Claim(p, "Inbox", Job(kind, t.peer, t.id, db[p].rel[t.peer].our, db[p].rel[t.peer].remote))
    /\ UNCHANGED <<db, saved, held, seen, epoch, net, sent, nextId, left, ghosts>>

(* accept_vrc files the VRC under its issuer. *)
AcceptVrc(p, t) ==
    /\ t \in db[p].tasks /\ t.kind = "VrcIssued"
    /\ db' = [db EXCEPT ![p] = [WithoutTask(db[p], t.id) EXCEPT !.received =
                                   @ \cup {[key |-> t.did, issuer |-> t.did]}]]
    /\ saved' = [saved EXCEPT ![p] = db'[p]]
    /\ UNCHANGED <<job, held, seen, epoch, net, sent, nextId, left, ghosts>>

(* dismiss_task, and clear_all_tasks when ts is the whole inbox.            *)
DropTasks(p, ts) ==
    /\ ts # {} /\ Spend("dismissals")
    /\ db' = [db EXCEPT ![p].tasks = @ \ ts]
    /\ saved' = [saved EXCEPT ![p] = db'[p]]
    /\ spoiled' = spoiled \cup {t.id : t \in ts}
    /\ UNCHANGED <<job, held, seen, epoch, net, sent, nextId, early, crossed>>

-----------------------------------------------------------------------------
(* The job off the loop: mint what it needs, send, report.                  *)
JobMessage(p, j) ==
    CASE j.kind = "Create" -> {Msg(p, "request", j.id, persona(p), persona(j.peer), j.our)}
      [] j.kind = "Accept" -> {Msg(p, "accept", j.id, persona(p), persona(j.peer), j.our)}
      [] j.kind = "Reject" -> {Msg(p, "reject", j.id, persona(p), persona(j.peer), None)}
      [] j.kind = "Ping" -> {Msg(p, "ping", j.id, j.our, j.theirs, None)}
      [] j.kind = "RequestVrc" -> {Msg(p, "vrcRequest", j.id, j.our, j.theirs, None)}
      [] j.kind = "IssueVrc" -> {Msg(p, "vrc", j.id, j.our, j.theirs, None)}
      [] j.kind = "RejectVrc" -> {Msg(p, "vrcReject", j.id, j.our, j.theirs, None)}
      [] j.kind = "Remove" -> {}

InStage(p, domain, st) == job[p][domain] # None /\ job[p][domain].st = st

JobSends(p, domain) ==
    /\ InStage(p, domain, "run")
    /\ job' = [job EXCEPT ![p][domain].st = "sent"]
    /\ net' = net \cup JobMessage(p, job[p][domain])
    /\ sent' = sent \cup JobMessage(p, job[p][domain])
    /\ UNCHANGED <<db, saved, held, seen, epoch, nextId, left, ghosts>>

(* Minting the DID, packing or queueing the message fails: nothing is sent. *)
JobFails(p, domain) ==
    /\ InStage(p, domain, "run") /\ job[p][domain].kind # "Remove"
    /\ Spend("faults")
    /\ job' = [job EXCEPT ![p][domain].st = "failed"]
    /\ spoiled' = spoiled \cup {job[p][domain].id}
    /\ UNCHANGED <<db, saved, held, seen, epoch, net, sent, nextId, early, crossed>>

(* The job panics: spawn_dispatch reports that, and the domain is released  *)
(* without any effect.                                                      *)
JobPanics(p, domain) ==
    /\ InStage(p, domain, "run")
    /\ Spend("faults")
    /\ job' = [job EXCEPT ![p][domain] = None]
    /\ spoiled' = spoiled \cup {job[p][domain].id}
    /\ UNCHANGED <<db, saved, held, seen, epoch, net, sent, nextId, early, crossed>>

(* The outcome comes back to the loop, which releases the domain; d is what *)
(* the account becomes.                                                     *)
Outcome(p, domain, st, d, marks) ==
    /\ InStage(p, domain, st)
    /\ job' = [job EXCEPT ![p][domain] = None]
    /\ db' = [db EXCEPT ![p] = d]
    /\ saved' = IF marks THEN [saved EXCEPT ![p] = d] ELSE saved
    /\ UNCHANGED <<held, seen, epoch, net, sent, nextId, left, early>>

(* A variant that leaves our_did alone once an accept won the race. *)
CreateSent_KeepsDid(d, j) ==
    IF d.rel[j.peer] = None \/ d.rel[j.peer].st # "RequestSent" THEN d
    ELSE WithTask([d EXCEPT !.rel[j.peer] = Rel(j.id, j.our, @.remote, @.st)],
                  Task(j.id, "RequestOut", j.peer, None))

(* RelationshipOutcome::apply, Create: the record gets the DID that was     *)
(* sent; only a request nobody answered yet gets its task.                  *)
CreateSent(d, j) ==
    IF d.rel[j.peer] = None THEN d
    ELSE IF d.rel[j.peer].st # "RequestSent" THEN [d EXCEPT !.rel[j.peer].our = j.our]
    ELSE WithTask([d EXCEPT !.rel[j.peer] = Rel(j.id, j.our, @.remote, @.st)],
                  Task(j.id, "RequestOut", j.peer, None))

ApplyCreate(p) ==
    LET j == job[p]["Relationship"]
        r == db[p].rel[j.peer]
    IN /\ InStage(p, "Relationship", "sent") /\ j.kind = "Create"
       /\ Outcome(p, "Relationship", "sent", CreateSent(db[p], j), r # None)
       /\ crossed' = IF r # None /\ r.task # j.id THEN crossed \cup {r.task} ELSE crossed
       /\ UNCHANGED spoiled

(* The send failed: the provisional record goes, if it is still waiting.    *)
ApplyCreateFailed(p) ==
    LET j == job[p]["Relationship"]
        r == db[p].rel[j.peer]
    IN /\ InStage(p, "Relationship", "failed") /\ j.kind = "Create"
       /\ Outcome(p, "Relationship", "failed",
                  IF r # None /\ r.st = "RequestSent" THEN [db[p] EXCEPT !.rel[j.peer] = None]
                  ELSE db[p], FALSE)
       /\ spoiled' = IF r # None THEN spoiled \cup {r.task} ELSE spoiled
       /\ UNCHANGED crossed

(* Ping and RequestVrc leave a task to wait on. *)
ApplyWaiting(p, kind, task) ==
    LET j == job[p]["Relationship"]
    IN /\ InStage(p, "Relationship", "sent") /\ j.kind = kind
       /\ Outcome(p, "Relationship", "sent",
                  WithTask(db[p], Task(j.id, task, j.peer, None)), TRUE)
       /\ UNCHANGED <<spoiled, crossed>>

ApplyRemove(p) ==
    LET j == job[p]["Relationship"]
    IN /\ InStage(p, "Relationship", "sent") /\ j.kind = "Remove"
       /\ Outcome(p, "Relationship", "sent", RemoveRel(db[p], j.peer), TRUE)
       /\ spoiled' = IF db[p].rel[j.peer] # None
                     THEN spoiled \cup {db[p].rel[j.peer].task} ELSE spoiled
       /\ UNCHANGED crossed

(* InboxOutcome::apply, AcceptRelationship: the record is made now. *)
ApplyAccept(p) ==
    LET j == job[p]["Inbox"]
        r == db[p].rel[j.peer]
    IN /\ InStage(p, "Inbox", "sent") /\ j.kind = "Accept"
       /\ Outcome(p, "Inbox", "sent",
                  WithoutTask([db[p] EXCEPT !.rel[j.peer] =
                                  Rel(j.id, j.our, j.theirs, "RequestAccepted")], j.id), TRUE)
       /\ spoiled' = IF r # None THEN spoiled \cup {r.task} ELSE spoiled
       /\ UNCHANGED crossed

(* A rejection, a VRC or its refusal went out: the task is done with.       *)
ApplyAnswered(p) ==
    LET j == job[p]["Inbox"]
    IN /\ InStage(p, "Inbox", "sent") /\ j.kind \in {"Reject", "IssueVrc", "RejectVrc"}
       /\ Outcome(p, "Inbox", "sent",
                  [WithoutTask(db[p], j.id) EXCEPT !.issued =
                      IF j.kind = "IssueVrc"
                      THEN @ \cup {[key |-> persona(j.peer), issuer |-> j.our]} ELSE @], TRUE)
       /\ UNCHANGED <<spoiled, crossed>>

(* Any other failed send only shows an error. *)
ApplyFailed(p, domain) ==
    /\ InStage(p, domain, "failed") /\ job[p][domain].kind # "Create"
    /\ Outcome(p, domain, "failed", db[p], FALSE)
    /\ UNCHANGED <<spoiled, crossed>>

(* The account exits cleanly and starts again: what was in flight is gone,  *)
(* what was never marked for saving too.                                    *)
JobThreads(p) == {job[p][m].id : m \in {n \in Domains : job[p][n] # None}}
HeldThreads(p) == {held[p][i].m.thid : i \in DOMAIN held[p]}

Restart(p) ==
    /\ Spend("restarts")
    /\ db' = [db EXCEPT ![p] = saved[p]]
    /\ job' = [job EXCEPT ![p] = [m \in Domains |-> None]]
    /\ held' = [held EXCEPT ![p] = <<>>]
    /\ seen' = [seen EXCEPT ![p] = {}]
    /\ epoch' = [epoch EXCEPT ![p] = @ + 1]
    /\ spoiled' = spoiled \cup JobThreads(p) \cup HeldThreads(p)
    /\ UNCHANGED <<saved, net, sent, nextId, early, crossed>>

-----------------------------------------------------------------------------
Inbound == \/ \E p \in Parties : \/ \E m \in net : Deliver(p, m)
                                 \/ Return(p) \/ CheckFails(p)
           \/ \E m \in net : Lose(m)
           \/ \E m \in sent : Redeliver(m)

User(p) ==
    \/ \E q \in Parties :
        \/ \E our \in {persona(p), RDid(p, nextId)} : SubmitRequest(p, q, our)
        \/ SubmitOver(p, q, "Ping", "pings")
        \/ SubmitOver(p, q, "RequestVrc", "vrcs")
        \/ SubmitRemove(p, q)
    \/ \E t \in db[p].tasks :
        \/ \E our \in {persona(p), RDid(p, t.id)} : AnswerRequest(p, t, "Accept", our)
        \/ AnswerRequest(p, t, "Reject", None)
        \/ \E kind \in {"IssueVrc", "RejectVrc"} : AnswerVrcRequest(p, t, kind)
        \/ AcceptVrc(p, t)
        \/ DropTasks(p, {t})
    \/ DropTasks(p, db[p].tasks)

Background(p) ==
    \/ \E domain \in Domains : \/ JobSends(p, domain) \/ JobFails(p, domain)
                               \/ JobPanics(p, domain) \/ ApplyFailed(p, domain)
    \/ ApplyCreate(p) \/ ApplyCreateFailed(p) \/ ApplyRemove(p)
    \/ ApplyWaiting(p, "Ping", "Ping") \/ ApplyWaiting(p, "RequestVrc", "VrcRequestOut")
    \/ ApplyAccept(p) \/ ApplyAnswered(p)

Next == Inbound \/ \E p \in Parties : User(p) \/ Background(p) \/ Restart(p)

Spec == Init /\ [][Next]_vars

-----------------------------------------------------------------------------
Ids == 0 .. nextId
Rels == [task : Ids, our : Dids, remote : Dids, st : States]
Kinds == {"RequestIn", "RequestOut", "VrcRequestIn", "VrcRequestOut", "VrcIssued", "Ping"}

(* Every variable keeps its type; the inbox holds one task per id, and only *)
(* peers it has a persona for.                                              *)
TypeOK ==
    /\ \A p \in Parties : \A d \in {db[p], saved[p]} :
        /\ d.rel \in [Parties -> Rels \cup {None}] /\ d.rel[p] = None
        /\ \A t \in d.tasks : t.kind \in Kinds /\ t.peer \in Parties \ {p}
        /\ \A t, u \in d.tasks : t.id = u.id => t = u
        /\ \A v \in d.issued \cup d.received : v.key \in Dids
    /\ net \subseteq sent
    /\ \A m \in sent : m.thid \in Ids /\ m.from \in Dids /\ m.to \in Dids
    /\ spoiled \cup early \cup crossed \subseteq Int

(* Nothing is under way. *)
Quiet ==
    /\ net = {}
    /\ \A p \in Parties : held[p] = <<>> /\ \A m \in Domains : job[p][m] = None

(* A handshake closes: when nothing is under way, no acceptance still waits *)
(* for its finalize, unless its thread was cut by a fault or by a user, or  *)
(* the finalize came before the acceptance was on record.  On records that  *)
(* keep their type.                                                         *)
HandshakeCloses ==
    /\ TypeOK
    /\ Quiet => \A p, q \in Parties :
         db[p].rel[q] # None /\ db[p].rel[q].st = "RequestAccepted"
             => db[p].rel[q].task \in spoiled \cup early

(* Both ends of an established relationship are in the same handshake, and  *)
(* each sends from the DID the other one listens for.                       *)
Creating(p, q) ==
    job[p]["Relationship"] # None /\ job[p]["Relationship"].kind = "Create"
    /\ job[p]["Relationship"].peer = q
Matches(p, q) ==
    LET a == db[p].rel[q]
        b == db[q].rel[p]
    IN  Established(db[p], q) /\ Established(db[q], p)
        /\ ~Creating(p, q) /\ ~Creating(q, p) /\ {a.task, b.task} \cap (spoiled \cup crossed) = {}
        => a.task = b.task /\ a.our = b.remote /\ a.remote = b.our
ChannelsMatch == \A p, q \in Parties : Matches(p, q)

(* No message ends or alters an established relationship: only the user's   *)
(* own jobs, or a restart, do.                                              *)
EstablishedSurvivesMessages ==
    [][\A p, q \in Parties :
        Established(db[p], q) /\ job'[p] = job[p] /\ epoch' = epoch
            => db'[p].rel[q] = db[p].rel[q]]_vars

(* Nobody waits for an answer that cannot come: when nothing is under way,  *)
(* a VRC request we wait on is in the peer's inbox, unless its thread was   *)
(* cut, or a message of it met a full inbox or a record that was not there. *)
VrcRequestsAnswered ==
    Quiet => \A p \in Parties : \A t \in db[p].tasks :
        t.kind = "VrcRequestOut" /\ t.id \notin spoiled \cup early =>
            \E u \in db[t.peer].tasks : u.id = t.id /\ u.kind = "VrcRequestIn"
=============================================================================
