---------------------------- MODULE RelationshipsProofs ----------------------------
(***************************************************************************)
(* Relationships, for any number of accounts, requests, faults, restarts   *)
(* and repeated messages: every handshake that is not cut closes, no       *)
(* message ends an established relationship, and no VRC request waits for  *)
(* nothing.                                                                *)
(***************************************************************************)
EXTENDS Relationships, TLAPS

(* What an account, a message and a job look like. *)
MsgKinds == {"request", "accept", "reject", "finalize", "vrcRequest", "vrc", "vrcReject", "ping", "pong"}
MsgType == [type : MsgKinds, thid : Nat, from : Dids, to : Dids, did : Dids \cup {None}, ep : Nat]
TaskType == [id : Int, kind : Kinds, peer : Parties, did : Dids \cup {None}]
VrcType == [key : Dids, issuer : Dids]
AccountType == [rel : [Parties -> RelType \cup {None}], tasks : SUBSET TaskType,
                issued : SUBSET VrcType, received : SUBSET VrcType]
HeldType == [m : MsgType, check : BOOLEAN]

GoodRel(r, p, q) == r # None => p # q /\ Owner(r.our) = p /\ Owner(r.remote) = q
GoodTask(t, p) ==
    /\ t.peer # p
    /\ t.kind = "RequestIn" => t.did \in Dids /\ Owner(t.did) = t.peer
    /\ IF t.kind = "VrcIssued" THEN t.did \in Dids ELSE t.id \in Nat
GoodAccount(d, p) ==
    /\ d \in AccountType
    /\ \A q \in Parties : GoodRel(d.rel[q], p, q)
    /\ \A t \in d.tasks : GoodTask(t, p)
    /\ \A t, u \in d.tasks : t.id = u.id => t = u

Handshake == {"request", "accept", "reject", "finalize"}
GoodMsg(m) ==
    /\ m \in MsgType
    /\ Owner(m.from) # Owner(m.to)
    /\ m.type \in Handshake => m.from = persona(Owner(m.from)) /\ m.to = persona(Owner(m.to))
    /\ m.type \in {"request", "accept"} => m.did \in Dids /\ Owner(m.did) = Owner(m.from)

NewKinds == {"Create", "Ping", "RequestVrc"}
AnswerKinds == {"Accept", "Reject", "IssueVrc", "RejectVrc"}
GoodJob(j, p) ==
    /\ j.peer # p
    /\ j.kind \notin {"Remove", "Reject"} => j.our \in Dids /\ Owner(j.our) = p
    /\ j.kind \notin {"Remove", "Reject", "Create"} => j.theirs \in Dids /\ Owner(j.theirs) = j.peer

AccountsTyped ==
    /\ db \in [Parties -> AccountType] /\ saved \in [Parties -> AccountType]
    /\ \A p \in Parties : GoodAccount(db[p], p) /\ GoodAccount(saved[p], p)
JobsTyped ==
    /\ job \in [Parties -> [Domains -> JobType \cup {None}]]
    /\ \A p \in Parties, m \in Domains : job[p][m] # None =>
         /\ GoodJob(job[p][m], p)
         /\ job[p][m].kind \in IF m = "Inbox" THEN AnswerKinds ELSE NewKinds \cup {"Remove"}
MessagesTyped ==
    /\ held \in [Parties -> Seq(HeldType)] /\ seen \in [Parties -> SUBSET sent]
    /\ \A p \in Parties : \A i \in 1..Len(held[p]) : held[p][i].m \in seen[p]
    /\ \A p \in Parties : \A m \in seen[p] : Owner(m.to) = p
    /\ net \subseteq sent /\ \A m \in sent : GoodMsg(m)
HistoryTyped ==
    /\ epoch \in [Parties -> Nat] /\ nextId \in Nat \ {0}
    /\ spoiled \subseteq Int /\ early \subseteq Int /\ crossed \subseteq Int
Typed == AccountsTyped /\ JobsTyped /\ MessagesTyped /\ HistoryTyped

-----------------------------------------------------------------------------
(* DIDs, and the parts of what is made of them. *)
LEMMA Personas ==
    ASSUME NEW p \in Parties
    PROVE  persona(p) \in Dids /\ Owner(persona(p)) = p
  BY DEF persona, Owner, Dids

LEMMA Owners ==
    ASSUME NEW did \in Dids PROVE Owner(did) \in Parties
  BY DEF Owner, Dids

LEMMA Minted ==
    ASSUME Typed, NEW p \in Parties, NEW id \in Nat
    PROVE  RDid(p, id) \in Dids /\ Owner(RDid(p, id)) = p
  BY DEF RDid, Owner, Dids, Typed, HistoryTyped

LEMMA NoneElse == None \notin Dids /\ None \notin RelType /\ None \notin JobType
  BY NoneIsNothingElse

LEMMA MsgParts ==
    ASSUME NEW p \in Parties, NEW type \in MsgKinds, NEW t \in Nat, NEW from \in Dids, NEW to \in Dids,
           NEW did \in Dids \cup {None}, HistoryTyped, NEW m, m = Msg(p, type, t, from, to, did)
    PROVE  /\ m \in MsgType /\ m.type = type /\ m.thid = t /\ m.from = from /\ m.to = to /\ m.did = did
  BY DEF Msg, MsgType, HistoryTyped

LEMMA RelParts ==
    ASSUME NEW t \in Nat, NEW our \in Dids, NEW remote \in Dids, NEW st \in States, NEW r, r = Rel(t, our, remote, st)
    PROVE  /\ r \in RelType /\ r # None
           /\ r.task = t /\ r.our = our /\ r.remote = remote /\ r.st = st
  BY NoneElse DEF Rel, RelType

LEMMA TaskParts ==
    ASSUME NEW id \in Int, NEW kind \in Kinds, NEW q \in Parties, NEW did \in Dids \cup {None},
           NEW t, t = Task(id, kind, q, did)
    PROVE  t \in TaskType /\ t.id = id /\ t.kind = kind /\ t.peer = q /\ t.did = did
  BY DEF Task, TaskType

LEMMA JobParts ==
    ASSUME NEW kind \in JobKinds, NEW q \in Parties, NEW id \in Nat, NEW our \in Dids \cup {None},
           NEW theirs \in Dids \cup {None}, NEW j, j = Job(kind, q, id, our, theirs)
    PROVE  /\ j \in JobType /\ j # None /\ j.kind = kind /\ j.peer = q /\ j.id = id
           /\ j.our = our /\ j.theirs = theirs /\ j.st = "run"
  BY NoneElse DEF Job, JobType

(* What becomes of an account. *)
LEMMA WithoutTaskParts ==
    ASSUME NEW d \in AccountType, NEW id, NEW e, e = WithoutTask(d, id)
    PROVE  /\ e \in AccountType /\ e.rel = d.rel /\ e.issued = d.issued /\ e.received = d.received
           /\ e.tasks = {t \in d.tasks : t.id # id}
  BY DEF WithoutTask, AccountType

LEMMA WithTaskParts ==
    ASSUME NEW d \in AccountType, NEW t \in TaskType, NEW e, e = WithTask(d, t)
    PROVE  /\ e \in AccountType /\ e.rel = d.rel /\ e.issued = d.issued /\ e.received = d.received
           /\ e.tasks = {x \in d.tasks : x.id # t.id} \cup {t}
  BY DEF WithTask, AccountType

LEMMA RemoveRelParts ==
    ASSUME NEW d \in AccountType, NEW q \in Parties, NEW e, e = RemoveRel(d, q)
    PROVE  e \in AccountType /\ e.rel = [d.rel EXCEPT ![q] = None] /\ e.tasks = d.tasks
  BY DEF RemoveRel, AccountType

LEMMA PutRelParts ==
    ASSUME NEW d \in AccountType, NEW q \in Parties, NEW r \in RelType \cup {None}, NEW e, e = [d EXCEPT !.rel[q] = r]
    PROVE  e \in AccountType /\ e.rel = [d.rel EXCEPT ![q] = r] /\ e.tasks = d.tasks
  BY DEF AccountType

LEMMA EstablishParts ==
    ASSUME NEW d \in AccountType, NEW q \in Parties, d.rel[q] \in RelType, NEW e, e = [d EXCEPT !.rel[q].st = "Established"]
    PROVE  /\ e \in AccountType /\ e.tasks = d.tasks
           /\ e.rel = [d.rel EXCEPT ![q] = Rel(d.rel[q].task, d.rel[q].our, d.rel[q].remote, "Established")]
  BY DEF AccountType, RelType, Rel, States

LEMMA AcceptedParts ==
    ASSUME NEW d \in AccountType, NEW q \in Parties, d.rel[q] \in RelType, NEW did \in Dids,
           NEW e, e = [d EXCEPT !.rel[q] = Rel(@.task, @.our, did, "Established")]
    PROVE  /\ e \in AccountType /\ e.tasks = d.tasks
           /\ e.rel = [d.rel EXCEPT ![q] = Rel(d.rel[q].task, d.rel[q].our, did, "Established")]
<1>1. e = [d EXCEPT !.rel[q] = Rel(d.rel[q].task, d.rel[q].our, did, "Established")]
  BY Zenon
<1>2. Rel(d.rel[q].task, d.rel[q].our, did, "Established") \in RelType
  BY DEF RelType, Rel, States
<1>3. \A r \in RelType \cup {None} : e = [d EXCEPT !.rel[q] = r] =>
        e \in AccountType /\ e.rel = [d.rel EXCEPT ![q] = r] /\ e.tasks = d.tasks
  BY DEF AccountType
<1> QED BY <1>1, <1>2, <1>3, Zenon

LEMMA ResentParts ==
    ASSUME NEW d \in AccountType, NEW q \in Parties, d.rel[q] \in RelType, NEW did \in Dids,
           NEW e, e = [d EXCEPT !.rel[q].our = did]
    PROVE  /\ e \in AccountType /\ e.tasks = d.tasks
           /\ e.rel = [d.rel EXCEPT ![q] = Rel(d.rel[q].task, did, d.rel[q].remote, d.rel[q].st)]
  BY DEF AccountType, RelType, Rel, States

LEMMA RenumberedParts ==
    ASSUME NEW d \in AccountType, NEW q \in Parties, d.rel[q] \in RelType, NEW did \in Dids, NEW id \in Nat,
           NEW e, e = [d EXCEPT !.rel[q] = Rel(id, did, @.remote, @.st)]
    PROVE  /\ e \in AccountType /\ e.tasks = d.tasks
           /\ e.rel = [d.rel EXCEPT ![q] = Rel(id, did, d.rel[q].remote, d.rel[q].st)]
<1>1. e = [d EXCEPT !.rel[q] = Rel(id, did, d.rel[q].remote, d.rel[q].st)]
  BY Zenon
<1>2. Rel(id, did, d.rel[q].remote, d.rel[q].st) \in RelType
  BY DEF RelType, Rel, States
<1>3. \A r \in RelType \cup {None} : e = [d EXCEPT !.rel[q] = r] =>
        e \in AccountType /\ e.rel = [d.rel EXCEPT ![q] = r] /\ e.tasks = d.tasks
  BY DEF AccountType
<1> QED BY <1>1, <1>2, <1>3, Zenon

-----------------------------------------------------------------------------
(* What a message finds, and what handling it does. *)
At(d, q, t, st) == d.rel[q] # None /\ d.rel[q].task = t /\ d.rel[q].st = st
Less(d, id) == {t \in d.tasks : t.id # id}
Free(d, id) == \A t \in d.tasks : t.id # id

LEMMA AwaitingIs ==
    ASSUME NEW p \in Parties, NEW d, GoodAccount(d, p), NEW m, GoodMsg(m), m.type \in Handshake,
           NEW st, NEW q, q = Owner(m.from)
    PROVE  q \in Parties /\ (awaiting(d, m, st) # {} <=> At(d, q, m.thid, st))
<1>1. q \in Parties /\ m.from = persona(q)
  BY Owners DEF GoodMsg, MsgType
<1>2. \A x \in Parties : persona(x) = m.from <=> x = q
  BY <1>1, Personas
<1> QED BY <1>1, <1>2 DEF awaiting, At, Known

LEMMA FoundIs ==
    ASSUME NEW p \in Parties, NEW d, GoodAccount(d, p), NEW m, GoodMsg(m), NEW q, q = Owner(m.from)
    PROVE  /\ q \in Parties /\ find_by_remote_did(d, m.from) \subseteq {q}
           /\ m.from = persona(q) /\ find_by_remote_did(d, m.from) = {} => d.rel[q] = None
<1>1. q \in Parties
  BY Owners DEF GoodMsg, MsgType
<1>2. ASSUME NEW x \in find_by_remote_did(d, m.from) PROVE x = q
  <2>1. x \in Parties /\ d.rel[x] # None /\ (d.rel[x].remote = m.from \/ persona(x) = m.from)
    BY DEF find_by_remote_did, Known
  <2> QED BY <2>1, Personas DEF GoodAccount, GoodRel
<1>3. d.rel[q] # None /\ m.from = persona(q) => q \in find_by_remote_did(d, m.from)
  BY <1>1 DEF find_by_remote_did, Known
<1> QED BY <1>1, <1>2, <1>3

LEMMA GoodLess ==
    ASSUME NEW p \in Parties, NEW d, GoodAccount(d, p), NEW id, NEW e, e = WithoutTask(d, id)
    PROVE  GoodAccount(e, p) /\ e.rel = d.rel /\ e.tasks = Less(d, id)
  BY WithoutTaskParts DEF GoodAccount, Less

LEMMA GoodMore ==
    ASSUME NEW p \in Parties, NEW d, GoodAccount(d, p), NEW t \in TaskType, GoodTask(t, p), NEW e, e = WithTask(d, t)
    PROVE  GoodAccount(e, p) /\ e.rel = d.rel /\ e.tasks = Less(d, t.id) \cup {t}
  BY WithTaskParts DEF GoodAccount, Less

LEMMA FreeLess == ASSUME NEW d, NEW id, Free(d, id) PROVE Less(d, id) = d.tasks
  BY DEF Free, Less

(* A new record put in the place of an account's. *)
LEMMA GoodPut ==
    ASSUME NEW p \in Parties, NEW d, GoodAccount(d, p), NEW q \in Parties, NEW r \in RelType \cup {None}, GoodRel(r, p, q),
           NEW e \in AccountType, e.rel = [d.rel EXCEPT ![q] = r], e.tasks = d.tasks
    PROVE  GoodAccount(e, p)
<1>1. \A x \in Parties : GoodRel(e.rel[x], p, x)
  BY DEF GoodAccount, AccountType
<1> QED BY <1>1 DEF GoodAccount

LEMMA OnRejectedDoes ==
    ASSUME NEW p \in Parties, NEW d, GoodAccount(d, p), NEW m, GoodMsg(m), m.type = "reject",
           NEW q, q = Owner(m.from), NEW e, e = OnRejected(d, m)
    PROVE  /\ GoodAccount(e, p)
           /\ IF At(d, q, m.thid, "RequestSent")
              THEN e.rel = [d.rel EXCEPT ![q] = None] /\ e.tasks = Less(d, m.thid) ELSE e = d
<1>1. q \in Parties /\ (awaiting(d, m, "RequestSent") # {} <=> At(d, q, m.thid, "RequestSent"))
  BY AwaitingIs DEF Handshake
<1>2. CASE At(d, q, m.thid, "RequestSent")
  <2>1. PICK c : c = RemoveRel(d, q)
    OBVIOUS
  <2>2. c \in AccountType /\ c.rel = [d.rel EXCEPT ![q] = None] /\ c.tasks = d.tasks
    BY <1>1, <2>1, RemoveRelParts DEF GoodAccount
  <2>3. GoodAccount(c, p)
    BY <1>1, <2>2, GoodPut DEF GoodRel
  <2>4. e = WithoutTask(c, m.thid)
    BY <1>1, <1>2, <2>1 DEF OnRejected
  <2> QED BY <1>2, <2>2, <2>3, <2>4, GoodLess DEF Less
<1>3. CASE ~At(d, q, m.thid, "RequestSent")
  BY <1>1, <1>3 DEF OnRejected
<1> QED BY <1>2, <1>3

LEMMA OnAcceptedDoes ==
    ASSUME NEW p \in Parties, NEW d, GoodAccount(d, p), NEW m, GoodMsg(m), m.type = "accept", NEW ok \in BOOLEAN,
           NEW q, q = Owner(m.from), NEW e, e = OnAccepted(d, m, ok)
    PROVE  /\ GoodAccount(e, p)
           /\ IF At(d, q, m.thid, "RequestSent") /\ ok
              THEN /\ e.rel = [d.rel EXCEPT ![q] = Rel(m.thid, d.rel[q].our, m.did, "Established")]
                   /\ e.tasks = Less(d, m.thid)
              ELSE e = d
<1>1. q \in Parties /\ (awaiting(d, m, "RequestSent") # {} <=> At(d, q, m.thid, "RequestSent"))
  BY AwaitingIs DEF Handshake
<1>2. CASE At(d, q, m.thid, "RequestSent") /\ ok
  <2>1. PICK c : c = [d EXCEPT !.rel[q] = Rel(@.task, @.our, m.did, "Established")]
    OBVIOUS
  <2>2. d \in AccountType /\ d.rel[q] \in RelType /\ m.did \in Dids /\ Owner(m.did) = q /\ d.rel[q].task = m.thid
        /\ p # q /\ Owner(d.rel[q].our) = p
    BY <1>1, <1>2 DEF At, GoodAccount, AccountType, GoodMsg, GoodRel
  <2>3. PICK r : r = Rel(m.thid, d.rel[q].our, m.did, "Established")
    OBVIOUS
  <2>4. c \in AccountType /\ c.tasks = d.tasks /\ c.rel = [d.rel EXCEPT ![q] = r]
    <3>1. c = [d EXCEPT !.rel[q] = Rel(d.rel[q].task, d.rel[q].our, m.did, "Established")]
      BY <2>1, Zenon
    <3>2. c = [d EXCEPT !.rel[q] = r]
      BY <2>2, <2>3, <3>1, Zenon
    <3>3. r \in RelType
      BY <2>2, <2>3, RelParts DEF RelType, States
    <3>4. \A x \in RelType \cup {None} : c = [d EXCEPT !.rel[q] = x] =>
            c \in AccountType /\ c.tasks = d.tasks /\ c.rel = [d.rel EXCEPT ![q] = x]
      BY <1>1, <2>2 DEF AccountType
    <3> QED BY <3>2, <3>3, <3>4, Zenon
  <2>5. r \in RelType /\ r.our = d.rel[q].our /\ r.remote = m.did
    BY <2>2, <2>3, RelParts DEF RelType, States
  <2>6. GoodAccount(c, p)
    BY <1>1, <2>2, <2>4, <2>5, GoodPut DEF GoodRel
  <2>7. e = WithoutTask(c, m.thid)
    BY <1>1, <1>2, <2>1 DEF OnAccepted
  <2>8. GoodAccount(e, p) /\ e.rel = c.rel /\ e.tasks = Less(d, m.thid)
    BY <2>4, <2>6, <2>7, GoodLess DEF Less
  <2> QED BY <1>2, <2>3, <2>4, <2>8, Zenon
<1>3. CASE ~(At(d, q, m.thid, "RequestSent") /\ ok)
  BY <1>1, <1>3 DEF OnAccepted
<1> QED BY <1>2, <1>3

LEMMA OnFinalizeDoes ==
    ASSUME NEW p \in Parties, NEW d, GoodAccount(d, p), NEW m, GoodMsg(m), m.type = "finalize",
           NEW q, q = Owner(m.from), NEW e, e = OnFinalize(d, m)
    PROVE  /\ GoodAccount(e, p)
           /\ IF At(d, q, m.thid, "RequestAccepted")
              THEN /\ e.rel = [d.rel EXCEPT ![q] = Rel(m.thid, d.rel[q].our, d.rel[q].remote, "Established")]
                   /\ e.tasks = Less(d, m.thid)
              ELSE e = d
<1>1. q \in Parties /\ (awaiting(d, m, "RequestAccepted") # {} <=> At(d, q, m.thid, "RequestAccepted"))
  BY AwaitingIs DEF Handshake
<1>2. CASE At(d, q, m.thid, "RequestAccepted")
  <2>1. PICK c : c = [d EXCEPT !.rel[q].st = "Established"]
    OBVIOUS
  <2>2. d \in AccountType /\ d.rel[q] \in RelType /\ d.rel[q].task = m.thid
        /\ p # q /\ Owner(d.rel[q].our) = p /\ Owner(d.rel[q].remote) = q
    BY <1>1, <1>2 DEF At, GoodAccount, AccountType, GoodRel
  <2>3. PICK r : r = Rel(m.thid, d.rel[q].our, d.rel[q].remote, "Established")
    OBVIOUS
  <2>4. c \in AccountType /\ c.tasks = d.tasks /\ c.rel = [d.rel EXCEPT ![q] = r]
    <3>1. c \in AccountType /\ c.tasks = d.tasks
          /\ c.rel = [d.rel EXCEPT ![q] = Rel(d.rel[q].task, d.rel[q].our, d.rel[q].remote, "Established")]
      BY <1>1, <2>1, <2>2 DEF AccountType, RelType, Rel, States
    <3> QED BY <2>2, <2>3, <3>1, Zenon
  <2>5. r \in RelType /\ r.our = d.rel[q].our /\ r.remote = d.rel[q].remote
    BY <2>2, <2>3, RelParts DEF RelType, States
  <2>6. GoodAccount(c, p)
    BY <1>1, <2>2, <2>4, <2>5, GoodPut DEF GoodRel
  <2>7. e = WithoutTask(c, m.thid)
    BY <1>1, <1>2, <2>1 DEF OnFinalize
  <2>8. GoodAccount(e, p) /\ e.rel = c.rel /\ e.tasks = Less(d, m.thid)
    BY <2>4, <2>6, <2>7, GoodLess DEF Less
  <2> QED BY <1>2, <2>3, <2>4, <2>8, Zenon
<1>3. CASE ~At(d, q, m.thid, "RequestAccepted")
  BY <1>1, <1>3 DEF OnFinalize
<1> QED BY <1>2, <1>3

LEMMA OnRequestDoes ==
    ASSUME NEW p \in Parties, NEW d, GoodAccount(d, p), NEW m, GoodMsg(m), m.type = "request", Owner(m.to) = p,
           NEW ok \in BOOLEAN, NEW q, q = Owner(m.from), NEW e, e = OnRequest(d, m, ok)
    PROVE  /\ GoodAccount(e, p)
           /\ \/ e = d
              \/ /\ d.rel[q] = None /\ Free(d, m.thid) /\ e.rel = d.rel
                 /\ \E t \in TaskType : /\ t.id = m.thid /\ t.kind = "RequestIn" /\ t.peer = q /\ t.did = m.did
                                        /\ e.tasks = d.tasks \cup {t}
<1>1. CASE relationship_request_admissible(d, m) /\ ok
  <2>1. PICK t : t = Task(m.thid, "RequestIn", q, m.did)
    OBVIOUS
  <2>2. q \in Parties /\ m.thid \in Nat /\ m.did \in Dids /\ Owner(m.did) = q /\ q # p /\ m.from = persona(q)
    BY Owners DEF GoodMsg, MsgType, Handshake
  <2>3. t \in TaskType /\ t.id = m.thid /\ t.kind = "RequestIn" /\ t.peer = q /\ t.did = m.did
    BY <2>1, <2>2, TaskParts DEF Kinds
  <2>4. GoodTask(t, p)
    BY <2>2, <2>3 DEF GoodTask
  <2>5. e = WithTask(d, t)
    BY <1>1, <2>1 DEF OnRequest
  <2>6. Free(d, m.thid) /\ find_by_remote_did(d, m.from) = {}
    BY <1>1 DEF relationship_request_admissible, check_task_capacity, Free
  <2>7. d.rel[q] = None
    BY <2>2, <2>6 DEF find_by_remote_did, Known
  <2>8. Less(d, t.id) = d.tasks
    BY <2>3, <2>6, FreeLess
  <2> QED BY <2>3, <2>4, <2>5, <2>6, <2>7, <2>8, GoodMore
<1>2. CASE ~(relationship_request_admissible(d, m) /\ ok)
  BY <1>2 DEF OnRequest
<1> QED BY <1>1, <1>2

LEMMA OnVrcRequestDoes ==
    ASSUME NEW p \in Parties, NEW d, GoodAccount(d, p), NEW m, GoodMsg(m), Owner(m.to) = p,
           NEW q, q = Owner(m.from), NEW e, e = OnVrcRequest(d, m)
    PROVE  /\ GoodAccount(e, p)
           /\ IF EstablishedSender(d, m) # {} /\ check_task_capacity(d, m.thid)
              THEN /\ e.rel = d.rel /\ Free(d, m.thid)
                   /\ \E t \in TaskType : /\ t.id = m.thid /\ t.kind = "VrcRequestIn" /\ t.peer = q
                                          /\ e.tasks = d.tasks \cup {t}
              ELSE e = d
<1>1. CASE EstablishedSender(d, m) # {} /\ check_task_capacity(d, m.thid)
  <2>1. PICK x : x = CHOOSE y \in EstablishedSender(d, m) : TRUE
    OBVIOUS
  <2>2. x = q /\ q \in Parties
    <3>1. x \in EstablishedSender(d, m)
      BY <1>1, <2>1
    <3> QED BY <3>1, FoundIs DEF EstablishedSender
  <2>3. PICK t : t = Task(m.thid, "VrcRequestIn", q, None)
    OBVIOUS
  <2>4. m.thid \in Nat /\ q # p
    BY DEF GoodMsg, MsgType
  <2>5. t \in TaskType /\ t.id = m.thid /\ t.kind = "VrcRequestIn" /\ t.peer = q
    BY <2>2, <2>3, <2>4, TaskParts DEF Kinds
  <2>6. GoodTask(t, p)
    BY <2>4, <2>5 DEF GoodTask
  <2>7. e = WithTask(d, t)
    BY <1>1, <2>1, <2>2, <2>3 DEF OnVrcRequest
  <2>8. Free(d, m.thid)
    BY <1>1 DEF check_task_capacity, Free
  <2>9. Less(d, t.id) = d.tasks
    BY <2>5, <2>8, FreeLess
  <2> QED BY <1>1, <2>5, <2>6, <2>7, <2>8, <2>9, GoodMore
<1>2. CASE ~(EstablishedSender(d, m) # {} /\ check_task_capacity(d, m.thid))
  BY <1>2 DEF OnVrcRequest
<1> QED BY <1>1, <1>2

LEMMA OnVrcIssuedDoes ==
    ASSUME NEW p \in Parties, NEW d, GoodAccount(d, p), NEW m, GoodMsg(m), Owner(m.to) = p, NEW ok \in BOOLEAN,
           NEW q, q = Owner(m.from), NEW e, e = OnVrcIssued(d, m, ok)
    PROVE  /\ GoodAccount(e, p)
           /\ IF vet_vrc_issued(d, m) # {} /\ ok
              THEN /\ e.rel = d.rel
                   /\ \A t \in e.tasks : t \in d.tasks \/ t.kind = "VrcIssued"
                   /\ \A t \in d.tasks : t \in e.tasks \/ (t.id = m.thid /\ OurVrcRequest(d, m, q))
                   /\ OurVrcRequest(d, m, q) => \A t \in e.tasks : t.id = m.thid => t.kind = "VrcIssued"
              ELSE e = d
<1>1. CASE vet_vrc_issued(d, m) # {} /\ ok
  <2>1. PICK x : x = CHOOSE r \in vet_vrc_issued(d, m) : TRUE
    OBVIOUS
  <2>2. x = q /\ q \in Parties
    <3>1. x \in EstablishedSender(d, m)
      BY <1>1, <2>1 DEF vet_vrc_issued
    <3> QED BY <3>1, FoundIs DEF EstablishedSender
  <2>3. m.thid \in Nat /\ m.from \in Dids /\ q # p
    BY DEF GoodMsg, MsgType
  <2>4. PICK id : id = IF OurVrcRequest(d, m, q) THEN m.thid ELSE -m.thid
    OBVIOUS
  <2>5. PICK c : c = IF OurVrcRequest(d, m, q) THEN WithoutTask(d, m.thid) ELSE d
    OBVIOUS
  <2>6. PICK t : t = Task(id, "VrcIssued", q, m.from)
    OBVIOUS
  <2>7. t \in TaskType /\ t.id = id /\ t.kind = "VrcIssued" /\ t.did = m.from /\ t.peer = q
    BY <2>2, <2>3, <2>4, <2>6, TaskParts DEF Kinds
  <2>8. GoodTask(t, p)
    BY <2>3, <2>7 DEF GoodTask
  <2>9. GoodAccount(c, p) /\ c.rel = d.rel /\ c.tasks = IF OurVrcRequest(d, m, q) THEN Less(d, m.thid) ELSE d.tasks
    BY <2>5, GoodLess
  <2>10. e = IF ~check_task_capacity(c, id) THEN c ELSE WithTask(c, t)
    BY <1>1, <2>1, <2>2, <2>4, <2>5, <2>6 DEF OnVrcIssued
  <2>11. CASE ~check_task_capacity(c, id)
    BY <1>1, <2>9, <2>10, <2>11 DEF Less
  <2>12. CASE check_task_capacity(c, id)
    <3>1. Free(c, id)
      BY <2>12 DEF check_task_capacity, Free
    <3>2. GoodAccount(e, p) /\ e.rel = c.rel /\ e.tasks = c.tasks \cup {t}
      BY <2>7, <2>8, <2>9, <2>10, <2>12, <3>1, FreeLess, GoodMore
    <3> QED BY <1>1, <2>7, <2>9, <3>2 DEF Less
  <2> QED BY <2>11, <2>12
<1>2. CASE ~(vet_vrc_issued(d, m) # {} /\ ok)
  BY <1>2 DEF OnVrcIssued
<1> QED BY <1>1, <1>2

LEMMA OnTrustPingDoes ==
    ASSUME NEW p \in Parties, NEW d, GoodAccount(d, p), NEW m, GoodMsg(m), Owner(m.to) = p,
           NEW q, q = Owner(m.from), NEW e, e = OnTrustPing(d, m)
    PROVE  /\ GoodAccount(e, p) /\ e.rel = d.rel /\ d.tasks \subseteq e.tasks
           /\ \A t \in e.tasks : t \in d.tasks \/ t.kind = "Ping"
<1>1. CASE find_by_remote_did(d, m.from) # {} /\ check_task_capacity(d, m.thid)
  <2>1. PICK x : x = CHOOSE y \in find_by_remote_did(d, m.from) : TRUE
    OBVIOUS
  <2>2. x = q /\ q \in Parties
    BY <1>1, <2>1, FoundIs
  <2>3. PICK t : t = Task(m.thid, "Ping", q, None)
    OBVIOUS
  <2>4. m.thid \in Nat /\ q # p
    BY DEF GoodMsg, MsgType
  <2>5. t \in TaskType /\ t.id = m.thid /\ t.kind = "Ping" /\ t.peer = q
    BY <2>2, <2>3, <2>4, TaskParts DEF Kinds
  <2>6. GoodTask(t, p)
    BY <2>4, <2>5 DEF GoodTask
  <2>7. e = WithTask(d, t)
    BY <1>1, <2>1, <2>2, <2>3 DEF OnTrustPing
  <2>8. Less(d, t.id) = d.tasks
    BY <1>1, <2>5, FreeLess DEF check_task_capacity, Free
  <2> QED BY <2>5, <2>6, <2>7, <2>8, GoodMore
<1>2. CASE ~(find_by_remote_did(d, m.from) # {} /\ check_task_capacity(d, m.thid))
  BY <1>2 DEF OnTrustPing
<1> QED BY <1>1, <1>2


-----------------------------------------------------------------------------
(* What the user's actions and the jobs' outcomes do to an account. *)
LEMMA SubmittedDoes ==
    ASSUME NEW p \in Parties, NEW d, GoodAccount(d, p), NEW q \in Parties, q # p, NEW r \in RelType,
           Owner(r.our) = p, Owner(r.remote) = q, NEW e, e = [d EXCEPT !.rel[q] = r]
    PROVE  GoodAccount(e, p) /\ e.rel = [d.rel EXCEPT ![q] = r] /\ e.tasks = d.tasks
<1>1. e \in AccountType /\ e.rel = [d.rel EXCEPT ![q] = r] /\ e.tasks = d.tasks
  BY DEF AccountType, GoodAccount
<1>2. \A x \in Parties : GoodRel(e.rel[x], p, x)
  BY <1>1 DEF GoodAccount, AccountType, GoodRel
<1> QED BY <1>1, <1>2 DEF GoodAccount

LEMMA RemovedDoes ==
    ASSUME NEW p \in Parties, NEW d, GoodAccount(d, p), NEW q \in Parties, NEW e, e = RemoveRel(d, q)
    PROVE  GoodAccount(e, p) /\ e.rel = [d.rel EXCEPT ![q] = None] /\ e.tasks = d.tasks
<1>1. e \in AccountType /\ e.rel = [d.rel EXCEPT ![q] = None] /\ e.tasks = d.tasks
  BY RemoveRelParts DEF GoodAccount
<1> QED BY <1>1, GoodPut DEF GoodRel

LEMMA ForgottenDoes ==
    ASSUME NEW p \in Parties, NEW d, GoodAccount(d, p), NEW q \in Parties, NEW e, e = [d EXCEPT !.rel[q] = None]
    PROVE  GoodAccount(e, p) /\ e.rel = [d.rel EXCEPT ![q] = None] /\ e.tasks = d.tasks
<1>1. e \in AccountType /\ e.rel = [d.rel EXCEPT ![q] = None] /\ e.tasks = d.tasks
  BY DEF AccountType, GoodAccount
<1> QED BY <1>1, GoodPut DEF GoodRel

LEMMA CreateSentDoes ==
    ASSUME NEW p \in Parties, NEW d, GoodAccount(d, p), NEW j \in JobType, NEW q, q = j.peer, q # p,
           j.our \in Dids, Owner(j.our) = p, NEW e, e = CreateSent(d, j)
    PROVE  /\ GoodAccount(e, p)
           /\ d.rel[q] = None => e = d
           /\ d.rel[q] # None /\ d.rel[q].st # "RequestSent" =>
                /\ e.rel = [d.rel EXCEPT ![q] = Rel(d.rel[q].task, j.our, d.rel[q].remote, d.rel[q].st)]
                /\ e.tasks = d.tasks
           /\ d.rel[q] # None /\ d.rel[q].st = "RequestSent" =>
                /\ e.rel = [d.rel EXCEPT ![q] = Rel(j.id, j.our, d.rel[q].remote, d.rel[q].st)]
                /\ \E t \in TaskType : /\ t.id = j.id /\ t.kind = "RequestOut" /\ t.peer = q
                                       /\ e.tasks = Less(d, j.id) \cup {t}
<1>0. q \in Parties /\ j.id \in Nat /\ d \in AccountType
  BY DEF JobType, GoodAccount
<1>1. CASE d.rel[q] = None
  BY <1>1 DEF CreateSent
<1>2. CASE d.rel[q] # None /\ d.rel[q].st # "RequestSent"
  <2>1. d.rel[q] \in RelType /\ Owner(d.rel[q].remote) = q
    BY <1>0, <1>2 DEF AccountType, GoodAccount, GoodRel
  <2>2. e = [d EXCEPT !.rel[q].our = j.our]
    BY <1>2 DEF CreateSent
  <2>3. PICK r : r = Rel(d.rel[q].task, j.our, d.rel[q].remote, d.rel[q].st)
    OBVIOUS
  <2>4. e \in AccountType /\ e.tasks = d.tasks /\ e.rel = [d.rel EXCEPT ![q] = r]
    BY <1>0, <2>1, <2>2, <2>3 DEF AccountType, RelType, Rel
  <2>5. r \in RelType /\ r.our = j.our /\ r.remote = d.rel[q].remote
    BY <2>1, <2>3 DEF Rel, RelType
  <2>6. GoodAccount(e, p)
    BY <1>0, <2>1, <2>4, <2>5, GoodPut DEF GoodRel
  <2> QED BY <1>2, <2>3, <2>4, <2>6
<1>3. CASE d.rel[q] # None /\ d.rel[q].st = "RequestSent"
  <2>1. d.rel[q] \in RelType /\ Owner(d.rel[q].remote) = q
    BY <1>0, <1>3 DEF AccountType, GoodAccount, GoodRel
  <2>2. PICK c : c = [d EXCEPT !.rel[q] = Rel(j.id, j.our, @.remote, @.st)]
    OBVIOUS
  <2>3. PICK r : r = Rel(j.id, j.our, d.rel[q].remote, d.rel[q].st)
    OBVIOUS
  <2>4. r \in RelType /\ r.our = j.our /\ r.remote = d.rel[q].remote
    BY <1>0, <2>1, <2>3 DEF Rel, RelType
  <2>5. c \in AccountType /\ c.tasks = d.tasks /\ c.rel = [d.rel EXCEPT ![q] = r]
    <3>1. c = [d EXCEPT !.rel[q] = Rel(j.id, j.our, d.rel[q].remote, d.rel[q].st)]
      BY <2>2, Zenon
    <3>2. c = [d EXCEPT !.rel[q] = r]
      BY <2>3, <3>1, Zenon
    <3>3. \A x \in RelType \cup {None} : c = [d EXCEPT !.rel[q] = x] =>
            c \in AccountType /\ c.tasks = d.tasks /\ c.rel = [d.rel EXCEPT ![q] = x]
      BY <1>0 DEF AccountType
    <3> QED BY <2>4, <3>2, <3>3, Zenon
  <2>6. GoodAccount(c, p)
    BY <1>0, <2>1, <2>4, <2>5, GoodPut DEF GoodRel
  <2>7. PICK t : t = Task(j.id, "RequestOut", q, None)
    OBVIOUS
  <2>8. t \in TaskType /\ t.id = j.id /\ t.kind = "RequestOut" /\ t.peer = q
    BY <1>0, <2>7, TaskParts DEF Kinds
  <2>9. e = WithTask(c, t)
    BY <1>3, <2>2, <2>7 DEF CreateSent
  <2>10. GoodTask(t, p)
    BY <1>0, <2>8 DEF GoodTask
  <2>11. GoodAccount(e, p) /\ e.rel = c.rel /\ e.tasks = Less(d, j.id) \cup {t}
    BY <2>5, <2>6, <2>8, <2>9, <2>10, GoodMore DEF Less
  <2> QED BY <1>3, <2>3, <2>5, <2>8, <2>11
<1> QED BY <1>1, <1>2, <1>3

LEMMA WaitingDoes ==
    ASSUME NEW p \in Parties, NEW d, GoodAccount(d, p), NEW id \in Nat, NEW kind \in {"Ping", "VrcRequestOut"},
           NEW q \in Parties, q # p, NEW e, e = WithTask(d, Task(id, kind, q, None))
    PROVE  /\ GoodAccount(e, p) /\ e.rel = d.rel
           /\ \E t \in TaskType : t.id = id /\ t.kind = kind /\ t.peer = q /\ e.tasks = Less(d, id) \cup {t}
<1>1. PICK t : t = Task(id, kind, q, None)
  OBVIOUS
<1>2. t \in TaskType /\ t.id = id /\ t.kind = kind /\ t.peer = q
  BY <1>1, TaskParts DEF Kinds
<1>3. GoodTask(t, p)
  BY <1>2 DEF GoodTask
<1> QED BY <1>1, <1>2, <1>3, GoodMore

LEMMA AcceptDoes ==
    ASSUME NEW p \in Parties, NEW d, GoodAccount(d, p), NEW q \in Parties, q # p, NEW r \in RelType,
           Owner(r.our) = p, Owner(r.remote) = q, NEW id, NEW e, e = WithoutTask([d EXCEPT !.rel[q] = r], id)
    PROVE  GoodAccount(e, p) /\ e.rel = [d.rel EXCEPT ![q] = r] /\ e.tasks = Less(d, id)
<1>1. PICK c : c = [d EXCEPT !.rel[q] = r]
  OBVIOUS
<1>2. GoodAccount(c, p) /\ c.rel = [d.rel EXCEPT ![q] = r] /\ c.tasks = d.tasks
  <2>1. c \in AccountType /\ c.rel = [d.rel EXCEPT ![q] = r] /\ c.tasks = d.tasks
    BY <1>1 DEF AccountType, GoodAccount
  <2>2. r \in RelType \cup {None} /\ GoodRel(r, p, q)
    BY DEF GoodRel
  <2> QED BY <2>1, <2>2, GoodPut
<1>3. e = WithoutTask(c, id)
  BY <1>1, Zenon
<1>4. GoodAccount(e, p) /\ e.rel = c.rel /\ e.tasks = Less(c, id)
  BY <1>2, <1>3, GoodLess
<1>5. Less(c, id) = Less(d, id)
  BY <1>2 DEF Less
<1> QED BY <1>2, <1>4, <1>5, Zenon

LEMMA FiledDoes ==
    ASSUME NEW p \in Parties, NEW d, GoodAccount(d, p), NEW id, NEW v \in SUBSET VrcType, NEW e,
           e = [WithoutTask(d, id) EXCEPT !.issued = v] \/ e = [WithoutTask(d, id) EXCEPT !.received = v]
    PROVE  GoodAccount(e, p) /\ e.rel = d.rel /\ e.tasks = Less(d, id)
<1>1. PICK c : c = WithoutTask(d, id)
  OBVIOUS
<1>2. GoodAccount(c, p) /\ c.rel = d.rel /\ c.tasks = Less(d, id)
  BY <1>1, GoodLess
<1>3. e \in AccountType /\ e.rel = c.rel /\ e.tasks = c.tasks
  BY <1>1, <1>2 DEF GoodAccount, AccountType
<1> QED BY <1>2, <1>3 DEF GoodAccount

LEMMA DroppedDoes ==
    ASSUME NEW p \in Parties, NEW d, GoodAccount(d, p), NEW ts, NEW e, e = [d EXCEPT !.tasks = @ \ ts]
    PROVE  GoodAccount(e, p) /\ e.rel = d.rel /\ e.tasks = d.tasks \ ts
<1>1. e \in AccountType /\ e.rel = d.rel /\ e.tasks = d.tasks \ ts
  BY DEF GoodAccount, AccountType
<1> QED BY <1>1 DEF GoodAccount

(* The handlers keep an account's form. *)
LEMMA HandledGood ==
    ASSUME NEW p \in Parties, NEW d, GoodAccount(d, p), NEW m, GoodMsg(m), Owner(m.to) = p, NEW ok \in BOOLEAN,
           NEW e, e = Handled(d, m, ok)
    PROVE  GoodAccount(e, p)
<1>1. CASE m.type = "reject"
  BY <1>1, OnRejectedDoes DEF Handled
<1>2. CASE m.type = "accept"
  BY <1>2, OnAcceptedDoes DEF Handled
<1>3. CASE m.type = "finalize"
  BY <1>3, OnFinalizeDoes DEF Handled
<1>4. CASE m.type = "request"
  BY <1>4, OnRequestDoes DEF Handled
<1>5. CASE m.type = "vrcRequest"
  BY <1>5, OnVrcRequestDoes DEF Handled
<1>6. CASE m.type = "vrcReject"
  BY <1>6, GoodLess DEF Handled, OnVrcRequestRejected
<1>7. CASE m.type = "vrc"
  BY <1>7, OnVrcIssuedDoes DEF Handled
<1>8. CASE m.type = "ping"
  BY <1>8, OnTrustPingDoes DEF Handled
<1>9. CASE m.type = "pong"
  BY <1>9, GoodLess DEF Handled
<1> QED BY <1>1, <1>2, <1>3, <1>4, <1>5, <1>6, <1>7, <1>8, <1>9 DEF GoodMsg, MsgType, MsgKinds

-----------------------------------------------------------------------------
(* What is sent. *)
LEMMA MsgGood ==
    ASSUME HistoryTyped, NEW p \in Parties, NEW type \in MsgKinds, NEW t \in Nat, NEW from \in Dids, NEW to \in Dids,
           NEW did \in Dids \cup {None}, Owner(from) = p, Owner(to) # p,
           type \in Handshake => from = persona(p) /\ to = persona(Owner(to)),
           type \in {"request", "accept"} => did \in Dids /\ Owner(did) = p,
           NEW x, x = Msg(p, type, t, from, to, did)
    PROVE  GoodMsg(x) /\ x.type = type /\ x.thid = t /\ x.from = from /\ x.to = to /\ x.did = did
<1>1. x \in MsgType /\ x.type = type /\ x.thid = t /\ x.from = from /\ x.to = to /\ x.did = did
  BY MsgParts
<1> QED BY <1>1 DEF GoodMsg

(* The type of the message a job sends. *)
SentBy(kind, type) ==
    \/ kind = "Create" /\ type = "request"
    \/ kind = "Accept" /\ type = "accept"
    \/ kind = "Reject" /\ type = "reject"
    \/ kind = "Ping" /\ type = "ping"
    \/ kind = "RequestVrc" /\ type = "vrcRequest"
    \/ kind = "IssueVrc" /\ type = "vrc"
    \/ kind = "RejectVrc" /\ type = "vrcReject"

LEMMA JobMessageIs ==
    ASSUME HistoryTyped, NEW p \in Parties, NEW j \in JobType, GoodJob(j, p), NEW S, S = JobMessage(p, j)
    PROVE  /\ \A x \in S :
                /\ GoodMsg(x) /\ x.thid = j.id /\ Owner(x.from) = p /\ Owner(x.to) = j.peer
                /\ SentBy(j.kind, x.type) /\ (x.type \in {"request", "accept"} => x.did = j.our)
           /\ j.kind # "Remove" => \E x \in S : TRUE
           /\ j.kind = "Remove" => S = {}
           /\ \A x, y \in S : x = y
<1>0. j.id \in Nat /\ j.peer \in Parties /\ j.peer # p /\ j.kind \in JobKinds /\ j.our \in Dids \cup {None}
  BY DEF JobType, GoodJob
<1>00. persona(p) \in Dids /\ Owner(persona(p)) = p /\ persona(j.peer) \in Dids /\ Owner(persona(j.peer)) = j.peer
  BY <1>0, Personas
<1>1. CASE j.kind = "Create"
  <2>1. PICK x : x = Msg(p, "request", j.id, persona(p), persona(j.peer), j.our)
    OBVIOUS
  <2>2. S = {x}
    BY <1>1, <2>1 DEF JobMessage
  <2>3. GoodMsg(x) /\ x.type = "request" /\ x.thid = j.id /\ x.from = persona(p) /\ x.to = persona(j.peer) /\ x.did = j.our
    BY <1>0, <1>00, <1>1, <2>1, MsgGood DEF MsgKinds, GoodJob, Handshake
  <2> QED BY <1>00, <1>1, <2>2, <2>3 DEF SentBy
<1>2. CASE j.kind = "Accept"
  <2>1. PICK x : x = Msg(p, "accept", j.id, persona(p), persona(j.peer), j.our)
    OBVIOUS
  <2>2. S = {x}
    BY <1>2, <2>1 DEF JobMessage
  <2>3. j.our \in Dids /\ Owner(j.our) = p
    BY <1>2 DEF GoodJob
  <2>4. GoodMsg(x) /\ x.type = "accept" /\ x.thid = j.id /\ x.from = persona(p) /\ x.to = persona(j.peer) /\ x.did = j.our
    BY <1>0, <1>00, <2>1, <2>3, MsgGood DEF MsgKinds, Handshake
  <2> QED BY <1>00, <1>2, <2>2, <2>4 DEF SentBy
<1>3. CASE j.kind = "Reject"
  <2>1. PICK x : x = Msg(p, "reject", j.id, persona(p), persona(j.peer), None)
    OBVIOUS
  <2>2. S = {x}
    BY <1>3, <2>1 DEF JobMessage
  <2>3. GoodMsg(x) /\ x.type = "reject" /\ x.thid = j.id /\ x.from = persona(p) /\ x.to = persona(j.peer)
    BY <1>0, <1>00, <1>3, <2>1, MsgGood DEF MsgKinds, GoodJob, Handshake
  <2> QED BY <1>00, <1>3, <2>2, <2>3 DEF SentBy
<1>4. CASE j.kind \in {"Ping", "RequestVrc", "IssueVrc", "RejectVrc"}
  <2>1. PICK type : SentBy(j.kind, type)
    BY <1>4 DEF SentBy
  <2>2. PICK x : x = Msg(p, type, j.id, j.our, j.theirs, None)
    OBVIOUS
  <2>3. S = {x} /\ type \in {"ping", "vrcRequest", "vrc", "vrcReject"}
    BY <1>4, <2>1, <2>2 DEF JobMessage, SentBy
  <2>4. j.our \in Dids /\ Owner(j.our) = p /\ j.theirs \in Dids /\ Owner(j.theirs) = j.peer
    BY <1>4 DEF GoodJob
  <2>5. GoodMsg(x) /\ x.type = type /\ x.thid = j.id /\ x.from = j.our /\ x.to = j.theirs
    BY <1>0, <2>2, <2>3, <2>4, MsgGood DEF MsgKinds, Handshake
  <2> QED BY <1>4, <2>1, <2>3, <2>4, <2>5
<1>5. CASE j.kind = "Remove"
  BY <1>5 DEF JobMessage
<1> QED BY <1>0, <1>1, <1>2, <1>3, <1>4, <1>5 DEF JobKinds

LEMMA RepliesAre ==
    ASSUME HistoryTyped, NEW p \in Parties, NEW d, GoodAccount(d, p), NEW m, GoodMsg(m), Owner(m.to) = p,
           NEW ok \in BOOLEAN, NEW S, S = Replies(p, d, m, ok)
    PROVE  /\ \A x \in S :
                /\ GoodMsg(x) /\ x.thid = m.thid /\ Owner(x.from) = p /\ x.to = m.from
                /\ \/ /\ x.type = "finalize" /\ m.type = "accept" /\ x.from = m.to
                      /\ ok /\ At(d, Owner(m.from), m.thid, "RequestSent")
                   \/ x.type = "pong" /\ m.type = "ping"
           /\ m.type = "accept" /\ ok /\ At(d, Owner(m.from), m.thid, "RequestSent") =>
                \E x \in S : x.type = "finalize"
<1>0. /\ m.thid \in Nat /\ m.from \in Dids /\ m.to \in Dids /\ Owner(m.from) # p
      /\ m.type \in Handshake => m.from = persona(Owner(m.from)) /\ m.to = persona(p)
  BY DEF GoodMsg, MsgType
<1>1. CASE m.type = "accept" /\ ok /\ awaiting(d, m, "RequestSent") # {}
  <2>1. PICK x : x = Msg(p, "finalize", m.thid, persona(p), m.from, None)
    OBVIOUS
  <2>2. S = {x}
    BY <1>1, <2>1 DEF Replies
  <2>3. GoodMsg(x) /\ x.type = "finalize" /\ x.thid = m.thid /\ x.from = persona(p) /\ x.to = m.from
    BY <1>0, <1>1, <2>1, Personas, MsgGood DEF MsgKinds, Handshake
  <2>4. At(d, Owner(m.from), m.thid, "RequestSent")
    BY <1>1, AwaitingIs DEF Handshake
  <2> QED BY <1>0, <1>1, <2>2, <2>3, <2>4, Personas DEF Handshake
<1>2. CASE m.type = "ping"
  <2>1. PICK x : x = Msg(p, "pong", m.thid, m.to, m.from, None)
    OBVIOUS
  <2>2. S = {x}
    BY <1>2, <2>1 DEF Replies
  <2>3. GoodMsg(x) /\ x.type = "pong" /\ x.thid = m.thid /\ x.from = m.to /\ x.to = m.from
    BY <1>0, <2>1, MsgGood DEF MsgKinds, Handshake
  <2> QED BY <1>2, <2>2, <2>3
<1>3. CASE m.type # "ping" /\ ~(m.type = "accept" /\ ok /\ awaiting(d, m, "RequestSent") # {})
  <2>1. S = {}
    BY <1>3 DEF Replies
  <2>2. m.type = "accept" => (awaiting(d, m, "RequestSent") # {} <=> At(d, Owner(m.from), m.thid, "RequestSent"))
    BY AwaitingIs DEF Handshake
  <2> QED BY <1>3, <2>1, <2>2
<1> QED BY <1>1, <1>2, <1>3

-----------------------------------------------------------------------------
(* Every variable keeps its type. *)
Becomes(p, e) ==
    /\ db' = [db EXCEPT ![p] = e]
    /\ saved' = [saved EXCEPT ![p] = e] \/ (saved' = saved /\ e.tasks = db[p].tasks)

LEMMA BecomesTyped ==
    ASSUME AccountsTyped, NEW p \in Parties, NEW e, GoodAccount(e, p), Becomes(p, e)
    PROVE  AccountsTyped' /\ db'[p] = e /\ \A c \in Parties : c # p => db'[c] = db[c]
<1>1. e \in AccountType
  BY DEF GoodAccount
<1> QED BY <1>1 DEF AccountsTyped, Becomes

Holds(p, domain, j) == job' = [job EXCEPT ![p][domain] = j]
LEMMA HoldsTyped ==
    ASSUME JobsTyped, NEW p \in Parties, NEW domain \in Domains, NEW j, Holds(p, domain, j),
           j = None \/ (j \in JobType /\ GoodJob(j, p) /\
                        j.kind \in IF domain = "Inbox" THEN AnswerKinds ELSE NewKinds \cup {"Remove"})
    PROVE  /\ JobsTyped' /\ job'[p][domain] = j
           /\ \A c \in Parties, m \in Domains : c # p \/ m # domain => job'[c][m] = job[c][m]
<1>1. job' \in [Parties -> [Domains -> JobType \cup {None}]]
  BY DEF JobsTyped, Holds
<1>2. job'[p][domain] = j /\ \A c \in Parties, m \in Domains : c # p \/ m # domain => job'[c][m] = job[c][m]
  BY DEF JobsTyped, Holds
<1>3. \A c \in Parties, m \in Domains : job'[c][m] # None =>
         /\ GoodJob(job'[c][m], c)
         /\ job'[c][m].kind \in IF m = "Inbox" THEN AnswerKinds ELSE NewKinds \cup {"Remove"}
  BY <1>2 DEF JobsTyped
<1> QED BY <1>1, <1>2, <1>3 DEF JobsTyped

(* A job that goes on: only its stage changes. *)
LEMMA StageIs ==
    ASSUME JobsTyped, NEW p \in Parties, NEW domain \in Domains, job[p][domain] # None,
           NEW st \in {"sent", "failed"}, job' = [job EXCEPT ![p][domain].st = st]
    PROVE  \E k \in JobType :
             /\ Holds(p, domain, k) /\ k.st = st
             /\ k.kind = job[p][domain].kind /\ k.peer = job[p][domain].peer /\ k.id = job[p][domain].id
             /\ k.our = job[p][domain].our /\ k.theirs = job[p][domain].theirs
<1>1. job[p][domain] \in JobType
  BY DEF JobsTyped
<1>2. PICK k : k = [job[p][domain] EXCEPT !.st = st]
  OBVIOUS
<1>3. /\ k \in JobType /\ k.st = st
      /\ k.kind = job[p][domain].kind /\ k.peer = job[p][domain].peer /\ k.id = job[p][domain].id
      /\ k.our = job[p][domain].our /\ k.theirs = job[p][domain].theirs
  BY <1>1, <1>2 DEF JobType
<1>4. Holds(p, domain, k)
  BY <1>2, Zenon DEF Holds
<1> QED BY <1>3, <1>4

Sends(S) == net' = net \cup S /\ sent' = sent \cup S

LEMMA SendsTyped ==
    ASSUME MessagesTyped, NEW S, Sends(S), \A x \in S : GoodMsg(x), UNCHANGED <<held, seen>>
    PROVE  MessagesTyped'
  BY DEF MessagesTyped, Sends

LEMMA SameMessages == MessagesTyped /\ UNCHANGED <<held, seen, net, sent>> => MessagesTyped'
  BY DEF MessagesTyped
LEMMA SameJobs == JobsTyped /\ job' = job => JobsTyped'
  BY DEF JobsTyped
LEMMA SameAccounts == AccountsTyped /\ UNCHANGED <<db, saved>> => AccountsTyped'
  BY DEF AccountsTyped

LEMMA RelThere ==
    ASSUME AccountsTyped, NEW p \in Parties, NEW q \in Parties, db[p].rel[q] # None
    PROVE  /\ db[p].rel[q] \in RelType /\ p # q
           /\ Owner(db[p].rel[q].our) = p /\ Owner(db[p].rel[q].remote) = q
           /\ db[p].rel[q].our \in Dids /\ db[p].rel[q].remote \in Dids /\ db[p].rel[q].task \in Nat
<1>1. GoodAccount(db[p], p)
  BY DEF AccountsTyped
<1>2. db[p].rel[q] \in RelType /\ GoodRel(db[p].rel[q], p, q)
  BY <1>1 DEF GoodAccount, AccountType
<1> QED BY <1>2 DEF GoodRel, RelType

LEMMA JobThere ==
    ASSUME JobsTyped, NEW p \in Parties, NEW domain \in Domains, job[p][domain] # None, NEW j, j = job[p][domain]
    PROVE  /\ j \in JobType /\ GoodJob(j, p) /\ j.peer \in Parties /\ j.peer # p /\ j.id \in Nat
           /\ j.kind \notin {"Remove", "Reject"} => j.our \in Dids /\ Owner(j.our) = p
           /\ j.kind \notin {"Remove", "Reject", "Create"} => j.theirs \in Dids /\ Owner(j.theirs) = j.peer
           /\ domain = "Inbox" => j.kind \in AnswerKinds
           /\ domain = "Relationship" => j.kind \in NewKinds \cup {"Remove"}
<1>1. j \in JobType /\ GoodJob(j, p) /\ j.kind \in IF domain = "Inbox" THEN AnswerKinds ELSE NewKinds \cup {"Remove"}
  BY DEF JobsTyped
<1> QED BY <1>1 DEF GoodJob, JobType

LEMMA TaskThere ==
    ASSUME AccountsTyped, NEW p \in Parties, NEW t \in db[p].tasks
    PROVE  /\ t.id \in Int /\ t.peer \in Parties /\ t.peer # p /\ t.kind \in Kinds
           /\ t.kind # "VrcIssued" => t.id \in Nat
           /\ t.kind = "VrcIssued" => t.did \in Dids
           /\ t.kind = "RequestIn" => t.did \in Dids /\ Owner(t.did) = t.peer
<1>1. GoodAccount(db[p], p)
  BY DEF AccountsTyped
<1>2. t \in TaskType /\ GoodTask(t, p)
  BY <1>1 DEF GoodAccount, AccountType
<1> QED BY <1>2 DEF GoodTask, TaskType

LEMMA AnswersAreAnswers == AnswerKinds \subseteq JobKinds /\ NewKinds \cup {"Remove"} \subseteq JobKinds
  BY DEF AnswerKinds, NewKinds, JobKinds

-----------------------------------------------------------------------------
(* What each of an account's own steps does. *)
OthersSame(p) == \A c \in Parties : c # p => db'[c] = db[c]
JobsElse(p, domain) == \A c \in Parties, m \in Domains : c # p \/ m # domain => job'[c][m] = job[c][m]
Unsent == UNCHANGED <<held, seen, net, sent>>

LEMMA SubmitRequestIs ==
    ASSUME Typed, NEW p \in Parties, NEW q \in Parties, NEW our \in {persona(p), RDid(p, nextId)}, SubmitRequest(p, q, our)
    PROVE  /\ Typed' /\ q # p /\ ~Established(db[p], q) /\ job[p]["Relationship"] = None
           /\ \E r \in RelType :
                /\ r.task = nextId /\ r.our = persona(p) /\ r.remote = persona(q) /\ r.st = "RequestSent"
                /\ db'[p].rel = [db[p].rel EXCEPT ![q] = r]
           /\ db'[p].tasks = db[p].tasks /\ OthersSame(p) /\ saved' = saved
           /\ LET j == job'[p]["Relationship"] IN
                j # None /\ j.kind = "Create" /\ j.peer = q /\ j.id = nextId /\ j.our = our /\ j.st = "run"
           /\ JobsElse(p, "Relationship")
           /\ nextId' = nextId + 1 /\ Unsent /\ UNCHANGED <<epoch, early, crossed>>
           /\ spoiled' = IF db[p].rel[q] = None THEN spoiled ELSE spoiled \cup {db[p].rel[q].task}
<1>1. PICK r : r = Rel(nextId, persona(p), persona(q), "RequestSent")
  OBVIOUS
<1>2. nextId \in Nat /\ our \in Dids /\ Owner(our) = p /\ q # p
  BY Personas, Minted DEF Typed, HistoryTyped, SubmitRequest
<1>3. r \in RelType /\ r.task = nextId /\ r.our = persona(p) /\ r.remote = persona(q) /\ r.st = "RequestSent"
  BY <1>1, <1>2, Personas, RelParts DEF States
<1>4. PICK e : e = [db[p] EXCEPT !.rel[q] = r]
  OBVIOUS
<1>5. GoodAccount(e, p) /\ e.rel = [db[p].rel EXCEPT ![q] = r] /\ e.tasks = db[p].tasks
  <2>1. GoodAccount(db[p], p) /\ db[p] \in AccountType
    BY DEF Typed, AccountsTyped
  <2>2. e \in AccountType /\ e.rel = [db[p].rel EXCEPT ![q] = r] /\ e.tasks = db[p].tasks
    BY <1>3, <1>4, <2>1 DEF AccountType
  <2>3. r \in RelType \cup {None} /\ GoodRel(r, p, q)
    BY <1>2, <1>3, Personas DEF GoodRel
  <2> QED BY <2>1, <2>2, <2>3, GoodPut
<1>6. Becomes(p, e)
  <2>1. db' = [db EXCEPT ![p] = e]
    BY <1>1, <1>4, Zenon DEF SubmitRequest
  <2> QED BY <1>5, <2>1 DEF SubmitRequest, Becomes
<1>7. AccountsTyped' /\ db'[p] = e /\ OthersSame(p)
  BY <1>5, <1>6, BecomesTyped DEF Typed, OthersSame
<1>8. PICK j : j = Job("Create", q, nextId, our, None)
  OBVIOUS
<1>9. /\ j \in JobType /\ j # None /\ j.kind = "Create" /\ j.peer = q /\ j.id = nextId /\ j.our = our /\ j.st = "run"
  BY <1>2, <1>8, JobParts, AnswersAreAnswers DEF NewKinds
<1>10. GoodJob(j, p) /\ j.kind \in NewKinds
  BY <1>2, <1>9 DEF GoodJob, NewKinds
<1>11. Holds(p, "Relationship", j)
  BY <1>8 DEF SubmitRequest, Claim, Holds
<1>12. JobsTyped' /\ job'[p]["Relationship"] = j /\ JobsElse(p, "Relationship")
  BY <1>9, <1>10, <1>11, HoldsTyped DEF Typed, JobsElse, Domains
<1>13. /\ nextId' = nextId + 1 /\ Unsent /\ UNCHANGED <<epoch, early, crossed>> /\ saved' = saved
       /\ ~Established(db[p], q) /\ job[p]["Relationship"] = None
       /\ spoiled' = IF db[p].rel[q] = None THEN spoiled ELSE spoiled \cup {db[p].rel[q].task}
  BY DEF SubmitRequest, Unsent, Claim
<1>14. MessagesTyped'
  BY <1>13, SameMessages DEF Typed, Unsent
<1>15. HistoryTyped'
  <2>1. db[p].rel[q] # None => db[p].rel[q].task \in Nat
    BY RelThere DEF Typed
  <2> QED BY <1>2, <1>13, <2>1 DEF Typed, HistoryTyped
<1> QED BY <1>2, <1>3, <1>5, <1>7, <1>9, <1>12, <1>13, <1>14, <1>15 DEF Typed

(* A ping, a VRC request or a removal begins. *)
LEMMA SubmitIs ==
    ASSUME Typed, NEW p \in Parties, NEW q \in Parties,
           \/ SubmitOver(p, q, "Ping", "pings") \/ SubmitOver(p, q, "RequestVrc", "vrcs") \/ SubmitRemove(p, q)
    PROVE  /\ Typed' /\ job[p]["Relationship"] = None /\ UNCHANGED <<db, saved>>
           /\ LET j == job'[p]["Relationship"] IN
                /\ j # None /\ j.peer = q /\ j.st = "run" /\ j.kind # "Create"
                /\ j.kind \in NewKinds => j.id = nextId /\ nextId' = nextId + 1
                /\ j.kind \notin NewKinds => j.id = 0 /\ nextId' = nextId
           /\ JobsElse(p, "Relationship") /\ Unsent /\ UNCHANGED <<epoch, spoiled, early, crossed>>
<1>1. PICK kind \in {"Ping", "RequestVrc", "Remove"} :
        \/ kind = "Ping" /\ SubmitOver(p, q, "Ping", "pings")
        \/ kind = "RequestVrc" /\ SubmitOver(p, q, "RequestVrc", "vrcs")
        \/ kind = "Remove" /\ SubmitRemove(p, q)
  BY Zenon
<1>2. db[p].rel[q] # None
  BY <1>1 DEF SubmitOver, SubmitRemove
<1>3. /\ db[p].rel[q].our \in Dids /\ Owner(db[p].rel[q].our) = p /\ p # q
      /\ db[p].rel[q].remote \in Dids /\ Owner(db[p].rel[q].remote) = q /\ nextId \in Nat \ {0}
  BY <1>2, RelThere DEF Typed, HistoryTyped
<1>4. PICK id, our, theirs :
        IF kind = "Remove" THEN id = 0 /\ our = None /\ theirs = None
        ELSE id = nextId /\ our = db[p].rel[q].our /\ theirs = db[p].rel[q].remote
  BY Zenon
<1>5. PICK j : j = Job(kind, q, id, our, theirs)
  OBVIOUS
<1>6. id \in Nat /\ our \in Dids \cup {None} /\ theirs \in Dids \cup {None} /\ kind \in JobKinds
  BY <1>3, <1>4 DEF JobKinds
<1>7. /\ j \in JobType /\ j # None /\ j.kind = kind /\ j.peer = q /\ j.id = id
      /\ j.our = our /\ j.theirs = theirs /\ j.st = "run"
  BY <1>5, <1>6, JobParts
<1>8. GoodJob(j, p) /\ j.kind \in NewKinds \cup {"Remove"}
  BY <1>1, <1>3, <1>4, <1>7 DEF GoodJob, NewKinds
<1>9. Holds(p, "Relationship", j) /\ job[p]["Relationship"] = None
  BY <1>1, <1>4, <1>5 DEF SubmitOver, SubmitRemove, Claim, Holds
<1>10. JobsTyped' /\ job'[p]["Relationship"] = j /\ JobsElse(p, "Relationship")
  BY <1>7, <1>8, <1>9, HoldsTyped DEF Typed, JobsElse, Domains
<1>11. /\ UNCHANGED <<db, saved, epoch, spoiled, early, crossed>> /\ Unsent
       /\ nextId' = IF kind = "Remove" THEN nextId ELSE nextId + 1
  BY <1>1 DEF SubmitOver, SubmitRemove, Unsent, ghosts
<1>12. AccountsTyped' /\ MessagesTyped' /\ HistoryTyped'
  BY <1>3, <1>11, SameAccounts, SameMessages DEF Typed, HistoryTyped, Unsent
<1> QED BY <1>1, <1>4, <1>7, <1>9, <1>10, <1>11, <1>12 DEF Typed, NewKinds

(* The task an inbox job answers, by the job's kind. *)
AnswersTask(kind, t) ==
    \/ kind \in {"Accept", "Reject"} /\ t.kind = "RequestIn"
    \/ kind \in {"IssueVrc", "RejectVrc"} /\ t.kind = "VrcRequestIn"

LEMMA AnswerIs ==
    ASSUME Typed, NEW p \in Parties, NEW t \in db[p].tasks,
           \/ \E our \in {persona(p), RDid(p, t.id)} : AnswerRequest(p, t, "Accept", our)
           \/ AnswerRequest(p, t, "Reject", None)
           \/ \E kind \in {"IssueVrc", "RejectVrc"} : AnswerVrcRequest(p, t, kind)
    PROVE  /\ Typed' /\ job[p]["Inbox"] = None /\ UNCHANGED <<db, saved, nextId>>
           /\ LET j == job'[p]["Inbox"] IN
                /\ j # None /\ j.peer = t.peer /\ j.id = t.id /\ j.st = "run"
                /\ AnswersTask(j.kind, t) /\ (j.kind = "Accept" => j.theirs = t.did)
           /\ JobsElse(p, "Inbox") /\ Unsent /\ UNCHANGED <<epoch, spoiled, early, crossed>>
<1> DEFINE Q(kind, our, theirs) ==
        /\ Holds(p, "Inbox", Job(kind, t.peer, t.id, our, theirs)) /\ job[p]["Inbox"] = None
        /\ AnswersTask(kind, t)
        /\ kind \in {"Accept", "Reject"} => theirs = t.did
        /\ kind = "Accept" => our \in {persona(p), RDid(p, t.id)}
        /\ kind = "Reject" => our = None
        /\ kind \in {"IssueVrc", "RejectVrc"} =>
             db[p].rel[t.peer] # None /\ our = db[p].rel[t.peer].our /\ theirs = db[p].rel[t.peer].remote
<1>1. PICK kind, our, theirs : kind \in AnswerKinds /\ Q(kind, our, theirs)
  <2>1. ASSUME NEW our \in {persona(p), RDid(p, t.id)}, AnswerRequest(p, t, "Accept", our)
        PROVE  Q("Accept", our, t.did)
    BY <2>1 DEF AnswerRequest, Claim, Holds, AnswersTask
  <2>2. ASSUME AnswerRequest(p, t, "Reject", None) PROVE Q("Reject", None, t.did)
    BY <2>2 DEF AnswerRequest, Claim, Holds, AnswersTask
  <2>3. ASSUME NEW kind \in {"IssueVrc", "RejectVrc"}, AnswerVrcRequest(p, t, kind)
        PROVE  Q(kind, db[p].rel[t.peer].our, db[p].rel[t.peer].remote)
    BY <2>3 DEF AnswerVrcRequest, Claim, Holds, AnswersTask
  <2>4. \A kind \in {"Accept", "Reject", "IssueVrc", "RejectVrc"} : kind \in AnswerKinds
    BY DEF AnswerKinds
  <2> HIDE DEF Q
  <2> QED BY <2>1, <2>2, <2>3, <2>4
<1>11. kind \in {"Accept", "Reject", "IssueVrc", "RejectVrc"} /\ kind \in AnswerKinds
  BY <1>1 DEF AnswerKinds
<1>2. /\ t.peer \in Parties /\ t.peer # p /\ t.id \in Nat
      /\ t.kind = "RequestIn" => t.did \in Dids /\ Owner(t.did) = t.peer
  <2>1. t.kind \in {"RequestIn", "VrcRequestIn"}
    BY <1>1 DEF AnswersTask
  <2> QED BY <2>1, TaskThere DEF Typed
<1>3. /\ kind # "Reject" => our \in Dids /\ Owner(our) = p /\ theirs \in Dids /\ Owner(theirs) = t.peer
      /\ our \in Dids \cup {None} /\ theirs \in Dids \cup {None}
  <2>1. CASE kind \in {"Accept", "Reject"}
    <3>1. t.kind = "RequestIn" /\ theirs = t.did
      BY <1>1, <2>1 DEF AnswersTask
    <3>2. persona(p) \in Dids /\ Owner(persona(p)) = p /\ RDid(p, t.id) \in Dids /\ Owner(RDid(p, t.id)) = p
      BY <1>2, Personas, Minted
    <3> QED BY <1>1, <1>2, <2>1, <3>1, <3>2
  <2>2. CASE kind \in {"IssueVrc", "RejectVrc"}
    BY <1>1, <1>2, <2>2, RelThere DEF Typed
  <2> QED BY <1>11, <2>1, <2>2
<1>4. PICK j : j = Job(kind, t.peer, t.id, our, theirs)
  OBVIOUS
<1>5. /\ j \in JobType /\ j # None /\ j.kind = kind /\ j.peer = t.peer /\ j.id = t.id
      /\ j.our = our /\ j.theirs = theirs /\ j.st = "run"
  BY <1>11, <1>2, <1>3, <1>4, JobParts, AnswersAreAnswers
<1>6. GoodJob(j, p)
  BY <1>11, <1>2, <1>3, <1>5 DEF GoodJob, AnswerKinds
<1>7. JobsTyped' /\ job'[p]["Inbox"] = j /\ JobsElse(p, "Inbox")
  BY <1>1, <1>11, <1>4, <1>5, <1>6, HoldsTyped DEF Typed, JobsElse, Domains
<1>8. /\ UNCHANGED <<db, saved, epoch, nextId, spoiled, early, crossed>> /\ Unsent
  BY DEF AnswerRequest, AnswerVrcRequest, Unsent, ghosts
<1>9. AccountsTyped' /\ MessagesTyped' /\ HistoryTyped'
  BY <1>8, SameAccounts, SameMessages DEF Typed, HistoryTyped, Unsent
<1> QED BY <1>1, <1>5, <1>7, <1>8, <1>9 DEF Typed

(* Tasks leave the inbox: a VRC accepted, or what the user dismissed. *)
LEMMA LeaveIs ==
    ASSUME Typed, NEW p \in Parties,
           \/ \E t \in db[p].tasks : AcceptVrc(p, t) \/ DropTasks(p, {t})
           \/ DropTasks(p, db[p].tasks)
    PROVE  /\ Typed' /\ OthersSame(p) /\ Becomes(p, db'[p]) /\ db'[p].rel = db[p].rel /\ saved'[p] = db'[p]
           /\ db'[p].tasks \subseteq db[p].tasks
           /\ \A t \in db[p].tasks : t \in db'[p].tasks \/ t.kind = "VrcIssued" \/ t.id \in spoiled'
           /\ spoiled \subseteq spoiled' /\ Unsent /\ UNCHANGED <<job, epoch, nextId, early, crossed>>
<1> DEFINE Q(e) ==
               /\ db' = [db EXCEPT ![p] = e] /\ saved' = [saved EXCEPT ![p] = e]
               /\ GoodAccount(e, p) /\ e.rel = db[p].rel /\ e.tasks \subseteq db[p].tasks
               /\ \A t \in db[p].tasks : t \in e.tasks \/ t.kind = "VrcIssued" \/ t.id \in spoiled'
               /\ spoiled \subseteq spoiled' /\ spoiled' \subseteq Int
<1>1. PICK e : Q(e)
  <2>0. GoodAccount(db[p], p) /\ db[p] \in AccountType /\ p \in DOMAIN db
    BY DEF Typed, AccountsTyped
  <2>1. ASSUME NEW t \in db[p].tasks, AcceptVrc(p, t) PROVE \E e : Q(e)
    <3>1. PICK c : c = WithoutTask(db[p], t.id)
      OBVIOUS
    <3>2. PICK e : e = [WithoutTask(db[p], t.id) EXCEPT !.received = @ \cup {[key |-> t.did, issuer |-> t.did]}]
      OBVIOUS
    <3>3. GoodAccount(c, p) /\ c.rel = db[p].rel /\ c.tasks = Less(db[p], t.id)
      BY <2>0, <3>1, GoodLess
    <3>4. GoodAccount(e, p) /\ e.rel = db[p].rel /\ e.tasks = Less(db[p], t.id)
      <4>1. [key |-> t.did, issuer |-> t.did] \in VrcType
        BY <2>1, TaskThere DEF AcceptVrc, Typed, VrcType
      <4>2. e = [c EXCEPT !.received = @ \cup {[key |-> t.did, issuer |-> t.did]}]
        BY <3>1, <3>2, Zenon
      <4>3. e \in AccountType /\ e.rel = c.rel /\ e.tasks = c.tasks
        BY <3>3, <4>1, <4>2 DEF AccountType, GoodAccount
      <4> QED BY <3>3, <4>3 DEF GoodAccount
    <3>5. db' = [db EXCEPT ![p] = e]
      BY <2>1, <3>2, Zenon DEF AcceptVrc
    <3>6. db'[p] = e
      BY <2>0, <3>5
    <3>7. saved' = [saved EXCEPT ![p] = e] /\ spoiled' = spoiled /\ t.kind = "VrcIssued"
      BY <2>1, <3>6 DEF AcceptVrc, ghosts
    <3>8. \A u \in db[p].tasks : u \in e.tasks \/ u.kind = "VrcIssued"
      <4>1. \A u \in db[p].tasks : u.id = t.id => u = t
        BY <2>0 DEF GoodAccount
      <4> QED BY <3>4, <3>7, <4>1 DEF Less
    <3>9. Q(e)
      BY <3>4, <3>5, <3>7, <3>8 DEF Less, Typed, HistoryTyped
    <3> QED BY <3>9
  <2>2. ASSUME NEW ts \in SUBSET db[p].tasks, DropTasks(p, ts) PROVE \E e : Q(e)
    <3>1. PICK e : e = [db[p] EXCEPT !.tasks = @ \ ts]
      OBVIOUS
    <3>2. GoodAccount(e, p) /\ e.rel = db[p].rel /\ e.tasks = db[p].tasks \ ts
      BY <2>0, <3>1, DroppedDoes
    <3>3. db' = [db EXCEPT ![p] = e]
      BY <2>2, <3>1, Zenon DEF DropTasks
    <3>4. db'[p] = e
      BY <2>0, <3>3
    <3>5. saved' = [saved EXCEPT ![p] = e] /\ spoiled' = spoiled \cup {t.id : t \in ts}
      BY <2>2, <3>4 DEF DropTasks
    <3>6. \A t \in ts : t.id \in Int
      BY TaskThere DEF Typed
    <3>7. Q(e)
      BY <3>2, <3>3, <3>5, <3>6 DEF Typed, HistoryTyped
    <3> QED BY <3>7
  <2>3. \A t \in db[p].tasks : {t} \in SUBSET db[p].tasks
    OBVIOUS
  <2> HIDE DEF Q
  <2> QED BY <2>1, <2>2, <2>3
<1>2. Becomes(p, e)
  BY <1>1 DEF Becomes
<1>3. AccountsTyped' /\ db'[p] = e /\ OthersSame(p)
  BY <1>1, <1>2, BecomesTyped DEF Typed, OthersSame
<1>4. Unsent /\ UNCHANGED <<job, epoch, nextId, early, crossed>>
  BY DEF AcceptVrc, DropTasks, Unsent, ghosts
<1>5. saved'[p] = e
  BY <1>1 DEF Typed, AccountsTyped
<1> QED BY <1>1, <1>2, <1>3, <1>4, <1>5, SameMessages, SameJobs DEF Typed, HistoryTyped, Unsent

LEMMA OneMore == \A S, x : S \subseteq Int /\ x \in Nat => S \cup {x} \subseteq Int
  OBVIOUS
LEMMA TwoMore == \A S, T, U : S \subseteq Int /\ T \subseteq Int /\ U \subseteq Int => S \cup T \cup U \subseteq Int
  OBVIOUS

(* A job sends its message. *)
LEMMA JobSendsIs ==
    ASSUME Typed, NEW p \in Parties, NEW domain \in Domains, JobSends(p, domain), NEW j, j = job[p][domain]
    PROVE  /\ Typed' /\ j # None /\ j.st = "run" /\ JobsElse(p, domain)
           /\ LET k == job'[p][domain] IN
                /\ k # None /\ k.st = "sent" /\ k.kind = j.kind /\ k.id = j.id /\ k.peer = j.peer
                /\ k.our = j.our /\ k.theirs = j.theirs
           /\ \E S : /\ Sends(S)
                     /\ \A x \in S :
                          /\ GoodMsg(x) /\ x.thid = j.id /\ Owner(x.from) = p /\ Owner(x.to) = j.peer
                          /\ SentBy(j.kind, x.type) /\ (x.type \in {"request", "accept"} => x.did = j.our)
                     /\ j.kind # "Remove" => \E x \in S : TRUE
                     /\ j.kind = "Remove" => S = {}
                     /\ \A x, y \in S : x = y
           /\ UNCHANGED <<db, saved, held, seen, epoch, nextId, spoiled, early, crossed>>
<1>1. j # None /\ j.st = "run" /\ job' = [job EXCEPT ![p][domain].st = "sent"]
      /\ UNCHANGED <<db, saved, held, seen, epoch, nextId, spoiled, early, crossed>>
  BY DEF JobSends, InStage, ghosts
<1>2. PICK S : S = JobMessage(p, j)
  OBVIOUS
<1>3. Sends(S)
  BY <1>2 DEF JobSends, Sends
<1>4. j \in JobType /\ GoodJob(j, p) /\ j.kind \in IF domain = "Inbox" THEN AnswerKinds ELSE NewKinds \cup {"Remove"}
  BY <1>1 DEF Typed, JobsTyped
<1>5. /\ \A x \in S :
           /\ GoodMsg(x) /\ x.thid = j.id /\ Owner(x.from) = p /\ Owner(x.to) = j.peer
           /\ SentBy(j.kind, x.type) /\ (x.type \in {"request", "accept"} => x.did = j.our)
      /\ j.kind # "Remove" => \E x \in S : TRUE
      /\ j.kind = "Remove" => S = {}
      /\ \A x, y \in S : x = y
  BY <1>2, <1>4, JobMessageIs DEF Typed
<1>6. PICK k \in JobType :
             /\ Holds(p, domain, k) /\ k.st = "sent"
             /\ k.kind = j.kind /\ k.peer = j.peer /\ k.id = j.id /\ k.our = j.our /\ k.theirs = j.theirs
  BY <1>1, StageIs DEF Typed
<1>7. GoodJob(k, p) /\ k # None
  BY <1>4, <1>6, NoneElse DEF GoodJob
<1>8. JobsTyped' /\ job'[p][domain] = k /\ JobsElse(p, domain)
  BY <1>4, <1>6, <1>7, HoldsTyped DEF Typed, JobsElse
<1>9. MessagesTyped'
  BY <1>1, <1>3, <1>5, SendsTyped DEF Typed
<1>10. AccountsTyped' /\ HistoryTyped'
  BY <1>1, SameAccounts DEF Typed, HistoryTyped
<1> QED BY <1>1, <1>3, <1>5, <1>6, <1>7, <1>8, <1>9, <1>10 DEF Typed

(* A job fails, or panics. *)
LEMMA JobStopsIs ==
    ASSUME Typed, NEW p \in Parties, NEW domain \in Domains, JobFails(p, domain) \/ JobPanics(p, domain),
           NEW j, j = job[p][domain]
    PROVE  /\ Typed' /\ j # None /\ j.st = "run" /\ JobsElse(p, domain)
           /\ LET k == job'[p][domain] IN
                \/ k = None
                \/ /\ k # None /\ k.st = "failed" /\ k.kind = j.kind /\ k.id = j.id /\ k.peer = j.peer
                   /\ k.our = j.our /\ k.theirs = j.theirs
           /\ spoiled' = spoiled \cup {j.id}
           /\ Unsent /\ UNCHANGED <<db, saved, epoch, nextId, early, crossed>>
<1>1. j # None /\ j.st = "run" /\ spoiled' = spoiled \cup {j.id}
      /\ Unsent /\ UNCHANGED <<db, saved, epoch, nextId, early, crossed>>
  BY DEF JobFails, JobPanics, InStage, Unsent
<1>2. j \in JobType /\ GoodJob(j, p) /\ j.kind \in IF domain = "Inbox" THEN AnswerKinds ELSE NewKinds \cup {"Remove"}
  BY <1>1 DEF Typed, JobsTyped
<1>3. PICK k : /\ Holds(p, domain, k) /\ (k = None \/ k \in JobType)
               /\ \/ k = None
                  \/ /\ k.st = "failed" /\ k.kind = j.kind /\ k.peer = j.peer /\ k.id = j.id
                     /\ k.our = j.our /\ k.theirs = j.theirs
  <2>1. CASE JobFails(p, domain)
    <3>1. PICK k \in JobType : /\ Holds(p, domain, k) /\ k.st = "failed"
             /\ k.kind = j.kind /\ k.peer = j.peer /\ k.id = j.id /\ k.our = j.our /\ k.theirs = j.theirs
      BY <1>1, <2>1, StageIs DEF JobFails, Typed
    <3> QED BY <3>1
  <2>2. CASE JobPanics(p, domain)
    BY <2>2 DEF JobPanics, Holds
  <2> QED BY <2>1, <2>2
<1>4. k # None => GoodJob(k, p)
  BY <1>2, <1>3 DEF GoodJob
<1>5. JobsTyped' /\ job'[p][domain] = k /\ JobsElse(p, domain)
  BY <1>2, <1>3, <1>4, HoldsTyped DEF Typed, JobsElse
<1>6. AccountsTyped' /\ MessagesTyped' /\ HistoryTyped'
  <2>1. j.id \in Nat
    BY <1>2 DEF JobType
  <2>0. spoiled \subseteq Int
    BY DEF Typed, HistoryTyped
  <2>2. spoiled' \subseteq Int
    BY <1>1, <2>0, <2>1, OneMore, Zenon
  <2>3. HistoryTyped'
    BY <1>1, <2>2 DEF Typed, HistoryTyped
  <2> QED BY <1>1, <2>3, SameAccounts, SameMessages DEF Typed, Unsent
<1> QED BY <1>1, <1>3, <1>5, <1>6 DEF Typed

(* An outcome is applied: the account becomes d. *)
LEMMA OutcomeIs ==
    ASSUME Typed, NEW p \in Parties, NEW domain \in Domains, NEW d, GoodAccount(d, p), Becomes(p, d),
           Holds(p, domain, None), Unsent
    PROVE  /\ AccountsTyped' /\ JobsTyped' /\ MessagesTyped' /\ db'[p] = d /\ OthersSame(p)
           /\ job'[p][domain] = None /\ JobsElse(p, domain)
<1>1. AccountsTyped' /\ db'[p] = d /\ OthersSame(p)
  BY BecomesTyped DEF Typed, OthersSame
<1>2. JobsTyped' /\ job'[p][domain] = None /\ JobsElse(p, domain)
  BY HoldsTyped DEF Typed, JobsElse
<1>3. MessagesTyped'
  BY SameMessages DEF Typed, Unsent
<1> QED BY <1>1, <1>2, <1>3

(* What every outcome has in common. *)
Applied(p, domain, st) ==
    /\ Typed' /\ Becomes(p, db'[p]) /\ OthersSame(p)
    /\ job[p][domain] # None /\ job[p][domain].st = st /\ job'[p][domain] = None /\ JobsElse(p, domain)
    /\ Unsent /\ UNCHANGED <<epoch, nextId, early>>

LEMMA ApplyCreateIs ==
    ASSUME Typed, NEW p \in Parties, ApplyCreate(p), NEW j, j = job[p]["Relationship"], NEW q, q = j.peer
    PROVE  /\ Applied(p, "Relationship", "sent") /\ j.kind = "Create" /\ spoiled' = spoiled
           /\ crossed' = IF db[p].rel[q] # None /\ db[p].rel[q].task # j.id THEN crossed \cup {db[p].rel[q].task} ELSE crossed
           /\ db[p].rel[q] # None => saved'[p] = db'[p]
           /\ db[p].rel[q] = None => db'[p] = db[p]
           /\ db[p].rel[q] # None /\ db[p].rel[q].st # "RequestSent" =>
                /\ db'[p].rel = [db[p].rel EXCEPT ![q] = Rel(db[p].rel[q].task, j.our, db[p].rel[q].remote, db[p].rel[q].st)]
                /\ db'[p].tasks = db[p].tasks
           /\ db[p].rel[q] # None /\ db[p].rel[q].st = "RequestSent" =>
                /\ db'[p].rel = [db[p].rel EXCEPT ![q] = Rel(j.id, j.our, db[p].rel[q].remote, db[p].rel[q].st)]
                /\ \E t \in TaskType : /\ t.id = j.id /\ t.kind = "RequestOut" /\ t.peer = q
                                       /\ db'[p].tasks = Less(db[p], j.id) \cup {t}
<1>1. PICK e : e = CreateSent(db[p], j)
  OBVIOUS
<1>2. PICK r : r = db[p].rel[q]
  OBVIOUS
<1>3. j # None /\ j.kind = "Create" /\ Outcome(p, "Relationship", "sent", e, r # None) /\ spoiled' = spoiled
      /\ crossed' = IF r # None /\ r.task # j.id THEN crossed \cup {r.task} ELSE crossed
  BY <1>1, <1>2 DEF ApplyCreate, InStage
<1>4. j \in JobType /\ q # p /\ q \in Parties /\ j.our \in Dids /\ Owner(j.our) = p
  BY <1>3, JobThere DEF Typed, Domains
<1>5. GoodAccount(db[p], p)
  BY DEF Typed, AccountsTyped
<1>6. /\ GoodAccount(e, p)
      /\ r = None => e = db[p]
      /\ r # None /\ r.st # "RequestSent" =>
           /\ e.rel = [db[p].rel EXCEPT ![q] = Rel(r.task, j.our, r.remote, r.st)]
           /\ e.tasks = db[p].tasks
      /\ r # None /\ r.st = "RequestSent" =>
           /\ e.rel = [db[p].rel EXCEPT ![q] = Rel(j.id, j.our, r.remote, r.st)]
           /\ \E t \in TaskType : /\ t.id = j.id /\ t.kind = "RequestOut" /\ t.peer = q
                                  /\ e.tasks = Less(db[p], j.id) \cup {t}
  BY <1>1, <1>2, <1>4, <1>5, CreateSentDoes
<1>7. /\ AccountsTyped' /\ JobsTyped' /\ MessagesTyped' /\ Becomes(p, e) /\ db'[p] = e /\ OthersSame(p)
      /\ job[p]["Relationship"] # None /\ job[p]["Relationship"].st = "sent" /\ job'[p]["Relationship"] = None
      /\ JobsElse(p, "Relationship") /\ Unsent /\ UNCHANGED <<epoch, nextId, early>>
  <2>1. /\ job[p]["Relationship"] # None /\ job[p]["Relationship"].st = "sent" /\ Becomes(p, e) /\ Holds(p, "Relationship", None)
        /\ Unsent /\ UNCHANGED <<epoch, nextId, early>>
    BY <1>3, <1>6 DEF Outcome, InStage, Becomes, Holds, Unsent
  <2>2. GoodAccount(e, p) /\ "Relationship" \in Domains
    BY <1>3, <1>6 DEF Domains
  <2> QED BY <2>1, <2>2, OutcomeIs
<1>8. HistoryTyped'
  <2>1. r # None => r.task \in Nat
    BY <1>2, <1>4, RelThere DEF Typed
  <2>0. spoiled \subseteq Int /\ crossed \subseteq Int
    BY DEF Typed, HistoryTyped
  <2>2. spoiled' \subseteq Int /\ crossed' \subseteq Int
    BY <1>3, <2>0, <2>1, OneMore, Zenon
  <2> QED BY <1>3, <1>7, <2>2 DEF Typed, HistoryTyped
<1>9. r # None => saved'[p] = e
  BY <1>3, <1>7 DEF Outcome, Typed, AccountsTyped
<1> QED BY <1>2, <1>3, <1>6, <1>7, <1>8, <1>9 DEF Applied, Typed

LEMMA ApplyCreateFailedIs ==
    ASSUME Typed, NEW p \in Parties, ApplyCreateFailed(p), NEW j, j = job[p]["Relationship"], NEW q, q = j.peer
    PROVE  /\ Applied(p, "Relationship", "failed") /\ q \in Parties
           /\ db'[p].tasks = db[p].tasks /\ saved' = saved
           /\ \/ db'[p] = db[p]
              \/ db[p].rel[q] # None /\ db[p].rel[q].st = "RequestSent" /\ db'[p].rel = [db[p].rel EXCEPT ![q] = None]
           /\ spoiled' = (IF db[p].rel[q] # None THEN spoiled \cup {db[p].rel[q].task} ELSE spoiled)
           /\ crossed' = crossed
<1>1. PICK r : r = db[p].rel[q]
  OBVIOUS
<1>2. PICK e : e = IF r # None /\ r.st = "RequestSent" THEN [db[p] EXCEPT !.rel[q] = None] ELSE db[p]
  OBVIOUS
<1>3. j # None /\ j.kind = "Create" /\ Outcome(p, "Relationship", "failed", e, FALSE)
      /\ spoiled' = (IF r # None THEN spoiled \cup {r.task} ELSE spoiled) /\ crossed' = crossed
  BY <1>1, <1>2, Zenon DEF ApplyCreateFailed, InStage
<1>4. q \in Parties
  BY <1>3, JobThere DEF Typed, Domains
<1>5. GoodAccount(db[p], p)
  BY DEF Typed, AccountsTyped
<1>6. GoodAccount(e, p) /\ e.tasks = db[p].tasks
      /\ \/ e = db[p]
         \/ r # None /\ r.st = "RequestSent" /\ e.rel = [db[p].rel EXCEPT ![q] = None]
  <2>1. CASE r # None /\ r.st = "RequestSent"
    <3>1. e = [db[p] EXCEPT !.rel[q] = None]
      BY <1>2, <2>1
    <3>2. e \in AccountType /\ e.rel = [db[p].rel EXCEPT ![q] = None] /\ e.tasks = db[p].tasks
      BY <1>4, <1>5, <3>1 DEF AccountType, GoodAccount
    <3> QED BY <1>4, <1>5, <2>1, <3>2, GoodPut DEF GoodRel
  <2>2. CASE ~(r # None /\ r.st = "RequestSent")
    BY <1>2, <1>5, <2>2
  <2> QED BY <2>1, <2>2
<1>7. /\ AccountsTyped' /\ JobsTyped' /\ MessagesTyped' /\ Becomes(p, e) /\ db'[p] = e /\ OthersSame(p)
      /\ job[p]["Relationship"] # None /\ job[p]["Relationship"].st = "failed" /\ job'[p]["Relationship"] = None
      /\ JobsElse(p, "Relationship") /\ Unsent /\ UNCHANGED <<epoch, nextId, early>>
  <2>1. /\ job[p]["Relationship"] # None /\ job[p]["Relationship"].st = "failed" /\ Becomes(p, e) /\ Holds(p, "Relationship", None)
        /\ Unsent /\ UNCHANGED <<epoch, nextId, early>>
    BY <1>3, <1>6 DEF Outcome, InStage, Becomes, Holds, Unsent
  <2>2. GoodAccount(e, p) /\ "Relationship" \in Domains
    BY <1>3, <1>6 DEF Domains
  <2> QED BY <2>1, <2>2, OutcomeIs
<1>8. HistoryTyped'
  <2>1. r # None => r.task \in Nat
    BY <1>1, <1>4, RelThere DEF Typed
  <2>0. spoiled \subseteq Int /\ crossed \subseteq Int
    BY DEF Typed, HistoryTyped
  <2>2. spoiled' \subseteq Int /\ crossed' \subseteq Int
    BY <1>3, <2>0, <2>1, OneMore, Zenon
  <2> QED BY <1>3, <1>7, <2>2 DEF Typed, HistoryTyped
<1>9. saved' = saved
  BY <1>3 DEF Outcome
<1> QED BY <1>1, <1>3, <1>4, <1>6, <1>7, <1>8, <1>9 DEF Applied, Typed

LEMMA ApplyWaitingIs ==
    ASSUME Typed, NEW p \in Parties, NEW j, j = job[p]["Relationship"], NEW kind, NEW task,
           (kind = "Ping" /\ task = "Ping") \/ (kind = "RequestVrc" /\ task = "VrcRequestOut"),
           ApplyWaiting(p, kind, task)
    PROVE  /\ Applied(p, "Relationship", "sent") /\ j.kind = kind /\ db'[p].rel = db[p].rel /\ saved'[p] = db'[p]
           /\ \E t \in TaskType : t.id = j.id /\ t.kind = task /\ t.peer = j.peer /\ db'[p].tasks = Less(db[p], j.id) \cup {t}
           /\ UNCHANGED <<spoiled, crossed>>
<1>1. PICK e : e = WithTask(db[p], Task(j.id, task, j.peer, None))
  OBVIOUS
<1>2. j # None /\ j.kind = kind /\ Outcome(p, "Relationship", "sent", e, TRUE) /\ UNCHANGED <<spoiled, crossed>>
  BY <1>1, Zenon DEF ApplyWaiting, InStage
<1>3. j.peer \in Parties /\ j.peer # p /\ j.id \in Nat
  BY <1>2, JobThere DEF Typed, Domains
<1>4. GoodAccount(db[p], p)
  BY DEF Typed, AccountsTyped
<1>5. GoodAccount(e, p) /\ e.rel = db[p].rel
      /\ \E t \in TaskType : t.id = j.id /\ t.kind = task /\ t.peer = j.peer /\ e.tasks = Less(db[p], j.id) \cup {t}
  BY <1>1, <1>3, <1>4, WaitingDoes
<1>6. /\ AccountsTyped' /\ JobsTyped' /\ MessagesTyped' /\ Becomes(p, e) /\ db'[p] = e /\ OthersSame(p)
      /\ job[p]["Relationship"] # None /\ job[p]["Relationship"].st = "sent" /\ job'[p]["Relationship"] = None
      /\ JobsElse(p, "Relationship") /\ Unsent /\ UNCHANGED <<epoch, nextId, early>>
  <2>1. /\ job[p]["Relationship"] # None /\ job[p]["Relationship"].st = "sent" /\ Becomes(p, e) /\ Holds(p, "Relationship", None)
        /\ Unsent /\ UNCHANGED <<epoch, nextId, early>>
    BY <1>2, <1>5 DEF Outcome, InStage, Becomes, Holds, Unsent
  <2>2. GoodAccount(e, p) /\ "Relationship" \in Domains
    BY <1>2, <1>5 DEF Domains
  <2> QED BY <2>1, <2>2, OutcomeIs
<1>7. saved'[p] = e
  BY <1>2 DEF Outcome, Typed, AccountsTyped
<1> QED BY <1>2, <1>5, <1>6, <1>7 DEF Applied, Typed, HistoryTyped

LEMMA ApplyRemoveIs ==
    ASSUME Typed, NEW p \in Parties, ApplyRemove(p), NEW j, j = job[p]["Relationship"], NEW q, q = j.peer
    PROVE  /\ Applied(p, "Relationship", "sent") /\ j.kind = "Remove" /\ q \in Parties
           /\ db'[p].rel = [db[p].rel EXCEPT ![q] = None] /\ db'[p].tasks = db[p].tasks /\ saved'[p] = db'[p]
           /\ spoiled' = (IF db[p].rel[q] # None THEN spoiled \cup {db[p].rel[q].task} ELSE spoiled)
           /\ crossed' = crossed
<1>1. PICK r : r = db[p].rel[q]
  OBVIOUS
<1>2. PICK e : e = RemoveRel(db[p], q)
  OBVIOUS
<1>3. j # None /\ j.kind = "Remove" /\ Outcome(p, "Relationship", "sent", e, TRUE)
      /\ spoiled' = (IF r # None THEN spoiled \cup {r.task} ELSE spoiled) /\ crossed' = crossed
  BY <1>1, <1>2, Zenon DEF ApplyRemove, InStage
<1>4. q \in Parties
  BY <1>3, JobThere DEF Typed, Domains
<1>5. GoodAccount(db[p], p)
  BY DEF Typed, AccountsTyped
<1>6. GoodAccount(e, p) /\ e.tasks = db[p].tasks /\ e.rel = [db[p].rel EXCEPT ![q] = None]
  BY <1>2, <1>4, <1>5, RemovedDoes
<1>7. /\ AccountsTyped' /\ JobsTyped' /\ MessagesTyped' /\ Becomes(p, e) /\ db'[p] = e /\ OthersSame(p)
      /\ job[p]["Relationship"] # None /\ job[p]["Relationship"].st = "sent" /\ job'[p]["Relationship"] = None
      /\ JobsElse(p, "Relationship") /\ Unsent /\ UNCHANGED <<epoch, nextId, early>>
  <2>1. /\ job[p]["Relationship"] # None /\ job[p]["Relationship"].st = "sent" /\ Becomes(p, e) /\ Holds(p, "Relationship", None)
        /\ Unsent /\ UNCHANGED <<epoch, nextId, early>>
    BY <1>3, <1>6 DEF Outcome, InStage, Becomes, Holds, Unsent
  <2>2. GoodAccount(e, p) /\ "Relationship" \in Domains
    BY <1>3, <1>6 DEF Domains
  <2> QED BY <2>1, <2>2, OutcomeIs
<1>8. HistoryTyped'
  <2>1. r # None => r.task \in Nat
    BY <1>1, <1>4, RelThere DEF Typed
  <2>0. spoiled \subseteq Int /\ crossed \subseteq Int
    BY DEF Typed, HistoryTyped
  <2>2. spoiled' \subseteq Int /\ crossed' \subseteq Int
    BY <1>3, <2>0, <2>1, OneMore, Zenon
  <2> QED BY <1>3, <1>7, <2>2 DEF Typed, HistoryTyped
<1>9. saved'[p] = e
  BY <1>3 DEF Outcome, Typed, AccountsTyped
<1> QED BY <1>1, <1>3, <1>4, <1>6, <1>7, <1>8, <1>9 DEF Applied, Typed

AcceptRecorded(p, q, j) ==
    \E r \in RelType :
        /\ r.task = j.id /\ r.our = j.our /\ r.remote = j.theirs /\ r.st = "RequestAccepted"
        /\ db'[p].rel = [db[p].rel EXCEPT ![q] = r]

LEMMA ApplyAcceptIs ==
    ASSUME Typed, NEW p \in Parties, ApplyAccept(p), NEW j, j = job[p]["Inbox"], NEW q, q = j.peer
    PROVE  /\ Applied(p, "Inbox", "sent") /\ j.kind = "Accept" /\ q \in Parties
           /\ AcceptRecorded(p, q, j)
           /\ db'[p].tasks = Less(db[p], j.id) /\ saved'[p] = db'[p]
           /\ spoiled' = (IF db[p].rel[q] # None THEN spoiled \cup {db[p].rel[q].task} ELSE spoiled)
           /\ crossed' = crossed
<1>1. PICK r : r = db[p].rel[q]
  OBVIOUS
<1>2. PICK x : x = Rel(j.id, j.our, j.theirs, "RequestAccepted")
  OBVIOUS
<1>3. PICK e : e = WithoutTask([db[p] EXCEPT !.rel[q] = x], j.id)
  OBVIOUS
<1>4. j # None /\ j.kind = "Accept" /\ Outcome(p, "Inbox", "sent", e, TRUE)
      /\ spoiled' = (IF r # None THEN spoiled \cup {r.task} ELSE spoiled) /\ crossed' = crossed
  BY <1>1, <1>2, <1>3, Zenon DEF ApplyAccept, InStage
<1>5. q \in Parties /\ q # p /\ j.id \in Nat /\ j.our \in Dids /\ Owner(j.our) = p /\ j.theirs \in Dids /\ Owner(j.theirs) = q
  BY <1>4, JobThere DEF Typed, Domains
<1>6. x \in RelType /\ x.task = j.id /\ x.our = j.our /\ x.remote = j.theirs /\ x.st = "RequestAccepted"
  BY <1>2, <1>5, RelParts DEF States
<1>7. GoodAccount(db[p], p)
  BY DEF Typed, AccountsTyped
<1>8. GoodAccount(e, p) /\ e.tasks = Less(db[p], j.id) /\ e.rel = [db[p].rel EXCEPT ![q] = x]
  BY <1>3, <1>5, <1>6, <1>7, AcceptDoes
<1>9. /\ AccountsTyped' /\ JobsTyped' /\ MessagesTyped' /\ Becomes(p, e) /\ db'[p] = e /\ OthersSame(p)
      /\ job[p]["Inbox"] # None /\ job[p]["Inbox"].st = "sent" /\ job'[p]["Inbox"] = None
      /\ JobsElse(p, "Inbox") /\ Unsent /\ UNCHANGED <<epoch, nextId, early>>
  <2>1. /\ job[p]["Inbox"] # None /\ job[p]["Inbox"].st = "sent" /\ Becomes(p, e) /\ Holds(p, "Inbox", None)
        /\ Unsent /\ UNCHANGED <<epoch, nextId, early>>
    BY <1>4, <1>8 DEF Outcome, InStage, Becomes, Holds, Unsent
  <2>2. GoodAccount(e, p) /\ "Inbox" \in Domains
    BY <1>4, <1>8 DEF Domains
  <2> QED BY <2>1, <2>2, OutcomeIs
<1>10. HistoryTyped'
  <2>1. r # None => r.task \in Nat
    BY <1>1, <1>5, RelThere DEF Typed
  <2>0. spoiled \subseteq Int /\ crossed \subseteq Int
    BY DEF Typed, HistoryTyped
  <2>2. spoiled' \subseteq Int /\ crossed' \subseteq Int
    BY <1>4, <2>0, <2>1, OneMore, Zenon
  <2> QED BY <1>4, <1>9, <2>2 DEF Typed, HistoryTyped
<1>11. saved'[p] = e
  BY <1>4 DEF Outcome, Typed, AccountsTyped
<1>12. AcceptRecorded(p, q, j)
  BY <1>6, <1>8, <1>9 DEF AcceptRecorded
<1> QED BY <1>1, <1>4, <1>5, <1>8, <1>9, <1>10, <1>11, <1>12 DEF Applied, Typed

LEMMA ApplyAnsweredIs ==
    ASSUME Typed, NEW p \in Parties, ApplyAnswered(p), NEW j, j = job[p]["Inbox"]
    PROVE  /\ Applied(p, "Inbox", "sent") /\ j.kind \in {"Reject", "IssueVrc", "RejectVrc"}
           /\ db'[p].rel = db[p].rel /\ db'[p].tasks = Less(db[p], j.id) /\ saved'[p] = db'[p]
           /\ UNCHANGED <<spoiled, crossed>>
<1>1. PICK c : c = WithoutTask(db[p], j.id)
  OBVIOUS
<1>2. PICK v : v = IF j.kind = "IssueVrc" THEN c.issued \cup {[key |-> persona(j.peer), issuer |-> j.our]} ELSE c.issued
  OBVIOUS
<1>3. PICK e : e = [WithoutTask(db[p], j.id) EXCEPT !.issued = v]
  OBVIOUS
<1>4. j # None /\ j.kind \in {"Reject", "IssueVrc", "RejectVrc"} /\ Outcome(p, "Inbox", "sent", e, TRUE)
      /\ UNCHANGED <<spoiled, crossed>>
  BY <1>1, <1>2, <1>3, Zenon DEF ApplyAnswered, InStage
<1>5. j.peer \in Parties /\ (j.kind = "IssueVrc" => j.our \in Dids)
  BY <1>4, JobThere DEF Typed, Domains
<1>6. GoodAccount(db[p], p)
  BY DEF Typed, AccountsTyped
<1>7. GoodAccount(c, p) /\ c.rel = db[p].rel /\ c.tasks = Less(db[p], j.id)
  BY <1>1, <1>6, GoodLess
<1>8. v \in SUBSET VrcType
  BY <1>2, <1>5, <1>7, Personas DEF GoodAccount, AccountType, VrcType
<1>9. e = [c EXCEPT !.issued = v]
  BY <1>1, <1>3
<1>10. GoodAccount(e, p) /\ e.tasks = Less(db[p], j.id) /\ e.rel = db[p].rel
  <2>1. e \in AccountType /\ e.rel = c.rel /\ e.tasks = c.tasks
    BY <1>7, <1>8, <1>9 DEF GoodAccount, AccountType
  <2> QED BY <1>7, <2>1 DEF GoodAccount
<1>11. /\ AccountsTyped' /\ JobsTyped' /\ MessagesTyped' /\ Becomes(p, e) /\ db'[p] = e /\ OthersSame(p)
      /\ job[p]["Inbox"] # None /\ job[p]["Inbox"].st = "sent" /\ job'[p]["Inbox"] = None
      /\ JobsElse(p, "Inbox") /\ Unsent /\ UNCHANGED <<epoch, nextId, early>>
  <2>1. /\ job[p]["Inbox"] # None /\ job[p]["Inbox"].st = "sent" /\ Becomes(p, e) /\ Holds(p, "Inbox", None)
        /\ Unsent /\ UNCHANGED <<epoch, nextId, early>>
    BY <1>4, <1>10 DEF Outcome, InStage, Becomes, Holds, Unsent
  <2>2. GoodAccount(e, p) /\ "Inbox" \in Domains
    BY <1>4, <1>10 DEF Domains
  <2> QED BY <2>1, <2>2, OutcomeIs
<1>12. saved'[p] = e
  BY <1>4 DEF Outcome, Typed, AccountsTyped
<1> QED BY <1>4, <1>10, <1>11, <1>12 DEF Applied, Typed, HistoryTyped

LEMMA ApplyFailedIs ==
    ASSUME Typed, NEW p \in Parties, NEW domain \in Domains, ApplyFailed(p, domain)
    PROVE  /\ Applied(p, domain, "failed") /\ db' = db /\ saved' = saved
           /\ job[p][domain].kind # "Create" /\ UNCHANGED <<spoiled, crossed>>
<1>1. job[p][domain] # None /\ job[p][domain].kind # "Create" /\ Outcome(p, domain, "failed", db[p], FALSE)
      /\ UNCHANGED <<spoiled, crossed>>
  BY Zenon DEF ApplyFailed, InStage
<1>2. GoodAccount(db[p], p)
  BY DEF Typed, AccountsTyped
<1>3. /\ AccountsTyped' /\ JobsTyped' /\ MessagesTyped' /\ Becomes(p, db[p]) /\ db'[p] = db[p] /\ OthersSame(p)
      /\ job[p][domain] # None /\ job[p][domain].st = "failed" /\ job'[p][domain] = None
      /\ JobsElse(p, domain) /\ Unsent /\ UNCHANGED <<epoch, nextId, early>>
  <2>1. /\ job[p][domain] # None /\ job[p][domain].st = "failed" /\ Becomes(p, db[p]) /\ Holds(p, domain, None)
        /\ Unsent /\ UNCHANGED <<epoch, nextId, early>>
    BY <1>1, <1>2 DEF Outcome, InStage, Becomes, Holds, Unsent
  <2>2. GoodAccount(db[p], p) /\ domain \in Domains
    BY <1>1, <1>2 DEF Domains
  <2> QED BY <2>1, <2>2, OutcomeIs
<1>4. db' = db /\ saved' = saved
  BY <1>1, <1>3 DEF Outcome, Typed, AccountsTyped
<1> QED BY <1>1, <1>3, <1>4 DEF Applied, Typed, HistoryTyped

LEMMA RestartIs ==
    ASSUME Typed, NEW p \in Parties, Restart(p)
    PROVE  /\ Typed' /\ db'[p] = saved[p] /\ OthersSame(p) /\ saved' = saved
           /\ \A m \in Domains : job'[p][m] = None
           /\ \A c \in Parties, m \in Domains : c # p => job'[c][m] = job[c][m]
           /\ held'[p] = <<>> /\ seen'[p] = {}
           /\ \A c \in Parties : c # p => held'[c] = held[c] /\ seen'[c] = seen[c]
           /\ UNCHANGED <<net, sent, nextId, early, crossed>>
           /\ spoiled \subseteq spoiled' /\ JobThreads(p) \subseteq spoiled' /\ HeldThreads(p) \subseteq spoiled'
<1>1. /\ db' = [db EXCEPT ![p] = saved[p]] /\ job' = [job EXCEPT ![p] = [m \in Domains |-> None]]
      /\ held' = [held EXCEPT ![p] = <<>>] /\ seen' = [seen EXCEPT ![p] = {}]
      /\ epoch' = [epoch EXCEPT ![p] = @ + 1] /\ spoiled' = spoiled \cup JobThreads(p) \cup HeldThreads(p)
      /\ UNCHANGED <<saved, net, sent, nextId, early, crossed>>
  BY DEF Restart
<1>2. AccountsTyped' /\ db'[p] = saved[p] /\ OthersSame(p)
  BY <1>1 DEF Typed, AccountsTyped, OthersSame
<1>3. JobsTyped' /\ (\A m \in Domains : job'[p][m] = None)
      /\ (\A c \in Parties, m \in Domains : c # p => job'[c][m] = job[c][m])
  BY <1>1 DEF Typed, JobsTyped
<1>4. MessagesTyped' /\ held'[p] = <<>> /\ seen'[p] = {}
      /\ \A c \in Parties : c # p => held'[c] = held[c] /\ seen'[c] = seen[c]
  <2>1. held' \in [Parties -> Seq(HeldType)] /\ held'[p] = <<>> /\ Len(<<>>) = 0
        /\ \A c \in Parties : c # p => held'[c] = held[c]
    BY <1>1 DEF Typed, MessagesTyped
  <2>2. seen' \in [Parties -> SUBSET sent] /\ seen'[p] = {} /\ \A c \in Parties : c # p => seen'[c] = seen[c]
    BY <1>1 DEF Typed, MessagesTyped
  <2> QED BY <1>1, <2>1, <2>2 DEF Typed, MessagesTyped
<1>5. HistoryTyped'
  <2>1. JobThreads(p) \subseteq Int
    BY JobThere DEF JobThreads, Typed
  <2>2. HeldThreads(p) \subseteq Int
    <3>1. held[p] \in Seq(HeldType)
      BY DEF Typed, MessagesTyped
    <3>2. \A i \in DOMAIN held[p] : held[p][i] \in HeldType
      BY <3>1
    <3>3. \A h \in HeldType : h.m.thid \in Nat
      BY DEF HeldType, MsgType
    <3> QED BY <3>2, <3>3 DEF HeldThreads
  <2>3. spoiled \subseteq Int /\ epoch \in [Parties -> Nat]
    BY DEF Typed, HistoryTyped
  <2>4. spoiled' \subseteq Int
    BY <1>1, <2>1, <2>2, <2>3, TwoMore, Zenon
  <2>5. epoch' \in [Parties -> Nat]
    BY <1>1, <2>3
  <2> QED BY <1>1, <2>4, <2>5 DEF Typed, HistoryTyped
<1> QED BY <1>1, <1>2, <1>3, <1>4, <1>5 DEF Typed

-----------------------------------------------------------------------------
(* Messages on their way: under way, or off the loop.  A thread that is not  *)
(* cut has each of its messages at one place, and none comes again.          *)
Tracked == {"request", "accept", "reject", "finalize", "vrcRequest", "vrc", "vrcReject"}
Msgs(s) == {s[i].m : i \in 1..Len(s)}
Open == {m \in sent : m \in net \/ m \in Msgs(held[Owner(m.to)])}
Apart(s, cut) ==
    \A i, k \in 1..Len(s) :
        s[i].m = s[k].m /\ s[i].m.type \in Tracked /\ s[i].m.thid \notin cut => i = k
Once ==
    /\ \A m \in net : m.type \in Tracked /\ m.thid \notin spoiled => m \notin seen[Owner(m.to)]
    /\ \A p \in Parties : Apart(held[p], spoiled)
FinalOnce ==
    \A f \in sent : f.type = "finalize" /\ f.thid \notin spoiled =>
        ~At(db[Owner(f.from)], Owner(f.to), f.thid, "RequestSent")

LEMMA TailApart ==
    ASSUME NEW s \in Seq(HeldType), s # <<>>, NEW h, h = Head(s), NEW u, u = Tail(s), NEW cut
    PROVE  /\ h \in HeldType /\ u \in Seq(HeldType) /\ Msgs(s) = Msgs(u) \cup {h.m}
           /\ Apart(s, cut) => Apart(u, cut)
           /\ Apart(s, cut) /\ h.m.type \in Tracked /\ h.m.thid \notin cut => h.m \notin Msgs(u)
<1>1. /\ Len(s) \in Nat /\ Len(s) > 0 /\ h = s[1] /\ Len(u) = Len(s) - 1 /\ u \in Seq(HeldType)
      /\ \A i \in 1..Len(u) : u[i] = s[i + 1]
      /\ \A i \in 1..Len(s) : s[i] \in HeldType
  OBVIOUS
<1>2. Msgs(s) = Msgs(u) \cup {h.m}
  <2>1. ASSUME NEW i \in 1..Len(s) PROVE s[i].m \in Msgs(u) \cup {h.m}
    <3>1. CASE i = 1
      BY <1>1, <3>1
    <3>2. CASE i # 1
      <4>1. i - 1 \in 1..Len(u) /\ u[i - 1] = s[i]
        BY <1>1, <3>2
      <4> QED BY <4>1 DEF Msgs
    <3> QED BY <3>1, <3>2
  <2>2. ASSUME NEW i \in 1..Len(u) PROVE u[i].m \in Msgs(s)
    <3>1. i + 1 \in 1..Len(s) /\ u[i] = s[i + 1]
      BY <1>1
    <3> QED BY <3>1 DEF Msgs
  <2>3. h.m \in Msgs(s)
    BY <1>1 DEF Msgs
  <2> QED BY <2>1, <2>2, <2>3 DEF Msgs
<1>3. ASSUME Apart(s, cut) PROVE Apart(u, cut)
  <2>1. ASSUME NEW i \in 1..Len(u), NEW k \in 1..Len(u), u[i].m = u[k].m, u[i].m.type \in Tracked, u[i].m.thid \notin cut
        PROVE  i = k
    <3>1. i + 1 \in 1..Len(s) /\ k + 1 \in 1..Len(s) /\ u[i] = s[i + 1] /\ u[k] = s[k + 1]
      BY <1>1
    <3>2. i + 1 = k + 1
      BY <1>3, <2>1, <3>1 DEF Apart
    <3> QED BY <3>2
  <2> QED BY <2>1 DEF Apart
<1>4. ASSUME Apart(s, cut), h.m.type \in Tracked, h.m.thid \notin cut PROVE h.m \notin Msgs(u)
  <2>1. ASSUME NEW i \in 1..Len(u), u[i].m = h.m PROVE FALSE
    <3>1. i + 1 \in 1..Len(s) /\ u[i] = s[i + 1] /\ 1 \in 1..Len(s) /\ h = s[1]
      BY <1>1
    <3>2. 1 = i + 1
      BY <1>4, <2>1, <3>1 DEF Apart
    <3> QED BY <3>2
  <2> QED BY <2>1 DEF Msgs
<1> QED BY <1>1, <1>2, <1>3, <1>4

LEMMA AppendApart ==
    ASSUME NEW s \in Seq(HeldType), NEW x \in HeldType, NEW u, u = Append(s, x), NEW cut
    PROVE  /\ u \in Seq(HeldType) /\ Msgs(u) = Msgs(s) \cup {x.m}
           /\ Apart(s, cut) /\ (x.m.type \in Tracked /\ x.m.thid \notin cut => x.m \notin Msgs(s)) => Apart(u, cut)
<1>1. /\ Len(s) \in Nat /\ Len(u) = Len(s) + 1 /\ u \in Seq(HeldType) /\ u[Len(s) + 1] = x
      /\ \A i \in 1..Len(s) : u[i] = s[i]
  OBVIOUS
<1>2. Msgs(u) = Msgs(s) \cup {x.m}
  <2>1. \A i \in 1..Len(u) : i \in 1..Len(s) \/ i = Len(s) + 1
    BY <1>1
  <2>2. 1..Len(s) \subseteq 1..Len(u) /\ Len(s) + 1 \in 1..Len(u)
    BY <1>1
  <2>3. \A i \in 1..Len(u) : u[i].m \in Msgs(s) \cup {x.m}
    BY <1>1, <2>1 DEF Msgs
  <2>4. \A i \in 1..Len(s) : s[i].m \in Msgs(u)
    BY <1>1, <2>2 DEF Msgs
  <2>5. x.m \in Msgs(u)
    BY <1>1, <2>2 DEF Msgs
  <2> QED BY <2>3, <2>4, <2>5 DEF Msgs
<1>3. ASSUME Apart(s, cut), x.m.type \in Tracked /\ x.m.thid \notin cut => x.m \notin Msgs(s),
             NEW i \in 1..Len(u), NEW k \in 1..Len(u), u[i].m = u[k].m, u[i].m.type \in Tracked, u[i].m.thid \notin cut
      PROVE  i = k
  <2>1. (i \in 1..Len(s) \/ i = Len(s) + 1) /\ (k \in 1..Len(s) \/ k = Len(s) + 1)
    BY <1>1
  <2>2. CASE i \in 1..Len(s) /\ k \in 1..Len(s)
    <3>1. u[i] = s[i] /\ u[k] = s[k]
      BY <1>1, <2>2
    <3> QED BY <1>3, <2>2, <3>1 DEF Apart
  <2>3. CASE i \in 1..Len(s) /\ k = Len(s) + 1
    <3>1. u[i] = s[i] /\ u[k] = x
      BY <1>1, <2>3
    <3> QED BY <1>3, <2>3, <3>1 DEF Msgs
  <2>4. CASE i = Len(s) + 1 /\ k \in 1..Len(s)
    <3>1. u[i] = x /\ u[k] = s[k]
      BY <1>1, <2>4
    <3> QED BY <1>3, <2>4, <3>1 DEF Msgs
  <2> QED BY <2>1, <2>2, <2>3, <2>4
<1> QED BY <1>1, <1>2, <1>3 DEF Apart

LEMMA ApartMore ==
    ASSUME NEW s, NEW cut, NEW more, cut \subseteq more, Apart(s, cut) PROVE Apart(s, more)
  BY DEF Apart

LEMMA HeldFacts ==
    ASSUME MessagesTyped, NEW p \in Parties
    PROVE  held[p] \in Seq(HeldType) /\ Msgs(held[p]) \subseteq seen[p] /\ seen[p] \subseteq sent
           /\ \A m \in seen[p] : Owner(m.to) = p
  BY DEF MessagesTyped, Msgs

(* A step that only moves messages. *)
Moves ==
    /\ Typed' /\ Once'
    /\ UNCHANGED <<db, saved, job, sent, nextId, epoch, early, crossed>>
    /\ spoiled \subseteq spoiled'
    /\ \A x \in sent : x.type \in Tracked /\ x.thid \notin spoiled' => (x \in Open' <=> x \in Open)

(* A step that handles message m. *)
Handles(p, m, ok) ==
    /\ Typed' /\ Once'
    /\ m \in Open /\ Owner(m.to) = p
    /\ Becomes(p, db'[p]) /\ db'[p] = Handled(db[p], m, ok) /\ OthersSame(p)
    /\ saved'[p] = db'[p] \/ (db'[p] = db[p] /\ saved' = saved)
    /\ sent' = sent \cup Replies(p, db[p], m, ok)
    /\ early' = IF Early(p, m) THEN early \cup {m.thid} ELSE early
    /\ UNCHANGED <<job, epoch, nextId, crossed>>
    /\ spoiled' = spoiled \/ spoiled' = spoiled \cup {m.thid}
    /\ \A x \in sent' : x.type \in Tracked /\ x.thid \notin spoiled' =>
         (x \in Open' <=> (x \in Open /\ x # m) \/ x \in Replies(p, db[p], m, ok))
    /\ m.type \in Tracked /\ m.thid \notin spoiled' => ok \/ ~verification_job(db[p], m)

LEMMA ProcessIs ==
    ASSUME Typed, NEW p \in Parties, NEW m \in sent, Owner(m.to) = p, NEW ok \in BOOLEAN, Process(p, m, ok),
           NEW S, S = Replies(p, db[p], m, ok)
    PROVE  /\ AccountsTyped' /\ Becomes(p, db'[p]) /\ db'[p] = Handled(db[p], m, ok) /\ OthersSame(p)
           /\ saved'[p] = db'[p] \/ (db'[p] = db[p] /\ saved' = saved)
           /\ sent' = sent \cup S /\ net' = (net \ {m}) \cup S
           /\ early' = (IF Early(p, m) THEN early \cup {m.thid} ELSE early)
           /\ early' \subseteq Int
           /\ \A x \in sent' : GoodMsg(x)
<1>1. PICK d : d = Handled(db[p], m, ok)
  OBVIOUS
<1>2. /\ db' = [db EXCEPT ![p] = d] /\ saved' = (IF d = db[p] THEN saved ELSE [saved EXCEPT ![p] = d])
      /\ sent' = sent \cup S /\ net' = (net \ {m}) \cup S
      /\ early' = (IF Early(p, m) THEN early \cup {m.thid} ELSE early)
  BY <1>1, Zenon DEF Process
<1>3. GoodMsg(m) /\ GoodAccount(db[p], p) /\ m.thid \in Nat /\ HistoryTyped /\ \A x \in sent : GoodMsg(x)
  BY DEF Typed, MessagesTyped, AccountsTyped, GoodMsg, MsgType
<1>4. GoodAccount(d, p)
  BY <1>1, <1>3, HandledGood
<1>5. Becomes(p, d)
  BY <1>2 DEF Becomes
<1>6. AccountsTyped' /\ db'[p] = d /\ OthersSame(p)
  BY <1>4, <1>5, BecomesTyped DEF Typed, OthersSame
<1>7. early' \subseteq Int
  <2>1. early \subseteq Int
    BY <1>3 DEF HistoryTyped
  <2> QED BY <1>2, <1>3, <2>1, OneMore, Zenon
<1>8. \A x \in S : GoodMsg(x)
  BY <1>3, RepliesAre
<1>9. \A x \in sent' : GoodMsg(x)
  BY <1>2, <1>3, <1>8
<1>10. saved'[p] = d \/ (d = db[p] /\ saved' = saved)
  BY <1>2 DEF Typed, AccountsTyped
<1> QED BY <1>1, <1>2, <1>5, <1>6, <1>7, <1>9, <1>10

(* A reply that is a finalize has not been sent before. *)
LEMMA RepliesNew ==
    ASSUME Typed, FinalOnce, NEW p \in Parties, NEW m \in sent, Owner(m.to) = p, NEW ok \in BOOLEAN,
           NEW x \in Replies(p, db[p], m, ok), x.type \in Tracked, x.thid \notin spoiled
    PROVE  x \notin sent
<1>1. GoodMsg(m) /\ GoodAccount(db[p], p) /\ HistoryTyped
  BY DEF Typed, MessagesTyped, AccountsTyped
<1>2. x.thid = m.thid /\ Owner(x.from) = p /\ x.to = m.from
      /\ ((x.type = "finalize" /\ At(db[p], Owner(m.from), m.thid, "RequestSent")) \/ x.type = "pong")
  BY <1>1, RepliesAre
<1> QED BY <1>2 DEF FinalOnce, Tracked

(* Queue and network after m was taken from either and S sent. *)
LEMMA TakenMessages ==
    ASSUME Typed, Once, NEW p \in Parties, NEW m \in sent, Owner(m.to) = p, NEW S, NEW u \in Seq(HeldType),
           held' = [held EXCEPT ![p] = u], seen' = [seen EXCEPT ![p] = @ \cup {m}],
           net' = (net \ {m}) \cup S, sent' = sent \cup S, \A x \in sent' : GoodMsg(x),
           spoiled \subseteq spoiled', spoiled' \subseteq spoiled \cup {m.thid},
           Msgs(u) \subseteq Msgs(held[p]), \A x \in Msgs(held[p]) : x = m \/ x \in Msgs(u),
           Apart(u, spoiled'), m.type \in Tracked /\ m.thid \notin spoiled' => m \notin Msgs(u),
           \A x \in S : x.type \in Tracked /\ x.thid \notin spoiled' => x \notin sent
    PROVE  /\ MessagesTyped' /\ Once'
           /\ \A x \in sent' : x.type \in Tracked /\ x.thid \notin spoiled' =>
                (x \in Open' <=> (x \in Open /\ x # m) \/ x \in S)
<1>1. MessagesTyped /\ Msgs(held[p]) \subseteq seen[p]
  BY HeldFacts DEF Typed
<1>2. /\ held' \in [Parties -> Seq(HeldType)] /\ held'[p] = u /\ \A c \in Parties : c # p => held'[c] = held[c]
      /\ seen' \in [Parties -> SUBSET sent'] /\ seen'[p] = seen[p] \cup {m} /\ \A c \in Parties : c # p => seen'[c] = seen[c]
  BY <1>1 DEF MessagesTyped
<1>3. \A c \in Parties : \A i \in 1..Len(held'[c]) : held'[c][i].m \in seen'[c]
  <2>1. \A i \in 1..Len(u) : u[i].m \in Msgs(u)
    BY DEF Msgs
  <2>2. \A i \in 1..Len(u) : u[i].m \in seen'[p]
    BY <1>1, <1>2, <2>1
  <2> QED BY <1>1, <1>2, <2>2 DEF MessagesTyped
<1>4. MessagesTyped'
  BY <1>1, <1>2, <1>3 DEF MessagesTyped
<1>5. Once'
  <2>1. ASSUME NEW x \in net', x.type \in Tracked, x.thid \notin spoiled' PROVE x \notin seen'[Owner(x.to)]
    <3>1. Owner(x.to) \in Parties
      BY <1>4, Owners DEF MessagesTyped, GoodMsg, MsgType
    <3>2. CASE x \in S
      <4>1. x \notin sent /\ x # m
        BY <2>1, <3>2
      <4> QED BY <1>1, <1>2, <3>1, <4>1 DEF MessagesTyped
    <3>3. CASE x \notin S
      <4>1. x \in net /\ x # m /\ x.thid \notin spoiled
        BY <2>1, <3>3
      <4>2. x \notin seen[Owner(x.to)]
        BY <2>1, <4>1 DEF Once
      <4> QED BY <1>2, <3>1, <4>1, <4>2
    <3> QED BY <3>2, <3>3
  <2>2. ASSUME NEW c \in Parties PROVE Apart(held'[c], spoiled')
    BY <1>2, ApartMore DEF Once
  <2> QED BY <2>1, <2>2 DEF Once
<1>6. ASSUME NEW x \in sent', x.type \in Tracked, x.thid \notin spoiled'
      PROVE  x \in Open' <=> (x \in Open /\ x # m) \/ x \in S
  <2>1. Owner(x.to) \in Parties
    BY <1>4, Owners DEF MessagesTyped, GoodMsg, MsgType
  <2>2. x \in Open' <=> x \in net' \/ x \in Msgs(held'[Owner(x.to)])
    BY DEF Open
  <2>3. x \in Open <=> x \in sent /\ (x \in net \/ x \in Msgs(held[Owner(x.to)]))
    BY DEF Open
  <2>4. CASE x \in S
    BY <2>2, <2>4
  <2>5. CASE x \notin S
    <3>1. x \in sent /\ (x \in net' <=> x \in net /\ x # m)
      BY <2>5
    <3>2. x \in Msgs(held'[Owner(x.to)]) <=> x \in Msgs(held[Owner(x.to)]) /\ x # m
      BY <1>2, <1>6, <2>1
    <3> QED BY <2>2, <2>3, <2>5, <3>1, <3>2
  <2> QED BY <2>4, <2>5
<1> QED BY <1>4, <1>5, <1>6

LEMMA DeliverIs ==
    ASSUME Typed, Once, FinalOnce, NEW p \in Parties, NEW m \in net, Deliver(p, m)
    PROVE  Moves \/ \E ok \in BOOLEAN : Handles(p, m, ok)
<1>1. /\ Owner(m.to) = p /\ seen' = [seen EXCEPT ![p] = @ \cup {m}] /\ m \in sent /\ GoodMsg(m)
      /\ UNCHANGED <<job, epoch, nextId, left, spoiled, crossed>> /\ m \in Open
  BY DEF Deliver, Typed, MessagesTyped, Open
<1>2. /\ held[p] \in Seq(HeldType) /\ Msgs(held[p]) \subseteq seen[p] /\ MessagesTyped /\ m \in MsgType
      /\ Apart(held[p], spoiled) /\ held \in [Parties -> Seq(HeldType)]
  BY <1>1, HeldFacts DEF Typed, Once, GoodMsg, MessagesTyped
<1>3. JobsTyped'
  BY <1>1, SameJobs DEF Typed
<1>4. CASE m \in seen[p]
  <2>1. net' = net \ {m} /\ UNCHANGED <<db, saved, held, sent, early>>
    BY <1>4 DEF Deliver
  <2>2. m.type \in Tracked => m.thid \in spoiled
    BY <1>1, <1>4 DEF Once
  <2>3. /\ MessagesTyped' /\ Once'
        /\ \A x \in sent' : x.type \in Tracked /\ x.thid \notin spoiled' => (x \in Open' <=> (x \in Open /\ x # m) \/ x \in {})
    <3>0. PICK S : S = {}
      OBVIOUS
    <3>1. held' = [held EXCEPT ![p] = held[p]] /\ net' = (net \ {m}) \cup S /\ sent' = sent \cup S
      BY <1>2, <2>1, <3>0
    <3>2. \A x \in sent' : GoodMsg(x)
      BY <1>2, <2>1 DEF MessagesTyped
    <3>3. spoiled \subseteq spoiled' /\ spoiled' \subseteq spoiled \cup {m.thid} /\ Apart(held[p], spoiled')
      BY <1>1, <1>2
    <3>4. m.type \in Tracked /\ m.thid \notin spoiled' => m \notin Msgs(held[p])
      BY <1>1, <2>2
    <3>5. /\ MessagesTyped' /\ Once'
          /\ \A x \in sent' : x.type \in Tracked /\ x.thid \notin spoiled' => (x \in Open' <=> (x \in Open /\ x # m) \/ x \in S)
      <4>1. \A x \in S : x.type \in Tracked /\ x.thid \notin spoiled' => x \notin sent
        BY <3>0
      <4>2. m \in sent
        BY <1>1
      <4> QED BY <1>1, <1>2, <3>1, <3>2, <3>3, <3>4, <4>1, <4>2, TakenMessages
    <3> QED BY <3>0, <3>5
  <2>4. AccountsTyped' /\ HistoryTyped'
    BY <1>1, <2>1, SameAccounts DEF Typed, HistoryTyped
  <2>5. Moves
    BY <1>1, <1>3, <2>1, <2>2, <2>3, <2>4 DEF Moves, Typed
  <2> QED BY <2>5
<1>5. CASE m \notin seen[p] /\ (verification_job(db[p], m) \/ Waiting(p, m.from))
  <2>1. PICK x : x = [m |-> m, check |-> verification_job(db[p], m)]
    OBVIOUS
  <2>2. /\ held' = [held EXCEPT ![p] = Append(@, x)] /\ net' = net \ {m} /\ UNCHANGED <<db, saved, sent, early>>
    BY <1>5, <2>1, Zenon DEF Deliver
  <2>3. x \in HeldType /\ x.m = m
    <3>1. verification_job(db[p], m) \in BOOLEAN
      BY Zenon DEF verification_job, relationship_request_admissible
    <3> QED BY <1>2, <2>1, <3>1 DEF HeldType
  <2>4. PICK u : u = Append(held[p], x)
    OBVIOUS
  <2>5. /\ u \in Seq(HeldType) /\ Msgs(u) = Msgs(held[p]) \cup {m} /\ Apart(u, spoiled)
    BY <1>2, <1>5, <2>3, <2>4, AppendApart
  <2>6. /\ held' \in [Parties -> Seq(HeldType)] /\ held'[p] = u /\ \A c \in Parties : c # p => held'[c] = held[c]
        /\ seen' \in [Parties -> SUBSET sent'] /\ seen'[p] = seen[p] \cup {m} /\ \A c \in Parties : c # p => seen'[c] = seen[c]
    BY <1>1, <1>2, <2>2, <2>4, <2>5 DEF MessagesTyped
  <2>7. \A c \in Parties : \A i \in 1..Len(held'[c]) : held'[c][i].m \in seen'[c]
    <3>1. \A i \in 1..Len(u) : u[i].m \in Msgs(u)
      BY DEF Msgs
    <3>2. \A i \in 1..Len(u) : u[i].m \in seen'[p]
      BY <1>2, <2>5, <2>6, <3>1
    <3> QED BY <1>2, <2>6, <3>2 DEF MessagesTyped
  <2>8. MessagesTyped'
    BY <1>1, <1>2, <2>2, <2>6, <2>7 DEF MessagesTyped
  <2>9. Once'
    <3>1. ASSUME NEW y \in net', y.type \in Tracked, y.thid \notin spoiled' PROVE y \notin seen'[Owner(y.to)]
      <4>1. Owner(y.to) \in Parties
        BY <2>8, Owners DEF MessagesTyped, GoodMsg, MsgType
      <4>2. y \in net /\ y # m /\ y.thid \notin spoiled
        BY <1>1, <2>2, <3>1
      <4>3. y \notin seen[Owner(y.to)]
        BY <3>1, <4>2 DEF Once
      <4> QED BY <2>6, <4>1, <4>2, <4>3
    <3>2. ASSUME NEW c \in Parties PROVE Apart(held'[c], spoiled')
      BY <1>1, <2>5, <2>6 DEF Once
    <3> QED BY <3>1, <3>2 DEF Once
  <2>10. ASSUME NEW y \in sent PROVE y \in Open' <=> y \in Open
    <3>1. Owner(y.to) \in Parties
      BY <1>2, Owners DEF MessagesTyped, GoodMsg, MsgType
    <3>2. y \in Open' <=> y \in net' \/ y \in Msgs(held'[Owner(y.to)])
      BY <2>2 DEF Open
    <3>3. y \in Open <=> y \in net \/ y \in Msgs(held[Owner(y.to)])
      BY DEF Open
    <3>4. CASE y = m
      BY <1>1, <2>5, <2>6, <3>2, <3>4
    <3>5. CASE y # m
      <4>1. y \in net' <=> y \in net
        BY <2>2, <3>5
      <4>2. y \in Msgs(held'[Owner(y.to)]) <=> y \in Msgs(held[Owner(y.to)])
        BY <2>5, <2>6, <3>1, <3>5
      <4> QED BY <3>2, <3>3, <4>1, <4>2
    <3> QED BY <3>4, <3>5
  <2>11. AccountsTyped' /\ HistoryTyped'
    BY <1>1, <2>2, SameAccounts DEF Typed, HistoryTyped
  <2>12. Moves
    BY <1>1, <1>3, <2>2, <2>8, <2>9, <2>10, <2>11 DEF Moves, Typed
  <2> QED BY <2>12
<1>6. CASE m \notin seen[p] /\ ~verification_job(db[p], m) /\ ~Waiting(p, m.from)
  <2>0. PICK ok \in BOOLEAN : ok = FALSE
    OBVIOUS
  <2>1. Process(p, m, ok) /\ held' = held
    BY <1>6, <2>0, Zenon DEF Deliver
  <2>2. PICK S : S = Replies(p, db[p], m, ok)
    OBVIOUS
  <2>3. /\ AccountsTyped' /\ Becomes(p, db'[p]) /\ db'[p] = Handled(db[p], m, ok) /\ OthersSame(p)
        /\ saved'[p] = db'[p] \/ (db'[p] = db[p] /\ saved' = saved)
        /\ sent' = sent \cup S /\ net' = (net \ {m}) \cup S
        /\ early' = (IF Early(p, m) THEN early \cup {m.thid} ELSE early)
        /\ early' \subseteq Int
        /\ \A x \in sent' : GoodMsg(x)
    BY <1>1, <2>1, <2>2, ProcessIs
  <2>4. \A x \in S : x.type \in Tracked /\ x.thid \notin spoiled' => x \notin sent
    BY <1>1, <2>2, RepliesNew
  <2>5. /\ MessagesTyped' /\ Once'
        /\ \A x \in sent' : x.type \in Tracked /\ x.thid \notin spoiled' => (x \in Open' <=> (x \in Open /\ x # m) \/ x \in S)
    <3>1. held' = [held EXCEPT ![p] = held[p]]
      BY <1>2, <2>1
    <3>2. spoiled \subseteq spoiled' /\ spoiled' \subseteq spoiled \cup {m.thid} /\ Apart(held[p], spoiled')
      BY <1>1, <1>2
    <3>3. m \notin Msgs(held[p])
      BY <1>2, <1>6
    <3> QED BY <1>1, <1>2, <2>3, <2>4, <3>1, <3>2, <3>3, TakenMessages
  <2>6. HistoryTyped'
    BY <1>1, <2>3 DEF Typed, HistoryTyped
  <2>7. Handles(p, m, ok)
    BY <1>1, <1>3, <1>6, <2>2, <2>3, <2>5, <2>6 DEF Handles, Typed
  <2> QED BY <2>7
<1> QED BY <1>4, <1>5, <1>6

(* The first held message leaves the queue and is handled. *)
LEMMA ReturnedIs ==
    ASSUME Typed, Once, FinalOnce, NEW p \in Parties, held[p] # <<>>, NEW h, h = Head(held[p]), NEW ok \in BOOLEAN,
           held' = [held EXCEPT ![p] = Tail(@)], Process(p, h.m, ok),
           UNCHANGED <<job, seen, epoch, nextId, crossed>>,
           spoiled' = spoiled \/ spoiled' = spoiled \cup {h.m.thid},
           h.m.type \in Tracked /\ h.m.thid \notin spoiled' => ok \/ ~verification_job(db[p], h.m)
    PROVE  Handles(p, h.m, ok)
<1>1. PICK m, u : m = h.m /\ u = Tail(held[p])
  OBVIOUS
<1>2. held[p] \in Seq(HeldType) /\ Msgs(held[p]) \subseteq seen[p] /\ seen[p] \subseteq sent /\ MessagesTyped
      /\ (\A x \in seen[p] : Owner(x.to) = p) /\ Apart(held[p], spoiled)
  BY HeldFacts DEF Typed, Once
<1>3. /\ h \in HeldType /\ u \in Seq(HeldType) /\ Msgs(held[p]) = Msgs(u) \cup {m}
      /\ Apart(u, spoiled) /\ (m.type \in Tracked /\ m.thid \notin spoiled => m \notin Msgs(u))
  BY <1>1, <1>2, TailApart
<1>4. m \in seen[p] /\ m \in sent /\ Owner(m.to) = p /\ m.thid \in Nat /\ m \in Open
  <2>1. m \in seen[p] /\ m \in sent /\ Owner(m.to) = p /\ m \in Msgs(held[p])
    BY <1>2, <1>3
  <2>2. m.thid \in Nat
    BY <2>1 DEF Typed, MessagesTyped, GoodMsg, MsgType
  <2> QED BY <2>1, <2>2 DEF Open
<1>5. PICK S : S = Replies(p, db[p], m, ok)
  OBVIOUS
<1>6. /\ AccountsTyped' /\ Becomes(p, db'[p]) /\ db'[p] = Handled(db[p], m, ok) /\ OthersSame(p)
      /\ saved'[p] = db'[p] \/ (db'[p] = db[p] /\ saved' = saved)
      /\ sent' = sent \cup S /\ net' = (net \ {m}) \cup S
      /\ early' = (IF Early(p, m) THEN early \cup {m.thid} ELSE early)
      /\ early' \subseteq Int
      /\ \A x \in sent' : GoodMsg(x)
  <2>1. Process(p, m, ok)
    BY <1>1
  <2> QED BY <1>4, <1>5, <2>1, ProcessIs
<1>7. spoiled \subseteq spoiled' /\ spoiled' \subseteq spoiled \cup {m.thid}
  BY <1>1
<1>8. \A x \in S : x.type \in Tracked /\ x.thid \notin spoiled' => x \notin sent
  BY <1>4, <1>5, <1>7, RepliesNew
<1>9. /\ MessagesTyped' /\ Once'
      /\ \A x \in sent' : x.type \in Tracked /\ x.thid \notin spoiled' => (x \in Open' <=> (x \in Open /\ x # m) \/ x \in S)
  <2>1. held' = [held EXCEPT ![p] = u]
    BY <1>1
  <2>2. seen' = [seen EXCEPT ![p] = @ \cup {m}]
    <3>1. seen \in [Parties -> SUBSET sent] /\ seen[p] \cup {m} = seen[p]
      BY <1>2, <1>4 DEF MessagesTyped
    <3> QED BY <3>1
  <2>3. Apart(u, spoiled') /\ (m.type \in Tracked /\ m.thid \notin spoiled' => m \notin Msgs(u))
    BY <1>3, <1>7, ApartMore
  <2>4. Msgs(u) \subseteq Msgs(held[p]) /\ \A x \in Msgs(held[p]) : x = m \/ x \in Msgs(u)
    BY <1>3
  <2> QED BY <1>3, <1>4, <1>6, <1>7, <1>8, <2>1, <2>2, <2>3, <2>4, TakenMessages
<1>10. HistoryTyped' /\ JobsTyped'
  <2>1. spoiled \subseteq Int
    BY DEF Typed, HistoryTyped
  <2>2. spoiled' \subseteq Int
    BY <1>1, <1>4, <2>1, OneMore, Zenon
  <2> QED BY <1>6, <2>2, SameJobs DEF Typed, HistoryTyped
<1>11. Handles(p, m, ok)
  <2>1. spoiled' = spoiled \/ spoiled' = spoiled \cup {m.thid}
    BY <1>1
  <2>2. m.type \in Tracked /\ m.thid \notin spoiled' => ok \/ ~verification_job(db[p], m)
    BY <1>1
  <2> QED BY <1>4, <1>5, <1>6, <1>9, <1>10, <2>1, <2>2 DEF Handles, Typed
<1> QED BY <1>1, <1>11

LEMMA ReturnIs ==
    ASSUME Typed, Once, FinalOnce, NEW p \in Parties, Return(p)
    PROVE  Moves \/ \E m \in sent, ok \in BOOLEAN : Handles(p, m, ok)
<1>1. PICK h : h = Head(held[p])
  OBVIOUS
<1>2. held[p] # <<>> /\ UNCHANGED <<job, seen, epoch, nextId, left, spoiled, crossed>>
  BY DEF Return
<1>3. held[p] \in Seq(HeldType) /\ Msgs(held[p]) \subseteq seen[p] /\ seen[p] \subseteq sent /\ MessagesTyped
      /\ (\A x \in seen[p] : Owner(x.to) = p) /\ Apart(held[p], spoiled)
  BY HeldFacts DEF Typed, Once
<1>4. PICK u : u = Tail(held[p])
  OBVIOUS
<1>5. /\ h \in HeldType /\ u \in Seq(HeldType) /\ Msgs(held[p]) = Msgs(u) \cup {h.m}
      /\ Apart(u, spoiled) /\ (h.m.type \in Tracked /\ h.m.thid \notin spoiled => h.m \notin Msgs(u))
  BY <1>1, <1>2, <1>3, <1>4, TailApart
<1>6. CASE ~h.check /\ verification_job(db[p], h.m)
  <2>1. /\ held' = [held EXCEPT ![p] = Append(Tail(@), [h EXCEPT !.check = TRUE])]
        /\ UNCHANGED <<db, saved, early, net, sent>>
    BY <1>1, <1>6, Zenon DEF Return
  <2>2. PICK x : x = [h EXCEPT !.check = TRUE]
    OBVIOUS
  <2>3. x \in HeldType /\ x.m = h.m
    BY <1>5, <2>2 DEF HeldType
  <2>4. PICK v : v = Append(u, x)
    OBVIOUS
  <2>5. v \in Seq(HeldType) /\ Msgs(v) = Msgs(held[p]) /\ Apart(v, spoiled)
    BY <1>5, <2>3, <2>4, AppendApart
  <2>6. /\ held' \in [Parties -> Seq(HeldType)] /\ held'[p] = v /\ \A c \in Parties : c # p => held'[c] = held[c]
    BY <1>3, <1>4, <2>1, <2>2, <2>4, <2>5 DEF MessagesTyped
  <2>7. \A c \in Parties : Msgs(held'[c]) = Msgs(held[c]) /\ Apart(held'[c], spoiled)
    BY <2>5, <2>6 DEF Once
  <2>8. MessagesTyped'
    <3>1. \A c \in Parties : \A i \in 1..Len(held'[c]) : held'[c][i].m \in seen'[c]
      <4>1. \A c \in Parties : \A i \in 1..Len(held'[c]) : held'[c][i].m \in Msgs(held[c])
        BY <2>7 DEF Msgs
      <4>2. \A c \in Parties : Msgs(held[c]) \subseteq seen[c]
        BY <1>3, HeldFacts
      <4> QED BY <1>2, <4>1, <4>2
    <3> QED BY <1>2, <1>3, <2>1, <2>6, <3>1 DEF MessagesTyped
  <2>9. Once'
    BY <1>2, <2>1, <2>7 DEF Once
  <2>10. \A y \in sent : y \in Open' <=> y \in Open
    <3>1. \A y \in sent : Owner(y.to) \in Parties
      BY <1>3, Owners DEF MessagesTyped, GoodMsg, MsgType
    <3> QED BY <2>1, <2>7, <3>1 DEF Open
  <2>11. AccountsTyped' /\ HistoryTyped' /\ JobsTyped'
    BY <1>2, <2>1, SameAccounts, SameJobs DEF Typed, HistoryTyped
  <2>12. Moves
    BY <1>2, <2>1, <2>8, <2>9, <2>10, <2>11 DEF Moves, Typed
  <2> QED BY <2>12
<1>7. CASE ~(~h.check /\ verification_job(db[p], h.m))
  <2>1. PICK ok \in BOOLEAN : ok = h.check
    BY <1>5 DEF HeldType
  <2>2. held' = [held EXCEPT ![p] = Tail(@)] /\ Process(p, h.m, ok)
    BY <1>1, <1>7, <2>1, Zenon DEF Return
  <2>3. ok \/ ~verification_job(db[p], h.m)
    BY <1>7, <2>1
  <2>4. Handles(p, h.m, ok)
    BY <1>1, <1>2, <2>2, <2>3, ReturnedIs
  <2>5. h.m \in sent
    BY <1>3, <1>5
  <2> QED BY <2>4, <2>5
<1> QED BY <1>6, <1>7

LEMMA CheckFailsIs ==
    ASSUME Typed, Once, FinalOnce, NEW p \in Parties, CheckFails(p)
    PROVE  \E m \in sent, ok \in BOOLEAN : Handles(p, m, ok)
<1>1. PICK h : h = Head(held[p])
  OBVIOUS
<1>2. PICK ok \in BOOLEAN : ok = FALSE
  OBVIOUS
<1>3. held[p] # <<>> /\ UNCHANGED <<job, seen, epoch, nextId, crossed>>
      /\ held' = [held EXCEPT ![p] = Tail(@)] /\ Process(p, h.m, ok) /\ spoiled' = spoiled \cup {h.m.thid}
  BY <1>1, <1>2, Zenon DEF CheckFails
<1>4. h.m.thid \in spoiled'
  BY <1>3
<1>5. Handles(p, h.m, ok)
  BY <1>1, <1>3, <1>4, ReturnedIs
<1>6. h.m \in sent
  BY <1>5 DEF Handles, Open
<1> QED BY <1>5, <1>6

LEMMA NetworkIs ==
    ASSUME Typed, Once, (\E m \in net : Lose(m)) \/ (\E m \in sent : Redeliver(m))
    PROVE  Moves
<1>1. PICK m \in sent : /\ spoiled' = spoiled \cup {m.thid} /\ (net' = net \ {m} \/ net' = net \cup {m})
                        /\ UNCHANGED <<db, saved, job, held, seen, epoch, sent, nextId, early, crossed>>
  <2>1. \A m \in net : m \in sent
    BY DEF Typed, MessagesTyped
  <2> QED BY <2>1 DEF Lose, Redeliver
<1>2. MessagesTyped /\ m.thid \in Nat /\ spoiled \subseteq Int
  BY DEF Typed, MessagesTyped, HistoryTyped, GoodMsg, MsgType
<1>3. MessagesTyped'
  BY <1>1, <1>2 DEF MessagesTyped
<1>4. Once'
  <2>1. \A x \in net' : x.type \in Tracked /\ x.thid \notin spoiled' => x \notin seen'[Owner(x.to)]
    BY <1>1 DEF Once
  <2>2. \A c \in Parties : Apart(held'[c], spoiled')
    <3>1. spoiled \subseteq spoiled' /\ held' = held
      BY <1>1
    <3> QED BY <3>1, ApartMore DEF Once
  <2> QED BY <2>1, <2>2 DEF Once
<1>5. \A x \in sent : x.type \in Tracked /\ x.thid \notin spoiled' => (x \in Open' <=> x \in Open)
  BY <1>1 DEF Open
<1>6. AccountsTyped' /\ JobsTyped' /\ HistoryTyped'
  <2>1. spoiled' \subseteq Int
    BY <1>1, <1>2, OneMore, Zenon
  <2> QED BY <1>1, <2>1, SameAccounts, SameJobs DEF Typed, HistoryTyped
<1>7. spoiled \subseteq spoiled'
  BY <1>1
<1> QED BY <1>1, <1>3, <1>4, <1>5, <1>6, <1>7 DEF Moves, Typed

-----------------------------------------------------------------------------
(* What a message does to an account, whatever its type. *)
InKinds == {"RequestIn", "VrcRequestIn"}
TaskAsk(kind) == IF kind = "RequestIn" THEN "request" ELSE "vrcRequest"

(* The record a message may end, or establish. *)
Moved(m, st) ==
    \/ st = "RequestSent" /\ m.type \in {"accept", "reject"}
    \/ st = "RequestAccepted" /\ m.type = "finalize"

LEMMA OneRelMoved ==
    ASSUME NEW p \in Parties, NEW d, GoodAccount(d, p), NEW e, NEW q \in Parties, NEW r \in RelType \cup {None},
           e.rel = [d.rel EXCEPT ![q] = r], NEW t0, NEW st0, st0 # "Established", At(d, q, t0, st0),
           r # None => r.task = t0 /\ r.st = "Established"
    PROVE  /\ \A a \in Parties, t \in Nat, st \in States :
                /\ At(e, a, t, st) => At(d, a, t, st) \/ st = "Established"
                /\ At(d, a, t, st) => At(e, a, t, st) \/ (a = q /\ t = t0 /\ st = st0)
           /\ ~At(e, q, t0, st0)
           /\ r # None => At(e, q, t0, "Established")
           /\ \A a \in Parties : e.rel[a] # None => d.rel[a] # None /\ e.rel[a].task = d.rel[a].task
           /\ \A a \in Parties : Established(d, a) => e.rel[a] = d.rel[a]
<1>1. e.rel[q] = r /\ \A a \in Parties : a # q => e.rel[a] = d.rel[a]
  BY DEF GoodAccount, AccountType
<1> QED BY <1>1 DEF At, Established

LEMMA HandledRel ==
    ASSUME NEW p \in Parties, NEW d, GoodAccount(d, p), NEW m, GoodMsg(m), Owner(m.to) = p, NEW ok \in BOOLEAN,
           NEW q, q = Owner(m.from), NEW e, e = Handled(d, m, ok)
    PROVE  /\ \A a \in Parties, t \in Nat, st \in States :
                /\ At(e, a, t, st) => At(d, a, t, st) \/ st = "Established"
                /\ At(d, a, t, st) => At(e, a, t, st) \/ (a = q /\ t = m.thid /\ Moved(m, st))
           /\ m.type = "accept" /\ ok => ~At(e, q, m.thid, "RequestSent")
           /\ m.type = "accept" /\ ok /\ At(d, q, m.thid, "RequestSent") => At(e, q, m.thid, "Established")
           /\ m.type = "finalize" => ~At(e, q, m.thid, "RequestAccepted")
           /\ \A a \in Parties : e.rel[a] # None => d.rel[a] # None /\ e.rel[a].task = d.rel[a].task
           /\ \A a \in Parties : Established(d, a) => e.rel[a] = d.rel[a]
<1>0. q \in Parties /\ m.thid \in Nat
  BY Owners DEF GoodMsg, MsgType
<1>1. CASE m.type = "reject"
  <2>1. IF At(d, q, m.thid, "RequestSent") THEN e.rel = [d.rel EXCEPT ![q] = None] ELSE e = d
    BY <1>1, OnRejectedDoes DEF Handled
  <2>2. CASE At(d, q, m.thid, "RequestSent")
    BY <1>0, <1>1, <2>1, <2>2, OneRelMoved DEF Moved
  <2> QED BY <1>1, <2>1, <2>2
<1>2. CASE m.type = "accept"
  <2>1. IF At(d, q, m.thid, "RequestSent") /\ ok
        THEN e.rel = [d.rel EXCEPT ![q] = Rel(m.thid, d.rel[q].our, m.did, "Established")] ELSE e = d
    BY <1>2, OnAcceptedDoes DEF Handled
  <2>2. CASE At(d, q, m.thid, "RequestSent") /\ ok
    <3>1. d.rel[q].our \in Dids /\ m.did \in Dids
      BY <1>0, <1>2, <2>2, NoneElse DEF At, GoodAccount, AccountType, RelType, GoodMsg
    <3>2. PICK r : r = Rel(m.thid, d.rel[q].our, m.did, "Established")
      OBVIOUS
    <3>3. r \in RelType /\ r # None /\ r.task = m.thid /\ r.st = "Established"
      BY <1>0, <3>1, <3>2, RelParts DEF States
    <3>4. e.rel = [d.rel EXCEPT ![q] = r]
      BY <2>1, <2>2, <3>2
    <3>5. /\ \A a \in Parties, t \in Nat, st \in States :
                /\ At(e, a, t, st) => At(d, a, t, st) \/ st = "Established"
                /\ At(d, a, t, st) => At(e, a, t, st) \/ (a = q /\ t = m.thid /\ st = "RequestSent")
          /\ ~At(e, q, m.thid, "RequestSent")
          /\ \A a \in Parties : e.rel[a] # None => d.rel[a] # None /\ e.rel[a].task = d.rel[a].task
          /\ \A a \in Parties : Established(d, a) => e.rel[a] = d.rel[a]
      <4>1. At(d, q, m.thid, "RequestSent")
        BY <2>2
      <4> QED BY <1>0, <3>3, <3>4, <4>1, OneRelMoved
    <3>6. At(e, q, m.thid, "Established")
      BY <1>0, <3>3, <3>4 DEF At, GoodAccount, AccountType
    <3> QED BY <1>2, <3>5, <3>6 DEF Moved
  <2> QED BY <1>2, <2>1, <2>2
<1>3. CASE m.type = "finalize"
  <2>1. IF At(d, q, m.thid, "RequestAccepted")
        THEN e.rel = [d.rel EXCEPT ![q] = Rel(m.thid, d.rel[q].our, d.rel[q].remote, "Established")] ELSE e = d
    BY <1>3, OnFinalizeDoes DEF Handled
  <2>2. CASE At(d, q, m.thid, "RequestAccepted")
    <3>1. d.rel[q].our \in Dids /\ d.rel[q].remote \in Dids
      BY <1>0, <2>2, NoneElse DEF At, GoodAccount, AccountType, RelType
    <3>2. PICK r : r = Rel(m.thid, d.rel[q].our, d.rel[q].remote, "Established")
      OBVIOUS
    <3>3. r \in RelType /\ r # None /\ r.task = m.thid /\ r.st = "Established"
      BY <1>0, <3>1, <3>2, RelParts DEF States
    <3>4. e.rel = [d.rel EXCEPT ![q] = r]
      BY <2>1, <2>2, <3>2
    <3>5. /\ \A a \in Parties, t \in Nat, st \in States :
                /\ At(e, a, t, st) => At(d, a, t, st) \/ st = "Established"
                /\ At(d, a, t, st) => At(e, a, t, st) \/ (a = q /\ t = m.thid /\ st = "RequestAccepted")
          /\ ~At(e, q, m.thid, "RequestAccepted")
          /\ \A a \in Parties : e.rel[a] # None => d.rel[a] # None /\ e.rel[a].task = d.rel[a].task
          /\ \A a \in Parties : Established(d, a) => e.rel[a] = d.rel[a]
      BY <1>0, <2>2, <3>3, <3>4, OneRelMoved
    <3> QED BY <1>3, <3>5 DEF Moved
  <2> QED BY <1>3, <2>1, <2>2
<1>4. CASE e.rel = d.rel /\ m.type \notin {"accept", "finalize"}
  BY <1>4 DEF At
<1>5. CASE m.type = "request"
  BY <1>4, <1>5, OnRequestDoes DEF Handled
<1>6. CASE m.type = "vrcRequest"
  BY <1>4, <1>6, OnVrcRequestDoes DEF Handled
<1>7. CASE m.type = "vrcReject"
  BY <1>4, <1>7, GoodLess DEF Handled, OnVrcRequestRejected
<1>8. CASE m.type = "vrc"
  BY <1>4, <1>8, OnVrcIssuedDoes DEF Handled
<1>9. CASE m.type = "ping"
  BY <1>4, <1>9, OnTrustPingDoes DEF Handled
<1>10. CASE m.type = "pong"
  BY <1>4, <1>10, GoodLess DEF Handled
<1> QED BY <1>1, <1>2, <1>3, <1>5, <1>6, <1>7, <1>8, <1>9, <1>10 DEF GoodMsg, MsgType, MsgKinds

(* Which tasks come and go. *)
Ending == {"accept", "reject", "finalize", "pong"}

LEMMA HandledTasks ==
    ASSUME NEW p \in Parties, NEW d, GoodAccount(d, p), NEW m, GoodMsg(m), Owner(m.to) = p, NEW ok \in BOOLEAN,
           NEW q, q = Owner(m.from), NEW e, e = Handled(d, m, ok)
    PROVE  /\ \A t \in e.tasks :
                /\ t.kind \in InKinds => t \in d.tasks \/ (t.id = m.thid /\ t.peer = q /\ TaskAsk(t.kind) = m.type)
                /\ t.kind = "VrcRequestOut" => t \in d.tasks
           /\ \A t \in d.tasks : t \in e.tasks \/ (t.id = m.thid /\ (m.type \in Ending \/ t.kind = "VrcRequestOut"))
<1>1. CASE m.type = "reject"
  <2>1. e = d \/ e.tasks = Less(d, m.thid)
    BY <1>1, OnRejectedDoes DEF Handled
  <2> QED BY <1>1, <2>1 DEF Less, Ending, InKinds
<1>2. CASE m.type = "accept"
  <2>1. e = d \/ e.tasks = Less(d, m.thid)
    BY <1>2, OnAcceptedDoes DEF Handled
  <2> QED BY <1>2, <2>1 DEF Less, Ending, InKinds
<1>3. CASE m.type = "finalize"
  <2>1. e = d \/ e.tasks = Less(d, m.thid)
    BY <1>3, OnFinalizeDoes DEF Handled
  <2> QED BY <1>3, <2>1 DEF Less, Ending, InKinds
<1>4. CASE m.type = "request"
  <2>1. \/ e = d
        \/ \E t \in TaskType : t.id = m.thid /\ t.kind = "RequestIn" /\ t.peer = q /\ e.tasks = d.tasks \cup {t}
    BY <1>4, OnRequestDoes DEF Handled
  <2> QED BY <1>4, <2>1 DEF TaskAsk, InKinds
<1>5. CASE m.type = "vrcRequest"
  <2>1. \/ e = d
        \/ \E t \in TaskType : t.id = m.thid /\ t.kind = "VrcRequestIn" /\ t.peer = q /\ e.tasks = d.tasks \cup {t}
    BY <1>5, OnVrcRequestDoes DEF Handled
  <2> QED BY <1>5, <2>1 DEF TaskAsk, InKinds
<1>6. CASE m.type = "vrcReject"
  <2>1. CASE is_our_vrc_request_to(d, m) = {}
    BY <1>6, <2>1 DEF Handled, OnVrcRequestRejected
  <2>2. CASE is_our_vrc_request_to(d, m) # {}
    <3>1. e.tasks = Less(d, m.thid)
      BY <1>6, <2>2, GoodLess DEF Handled, OnVrcRequestRejected
    <3>2. PICK u \in d.tasks : u.id = m.thid /\ u.kind = "VrcRequestOut"
      BY <2>2 DEF is_our_vrc_request_to, OurVrcRequest
    <3>3. \A t \in d.tasks : t.id = m.thid => t = u
      BY <3>2 DEF GoodAccount
    <3> QED BY <3>1, <3>2, <3>3 DEF Less
  <2> QED BY <2>1, <2>2
<1>7. CASE m.type = "vrc"
  <2>1. \/ e = d
        \/ /\ \A t \in e.tasks : t \in d.tasks \/ t.kind = "VrcIssued"
           /\ \A t \in d.tasks : t \in e.tasks \/ (t.id = m.thid /\ OurVrcRequest(d, m, q))
    BY <1>7, OnVrcIssuedDoes DEF Handled
  <2>2. OurVrcRequest(d, m, q) => \A t \in d.tasks : t.id = m.thid => t.kind = "VrcRequestOut"
    BY DEF OurVrcRequest, GoodAccount
  <2> QED BY <2>1, <2>2 DEF InKinds
<1>8. CASE m.type = "ping"
  BY <1>8, OnTrustPingDoes DEF Handled, InKinds
<1>9. CASE m.type = "pong"
  BY <1>9, GoodLess DEF Handled, Less, Ending
<1> QED BY <1>1, <1>2, <1>3, <1>4, <1>5, <1>6, <1>7, <1>8, <1>9 DEF GoodMsg, MsgType, MsgKinds

LEMMA HandledVrc ==
    ASSUME NEW p \in Parties, NEW d, GoodAccount(d, p), NEW m, GoodMsg(m), Owner(m.to) = p, NEW ok \in BOOLEAN,
           NEW q, q = Owner(m.from), NEW e, e = Handled(d, m, ok)
    PROVE  /\ m.type = "vrcRequest" /\ EstablishedSender(d, m) # {} /\ check_task_capacity(d, m.thid) =>
                \E u \in e.tasks : u.id = m.thid /\ u.kind = "VrcRequestIn"
           /\ \/ m.type = "vrcReject" /\ is_our_vrc_request_to(d, m) # {}
              \/ m.type = "vrc" /\ vet_vrc_issued(d, m) # {} /\ ok /\ OurVrcRequest(d, m, q)
              => /\ \E u \in d.tasks : u.id = m.thid /\ u.kind = "VrcRequestOut"
                 /\ \A t \in e.tasks : t.id = m.thid => t.kind # "VrcRequestOut"
<1>1. CASE m.type = "vrcRequest"
  BY <1>1, OnVrcRequestDoes DEF Handled
<1>2. CASE m.type = "vrcReject" /\ is_our_vrc_request_to(d, m) # {}
  <2>1. e.tasks = Less(d, m.thid)
    BY <1>2, GoodLess DEF Handled, OnVrcRequestRejected
  <2>2. \E u \in d.tasks : u.id = m.thid /\ u.kind = "VrcRequestOut"
    BY <1>2 DEF is_our_vrc_request_to, OurVrcRequest
  <2> QED BY <1>2, <2>1, <2>2 DEF Less
<1>3. CASE m.type = "vrc" /\ vet_vrc_issued(d, m) # {} /\ ok /\ OurVrcRequest(d, m, q)
  <2>1. e = OnVrcIssued(d, m, ok)
    BY <1>3 DEF Handled
  <2>2. IF vet_vrc_issued(d, m) # {} /\ ok
        THEN OurVrcRequest(d, m, q) => \A t \in e.tasks : t.id = m.thid => t.kind = "VrcIssued"
        ELSE e = d
    BY <2>1, OnVrcIssuedDoes
  <2> QED BY <1>3, <2>2 DEF OurVrcRequest
<1> QED BY <1>1, <1>2, <1>3

-----------------------------------------------------------------------------
(* The invariant.  First what holds of ids and of an account's records. *)
AskTypes == {"request", "vrcRequest"}
AnswerTypes == {"accept", "reject", "vrc", "vrcReject"}
Told(S, p, q, t, type) == \E m \in S : m.type = type /\ m.thid = t /\ Owner(m.from) = p /\ Owner(m.to) = q

(* Ids are taken in order, and a request that is not sent yet is its job's alone. *)
Fresh ==
    /\ \A m \in sent : m.thid < nextId
    /\ \A p \in Parties, domain \in Domains : job[p][domain] # None => job[p][domain].id < nextId
    /\ \A p \in Parties :
         job[p]["Relationship"] # None /\ job[p]["Relationship"].kind \in NewKinds /\ job[p]["Relationship"].st = "run" =>
             \A m \in sent : m.thid # job[p]["Relationship"].id
    /\ \A p, q \in Parties :
         /\ p # q /\ job[p]["Relationship"] # None /\ job[q]["Relationship"] # None
         /\ job[p]["Relationship"].kind \in NewKinds /\ job[q]["Relationship"].kind \in NewKinds
         => job[p]["Relationship"].id # job[q]["Relationship"].id
RelIds ==
    \A p, q \in Parties : /\ db[p].rel[q] # None => db[p].rel[q].task < nextId
                          /\ saved[p].rel[q] # None => saved[p].rel[q].task < nextId

(* What is on disk differs from the account only where a thread is cut, or  *)
(* a request is still on its way.                                           *)
CreatingId(p, q, t) ==
    /\ job[p]["Relationship"] # None /\ job[p]["Relationship"].kind = "Create"
    /\ job[p]["Relationship"].peer = q /\ job[p]["Relationship"].id = t
OnDisk ==
    /\ \A p \in Parties : saved[p].tasks = db[p].tasks
    /\ \A p, q \in Parties :
         \/ saved[p].rel[q] = db[p].rel[q]
         \/ /\ saved[p].rel[q] = None \/ saved[p].rel[q].task \in spoiled
            /\ db[p].rel[q] = None \/ db[p].rel[q].task \in spoiled \/ CreatingId(p, q, db[p].rel[q].task)

(* While a request is on its way, a record that waits is its record. *)
Latest ==
    \A p, q \in Parties :
        /\ job[p]["Relationship"] # None /\ job[p]["Relationship"].kind = "Create" /\ job[p]["Relationship"].peer = q
        /\ db[p].rel[q] # None /\ db[p].rel[q].st = "RequestSent"
        => db[p].rel[q].task = job[p]["Relationship"].id

Kept == Typed /\ Once /\ RelIds /\ OnDisk /\ Latest

(* What a step that handles m does, to what the rest of the invariant says. *)
Takes(p, m) ==
    /\ Kept' /\ m \in Open /\ Owner(m.to) = p
    /\ UNCHANGED <<job, nextId>> /\ OthersSame(p) /\ spoiled \subseteq spoiled' /\ early \subseteq early'
    /\ sent \subseteq sent'
    /\ \A x \in sent' : x \in sent \/
         /\ x.thid = m.thid /\ Owner(x.from) = p /\ Owner(x.to) = Owner(m.from)
         /\ (x.type = "finalize" /\ m.type = "accept") \/ (x.type = "pong" /\ m.type = "ping")
    /\ \A x \in sent' : x.type \in Tracked /\ x.thid \notin spoiled' =>
         (x \in Open' <=> (x \in Open /\ x # m) \/ x \notin sent)
    /\ \A a \in Parties, t \in Nat, st \in States :
         /\ At(db'[p], a, t, st) => At(db[p], a, t, st) \/ st = "Established"
         /\ At(db[p], a, t, st) => At(db'[p], a, t, st) \/ (a = Owner(m.from) /\ t = m.thid /\ Moved(m, st))
    /\ m.type = "accept" /\ m.thid \notin spoiled' =>
         /\ ~At(db'[p], Owner(m.from), m.thid, "RequestSent")
         /\ At(db[p], Owner(m.from), m.thid, "RequestSent") => Told(sent', p, Owner(m.from), m.thid, "finalize")
    /\ m.type = "finalize" =>
         /\ ~At(db'[p], Owner(m.from), m.thid, "RequestAccepted")
         /\ job[p]["Inbox"] # None /\ job[p]["Inbox"].id = m.thid => m.thid \in early'
    /\ \A t \in db'[p].tasks :
         /\ t.kind \in InKinds => t \in db[p].tasks \/ (t.id = m.thid /\ t.peer = Owner(m.from) /\ TaskAsk(t.kind) = m.type)
         /\ t.kind = "VrcRequestOut" => t \in db[p].tasks
    /\ \A t \in db[p].tasks : t \in db'[p].tasks \/ (t.id = m.thid /\ (m.type \in Ending \/ t.kind = "VrcRequestOut"))
    /\ m.thid \notin spoiled' \cup early' =>
         /\ m.type = "vrcRequest" => \E u \in db'[p].tasks : u.id = m.thid /\ u.kind = "VrcRequestIn"
         /\ m.type \in {"vrc", "vrcReject"} =>
              /\ \E u \in db[p].tasks : u.id = m.thid /\ u.kind = "VrcRequestOut"
              /\ \A t \in db'[p].tasks : t.id = m.thid => t.kind # "VrcRequestOut"

LEMMA TakesIs ==
    ASSUME Kept, FinalOnce, NEW p \in Parties, NEW m \in sent, NEW ok \in BOOLEAN, Handles(p, m, ok)
    PROVE  Takes(p, m)
<1>1. PICK q : q = Owner(m.from)
  OBVIOUS
<1>2. PICK S : S = Replies(p, db[p], m, ok)
  OBVIOUS
<1>3. PICK d : d = db[p]
  OBVIOUS
<1>4. PICK e : e = db'[p]
  OBVIOUS
<1>5. /\ Typed' /\ Once' /\ m \in Open /\ Owner(m.to) = p
      /\ Becomes(p, e) /\ e = Handled(d, m, ok) /\ OthersSame(p)
      /\ saved'[p] = e \/ (e = d /\ saved' = saved)
      /\ sent' = sent \cup S
      /\ early' = (IF Early(p, m) THEN early \cup {m.thid} ELSE early)
      /\ UNCHANGED <<job, nextId>>
      /\ spoiled \subseteq spoiled'
      /\ \A x \in sent' : x.type \in Tracked /\ x.thid \notin spoiled' =>
           (x \in Open' <=> (x \in Open /\ x # m) \/ x \in S)
      /\ m.type \in Tracked /\ m.thid \notin spoiled' => ok \/ ~verification_job(d, m)
  BY <1>2, <1>3, <1>4, Zenon DEF Handles
<1>6. GoodMsg(m) /\ GoodAccount(d, p) /\ HistoryTyped /\ q \in Parties /\ m.thid \in Nat
  <2>1. GoodMsg(m) /\ GoodAccount(d, p) /\ HistoryTyped
    BY <1>3 DEF Kept, Typed, MessagesTyped, AccountsTyped
  <2> QED BY <1>1, <2>1, Owners DEF GoodMsg, MsgType
<1>7. /\ \A x \in S : GoodMsg(x) /\ x.thid = m.thid /\ Owner(x.from) = p /\ Owner(x.to) = q
           /\ (\/ x.type = "finalize" /\ m.type = "accept"
               \/ x.type = "pong" /\ m.type = "ping")
      /\ m.type = "accept" /\ ok /\ At(d, q, m.thid, "RequestSent") => \E x \in S : x.type = "finalize"
  BY <1>1, <1>2, <1>3, <1>5, <1>6, RepliesAre
<1>8. /\ \A a \in Parties, t \in Nat, st \in States :
           /\ At(e, a, t, st) => At(d, a, t, st) \/ st = "Established"
           /\ At(d, a, t, st) => At(e, a, t, st) \/ (a = q /\ t = m.thid /\ Moved(m, st))
      /\ m.type = "accept" /\ ok => ~At(e, q, m.thid, "RequestSent")
      /\ m.type = "finalize" => ~At(e, q, m.thid, "RequestAccepted")
      /\ \A a \in Parties : e.rel[a] # None => d.rel[a] # None /\ e.rel[a].task = d.rel[a].task
  BY <1>1, <1>5, <1>6, HandledRel
<1>9. Becomes(p, e) /\ db' = [db EXCEPT ![p] = e] /\ saved'[p].tasks = e.tasks
      /\ \A c \in Parties : c # p => saved'[c] = saved[c] /\ db'[c] = db[c]
  BY <1>4, <1>5 DEF Becomes, Kept, Typed, AccountsTyped, OnDisk, OthersSame
<1>10. RelIds'
  BY <1>3, <1>4, <1>5, <1>8, <1>9 DEF RelIds, Kept
<1>11. OnDisk'
  <2>1. \A c \in Parties : saved'[c].tasks = db'[c].tasks
    BY <1>4, <1>9 DEF OnDisk, Kept
  <2>2. \A a, b \in Parties : \A t : CreatingId(a, b, t)' <=> CreatingId(a, b, t)
    BY <1>5 DEF CreatingId
  <2>3. ASSUME NEW a \in Parties, NEW b \in Parties
        PROVE  \/ saved'[a].rel[b] = db'[a].rel[b]
               \/ /\ saved'[a].rel[b] = None \/ saved'[a].rel[b].task \in spoiled'
                  /\ db'[a].rel[b] = None \/ db'[a].rel[b].task \in spoiled' \/ CreatingId(a, b, db'[a].rel[b].task)
    <3>1. CASE saved'[a] = db'[a]
      BY <3>1
    <3>2. CASE saved'[a] # db'[a]
      <4>1. saved'[a] = saved[a] /\ db'[a] = db[a]
        BY <1>3, <1>4, <1>5, <1>9, <3>2
      <4> QED BY <1>5, <4>1 DEF OnDisk, Kept
    <3> QED BY <3>1, <3>2
  <2> QED BY <2>1, <2>2, <2>3, <1>5 DEF OnDisk, CreatingId
<1>12. Latest'
  <2>1. \A a, b \in Parties : db'[a].rel[b] # None /\ db'[a].rel[b].st = "RequestSent" =>
          db[a].rel[b] # None /\ db[a].rel[b].st = "RequestSent" /\ db[a].rel[b].task = db'[a].rel[b].task
    <3>1. ASSUME NEW b \in Parties, e.rel[b] # None, e.rel[b].st = "RequestSent"
          PROVE  d.rel[b] # None /\ d.rel[b].st = "RequestSent" /\ d.rel[b].task = e.rel[b].task
      <4>1. d.rel[b] # None /\ e.rel[b].task = d.rel[b].task
        BY <1>8, <3>1
      <4>2. d.rel[b] \in RelType
        BY <1>6, <4>1 DEF GoodAccount, AccountType
      <4>3. e.rel[b].task \in Nat
        BY <4>1, <4>2 DEF RelType
      <4>4. At(e, b, e.rel[b].task, "RequestSent")
        BY <3>1 DEF At
      <4>5. At(d, b, e.rel[b].task, "RequestSent")
        BY <1>8, <4>3, <4>4 DEF States
      <4> QED BY <4>5 DEF At
    <3> QED BY <1>3, <1>4, <1>9, <3>1
  <2> QED BY <1>5, <2>1 DEF Latest, Kept
<1>13. m.type = "accept" /\ m.thid \notin spoiled' => ok \/ ~At(d, q, m.thid, "RequestSent")
  BY <1>1, <1>5, <1>6, AwaitingIs DEF verification_job, Handshake, Tracked
<1>14. m.type = "accept" /\ m.thid \notin spoiled' =>
         /\ ~At(e, q, m.thid, "RequestSent")
         /\ At(d, q, m.thid, "RequestSent") => Told(sent', p, q, m.thid, "finalize")
  <2>1. SUFFICES ASSUME m.type = "accept", m.thid \notin spoiled'
                 PROVE  /\ ~At(e, q, m.thid, "RequestSent")
                        /\ At(d, q, m.thid, "RequestSent") => Told(sent', p, q, m.thid, "finalize")
    OBVIOUS
  <2>2. At(d, q, m.thid, "RequestSent") => ok /\ \E x \in S : x.type = "finalize"
    BY <1>7, <1>13, <2>1
  <2>3. ~At(e, q, m.thid, "RequestSent")
    BY <1>6, <1>8, <1>13, <2>1 DEF States
  <2> QED BY <1>5, <1>7, <2>2, <2>3 DEF Told
<1>15. m.type = "finalize" =>
         /\ ~At(e, q, m.thid, "RequestAccepted")
         /\ job[p]["Inbox"] # None /\ job[p]["Inbox"].id = m.thid => m.thid \in early'
  BY <1>5, <1>8 DEF Early
<1>16. /\ \A t \in e.tasks :
            /\ t.kind \in InKinds => t \in d.tasks \/ (t.id = m.thid /\ t.peer = q /\ TaskAsk(t.kind) = m.type)
            /\ t.kind = "VrcRequestOut" => t \in d.tasks
       /\ \A t \in d.tasks : t \in e.tasks \/ (t.id = m.thid /\ (m.type \in Ending \/ t.kind = "VrcRequestOut"))
  BY <1>1, <1>5, <1>6, HandledTasks
<1>17. m.thid \notin spoiled' \cup early' =>
         /\ m.type = "vrcRequest" => \E u \in e.tasks : u.id = m.thid /\ u.kind = "VrcRequestIn"
         /\ m.type \in {"vrc", "vrcReject"} =>
              /\ \E u \in d.tasks : u.id = m.thid /\ u.kind = "VrcRequestOut"
              /\ \A t \in e.tasks : t.id = m.thid => t.kind # "VrcRequestOut"
  <2>1. SUFFICES ASSUME m.thid \notin spoiled', m.thid \notin early'
                 PROVE  /\ m.type = "vrcRequest" => \E u \in e.tasks : u.id = m.thid /\ u.kind = "VrcRequestIn"
                        /\ m.type \in {"vrc", "vrcReject"} =>
                             /\ \E u \in d.tasks : u.id = m.thid /\ u.kind = "VrcRequestOut"
                             /\ \A t \in e.tasks : t.id = m.thid => t.kind # "VrcRequestOut"
    OBVIOUS
  <2>2. ~Early(p, m)
    BY <1>5, <2>1
  <2>3. /\ m.type = "vrcRequest" => EstablishedSender(d, m) # {} /\ check_task_capacity(d, m.thid)
        /\ m.type = "vrc" => vet_vrc_issued(d, m) # {} /\ OurVrcRequest(d, m, q)
        /\ m.type = "vrcReject" => is_our_vrc_request_to(d, m) # {}
    BY <1>1, <1>3, <2>2 DEF Early
  <2>4. m.type = "vrc" => ok
    BY <1>5, <2>1, <2>3 DEF verification_job, Tracked
  <2>5. m.type = "vrcRequest" => \E u \in e.tasks : u.id = m.thid /\ u.kind = "VrcRequestIn"
    BY <1>5, <1>6, <2>3, HandledVrc
  <2>6. \/ m.type = "vrcReject" /\ is_our_vrc_request_to(d, m) # {}
        \/ m.type = "vrc" /\ vet_vrc_issued(d, m) # {} /\ ok /\ OurVrcRequest(d, m, q)
        => /\ \E u \in d.tasks : u.id = m.thid /\ u.kind = "VrcRequestOut"
           /\ \A t \in e.tasks : t.id = m.thid => t.kind # "VrcRequestOut"
    BY <1>1, <1>5, <1>6, HandledVrc
  <2> QED BY <2>3, <2>4, <2>5, <2>6
<1>18. \A x \in sent' : x.type \in Tracked /\ x.thid \notin spoiled' =>
         (x \in Open' <=> (x \in Open /\ x # m) \/ x \notin sent)
  <2>1. \A x \in S : x.type \in Tracked /\ x.thid \notin spoiled' => x \notin sent
    BY <1>2, <1>3, <1>5, RepliesNew DEF Kept
  <2>2. Open \subseteq sent
    BY DEF Open
  <2> QED BY <1>5, <2>1, <2>2
<1>19. sent \subseteq sent' /\ \A x \in sent' : x \in sent \/
         /\ x.thid = m.thid /\ Owner(x.from) = p /\ Owner(x.to) = q
         /\ (x.type = "finalize" /\ m.type = "accept") \/ (x.type = "pong" /\ m.type = "ping")
  BY <1>5, <1>7
<1>20. early \subseteq early'
  BY <1>5
<1>21. Kept'
  BY <1>5, <1>10, <1>11, <1>12 DEF Kept
<1> QED BY <1>1, <1>3, <1>4, <1>5, <1>8, <1>14, <1>15, <1>16, <1>17, <1>18, <1>19, <1>20, <1>21 DEF Takes

-----------------------------------------------------------------------------
(* Then where messages, tasks and jobs come from.                           *)
AnswerAsk(type) == IF type \in {"accept", "reject"} THEN "request" ELSE "vrcRequest"
JobAsk(kind) == IF kind \in {"Accept", "Reject"} THEN "request" ELSE "vrcRequest"

OneStart ==
    \A r, s \in sent :
        r.type \in AskTypes \cup {"ping"} /\ s.type \in AskTypes \cup {"ping"} /\ r.thid = s.thid => r = s
MessagesFollow ==
    /\ \A m \in sent : m.type \in AnswerTypes => Told(sent, Owner(m.to), Owner(m.from), m.thid, AnswerAsk(m.type))
    /\ \A m \in sent : m.type = "finalize" => Told(sent, Owner(m.to), Owner(m.from), m.thid, "accept")
    /\ \A m \in sent : m.type = "pong" => \E r \in sent : r.type = "ping" /\ r.thid = m.thid
TasksFollow ==
    \A p \in Parties : \A t \in db[p].tasks :
        /\ t.kind \in InKinds => Told(sent, t.peer, p, t.id, TaskAsk(t.kind))
        /\ t.kind = "VrcRequestOut" => Told(sent, p, t.peer, t.id, "vrcRequest")
JobsFollow ==
    /\ \A p \in Parties : job[p]["Inbox"] # None =>
         Told(sent, job[p]["Inbox"].peer, p, job[p]["Inbox"].id, JobAsk(job[p]["Inbox"].kind))
    /\ \A p \in Parties, domain \in Domains :
         job[p][domain] # None /\ job[p][domain].st = "sent" /\ job[p][domain].kind # "Remove" =>
             \E m \in sent : /\ SentBy(job[p][domain].kind, m.type) /\ m.thid = job[p][domain].id
                             /\ Owner(m.from) = p /\ Owner(m.to) = job[p][domain].peer

(* A request is answered once: what waits for an answer has none yet.       *)
OneAnswer ==
    \A m, n \in sent :
        m.type \in AnswerTypes /\ n.type \in AnswerTypes /\ m.thid = n.thid /\ m.thid \notin spoiled => m = n
TasksUnanswered ==
    \A p \in Parties : \A t \in db[p].tasks : \A m \in sent :
        t.kind \in InKinds /\ m.type \in AnswerTypes /\ m.thid = t.id /\ t.id \notin spoiled =>
            job[p]["Inbox"] # None /\ job[p]["Inbox"].id = t.id /\ job[p]["Inbox"].st = "sent"
JobsUnanswered ==
    \A p \in Parties : \A m \in sent :
        job[p]["Inbox"] # None /\ job[p]["Inbox"].st = "run" /\ job[p]["Inbox"].id \notin spoiled /\ m.type \in AnswerTypes
            => m.thid # job[p]["Inbox"].id
OpenUnanswered ==
    \A r \in sent : r.type \in AskTypes /\ r.thid \notin spoiled /\ r \in Open =>
        /\ \A m \in sent : m.type \in AnswerTypes => m.thid # r.thid
        /\ \A p \in Parties : /\ \A t \in db[p].tasks : t.kind \in InKinds => t.id # r.thid
                              /\ job[p]["Inbox"] # None => job[p]["Inbox"].id # r.thid

(* A handshake goes from step to step. *)
Asked ==
    /\ \A p \in Parties :
         /\ job[p]["Relationship"] # None /\ job[p]["Relationship"].kind = "Create"
         /\ job[p]["Relationship"].st = "run" /\ job[p]["Relationship"].id \notin spoiled
         => At(db[p], job[p]["Relationship"].peer, job[p]["Relationship"].id, "RequestSent")
    /\ \A r \in sent : r.type = "request" /\ r.thid \notin spoiled =>
         \/ \E m \in sent : m.type \in AnswerTypes /\ m.thid = r.thid
         \/ At(db[Owner(r.from)], Owner(r.to), r.thid, "RequestSent")
Closing ==
    \A m \in sent : m.type = "accept" /\ m.thid \notin spoiled =>
        \/ At(db[Owner(m.to)], Owner(m.from), m.thid, "RequestSent") /\ m \in Open
        \/ Told(sent, Owner(m.to), Owner(m.from), m.thid, "finalize")
Finished ==
    \A f \in sent : f.type = "finalize" /\ f.thid \notin spoiled \cup early =>
        \/ f \in Open
        \/ /\ ~At(db[Owner(f.to)], Owner(f.from), f.thid, "RequestAccepted")
           /\ job[Owner(f.to)]["Inbox"] # None /\ job[Owner(f.to)]["Inbox"].kind = "Accept" =>
                  job[Owner(f.to)]["Inbox"].id # f.thid
Recorded ==
    \A p, q \in Parties, t \in Nat :
        t \notin spoiled /\ At(db[p], q, t, "RequestAccepted") => Told(sent, p, q, t, "accept")

(* So does a VRC request. *)
VrcAsked ==
    \A r \in sent : r.type = "vrcRequest" /\ r.thid \notin spoiled \cup early =>
        \/ r \in Open
        \/ \E m \in sent : m.type \in AnswerTypes /\ m.thid = r.thid
        \/ \E u \in db[Owner(r.to)].tasks : u.id = r.thid /\ u.kind = "VrcRequestIn"
VrcDone ==
    \A m \in sent : m.type \in {"vrc", "vrcReject"} /\ m.thid \notin spoiled \cup early =>
        \/ m \in Open
        \/ /\ \A t \in db[Owner(m.to)].tasks : t.id = m.thid => t.kind # "VrcRequestOut"
           /\ job[Owner(m.to)]["Relationship"] # None /\ job[Owner(m.to)]["Relationship"].kind = "RequestVrc" =>
                  job[Owner(m.to)]["Relationship"].id # m.thid
VrcOnce ==
    \A p \in Parties : \A t \in db[p].tasks :
        job[p]["Relationship"] # None /\ job[p]["Relationship"].kind \in NewKinds /\ t.kind = "VrcRequestOut"
            => t.id # job[p]["Relationship"].id

Origins == OneStart /\ MessagesFollow /\ TasksFollow /\ JobsFollow
AnsweredOnce == OneAnswer /\ TasksUnanswered /\ JobsUnanswered /\ OpenUnanswered
Inv ==
    /\ Kept /\ FinalOnce /\ Fresh /\ Origins /\ AnsweredOnce
    /\ Asked /\ Closing /\ Finished /\ Recorded /\ VrcAsked /\ VrcDone /\ VrcOnce

(* A step that sends nothing and starts nothing: jobs end, records are cut, *)
(* an acceptance or a VRC request that went out is recorded.                *)
Rests ==
    /\ Kept' /\ UNCHANGED <<sent, nextId, early>> /\ spoiled \subseteq spoiled'
    /\ \A x \in sent : x.type \in Tracked /\ x.thid \notin spoiled' => (x \in Open' <=> x \in Open)
    /\ \A c \in Parties, m \in Domains : job'[c][m] # None =>
         /\ job[c][m] # None
         /\ job'[c][m].kind = job[c][m].kind /\ job'[c][m].id = job[c][m].id /\ job'[c][m].peer = job[c][m].peer
         /\ job'[c][m].st = job[c][m].st \/ job'[c][m].st = "failed"
    /\ \A c \in Parties : job[c]["Inbox"] # None /\ job[c]["Inbox"].st = "sent" =>
         \/ job'[c]["Inbox"] = job[c]["Inbox"]
         \/ job[c]["Inbox"].id \in spoiled'
         \/ \A t \in db'[c].tasks : t.id # job[c]["Inbox"].id
    /\ \A c, a \in Parties, t \in Nat, st \in States : t \notin spoiled' =>
         /\ At(db[c], a, t, st) => At(db'[c], a, t, st)
         /\ At(db'[c], a, t, st) =>
              \/ At(db[c], a, t, st)
              \/ /\ st = "RequestAccepted" /\ job[c]["Inbox"] # None /\ job[c]["Inbox"].kind = "Accept"
                 /\ job[c]["Inbox"].st = "sent" /\ job[c]["Inbox"].id = t /\ job[c]["Inbox"].peer = a
    /\ \A c \in Parties : \A t \in db'[c].tasks :
         /\ t.kind \in InKinds => t \in db[c].tasks
         /\ t.kind = "VrcRequestOut" =>
              \/ t \in db[c].tasks
              \/ /\ job[c]["Relationship"] # None /\ job[c]["Relationship"].kind = "RequestVrc"
                 /\ job[c]["Relationship"].st = "sent" /\ job[c]["Relationship"].id = t.id
                 /\ job[c]["Relationship"].peer = t.peer /\ job'[c]["Relationship"] = None
    /\ \A c \in Parties : \A t \in db[c].tasks : t.kind = "VrcRequestIn" =>
         t \in db'[c].tasks \/ t.id \in spoiled' \/ \E m \in sent : m.type \in AnswerTypes /\ m.thid = t.id

(* A step that starts a job. *)
Begins(p, domain) ==
    /\ Kept' /\ Unsent /\ early' = early /\ spoiled \subseteq spoiled'
    /\ job[p][domain] = None /\ job'[p][domain] # None /\ job'[p][domain].st = "run" /\ JobsElse(p, domain)
    /\ \A c \in Parties : db'[c].tasks = db[c].tasks
    /\ \A c, a \in Parties, t \in Nat, st \in States : t \notin spoiled' =>
         /\ At(db[c], a, t, st) => At(db'[c], a, t, st)
         /\ At(db'[c], a, t, st) => At(db[c], a, t, st) \/ (st = "RequestSent" /\ t = nextId)
    /\ domain = "Inbox" =>
         /\ nextId' = nextId
         /\ \E t \in db[p].tasks : /\ AnswersTask(job'[p][domain].kind, t)
                                   /\ t.id = job'[p][domain].id /\ t.peer = job'[p][domain].peer
    /\ domain = "Relationship" =>
         /\ IF job'[p][domain].kind \in NewKinds THEN job'[p][domain].id = nextId /\ nextId' = nextId + 1
            ELSE job'[p][domain].id < nextId /\ nextId' = nextId
         /\ job'[p][domain].kind = "Create" => At(db'[p], job'[p][domain].peer, job'[p][domain].id, "RequestSent")

-----------------------------------------------------------------------------
LEMMA RestsKeeps ==
    ASSUME Inv, Rests
    PROVE  Inv'
<1>1. Kept' /\ sent' = sent /\ nextId' = nextId /\ early' = early /\ spoiled \subseteq spoiled'
  BY DEF Rests
<1>2. \A x \in sent : x.type \in Tracked /\ x.thid \notin spoiled' => (x \in Open' <=> x \in Open)
  BY DEF Rests
<1>3. \A c \in Parties, m \in Domains : job'[c][m] # None =>
         /\ job[c][m] # None
         /\ job'[c][m].kind = job[c][m].kind /\ job'[c][m].id = job[c][m].id /\ job'[c][m].peer = job[c][m].peer
         /\ job'[c][m].st = job[c][m].st \/ job'[c][m].st = "failed"
  BY DEF Rests
<1>4. \A c, a \in Parties, t \in Nat, st \in States : t \notin spoiled' =>
         /\ At(db[c], a, t, st) => At(db'[c], a, t, st)
         /\ At(db'[c], a, t, st) =>
              \/ At(db[c], a, t, st)
              \/ /\ st = "RequestAccepted" /\ job[c]["Inbox"] # None /\ job[c]["Inbox"].kind = "Accept"
                 /\ job[c]["Inbox"].st = "sent" /\ job[c]["Inbox"].id = t /\ job[c]["Inbox"].peer = a
  BY DEF Rests
<1>5. \A c \in Parties : \A t \in db'[c].tasks :
         /\ t.kind \in InKinds => t \in db[c].tasks
         /\ t.kind = "VrcRequestOut" =>
              \/ t \in db[c].tasks
              \/ /\ job[c]["Relationship"] # None /\ job[c]["Relationship"].kind = "RequestVrc"
                 /\ job[c]["Relationship"].st = "sent" /\ job[c]["Relationship"].id = t.id
                 /\ job[c]["Relationship"].peer = t.peer /\ job'[c]["Relationship"] = None
  BY DEF Rests
<1>6. \A x \in sent : x.thid \in Nat /\ Owner(x.from) \in Parties /\ Owner(x.to) \in Parties /\ Owner(x.from) # Owner(x.to)
  BY Owners DEF Inv, Kept, Typed, MessagesTyped, GoodMsg, MsgType
<1>7. "Inbox" \in Domains /\ "Relationship" \in Domains
  BY DEF Domains
<1>8. FinalOnce'
  BY <1>1, <1>4, <1>6 DEF Inv, FinalOnce, States
<1>9. Fresh'
  BY <1>1, <1>3, <1>7 DEF Inv, Fresh
<1>10. TasksFollow'
  <2>1. ASSUME NEW c \in Parties, NEW t \in db'[c].tasks, t.kind = "VrcRequestOut", t \notin db[c].tasks
        PROVE  Told(sent, c, t.peer, t.id, "vrcRequest")
    <3>1. PICK m \in sent : SentBy("RequestVrc", m.type) /\ m.thid = t.id /\ Owner(m.from) = c /\ Owner(m.to) = t.peer
      BY <1>5, <1>7, <2>1 DEF Inv, Origins, JobsFollow
    <3> QED BY <3>1 DEF Told, SentBy
  <2> QED BY <1>1, <1>5, <2>1 DEF Inv, Origins, TasksFollow
<1>11. JobsFollow'
  BY <1>1, <1>3, <1>7 DEF Inv, Origins, JobsFollow
<1>12. Origins'
  BY <1>1, <1>10, <1>11 DEF Inv, Origins, OneStart, MessagesFollow
<1>13. TasksUnanswered'
  <2>1. ASSUME NEW c \in Parties, NEW t \in db'[c].tasks, NEW m \in sent, t.kind \in InKinds, m.type \in AnswerTypes,
               m.thid = t.id, t.id \notin spoiled'
        PROVE  job'[c]["Inbox"] # None /\ job'[c]["Inbox"].id = t.id /\ job'[c]["Inbox"].st = "sent"
    <3>1. job[c]["Inbox"] # None /\ job[c]["Inbox"].id = t.id /\ job[c]["Inbox"].st = "sent"
      BY <1>1, <1>5, <2>1 DEF Inv, AnsweredOnce, TasksUnanswered
    <3>2. job'[c]["Inbox"] = job[c]["Inbox"]
      BY <2>1, <3>1 DEF Rests
    <3> QED BY <3>1, <3>2
  <2> QED BY <1>1, <2>1 DEF TasksUnanswered
<1>14. JobsUnanswered'
  BY <1>1, <1>3, <1>7 DEF Inv, AnsweredOnce, JobsUnanswered
<1>15. OpenUnanswered'
  <2>1. ASSUME NEW r \in sent, r.type \in AskTypes, r.thid \notin spoiled', r \in Open'
        PROVE  /\ \A m \in sent : m.type \in AnswerTypes => m.thid # r.thid
               /\ \A p \in Parties : /\ \A t \in db'[p].tasks : t.kind \in InKinds => t.id # r.thid
                                     /\ job'[p]["Inbox"] # None => job'[p]["Inbox"].id # r.thid
    <3>1. r \in Open /\ r.thid \notin spoiled
      BY <1>1, <1>2, <2>1 DEF AskTypes, Tracked
    <3> QED BY <1>3, <1>5, <1>7, <2>1, <3>1 DEF Inv, AnsweredOnce, OpenUnanswered
  <2> QED BY <1>1, <2>1 DEF OpenUnanswered
<1>16. OneAnswer'
  BY <1>1 DEF Inv, AnsweredOnce, OneAnswer
<1>17. Asked'
  <2>1. ASSUME NEW p \in Parties, job'[p]["Relationship"] # None, job'[p]["Relationship"].kind = "Create",
               job'[p]["Relationship"].st = "run", job'[p]["Relationship"].id \notin spoiled'
        PROVE  At(db'[p], job'[p]["Relationship"].peer, job'[p]["Relationship"].id, "RequestSent")
    <3>1. At(db[p], job[p]["Relationship"].peer, job[p]["Relationship"].id, "RequestSent")
      BY <1>1, <1>3, <1>7, <2>1 DEF Inv, Asked
    <3>2. job[p]["Relationship"].peer \in Parties /\ job[p]["Relationship"].id \in Nat
      BY <1>3, <1>7, <2>1, JobThere DEF Inv, Kept, Typed
    <3> QED BY <1>3, <1>4, <1>7, <2>1, <3>1, <3>2 DEF States
  <2>2. ASSUME NEW r \in sent, r.type = "request", r.thid \notin spoiled'
        PROVE  \/ \E m \in sent : m.type \in AnswerTypes /\ m.thid = r.thid
               \/ At(db'[Owner(r.from)], Owner(r.to), r.thid, "RequestSent")
    <3>1. \/ \E m \in sent : m.type \in AnswerTypes /\ m.thid = r.thid
          \/ At(db[Owner(r.from)], Owner(r.to), r.thid, "RequestSent")
      BY <1>1, <2>2 DEF Inv, Asked
    <3> QED BY <1>4, <1>6, <2>2, <3>1 DEF States
  <2> QED BY <1>1, <2>1, <2>2 DEF Asked
<1>18. Closing'
  <2>1. ASSUME NEW m \in sent, m.type = "accept", m.thid \notin spoiled'
        PROVE  \/ At(db'[Owner(m.to)], Owner(m.from), m.thid, "RequestSent") /\ m \in Open'
               \/ Told(sent, Owner(m.to), Owner(m.from), m.thid, "finalize")
    <3>1. \/ At(db[Owner(m.to)], Owner(m.from), m.thid, "RequestSent") /\ m \in Open
          \/ Told(sent, Owner(m.to), Owner(m.from), m.thid, "finalize")
      BY <1>1, <2>1 DEF Inv, Closing
    <3> QED BY <1>2, <1>4, <1>6, <2>1, <3>1 DEF States, Tracked
  <2> QED BY <1>1, <2>1 DEF Closing
<1>19. Finished'
  <2>1. ASSUME NEW f \in sent, f.type = "finalize", f.thid \notin spoiled', f.thid \notin early, f \notin Open'
        PROVE  /\ ~At(db'[Owner(f.to)], Owner(f.from), f.thid, "RequestAccepted")
               /\ job'[Owner(f.to)]["Inbox"] # None /\ job'[Owner(f.to)]["Inbox"].kind = "Accept" =>
                      job'[Owner(f.to)]["Inbox"].id # f.thid
    <3>1. f \notin Open /\ f.thid \notin spoiled
      BY <1>1, <1>2, <2>1 DEF Tracked
    <3>2. /\ ~At(db[Owner(f.to)], Owner(f.from), f.thid, "RequestAccepted")
          /\ job[Owner(f.to)]["Inbox"] # None /\ job[Owner(f.to)]["Inbox"].kind = "Accept" =>
                 job[Owner(f.to)]["Inbox"].id # f.thid
      BY <2>1, <3>1 DEF Inv, Finished
    <3> QED BY <1>3, <1>4, <1>6, <1>7, <2>1, <3>2 DEF States
  <2> QED BY <1>1, <2>1 DEF Finished
<1>20. Recorded'
  <2>1. ASSUME NEW p \in Parties, NEW q \in Parties, NEW t \in Nat, t \notin spoiled', At(db'[p], q, t, "RequestAccepted")
        PROVE  Told(sent, p, q, t, "accept")
    <3>1. CASE At(db[p], q, t, "RequestAccepted")
      BY <1>1, <2>1, <3>1 DEF Inv, Recorded
    <3>2. CASE ~At(db[p], q, t, "RequestAccepted")
      <4>1. PICK m \in sent : SentBy("Accept", m.type) /\ m.thid = t /\ Owner(m.from) = p /\ Owner(m.to) = q
        BY <1>4, <1>7, <2>1, <3>2 DEF Inv, Origins, JobsFollow, States
      <4> QED BY <4>1 DEF Told, SentBy
    <3> QED BY <3>1, <3>2
  <2> QED BY <1>1, <2>1 DEF Recorded
<1>21. VrcAsked'
  <2>1. ASSUME NEW r \in sent, r.type = "vrcRequest", r.thid \notin spoiled', r.thid \notin early, r \notin Open',
               \A m \in sent : m.type \in AnswerTypes => m.thid # r.thid
        PROVE  \E u \in db'[Owner(r.to)].tasks : u.id = r.thid /\ u.kind = "VrcRequestIn"
    <3>1. r \notin Open /\ r.thid \notin spoiled
      BY <1>1, <1>2, <2>1 DEF Tracked
    <3>2. PICK u \in db[Owner(r.to)].tasks : u.id = r.thid /\ u.kind = "VrcRequestIn"
      BY <2>1, <3>1 DEF Inv, VrcAsked
    <3>3. u \in db'[Owner(r.to)].tasks
      BY <1>6, <2>1, <3>2 DEF Rests
    <3> QED BY <3>2, <3>3
  <2> QED BY <1>1, <2>1 DEF VrcAsked
<1>22. VrcDone'
  <2>1. ASSUME NEW m \in sent, m.type \in {"vrc", "vrcReject"}, m.thid \notin spoiled', m.thid \notin early, m \notin Open'
        PROVE  /\ \A t \in db'[Owner(m.to)].tasks : t.id = m.thid => t.kind # "VrcRequestOut"
               /\ job'[Owner(m.to)]["Relationship"] # None /\ job'[Owner(m.to)]["Relationship"].kind = "RequestVrc" =>
                      job'[Owner(m.to)]["Relationship"].id # m.thid
    <3>1. m \notin Open /\ m.thid \notin spoiled
      BY <1>1, <1>2, <2>1 DEF Tracked
    <3>2. /\ \A t \in db[Owner(m.to)].tasks : t.id = m.thid => t.kind # "VrcRequestOut"
          /\ job[Owner(m.to)]["Relationship"] # None /\ job[Owner(m.to)]["Relationship"].kind = "RequestVrc" =>
                 job[Owner(m.to)]["Relationship"].id # m.thid
      BY <2>1, <3>1 DEF Inv, VrcDone
    <3> QED BY <1>3, <1>5, <1>6, <1>7, <2>1, <3>2
  <2> QED BY <1>1, <2>1 DEF VrcDone
<1>23. VrcOnce'
  BY <1>3, <1>5, <1>7 DEF Inv, VrcOnce, NewKinds
<1> QED BY <1>1, <1>8, <1>9, <1>12, <1>13, <1>14, <1>15, <1>16, <1>17, <1>18, <1>19, <1>20, <1>21, <1>22, <1>23
        DEF Inv, AnsweredOnce

LEMMA BeginsKeeps ==
    ASSUME Inv, NEW p \in Parties, NEW domain \in Domains, Begins(p, domain)
    PROVE  Inv'
<1>1. /\ Kept' /\ sent' = sent /\ early' = early /\ spoiled \subseteq spoiled'
      /\ job[p][domain] = None /\ job'[p][domain] # None /\ job'[p][domain].st = "run"
      /\ \A c \in Parties : db'[c].tasks = db[c].tasks
  BY DEF Begins, Unsent
<1>2. Open' = Open
  BY DEF Begins, Unsent, Open
<1>3. \A c \in Parties, m \in Domains : c # p \/ m # domain => job'[c][m] = job[c][m]
  BY DEF Begins, JobsElse
<1>4. \A c, a \in Parties, t \in Nat, st \in States : t \notin spoiled' =>
         /\ At(db[c], a, t, st) => At(db'[c], a, t, st)
         /\ At(db'[c], a, t, st) => At(db[c], a, t, st) \/ (st = "RequestSent" /\ t = nextId)
  BY DEF Begins
<1>5. domain = "Inbox" =>
         /\ nextId' = nextId
         /\ \E t \in db[p].tasks : /\ AnswersTask(job'[p][domain].kind, t)
                                   /\ t.id = job'[p][domain].id /\ t.peer = job'[p][domain].peer
  BY DEF Begins
<1>6. domain = "Relationship" =>
         /\ IF job'[p][domain].kind \in NewKinds THEN job'[p][domain].id = nextId /\ nextId' = nextId + 1
            ELSE job'[p][domain].id < nextId /\ nextId' = nextId
         /\ job'[p][domain].kind = "Create" => At(db'[p], job'[p][domain].peer, job'[p][domain].id, "RequestSent")
  BY DEF Begins
<1>7. /\ \A x \in sent : x.thid \in Nat /\ Owner(x.from) \in Parties /\ Owner(x.to) \in Parties
      /\ \A x \in sent : x.thid < nextId
      /\ nextId \in Nat
  BY Owners DEF Inv, Kept, Typed, MessagesTyped, GoodMsg, MsgType, Fresh, HistoryTyped
<1>8. Domains = {"Inbox", "Relationship"}
  BY DEF Domains
<1>9. domain = "Inbox" => \E t \in db[p].tasks :
         /\ t.id = job'[p]["Inbox"].id /\ t.peer = job'[p]["Inbox"].peer /\ t.kind \in InKinds
         /\ TaskAsk(t.kind) = JobAsk(job'[p]["Inbox"].kind)
  BY <1>5 DEF AnswersTask, InKinds, TaskAsk, JobAsk
<1>10. domain = "Inbox" =>
         /\ Told(sent, job'[p]["Inbox"].peer, p, job'[p]["Inbox"].id, JobAsk(job'[p]["Inbox"].kind))
         /\ \A m \in sent : m.type \in AnswerTypes /\ m.thid = job'[p]["Inbox"].id => m.thid \in spoiled
         /\ \A r \in sent : r.type \in AskTypes /\ r.thid = job'[p]["Inbox"].id /\ r \in Open => r.thid \in spoiled
  BY <1>1, <1>9 DEF Inv, Origins, TasksFollow, AnsweredOnce, TasksUnanswered, OpenUnanswered
<1>11. domain = "Inbox" => job'[p]["Inbox"].id < nextId
  BY <1>7, <1>10 DEF Told
<1>12. nextId' \in Nat /\ nextId' >= nextId /\ job'[p][domain].id < nextId'
  BY <1>5, <1>6, <1>7, <1>8, <1>11
<1>14. \A c \in Parties, m \in Domains : job[c][m] # None => job[c][m].id \in Nat /\ job[c][m].id < nextId
  BY JobThere DEF Inv, Kept, Typed, Fresh
<1>15. FinalOnce'
  BY <1>1, <1>4, <1>7 DEF Inv, FinalOnce, States
<1>16. Fresh'
  <2>1. \A m \in sent : m.thid < nextId'
    BY <1>7, <1>12
  <2>2. \A c \in Parties, m \in Domains : job'[c][m] # None => job'[c][m].id < nextId'
    BY <1>3, <1>7, <1>12, <1>14
  <2>3. ASSUME NEW c \in Parties, job'[c]["Relationship"] # None, job'[c]["Relationship"].kind \in NewKinds,
               job'[c]["Relationship"].st = "run", NEW m \in sent
        PROVE  m.thid # job'[c]["Relationship"].id
    <3>1. CASE c = p /\ domain = "Relationship"
      BY <1>6, <1>7, <2>3, <3>1
    <3>2. CASE ~(c = p /\ domain = "Relationship")
      BY <1>3, <1>8, <2>3, <3>2 DEF Inv, Fresh
    <3> QED BY <3>1, <3>2
  <2>4. ASSUME NEW c \in Parties, NEW a \in Parties, c # a,
               job'[c]["Relationship"] # None, job'[a]["Relationship"] # None,
               job'[c]["Relationship"].kind \in NewKinds, job'[a]["Relationship"].kind \in NewKinds
        PROVE  job'[c]["Relationship"].id # job'[a]["Relationship"].id
    <3>1. CASE c = p /\ domain = "Relationship"
      BY <1>3, <1>6, <1>7, <1>8, <1>14, <2>4, <3>1
    <3>2. CASE a = p /\ domain = "Relationship"
      BY <1>3, <1>6, <1>7, <1>8, <1>14, <2>4, <3>2
    <3>3. CASE ~(c = p /\ domain = "Relationship") /\ ~(a = p /\ domain = "Relationship")
      <4>1. job'[c]["Relationship"] = job[c]["Relationship"] /\ job'[a]["Relationship"] = job[a]["Relationship"]
        BY <1>3, <1>8, <3>3
      <4> QED BY <2>4, <4>1 DEF Inv, Fresh
    <3> QED BY <3>1, <3>2, <3>3
  <2> QED BY <1>1, <2>1, <2>2, <2>3, <2>4 DEF Fresh
<1>17. TasksFollow'
  BY <1>1 DEF Inv, Origins, TasksFollow
<1>18. JobsFollow'
  <2>1. ASSUME NEW c \in Parties, job'[c]["Inbox"] # None
        PROVE  Told(sent, job'[c]["Inbox"].peer, c, job'[c]["Inbox"].id, JobAsk(job'[c]["Inbox"].kind))
    BY <1>3, <1>8, <1>10, <2>1 DEF Inv, Origins, JobsFollow
  <2>2. ASSUME NEW c \in Parties, NEW m \in Domains, job'[c][m] # None, job'[c][m].st = "sent", job'[c][m].kind # "Remove"
        PROVE  \E x \in sent : /\ SentBy(job'[c][m].kind, x.type) /\ x.thid = job'[c][m].id
                               /\ Owner(x.from) = c /\ Owner(x.to) = job'[c][m].peer
    <3>1. job'[c][m] = job[c][m]
      BY <1>1, <1>3, <2>2
    <3> QED BY <2>2, <3>1 DEF Inv, Origins, JobsFollow
  <2> QED BY <1>1, <2>1, <2>2 DEF JobsFollow
<1>19. Origins'
  BY <1>1, <1>17, <1>18 DEF Inv, Origins, OneStart, MessagesFollow
<1>20. OneAnswer'
  BY <1>1 DEF Inv, AnsweredOnce, OneAnswer
<1>21. TasksUnanswered'
  <2>1. ASSUME NEW c \in Parties, NEW t \in db[c].tasks, NEW m \in sent, t.kind \in InKinds, m.type \in AnswerTypes,
               m.thid = t.id, t.id \notin spoiled'
        PROVE  job'[c]["Inbox"] # None /\ job'[c]["Inbox"].id = t.id /\ job'[c]["Inbox"].st = "sent"
    <3>1. job[c]["Inbox"] # None /\ job[c]["Inbox"].id = t.id /\ job[c]["Inbox"].st = "sent"
      BY <1>1, <2>1 DEF Inv, AnsweredOnce, TasksUnanswered
    <3>2. job'[c]["Inbox"] = job[c]["Inbox"]
      BY <1>1, <1>3, <1>8, <3>1
    <3> QED BY <3>1, <3>2
  <2> QED BY <1>1, <2>1 DEF TasksUnanswered
<1>22. JobsUnanswered'
  <2>1. ASSUME NEW c \in Parties, NEW m \in sent, job'[c]["Inbox"] # None, job'[c]["Inbox"].st = "run",
               job'[c]["Inbox"].id \notin spoiled', m.type \in AnswerTypes
        PROVE  m.thid # job'[c]["Inbox"].id
    <3>1. CASE c = p /\ domain = "Inbox"
      BY <1>1, <1>10, <2>1, <3>1
    <3>2. CASE ~(c = p /\ domain = "Inbox")
      <4>1. job'[c]["Inbox"] = job[c]["Inbox"]
        BY <1>3, <1>8, <3>2
      <4> QED BY <1>1, <2>1, <4>1 DEF Inv, AnsweredOnce, JobsUnanswered
    <3> QED BY <3>1, <3>2
  <2> QED BY <1>1, <2>1 DEF JobsUnanswered
<1>23. OpenUnanswered'
  <2>1. ASSUME NEW r \in sent, r.type \in AskTypes, r.thid \notin spoiled', r \in Open
        PROVE  /\ \A m \in sent : m.type \in AnswerTypes => m.thid # r.thid
               /\ \A c \in Parties : /\ \A t \in db[c].tasks : t.kind \in InKinds => t.id # r.thid
                                     /\ job'[c]["Inbox"] # None => job'[c]["Inbox"].id # r.thid
    <3>1. /\ \A m \in sent : m.type \in AnswerTypes => m.thid # r.thid
          /\ \A c \in Parties : /\ \A t \in db[c].tasks : t.kind \in InKinds => t.id # r.thid
                                /\ job[c]["Inbox"] # None => job[c]["Inbox"].id # r.thid
      BY <1>1, <2>1 DEF Inv, AnsweredOnce, OpenUnanswered
    <3> QED BY <1>1, <1>3, <1>8, <1>10, <2>1, <3>1
  <2> QED BY <1>1, <1>2, <2>1 DEF OpenUnanswered
<1>24. Asked'
  <2>1. ASSUME NEW c \in Parties, job'[c]["Relationship"] # None, job'[c]["Relationship"].kind = "Create",
               job'[c]["Relationship"].st = "run", job'[c]["Relationship"].id \notin spoiled'
        PROVE  At(db'[c], job'[c]["Relationship"].peer, job'[c]["Relationship"].id, "RequestSent")
    <3>1. CASE c = p /\ domain = "Relationship"
      BY <1>6, <2>1, <3>1
    <3>2. CASE ~(c = p /\ domain = "Relationship")
      <4>1. job'[c]["Relationship"] = job[c]["Relationship"]
        BY <1>3, <1>8, <3>2
      <4>2. At(db[c], job[c]["Relationship"].peer, job[c]["Relationship"].id, "RequestSent")
        BY <1>1, <2>1, <4>1 DEF Inv, Asked
      <4>3. job[c]["Relationship"].peer \in Parties /\ job[c]["Relationship"].id \in Nat
        BY <1>8, <2>1, <4>1, JobThere DEF Inv, Kept, Typed
      <4> QED BY <1>4, <2>1, <4>1, <4>2, <4>3 DEF States
    <3> QED BY <3>1, <3>2
  <2>2. ASSUME NEW r \in sent, r.type = "request", r.thid \notin spoiled'
        PROVE  \/ \E m \in sent : m.type \in AnswerTypes /\ m.thid = r.thid
               \/ At(db'[Owner(r.from)], Owner(r.to), r.thid, "RequestSent")
    <3>1. \/ \E m \in sent : m.type \in AnswerTypes /\ m.thid = r.thid
          \/ At(db[Owner(r.from)], Owner(r.to), r.thid, "RequestSent")
      BY <1>1, <2>2 DEF Inv, Asked
    <3> QED BY <1>4, <1>7, <2>2, <3>1 DEF States
  <2> QED BY <1>1, <2>1, <2>2 DEF Asked
<1>25. Closing'
  <2>1. ASSUME NEW m \in sent, m.type = "accept", m.thid \notin spoiled'
        PROVE  \/ At(db'[Owner(m.to)], Owner(m.from), m.thid, "RequestSent") /\ m \in Open
               \/ Told(sent, Owner(m.to), Owner(m.from), m.thid, "finalize")
    <3>1. \/ At(db[Owner(m.to)], Owner(m.from), m.thid, "RequestSent") /\ m \in Open
          \/ Told(sent, Owner(m.to), Owner(m.from), m.thid, "finalize")
      BY <1>1, <2>1 DEF Inv, Closing
    <3> QED BY <1>4, <1>7, <2>1, <3>1 DEF States
  <2> QED BY <1>1, <1>2, <2>1 DEF Closing
<1>26. Finished'
  <2>1. ASSUME NEW f \in sent, f.type = "finalize", f.thid \notin spoiled', f.thid \notin early, f \notin Open
        PROVE  /\ ~At(db'[Owner(f.to)], Owner(f.from), f.thid, "RequestAccepted")
               /\ job'[Owner(f.to)]["Inbox"] # None /\ job'[Owner(f.to)]["Inbox"].kind = "Accept" =>
                      job'[Owner(f.to)]["Inbox"].id # f.thid
    <3>1. /\ ~At(db[Owner(f.to)], Owner(f.from), f.thid, "RequestAccepted")
          /\ job[Owner(f.to)]["Inbox"] # None /\ job[Owner(f.to)]["Inbox"].kind = "Accept" =>
                 job[Owner(f.to)]["Inbox"].id # f.thid
      BY <1>1, <2>1 DEF Inv, Finished
    <3>2. \E m \in sent : m.type \in AnswerTypes /\ m.thid = f.thid
      BY <2>1 DEF Inv, Origins, MessagesFollow, Told, AnswerTypes
    <3>3. ~At(db'[Owner(f.to)], Owner(f.from), f.thid, "RequestAccepted")
      BY <1>4, <1>7, <2>1, <3>1 DEF States
    <3>4. CASE Owner(f.to) = p /\ domain = "Inbox"
      <4>1. job'[p]["Inbox"].id # f.thid
        BY <1>1, <1>10, <2>1, <3>2, <3>4
      <4> QED BY <3>3, <3>4, <4>1
    <3>5. CASE ~(Owner(f.to) = p /\ domain = "Inbox")
      <4>1. job'[Owner(f.to)]["Inbox"] = job[Owner(f.to)]["Inbox"]
        BY <1>3, <1>7, <1>8, <3>5
      <4> QED BY <3>1, <3>3, <4>1
    <3> QED BY <3>4, <3>5
  <2> QED BY <1>1, <1>2, <2>1 DEF Finished
<1>27. Recorded'
  <2>1. ASSUME NEW c \in Parties, NEW a \in Parties, NEW t \in Nat, t \notin spoiled', At(db'[c], a, t, "RequestAccepted")
        PROVE  Told(sent, c, a, t, "accept")
    BY <1>1, <1>4, <2>1 DEF Inv, Recorded, States
  <2> QED BY <1>1, <2>1 DEF Recorded
<1>28. VrcAsked'
  <2>1. \A x \in sent : Owner(x.to) \in Parties
    BY <1>7
  <2> QED BY <1>1, <1>2, <2>1 DEF Inv, VrcAsked
<1>29. VrcDone'
  <2>1. ASSUME NEW m \in sent, m.type \in {"vrc", "vrcReject"}, m.thid \notin spoiled', m.thid \notin early, m \notin Open
        PROVE  /\ \A t \in db'[Owner(m.to)].tasks : t.id = m.thid => t.kind # "VrcRequestOut"
               /\ job'[Owner(m.to)]["Relationship"] # None /\ job'[Owner(m.to)]["Relationship"].kind = "RequestVrc" =>
                      job'[Owner(m.to)]["Relationship"].id # m.thid
    <3>1. /\ \A t \in db[Owner(m.to)].tasks : t.id = m.thid => t.kind # "VrcRequestOut"
          /\ job[Owner(m.to)]["Relationship"] # None /\ job[Owner(m.to)]["Relationship"].kind = "RequestVrc" =>
                 job[Owner(m.to)]["Relationship"].id # m.thid
      BY <1>1, <2>1 DEF Inv, VrcDone
    <3>2. CASE Owner(m.to) = p /\ domain = "Relationship"
      <4>1. job'[p]["Relationship"].kind = "RequestVrc" => job'[p]["Relationship"].id # m.thid
        BY <1>6, <1>7, <3>2 DEF NewKinds
      <4> QED BY <1>1, <1>7, <3>1, <3>2, <4>1
    <3>3. CASE ~(Owner(m.to) = p /\ domain = "Relationship")
      <4>1. job'[Owner(m.to)]["Relationship"] = job[Owner(m.to)]["Relationship"]
        BY <1>3, <1>7, <1>8, <3>3
      <4> QED BY <1>1, <1>7, <3>1, <4>1
    <3> QED BY <3>2, <3>3
  <2> QED BY <1>1, <1>2, <2>1 DEF VrcDone
<1>30. VrcOnce'
  <2>1. ASSUME NEW c \in Parties, NEW t \in db[c].tasks, job'[c]["Relationship"] # None,
               job'[c]["Relationship"].kind \in NewKinds, t.kind = "VrcRequestOut"
        PROVE  t.id # job'[c]["Relationship"].id
    <3>1. CASE c = p /\ domain = "Relationship"
      <4>1. t.id < nextId
        BY <1>7, <2>1 DEF Inv, Origins, TasksFollow, Told
      <4> QED BY <1>6, <1>7, <2>1, <3>1, <4>1
    <3>2. CASE ~(c = p /\ domain = "Relationship")
      <4>1. job'[c]["Relationship"] = job[c]["Relationship"]
        BY <1>3, <1>8, <3>2
      <4> QED BY <2>1, <4>1 DEF Inv, VrcOnce
    <3> QED BY <3>1, <3>2
  <2> QED BY <1>1, <2>1 DEF VrcOnce
<1> QED BY <1>1, <1>15, <1>16, <1>19, <1>20, <1>21, <1>22, <1>23, <1>24, <1>25, <1>26, <1>27, <1>28, <1>29, <1>30
        DEF Inv, AnsweredOnce

LEMMA JobSendsKeeps ==
    ASSUME Inv, NEW p \in Parties, NEW domain \in Domains, JobSends(p, domain)
    PROVE  Inv'
<1>1. PICK j : j = job[p][domain]
  OBVIOUS
<1> DEFINE Q(S) ==
        /\ Sends(S)
        /\ \A x \in S :
             /\ GoodMsg(x) /\ x.thid = j.id /\ Owner(x.from) = p /\ Owner(x.to) = j.peer
             /\ SentBy(j.kind, x.type) /\ (x.type \in {"request", "accept"} => x.did = j.our)
        /\ j.kind # "Remove" => \E x \in S : TRUE
        /\ j.kind = "Remove" => S = {}
        /\ \A x, y \in S : x = y
<1>2. /\ Typed' /\ j # None /\ j.st = "run" /\ JobsElse(p, domain)
      /\ job'[p][domain] # None /\ job'[p][domain].st = "sent" /\ job'[p][domain].kind = j.kind
      /\ job'[p][domain].id = j.id /\ job'[p][domain].peer = j.peer
      /\ \E S : Q(S)
      /\ UNCHANGED <<db, saved, held, seen, epoch, nextId, spoiled, early, crossed>>
  BY <1>1, JobSendsIs DEF Inv, Kept
<1>3. PICK S : Q(S)
  BY <1>2
<1>4. /\ net' = net \cup S /\ sent' = sent \cup S
      /\ \A x \in S : /\ x.thid = j.id /\ Owner(x.from) = p /\ Owner(x.to) = j.peer /\ SentBy(j.kind, x.type)
      /\ j.kind # "Remove" => \E x \in S : TRUE
      /\ \A x, y \in S : x = y
  BY <1>3 DEF Sends
<1> HIDE DEF Q
<1>5. \A c \in Parties, m \in Domains : c # p \/ m # domain => job'[c][m] = job[c][m]
  BY <1>2 DEF JobsElse
<1>6. \A c \in Parties, m \in Domains : job'[c][m] # None =>
         /\ job[c][m] # None
         /\ job'[c][m].kind = job[c][m].kind /\ job'[c][m].id = job[c][m].id /\ job'[c][m].peer = job[c][m].peer
         /\ job'[c][m] = job[c][m] \/ (c = p /\ m = domain /\ job'[c][m].st = "sent")
  BY <1>1, <1>2, <1>5
<1>7. j.peer \in Parties /\ j.peer # p /\ j.id \in Nat
      /\ (domain = "Inbox" => j.kind \in AnswerKinds) /\ (domain = "Relationship" => j.kind \in NewKinds \cup {"Remove"})
  BY <1>1, <1>2, JobThere DEF Inv, Kept, Typed
<1>8. \A x \in sent : x.thid \in Nat /\ Owner(x.from) \in Parties /\ Owner(x.to) \in Parties
  BY Owners DEF Inv, Kept, Typed, MessagesTyped, GoodMsg, MsgType
<1>9. Domains = {"Inbox", "Relationship"}
  BY DEF Domains
<1>10. \A x \in S : IF domain = "Inbox" THEN x.type \in AnswerTypes /\ AnswerAsk(x.type) = JobAsk(j.kind)
                    ELSE x.type \in AskTypes \cup {"ping"} /\ j.kind \in NewKinds
  BY <1>4, <1>7, <1>9 DEF SentBy, AnswerTypes, AskTypes, AnswerKinds, NewKinds, AnswerAsk, JobAsk
<1>11. \A x \in S : (x.type = "accept" <=> j.kind = "Accept") /\ (x.type = "request" <=> j.kind = "Create")
                    /\ x.type \notin {"finalize", "pong"}
  BY <1>4 DEF SentBy
(* An answer's request is there, and no one else has a task or a job for it. *)
<1>12. domain = "Inbox" => Told(sent, j.peer, p, j.id, JobAsk(j.kind)) /\ JobAsk(j.kind) \in AskTypes
  BY <1>1, <1>2 DEF Inv, Origins, JobsFollow, JobAsk, AskTypes
<1>13. \A a, c, b, e, t, k, n : Told(sent, a, c, t, k) /\ Told(sent, b, e, t, n) /\ k \in AskTypes /\ n \in AskTypes
         => a = b /\ c = e /\ k = n
  BY DEF Told, Inv, Origins, OneStart
<1>14. \A k : TaskAsk(k) \in AskTypes /\ JobAsk(k) \in AskTypes
  BY DEF TaskAsk, JobAsk, AskTypes
<1>15. domain = "Relationship" /\ j.kind \in NewKinds => \A m \in sent : m.thid # j.id
  BY <1>1, <1>2 DEF Inv, Fresh
<1>16. domain = "Inbox" /\ j.id \notin spoiled => \A m \in sent : m.type \in AnswerTypes => m.thid # j.id
  BY <1>1, <1>2 DEF Inv, AnsweredOnce, JobsUnanswered
<1>17. \A x \in S : x.thid \notin spoiled => x \notin sent
  BY <1>4, <1>9, <1>10, <1>15, <1>16
<1>18. Once'
  <2>1. \A m \in net' : m.type \in Tracked /\ m.thid \notin spoiled' => m \notin seen'[Owner(m.to)]
    <3>1. \A c \in Parties : seen[c] \subseteq sent
      BY HeldFacts DEF Inv, Kept, Typed
    <3>2. \A x \in S : Owner(x.to) \in Parties
      BY <1>4, <1>7
    <3> QED BY <1>2, <1>4, <1>17, <3>1, <3>2 DEF Inv, Kept, Once
  <2> QED BY <1>2, <2>1 DEF Once, Inv, Kept
<1>19. RelIds' /\ OnDisk' /\ Latest'
  <2>1. \A a, b \in Parties : \A t : CreatingId(a, b, t) => CreatingId(a, b, t)'
    BY <1>1, <1>2, <1>5, <1>9 DEF CreatingId
  <2> QED BY <1>2, <1>6, <1>9, <2>1 DEF RelIds, OnDisk, Latest, Inv, Kept
<1>20. Open \subseteq Open' /\ S \subseteq Open' /\ \A x \in sent : x \in Open' => x \in Open \/ x \in S
  BY <1>2, <1>4 DEF Open
<1>21. FinalOnce'
  BY <1>2, <1>4, <1>11 DEF Inv, FinalOnce
<1>22. Fresh'
  <2>1. \A m \in sent' : m.thid < nextId'
    BY <1>1, <1>2, <1>4 DEF Inv, Fresh
  <2>2. \A c \in Parties, m \in Domains : job'[c][m] # None => job'[c][m].id < nextId'
    BY <1>2, <1>6 DEF Inv, Fresh
  <2>3. ASSUME NEW c \in Parties, job'[c]["Relationship"] # None, job'[c]["Relationship"].kind \in NewKinds,
               job'[c]["Relationship"].st = "run", NEW m \in sent'
        PROVE  m.thid # job'[c]["Relationship"].id
    <3>1. job'[c]["Relationship"] = job[c]["Relationship"]
      BY <1>6, <1>9, <2>3
    <3>2. \A x \in sent : x.thid # job[c]["Relationship"].id
      BY <2>3, <3>1 DEF Inv, Fresh
    <3>3. CASE m \in sent
      BY <3>1, <3>2, <3>3
    <3>4. CASE m \in S /\ domain = "Inbox"
      BY <1>4, <1>12, <3>1, <3>2, <3>4 DEF Told
    <3>5. CASE m \in S /\ domain = "Relationship"
      <4>1. c # p
        BY <1>2, <2>3, <3>5
      <4>2. j.kind \in NewKinds
        BY <1>10, <3>5
      <4>3. job[p]["Relationship"].id # job[c]["Relationship"].id
        BY <1>1, <1>2, <2>3, <3>1, <3>5, <4>1, <4>2 DEF Inv, Fresh
      <4> QED BY <1>1, <1>4, <3>1, <3>5, <4>3
    <3> QED BY <1>4, <1>9, <3>3, <3>4, <3>5
  <2>4. \A c, a \in Parties :
          /\ c # a /\ job'[c]["Relationship"] # None /\ job'[a]["Relationship"] # None
          /\ job'[c]["Relationship"].kind \in NewKinds /\ job'[a]["Relationship"].kind \in NewKinds
          => job'[c]["Relationship"].id # job'[a]["Relationship"].id
    BY <1>6, <1>9 DEF Inv, Fresh
  <2> QED BY <2>1, <2>2, <2>3, <2>4 DEF Fresh
<1>23. OneStart'
  <2>1. \A r \in S, s \in sent : r.type \in AskTypes \cup {"ping"} => r.thid # s.thid
    BY <1>4, <1>9, <1>10, <1>15 DEF AnswerTypes, AskTypes
  <2> QED BY <1>4, <2>1 DEF Inv, Origins, OneStart
<1>24. \A a, c, t, k : Told(sent, a, c, t, k) => Told(sent', a, c, t, k)
  BY <1>4 DEF Told
<1>25. MessagesFollow'
  <2>1. ASSUME NEW m \in S, m.type \in AnswerTypes
        PROVE  Told(sent', Owner(m.to), Owner(m.from), m.thid, AnswerAsk(m.type))
    <3>1. domain = "Inbox"
      BY <1>9, <1>10, <2>1 DEF AnswerTypes, AskTypes
    <3> QED BY <1>4, <1>10, <1>12, <1>24, <2>1, <3>1
  <2> QED BY <1>4, <1>11, <1>24, <2>1 DEF Inv, Origins, MessagesFollow
<1>26. TasksFollow'
  BY <1>2, <1>24 DEF Inv, Origins, TasksFollow
<1>27. JobsFollow'
  <2>1. \A c \in Parties : job'[c]["Inbox"] # None =>
          Told(sent', job'[c]["Inbox"].peer, c, job'[c]["Inbox"].id, JobAsk(job'[c]["Inbox"].kind))
    BY <1>6, <1>9, <1>24 DEF Inv, Origins, JobsFollow
  <2>2. ASSUME NEW c \in Parties, NEW m \in Domains, job'[c][m] # None, job'[c][m].st = "sent", job'[c][m].kind # "Remove"
        PROVE  \E x \in sent' : /\ SentBy(job'[c][m].kind, x.type) /\ x.thid = job'[c][m].id
                                /\ Owner(x.from) = c /\ Owner(x.to) = job'[c][m].peer
    <3>1. CASE c = p /\ m = domain
      BY <1>2, <1>4, <2>2, <3>1
    <3>2. CASE ~(c = p /\ m = domain)
      BY <1>4, <1>5, <2>2, <3>2 DEF Inv, Origins, JobsFollow
    <3> QED BY <3>1, <3>2
  <2> QED BY <2>1, <2>2 DEF JobsFollow
<1>28. Origins'
  BY <1>23, <1>25, <1>26, <1>27 DEF Origins
<1>29. OneAnswer'
  <2>1. \A m \in S, n \in sent : m.type \in AnswerTypes /\ n.type \in AnswerTypes /\ m.thid \notin spoiled => m.thid # n.thid
    BY <1>4, <1>9, <1>10, <1>15, <1>16
  <2> QED BY <1>2, <1>4, <2>1 DEF Inv, AnsweredOnce, OneAnswer
<1>30. TasksUnanswered'
  <2>1. ASSUME NEW c \in Parties, NEW t \in db[c].tasks, NEW m \in sent', t.kind \in InKinds, m.type \in AnswerTypes,
               m.thid = t.id, t.id \notin spoiled
        PROVE  job'[c]["Inbox"] # None /\ job'[c]["Inbox"].id = t.id /\ job'[c]["Inbox"].st = "sent"
    <3>1. CASE m \in sent
      <4>1. job[c]["Inbox"] # None /\ job[c]["Inbox"].id = t.id /\ job[c]["Inbox"].st = "sent"
        BY <2>1, <3>1 DEF Inv, AnsweredOnce, TasksUnanswered
      <4>2. job'[c]["Inbox"] = job[c]["Inbox"]
        BY <1>1, <1>2, <1>5, <1>9, <4>1
      <4> QED BY <4>1, <4>2
    <3>2. CASE m \in S
      <4>1. Told(sent, t.peer, c, t.id, TaskAsk(t.kind))
        BY <2>1 DEF Inv, Origins, TasksFollow
      <4>3. domain = "Inbox"
        BY <1>4, <1>9, <1>10, <1>15, <2>1, <3>2, <4>1 DEF Told
      <4>4. c = p /\ t.id = j.id
        BY <1>4, <1>12, <1>13, <1>14, <2>1, <3>2, <4>1, <4>3
      <4> QED BY <1>2, <4>3, <4>4
    <3> QED BY <1>4, <2>1, <3>1, <3>2
  <2> QED BY <1>2, <2>1 DEF TasksUnanswered
<1>31. JobsUnanswered'
  <2>1. ASSUME NEW c \in Parties, NEW m \in sent', job'[c]["Inbox"] # None, job'[c]["Inbox"].st = "run",
               job'[c]["Inbox"].id \notin spoiled, m.type \in AnswerTypes
        PROVE  m.thid # job'[c]["Inbox"].id
    <3>1. job'[c]["Inbox"] = job[c]["Inbox"]
      BY <1>6, <1>9, <2>1
    <3>2. CASE m \in sent
      BY <2>1, <3>1, <3>2 DEF Inv, AnsweredOnce, JobsUnanswered
    <3>3. CASE m \in S
      <4>1. Told(sent, job[c]["Inbox"].peer, c, job[c]["Inbox"].id, JobAsk(job[c]["Inbox"].kind))
        BY <2>1, <3>1 DEF Inv, Origins, JobsFollow
      <4>3. CASE domain = "Inbox"
        <5>1. m.thid = job[c]["Inbox"].id => c = p
          BY <1>4, <1>12, <1>13, <1>14, <3>3, <4>1, <4>3
        <5> QED BY <1>2, <2>1, <3>1, <4>3, <5>1
      <4>4. CASE domain = "Relationship"
        BY <1>4, <1>10, <1>15, <3>1, <3>3, <4>1, <4>4 DEF Told
      <4> QED BY <1>9, <4>3, <4>4
    <3> QED BY <1>4, <3>2, <3>3
  <2> QED BY <1>2, <2>1 DEF JobsUnanswered
<1>32. OpenUnanswered'
  <2>1. ASSUME NEW r \in sent', r.type \in AskTypes, r.thid \notin spoiled, r \in Open'
        PROVE  /\ \A m \in sent' : m.type \in AnswerTypes => m.thid # r.thid
               /\ \A c \in Parties : /\ \A t \in db[c].tasks : t.kind \in InKinds => t.id # r.thid
                                     /\ job'[c]["Inbox"] # None => job'[c]["Inbox"].id # r.thid
    <3>1. CASE r \in sent
      <4>1. r \in Open
        BY <1>17, <1>20, <2>1, <3>1
      <4>2. /\ \A m \in sent : m.type \in AnswerTypes => m.thid # r.thid
            /\ \A c \in Parties : /\ \A t \in db[c].tasks : t.kind \in InKinds => t.id # r.thid
                                  /\ job[c]["Inbox"] # None => job[c]["Inbox"].id # r.thid
        BY <2>1, <3>1, <4>1 DEF Inv, AnsweredOnce, OpenUnanswered
      <4>3. \A m \in S : m.type \in AnswerTypes => m.thid # r.thid
        BY <1>1, <1>2, <1>4, <1>9, <1>10, <1>15, <3>1, <4>2
      <4> QED BY <1>4, <1>6, <1>9, <4>2, <4>3
    <3>2. CASE r \in S
      <4>1. domain = "Relationship" /\ j.kind \in NewKinds /\ r.thid = j.id
        BY <1>4, <1>9, <1>10, <2>1, <3>2 DEF AskTypes, AnswerTypes
      <4>2. \A m \in sent : m.thid # r.thid
        BY <1>15, <4>1
      <4>3. \A m \in S : m.type \notin AnswerTypes
        BY <1>10, <4>1 DEF AskTypes, AnswerTypes
      <4>4. \A c \in Parties : \A t \in db[c].tasks : t.kind \in InKinds => t.id # r.thid
        BY <4>2 DEF Inv, Origins, TasksFollow, Told
      <4>5. \A c \in Parties : job'[c]["Inbox"] # None => job'[c]["Inbox"].id # r.thid
        BY <1>6, <1>9, <4>2 DEF Inv, Origins, JobsFollow, Told
      <4> QED BY <1>4, <4>2, <4>3, <4>4, <4>5
    <3> QED BY <1>4, <2>1, <3>1, <3>2
  <2> QED BY <1>2, <2>1 DEF OpenUnanswered
<1>33. Asked'
  <2>1. ASSUME NEW c \in Parties, job'[c]["Relationship"] # None, job'[c]["Relationship"].kind = "Create",
               job'[c]["Relationship"].st = "run", job'[c]["Relationship"].id \notin spoiled
        PROVE  At(db[c], job'[c]["Relationship"].peer, job'[c]["Relationship"].id, "RequestSent")
    <3>1. job'[c]["Relationship"] = job[c]["Relationship"]
      BY <1>6, <1>9, <2>1
    <3> QED BY <2>1, <3>1 DEF Inv, Asked
  <2>2. ASSUME NEW r \in sent', r.type = "request", r.thid \notin spoiled
        PROVE  \/ \E m \in sent' : m.type \in AnswerTypes /\ m.thid = r.thid
               \/ At(db[Owner(r.from)], Owner(r.to), r.thid, "RequestSent")
    <3>1. CASE r \in sent
      BY <1>4, <2>2, <3>1 DEF Inv, Asked
    <3>2. CASE r \in S
      <4>1. j.kind = "Create" /\ domain = "Relationship"
        BY <1>7, <1>9, <1>11, <2>2, <3>2 DEF AnswerKinds
      <4>2. At(db[p], j.peer, j.id, "RequestSent")
        BY <1>1, <1>2, <1>4, <2>2, <3>2, <4>1 DEF Inv, Asked
      <4> QED BY <1>4, <3>2, <4>2
    <3> QED BY <1>4, <2>2, <3>1, <3>2
  <2> QED BY <1>2, <2>1, <2>2 DEF Asked
<1>34. Closing'
  <2>1. ASSUME NEW m \in sent', m.type = "accept", m.thid \notin spoiled
        PROVE  \/ At(db[Owner(m.to)], Owner(m.from), m.thid, "RequestSent") /\ m \in Open'
               \/ Told(sent', Owner(m.to), Owner(m.from), m.thid, "finalize")
    <3>1. CASE m \in sent
      <4>1. \/ At(db[Owner(m.to)], Owner(m.from), m.thid, "RequestSent") /\ m \in Open
            \/ Told(sent, Owner(m.to), Owner(m.from), m.thid, "finalize")
        BY <2>1, <3>1 DEF Inv, Closing
      <4> QED BY <1>20, <1>24, <4>1
    <3>2. CASE m \in S
      <4>1. j.kind = "Accept" /\ domain = "Inbox"
        BY <1>7, <1>9, <1>11, <2>1, <3>2 DEF NewKinds
      <4>2. PICK r \in sent : r.type = "request" /\ r.thid = j.id /\ Owner(r.from) = j.peer /\ Owner(r.to) = p
        BY <1>12, <4>1 DEF Told, JobAsk
      <4>3. j.id \notin spoiled
        BY <1>4, <2>1, <3>2
      <4>4. At(db[j.peer], p, j.id, "RequestSent")
        BY <1>16, <4>1, <4>2, <4>3 DEF Inv, Asked
      <4> QED BY <1>4, <1>20, <3>2, <4>4
    <3> QED BY <1>4, <2>1, <3>1, <3>2
  <2> QED BY <1>2, <2>1 DEF Closing
<1>35. Finished'
  <2>1. ASSUME NEW f \in sent', f.type = "finalize", f.thid \notin spoiled, f.thid \notin early, f \notin Open'
        PROVE  /\ ~At(db[Owner(f.to)], Owner(f.from), f.thid, "RequestAccepted")
               /\ job'[Owner(f.to)]["Inbox"] # None /\ job'[Owner(f.to)]["Inbox"].kind = "Accept" =>
                      job'[Owner(f.to)]["Inbox"].id # f.thid
    <3>1. f \in sent /\ f \notin Open
      BY <1>4, <1>11, <1>20, <2>1
    <3>2. /\ ~At(db[Owner(f.to)], Owner(f.from), f.thid, "RequestAccepted")
          /\ job[Owner(f.to)]["Inbox"] # None /\ job[Owner(f.to)]["Inbox"].kind = "Accept" =>
                 job[Owner(f.to)]["Inbox"].id # f.thid
      BY <2>1, <3>1 DEF Inv, Finished
    <3> QED BY <1>6, <1>8, <1>9, <3>1, <3>2
  <2> QED BY <1>2, <2>1 DEF Finished
<1>36. Recorded'
  BY <1>2, <1>24 DEF Inv, Recorded
<1>37. VrcAsked'
  <2>1. ASSUME NEW r \in sent', r.type = "vrcRequest", r.thid \notin spoiled, r.thid \notin early, r \notin Open'
        PROVE  \/ \E m \in sent' : m.type \in AnswerTypes /\ m.thid = r.thid
               \/ \E u \in db[Owner(r.to)].tasks : u.id = r.thid /\ u.kind = "VrcRequestIn"
    BY <1>4, <1>20, <2>1 DEF Inv, VrcAsked
  <2> QED BY <1>2, <2>1 DEF VrcAsked
<1>38. VrcDone'
  <2>1. ASSUME NEW m \in sent', m.type \in {"vrc", "vrcReject"}, m.thid \notin spoiled, m.thid \notin early, m \notin Open'
        PROVE  /\ \A t \in db[Owner(m.to)].tasks : t.id = m.thid => t.kind # "VrcRequestOut"
               /\ job'[Owner(m.to)]["Relationship"] # None /\ job'[Owner(m.to)]["Relationship"].kind = "RequestVrc" =>
                      job'[Owner(m.to)]["Relationship"].id # m.thid
    <3>1. m \in sent /\ m \notin Open
      BY <1>4, <1>20, <2>1
    <3>2. /\ \A t \in db[Owner(m.to)].tasks : t.id = m.thid => t.kind # "VrcRequestOut"
          /\ job[Owner(m.to)]["Relationship"] # None /\ job[Owner(m.to)]["Relationship"].kind = "RequestVrc" =>
                 job[Owner(m.to)]["Relationship"].id # m.thid
      BY <2>1, <3>1 DEF Inv, VrcDone
    <3> QED BY <1>6, <1>8, <1>9, <3>1, <3>2
  <2> QED BY <1>2, <2>1 DEF VrcDone
<1>39. VrcOnce'
  BY <1>2, <1>6, <1>9 DEF Inv, VrcOnce
<1> QED BY <1>2, <1>18, <1>19, <1>21, <1>22, <1>28, <1>29, <1>30, <1>31, <1>32, <1>33, <1>34, <1>35, <1>36, <1>37, <1>38, <1>39
        DEF Inv, Kept, AnsweredOnce

LEMMA TakesKeeps ==
    ASSUME Inv, NEW p \in Parties, NEW m \in sent, Takes(p, m)
    PROVE  Inv'
<1>1. PICK q : q = Owner(m.from)
  OBVIOUS
<1>2. PICK N : N = sent' \ sent
  OBVIOUS
<1>3. /\ Kept' /\ m \in Open /\ Owner(m.to) = p /\ job' = job /\ nextId' = nextId
      /\ spoiled \subseteq spoiled' /\ early \subseteq early' /\ sent' = sent \cup N /\ N \cap sent = {}
  BY <1>2 DEF Takes
<1>4. \A c \in Parties : c # p => db'[c] = db[c]
  BY DEF Takes, OthersSame
<1>5. \A x \in N : /\ x.thid = m.thid /\ Owner(x.from) = p /\ Owner(x.to) = q
                   /\ (x.type = "finalize" /\ m.type = "accept") \/ (x.type = "pong" /\ m.type = "ping")
  BY <1>1, <1>2 DEF Takes
<1>6. /\ \A x \in sent : x.type \in Tracked /\ x.thid \notin spoiled' => (x \in Open' <=> x \in Open /\ x # m)
      /\ \A x \in N : x.type \in Tracked /\ x.thid \notin spoiled' => x \in Open'
  BY <1>2, <1>3 DEF Takes
<1>7. \A a \in Parties, t \in Nat, st \in States :
         /\ At(db'[p], a, t, st) => At(db[p], a, t, st) \/ st = "Established"
         /\ At(db[p], a, t, st) => At(db'[p], a, t, st) \/ (a = q /\ t = m.thid /\ Moved(m, st))
  BY <1>1 DEF Takes
<1>8. m.type = "accept" /\ m.thid \notin spoiled' =>
         /\ ~At(db'[p], q, m.thid, "RequestSent")
         /\ At(db[p], q, m.thid, "RequestSent") => Told(sent', p, q, m.thid, "finalize")
  BY <1>1 DEF Takes
<1>9. m.type = "finalize" =>
         /\ ~At(db'[p], q, m.thid, "RequestAccepted")
         /\ job[p]["Inbox"] # None /\ job[p]["Inbox"].id = m.thid => m.thid \in early'
  BY <1>1 DEF Takes
<1>10. /\ \A t \in db'[p].tasks :
            /\ t.kind \in InKinds => t \in db[p].tasks \/ (t.id = m.thid /\ t.peer = q /\ TaskAsk(t.kind) = m.type)
            /\ t.kind = "VrcRequestOut" => t \in db[p].tasks
       /\ \A t \in db[p].tasks : t \in db'[p].tasks \/ (t.id = m.thid /\ (m.type \in Ending \/ t.kind = "VrcRequestOut"))
  BY <1>1 DEF Takes
<1>11. m.thid \notin spoiled' \cup early' =>
         /\ m.type = "vrcRequest" => \E u \in db'[p].tasks : u.id = m.thid /\ u.kind = "VrcRequestIn"
         /\ m.type \in {"vrc", "vrcReject"} =>
              /\ \E u \in db[p].tasks : u.id = m.thid /\ u.kind = "VrcRequestOut"
              /\ \A t \in db'[p].tasks : t.id = m.thid => t.kind # "VrcRequestOut"
  BY DEF Takes
<1>12. \A x \in sent : x.thid \in Nat /\ Owner(x.from) \in Parties /\ Owner(x.to) \in Parties
  BY Owners DEF Inv, Kept, Typed, MessagesTyped, GoodMsg, MsgType
<1>13. q \in Parties /\ Domains = {"Inbox", "Relationship"}
  BY <1>1, <1>12 DEF Domains
<1>14. \A k : TaskAsk(k) \in AskTypes
  BY DEF TaskAsk, AskTypes
<1>15. \A a, c, t, k : Told(sent, a, c, t, k) => Told(sent', a, c, t, k)
  BY <1>3 DEF Told
<1>16. \A x \in N : x.type \notin AskTypes \cup {"ping"} /\ x.type \notin AnswerTypes /\ x.type \notin {"accept", "vrc", "vrcReject"}
  BY <1>5 DEF AskTypes, AnswerTypes
<1>17. \A c \in Parties : \A t \in db'[c].tasks :
         /\ t.kind \in InKinds =>
              t \in db[c].tasks \/ (c = p /\ t.id = m.thid /\ t.peer = q /\ TaskAsk(t.kind) = m.type /\ m.type \in AskTypes)
         /\ t.kind = "VrcRequestOut" => t \in db[c].tasks
  BY <1>4, <1>10, <1>14
<1>18. \A c, a \in Parties, t \in Nat, st \in States :
         /\ At(db'[c], a, t, st) => At(db[c], a, t, st) \/ st = "Established"
         /\ At(db[c], a, t, st) => At(db'[c], a, t, st) \/ (c = p /\ a = q /\ t = m.thid /\ Moved(m, st))
  BY <1>4, <1>7
<1>19. FinalOnce'
  <2>1. ASSUME NEW f \in sent', f.type = "finalize", f.thid \notin spoiled'
        PROVE  ~At(db'[Owner(f.from)], Owner(f.to), f.thid, "RequestSent")
    <3>1. CASE f \in sent
      BY <1>3, <1>12, <1>18, <2>1, <3>1 DEF Inv, FinalOnce, States
    <3>2. CASE f \in N
      BY <1>5, <1>8, <2>1, <3>2
    <3> QED BY <1>3, <2>1, <3>1, <3>2
  <2> QED BY <2>1 DEF FinalOnce
<1>20. Fresh'
  BY <1>3, <1>5 DEF Inv, Fresh
<1>21. OneStart'
  BY <1>3, <1>16 DEF Inv, Origins, OneStart
<1>22. MessagesFollow'
  <2>1. ASSUME NEW x \in N
        PROVE  /\ x.type = "finalize" => Told(sent', Owner(x.to), Owner(x.from), x.thid, "accept")
               /\ x.type = "pong" => \E r \in sent' : r.type = "ping" /\ r.thid = x.thid
    BY <1>1, <1>3, <1>5, <2>1 DEF Told
  <2> QED BY <1>3, <1>15, <1>16, <2>1 DEF Inv, Origins, MessagesFollow
<1>23. TasksFollow'
  <2>1. ASSUME NEW c \in Parties, NEW t \in db'[c].tasks
        PROVE  /\ t.kind \in InKinds => Told(sent', t.peer, c, t.id, TaskAsk(t.kind))
               /\ t.kind = "VrcRequestOut" => Told(sent', c, t.peer, t.id, "vrcRequest")
    <3>1. CASE t \in db[c].tasks
      BY <1>15, <2>1, <3>1 DEF Inv, Origins, TasksFollow
    <3>2. CASE t \notin db[c].tasks
      BY <1>1, <1>3, <1>17, <2>1, <3>2 DEF Told
    <3> QED BY <3>1, <3>2
  <2> QED BY <2>1 DEF TasksFollow
<1>24. JobsFollow'
  <2>1. \A c \in Parties : job'[c]["Inbox"] # None =>
          Told(sent', job'[c]["Inbox"].peer, c, job'[c]["Inbox"].id, JobAsk(job'[c]["Inbox"].kind))
    BY <1>3, <1>15 DEF Inv, Origins, JobsFollow
  <2>2. ASSUME NEW c \in Parties, NEW d \in Domains, job'[c][d] # None, job'[c][d].st = "sent", job'[c][d].kind # "Remove"
        PROVE  \E x \in sent' : /\ SentBy(job'[c][d].kind, x.type) /\ x.thid = job'[c][d].id
                                /\ Owner(x.from) = c /\ Owner(x.to) = job'[c][d].peer
    BY <1>3, <2>2 DEF Inv, Origins, JobsFollow
  <2> QED BY <2>1, <2>2 DEF JobsFollow
<1>25. Origins'
  BY <1>21, <1>22, <1>23, <1>24 DEF Origins
<1>26. OneAnswer'
  BY <1>3, <1>16 DEF Inv, AnsweredOnce, OneAnswer
<1>27. m.type \in AskTypes /\ m.thid \notin spoiled' => \A x \in sent : x.type \in AnswerTypes => x.thid # m.thid
  BY <1>3 DEF Inv, AnsweredOnce, OpenUnanswered
<1>28. TasksUnanswered'
  <2>1. ASSUME NEW c \in Parties, NEW t \in db'[c].tasks, NEW x \in sent', t.kind \in InKinds, x.type \in AnswerTypes,
               x.thid = t.id, t.id \notin spoiled'
        PROVE  job[c]["Inbox"] # None /\ job[c]["Inbox"].id = t.id /\ job[c]["Inbox"].st = "sent"
    <3>1. x \in sent
      BY <1>3, <1>16, <2>1
    <3>2. t \in db[c].tasks
      BY <1>17, <1>27, <2>1, <3>1
    <3> QED BY <1>3, <2>1, <3>1, <3>2 DEF Inv, AnsweredOnce, TasksUnanswered
  <2> QED BY <1>3, <2>1 DEF TasksUnanswered
<1>29. JobsUnanswered'
  BY <1>3, <1>16 DEF Inv, AnsweredOnce, JobsUnanswered
<1>30. OpenUnanswered'
  <2>1. ASSUME NEW r \in sent', r.type \in AskTypes, r.thid \notin spoiled', r \in Open'
        PROVE  /\ \A x \in sent' : x.type \in AnswerTypes => x.thid # r.thid
               /\ \A c \in Parties : /\ \A t \in db'[c].tasks : t.kind \in InKinds => t.id # r.thid
                                     /\ job[c]["Inbox"] # None => job[c]["Inbox"].id # r.thid
    <3>1. r \in sent /\ r \in Open /\ r # m
      BY <1>3, <1>6, <1>16, <2>1 DEF AskTypes, Tracked
    <3>2. /\ \A x \in sent : x.type \in AnswerTypes => x.thid # r.thid
          /\ \A c \in Parties : /\ \A t \in db[c].tasks : t.kind \in InKinds => t.id # r.thid
                                /\ job[c]["Inbox"] # None => job[c]["Inbox"].id # r.thid
      BY <1>3, <2>1, <3>1 DEF Inv, AnsweredOnce, OpenUnanswered
    <3>3. m.type \in AskTypes => m.thid # r.thid
      BY <2>1, <3>1 DEF Inv, Origins, OneStart
    <3> QED BY <1>3, <1>16, <1>17, <3>2, <3>3
  <2> QED BY <1>3, <2>1 DEF OpenUnanswered
<1>31. Asked'
  <2>1. ASSUME NEW c \in Parties, job[c]["Relationship"] # None, job[c]["Relationship"].kind = "Create",
               job[c]["Relationship"].st = "run", job[c]["Relationship"].id \notin spoiled'
        PROVE  At(db'[c], job[c]["Relationship"].peer, job[c]["Relationship"].id, "RequestSent")
    <3>1. At(db[c], job[c]["Relationship"].peer, job[c]["Relationship"].id, "RequestSent")
      BY <1>3, <2>1 DEF Inv, Asked
    <3>2. m.thid # job[c]["Relationship"].id
      BY <2>1 DEF Inv, Fresh, NewKinds
    <3>3. job[c]["Relationship"].peer \in Parties /\ job[c]["Relationship"].id \in Nat
      BY <1>13, <2>1, JobThere DEF Inv, Kept, Typed
    <3> QED BY <1>18, <3>1, <3>2, <3>3 DEF States
  <2>2. ASSUME NEW r \in sent', r.type = "request", r.thid \notin spoiled'
        PROVE  \/ \E x \in sent' : x.type \in AnswerTypes /\ x.thid = r.thid
               \/ At(db'[Owner(r.from)], Owner(r.to), r.thid, "RequestSent")
    <3>1. r \in sent
      BY <1>3, <1>5, <2>2
    <3>2. CASE \E x \in sent : x.type \in AnswerTypes /\ x.thid = r.thid
      BY <1>3, <3>2
    <3>3. CASE At(db[Owner(r.from)], Owner(r.to), r.thid, "RequestSent")
      <4>1. Owner(r.from) \in Parties /\ Owner(r.to) \in Parties /\ r.thid \in Nat
        BY <1>12, <3>1
      <4>2. CASE At(db'[Owner(r.from)], Owner(r.to), r.thid, "RequestSent")
        BY <4>2
      <4>3. CASE r.thid = m.thid /\ Moved(m, "RequestSent")
        BY <1>3, <4>3 DEF Moved, AnswerTypes
      <4> QED BY <1>18, <3>3, <4>1, <4>2, <4>3 DEF States
    <3> QED BY <1>3, <2>2, <3>1, <3>2, <3>3 DEF Inv, Asked
  <2> QED BY <1>3, <2>1, <2>2 DEF Asked
<1>32. Closing'
  <2>1. ASSUME NEW x \in sent', x.type = "accept", x.thid \notin spoiled'
        PROVE  \/ At(db'[Owner(x.to)], Owner(x.from), x.thid, "RequestSent") /\ x \in Open'
               \/ Told(sent', Owner(x.to), Owner(x.from), x.thid, "finalize")
    <3>1. x \in sent /\ x.thid \notin spoiled
      BY <1>3, <1>16, <2>1
    <3>2. CASE Told(sent, Owner(x.to), Owner(x.from), x.thid, "finalize")
      BY <1>15, <3>2
    <3>3. CASE At(db[Owner(x.to)], Owner(x.from), x.thid, "RequestSent") /\ x \in Open
      <4>1. CASE x = m
        BY <1>1, <1>3, <1>8, <2>1, <3>3, <4>1
      <4>2. CASE x # m
        <5>1. ~(x.thid = m.thid /\ Moved(m, "RequestSent"))
          BY <2>1, <3>1, <4>2 DEF Moved, Inv, AnsweredOnce, OneAnswer, AnswerTypes
        <5>2. At(db'[Owner(x.to)], Owner(x.from), x.thid, "RequestSent")
          BY <1>12, <1>18, <3>1, <3>3, <5>1 DEF States
        <5>3. x \in Open'
          BY <1>6, <2>1, <3>1, <3>3, <4>2 DEF Tracked
        <5> QED BY <5>2, <5>3
      <4> QED BY <4>1, <4>2
    <3> QED BY <2>1, <3>1, <3>2, <3>3 DEF Inv, Closing
  <2> QED BY <2>1 DEF Closing
<1>33. Finished'
  <2>1. ASSUME NEW f \in sent', f.type = "finalize", f.thid \notin spoiled', f.thid \notin early', f \notin Open'
        PROVE  /\ ~At(db'[Owner(f.to)], Owner(f.from), f.thid, "RequestAccepted")
               /\ job[Owner(f.to)]["Inbox"] # None /\ job[Owner(f.to)]["Inbox"].kind = "Accept" =>
                      job[Owner(f.to)]["Inbox"].id # f.thid
    <3>1. f \in sent
      BY <1>3, <1>6, <2>1 DEF Tracked
    <3>2. CASE f = m
      BY <1>1, <1>3, <1>9, <2>1, <3>2
    <3>3. CASE f # m
      <4>1. f \notin Open
        BY <1>6, <2>1, <3>1, <3>3 DEF Tracked
      <4>2. /\ ~At(db[Owner(f.to)], Owner(f.from), f.thid, "RequestAccepted")
            /\ job[Owner(f.to)]["Inbox"] # None /\ job[Owner(f.to)]["Inbox"].kind = "Accept" =>
                   job[Owner(f.to)]["Inbox"].id # f.thid
        BY <1>3, <2>1, <3>1, <4>1 DEF Inv, Finished
      <4> QED BY <1>12, <1>18, <3>1, <4>2 DEF States
    <3> QED BY <3>2, <3>3
  <2> QED BY <1>3, <2>1 DEF Finished
<1>34. Recorded'
  <2>1. ASSUME NEW c \in Parties, NEW a \in Parties, NEW t \in Nat, t \notin spoiled', At(db'[c], a, t, "RequestAccepted")
        PROVE  Told(sent', c, a, t, "accept")
    BY <1>3, <1>15, <1>18, <2>1 DEF Inv, Recorded, States
  <2> QED BY <2>1 DEF Recorded
<1>35. VrcAsked'
  <2>1. ASSUME NEW r \in sent', r.type = "vrcRequest", r.thid \notin spoiled', r.thid \notin early', r \notin Open',
               \A x \in sent' : x.type \in AnswerTypes => x.thid # r.thid
        PROVE  \E u \in db'[Owner(r.to)].tasks : u.id = r.thid /\ u.kind = "VrcRequestIn"
    <3>1. r \in sent
      BY <1>3, <1>5, <2>1
    <3>2. CASE r = m
      BY <1>3, <1>11, <2>1, <3>2
    <3>3. CASE r # m
      <4>1. r \notin Open
        BY <1>6, <2>1, <3>1, <3>3 DEF Tracked
      <4>2. PICK u \in db[Owner(r.to)].tasks : u.id = r.thid /\ u.kind = "VrcRequestIn"
        BY <1>3, <2>1, <3>1, <4>1 DEF Inv, VrcAsked
      <4>3. ~(m.thid = r.thid /\ m.type \in Ending)
        <5>1. m.type \in {"accept", "reject"} => \E x \in sent : x.type = "request" /\ x.thid = m.thid
          BY DEF Inv, Origins, MessagesFollow, Told, AnswerTypes, AnswerAsk
        <5>2. m.type = "finalize" => \E x \in sent : x.type = "request" /\ x.thid = m.thid
          <6>1. m.type = "finalize" => \E x \in sent : x.type = "accept" /\ x.thid = m.thid
            BY DEF Inv, Origins, MessagesFollow, Told
          <6>2. \A x \in sent : x.type = "accept" => \E y \in sent : y.type = "request" /\ y.thid = x.thid
            BY DEF Inv, Origins, MessagesFollow, Told, AnswerTypes, AnswerAsk
          <6> QED BY <6>1, <6>2
        <5>3. m.type = "pong" => \E x \in sent : x.type = "ping" /\ x.thid = m.thid
          BY DEF Inv, Origins, MessagesFollow
        <5>4. \A x \in sent : x.type \in {"request", "ping"} => x.thid # r.thid
          BY <2>1, <3>1 DEF Inv, Origins, OneStart, AskTypes
        <5> QED BY <5>1, <5>2, <5>3, <5>4 DEF Ending
      <4>4. Owner(r.to) \in Parties
        BY <1>12, <3>1
      <4>5. u \in db'[Owner(r.to)].tasks
        BY <1>4, <1>10, <4>2, <4>3, <4>4
      <4> QED BY <4>2, <4>5
    <3> QED BY <3>2, <3>3
  <2> QED BY <2>1 DEF VrcAsked
<1>36. VrcDone'
  <2>1. ASSUME NEW x \in sent', x.type \in {"vrc", "vrcReject"}, x.thid \notin spoiled', x.thid \notin early', x \notin Open'
        PROVE  /\ \A t \in db'[Owner(x.to)].tasks : t.id = x.thid => t.kind # "VrcRequestOut"
               /\ job[Owner(x.to)]["Relationship"] # None /\ job[Owner(x.to)]["Relationship"].kind = "RequestVrc" =>
                      job[Owner(x.to)]["Relationship"].id # x.thid
    <3>1. x \in sent
      BY <1>3, <1>16, <2>1
    <3>2. CASE x = m
      <4>1. \E u \in db[p].tasks : u.id = m.thid /\ u.kind = "VrcRequestOut"
        BY <1>11, <2>1, <3>2
      <4>2. job[p]["Relationship"] # None /\ job[p]["Relationship"].kind = "RequestVrc" => job[p]["Relationship"].id # m.thid
        BY <4>1 DEF Inv, VrcOnce, NewKinds
      <4> QED BY <1>3, <1>11, <2>1, <3>2, <4>2
    <3>3. CASE x # m
      <4>1. x \notin Open
        BY <1>6, <2>1, <3>1, <3>3 DEF Tracked
      <4>2. /\ \A t \in db[Owner(x.to)].tasks : t.id = x.thid => t.kind # "VrcRequestOut"
            /\ job[Owner(x.to)]["Relationship"] # None /\ job[Owner(x.to)]["Relationship"].kind = "RequestVrc" =>
                   job[Owner(x.to)]["Relationship"].id # x.thid
        BY <1>3, <2>1, <3>1, <4>1 DEF Inv, VrcDone
      <4> QED BY <1>12, <1>17, <3>1, <4>2
    <3> QED BY <3>2, <3>3
  <2> QED BY <1>3, <2>1 DEF VrcDone
<1>37. VrcOnce'
  BY <1>3, <1>17 DEF Inv, VrcOnce
<1> QED BY <1>3, <1>19, <1>20, <1>25, <1>26, <1>28, <1>29, <1>30, <1>31, <1>32, <1>33, <1>34, <1>35, <1>36, <1>37
        DEF Inv, AnsweredOnce

-----------------------------------------------------------------------------
(* Every action is one of these steps.  First those that only move or lose  *)
(* messages, and those that leave the messages alone.                       *)
LEMMA SameQueues ==
    ASSUME Once, Unsent, spoiled \subseteq spoiled'
    PROVE  Once' /\ Open' = Open
<1>1. \A c \in Parties : Apart(held[c], spoiled) => Apart(held[c], spoiled')
  BY ApartMore
<1> QED BY <1>1 DEF Once, Unsent, Open

LEMMA MovesRests ==
    ASSUME Inv, Moves
    PROVE  Rests
<1>1. /\ Typed' /\ Once' /\ UNCHANGED <<db, saved, job, sent, nextId, early>> /\ spoiled \subseteq spoiled'
      /\ \A x \in sent : x.type \in Tracked /\ x.thid \notin spoiled' => (x \in Open' <=> x \in Open)
  BY DEF Moves
<1>2. RelIds' /\ Latest'
  BY <1>1 DEF Inv, Kept, RelIds, Latest
<1>3. OnDisk'
  BY <1>1 DEF Inv, Kept, OnDisk, CreatingId
<1>4. Kept'
  BY <1>1, <1>2, <1>3 DEF Kept
<1> QED BY <1>1, <1>4 DEF Rests

(* An outcome is applied to account p. *)
Settled(p, domain) ==
    /\ spoiled \subseteq spoiled'
    /\ \A a \in Parties : db'[p].rel[a] # None =>
         /\ db'[p].rel[a].task < nextId
         /\ domain = "Inbox" /\ db'[p].rel[a].st = "RequestSent" => db'[p].rel[a] = db[p].rel[a]
    /\ saved'[p] = db'[p] \/
         /\ saved' = saved
         /\ \A a \in Parties :
              \/ /\ db'[p].rel[a] = db[p].rel[a]
                 /\ \/ domain = "Inbox" \/ db[p].rel[a] = None \/ db[p].rel[a].task \in spoiled'
                    \/ ~CreatingId(p, a, db[p].rel[a].task)
              \/ db'[p].rel[a] = None /\ (db[p].rel[a] = None \/ db[p].rel[a].task \in spoiled')
    /\ domain = "Inbox" /\ job[p]["Inbox"].st = "sent" => \A t \in db'[p].tasks : t.id # job[p]["Inbox"].id
    /\ \A a \in Parties, t \in Nat, st \in States : t \notin spoiled' =>
         /\ At(db[p], a, t, st) => At(db'[p], a, t, st)
         /\ At(db'[p], a, t, st) =>
              \/ At(db[p], a, t, st)
              \/ /\ st = "RequestAccepted" /\ domain = "Inbox" /\ job[p]["Inbox"].kind = "Accept"
                 /\ job[p]["Inbox"].st = "sent" /\ job[p]["Inbox"].id = t /\ job[p]["Inbox"].peer = a
    /\ \A t \in db'[p].tasks :
         /\ t.kind \in InKinds => t \in db[p].tasks
         /\ t.kind = "VrcRequestOut" =>
              \/ t \in db[p].tasks
              \/ /\ domain = "Relationship" /\ job[p]["Relationship"].kind = "RequestVrc"
                 /\ job[p]["Relationship"].st = "sent" /\ job[p]["Relationship"].id = t.id
                 /\ job[p]["Relationship"].peer = t.peer
    /\ \A t \in db[p].tasks : t.kind = "VrcRequestIn" =>
         t \in db'[p].tasks \/ t.id \in spoiled' \/ \E m \in sent : m.type \in AnswerTypes /\ m.thid = t.id

LEMMA SettledRests ==
    ASSUME Inv, NEW p \in Parties, NEW domain \in Domains, NEW st0, Applied(p, domain, st0), Settled(p, domain)
    PROVE  Rests
<1>1. /\ Typed' /\ Becomes(p, db'[p]) /\ OthersSame(p)
      /\ job[p][domain] # None /\ job'[p][domain] = None /\ JobsElse(p, domain)
      /\ Unsent /\ nextId' = nextId /\ early' = early /\ sent' = sent
  BY DEF Applied, Unsent
<1>2. /\ \A c \in Parties : c # p => db'[c] = db[c] /\ saved'[c] = saved[c]
      /\ saved'[p] = db'[p] \/ (saved' = saved /\ db'[p].tasks = db[p].tasks)
  BY <1>1 DEF Becomes, OthersSame, Inv, Kept, Typed, AccountsTyped
<1>3. \A c \in Parties, m \in Domains : c # p \/ m # domain => job'[c][m] = job[c][m]
  BY <1>1 DEF JobsElse
<1>4. spoiled \subseteq spoiled'
  BY DEF Settled
<1>5. Once' /\ Open' = Open
  BY <1>1, <1>4, SameQueues DEF Inv, Kept
<1>6. Domains = {"Inbox", "Relationship"}
  BY DEF Domains
<1>7. RelIds'
  BY <1>1, <1>2 DEF Inv, Kept, RelIds, Settled
<1>8. Latest'
  <2>1. ASSUME NEW a \in Parties, NEW b \in Parties,
               job'[a]["Relationship"] # None, job'[a]["Relationship"].kind = "Create", job'[a]["Relationship"].peer = b,
               db'[a].rel[b] # None, db'[a].rel[b].st = "RequestSent"
        PROVE  db'[a].rel[b].task = job'[a]["Relationship"].id
    <3>1. job'[a]["Relationship"] = job[a]["Relationship"]
      BY <1>1, <1>3, <1>6, <2>1
    <3>2. db'[a].rel[b] = db[a].rel[b]
      <4>1. a = p => domain = "Inbox"
        BY <1>1, <1>6, <2>1
      <4> QED BY <1>2, <2>1, <4>1 DEF Settled
    <3> QED BY <2>1, <3>1, <3>2 DEF Inv, Kept, Latest
  <2> QED BY <2>1 DEF Latest
<1>9. OnDisk'
  <2> DEFINE Creates(a, b, t) ==
        /\ job'[a]["Relationship"] # None /\ job'[a]["Relationship"].kind = "Create"
        /\ job'[a]["Relationship"].peer = b /\ job'[a]["Relationship"].id = t
  <2>1. \A c \in Parties : saved'[c].tasks = db'[c].tasks
    BY <1>2 DEF Inv, Kept, OnDisk
  <2>2. ASSUME NEW a \in Parties, NEW b \in Parties, NEW t, CreatingId(a, b, t), a # p \/ domain = "Inbox"
        PROVE  Creates(a, b, t)
    BY <1>3, <1>6, <2>2 DEF CreatingId
  <2>3. ASSUME NEW a \in Parties, NEW b \in Parties
        PROVE  \/ saved'[a].rel[b] = db'[a].rel[b]
               \/ /\ saved'[a].rel[b] = None \/ saved'[a].rel[b].task \in spoiled'
                  /\ db'[a].rel[b] = None \/ db'[a].rel[b].task \in spoiled' \/ Creates(a, b, db'[a].rel[b].task)
    <3> HIDE DEF Creates
    <3>1. \/ saved[a].rel[b] = db[a].rel[b]
          \/ /\ saved[a].rel[b] = None \/ saved[a].rel[b].task \in spoiled'
             /\ db[a].rel[b] = None \/ db[a].rel[b].task \in spoiled' \/ CreatingId(a, b, db[a].rel[b].task)
      BY <1>4 DEF Inv, Kept, OnDisk
    <3>2. CASE a # p
      <4>1. saved'[a] = saved[a] /\ db'[a] = db[a]
        BY <1>2, <3>2
      <4>2. CreatingId(a, b, db[a].rel[b].task) => Creates(a, b, db'[a].rel[b].task)
        BY <2>2, <3>2, <4>1
      <4> QED BY <3>1, <4>1, <4>2
    <3>3. CASE a = p /\ saved'[p] = db'[p]
      BY <3>3
    <3>4. CASE a = p /\ saved'[p] # db'[p]
      <4>1. saved' = saved /\
              \/ /\ db'[a].rel[b] = db[a].rel[b]
                 /\ \/ domain = "Inbox" \/ db[a].rel[b] = None \/ db[a].rel[b].task \in spoiled'
                    \/ ~CreatingId(a, b, db[a].rel[b].task)
              \/ db'[a].rel[b] = None /\ (db[a].rel[b] = None \/ db[a].rel[b].task \in spoiled')
        BY <3>4 DEF Settled
      <4>2. CASE db'[a].rel[b] = None /\ (db[a].rel[b] = None \/ db[a].rel[b].task \in spoiled')
        BY <3>1, <4>1, <4>2
      <4>3. CASE db'[a].rel[b] = db[a].rel[b]
        <5>1. domain = "Inbox" /\ CreatingId(a, b, db[a].rel[b].task) => Creates(a, b, db'[a].rel[b].task)
          BY <2>2, <4>3
        <5> QED BY <3>1, <4>1, <4>3, <5>1
      <4> QED BY <4>1, <4>2, <4>3
    <3> QED BY <3>2, <3>3, <3>4
  <2> QED BY <2>1, <2>3 DEF OnDisk, CreatingId
<1>10. Kept'
  BY <1>1, <1>5, <1>7, <1>8, <1>9 DEF Kept
<1>11. \A c \in Parties : job[c]["Inbox"] # None /\ job[c]["Inbox"].st = "sent" =>
         \/ job'[c]["Inbox"] = job[c]["Inbox"]
         \/ job[c]["Inbox"].id \in spoiled'
         \/ \A t \in db'[c].tasks : t.id # job[c]["Inbox"].id
  BY <1>3, <1>6 DEF Settled
<1>12. \A c, a \in Parties, t \in Nat, st \in States : t \notin spoiled' =>
         /\ At(db[c], a, t, st) => At(db'[c], a, t, st)
         /\ At(db'[c], a, t, st) =>
              \/ At(db[c], a, t, st)
              \/ /\ st = "RequestAccepted" /\ job[c]["Inbox"] # None /\ job[c]["Inbox"].kind = "Accept"
                 /\ job[c]["Inbox"].st = "sent" /\ job[c]["Inbox"].id = t /\ job[c]["Inbox"].peer = a
  <2>1. ASSUME NEW a \in Parties, NEW t \in Nat, NEW st \in States, t \notin spoiled'
        PROVE  /\ At(db[p], a, t, st) => At(db'[p], a, t, st)
               /\ At(db'[p], a, t, st) =>
                    \/ At(db[p], a, t, st)
                    \/ /\ st = "RequestAccepted" /\ job[p]["Inbox"] # None /\ job[p]["Inbox"].kind = "Accept"
                       /\ job[p]["Inbox"].st = "sent" /\ job[p]["Inbox"].id = t /\ job[p]["Inbox"].peer = a
    BY <1>1, <2>1 DEF Settled
  <2> QED BY <1>2, <2>1
<1>13. \A c \in Parties : \A t \in db'[c].tasks :
         /\ t.kind \in InKinds => t \in db[c].tasks
         /\ t.kind = "VrcRequestOut" =>
              \/ t \in db[c].tasks
              \/ /\ job[c]["Relationship"] # None /\ job[c]["Relationship"].kind = "RequestVrc"
                 /\ job[c]["Relationship"].st = "sent" /\ job[c]["Relationship"].id = t.id
                 /\ job[c]["Relationship"].peer = t.peer /\ job'[c]["Relationship"] = None
  BY <1>1, <1>2 DEF Settled
<1>14. \A c \in Parties : \A t \in db[c].tasks : t.kind = "VrcRequestIn" =>
         t \in db'[c].tasks \/ t.id \in spoiled' \/ \E m \in sent : m.type \in AnswerTypes /\ m.thid = t.id
  BY <1>2 DEF Settled
<1>15. \A c \in Parties, m \in Domains : job'[c][m] # None => job[c][m] # None /\ job'[c][m] = job[c][m]
  BY <1>1, <1>3
<1> QED BY <1>1, <1>4, <1>5, <1>10, <1>11, <1>12, <1>13, <1>14, <1>15 DEF Rests

-----------------------------------------------------------------------------
(* What the outcomes need of the account: its record's ids and types, and   *)
(* that a job's own thread asks for nothing from this account.              *)
LEMMA RecordFacts ==
    ASSUME Inv, NEW p \in Parties
    PROVE  /\ db[p].rel \in [Parties -> RelType \cup {None}] /\ saved[p].tasks = db[p].tasks
           /\ \A a \in Parties : db[p].rel[a] # None => db[p].rel[a].task \in Nat /\ db[p].rel[a].task < nextId
           /\ \A domain \in Domains : job[p][domain] # None => job[p][domain].id \in Nat /\ job[p][domain].id < nextId
<1>1. db[p] \in AccountType
  BY DEF Inv, Kept, Typed, AccountsTyped, GoodAccount
<1>2. db[p].rel \in [Parties -> RelType \cup {None}]
  BY <1>1 DEF AccountType
<1>3. saved[p].tasks = db[p].tasks
  BY DEF Inv, Kept, OnDisk
<1>4. \A a \in Parties : db[p].rel[a] # None => db[p].rel[a].task \in Nat /\ db[p].rel[a].task < nextId
  BY <1>2 DEF Inv, Kept, RelIds, RelType
<1>5. \A domain \in Domains : job[p][domain] # None => job[p][domain].id \in Nat /\ job[p][domain].id < nextId
  BY JobThere DEF Inv, Kept, Typed, Fresh
<1> QED BY <1>2, <1>3, <1>4, <1>5

LEMMA OwnThread ==
    ASSUME Inv, NEW p \in Parties, NEW domain \in Domains, job[p][domain] # None, job[p][domain].st = "sent",
           job[p][domain].kind \in NewKinds \cup {"Accept"}, NEW t \in db[p].tasks, t.kind = "VrcRequestIn"
    PROVE  t.id # job[p][domain].id
<1>1. SUFFICES ASSUME t.id = job[p][domain].id PROVE FALSE
  OBVIOUS
<1>2. PICK r \in sent : r.type = "vrcRequest" /\ r.thid = t.id /\ Owner(r.from) = t.peer /\ Owner(r.to) = p
  BY DEF Inv, Origins, TasksFollow, InKinds, TaskAsk, Told
<1>3. t.peer # p
  BY TaskThere DEF Inv, Kept, Typed
<1>4. CASE job[p][domain].kind \in NewKinds
  <2>1. PICK m \in sent : /\ SentBy(job[p][domain].kind, m.type) /\ m.thid = job[p][domain].id
                          /\ Owner(m.from) = p /\ Owner(m.to) = job[p][domain].peer
    BY <1>4 DEF Inv, Origins, JobsFollow, NewKinds
  <2>2. m.type \in AskTypes \cup {"ping"}
    BY <1>4, <2>1 DEF SentBy, NewKinds, AskTypes
  <2>3. m = r
    BY <1>1, <1>2, <2>1, <2>2 DEF Inv, Origins, OneStart, AskTypes
  <2> QED BY <1>2, <1>3, <2>1, <2>3
<1>5. CASE job[p][domain].kind = "Accept"
  <2>1. domain = "Inbox"
    <3>1. domain = "Relationship" => job[p][domain].kind \in NewKinds \cup {"Remove"}
      BY JobThere DEF Inv, Kept, Typed
    <3> QED BY <1>5, <3>1 DEF Domains, NewKinds
  <2>2. PICK m \in sent : m.type = "request" /\ m.thid = job[p][domain].id
    BY <1>5, <2>1 DEF Inv, Origins, JobsFollow, JobAsk, Told
  <2>3. m = r
    BY <1>1, <1>2, <2>2 DEF Inv, Origins, OneStart, AskTypes
  <2> QED BY <1>2, <2>2, <2>3
<1> QED BY <1>4, <1>5

(* An outcome that leaves the records alone. *)
LEMMA SettledTasks ==
    ASSUME Inv, NEW p \in Parties, NEW domain \in Domains, NEW j, j = job[p][domain], Applied(p, domain, "sent"),
           db'[p].rel = db[p].rel, saved'[p] = db'[p], spoiled' = spoiled,
           \A t \in db'[p].tasks : t.kind \in InKinds => t \in db[p].tasks,
           \A t \in db'[p].tasks : t.kind = "VrcRequestOut" => t \in db[p].tasks \/
             (domain = "Relationship" /\ j.kind = "RequestVrc" /\ j.id = t.id /\ j.peer = t.peer),
           \A t \in db[p].tasks : t.kind = "VrcRequestIn" =>
             t \in db'[p].tasks \/ \E m \in sent : m.type \in AnswerTypes /\ m.thid = t.id,
           domain = "Inbox" => \A t \in db'[p].tasks : t.id # j.id
    PROVE  Settled(p, domain)
<1>1. \A a \in Parties : db[p].rel[a] # None => db[p].rel[a].task \in Nat /\ db[p].rel[a].task < nextId
  BY RecordFacts
<1>2. \A a \in Parties, t \in Nat, st \in States : At(db'[p], a, t, st) <=> At(db[p], a, t, st)
  BY DEF At
<1>3. job[p][domain].st = "sent"
  BY DEF Applied
<1>4. \A a \in Parties : db'[p].rel[a] # None =>
         /\ db'[p].rel[a].task < nextId
         /\ domain = "Inbox" /\ db'[p].rel[a].st = "RequestSent" => db'[p].rel[a] = db[p].rel[a]
  BY <1>1
<1> QED BY <1>2, <1>3, <1>4 DEF Settled

LEMMA WaitingRests ==
    ASSUME Inv, NEW p \in Parties, NEW kind, NEW task,
           (kind = "Ping" /\ task = "Ping") \/ (kind = "RequestVrc" /\ task = "VrcRequestOut"), ApplyWaiting(p, kind, task)
    PROVE  Rests
<1>1. PICK j : j = job[p]["Relationship"]
  OBVIOUS
<1> DEFINE Q(t) == t.id = j.id /\ t.kind = task /\ t.peer = j.peer /\ db'[p].tasks = Less(db[p], j.id) \cup {t}
<1>2. /\ Applied(p, "Relationship", "sent") /\ j.kind = kind /\ db'[p].rel = db[p].rel /\ saved'[p] = db'[p]
      /\ \E t \in TaskType : Q(t)
      /\ UNCHANGED <<spoiled, crossed>>
  BY <1>1, ApplyWaitingIs DEF Inv, Kept
<1>3. PICK t \in TaskType : Q(t)
  BY <1>2
<1>4. "Relationship" \in Domains
  BY DEF Domains
<1>5. \A x \in db[p].tasks : x.kind = "VrcRequestIn" => x \in db'[p].tasks
  <2>1. job[p]["Relationship"] # None /\ job[p]["Relationship"].st = "sent" /\ job[p]["Relationship"].kind \in NewKinds \cup {"Accept"}
    BY <1>1, <1>2 DEF Applied, NewKinds
  <2>2. \A x \in db[p].tasks : x.kind = "VrcRequestIn" => x.id # j.id
    BY <1>1, <1>4, <2>1, OwnThread
  <2> QED BY <1>3, <2>2 DEF Less
<1>6. \A x \in db'[p].tasks : x \in db[p].tasks \/ x = t
  BY <1>3 DEF Less
<1>7. \A x \in db'[p].tasks : x.kind \in InKinds => x \in db[p].tasks
  BY <1>3, <1>6 DEF InKinds
<1>8. \A x \in db'[p].tasks : x.kind = "VrcRequestOut" => x \in db[p].tasks \/ (j.kind = "RequestVrc" /\ j.id = x.id /\ j.peer = x.peer)
  BY <1>2, <1>3, <1>6
<1>9. Settled(p, "Relationship")
  BY <1>1, <1>2, <1>4, <1>5, <1>7, <1>8, SettledTasks
<1> QED BY <1>2, <1>4, <1>9, SettledRests

LEMMA AnsweredRests ==
    ASSUME Inv, NEW p \in Parties, ApplyAnswered(p)
    PROVE  Rests
<1>1. PICK j : j = job[p]["Inbox"]
  OBVIOUS
<1>2. /\ Applied(p, "Inbox", "sent") /\ j.kind \in {"Reject", "IssueVrc", "RejectVrc"}
      /\ db'[p].rel = db[p].rel /\ db'[p].tasks = Less(db[p], j.id) /\ saved'[p] = db'[p]
      /\ UNCHANGED <<spoiled, crossed>>
  BY <1>1, ApplyAnsweredIs DEF Inv, Kept
<1>3. "Inbox" \in Domains
  BY DEF Domains
<1>4. \E m \in sent : m.type \in AnswerTypes /\ m.thid = j.id
  <2>1. j # None /\ j.st = "sent"
    BY <1>1, <1>2 DEF Applied
  <2>2. PICK m \in sent : SentBy(j.kind, m.type) /\ m.thid = j.id
    BY <1>1, <1>2, <1>3, <2>1 DEF Inv, Origins, JobsFollow
  <2> QED BY <1>2, <2>2 DEF SentBy, AnswerTypes
<1>5. /\ \A t \in db'[p].tasks : t \in db[p].tasks /\ t.id # j.id
      /\ \A t \in db[p].tasks : t \in db'[p].tasks \/ t.id = j.id
  BY <1>2 DEF Less
<1>6. Settled(p, "Inbox")
  BY <1>1, <1>2, <1>3, <1>4, <1>5, SettledTasks
<1> QED BY <1>2, <1>3, <1>6, SettledRests

LEMMA FailedRests ==
    ASSUME Inv, NEW p \in Parties, NEW domain \in Domains, ApplyFailed(p, domain)
    PROVE  Rests
<1>1. /\ Applied(p, domain, "failed") /\ db' = db /\ saved' = saved
      /\ job[p][domain].kind # "Create" /\ spoiled' = spoiled
  BY ApplyFailedIs DEF Inv, Kept
<1>2. job[p][domain].st = "failed"
  BY <1>1 DEF Applied
<1>3. \A a \in Parties : db[p].rel[a] # None => db[p].rel[a].task < nextId
  BY RecordFacts
<1>4. domain # "Inbox" => \A a \in Parties : \A t : ~CreatingId(p, a, t)
  BY <1>1 DEF CreatingId, Domains
<1>5. Settled(p, domain)
  <2>1. ~(domain = "Inbox" /\ job[p]["Inbox"].st = "sent")
    BY <1>2
  <2> QED BY <1>1, <1>3, <1>4, <2>1 DEF Settled
<1> QED BY <1>1, <1>5, SettledRests

(* Outcomes that change a record, the one of the job's peer. *)
LEMMA OneRel ==
    ASSUME Inv, NEW p \in Parties, NEW q \in Parties, NEW r, db'[p].rel = [db[p].rel EXCEPT ![q] = r]
    PROVE  db'[p].rel[q] = r /\ \A a \in Parties : a # q => db'[p].rel[a] = db[p].rel[a]
<1>1. db[p].rel \in [Parties -> RelType \cup {None}]
  BY RecordFacts
<1> QED BY <1>1

LEMMA CreateFailedRests ==
    ASSUME Inv, NEW p \in Parties, ApplyCreateFailed(p)
    PROVE  Rests
<1>1. PICK j : j = job[p]["Relationship"]
  OBVIOUS
<1>2. PICK q : q = j.peer
  OBVIOUS
<1>3. /\ Applied(p, "Relationship", "failed") /\ q \in Parties
      /\ db'[p].tasks = db[p].tasks /\ saved' = saved
      /\ \/ db'[p] = db[p]
         \/ db[p].rel[q] # None /\ db[p].rel[q].st = "RequestSent" /\ db'[p].rel = [db[p].rel EXCEPT ![q] = None]
      /\ spoiled' = (IF db[p].rel[q] # None THEN spoiled \cup {db[p].rel[q].task} ELSE spoiled)
  BY <1>1, <1>2, ApplyCreateFailedIs DEF Inv, Kept
<1>4. spoiled \subseteq spoiled' /\ (db[p].rel[q] = None \/ db[p].rel[q].task \in spoiled')
  BY <1>3
<1>5. \A a \in Parties : db'[p].rel[a] = db[p].rel[a] \/ (a = q /\ db'[p].rel[a] = None)
  BY <1>3, OneRel
<1>6. \A a \in Parties : db[p].rel[a] # None => db[p].rel[a].task < nextId
  BY RecordFacts
<1>7. \A a \in Parties : \A t : CreatingId(p, a, t) => a = q
  BY <1>1, <1>2 DEF CreatingId
<1>8. \A a \in Parties, t \in Nat, st \in States : t \notin spoiled' =>
        (At(db'[p], a, t, st) <=> At(db[p], a, t, st))
  BY <1>4, <1>5 DEF At
<1>9. \A a \in Parties :
        \/ /\ db'[p].rel[a] = db[p].rel[a]
           /\ db[p].rel[a] = None \/ db[p].rel[a].task \in spoiled' \/ ~CreatingId(p, a, db[p].rel[a].task)
        \/ db'[p].rel[a] = None /\ (db[p].rel[a] = None \/ db[p].rel[a].task \in spoiled')
  BY <1>4, <1>5, <1>7
<1>10. Settled(p, "Relationship")
  BY <1>3, <1>4, <1>5, <1>6, <1>8, <1>9 DEF Settled
<1>11. "Relationship" \in Domains
  BY DEF Domains
<1> QED BY <1>3, <1>10, <1>11, SettledRests

LEMMA RemovedRests ==
    ASSUME Inv, NEW p \in Parties, ApplyRemove(p)
    PROVE  Rests
<1>1. PICK j : j = job[p]["Relationship"]
  OBVIOUS
<1>2. PICK q : q = j.peer
  OBVIOUS
<1>3. /\ Applied(p, "Relationship", "sent") /\ q \in Parties
      /\ db'[p].rel = [db[p].rel EXCEPT ![q] = None] /\ db'[p].tasks = db[p].tasks /\ saved'[p] = db'[p]
      /\ spoiled' = (IF db[p].rel[q] # None THEN spoiled \cup {db[p].rel[q].task} ELSE spoiled)
  BY <1>1, <1>2, ApplyRemoveIs DEF Inv, Kept
<1>4. spoiled \subseteq spoiled' /\ (db[p].rel[q] = None \/ db[p].rel[q].task \in spoiled')
  BY <1>3
<1>5. \A a \in Parties : db'[p].rel[a] = db[p].rel[a] \/ (a = q /\ db'[p].rel[a] = None)
  BY <1>3, OneRel
<1>6. \A a \in Parties : db[p].rel[a] # None => db[p].rel[a].task < nextId
  BY RecordFacts
<1>7. \A a \in Parties, t \in Nat, st \in States : t \notin spoiled' =>
        (At(db'[p], a, t, st) <=> At(db[p], a, t, st))
  BY <1>4, <1>5, <1>3, OneRel DEF At
<1>8. Settled(p, "Relationship")
  BY <1>3, <1>4, <1>5, <1>6, <1>7 DEF Settled
<1>9. "Relationship" \in Domains
  BY DEF Domains
<1> QED BY <1>3, <1>8, <1>9, SettledRests

LEMMA AcceptedRests ==
    ASSUME Inv, NEW p \in Parties, ApplyAccept(p)
    PROVE  Rests
<1>1. PICK j : j = job[p]["Inbox"]
  OBVIOUS
<1>2. PICK q : q = j.peer
  OBVIOUS
<1>3. /\ Applied(p, "Inbox", "sent") /\ j.kind = "Accept" /\ q \in Parties
      /\ AcceptRecorded(p, q, j)
      /\ db'[p].tasks = Less(db[p], j.id) /\ saved'[p] = db'[p]
      /\ spoiled' = (IF db[p].rel[q] # None THEN spoiled \cup {db[p].rel[q].task} ELSE spoiled)
  BY <1>1, <1>2, ApplyAcceptIs DEF Inv, Kept
<1>4. PICK r \in RelType : /\ r.task = j.id /\ r.our = j.our /\ r.remote = j.theirs /\ r.st = "RequestAccepted"
                           /\ db'[p].rel = [db[p].rel EXCEPT ![q] = r]
  BY <1>3 DEF AcceptRecorded
<1>5. spoiled \subseteq spoiled' /\ (db[p].rel[q] = None \/ db[p].rel[q].task \in spoiled')
  BY <1>3
<1>6. db'[p].rel[q] = r /\ \A a \in Parties : a # q => db'[p].rel[a] = db[p].rel[a]
  BY <1>3, <1>4, OneRel
<1>7. "Inbox" \in Domains /\ j # None /\ j.st = "sent"
  BY <1>1, <1>3 DEF Domains, Applied
<1>8. /\ \A a \in Parties : db[p].rel[a] # None => db[p].rel[a].task < nextId
      /\ j.id < nextId
  BY <1>1, <1>7, RecordFacts
<1>9. \A t \in db[p].tasks : t.kind = "VrcRequestIn" => t \in db'[p].tasks
  <2>1. \A t \in db[p].tasks : t.kind = "VrcRequestIn" => t.id # j.id
    BY <1>1, <1>3, <1>7, OwnThread
  <2> QED BY <1>3, <2>1 DEF Less
<1>10. \A a \in Parties, t \in Nat, st \in States : t \notin spoiled' =>
         /\ At(db[p], a, t, st) => At(db'[p], a, t, st)
         /\ At(db'[p], a, t, st) => At(db[p], a, t, st) \/ (st = "RequestAccepted" /\ j.id = t /\ j.peer = a)
  BY <1>2, <1>4, <1>5, <1>6 DEF At
<1>11. \A t \in db'[p].tasks : t \in db[p].tasks /\ t.id # j.id
  BY <1>3 DEF Less
<1>12. \A a \in Parties : db'[p].rel[a] # None =>
         /\ db'[p].rel[a].task < nextId
         /\ db'[p].rel[a].st = "RequestSent" => db'[p].rel[a] = db[p].rel[a]
  BY <1>4, <1>6, <1>8
<1>13. Settled(p, "Inbox")
  BY <1>1, <1>3, <1>5, <1>7, <1>9, <1>10, <1>11, <1>12 DEF Settled
<1> QED BY <1>3, <1>7, <1>13, SettledRests

LEMMA CreatedRests ==
    ASSUME Inv, NEW p \in Parties, ApplyCreate(p)
    PROVE  Rests
<1>1. PICK j : j = job[p]["Relationship"]
  OBVIOUS
<1>2. PICK q : q = j.peer
  OBVIOUS
<1>3. PICK r : r = db[p].rel[q]
  OBVIOUS
<1>4. /\ Applied(p, "Relationship", "sent") /\ j.kind = "Create" /\ spoiled' = spoiled
      /\ r # None => saved'[p] = db'[p]
      /\ r = None => db'[p] = db[p]
      /\ r # None /\ r.st # "RequestSent" =>
           /\ db'[p].rel = [db[p].rel EXCEPT ![q] = Rel(r.task, j.our, r.remote, r.st)]
           /\ db'[p].tasks = db[p].tasks
      /\ r # None /\ r.st = "RequestSent" =>
           /\ db'[p].rel = [db[p].rel EXCEPT ![q] = Rel(j.id, j.our, r.remote, r.st)]
           /\ \E t \in TaskType : /\ t.id = j.id /\ t.kind = "RequestOut" /\ t.peer = q
                                  /\ db'[p].tasks = Less(db[p], j.id) \cup {t}
  BY <1>1, <1>2, <1>3, ApplyCreateIs DEF Inv, Kept
<1>5. "Relationship" \in Domains /\ j # None /\ j.st = "sent"
  BY <1>1, <1>4 DEF Domains, Applied
<1>6. /\ q \in Parties /\ j.id \in Nat /\ j.id < nextId /\ j.our \in Dids
  BY <1>1, <1>2, <1>4, <1>5, JobThere, RecordFacts DEF Inv, Kept, Typed
<1>7. \A a \in Parties : db[p].rel[a] # None => db[p].rel[a].task < nextId /\ db[p].rel[a] \in RelType
  BY RecordFacts
<1>8. r # None /\ r.st = "RequestSent" => r.task = j.id
  BY <1>1, <1>2, <1>3, <1>4, <1>5, <1>6 DEF Inv, Kept, Latest
(* The record keeps its thread and its state. *)
<1>9. r # None => \E s \in RelType : s.task = r.task /\ s.st = r.st /\ db'[p].rel = [db[p].rel EXCEPT ![q] = s]
  <2>1. SUFFICES ASSUME r # None PROVE \E s \in RelType : s.task = r.task /\ s.st = r.st /\ db'[p].rel = [db[p].rel EXCEPT ![q] = s]
    OBVIOUS
  <2>2. r \in RelType /\ r.task \in Nat /\ r.remote \in Dids /\ r.st \in States
    BY <1>3, <1>6, <1>7, <2>1 DEF RelType
  <2>3. db'[p].rel = [db[p].rel EXCEPT ![q] = Rel(r.task, j.our, r.remote, r.st)]
    BY <1>4, <1>8, <2>1
  <2>4. PICK s : s = Rel(r.task, j.our, r.remote, r.st)
    OBVIOUS
  <2>5. s \in RelType /\ s.task = r.task /\ s.st = r.st
    BY <1>6, <2>2, <2>4, RelParts
  <2> QED BY <2>3, <2>4, <2>5
<1>10. \A a \in Parties :
         /\ db'[p].rel[a] = None <=> db[p].rel[a] = None
         /\ db[p].rel[a] # None => db'[p].rel[a].task = db[p].rel[a].task /\ db'[p].rel[a].st = db[p].rel[a].st
  <2>1. CASE r = None
    BY <1>4, <2>1
  <2>2. CASE r # None
    <3>1. PICK s \in RelType : s.task = r.task /\ s.st = r.st /\ db'[p].rel = [db[p].rel EXCEPT ![q] = s]
      BY <1>9, <2>2
    <3>2. db'[p].rel[q] = s /\ \A a \in Parties : a # q => db'[p].rel[a] = db[p].rel[a]
      BY <1>6, <3>1, OneRel
    <3> QED BY <1>3, <2>2, <3>1, <3>2, NoneElse
  <2> QED BY <2>1, <2>2
<1>11. \A x \in db[p].tasks : x.kind = "VrcRequestIn" => x \in db'[p].tasks
  <2>1. job[p]["Relationship"] # None /\ job[p]["Relationship"].st = "sent" /\ job[p]["Relationship"].kind \in NewKinds \cup {"Accept"}
    BY <1>1, <1>4, <1>5 DEF NewKinds
  <2>2. \A x \in db[p].tasks : x.kind = "VrcRequestIn" => x.id # j.id
    BY <1>1, <1>5, <2>1, OwnThread
  <2> QED BY <1>4, <2>2 DEF Less
<1>12. \A x \in db'[p].tasks : x \in db[p].tasks \/ x.kind = "RequestOut"
  BY <1>4 DEF Less
<1>13. \A a \in Parties, t \in Nat, st \in States : At(db'[p], a, t, st) <=> At(db[p], a, t, st)
  BY <1>10 DEF At
<1>14. \A a \in Parties : db'[p].rel[a] # None => db'[p].rel[a].task < nextId
  BY <1>7, <1>10
<1>15. saved'[p] = db'[p] \/
         /\ saved' = saved
         /\ \A a \in Parties : db'[p].rel[a] = db[p].rel[a] /\ (db[p].rel[a] = None \/ ~CreatingId(p, a, db[p].rel[a].task))
  <2>1. CASE r # None
    BY <1>4, <2>1
  <2>2. CASE r = None
    <3>1. db'[p] = db[p] /\ \A a \in Parties : db[p].rel[a] = None \/ ~CreatingId(p, a, db[p].rel[a].task)
      BY <1>1, <1>2, <1>3, <1>4, <2>2 DEF CreatingId
    <3>2. saved'[p] = db'[p] \/ saved' = saved
      BY <1>4 DEF Applied, Becomes, Inv, Kept, Typed, AccountsTyped
    <3> QED BY <3>1, <3>2
  <2> QED BY <2>1, <2>2
<1>16. Settled(p, "Relationship")
  BY <1>4, <1>11, <1>12, <1>13, <1>14, <1>15 DEF Settled, InKinds
<1> QED BY <1>4, <1>5, <1>16, SettledRests

(* The other steps that start nothing: a job that stops, tasks that leave   *)
(* the inbox, a restart.                                                    *)
LEMMA StopsRests ==
    ASSUME Inv, NEW p \in Parties, NEW domain \in Domains, JobFails(p, domain) \/ JobPanics(p, domain)
    PROVE  Rests
<1>1. PICK j : j = job[p][domain]
  OBVIOUS
<1>2. PICK k : k = job'[p][domain]
  OBVIOUS
<1>3. /\ Typed' /\ j # None /\ j.st = "run" /\ JobsElse(p, domain)
      /\ \/ k = None
         \/ k # None /\ k.st = "failed" /\ k.kind = j.kind /\ k.id = j.id /\ k.peer = j.peer
      /\ spoiled' = spoiled \cup {j.id}
      /\ Unsent /\ UNCHANGED <<db, saved, epoch, nextId, early, crossed>>
  BY <1>1, <1>2, JobStopsIs DEF Inv, Kept
<1>4. spoiled \subseteq spoiled' /\ j.id \in spoiled' /\ sent' = sent
  BY <1>3 DEF Unsent
<1>5. Once' /\ Open' = Open
  BY <1>3, <1>4, SameQueues DEF Inv, Kept
<1>6. \A c \in Parties, m \in Domains :
        \/ job'[c][m] = job[c][m]
        \/ /\ c = p /\ m = domain /\ job[c][m] = j /\ job'[c][m] = k
  BY <1>1, <1>2, <1>3 DEF JobsElse
<1>7. RelIds'
  BY <1>3 DEF Inv, Kept, RelIds
<1>8. Latest'
  BY <1>3, <1>6 DEF Inv, Kept, Latest, Domains
<1>9. OnDisk'
  <2>1. ASSUME NEW a \in Parties, NEW b \in Parties
        PROVE  \/ saved[a].rel[b] = db[a].rel[b]
               \/ /\ saved[a].rel[b] = None \/ saved[a].rel[b].task \in spoiled'
                  /\ \/ db[a].rel[b] = None \/ db[a].rel[b].task \in spoiled'
                     \/ /\ job'[a]["Relationship"] # None /\ job'[a]["Relationship"].kind = "Create"
                        /\ job'[a]["Relationship"].peer = b /\ job'[a]["Relationship"].id = db[a].rel[b].task
    <3>1. CreatingId(a, b, db[a].rel[b].task) =>
            \/ db[a].rel[b].task \in spoiled'
            \/ /\ job'[a]["Relationship"] # None /\ job'[a]["Relationship"].kind = "Create"
               /\ job'[a]["Relationship"].peer = b /\ job'[a]["Relationship"].id = db[a].rel[b].task
      BY <1>3, <1>4, <1>6 DEF CreatingId, Domains
    <3> QED BY <1>4, <3>1 DEF Inv, Kept, OnDisk
  <2> QED BY <1>3, <2>1 DEF Inv, Kept, OnDisk, CreatingId
<1>10. Kept'
  BY <1>3, <1>5, <1>7, <1>8, <1>9 DEF Kept
<1>11. \A c \in Parties, m \in Domains : job'[c][m] # None =>
         /\ job[c][m] # None
         /\ job'[c][m].kind = job[c][m].kind /\ job'[c][m].id = job[c][m].id /\ job'[c][m].peer = job[c][m].peer
         /\ job'[c][m].st = job[c][m].st \/ job'[c][m].st = "failed"
  BY <1>3, <1>6
<1>12. \A c \in Parties : job[c]["Inbox"] # None /\ job[c]["Inbox"].st = "sent" => job'[c]["Inbox"] = job[c]["Inbox"]
  BY <1>3, <1>6 DEF Domains
<1> QED BY <1>3, <1>4, <1>5, <1>10, <1>11, <1>12 DEF Rests

LEMMA LeaveRests ==
    ASSUME Inv, NEW p \in Parties,
           \/ \E t \in db[p].tasks : AcceptVrc(p, t) \/ DropTasks(p, {t})
           \/ DropTasks(p, db[p].tasks)
    PROVE  Rests
<1>1. /\ Typed' /\ OthersSame(p) /\ Becomes(p, db'[p]) /\ db'[p].rel = db[p].rel /\ saved'[p] = db'[p]
      /\ db'[p].tasks \subseteq db[p].tasks
      /\ \A t \in db[p].tasks : t \in db'[p].tasks \/ t.kind = "VrcIssued" \/ t.id \in spoiled'
      /\ spoiled \subseteq spoiled' /\ Unsent /\ UNCHANGED <<job, epoch, nextId, early, crossed>>
  BY LeaveIs DEF Inv, Kept
<1>2. Once' /\ Open' = Open /\ sent' = sent
  BY <1>1, SameQueues DEF Inv, Kept, Unsent
<1>3. \A c \in Parties : c # p => db'[c] = db[c] /\ saved'[c] = saved[c]
  BY <1>1 DEF OthersSame, Becomes, Inv, Kept, Typed, AccountsTyped
<1>4. \A c \in Parties : db'[c].rel = db[c].rel /\ db'[c].tasks \subseteq db[c].tasks
  BY <1>1, <1>3
<1>5. RelIds'
  BY <1>1, <1>3, <1>4 DEF Inv, Kept, RelIds
<1>6. Latest'
  BY <1>1, <1>4 DEF Inv, Kept, Latest
<1>7. OnDisk'
  BY <1>1, <1>3 DEF Inv, Kept, OnDisk, CreatingId
<1>8. Kept'
  BY <1>1, <1>2, <1>5, <1>6, <1>7 DEF Kept
<1>9. \A c, a \in Parties, t \in Nat, st \in States : At(db'[c], a, t, st) <=> At(db[c], a, t, st)
  BY <1>4 DEF At
<1>10. \A c \in Parties : \A t \in db[c].tasks : t.kind = "VrcRequestIn" => t \in db'[c].tasks \/ t.id \in spoiled'
  BY <1>1, <1>3
<1> QED BY <1>1, <1>2, <1>4, <1>8, <1>9, <1>10 DEF Rests

LEMMA RestartRests ==
    ASSUME Inv, NEW p \in Parties, Restart(p)
    PROVE  Rests
<1>1. /\ Typed' /\ db'[p] = saved[p] /\ OthersSame(p) /\ saved' = saved
      /\ \A m \in Domains : job'[p][m] = None
      /\ \A c \in Parties, m \in Domains : c # p => job'[c][m] = job[c][m]
      /\ held'[p] = <<>> /\ seen'[p] = {}
      /\ \A c \in Parties : c # p => held'[c] = held[c] /\ seen'[c] = seen[c]
      /\ UNCHANGED <<net, sent, nextId, early, crossed>>
      /\ spoiled \subseteq spoiled' /\ JobThreads(p) \subseteq spoiled' /\ HeldThreads(p) \subseteq spoiled'
  BY RestartIs DEF Inv, Kept
<1>2. \A c \in Parties : c # p => db'[c] = db[c]
  BY <1>1 DEF OthersSame
<1>3. \A m \in Domains : job[p][m] # None => job[p][m].id \in spoiled'
  BY <1>1 DEF JobThreads
<1>4. \A x \in Msgs(held[p]) : x.thid \in spoiled'
  <2>1. held[p] \in Seq(HeldType)
    BY HeldFacts DEF Inv, Kept, Typed
  <2>2. DOMAIN held[p] = 1..Len(held[p])
    BY <2>1
  <2> QED BY <1>1, <2>2 DEF HeldThreads, Msgs
<1>5. Once'
  <2>1. \A x \in net : x.type \in Tracked /\ x.thid \notin spoiled' => x \notin seen'[Owner(x.to)]
    <3>1. \A x \in net : Owner(x.to) \in Parties
      BY Owners DEF Inv, Kept, Typed, MessagesTyped, GoodMsg, MsgType
    <3> QED BY <1>1, <3>1 DEF Inv, Kept, Once
  <2>2. ASSUME NEW c \in Parties PROVE Apart(held'[c], spoiled')
    <3>1. CASE c = p
      BY <1>1, <3>1 DEF Apart
    <3>2. CASE c # p
      <4>1. Apart(held[c], spoiled')
        BY <1>1, ApartMore DEF Inv, Kept, Once
      <4> QED BY <1>1, <3>2, <4>1
    <3> QED BY <3>1, <3>2
  <2> QED BY <1>1, <2>1, <2>2 DEF Once
<1>6. \A x \in sent : x.type \in Tracked /\ x.thid \notin spoiled' => (x \in Open' <=> x \in Open)
  <2>1. Msgs(held'[p]) = {}
    BY <1>1 DEF Msgs
  <2>2. \A x \in sent : Owner(x.to) \in Parties
    BY Owners DEF Inv, Kept, Typed, MessagesTyped, GoodMsg, MsgType
  <2>3. \A x \in sent : x.thid \notin spoiled' => (x \in Msgs(held'[Owner(x.to)]) <=> x \in Msgs(held[Owner(x.to)]))
    BY <1>1, <1>4, <2>1, <2>2
  <2> QED BY <1>1, <2>3 DEF Open
<1>7. \A b \in Parties :
        \/ saved[p].rel[b] = db[p].rel[b]
        \/ /\ saved[p].rel[b] = None \/ saved[p].rel[b].task \in spoiled'
           /\ db[p].rel[b] = None \/ db[p].rel[b].task \in spoiled'
  <2>1. \A b \in Parties : \A t : CreatingId(p, b, t) => t \in spoiled'
    BY <1>3 DEF CreatingId, Domains
  <2> QED BY <1>1, <2>1 DEF Inv, Kept, OnDisk
<1>8. RelIds'
  BY <1>1, <1>2 DEF Inv, Kept, RelIds
<1>9. OnDisk'
  <2>1. \A c \in Parties : saved'[c].tasks = db'[c].tasks
    BY <1>1, <1>2 DEF Inv, Kept, OnDisk
  <2>2. ASSUME NEW a \in Parties, NEW b \in Parties
        PROVE  \/ saved'[a].rel[b] = db'[a].rel[b]
               \/ /\ saved'[a].rel[b] = None \/ saved'[a].rel[b].task \in spoiled'
                  /\ \/ db'[a].rel[b] = None \/ db'[a].rel[b].task \in spoiled'
                     \/ /\ job'[a]["Relationship"] # None /\ job'[a]["Relationship"].kind = "Create"
                        /\ job'[a]["Relationship"].peer = b /\ job'[a]["Relationship"].id = db'[a].rel[b].task
    <3>1. CASE a = p
      BY <1>1, <3>1
    <3>2. CASE a # p
      <4>1. db'[a] = db[a] /\ job'[a]["Relationship"] = job[a]["Relationship"] /\ saved' = saved
        BY <1>1, <1>2, <3>2 DEF Domains
      <4> QED BY <1>1, <4>1 DEF Inv, Kept, OnDisk, CreatingId
    <3> QED BY <3>1, <3>2
  <2> QED BY <2>1, <2>2 DEF OnDisk, CreatingId
<1>10. Latest'
  BY <1>1, <1>2 DEF Inv, Kept, Latest, Domains
<1>11. Kept'
  BY <1>1, <1>5, <1>8, <1>9, <1>10 DEF Kept
<1>12. \A c \in Parties, m \in Domains : job'[c][m] # None => job[c][m] # None /\ job'[c][m] = job[c][m]
  BY <1>1
<1>13. \A c \in Parties : job[c]["Inbox"] # None /\ job[c]["Inbox"].st = "sent" =>
         job'[c]["Inbox"] = job[c]["Inbox"] \/ job[c]["Inbox"].id \in spoiled'
  BY <1>1, <1>3 DEF Domains
<1>14. \A c, a \in Parties, t \in Nat, st \in States : t \notin spoiled' => (At(db'[c], a, t, st) <=> At(db[c], a, t, st))
  BY <1>1, <1>2, <1>7 DEF At
<1>15. \A c \in Parties : db'[c].tasks = db[c].tasks
  BY <1>1, <1>2 DEF Inv, Kept, OnDisk
<1> QED BY <1>1, <1>6, <1>11, <1>12, <1>13, <1>14, <1>15 DEF Rests

-----------------------------------------------------------------------------
(* The steps that start a job. *)
LEMMA SubmitRequestBegins ==
    ASSUME Inv, NEW p \in Parties, NEW q \in Parties, NEW our \in {persona(p), RDid(p, nextId)}, SubmitRequest(p, q, our)
    PROVE  Begins(p, "Relationship")
<1>1. /\ Typed' /\ q # p /\ job[p]["Relationship"] = None
      /\ \E r \in RelType :
           /\ r.task = nextId /\ r.our = persona(p) /\ r.remote = persona(q) /\ r.st = "RequestSent"
           /\ db'[p].rel = [db[p].rel EXCEPT ![q] = r]
      /\ db'[p].tasks = db[p].tasks /\ OthersSame(p) /\ saved' = saved
      /\ job'[p]["Relationship"] # None /\ job'[p]["Relationship"].kind = "Create"
      /\ job'[p]["Relationship"].peer = q /\ job'[p]["Relationship"].id = nextId
      /\ job'[p]["Relationship"].st = "run"
      /\ JobsElse(p, "Relationship")
      /\ nextId' = nextId + 1 /\ Unsent /\ UNCHANGED <<epoch, early, crossed>>
      /\ spoiled' = IF db[p].rel[q] = None THEN spoiled ELSE spoiled \cup {db[p].rel[q].task}
  BY SubmitRequestIs DEF Inv, Kept
<1>2. PICK r \in RelType : r.task = nextId /\ r.st = "RequestSent" /\ db'[p].rel = [db[p].rel EXCEPT ![q] = r]
  BY <1>1
<1>3. db'[p].rel[q] = r /\ \A a \in Parties : a # q => db'[p].rel[a] = db[p].rel[a]
  BY <1>2, OneRel
<1>4. spoiled \subseteq spoiled' /\ (db[p].rel[q] = None \/ db[p].rel[q].task \in spoiled')
  BY <1>1
<1>5. \A c \in Parties : c # p => db'[c] = db[c]
  BY <1>1 DEF OthersSame
<1>6. nextId \in Nat /\ r # None
  BY <1>2, NoneElse DEF Inv, Kept, Typed, HistoryTyped
<1>7. \A c \in Parties : c # p => job'[c]["Relationship"] = job[c]["Relationship"]
  BY <1>1 DEF JobsElse, Domains
<1>8. \A c, a \in Parties : db'[c].rel[a] = db[c].rel[a] \/ (c = p /\ a = q /\ db'[c].rel[a] = r)
  BY <1>3, <1>5
<1>9. r.task = nextId /\ r.st = "RequestSent"
  BY <1>2
<1>10. Once' /\ Open' = Open
  BY <1>1, <1>4, SameQueues DEF Inv, Kept
<1>11. RelIds'
  <2>1. \A a, b \in Parties : /\ db[a].rel[b] # None => db[a].rel[b].task \in Nat /\ db[a].rel[b].task < nextId
                              /\ saved[a].rel[b] # None => saved[a].rel[b].task \in Nat /\ saved[a].rel[b].task < nextId
    BY RecordFacts DEF Inv, Kept, RelIds, Typed, AccountsTyped, AccountType, RelType
  <2>2. \A a, b \in Parties : /\ db'[a].rel[b] # None => db'[a].rel[b].task < nextId + 1
                              /\ saved[a].rel[b] # None => saved[a].rel[b].task < nextId + 1
    BY <1>6, <1>8, <1>9, <2>1
  <2> QED BY <1>1, <2>2 DEF RelIds
<1>12. OnDisk'
  <2>1. \A c \in Parties : saved'[c].tasks = db'[c].tasks
    BY <1>1, <1>5 DEF Inv, Kept, OnDisk
  <2>2. ASSUME NEW a \in Parties, NEW b \in Parties
        PROVE  \/ saved'[a].rel[b] = db'[a].rel[b]
               \/ /\ saved'[a].rel[b] = None \/ saved'[a].rel[b].task \in spoiled'
                  /\ \/ db'[a].rel[b] = None \/ db'[a].rel[b].task \in spoiled'
                     \/ /\ job'[a]["Relationship"] # None /\ job'[a]["Relationship"].kind = "Create"
                        /\ job'[a]["Relationship"].peer = b /\ job'[a]["Relationship"].id = db'[a].rel[b].task
    <3>1. \/ saved[a].rel[b] = db[a].rel[b]
          \/ /\ saved[a].rel[b] = None \/ saved[a].rel[b].task \in spoiled'
             /\ db[a].rel[b] = None \/ db[a].rel[b].task \in spoiled' \/ CreatingId(a, b, db[a].rel[b].task)
      BY <1>4 DEF Inv, Kept, OnDisk
    <3>2. CASE a = p /\ b = q
      <4>1. saved[p].rel[q] = None \/ saved[p].rel[q].task \in spoiled'
        BY <1>4, <3>1, <3>2
      <4> QED BY <1>1, <1>2, <1>3, <3>2, <4>1
    <3>3. CASE a = p /\ b # q
      <4>1. ~CreatingId(a, b, db[a].rel[b].task) /\ db'[a].rel[b] = db[a].rel[b]
        BY <1>1, <1>3, <3>3 DEF CreatingId
      <4> QED BY <1>1, <3>1, <4>1
    <3>4. CASE a # p
      BY <1>1, <1>5, <1>7, <3>1, <3>4 DEF CreatingId
    <3> QED BY <3>2, <3>3, <3>4
  <2> QED BY <2>1, <2>2 DEF OnDisk, CreatingId
<1>13. Latest'
  <2>1. ASSUME NEW a \in Parties, NEW b \in Parties, job'[a]["Relationship"] # None,
               job'[a]["Relationship"].kind = "Create", job'[a]["Relationship"].peer = b,
               db'[a].rel[b] # None, db'[a].rel[b].st = "RequestSent"
        PROVE  db'[a].rel[b].task = job'[a]["Relationship"].id
    <3>1. CASE a = p
      BY <1>1, <1>2, <1>3, <2>1, <3>1
    <3>2. CASE a # p
      BY <1>5, <1>7, <2>1, <3>2 DEF Inv, Kept, Latest
    <3> QED BY <3>1, <3>2
  <2> QED BY <2>1 DEF Latest
<1>14. Kept'
  BY <1>1, <1>10, <1>11, <1>12, <1>13 DEF Kept
<1>15. \A c, a \in Parties, t \in Nat, st \in States : t \notin spoiled' =>
         /\ At(db[c], a, t, st) => At(db'[c], a, t, st)
         /\ At(db'[c], a, t, st) => At(db[c], a, t, st) \/ (st = "RequestSent" /\ t = nextId)
  BY <1>4, <1>8, <1>9 DEF At
<1>16. At(db'[p], q, nextId, "RequestSent")
  BY <1>2, <1>3, <1>6 DEF At
<1>17. \A c \in Parties : db'[c].tasks = db[c].tasks
  BY <1>1, <1>5
<1> QED BY <1>1, <1>4, <1>14, <1>15, <1>16, <1>17 DEF Begins, NewKinds

(* A job over what is on record: nothing but the job changes. *)
LEMMA JobBegins ==
    ASSUME Inv, NEW p \in Parties, NEW domain \in Domains, Typed', job[p][domain] = None, UNCHANGED <<db, saved>>,
           job'[p][domain] # None => job'[p][domain].kind # "Create",
           JobsElse(p, domain), Unsent, UNCHANGED <<spoiled, early>>, nextId' = nextId \/ nextId' = nextId + 1
    PROVE  Kept'
<1>1. Once'
  BY SameQueues DEF Inv, Kept
<1>2. \A a \in Parties : a # p \/ domain # "Relationship" => job'[a]["Relationship"] = job[a]["Relationship"]
  BY DEF JobsElse, Domains
<1>3. RelIds'
  <2>1. \A a, b \in Parties : /\ db[a].rel[b] # None => db[a].rel[b].task \in Nat /\ db[a].rel[b].task < nextId
                              /\ saved[a].rel[b] # None => saved[a].rel[b].task \in Nat /\ saved[a].rel[b].task < nextId
    BY RecordFacts DEF Inv, Kept, RelIds, Typed, AccountsTyped, AccountType, RelType
  <2>2. nextId \in Nat
    BY DEF Inv, Kept, Typed, HistoryTyped
  <2>3. \A a, b \in Parties : /\ db[a].rel[b] # None => db[a].rel[b].task < nextId'
                              /\ saved[a].rel[b] # None => saved[a].rel[b].task < nextId'
    BY <2>1, <2>2
  <2> QED BY <2>3 DEF RelIds
<1>4. OnDisk'
  <2>1. ASSUME NEW a \in Parties, NEW b \in Parties, NEW t, CreatingId(a, b, t)
        PROVE  /\ job'[a]["Relationship"] # None /\ job'[a]["Relationship"].kind = "Create"
               /\ job'[a]["Relationship"].peer = b /\ job'[a]["Relationship"].id = t
    BY <1>2, <2>1 DEF CreatingId
  <2>2. ASSUME NEW a \in Parties, NEW b \in Parties
        PROVE  \/ saved[a].rel[b] = db[a].rel[b]
               \/ /\ saved[a].rel[b] = None \/ saved[a].rel[b].task \in spoiled
                  /\ \/ db[a].rel[b] = None \/ db[a].rel[b].task \in spoiled
                     \/ /\ job'[a]["Relationship"] # None /\ job'[a]["Relationship"].kind = "Create"
                        /\ job'[a]["Relationship"].peer = b /\ job'[a]["Relationship"].id = db[a].rel[b].task
    <3>1. \/ saved[a].rel[b] = db[a].rel[b]
          \/ /\ saved[a].rel[b] = None \/ saved[a].rel[b].task \in spoiled
             /\ db[a].rel[b] = None \/ db[a].rel[b].task \in spoiled \/ CreatingId(a, b, db[a].rel[b].task)
      BY DEF Inv, Kept, OnDisk
    <3> QED BY <2>1, <3>1
  <2> QED BY <2>2 DEF Inv, Kept, OnDisk, CreatingId
<1>5. Latest'
  BY <1>2 DEF Inv, Kept, Latest
<1> QED BY <1>1, <1>3, <1>4, <1>5 DEF Kept

LEMMA SubmitBegins ==
    ASSUME Inv, NEW p \in Parties, NEW q \in Parties,
           \/ SubmitOver(p, q, "Ping", "pings") \/ SubmitOver(p, q, "RequestVrc", "vrcs") \/ SubmitRemove(p, q)
    PROVE  Begins(p, "Relationship")
<1>1. /\ Typed' /\ job[p]["Relationship"] = None /\ UNCHANGED <<db, saved>>
      /\ job'[p]["Relationship"] # None /\ job'[p]["Relationship"].st = "run" /\ job'[p]["Relationship"].kind # "Create"
      /\ job'[p]["Relationship"].kind \in NewKinds => job'[p]["Relationship"].id = nextId /\ nextId' = nextId + 1
      /\ job'[p]["Relationship"].kind \notin NewKinds => job'[p]["Relationship"].id = 0 /\ nextId' = nextId
      /\ JobsElse(p, "Relationship") /\ Unsent /\ UNCHANGED <<epoch, spoiled, early, crossed>>
  BY SubmitIs DEF Inv, Kept
<1>2. "Relationship" \in Domains /\ nextId > 0
  BY DEF Inv, Kept, Typed, HistoryTyped, Domains
<1>3. Kept'
  BY <1>1, <1>2, JobBegins
<1> QED BY <1>1, <1>2, <1>3 DEF Begins

LEMMA AnswerBegins ==
    ASSUME Inv, NEW p \in Parties, NEW t \in db[p].tasks,
           \/ \E our \in {persona(p), RDid(p, t.id)} : AnswerRequest(p, t, "Accept", our)
           \/ AnswerRequest(p, t, "Reject", None)
           \/ \E kind \in {"IssueVrc", "RejectVrc"} : AnswerVrcRequest(p, t, kind)
    PROVE  Begins(p, "Inbox")
<1>1. /\ Typed' /\ job[p]["Inbox"] = None /\ UNCHANGED <<db, saved, nextId>>
      /\ job'[p]["Inbox"] # None /\ job'[p]["Inbox"].peer = t.peer /\ job'[p]["Inbox"].id = t.id
      /\ job'[p]["Inbox"].st = "run" /\ AnswersTask(job'[p]["Inbox"].kind, t)
      /\ JobsElse(p, "Inbox") /\ Unsent /\ UNCHANGED <<epoch, spoiled, early, crossed>>
  BY AnswerIs DEF Inv, Kept
<1>2. "Inbox" \in Domains
  BY DEF Domains
<1>3. job'[p]["Inbox"].kind # "Create"
  BY <1>1 DEF AnswersTask
<1>4. Kept'
  BY <1>1, <1>2, <1>3, JobBegins
<1> QED BY <1>1, <1>4 DEF Begins

-----------------------------------------------------------------------------
LEMMA InitInv == Init => Inv
<1> SUFFICES ASSUME Init PROVE Inv
  OBVIOUS
<1>1. PICK e : e = EmptyDb
  OBVIOUS
<1>2. /\ e.rel = [q \in Parties |-> None] /\ e.tasks = {} /\ e.issued = {} /\ e.received = {} /\ e \in AccountType
  BY <1>1 DEF EmptyDb, AccountType
<1>3. /\ \A p \in Parties : db[p] = e /\ saved[p] = e
      /\ db \in [Parties -> AccountType] /\ saved \in [Parties -> AccountType]
  BY <1>1, <1>2 DEF Init
<1>4. /\ job = [p \in Parties |-> [m \in Domains |-> None]]
      /\ held = [p \in Parties |-> <<>>] /\ seen = [p \in Parties |-> {}] /\ epoch = [p \in Parties |-> 0]
      /\ net = {} /\ sent = {} /\ nextId = 1 /\ spoiled = {} /\ early = {} /\ crossed = {}
  BY DEF Init
<1>5. Typed
  <2>1. \A p \in Parties : GoodAccount(e, p)
    BY <1>2 DEF GoodAccount, GoodRel
  <2>2. AccountsTyped
    BY <1>3, <2>1 DEF AccountsTyped
  <2>3. JobsTyped
    BY <1>4 DEF JobsTyped
  <2>4. MessagesTyped
    BY <1>4 DEF MessagesTyped
  <2>5. HistoryTyped
    BY <1>4 DEF HistoryTyped
  <2> QED BY <2>2, <2>3, <2>4, <2>5 DEF Typed
<1>6. \A p, q \in Parties : db[p].rel[q] = None /\ saved[p].rel[q] = None /\ db[p].tasks = {} /\ saved[p].tasks = {}
  BY <1>2, <1>3
<1>7. \A p \in Parties, m \in Domains : job[p][m] = None
  BY <1>4
<1>8. Once
  BY <1>4 DEF Once, Apart
<1>9. Kept
  BY <1>5, <1>6, <1>7, <1>8 DEF Kept, RelIds, OnDisk, Latest, Domains
<1>10. Fresh /\ Origins /\ FinalOnce
  BY <1>4, <1>6, <1>7 DEF Fresh, Origins, OneStart, MessagesFollow, TasksFollow, JobsFollow, FinalOnce, Domains
<1>11. AnsweredOnce
  BY <1>4, <1>6, <1>7 DEF AnsweredOnce, OneAnswer, TasksUnanswered, JobsUnanswered, OpenUnanswered
<1>12. Asked /\ Closing /\ Finished /\ Recorded
  BY <1>4, <1>6, <1>7 DEF Asked, Closing, Finished, Recorded, At, Domains
<1>13. VrcAsked /\ VrcDone /\ VrcOnce
  BY <1>4, <1>6, <1>7 DEF VrcAsked, VrcDone, VrcOnce
<1> QED BY <1>9, <1>10, <1>11, <1>12, <1>13 DEF Inv

LEMMA InboundKeeps ==
    ASSUME Inv, Inbound
    PROVE  Inv'
<1>1. Typed /\ Once /\ FinalOnce /\ Kept
  BY DEF Inv, Kept
<1>2. Moves => Inv'
  BY MovesRests, RestsKeeps
<1>3. ASSUME NEW p \in Parties, NEW m \in sent, NEW ok \in BOOLEAN, Handles(p, m, ok)
      PROVE  Inv'
  BY <1>1, <1>3, TakesIs, TakesKeeps
<1>4. ASSUME NEW p \in Parties, NEW m \in net, Deliver(p, m)
      PROVE  Inv'
  <2>1. m \in sent
    BY <1>1 DEF Typed, MessagesTyped
  <2>2. Moves \/ \E ok \in BOOLEAN : Handles(p, m, ok)
    BY <1>1, <1>4, DeliverIs
  <2> QED BY <1>2, <1>3, <2>1, <2>2
<1>5. ASSUME NEW p \in Parties, Return(p)
      PROVE  Inv'
  BY <1>1, <1>2, <1>3, <1>5, ReturnIs
<1>6. ASSUME NEW p \in Parties, CheckFails(p)
      PROVE  Inv'
  BY <1>1, <1>3, <1>6, CheckFailsIs
<1>7. (\E m \in net : Lose(m)) \/ (\E m \in sent : Redeliver(m)) => Inv'
  BY <1>1, <1>2, NetworkIs
<1> QED BY <1>4, <1>5, <1>6, <1>7, Zenon DEF Inbound

LEMMA UserKeeps ==
    ASSUME Inv, NEW p \in Parties, User(p)
    PROVE  Inv'
<1>1. "Relationship" \in Domains /\ "Inbox" \in Domains
  BY DEF Domains
<1>2. ASSUME NEW q \in Parties, NEW our \in {persona(p), RDid(p, nextId)}, SubmitRequest(p, q, our)
      PROVE  Inv'
  BY <1>1, <1>2, SubmitRequestBegins, BeginsKeeps
<1>3. ASSUME NEW q \in Parties,
             \/ SubmitOver(p, q, "Ping", "pings") \/ SubmitOver(p, q, "RequestVrc", "vrcs") \/ SubmitRemove(p, q)
      PROVE  Inv'
  BY <1>1, <1>3, SubmitBegins, BeginsKeeps
<1>4. ASSUME NEW t \in db[p].tasks,
             \/ \E our \in {persona(p), RDid(p, t.id)} : AnswerRequest(p, t, "Accept", our)
             \/ AnswerRequest(p, t, "Reject", None)
             \/ \E kind \in {"IssueVrc", "RejectVrc"} : AnswerVrcRequest(p, t, kind)
      PROVE  Inv'
  BY <1>1, <1>4, AnswerBegins, BeginsKeeps
<1>5. ASSUME \/ \E t \in db[p].tasks : AcceptVrc(p, t) \/ DropTasks(p, {t})
             \/ DropTasks(p, db[p].tasks)
      PROVE  Inv'
  BY <1>5, LeaveRests, RestsKeeps
<1> QED BY <1>2, <1>3, <1>4, <1>5, Zenon DEF User

LEMMA BackgroundKeeps ==
    ASSUME Inv, NEW p \in Parties, Background(p)
    PROVE  Inv'
<1>1. ASSUME NEW domain \in Domains, JobSends(p, domain) PROVE Inv'
  BY <1>1, JobSendsKeeps
<1>2. ASSUME NEW domain \in Domains, JobFails(p, domain) \/ JobPanics(p, domain) PROVE Inv'
  BY <1>2, StopsRests, RestsKeeps
<1>3. ASSUME NEW domain \in Domains, ApplyFailed(p, domain) PROVE Inv'
  BY <1>3, FailedRests, RestsKeeps
<1>4. ApplyCreate(p) => Inv'
  BY CreatedRests, RestsKeeps
<1>5. ApplyCreateFailed(p) => Inv'
  BY CreateFailedRests, RestsKeeps
<1>6. ApplyRemove(p) => Inv'
  BY RemovedRests, RestsKeeps
<1>7. ApplyWaiting(p, "Ping", "Ping") => Inv'
  BY WaitingRests, RestsKeeps
<1>8. ApplyWaiting(p, "RequestVrc", "VrcRequestOut") => Inv'
  BY WaitingRests, RestsKeeps
<1>9. ApplyAccept(p) => Inv'
  BY AcceptedRests, RestsKeeps
<1>10. ApplyAnswered(p) => Inv'
  BY AnsweredRests, RestsKeeps
<1> QED BY <1>1, <1>2, <1>3, <1>4, <1>5, <1>6, <1>7, <1>8, <1>9, <1>10, Zenon DEF Background

LEMMA StutterKeeps ==
    ASSUME Inv, UNCHANGED vars
    PROVE  Inv'
<1>1. UNCHANGED <<db, saved, job, held, seen, epoch, net, sent, nextId, spoiled, early, crossed>>
  BY DEF vars
<1>2. Typed'
  BY <1>1, SameAccounts, SameJobs, SameMessages DEF Inv, Kept, Typed, HistoryTyped
<1>3. Once' /\ Open' = Open
  BY <1>1, SameQueues DEF Inv, Kept, Unsent
<1>4. Moves
  BY <1>1, <1>2, <1>3 DEF Moves
<1> QED BY <1>4, MovesRests, RestsKeeps

LEMMA StepInv == Inv /\ [Next]_vars => Inv'
<1> SUFFICES ASSUME Inv, [Next]_vars PROVE Inv'
  OBVIOUS
<1>1. Inbound => Inv'
  BY InboundKeeps
<1>2. ASSUME NEW p \in Parties, User(p) PROVE Inv'
  BY <1>2, UserKeeps
<1>3. ASSUME NEW p \in Parties, Background(p) PROVE Inv'
  BY <1>3, BackgroundKeeps
<1>4. ASSUME NEW p \in Parties, Restart(p) PROVE Inv'
  BY <1>4, RestartRests, RestsKeeps
<1>5. UNCHANGED vars => Inv'
  BY StutterKeeps
<1> QED BY <1>1, <1>2, <1>3, <1>4, <1>5, Zenon DEF Next

LEMMA Invariance == Spec => []Inv
  BY InitInv, StepInv, PTL DEF Spec

-----------------------------------------------------------------------------
LEMMA InvTypeOK ==
    ASSUME Inv
    PROVE  TypeOK
<1>1. AccountsTyped /\ MessagesTyped /\ HistoryTyped
  BY DEF Inv, Kept, Typed
<1>2. nextId \in Nat
  BY <1>1 DEF HistoryTyped
<1>3. ASSUME NEW p \in Parties, NEW d \in {db[p], saved[p]}
      PROVE  /\ d.rel \in [Parties -> Rels \cup {None}] /\ d.rel[p] = None
             /\ \A t \in d.tasks : t.kind \in Kinds /\ t.peer \in Parties \ {p}
             /\ \A t, u \in d.tasks : t.id = u.id => t = u
             /\ \A v \in d.issued \cup d.received : v.key \in Dids
  <2>1. GoodAccount(d, p) /\ \A q \in Parties : d.rel[q] # None => d.rel[q].task < nextId
    BY <1>1 DEF AccountsTyped, Inv, Kept, RelIds
  <2>2. /\ d.rel \in [Parties -> RelType \cup {None}] /\ d.tasks \subseteq TaskType
        /\ d.issued \subseteq VrcType /\ d.received \subseteq VrcType
    BY <2>1 DEF GoodAccount, AccountType
  <2>3. \A q \in Parties : d.rel[q] # None => d.rel[q] \in Rels
    <3>1. ASSUME NEW r \in RelType, r.task < nextId PROVE r \in Rels
      BY <1>2, <3>1 DEF RelType, Rels, Ids
    <3> QED BY <2>1, <2>2, <3>1
  <2>4. d.rel \in [Parties -> Rels \cup {None}]
    BY <2>2, <2>3
  <2>5. d.rel[p] = None
    BY <2>1 DEF GoodAccount, GoodRel
  <2>6. \A t \in d.tasks : t.kind \in Kinds /\ t.peer \in Parties \ {p}
    BY <2>1, <2>2 DEF GoodAccount, GoodTask, TaskType
  <2>7. \A t, u \in d.tasks : t.id = u.id => t = u
    BY <2>1 DEF GoodAccount
  <2>8. \A v \in d.issued \cup d.received : v.key \in Dids
    BY <2>2 DEF VrcType
  <2> QED BY <2>4, <2>5, <2>6, <2>7, <2>8
<1>4. net \subseteq sent
  BY <1>1 DEF MessagesTyped
<1>5. \A m \in sent : m.thid \in Ids /\ m.from \in Dids /\ m.to \in Dids
  <2>1. \A m \in sent : m.thid < nextId
    BY DEF Inv, Fresh
  <2> QED BY <1>1, <1>2, <2>1 DEF MessagesTyped, GoodMsg, MsgType, Ids
<1>6. spoiled \cup early \cup crossed \subseteq Int
  BY <1>1, TwoMore DEF HistoryTyped
<1> QED BY <1>3, <1>4, <1>5, <1>6 DEF TypeOK

LEMMA QuietOpen ==
    ASSUME Inv, Quiet
    PROVE  Open = {} /\ \A p \in Parties, m \in Domains : job[p][m] = None
<1>1. \A x \in sent : Owner(x.to) \in Parties
  BY Owners DEF Inv, Kept, Typed, MessagesTyped, GoodMsg, MsgType
<1>2. \A p \in Parties : Msgs(held[p]) = {}
  BY DEF Quiet, Msgs
<1> QED BY <1>1, <1>2 DEF Open, Quiet

LEMMA InvCloses ==
    ASSUME Inv
    PROVE  HandshakeCloses
<1>1. TypeOK
  BY InvTypeOK
<1>2. ASSUME Quiet, NEW p \in Parties, NEW q \in Parties, db[p].rel[q] # None, db[p].rel[q].st = "RequestAccepted",
             db[p].rel[q].task \notin spoiled \cup early
      PROVE  FALSE
  <2>1. PICK t : t = db[p].rel[q].task
    OBVIOUS
  <2>2. t \in Nat /\ At(db[p], q, t, "RequestAccepted") /\ t \notin spoiled /\ t \notin early
    BY <1>2, <2>1, RecordFacts DEF At
  <2>3. PICK m \in sent : m.type = "accept" /\ m.thid = t /\ Owner(m.from) = p /\ Owner(m.to) = q
    BY <2>2 DEF Inv, Recorded, Told
  <2>4. PICK f \in sent : f.type = "finalize" /\ f.thid = t /\ Owner(f.from) = q /\ Owner(f.to) = p
    BY <1>2, <2>2, <2>3, QuietOpen DEF Inv, Closing, Told
  <2>5. ~At(db[p], q, t, "RequestAccepted")
    BY <1>2, <2>2, <2>4, QuietOpen DEF Inv, Finished
  <2> QED BY <2>2, <2>5
<1> QED BY <1>1, <1>2 DEF HandshakeCloses

LEMMA InvAnswered ==
    ASSUME Inv
    PROVE  VrcRequestsAnswered
<1>1. ASSUME Quiet, NEW p \in Parties, NEW t \in db[p].tasks, t.kind = "VrcRequestOut", t.id \notin spoiled \cup early
      PROVE  \E u \in db[t.peer].tasks : u.id = t.id /\ u.kind = "VrcRequestIn"
  <2>1. PICK r \in sent : r.type = "vrcRequest" /\ r.thid = t.id /\ Owner(r.from) = p /\ Owner(r.to) = t.peer
    BY <1>1 DEF Inv, Origins, TasksFollow, Told
  <2>2. \/ \E m \in sent : m.type \in AnswerTypes /\ m.thid = r.thid
        \/ \E u \in db[t.peer].tasks : u.id = t.id /\ u.kind = "VrcRequestIn"
    BY <1>1, <2>1, QuietOpen DEF Inv, VrcAsked
  <2>3. ASSUME NEW m \in sent, m.type \in AnswerTypes, m.thid = r.thid
        PROVE  FALSE
    <3>1. PICK s \in sent : s.type = AnswerAsk(m.type) /\ s.thid = m.thid /\ Owner(s.from) = Owner(m.to)
      BY <2>3 DEF Inv, Origins, MessagesFollow, Told
    <3>2. s = r
      BY <2>1, <2>3, <3>1 DEF Inv, Origins, OneStart, AnswerAsk, AskTypes
    <3>3. m.type \in {"vrc", "vrcReject"} /\ Owner(m.to) = p
      BY <2>1, <2>3, <3>1, <3>2 DEF AnswerAsk, AnswerTypes
    <3>4. \A x \in db[p].tasks : x.id = m.thid => x.kind # "VrcRequestOut"
      BY <1>1, <2>1, <2>3, <3>3, QuietOpen DEF Inv, VrcDone
    <3> QED BY <1>1, <2>1, <2>3, <3>4
  <2> QED BY <2>2, <2>3
<1> QED BY <1>1 DEF VrcRequestsAnswered

(* No message ends or alters an established relationship. *)
Survives ==
    \A p, q \in Parties : Established(db[p], q) /\ job'[p] = job[p] /\ epoch' = epoch => db'[p].rel[q] = db[p].rel[q]

LEMMA OthersSurvive ==
    ASSUME NEW p \in Parties, OthersSame(p), job'[p] # job[p] \/ db'[p].rel = db[p].rel
    PROVE  Survives
  BY DEF OthersSame, Survives

LEMMA StepSurvives ==
    ASSUME Inv, [Next]_vars
    PROVE  Survives
<1>1. Typed /\ Once /\ FinalOnce
  BY DEF Inv, Kept
<1>2. db' = db => Survives
  BY DEF Survives
<1>3. ASSUME NEW p \in Parties, NEW m \in sent, NEW ok \in BOOLEAN, Handles(p, m, ok)
      PROVE  Survives
  <2>1. OthersSame(p) /\ db'[p] = Handled(db[p], m, ok) /\ Owner(m.to) = p
    BY <1>3 DEF Handles
  <2>2. GoodAccount(db[p], p) /\ GoodMsg(m)
    BY <1>1 DEF Typed, AccountsTyped, MessagesTyped
  <2>3. PICK d, e, q : d = db[p] /\ e = db'[p] /\ q = Owner(m.from)
    OBVIOUS
  <2>4. \A a \in Parties : Established(d, a) => e.rel[a] = d.rel[a]
    BY <2>1, <2>2, <2>3, HandledRel
  <2> QED BY <2>1, <2>3, <2>4 DEF OthersSame, Survives
<1>4. Moves => Survives
  BY <1>2 DEF Moves
<1>5. ASSUME NEW p \in Parties, NEW domain \in Domains, NEW st, Applied(p, domain, st)
      PROVE  Survives
  BY <1>5, OthersSurvive DEF Applied
<1>6. Inbound => Survives
  <2>1. ASSUME NEW p \in Parties, NEW m \in net, Deliver(p, m) PROVE Survives
    <3>1. m \in sent
      BY <1>1 DEF Typed, MessagesTyped
    <3>2. Moves \/ \E ok \in BOOLEAN : Handles(p, m, ok)
      BY <1>1, <2>1, DeliverIs
    <3> QED BY <1>3, <1>4, <3>1, <3>2
  <2>2. ASSUME NEW p \in Parties, Return(p) PROVE Survives
    BY <1>1, <1>3, <1>4, <2>2, ReturnIs
  <2>3. ASSUME NEW p \in Parties, CheckFails(p) PROVE Survives
    BY <1>1, <1>3, <2>3, CheckFailsIs
  <2>4. (\E m \in net : Lose(m)) \/ (\E m \in sent : Redeliver(m)) => Survives
    BY <1>1, <1>4, NetworkIs
  <2> QED BY <2>1, <2>2, <2>3, <2>4, Zenon DEF Inbound
<1>7. ASSUME NEW p \in Parties, User(p) PROVE Survives
  <2>1. ASSUME NEW q \in Parties, NEW our \in {persona(p), RDid(p, nextId)}, SubmitRequest(p, q, our)
        PROVE  Survives
    <3>1. OthersSame(p) /\ job[p]["Relationship"] = None /\ job'[p]["Relationship"] # None
      BY <1>1, <2>1, SubmitRequestIs
    <3> QED BY <3>1, OthersSurvive
  <2>2. ASSUME NEW q \in Parties,
               \/ SubmitOver(p, q, "Ping", "pings") \/ SubmitOver(p, q, "RequestVrc", "vrcs") \/ SubmitRemove(p, q)
        PROVE  Survives
    BY <1>2, <2>2 DEF SubmitOver, SubmitRemove
  <2>3. ASSUME NEW t \in db[p].tasks,
               \/ \E our \in {persona(p), RDid(p, t.id)} : AnswerRequest(p, t, "Accept", our)
               \/ AnswerRequest(p, t, "Reject", None)
               \/ \E kind \in {"IssueVrc", "RejectVrc"} : AnswerVrcRequest(p, t, kind)
        PROVE  Survives
    BY <1>2, <2>3 DEF AnswerRequest, AnswerVrcRequest
  <2>4. ASSUME \/ \E t \in db[p].tasks : AcceptVrc(p, t) \/ DropTasks(p, {t})
               \/ DropTasks(p, db[p].tasks)
        PROVE  Survives
    <3>1. OthersSame(p) /\ db'[p].rel = db[p].rel
      BY <1>1, <2>4, LeaveIs
    <3> QED BY <3>1, OthersSurvive
  <2> QED BY <1>7, <2>1, <2>2, <2>3, <2>4, Zenon DEF User
<1>8. ASSUME NEW p \in Parties, Background(p) PROVE Survives
  <2>1. "Relationship" \in Domains /\ "Inbox" \in Domains
    BY DEF Domains
  <2>2. ASSUME NEW domain \in Domains, JobSends(p, domain) PROVE Survives
    BY <1>2, <2>2 DEF JobSends
  <2>3. ASSUME NEW domain \in Domains, JobFails(p, domain) \/ JobPanics(p, domain) PROVE Survives
    BY <1>2, <2>3 DEF JobFails, JobPanics
  <2>4. ASSUME NEW domain \in Domains, ApplyFailed(p, domain) PROVE Survives
    BY <1>1, <1>5, <2>4, ApplyFailedIs
  <2>5. ApplyCreate(p) => Survives
    BY <1>1, <1>5, <2>1, ApplyCreateIs
  <2>6. ApplyCreateFailed(p) => Survives
    BY <1>1, <1>5, <2>1, ApplyCreateFailedIs
  <2>7. ApplyRemove(p) => Survives
    BY <1>1, <1>5, <2>1, ApplyRemoveIs
  <2>8. ApplyWaiting(p, "Ping", "Ping") => Survives
    BY <1>1, <1>5, <2>1, ApplyWaitingIs
  <2>9. ApplyWaiting(p, "RequestVrc", "VrcRequestOut") => Survives
    BY <1>1, <1>5, <2>1, ApplyWaitingIs
  <2>10. ApplyAccept(p) => Survives
    BY <1>1, <1>5, <2>1, ApplyAcceptIs
  <2>11. ApplyAnswered(p) => Survives
    BY <1>1, <1>5, <2>1, ApplyAnsweredIs
  <2> QED BY <1>8, <2>2, <2>3, <2>4, <2>5, <2>6, <2>7, <2>8, <2>9, <2>10, <2>11, Zenon DEF Background
<1>9. ASSUME NEW p \in Parties, Restart(p) PROVE Survives
  <2>1. epoch \in [Parties -> Nat] /\ epoch' = [epoch EXCEPT ![p] = @ + 1]
    BY <1>1, <1>9 DEF Typed, HistoryTyped, Restart
  <2>2. epoch' # epoch
    BY <2>1
  <2> QED BY <2>2 DEF Survives
<1>10. UNCHANGED vars => Survives
  BY <1>2 DEF vars
<1> QED BY <1>6, <1>7, <1>8, <1>9, <1>10, Zenon DEF Next

-----------------------------------------------------------------------------
(* Every variable keeps its type, the inbox holds one task per id, and ids  *)
(* are taken before they are used.                                          *)
THEOREM RelationshipsTypeCorrect == Spec => []TypeOK
<1>1. Inv => TypeOK
  BY InvTypeOK
<1> QED BY <1>1, Invariance, PTL

(* No acceptance is left waiting for its finalize when nothing is under way *)
(* and its thread was not cut.                                              *)
THEOREM HandshakeClosesAlways == Spec => []HandshakeCloses
<1>1. Inv => HandshakeCloses
  BY InvCloses
<1> QED BY <1>1, Invariance, PTL

(* No VRC request waits for an answer that cannot come. *)
THEOREM VrcRequestsAnsweredAlways == Spec => []VrcRequestsAnswered
<1>1. Inv => VrcRequestsAnswered
  BY InvAnswered
<1> QED BY <1>1, Invariance, PTL

(* No message ends or alters an established relationship. *)
THEOREM EstablishedSurvivesMessagesAlways == Spec => EstablishedSurvivesMessages
<1>1. Inv /\ [Next]_vars => [Survives]_vars
  BY StepSurvives
<1>2. Spec => [][Survives]_vars
  BY <1>1, Invariance, PTL DEF Spec
<1> QED BY <1>2 DEF EstablishedSurvivesMessages, Survives
=============================================================================
