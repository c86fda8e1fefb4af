---------------------------- MODULE ChannelsProofs ----------------------------
(***************************************************************************)
(* The two ends of an established relationship are in one handshake, and   *)
(* each sends from the DID the other one listens for: the invariant of     *)
(* RelationshipsProofs, strengthened with where every DID on record comes  *)
(* from.                                                                   *)
(*                                                                         *)
(* A DID is named by a request and by its acceptance, and copied from them *)
(* into tasks, jobs and records.  That the records agree rests on two more *)
(* facts: who asked or accepted has a record of that thread (unless it was *)
(* rejected, or the outcome is still to come), and two accounts never both *)
(* accept a request of the other.                                          *)
(***************************************************************************)
EXTENDS RelationshipsProofs

-----------------------------------------------------------------------------
(* The DIDs of a relationship.  Offered is a message of a thread that names *)
(* did as its sender's DID with the receiver.                               *)
Offered(S, type, p, q, t, did) ==
    \E m \in S : m.type = type /\ m.thid = t /\ Owner(m.from) = p /\ Owner(m.to) = q /\ m.did = did

(* Tasks and jobs name the DIDs of the messages they come from and send.    *)
TasksName ==
    \A p \in Parties : \A t \in db[p].tasks :
        t.kind = "RequestIn" => Offered(sent, "request", t.peer, p, t.id, t.did)
AcceptNames(S, p, j) ==
    j # None /\ j.kind = "Accept" =>
        /\ Offered(S, "request", j.peer, p, j.id, j.theirs)
        /\ j.st = "sent" => Offered(S, "accept", p, j.peer, j.id, j.our)
CreateNames(S, p, j) ==
    j # None /\ j.kind = "Create" /\ j.st = "sent" => Offered(S, "request", p, j.peer, j.id, j.our)
JobsName ==
    \A p \in Parties : AcceptNames(sent, p, job[p]["Inbox"]) /\ CreateNames(sent, p, job[p]["Relationship"])

(* Who asked keeps the record of its request, unless that was rejected, and *)
(* who accepted has a record of that, or the outcome of its job to come.    *)
Begun(d, q, t) == At(d, q, t, "RequestSent") \/ At(d, q, t, "Established")
Rejected(S, t) == \E m \in S : m.type = "reject" /\ m.thid = t
AskerKnows ==
    \A r \in sent : r.type = "request" /\ r.thid \notin spoiled =>
        Begun(db[Owner(r.from)], Owner(r.to), r.thid) \/ Rejected(sent, r.thid)
AcceptSent(j, q, t) == j # None /\ j.kind = "Accept" /\ j.st = "sent" /\ j.id = t /\ j.peer = q
Taken(d, q, t) == At(d, q, t, "RequestAccepted") \/ At(d, q, t, "Established")
AccepterKnows ==
    \A m \in sent : m.type = "accept" /\ m.thid \notin spoiled =>
        \/ Taken(db[Owner(m.from)], Owner(m.to), m.thid)
        \/ AcceptSent(job[Owner(m.from)]["Inbox"], Owner(m.to), m.thid)

(* A record holds the DIDs its thread's messages name; our_did may be the   *)
(* outcome's to write yet, or another thread's.                             *)
OurAsked(S, p, q, r) == Offered(S, "request", p, q, r.task, r.our)
TheirsAsked(S, p, q, r) == Offered(S, "request", q, p, r.task, r.remote)
OurAccepted(S, p, q, r, cut) == r.task \in cut \/ Offered(S, "accept", p, q, r.task, r.our)
TheirsAccepted(S, p, q, r) == Offered(S, "accept", q, p, r.task, r.remote)
RecordNames(S, p, q, r, creating, cut) ==
    /\ r.st = "RequestSent" => creating \/ OurAsked(S, p, q, r)
    /\ r.st = "RequestAccepted" => TheirsAsked(S, p, q, r) /\ OurAccepted(S, p, q, r, cut)
    /\ r.st = "Established" =>
         \/ TheirsAccepted(S, p, q, r) /\ (creating \/ r.task \in cut \/ OurAsked(S, p, q, r))
         \/ TheirsAsked(S, p, q, r) /\ OurAccepted(S, p, q, r, cut)
RecordsName ==
    \A p, q \in Parties : db[p].rel[q] # None /\ db[p].rel[q].task \notin spoiled =>
        RecordNames(sent, p, q, db[p].rel[q], CreatingId(p, q, db[p].rel[q].task), crossed)

(* Two accounts do not both accept a request of the other.                  *)
Accepting(p, q, t) ==
    \/ /\ \E x \in db[p].tasks : x.kind = "RequestIn" /\ x.id = t /\ x.peer = q
       /\ \A m \in sent : m.type \in AnswerTypes => m.thid # t
    \/ /\ job[p]["Inbox"] # None /\ job[p]["Inbox"].kind = "Accept" /\ job[p]["Inbox"].st # "failed"
       /\ job[p]["Inbox"].id = t /\ job[p]["Inbox"].peer = q
NotBoth ==
    \A p, q \in Parties, t, u \in Nat : t \notin spoiled /\ u \notin spoiled => ~(Accepting(p, q, t) /\ Accepting(q, p, u))

Channels == TasksName /\ JobsName /\ AskerKnows /\ AccepterKnows /\ RecordsName /\ NotBoth

LEMMA OfferedMore ==
    ASSUME NEW S, NEW T, S \subseteq T
    PROVE  \A type, p, q, t, did : Offered(S, type, p, q, t, did) => Offered(T, type, p, q, t, did)
  BY DEF Offered

LEMMA RecordNamesMore ==
    ASSUME NEW S, NEW T, S \subseteq T, NEW p, NEW q, NEW r, NEW creating \in BOOLEAN, NEW still \in BOOLEAN,
           creating => still, NEW cut, NEW more, cut \subseteq more, RecordNames(S, p, q, r, creating, cut)
    PROVE  RecordNames(T, p, q, r, still, more)
<1>1. \A type, a, b, t, did : Offered(S, type, a, b, t, did) => Offered(T, type, a, b, t, did)
  BY OfferedMore
<1> QED BY <1>1 DEF RecordNames, OurAsked, TheirsAsked, OurAccepted, TheirsAccepted

(* RecordStep is what may become of a record, AcceptStep and CreateStep of  *)
(* an account's two jobs, Local of a step of one account that sends nothing *)
(* and handles nothing.                                                     *)
SameJob(j, k) ==
    j # None /\ k.kind = j.kind /\ k.id = j.id /\ k.peer = j.peer /\ k.our = j.our /\ k.theirs = j.theirs
CreatingStill(c, a, t) ==
    /\ job'[c]["Relationship"] # None /\ job'[c]["Relationship"].kind = "Create"
    /\ job'[c]["Relationship"].peer = a /\ job'[c]["Relationship"].id = t
RecordStep(c, a, r, s) ==
    s # None /\ s.task \notin spoiled' =>
        \/ s = r /\ (CreatingId(c, a, s.task) => CreatingStill(c, a, s.task))
        \/ s.st = "RequestSent" /\ CreatingStill(c, a, s.task)
        \/ /\ AcceptSent(job[c]["Inbox"], a, s.task) /\ s.st = "RequestAccepted"
           /\ s.our = job[c]["Inbox"].our /\ s.remote = job[c]["Inbox"].theirs
        \/ /\ r # None /\ s.task = r.task /\ s.st = r.st /\ s.remote = r.remote
           /\ job[c]["Relationship"] # None /\ job[c]["Relationship"].kind = "Create"
           /\ job[c]["Relationship"].st = "sent" /\ job[c]["Relationship"].peer = a
           /\ s.our = job[c]["Relationship"].our
           /\ s.task # job[c]["Relationship"].id => s.task \in crossed'
AcceptStep(c, j, k) ==
    /\ k # None /\ k.kind = "Accept" =>
         \/ SameJob(j, k) /\ (k.st = j.st \/ k.st = "failed")
         \/ /\ j = None /\ k.st = "run"
            /\ \E t \in db[c].tasks : t.kind = "RequestIn" /\ k.id = t.id /\ k.peer = t.peer /\ k.theirs = t.did
    /\ j # None /\ j.kind = "Accept" /\ j.st = "sent" /\ j.id \notin spoiled' =>
         k = j \/ At(db'[c], j.peer, j.id, "RequestAccepted")
CreateStep(j, k) ==
    k # None /\ k.kind = "Create" => k.st = "run" \/ (SameJob(j, k) /\ (k.st = j.st \/ k.st = "failed"))
Local ==
    /\ sent' = sent /\ spoiled \subseteq spoiled' /\ crossed \subseteq crossed'
    /\ \A c \in Parties : \A t \in db'[c].tasks : t.kind = "RequestIn" => t \in db[c].tasks
    /\ \A c, a \in Parties : RecordStep(c, a, db[c].rel[a], db'[c].rel[a])
    /\ \A c, a \in Parties : db[c].rel[a] # None /\ db[c].rel[a].task \notin spoiled' =>
         db'[c].rel[a] # None /\ db'[c].rel[a].task = db[c].rel[a].task /\ db'[c].rel[a].st = db[c].rel[a].st
    /\ \A c \in Parties : /\ AcceptStep(c, job[c]["Inbox"], job'[c]["Inbox"])
                          /\ CreateStep(job[c]["Relationship"], job'[c]["Relationship"])

(* Who accepts a request meets the record of who asked, and no acceptance   *)
(* begins beside a record: so the two accounts do not both accept.          *)
Met ==
    \A p, q \in Parties, t \in Nat : t \notin spoiled /\ Accepting(p, q, t) => Begun(db[q], p, t)
LEMMA AcceptingMeets == Inv /\ AskerKnows => Met
<1>1. SUFFICES ASSUME Inv, AskerKnows, NEW p \in Parties, NEW q \in Parties, NEW t \in Nat, t \notin spoiled,
                      Accepting(p, q, t), ~Begun(db[q], p, t)
               PROVE  FALSE
  BY DEF Met
<1>2. PICK r \in sent : r.type = "request" /\ r.thid = t /\ Owner(r.from) = q /\ Owner(r.to) = p
  <2>1. ASSUME NEW x \in db[p].tasks, x.kind = "RequestIn", x.id = t, x.peer = q
        PROVE  Told(sent, q, p, t, "request")
    BY <1>1, <2>1 DEF Inv, Origins, TasksFollow, InKinds, TaskAsk
  <2>2. ASSUME job[p]["Inbox"] # None, job[p]["Inbox"].kind = "Accept", job[p]["Inbox"].id = t, job[p]["Inbox"].peer = q
        PROVE  Told(sent, q, p, t, "request")
    BY <1>1, <2>2 DEF Inv, Origins, JobsFollow, JobAsk
  <2> QED BY <1>1, <2>1, <2>2 DEF Accepting, Told
<1>3. PICK m \in sent : m.type = "reject" /\ m.thid = t
  BY <1>1, <1>2 DEF AskerKnows, Rejected
<1>4. /\ job[p]["Inbox"] # None /\ job[p]["Inbox"].kind = "Accept" /\ job[p]["Inbox"].st # "failed"
      /\ job[p]["Inbox"].id = t /\ job[p]["Inbox"].peer = q
  BY <1>1, <1>3 DEF Accepting, AnswerTypes
<1>5. job[p]["Inbox"].st # "run"
  BY <1>1, <1>3, <1>4 DEF Inv, AnsweredOnce, JobsUnanswered, AnswerTypes
<1>6. job[p]["Inbox"] \in JobType
  BY <1>1, <1>4 DEF Inv, Kept, Typed, JobsTyped, Domains
<1>7. job[p]["Inbox"].st = "sent" /\ "Inbox" \in Domains
  BY <1>4, <1>5, <1>6 DEF JobType, Domains
<1>8. PICK n \in sent : n.type = "accept" /\ n.thid = t
  BY <1>1, <1>4, <1>7 DEF Inv, Origins, JobsFollow, SentBy
<1> QED BY <1>1, <1>3, <1>8 DEF Inv, AnsweredOnce, OneAnswer, AnswerTypes

LEMMA NotBothKept ==
    ASSUME Inv', AskerKnows', NotBoth, spoiled \subseteq spoiled',
           \A p, q \in Parties, t \in Nat : t \notin spoiled' /\ Accepting(p, q, t)' =>
               Accepting(p, q, t) \/ db'[p].rel[q] = None
    PROVE  NotBoth'
<1>1. Inv' /\ AskerKnows' => Met'
  BY AcceptingMeets, PTL
<1>2. ASSUME NEW p \in Parties, NEW q \in Parties, NEW t \in Nat, t \notin spoiled', Accepting(p, q, t)'
      PROVE  db'[q].rel[p] # None
  BY <1>1, <1>2 DEF Met, Begun, At
<1>3. ASSUME NEW p \in Parties, NEW q \in Parties, NEW t \in Nat, NEW u \in Nat, t \notin spoiled', u \notin spoiled',
             Accepting(p, q, t)', Accepting(q, p, u)'
      PROVE  FALSE
  BY <1>2, <1>3 DEF NotBoth
<1> QED BY <1>3 DEF NotBoth

-----------------------------------------------------------------------------
LEMMA LocalTasks ==
    ASSUME TasksName, Local
    PROVE  TasksName'
  BY DEF TasksName, Local

LEMMA LocalJobs ==
    ASSUME TasksName, JobsName, Local
    PROVE  JobsName'
<1>1. ASSUME NEW p \in Parties, NEW j, NEW k, AcceptNames(sent, p, j), AcceptStep(p, j, k)
      PROVE  AcceptNames(sent, p, k)
  BY <1>1 DEF AcceptNames, AcceptStep, SameJob, TasksName
<1>2. ASSUME NEW p \in Parties, NEW j, NEW k, CreateNames(sent, p, j), CreateStep(j, k)
      PROVE  CreateNames(sent, p, k)
  BY <1>2 DEF CreateNames, CreateStep, SameJob
<1>3. ASSUME NEW p \in Parties
      PROVE  AcceptNames(sent', p, job'[p]["Inbox"]) /\ CreateNames(sent', p, job'[p]["Relationship"])
  BY <1>1, <1>2 DEF JobsName, Local
<1> QED BY <1>3 DEF JobsName

LEMMA LocalKnows ==
    ASSUME Inv, AskerKnows, AccepterKnows, Local
    PROVE  AskerKnows' /\ AccepterKnows'
<1>1. \A c, a \in Parties, t \in Nat, st \in States : t \notin spoiled' /\ At(db[c], a, t, st) => At(db'[c], a, t, st)
  BY DEF Local, At
<1>2. \A m \in sent : Owner(m.from) \in Parties /\ Owner(m.to) \in Parties /\ m.thid \in Nat
  BY Owners DEF Inv, Kept, Typed, MessagesTyped, GoodMsg, MsgType
<1>3. AskerKnows'
  BY <1>1, <1>2 DEF AskerKnows, Begun, Local, States
<1>4. ASSUME NEW m \in sent, m.type = "accept", m.thid \notin spoiled', NEW a, a = Owner(m.from), NEW c, c = Owner(m.to)
      PROVE  Taken(db'[a], c, m.thid) \/ AcceptSent(job'[a]["Inbox"], c, m.thid)
  <2>1. a \in Parties /\ c \in Parties /\ m.thid \in Nat /\ m.thid \notin spoiled
    BY <1>2, <1>4 DEF Local
  <2>2. CASE Taken(db[a], c, m.thid)
    BY <1>1, <1>4, <2>1, <2>2 DEF Taken, States
  <2>3. CASE AcceptSent(job[a]["Inbox"], c, m.thid)
    <3>1. AcceptStep(a, job[a]["Inbox"], job'[a]["Inbox"])
      BY <2>1 DEF Local
    <3> QED BY <1>4, <2>3, <3>1 DEF AcceptStep, AcceptSent, Taken
  <2> QED BY <1>4, <2>1, <2>2, <2>3 DEF AccepterKnows
<1>5. AccepterKnows'
  BY <1>4 DEF AccepterKnows, Local
<1> QED BY <1>3, <1>5

(* A record of one's own outcome: its DID is the one that was sent. *)
LEMMA OutcomeNames ==
    ASSUME Inv, JobsName, RecordsName, NEW p \in Parties, NEW q \in Parties, NEW r, r = db[p].rel[q], r # None,
           r.task \notin spoiled, NEW s, NEW j, j = job[p]["Relationship"],
           j # None, j.kind = "Create", j.st = "sent", j.peer = q,
           s.task = r.task, s.st = r.st, s.remote = r.remote, s.our = j.our,
           NEW more, crossed \subseteq more, s.task # j.id => s.task \in more, NEW creating \in BOOLEAN
    PROVE  RecordNames(sent, p, q, s, creating, more)
<1>1. Offered(sent, "request", p, q, j.id, j.our) /\ p # q
  BY DEF JobsName, CreateNames, Inv, Kept, Typed, JobsTyped, GoodJob, Domains
<1>2. r.st = "RequestSent" => s.task = j.id
  BY DEF Inv, Kept, Latest
<1>3. RecordNames(sent, p, q, r, CreatingId(p, q, r.task), crossed)
  BY DEF RecordsName
<1>4. s.task = j.id => ~TheirsAsked(sent, p, q, r)
  BY <1>1 DEF TheirsAsked, Offered, Inv, Origins, OneStart, AskTypes
<1>5. s.task = j.id => OurAsked(sent, p, q, s)
  BY <1>1 DEF OurAsked
<1>6. TheirsAsked(sent, p, q, r) => TheirsAsked(sent, p, q, s)
  BY DEF TheirsAsked
<1>7. TheirsAccepted(sent, p, q, r) => TheirsAccepted(sent, p, q, s)
  BY DEF TheirsAccepted
<1>8. s.task # j.id => s.task \in more /\ OurAccepted(sent, p, q, s, more)
  BY DEF OurAccepted
<1>9. CASE s.task = j.id
  BY <1>3, <1>4, <1>5, <1>6, <1>7, <1>9 DEF RecordNames
<1>10. CASE s.task # j.id
  BY <1>2, <1>3, <1>6, <1>7, <1>8, <1>10 DEF RecordNames
<1> QED BY <1>9, <1>10

LEMMA LocalRecords ==
    ASSUME Inv, JobsName, RecordsName, Local
    PROVE  RecordsName'
<1>1. ASSUME NEW p \in Parties, NEW q \in Parties, NEW s, s = db'[p].rel[q], s # None, s.task \notin spoiled'
      PROVE  RecordNames(sent, p, q, s, CreatingStill(p, q, s.task), crossed')
  <2>1. PICK r : r = db[p].rel[q]
    OBVIOUS
  <2>2. RecordStep(p, q, r, s) /\ s.task \notin spoiled /\ crossed \subseteq crossed'
    BY <1>1, <2>1 DEF Local
  <2>3. CASE s = r /\ (CreatingId(p, q, s.task) => CreatingStill(p, q, s.task))
    <3>1. RecordNames(sent, p, q, s, CreatingId(p, q, s.task), crossed)
      BY <1>1, <2>1, <2>2, <2>3 DEF RecordsName
    <3>2. CreatingId(p, q, s.task) \in BOOLEAN /\ CreatingStill(p, q, s.task) \in BOOLEAN
      BY DEF CreatingId, CreatingStill
    <3> QED BY <2>2, <2>3, <3>1, <3>2, RecordNamesMore
  <2>4. CASE s.st = "RequestSent" /\ CreatingStill(p, q, s.task)
    BY <2>4 DEF RecordNames
  <2>5. CASE /\ AcceptSent(job[p]["Inbox"], q, s.task) /\ s.st = "RequestAccepted"
             /\ s.our = job[p]["Inbox"].our /\ s.remote = job[p]["Inbox"].theirs
    <3>1. AcceptNames(sent, p, job[p]["Inbox"])
      BY DEF JobsName
    <3> QED BY <2>5, <3>1 DEF AcceptNames, AcceptSent, RecordNames, TheirsAsked, OurAccepted
  <2>6. CASE /\ r # None /\ s.task = r.task /\ s.st = r.st /\ s.remote = r.remote
             /\ job[p]["Relationship"] # None /\ job[p]["Relationship"].kind = "Create"
             /\ job[p]["Relationship"].st = "sent" /\ job[p]["Relationship"].peer = q
             /\ s.our = job[p]["Relationship"].our
             /\ s.task # job[p]["Relationship"].id => s.task \in crossed'
    <3>1. CreatingStill(p, q, s.task) \in BOOLEAN
      BY DEF CreatingStill
    <3>2. r.task \notin spoiled
      BY <2>2, <2>6
    <3> QED BY <2>1, <2>2, <2>6, <3>1, <3>2, OutcomeNames
  <2> QED BY <1>1, <2>2, <2>3, <2>4, <2>5, <2>6 DEF RecordStep
<1>2. sent' = sent
  BY DEF Local
<1>3. ASSUME NEW p \in Parties, NEW q \in Parties, db'[p].rel[q] # None, db'[p].rel[q].task \notin spoiled'
      PROVE  RecordNames(sent', p, q, db'[p].rel[q], CreatingId(p, q, db[p].rel[q].task)', crossed')
  <2>1. CreatingId(p, q, db[p].rel[q].task)' = CreatingStill(p, q, db'[p].rel[q].task)
    BY DEF CreatingId, CreatingStill
  <2> QED BY <1>1, <1>2, <1>3, <2>1
<1> QED BY <1>3 DEF RecordsName

LEMMA LocalNotBoth ==
    ASSUME Inv, Inv', AskerKnows', NotBoth, Local
    PROVE  NotBoth'
<1>1. ASSUME NEW p \in Parties, NEW q \in Parties, NEW t \in Nat, t \notin spoiled', Accepting(p, q, t)'
      PROVE  Accepting(p, q, t)
  <2>1. t \notin spoiled /\ sent' = sent
    BY <1>1 DEF Local
  <2>2. CASE /\ \E x \in db'[p].tasks : x.kind = "RequestIn" /\ x.id = t /\ x.peer = q
             /\ \A m \in sent : m.type \in AnswerTypes => m.thid # t
    BY <2>2 DEF Local, Accepting
  <2>3. CASE /\ job'[p]["Inbox"] # None /\ job'[p]["Inbox"].kind = "Accept" /\ job'[p]["Inbox"].st # "failed"
             /\ job'[p]["Inbox"].id = t /\ job'[p]["Inbox"].peer = q
    <3>1. AcceptStep(p, job[p]["Inbox"], job'[p]["Inbox"])
      BY DEF Local
    <3>2. CASE SameJob(job[p]["Inbox"], job'[p]["Inbox"]) /\ job'[p]["Inbox"].st = job[p]["Inbox"].st
      BY <2>3, <3>2 DEF SameJob, Accepting
    <3>3. CASE job[p]["Inbox"] = None
      <4>1. PICK x \in db[p].tasks : x.kind = "RequestIn" /\ x.id = t /\ x.peer = q
        BY <2>3, <3>1, <3>3 DEF AcceptStep, SameJob
      <4>2. \A m \in sent : m.type \in AnswerTypes => m.thid # t
        BY <2>1, <3>3, <4>1 DEF Inv, AnsweredOnce, TasksUnanswered, InKinds
      <4> QED BY <4>1, <4>2 DEF Accepting
    <3> QED BY <2>3, <3>1, <3>2, <3>3 DEF AcceptStep
  <2> QED BY <1>1, <2>1, <2>2, <2>3 DEF Accepting
<1>2. spoiled \subseteq spoiled'
  BY DEF Local
<1> QED BY <1>1, <1>2, NotBothKept

LEMMA LocalKeeps ==
    ASSUME Inv, Inv', Channels, Local
    PROVE  Channels'
<1>1. TasksName' /\ JobsName'
  BY LocalTasks, LocalJobs DEF Channels
<1>2. AskerKnows' /\ AccepterKnows'
  BY LocalKnows DEF Channels
<1>3. RecordsName'
  BY LocalRecords DEF Channels
<1>4. NotBoth'
  BY <1>2, LocalNotBoth DEF Channels
<1> QED BY <1>1, <1>2, <1>3, <1>4 DEF Channels

-----------------------------------------------------------------------------
(* The steps that are. *)
LEMMA LocalOne ==
    ASSUME NEW p \in Parties, sent' = sent, spoiled \subseteq spoiled', crossed \subseteq crossed',
           OthersSame(p), \A c \in Parties, m \in Domains : c # p => job'[c][m] = job[c][m],
           \A t \in db'[p].tasks : t.kind = "RequestIn" => t \in db[p].tasks,
           \A a \in Parties : RecordStep(p, a, db[p].rel[a], db'[p].rel[a]),
           \A a \in Parties : db[p].rel[a] # None /\ db[p].rel[a].task \notin spoiled' =>
               /\ db'[p].rel[a] # None /\ db'[p].rel[a].task = db[p].rel[a].task
               /\ db'[p].rel[a].st = db[p].rel[a].st,
           AcceptStep(p, job[p]["Inbox"], job'[p]["Inbox"]),
           CreateStep(job[p]["Relationship"], job'[p]["Relationship"])
    PROVE  Local
<1>1. \A c \in Parties : c # p =>
        /\ db'[c] = db[c] /\ job'[c]["Inbox"] = job[c]["Inbox"] /\ job'[c]["Relationship"] = job[c]["Relationship"]
  BY DEF OthersSame, Domains
<1>2. ASSUME NEW c \in Parties, c # p
      PROVE  /\ \A a \in Parties : RecordStep(c, a, db[c].rel[a], db'[c].rel[a])
             /\ AcceptStep(c, job[c]["Inbox"], job'[c]["Inbox"])
             /\ CreateStep(job[c]["Relationship"], job'[c]["Relationship"])
  BY <1>1, <1>2 DEF RecordStep, AcceptStep, CreateStep, SameJob, CreatingId, CreatingStill
<1>3. \A c, a \in Parties : RecordStep(c, a, db[c].rel[a], db'[c].rel[a])
  BY <1>2
<1>4. \A c \in Parties : /\ AcceptStep(c, job[c]["Inbox"], job'[c]["Inbox"])
                         /\ CreateStep(job[c]["Relationship"], job'[c]["Relationship"])
  BY <1>2
<1>5. \A c \in Parties : \A t \in db'[c].tasks : t.kind = "RequestIn" => t \in db[c].tasks
  BY <1>1
<1>6. \A c, a \in Parties : db[c].rel[a] # None /\ db[c].rel[a].task \notin spoiled' =>
         db'[c].rel[a] # None /\ db'[c].rel[a].task = db[c].rel[a].task /\ db'[c].rel[a].st = db[c].rel[a].st
  BY <1>1
<1> QED BY <1>3, <1>4, <1>5, <1>6 DEF Local

(* An account's jobs and records that stay as they are. *)
LEMMA JobStays ==
    ASSUME NEW c, NEW j, NEW k, k = j
    PROVE  AcceptStep(c, j, k) /\ CreateStep(j, k)
  BY DEF AcceptStep, CreateStep, SameJob

LEMMA JobGoes ==
    ASSUME NEW c, NEW j, NEW k, k = None
    PROVE  /\ CreateStep(j, k)
           /\ (j # None /\ j.kind = "Accept" /\ j.st = "sent" => j.id \in spoiled') => AcceptStep(c, j, k)
  BY DEF AcceptStep, CreateStep

LEMMA RecordStays ==
    ASSUME NEW c, NEW a, NEW r, NEW s, s = r, NEW j, NEW k, j = job[c]["Relationship"], k = job'[c]["Relationship"],
           \/ k = j \/ j = None \/ j.kind # "Create" \/ j.id \in spoiled' \/ (k # None /\ SameJob(j, k))
    PROVE  RecordStep(c, a, r, s)
  BY DEF RecordStep, CreatingId, CreatingStill, SameJob

LEMMA MovesLocal ==
    ASSUME Moves
    PROVE  Local
<1>1. /\ UNCHANGED <<db, job, sent, crossed>> /\ spoiled \subseteq spoiled'
  BY DEF Moves
<1> QED BY <1>1 DEF Local, RecordStep, AcceptStep, CreateStep, SameJob, CreatingId, CreatingStill

LEMMA SubmitRequestLocal ==
    ASSUME Inv, NEW p \in Parties, NEW q \in Parties, NEW our \in {persona(p), RDid(p, nextId)}, SubmitRequest(p, q, our)
    PROVE  Local
<1>1. /\ Typed' /\ q # p /\ job[p]["Relationship"] = None
      /\ \E r \in RelType :
           /\ r.task = nextId /\ r.our = persona(p) /\ r.remote = persona(q) /\ r.st = "RequestSent"
           /\ db'[p].rel = [db[p].rel EXCEPT ![q] = r]
      /\ db'[p].tasks = db[p].tasks /\ OthersSame(p) /\ saved' = saved
      /\ job'[p]["Relationship"] # None /\ job'[p]["Relationship"].kind = "Create"
      /\ job'[p]["Relationship"].peer = q /\ job'[p]["Relationship"].id = nextId
      /\ job'[p]["Relationship"].st = "run"
      /\ JobsElse(p, "Relationship")
      /\ nextId' = nextId + 1 /\ Unsent /\ UNCHANGED <<epoch, early, crossed>>
      /\ spoiled' = IF db[p].rel[q] = None THEN spoiled ELSE spoiled \cup {db[p].rel[q].task}
  BY SubmitRequestIs DEF Inv, Kept
<1>2. PICK r \in RelType : r.task = nextId /\ r.st = "RequestSent" /\ db'[p].rel = [db[p].rel EXCEPT ![q] = r]
  BY <1>1
<1>3. db'[p].rel[q] = r /\ \A a \in Parties : a # q => db'[p].rel[a] = db[p].rel[a]
  BY <1>2, OneRel
<1>4. spoiled \subseteq spoiled' /\ (db[p].rel[q] = None \/ db[p].rel[q].task \in spoiled')
  BY <1>1
<1>5. /\ \A c \in Parties, m \in Domains : c # p => job'[c][m] = job[c][m]
      /\ job'[p]["Inbox"] = job[p]["Inbox"]
  BY <1>1 DEF JobsElse, Domains
<1>6. RecordStep(p, q, db[p].rel[q], db'[p].rel[q])
  BY <1>1, <1>2, <1>3 DEF RecordStep, CreatingStill
<1>7. \A a \in Parties : a # q => RecordStep(p, a, db[p].rel[a], db'[p].rel[a])
  BY <1>1, <1>3, RecordStays
<1>8. /\ AcceptStep(p, job[p]["Inbox"], job'[p]["Inbox"])
      /\ CreateStep(job[p]["Relationship"], job'[p]["Relationship"])
  BY <1>1, <1>5, JobStays DEF CreateStep
<1>9. \A a \in Parties : RecordStep(p, a, db[p].rel[a], db'[p].rel[a])
  BY <1>6, <1>7
<1>10. \A a \in Parties : db[p].rel[a] # None /\ db[p].rel[a].task \notin spoiled' =>
         db'[p].rel[a] # None /\ db'[p].rel[a].task = db[p].rel[a].task /\ db'[p].rel[a].st = db[p].rel[a].st
  BY <1>3, <1>4
<1>11. sent' = sent /\ crossed \subseteq crossed' /\ OthersSame(p) /\ db'[p].tasks = db[p].tasks
  BY <1>1 DEF Unsent
<1> QED BY <1>4, <1>5, <1>8, <1>9, <1>10, <1>11, LocalOne

(* A job that starts on what is on record. *)
LEMMA SubmitLocal ==
    ASSUME Inv, NEW p \in Parties, NEW q \in Parties,
           \/ SubmitOver(p, q, "Ping", "pings") \/ SubmitOver(p, q, "RequestVrc", "vrcs") \/ SubmitRemove(p, q)
    PROVE  Local
<1>1. /\ job[p]["Relationship"] = None /\ UNCHANGED <<db, sent, spoiled, crossed>>
      /\ job'[p]["Relationship"] # None /\ job'[p]["Relationship"].kind # "Create" /\ JobsElse(p, "Relationship")
  BY SubmitIs DEF Inv, Kept, Unsent
<1>2. /\ \A c \in Parties, m \in Domains : c # p => job'[c][m] = job[c][m]
      /\ job'[p]["Inbox"] = job[p]["Inbox"]
  BY <1>1 DEF JobsElse, Domains
<1>3. /\ AcceptStep(p, job[p]["Inbox"], job'[p]["Inbox"])
      /\ CreateStep(job[p]["Relationship"], job'[p]["Relationship"])
  BY <1>1, <1>2, JobStays DEF CreateStep
<1>4. \A a \in Parties : RecordStep(p, a, db[p].rel[a], db'[p].rel[a])
  BY <1>1, RecordStays
<1> QED BY <1>1, <1>2, <1>3, <1>4, LocalOne DEF OthersSame

LEMMA AnswerLocal ==
    ASSUME Inv, NEW p \in Parties, NEW t \in db[p].tasks,
           \/ \E our \in {persona(p), RDid(p, t.id)} : AnswerRequest(p, t, "Accept", our)
           \/ AnswerRequest(p, t, "Reject", None)
           \/ \E kind \in {"IssueVrc", "RejectVrc"} : AnswerVrcRequest(p, t, kind)
    PROVE  Local
<1>1. /\ job[p]["Inbox"] = None /\ UNCHANGED <<db, sent, spoiled, crossed>>
      /\ job'[p]["Inbox"] # None /\ job'[p]["Inbox"].peer = t.peer /\ job'[p]["Inbox"].id = t.id
      /\ job'[p]["Inbox"].st = "run" /\ AnswersTask(job'[p]["Inbox"].kind, t)
      /\ job'[p]["Inbox"].kind = "Accept" => job'[p]["Inbox"].theirs = t.did
      /\ JobsElse(p, "Inbox")
  BY AnswerIs DEF Inv, Kept, Unsent
<1>2. /\ \A c \in Parties, m \in Domains : c # p => job'[c][m] = job[c][m]
      /\ job'[p]["Relationship"] = job[p]["Relationship"]
  BY <1>1 DEF JobsElse, Domains
<1>3. AcceptStep(p, job[p]["Inbox"], job'[p]["Inbox"])
  BY <1>1 DEF AcceptStep, AnswersTask
<1>4. CreateStep(job[p]["Relationship"], job'[p]["Relationship"])
  BY <1>2, JobStays
<1>5. \A a \in Parties : RecordStep(p, a, db[p].rel[a], db'[p].rel[a])
  BY <1>1, <1>2, RecordStays
<1> QED BY <1>1, <1>2, <1>3, <1>4, <1>5, LocalOne DEF OthersSame

LEMMA LeaveLocal ==
    ASSUME Inv, NEW p \in Parties,
           \/ \E t \in db[p].tasks : AcceptVrc(p, t) \/ DropTasks(p, {t})
           \/ DropTasks(p, db[p].tasks)
    PROVE  Local
<1>1. /\ OthersSame(p) /\ db'[p].rel = db[p].rel /\ db'[p].tasks \subseteq db[p].tasks
      /\ spoiled \subseteq spoiled' /\ UNCHANGED <<job, sent, crossed>>
  BY LeaveIs DEF Inv, Kept, Unsent
<1>2. /\ AcceptStep(p, job[p]["Inbox"], job'[p]["Inbox"])
      /\ CreateStep(job[p]["Relationship"], job'[p]["Relationship"])
  BY <1>1, JobStays
<1>3. \A a \in Parties : RecordStep(p, a, db[p].rel[a], db'[p].rel[a])
  BY <1>1, RecordStays
<1> QED BY <1>1, <1>2, <1>3, LocalOne

(* Jobs that end without a word, or whose outcome is applied. *)
LEMMA AppliedElse ==
    ASSUME NEW p \in Parties, NEW domain \in Domains, JobsElse(p, domain)
    PROVE  /\ \A c \in Parties, m \in Domains : c # p => job'[c][m] = job[c][m]
           /\ domain = "Inbox" => job'[p]["Relationship"] = job[p]["Relationship"]
           /\ domain = "Relationship" => job'[p]["Inbox"] = job[p]["Inbox"]
  BY DEF JobsElse, Domains

LEMMA JobStopsLocal ==
    ASSUME Inv, NEW p \in Parties, NEW domain \in Domains, JobFails(p, domain) \/ JobPanics(p, domain)
    PROVE  Local
<1>1. PICK j, k : j = job[p][domain] /\ k = job'[p][domain]
  OBVIOUS
<1>2. /\ j # None /\ j.st = "run" /\ JobsElse(p, domain)
      /\ k = None \/ (k # None /\ k.st = "failed" /\ k.kind = j.kind /\ k.id = j.id /\ k.peer = j.peer
                        /\ k.our = j.our /\ k.theirs = j.theirs)
      /\ spoiled' = spoiled \cup {j.id} /\ Unsent /\ UNCHANGED <<db, crossed>>
  BY <1>1, JobStopsIs DEF Inv, Kept
<1>3. /\ \A c \in Parties, m \in Domains : c # p => job'[c][m] = job[c][m]
      /\ domain = "Inbox" => job'[p]["Relationship"] = job[p]["Relationship"]
      /\ domain = "Relationship" => job'[p]["Inbox"] = job[p]["Inbox"]
  BY <1>2, AppliedElse
<1>4. AcceptStep(p, j, k) /\ CreateStep(j, k)
  BY <1>2 DEF AcceptStep, CreateStep, SameJob
<1>5. /\ AcceptStep(p, job[p]["Inbox"], job'[p]["Inbox"])
      /\ CreateStep(job[p]["Relationship"], job'[p]["Relationship"])
  BY <1>1, <1>3, <1>4, JobStays DEF Domains
<1>6. \A a \in Parties : RecordStep(p, a, db[p].rel[a], db'[p].rel[a])
  BY <1>1, <1>2, <1>3, RecordStays DEF Domains
<1> QED BY <1>2, <1>3, <1>5, <1>6, LocalOne DEF OthersSame, Unsent

LEMMA ApplyCreateLocal ==
    ASSUME Inv, NEW p \in Parties, ApplyCreate(p)
    PROVE  Local
<1>1. PICK j : j = job[p]["Relationship"]
  OBVIOUS
<1>2. PICK q : q = j.peer
  OBVIOUS
<1>3. PICK r : r = db[p].rel[q]
  OBVIOUS
<1>4. /\ Applied(p, "Relationship", "sent") /\ j.kind = "Create" /\ spoiled' = spoiled
      /\ r = None => db'[p] = db[p]
      /\ r # None /\ r.st # "RequestSent" =>
           /\ db'[p].rel = [db[p].rel EXCEPT ![q] = Rel(r.task, j.our, r.remote, r.st)]
           /\ db'[p].tasks = db[p].tasks
      /\ r # None /\ r.st = "RequestSent" =>
           /\ db'[p].rel = [db[p].rel EXCEPT ![q] = Rel(j.id, j.our, r.remote, r.st)]
           /\ \E t \in TaskType : /\ t.id = j.id /\ t.kind = "RequestOut" /\ t.peer = q
                                  /\ db'[p].tasks = Less(db[p], j.id) \cup {t}
  BY <1>1, <1>2, <1>3, ApplyCreateIs DEF Inv, Kept
<1>5. crossed' = IF r # None /\ r.task # j.id THEN crossed \cup {r.task} ELSE crossed
  BY <1>1, <1>2, <1>3 DEF ApplyCreate
<1>6. /\ OthersSame(p) /\ sent' = sent /\ j # None /\ j.st = "sent" /\ job'[p]["Relationship"] = None
      /\ JobsElse(p, "Relationship") /\ "Relationship" \in Domains
  BY <1>1, <1>2, <1>3, <1>4 DEF Applied, Unsent, Domains
<1>7. /\ \A c \in Parties, m \in Domains : c # p => job'[c][m] = job[c][m]
      /\ job'[p]["Inbox"] = job[p]["Inbox"]
  BY <1>6, AppliedElse
<1>8. /\ AcceptStep(p, job[p]["Inbox"], job'[p]["Inbox"])
      /\ CreateStep(job[p]["Relationship"], job'[p]["Relationship"])
  BY <1>6, <1>7, JobStays, JobGoes
<1>9. \A t \in db'[p].tasks : t.kind = "RequestIn" => t \in db[p].tasks
  BY <1>4 DEF Less
<1>10. q \in Parties /\ j.id \in Nat /\ j.our \in Dids /\ db[p].rel \in [Parties -> RelType \cup {None}]
  <2>1. GoodJob(j, p) /\ j \in JobType
    BY <1>1, <1>2, <1>3, <1>6 DEF Inv, Kept, Typed, JobsTyped
  <2> QED BY <1>1, <1>2, <1>3, <1>4, <2>1, RecordFacts DEF GoodJob, JobType
<1>11. db[p].rel[q] # None /\ db[p].rel[q].st = "RequestSent" => db[p].rel[q].task = j.id
  BY <1>1, <1>2, <1>3, <1>4, <1>6, <1>10 DEF Inv, Kept, Latest
<1>12. CASE db[p].rel[q] = None
  <2>1. \A a \in Parties : RecordStep(p, a, db[p].rel[a], db'[p].rel[a])
    <3>1. db'[p] = db[p]
      BY <1>3, <1>4, <1>12
    <3>2. \A a \in Parties : db[p].rel[a] # None => a # q
      BY <1>12
    <3>3. \A a \in Parties : db[p].rel[a] # None => ~CreatingId(p, a, db[p].rel[a].task)
      BY <1>1, <1>2, <3>2 DEF CreatingId
    <3> QED BY <3>1, <3>3 DEF RecordStep
  <2>2. \A a \in Parties : db'[p].rel[a] = db[p].rel[a]
    BY <1>3, <1>4, <1>12
  <2>3. crossed \subseteq crossed' /\ spoiled \subseteq spoiled'
    BY <1>4, <1>5
  <2> QED BY <1>6, <1>7, <1>8, <1>9, <2>1, <2>2, <2>3, LocalOne
<1>13. CASE db[p].rel[q] # None
  <2>1. r = db[p].rel[q]
    BY <1>3
  <2>2. PICK s : s = Rel(r.task, j.our, r.remote, r.st)
    OBVIOUS
  <2>3. r \in RelType /\ r # None
    BY <1>10, <1>13, <2>1
  <2>4. s \in RelType /\ s # None /\ s.task = r.task /\ s.our = j.our /\ s.remote = r.remote /\ s.st = r.st
    BY <1>10, <2>2, <2>3, RelParts DEF RelType
  <2>5. db'[p].rel = [db[p].rel EXCEPT ![q] = s]
    BY <1>4, <1>11, <1>13, <2>1, <2>2
  <2>6. db'[p].rel[q] = s /\ \A a \in Parties : a # q => db'[p].rel[a] = db[p].rel[a]
    BY <1>10, <2>5
  <2>7. RecordStep(p, q, db[p].rel[q], db'[p].rel[q])
    <3>1. s.task # j.id => s.task \in crossed'
      BY <1>5, <1>13, <2>1, <2>4
    <3> QED BY <1>1, <1>2, <1>3, <1>4, <1>6, <2>1, <2>3, <2>4, <2>6, <3>1 DEF RecordStep
  <2>8. \A a \in Parties : a # q => RecordStep(p, a, db[p].rel[a], db'[p].rel[a])
    BY <1>1, <1>2, <1>3, <2>6 DEF RecordStep, CreatingId
  <2>9. \A a \in Parties : RecordStep(p, a, db[p].rel[a], db'[p].rel[a])
    BY <2>7, <2>8
  <2>10. \A a \in Parties : db[p].rel[a] # None /\ db[p].rel[a].task \notin spoiled' =>
           db'[p].rel[a] # None /\ db'[p].rel[a].task = db[p].rel[a].task /\ db'[p].rel[a].st = db[p].rel[a].st
    BY <2>1, <2>4, <2>6
  <2>11. crossed \subseteq crossed' /\ spoiled \subseteq spoiled'
    BY <1>4, <1>5
  <2> QED BY <1>6, <1>7, <1>8, <1>9, <2>9, <2>10, <2>11, LocalOne
<1> QED BY <1>12, <1>13

(* The outcome clears the record, or leaves it. *)
LEMMA CutLocal ==
    ASSUME Inv, NEW p \in Parties, NEW domain \in Domains, NEW st, Applied(p, domain, st),
           NEW j, j = job[p][domain], NEW q \in Parties, j.kind = "Create" => q = j.peer,
           ~(j.kind = "Accept" /\ j.st = "sent"),
           db'[p].rel = db[p].rel \/ db'[p].rel = [db[p].rel EXCEPT ![q] = None],
           \A t \in db'[p].tasks : t.kind = "RequestIn" => t \in db[p].tasks,
           spoiled \subseteq spoiled', db'[p].rel = db[p].rel \/ db[p].rel[q] = None \/ db[p].rel[q].task \in spoiled',
           j.kind = "Create" => db[p].rel[q] = None \/ db[p].rel[q].task \in spoiled',
           crossed' = crossed
    PROVE  Local
<1>1. /\ OthersSame(p) /\ sent' = sent /\ j # None /\ job'[p][domain] = None /\ JobsElse(p, domain)
  BY DEF Applied, Unsent
<1>2. /\ \A c \in Parties, m \in Domains : c # p => job'[c][m] = job[c][m]
      /\ domain = "Inbox" => job'[p]["Relationship"] = job[p]["Relationship"]
      /\ domain = "Relationship" => job'[p]["Inbox"] = job[p]["Inbox"]
  BY <1>1, AppliedElse
<1>3. /\ AcceptStep(p, job[p]["Inbox"], job'[p]["Inbox"])
      /\ CreateStep(job[p]["Relationship"], job'[p]["Relationship"])
  BY <1>1, <1>2, JobStays, JobGoes DEF Domains
<1>4. \A a \in Parties : \/ db'[p].rel[a] = db[p].rel[a]
                         \/ a = q /\ db'[p].rel[a] = None /\ (db[p].rel[a] = None \/ db[p].rel[a].task \in spoiled')
  BY RecordFacts
<1>5. ASSUME NEW a \in Parties PROVE RecordStep(p, a, db[p].rel[a], db'[p].rel[a])
  <2>1. CASE db'[p].rel[a] = None
    BY <2>1 DEF RecordStep
  <2>2. CASE db'[p].rel[a] = db[p].rel[a] /\ j.kind = "Create" /\ domain = "Relationship"
    <3>1. CASE a = q
      BY <2>2, <3>1 DEF RecordStep
    <3>2. CASE a # q
      BY <2>2, <3>2 DEF RecordStep, CreatingId
    <3> QED BY <3>1, <3>2
  <2>3. CASE db'[p].rel[a] = db[p].rel[a] /\ ~(j.kind = "Create" /\ domain = "Relationship")
    BY <1>2, <2>3, RecordStays DEF Domains
  <2> QED BY <1>4, <2>1, <2>2, <2>3
<1>6. \A a \in Parties : db[p].rel[a] # None /\ db[p].rel[a].task \notin spoiled' =>
           db'[p].rel[a] # None /\ db'[p].rel[a].task = db[p].rel[a].task /\ db'[p].rel[a].st = db[p].rel[a].st
  BY <1>4
<1> QED BY <1>1, <1>2, <1>3, <1>5, <1>6, LocalOne

LEMMA ApplyCutLocal ==
    ASSUME Inv, NEW p \in Parties, ApplyCreateFailed(p) \/ ApplyRemove(p)
    PROVE  Local
<1>1. PICK j : j = job[p]["Relationship"]
  OBVIOUS
<1>2. PICK q : q = j.peer
  OBVIOUS
<1>3. "Relationship" \in Domains /\ Typed
  BY DEF Domains, Inv, Kept
<1>4. PICK st : /\ Applied(p, "Relationship", st) /\ q \in Parties /\ db'[p].tasks = db[p].tasks
                /\ db'[p].rel = db[p].rel \/ db'[p].rel = [db[p].rel EXCEPT ![q] = None]
                /\ spoiled' = (IF db[p].rel[q] # None THEN spoiled \cup {db[p].rel[q].task} ELSE spoiled)
                /\ crossed' = crossed
  <2>1. CASE ApplyCreateFailed(p)
    <3>1. /\ Applied(p, "Relationship", "failed") /\ q \in Parties
          /\ db'[p].tasks = db[p].tasks
          /\ \/ db'[p] = db[p]
             \/ db[p].rel[q] # None /\ db[p].rel[q].st = "RequestSent" /\ db'[p].rel = [db[p].rel EXCEPT ![q] = None]
          /\ spoiled' = (IF db[p].rel[q] # None THEN spoiled \cup {db[p].rel[q].task} ELSE spoiled)
          /\ crossed' = crossed
      BY <1>1, <1>2, <1>3, <2>1, ApplyCreateFailedIs
    <3>2. db'[p].rel = db[p].rel \/ db'[p].rel = [db[p].rel EXCEPT ![q] = None]
      BY <3>1
    <3> QED BY <3>1, <3>2
  <2>2. CASE ApplyRemove(p)
    <3>1. /\ Applied(p, "Relationship", "sent") /\ q \in Parties
          /\ db'[p].rel = [db[p].rel EXCEPT ![q] = None] /\ db'[p].tasks = db[p].tasks
          /\ spoiled' = (IF db[p].rel[q] # None THEN spoiled \cup {db[p].rel[q].task} ELSE spoiled)
          /\ crossed' = crossed
      BY <1>1, <1>2, <1>3, <2>2, ApplyRemoveIs
    <3> QED BY <3>1
  <2> QED BY <2>1, <2>2
<1>5. j.kind \in {"Create", "Remove"}
  BY <1>1 DEF ApplyCreateFailed, ApplyRemove
<1>6. spoiled \subseteq spoiled' /\ (db[p].rel[q] = None \/ db[p].rel[q].task \in spoiled')
  BY <1>4
<1>7. \A t \in db'[p].tasks : t.kind = "RequestIn" => t \in db[p].tasks
  BY <1>4
<1>8. ~(j.kind = "Accept" /\ j.st = "sent") /\ (j.kind = "Create" => q = j.peer)
  BY <1>2, <1>5
<1>9. db'[p].rel = db[p].rel \/ db[p].rel[q] = None \/ db[p].rel[q].task \in spoiled'
  BY <1>6
<1>10. j.kind = "Create" => db[p].rel[q] = None \/ db[p].rel[q].task \in spoiled'
  BY <1>6
<1> QED BY <1>1, <1>3, <1>4, <1>6, <1>7, <1>8, <1>9, <1>10, CutLocal

LEMMA ApplyKeepsLocal ==
    ASSUME Inv, NEW p \in Parties,
           \/ ApplyWaiting(p, "Ping", "Ping") \/ ApplyWaiting(p, "RequestVrc", "VrcRequestOut") \/ ApplyAnswered(p)
           \/ \E domain \in Domains : ApplyFailed(p, domain)
    PROVE  Local
<1>1. "Relationship" \in Domains /\ "Inbox" \in Domains /\ Typed
  BY DEF Domains, Inv, Kept
<1>2. ASSUME NEW kind, NEW task, (kind = "Ping" /\ task = "Ping") \/ (kind = "RequestVrc" /\ task = "VrcRequestOut"),
             ApplyWaiting(p, kind, task)
      PROVE  Local
  <2>1. PICK j : j = job[p]["Relationship"]
    OBVIOUS
  <2>2. /\ Applied(p, "Relationship", "sent") /\ j.kind = kind /\ db'[p].rel = db[p].rel
        /\ \E t \in TaskType : t.id = j.id /\ t.kind = task /\ t.peer = j.peer /\ db'[p].tasks = Less(db[p], j.id) \cup {t}
        /\ UNCHANGED <<spoiled, crossed>>
    BY <1>1, <1>2, <2>1, ApplyWaitingIs
  <2>3. \A t \in db'[p].tasks : t.kind = "RequestIn" => t \in db[p].tasks
    BY <1>2, <2>2 DEF Less
  <2>4. j.kind # "Create" /\ j.kind # "Accept"
    BY <1>2, <2>2
  <2> QED BY <1>1, <2>1, <2>2, <2>3, <2>4, CutLocal
<1>3. CASE ApplyAnswered(p)
  <2>1. PICK j : j = job[p]["Inbox"]
    OBVIOUS
  <2>2. /\ Applied(p, "Inbox", "sent") /\ j.kind \in {"Reject", "IssueVrc", "RejectVrc"}
        /\ db'[p].rel = db[p].rel /\ db'[p].tasks = Less(db[p], j.id)
        /\ UNCHANGED <<spoiled, crossed>>
    BY <1>1, <1>3, <2>1, ApplyAnsweredIs
  <2>3. \A t \in db'[p].tasks : t.kind = "RequestIn" => t \in db[p].tasks
    BY <2>2 DEF Less
  <2> QED BY <1>1, <2>1, <2>2, <2>3, CutLocal
<1>4. ASSUME NEW domain \in Domains, ApplyFailed(p, domain) PROVE Local
  <2>1. /\ Applied(p, domain, "failed") /\ db' = db /\ job[p][domain].kind # "Create" /\ UNCHANGED <<spoiled, crossed>>
    BY <1>1, <1>4, ApplyFailedIs
  <2>2. job[p][domain].st = "failed"
    BY <2>1 DEF Applied
  <2> QED BY <2>1, <2>2, CutLocal
<1> QED BY <1>2, <1>3, <1>4

LEMMA ApplyAcceptLocal ==
    ASSUME Inv, NEW p \in Parties, ApplyAccept(p)
    PROVE  Local
<1>1. PICK j, q : j = job[p]["Inbox"] /\ q = j.peer
  OBVIOUS
<1>2. /\ Applied(p, "Inbox", "sent") /\ j.kind = "Accept" /\ q \in Parties
      /\ AcceptRecorded(p, q, j) /\ db'[p].tasks = Less(db[p], j.id)
      /\ spoiled' = (IF db[p].rel[q] # None THEN spoiled \cup {db[p].rel[q].task} ELSE spoiled)
      /\ crossed' = crossed
  BY <1>1, ApplyAcceptIs DEF Inv, Kept
<1>3. /\ OthersSame(p) /\ sent' = sent /\ j # None /\ j.st = "sent" /\ job'[p]["Inbox"] = None
      /\ JobsElse(p, "Inbox") /\ "Inbox" \in Domains
  BY <1>1, <1>2 DEF Applied, Unsent, Domains
<1>4. /\ \A c \in Parties, m \in Domains : c # p => job'[c][m] = job[c][m]
      /\ job'[p]["Relationship"] = job[p]["Relationship"]
  BY <1>3, AppliedElse
<1>5. PICK s \in RelType : /\ s.task = j.id /\ s.our = j.our /\ s.remote = j.theirs /\ s.st = "RequestAccepted"
                           /\ db'[p].rel = [db[p].rel EXCEPT ![q] = s]
  BY <1>2 DEF AcceptRecorded
<1>6. db'[p].rel[q] = s /\ s # None /\ \A a \in Parties : a # q => db'[p].rel[a] = db[p].rel[a]
  BY <1>2, <1>5, RecordFacts, NoneElse
<1>7. spoiled \subseteq spoiled' /\ (db[p].rel[q] = None \/ db[p].rel[q].task \in spoiled')
  BY <1>2
<1>8. AcceptStep(p, job[p]["Inbox"], job'[p]["Inbox"])
  BY <1>1, <1>3, <1>5, <1>6 DEF AcceptStep, At
<1>9. CreateStep(job[p]["Relationship"], job'[p]["Relationship"])
  BY <1>4, JobStays
<1>10. RecordStep(p, q, db[p].rel[q], db'[p].rel[q])
  BY <1>1, <1>2, <1>3, <1>5, <1>6 DEF RecordStep, AcceptSent
<1>11. \A a \in Parties : RecordStep(p, a, db[p].rel[a], db'[p].rel[a])
  BY <1>4, <1>6, <1>10, RecordStays
<1>12. \A a \in Parties : db[p].rel[a] # None /\ db[p].rel[a].task \notin spoiled' =>
         db'[p].rel[a] # None /\ db'[p].rel[a].task = db[p].rel[a].task /\ db'[p].rel[a].st = db[p].rel[a].st
  BY <1>6, <1>7
<1>13. \A t \in db'[p].tasks : t.kind = "RequestIn" => t \in db[p].tasks
  BY <1>2 DEF Less
<1> QED BY <1>2, <1>3, <1>4, <1>7, <1>8, <1>9, <1>11, <1>12, <1>13, LocalOne

LEMMA RestartLocal ==
    ASSUME Inv, NEW p \in Parties, Restart(p)
    PROVE  Local
<1>1. /\ db'[p] = saved[p] /\ OthersSame(p)
      /\ \A m \in Domains : job'[p][m] = None
      /\ \A c \in Parties, m \in Domains : c # p => job'[c][m] = job[c][m]
      /\ UNCHANGED <<sent, crossed>>
      /\ spoiled \subseteq spoiled' /\ JobThreads(p) \subseteq spoiled'
  BY RestartIs DEF Inv, Kept
<1>2. \A m \in Domains : job[p][m] # None => job[p][m].id \in spoiled'
  BY <1>1 DEF JobThreads
<1>3. db'[p].tasks = db[p].tasks
  BY <1>1 DEF Inv, Kept, OnDisk
<1>4. "Relationship" \in Domains /\ "Inbox" \in Domains
  BY DEF Domains
<1>5. \A a \in Parties : \/ db'[p].rel[a] = db[p].rel[a]
                         \/ /\ db'[p].rel[a] = None \/ db'[p].rel[a].task \in spoiled'
                            /\ db[p].rel[a] = None \/ db[p].rel[a].task \in spoiled'
  BY <1>1, <1>2, <1>4 DEF Inv, Kept, OnDisk, CreatingId
<1>6. \A a \in Parties : RecordStep(p, a, db[p].rel[a], db'[p].rel[a])
  BY <1>2, <1>4, <1>5 DEF RecordStep, CreatingId
<1>7. \A a \in Parties : db[p].rel[a] # None /\ db[p].rel[a].task \notin spoiled' =>
         db'[p].rel[a] # None /\ db'[p].rel[a].task = db[p].rel[a].task /\ db'[p].rel[a].st = db[p].rel[a].st
  BY <1>5
<1>8. /\ AcceptStep(p, job[p]["Inbox"], job'[p]["Inbox"])
      /\ CreateStep(job[p]["Relationship"], job'[p]["Relationship"])
  BY <1>1, <1>2, <1>4, JobGoes
<1> QED BY <1>1, <1>3, <1>6, <1>7, <1>8, LocalOne

(* A job sends its message. *)
LEMMA SendsChannels ==
    ASSUME Inv, Inv', Channels, NEW p \in Parties, NEW domain \in Domains, JobSends(p, domain)
    PROVE  Channels'
<1>1. PICK j : j = job[p][domain]
  OBVIOUS
<1> DEFINE Q(S) ==
        /\ Sends(S)
        /\ \A x \in S :
             /\ GoodMsg(x) /\ x.thid = j.id /\ Owner(x.from) = p /\ Owner(x.to) = j.peer
             /\ SentBy(j.kind, x.type) /\ (x.type \in {"request", "accept"} => x.did = j.our)
        /\ j.kind # "Remove" => \E x \in S : TRUE
        /\ j.kind = "Remove" => S = {}
        /\ \A x, y \in S : x = y
<1>2. /\ j # None /\ j.st = "run" /\ JobsElse(p, domain)
      /\ job'[p][domain] # None /\ job'[p][domain].st = "sent" /\ job'[p][domain].kind = j.kind
      /\ job'[p][domain].id = j.id /\ job'[p][domain].peer = j.peer
      /\ job'[p][domain].our = j.our /\ job'[p][domain].theirs = j.theirs
      /\ \E S : Q(S)
      /\ UNCHANGED <<db, saved, held, seen, epoch, nextId, spoiled, early, crossed>>
  BY <1>1, JobSendsIs DEF Inv, Kept
<1>3. PICK S : Q(S)
  BY <1>2
<1>4. /\ sent' = sent \cup S
      /\ \A x \in S : /\ x.thid = j.id /\ Owner(x.from) = p /\ Owner(x.to) = j.peer /\ SentBy(j.kind, x.type)
                      /\ x.type \in {"request", "accept"} => x.did = j.our
      /\ j.kind # "Remove" => \E x \in S : TRUE
  BY <1>3 DEF Sends
<1> HIDE DEF Q
<1>5. \A c \in Parties, m \in Domains : c # p \/ m # domain => job'[c][m] = job[c][m]
  BY <1>2 DEF JobsElse
<1>6. /\ j.peer \in Parties /\ j.id \in Nat /\ "Inbox" \in Domains /\ "Relationship" \in Domains
      /\ (domain = "Inbox" => j.kind \in AnswerKinds) /\ (domain = "Relationship" => j.kind \in NewKinds \cup {"Remove"})
      /\ domain \in {"Inbox", "Relationship"}
  BY <1>1, <1>2, JobThere DEF Inv, Kept, Typed, Domains
<1>7. db' = db /\ spoiled' = spoiled /\ crossed' = crossed /\ sent \subseteq sent'
  BY <1>2, <1>4
<1>8. \A type, a, c, t, did : Offered(sent, type, a, c, t, did) => Offered(sent', type, a, c, t, did)
  BY <1>7, OfferedMore
<1>9. \A x \in S : /\ x.type = "accept" => j.kind = "Accept" /\ domain = "Inbox"
                   /\ x.type = "request" => j.kind = "Create" /\ domain = "Relationship"
                   /\ j.kind = "Accept" => x.type = "accept"
                   /\ j.kind = "Create" => x.type = "request"
  BY <1>4, <1>6 DEF SentBy, AnswerKinds, NewKinds
<1>10. TasksName'
  BY <1>7, <1>8 DEF Channels, TasksName
<1>11. JobsName'
  <2>1. ASSUME NEW c \in Parties PROVE AcceptNames(sent', c, job'[c]["Inbox"])
    <3>1. AcceptNames(sent, c, job[c]["Inbox"])
      BY DEF Channels, JobsName
    <3>2. CASE c = p /\ domain = "Inbox"
      <4>1. j.kind = "Accept" => Offered(sent', "request", j.peer, p, j.id, j.theirs)
        BY <1>1, <1>2, <1>8, <3>1, <3>2 DEF AcceptNames
      <4>2. j.kind = "Accept" => Offered(sent', "accept", p, j.peer, j.id, j.our)
        BY <1>4, <1>9 DEF Offered
      <4> QED BY <1>2, <3>2, <4>1, <4>2 DEF AcceptNames
    <3>3. CASE c # p \/ domain # "Inbox"
      BY <1>5, <1>6, <1>8, <3>1, <3>3 DEF AcceptNames
    <3> QED BY <3>2, <3>3
  <2>2. ASSUME NEW c \in Parties PROVE CreateNames(sent', c, job'[c]["Relationship"])
    <3>1. CreateNames(sent, c, job[c]["Relationship"])
      BY DEF Channels, JobsName
    <3>2. CASE c = p /\ domain = "Relationship"
      <4>1. j.kind = "Create" => Offered(sent', "request", p, j.peer, j.id, j.our)
        BY <1>4, <1>9 DEF Offered
      <4> QED BY <1>2, <3>2, <4>1 DEF CreateNames
    <3>3. CASE c # p \/ domain # "Relationship"
      BY <1>5, <1>6, <1>8, <3>1, <3>3 DEF CreateNames
    <3> QED BY <3>2, <3>3
  <2> QED BY <2>1, <2>2 DEF JobsName
<1>12. AskerKnows'
  <2>1. ASSUME NEW r \in sent, r.type = "request", r.thid \notin spoiled
        PROVE  Begun(db[Owner(r.from)], Owner(r.to), r.thid) \/ Rejected(sent', r.thid)
    BY <1>7, <2>1 DEF Channels, AskerKnows, Rejected
  <2>2. ASSUME NEW r \in S, r.type = "request", r.thid \notin spoiled
        PROVE  Begun(db[Owner(r.from)], Owner(r.to), r.thid)
    <3>1. j.kind = "Create" /\ domain = "Relationship" /\ r.thid = j.id /\ Owner(r.from) = p /\ Owner(r.to) = j.peer
      BY <1>4, <1>9, <2>2
    <3>2. At(db[p], j.peer, j.id, "RequestSent")
      BY <1>1, <1>2, <2>2, <3>1 DEF Inv, Asked
    <3> QED BY <3>1, <3>2 DEF Begun
  <2> QED BY <1>4, <1>7, <2>1, <2>2 DEF AskerKnows
<1>13. AccepterKnows'
  <2>1. ASSUME NEW m \in sent, m.type = "accept", m.thid \notin spoiled
        PROVE  \/ Taken(db[Owner(m.from)], Owner(m.to), m.thid)
               \/ AcceptSent(job'[Owner(m.from)]["Inbox"], Owner(m.to), m.thid)
    <3>1. Owner(m.from) \in Parties
      BY Owners DEF Inv, Kept, Typed, MessagesTyped, GoodMsg, MsgType
    <3>2. AcceptSent(job[Owner(m.from)]["Inbox"], Owner(m.to), m.thid) => ~(Owner(m.from) = p /\ domain = "Inbox")
      BY <1>1, <1>2 DEF AcceptSent
    <3>3. AcceptSent(job[Owner(m.from)]["Inbox"], Owner(m.to), m.thid) =>
             job'[Owner(m.from)]["Inbox"] = job[Owner(m.from)]["Inbox"]
      BY <1>5, <1>6, <3>1, <3>2
    <3> QED BY <2>1, <3>3 DEF Channels, AccepterKnows
  <2>2. ASSUME NEW m \in S, m.type = "accept"
        PROVE  AcceptSent(job'[Owner(m.from)]["Inbox"], Owner(m.to), m.thid)
    BY <1>2, <1>4, <1>9, <2>2 DEF AcceptSent
  <2> QED BY <1>4, <1>7, <2>1, <2>2 DEF AccepterKnows
<1>14. RecordsName'
  <2>1. ASSUME NEW a \in Parties, NEW c \in Parties, NEW t PROVE CreatingStill(a, c, t) <=> CreatingId(a, c, t)
    BY <1>1, <1>2, <1>5, <1>6 DEF CreatingStill, CreatingId
  <2>2. ASSUME NEW a \in Parties, NEW c \in Parties, NEW r, r = db[a].rel[c], r # None, r.task \notin spoiled
        PROVE  RecordNames(sent', a, c, r, CreatingStill(a, c, r.task), crossed)
    <3>1. RecordNames(sent, a, c, r, CreatingId(a, c, r.task), crossed)
      BY <2>2 DEF Channels, RecordsName
    <3>2. CreatingId(a, c, r.task) \in BOOLEAN /\ CreatingStill(a, c, r.task) \in BOOLEAN
      BY DEF CreatingId, CreatingStill
    <3>3. CreatingId(a, c, r.task) => CreatingStill(a, c, r.task)
      BY <2>1
    <3> QED BY <1>7, <3>1, <3>2, <3>3, RecordNamesMore
  <2>3. ASSUME NEW a \in Parties, NEW c \in Parties, db'[a].rel[c] # None, db'[a].rel[c].task \notin spoiled'
        PROVE  RecordNames(sent', a, c, db'[a].rel[c], CreatingId(a, c, db[a].rel[c].task)', crossed')
    <3>1. CreatingId(a, c, db[a].rel[c].task)' = CreatingStill(a, c, db'[a].rel[c].task)
      BY DEF CreatingId, CreatingStill
    <3> QED BY <1>7, <2>2, <2>3, <3>1
  <2> QED BY <2>3 DEF RecordsName
<1>15. NotBoth'
  <2>1. ASSUME NEW a \in Parties, NEW c \in Parties, NEW t \in Nat, Accepting(a, c, t)'
        PROVE  Accepting(a, c, t)
    <3>1. CASE /\ \E x \in db'[a].tasks : x.kind = "RequestIn" /\ x.id = t /\ x.peer = c
               /\ \A m \in sent' : m.type \in AnswerTypes => m.thid # t
      BY <1>7, <3>1 DEF Accepting
    <3>2. CASE /\ job'[a]["Inbox"] # None /\ job'[a]["Inbox"].kind = "Accept" /\ job'[a]["Inbox"].st # "failed"
               /\ job'[a]["Inbox"].id = t /\ job'[a]["Inbox"].peer = c
      <4>1. job[a]["Inbox"] # None /\ job[a]["Inbox"].kind = "Accept" /\ job[a]["Inbox"].st # "failed"
            /\ job[a]["Inbox"].id = t /\ job[a]["Inbox"].peer = c
        BY <1>1, <1>2, <1>5, <1>6, <3>2
      <4> QED BY <4>1 DEF Accepting
    <3> QED BY <2>1, <3>1, <3>2 DEF Accepting
  <2> QED BY <1>7, <1>12, <2>1, NotBothKept DEF Channels
<1> QED BY <1>10, <1>11, <1>12, <1>13, <1>14, <1>15 DEF Channels

-----------------------------------------------------------------------------
(* What handling a message does to the DIDs of a record. *)
RecordAfter(d, e, m, q, a) ==
    \/ e.rel[a] = d.rel[a]
    \/ a = q /\ m.type = "reject" /\ At(d, q, m.thid, "RequestSent") /\ e.rel[q] = None
    \/ /\ a = q /\ m.type = "accept" /\ At(d, q, m.thid, "RequestSent") /\ At(e, q, m.thid, "Established")
       /\ e.rel[q].our = d.rel[q].our /\ e.rel[q].remote = m.did
    \/ /\ a = q /\ m.type = "finalize" /\ At(d, q, m.thid, "RequestAccepted") /\ At(e, q, m.thid, "Established")
       /\ e.rel[q].our = d.rel[q].our /\ e.rel[q].remote = d.rel[q].remote
RequestAfter(d, e, m, q) ==
    \A t \in e.tasks : t.kind = "RequestIn" =>
        \/ t \in d.tasks
        \/ m.type = "request" /\ t.id = m.thid /\ t.peer = q /\ t.did = m.did /\ e.rel[q] = None

LEMMA HandledRecords ==
    ASSUME NEW p \in Parties, NEW d, GoodAccount(d, p), NEW m, GoodMsg(m), Owner(m.to) = p, NEW ok \in BOOLEAN,
           NEW q, q = Owner(m.from), NEW e, e = Handled(d, m, ok)
    PROVE  \A a \in Parties : RecordAfter(d, e, m, q, a)
<1>0. q \in Parties /\ m.thid \in Nat /\ d.rel \in [Parties -> RelType \cup {None}]
  BY Owners DEF GoodMsg, MsgType, GoodAccount, AccountType
<1>1. CASE m.type = "reject"
  <2>1. IF At(d, q, m.thid, "RequestSent") THEN e.rel = [d.rel EXCEPT ![q] = None] ELSE e = d
    BY <1>1, OnRejectedDoes DEF Handled
  <2> QED BY <1>0, <1>1, <2>1 DEF RecordAfter
<1>2. CASE m.type = "accept"
  <2>1. IF At(d, q, m.thid, "RequestSent") /\ ok
        THEN e.rel = [d.rel EXCEPT ![q] = Rel(m.thid, d.rel[q].our, m.did, "Established")] ELSE e = d
    BY <1>2, OnAcceptedDoes DEF Handled
  <2>2. CASE At(d, q, m.thid, "RequestSent") /\ ok
    <3>1. d.rel[q].our \in Dids /\ m.did \in Dids
      BY <1>0, <1>2, <2>2, NoneElse DEF At, GoodAccount, AccountType, RelType, GoodMsg
    <3>2. PICK r : r = Rel(m.thid, d.rel[q].our, m.did, "Established")
      OBVIOUS
    <3>3. r \in RelType /\ r # None /\ r.task = m.thid /\ r.st = "Established" /\ r.our = d.rel[q].our /\ r.remote = m.did
      BY <1>0, <3>1, <3>2, RelParts DEF States
    <3>4. e.rel = [d.rel EXCEPT ![q] = r]
      BY <2>1, <2>2, <3>2
    <3>5. e.rel[q] = r /\ \A a \in Parties : a # q => e.rel[a] = d.rel[a]
      BY <1>0, <3>4
    <3> QED BY <1>2, <2>2, <3>3, <3>5 DEF RecordAfter, At
  <2> QED BY <2>1, <2>2 DEF RecordAfter
<1>3. CASE m.type = "finalize"
  <2>1. IF At(d, q, m.thid, "RequestAccepted")
        THEN e.rel = [d.rel EXCEPT ![q] = Rel(m.thid, d.rel[q].our, d.rel[q].remote, "Established")] ELSE e = d
    BY <1>3, OnFinalizeDoes DEF Handled
  <2>2. CASE At(d, q, m.thid, "RequestAccepted")
    <3>1. d.rel[q].our \in Dids /\ d.rel[q].remote \in Dids
      BY <1>0, <2>2, NoneElse DEF At, GoodAccount, AccountType, RelType
    <3>2. PICK r : r = Rel(m.thid, d.rel[q].our, d.rel[q].remote, "Established")
      OBVIOUS
    <3>3. /\ r \in RelType /\ r # None /\ r.task = m.thid /\ r.st = "Established"
          /\ r.our = d.rel[q].our /\ r.remote = d.rel[q].remote
      BY <1>0, <3>1, <3>2, RelParts DEF States
    <3>4. e.rel = [d.rel EXCEPT ![q] = r]
      BY <2>1, <2>2, <3>2
    <3>5. e.rel[q] = r /\ \A a \in Parties : a # q => e.rel[a] = d.rel[a]
      BY <1>0, <3>4
    <3> QED BY <1>3, <2>2, <3>3, <3>5 DEF RecordAfter, At
  <2> QED BY <2>1, <2>2 DEF RecordAfter
<1>4. CASE e.rel = d.rel
  BY <1>4 DEF RecordAfter
<1>5. CASE m.type = "request"
  BY <1>4, <1>5, OnRequestDoes DEF Handled
<1>6. CASE m.type = "vrcRequest"
  BY <1>4, <1>6, OnVrcRequestDoes DEF Handled
<1>7. CASE m.type = "vrcReject"
  BY <1>4, <1>7, GoodLess DEF Handled, OnVrcRequestRejected
<1>8. CASE m.type = "vrc"
  BY <1>4, <1>8, OnVrcIssuedDoes DEF Handled
<1>9. CASE m.type = "ping"
  BY <1>4, <1>9, OnTrustPingDoes DEF Handled
<1>10. CASE m.type = "pong"
  BY <1>4, <1>10, GoodLess DEF Handled
<1> QED BY <1>1, <1>2, <1>3, <1>5, <1>6, <1>7, <1>8, <1>9, <1>10 DEF GoodMsg, MsgType, MsgKinds

LEMMA HandledRequests ==
    ASSUME NEW p \in Parties, NEW d, GoodAccount(d, p), NEW m, GoodMsg(m), Owner(m.to) = p, NEW ok \in BOOLEAN,
           NEW q, q = Owner(m.from), NEW e, e = Handled(d, m, ok)
    PROVE  RequestAfter(d, e, m, q)
<1>1. CASE m.type = "request"
  <2>1. \/ e = d
        \/ /\ d.rel[q] = None /\ e.rel = d.rel
           /\ \E t \in TaskType : /\ t.id = m.thid /\ t.kind = "RequestIn" /\ t.peer = q /\ t.did = m.did
                                  /\ e.tasks = d.tasks \cup {t}
    BY <1>1, OnRequestDoes DEF Handled
  <2> QED BY <1>1, <2>1 DEF RequestAfter
<1>2. CASE m.type # "request"
  <2>1. \A t \in e.tasks : t.kind \in InKinds => t \in d.tasks \/ TaskAsk(t.kind) = m.type
    BY HandledTasks
  <2> QED BY <1>2, <2>1 DEF RequestAfter, InKinds, TaskAsk
<1> QED BY <1>1, <1>2

LEMMA HandlesChannels ==
    ASSUME Inv, Inv', Channels, NEW p \in Parties, NEW m, NEW ok \in BOOLEAN, Handles(p, m, ok)
    PROVE  Channels'
<1>1. PICK d : d = db[p]
  OBVIOUS
<1>2. PICK e : e = db'[p]
  OBVIOUS
<1>3. PICK q : q = Owner(m.from)
  OBVIOUS
<1>4. /\ m \in sent /\ Owner(m.to) = p /\ OthersSame(p) /\ e = Handled(d, m, ok)
      /\ sent' = sent \cup Replies(p, d, m, ok)
      /\ job' = job /\ crossed' = crossed /\ spoiled \subseteq spoiled'
  BY <1>1, <1>2, Zenon DEF Handles, Open
<1>5. GoodMsg(m) /\ GoodAccount(d, p) /\ HistoryTyped /\ q \in Parties /\ m.thid \in Nat
  BY <1>1, <1>3, <1>4, Owners DEF Inv, Kept, Typed, MessagesTyped, AccountsTyped, GoodMsg, MsgType
<1>6. \A x \in Replies(p, d, m, ok) : x.type \in {"finalize", "pong"}
  BY <1>4, <1>5, RepliesAre
<1>7. sent \subseteq sent' /\ \A x \in sent' : x.type \in AnswerTypes \cup {"request"} => x \in sent
  BY <1>4, <1>6 DEF AnswerTypes
<1>8. \A a \in Parties : RecordAfter(d, e, m, q, a)
  BY <1>3, <1>4, <1>5, HandledRecords
<1>9. RequestAfter(d, e, m, q)
  BY <1>3, <1>4, <1>5, HandledRequests
<1>10. \A type, a, c, t, did : Offered(sent, type, a, c, t, did) => Offered(sent', type, a, c, t, did)
  BY <1>7, OfferedMore
<1>11. \A c \in Parties : c # p => db'[c] = db[c]
  BY <1>4 DEF OthersSame
<1>12. TasksName'
  <2>1. ASSUME NEW t \in e.tasks, t.kind = "RequestIn" PROVE Offered(sent', "request", t.peer, p, t.id, t.did)
    <3>1. CASE t \in d.tasks
      BY <1>1, <1>10, <2>1, <3>1 DEF Channels, TasksName
    <3>2. CASE m.type = "request" /\ t.id = m.thid /\ t.peer = q /\ t.did = m.did
      BY <1>3, <1>4, <1>7, <3>2 DEF Offered
    <3> QED BY <1>9, <2>1, <3>1, <3>2 DEF RequestAfter
  <2>2. ASSUME NEW c \in Parties, c # p, NEW t \in db'[c].tasks, t.kind = "RequestIn"
        PROVE  Offered(sent', "request", t.peer, c, t.id, t.did)
    BY <1>10, <1>11, <2>2 DEF Channels, TasksName
  <2> QED BY <1>2, <2>1, <2>2 DEF TasksName
<1>13. JobsName'
  BY <1>4, <1>10 DEF Channels, JobsName, AcceptNames, CreateNames
<1>14. AskerKnows'
  <2>1. ASSUME NEW r \in sent, r.type = "request", r.thid \notin spoiled'
        PROVE  Begun(db'[Owner(r.from)], Owner(r.to), r.thid) \/ Rejected(sent', r.thid)
    <3>1. Begun(db[Owner(r.from)], Owner(r.to), r.thid) \/ Rejected(sent, r.thid)
      BY <1>4, <2>1 DEF Channels, AskerKnows
    <3>2. Owner(r.from) \in Parties /\ Owner(r.to) \in Parties
      BY Owners DEF Inv, Kept, Typed, MessagesTyped, GoodMsg, MsgType
    <3>3. CASE Rejected(sent, r.thid)
      BY <1>7, <3>3 DEF Rejected
    <3>4. CASE Begun(db[Owner(r.from)], Owner(r.to), r.thid) /\ Owner(r.from) # p
      BY <1>11, <3>2, <3>4
    <3>5. CASE Begun(d, Owner(r.to), r.thid) /\ Owner(r.from) = p
      <4>1. Begun(e, Owner(r.to), r.thid) \/ Rejected(sent, r.thid)
        BY <1>4, <1>8, <3>2, <3>5 DEF RecordAfter, Begun, At, Rejected
      <4> QED BY <1>2, <3>3, <3>5, <4>1
    <3> QED BY <1>1, <3>1, <3>3, <3>4, <3>5
  <2> QED BY <1>7, <2>1 DEF AskerKnows
<1>15. AccepterKnows'
  <2>1. ASSUME NEW x \in sent, x.type = "accept", x.thid \notin spoiled'
        PROVE  \/ Taken(db'[Owner(x.from)], Owner(x.to), x.thid)
               \/ AcceptSent(job'[Owner(x.from)]["Inbox"], Owner(x.to), x.thid)
    <3>1. \/ Taken(db[Owner(x.from)], Owner(x.to), x.thid)
          \/ AcceptSent(job[Owner(x.from)]["Inbox"], Owner(x.to), x.thid)
      BY <1>4, <2>1 DEF Channels, AccepterKnows
    <3>2. Owner(x.from) \in Parties /\ Owner(x.to) \in Parties
      BY Owners DEF Inv, Kept, Typed, MessagesTyped, GoodMsg, MsgType
    <3>3. CASE Taken(db[Owner(x.from)], Owner(x.to), x.thid) /\ Owner(x.from) # p
      BY <1>11, <3>2, <3>3
    <3>4. CASE Taken(d, Owner(x.to), x.thid) /\ Owner(x.from) = p
      <4>1. Taken(e, Owner(x.to), x.thid)
        BY <1>8, <3>2, <3>4 DEF RecordAfter, Taken, At
      <4> QED BY <1>2, <3>4, <4>1
    <3> QED BY <1>1, <1>4, <3>1, <3>3, <3>4
  <2> QED BY <1>7, <2>1 DEF AccepterKnows, AnswerTypes
<1>16. RecordsName'
  <2>1. ASSUME NEW a \in Parties, NEW s, s = e.rel[a], s # None, s.task \notin spoiled'
        PROVE  RecordNames(sent', p, a, s, CreatingId(p, a, s.task), crossed)
    <3>1. PICK r : r = d.rel[a]
      OBVIOUS
    <3>2. CreatingId(p, a, s.task) \in BOOLEAN
      BY DEF CreatingId
    <3>3. r # None /\ r.task \notin spoiled => RecordNames(sent, p, a, r, CreatingId(p, a, r.task), crossed)
      BY <1>1, <3>1 DEF Channels, RecordsName
    <3>4. s.task \notin spoiled
      BY <1>4, <2>1
    <3>5. CASE s = r
      <4>1. RecordNames(sent, p, a, s, CreatingId(p, a, s.task), crossed)
        BY <2>1, <3>3, <3>4, <3>5
      <4> QED BY <1>7, <3>2, <4>1, RecordNamesMore
    <3>6. CASE /\ a = q /\ m.type = "accept" /\ At(d, q, m.thid, "RequestSent") /\ At(e, q, m.thid, "Established")
               /\ e.rel[q].our = d.rel[q].our /\ e.rel[q].remote = m.did
      <4>1. /\ r # None /\ r.task = s.task /\ r.st = "RequestSent" /\ s.st = "Established" /\ s.our = r.our
            /\ s.remote = m.did /\ s.task = m.thid
        BY <2>1, <3>1, <3>6 DEF At
      <4>2. CreatingId(p, a, s.task) \/ OurAsked(sent, p, a, r)
        BY <3>3, <3>4, <4>1 DEF RecordNames
      <4>3. OurAsked(sent, p, a, r) => OurAsked(sent', p, a, s)
        BY <1>10, <4>1 DEF OurAsked
      <4>4. TheirsAccepted(sent', p, a, s)
        BY <1>3, <1>4, <1>7, <3>6, <4>1 DEF TheirsAccepted, Offered
      <4> QED BY <4>1, <4>2, <4>3, <4>4 DEF RecordNames
    <3>7. CASE /\ a = q /\ m.type = "finalize" /\ At(d, q, m.thid, "RequestAccepted") /\ At(e, q, m.thid, "Established")
               /\ e.rel[q].our = d.rel[q].our /\ e.rel[q].remote = d.rel[q].remote
      <4>1. /\ r # None /\ r.task = s.task /\ r.st = "RequestAccepted" /\ s.st = "Established" /\ s.our = r.our
            /\ s.remote = r.remote
        BY <2>1, <3>1, <3>7 DEF At
      <4>2. TheirsAsked(sent, p, a, r) /\ OurAccepted(sent, p, a, r, crossed)
        BY <3>3, <3>4, <4>1 DEF RecordNames
      <4>3. TheirsAsked(sent', p, a, s) /\ OurAccepted(sent', p, a, s, crossed)
        BY <1>10, <4>1, <4>2 DEF TheirsAsked, OurAccepted
      <4> QED BY <4>1, <4>3 DEF RecordNames
    <3>8. RecordAfter(d, e, m, q, a)
      BY <1>8
    <3> QED BY <2>1, <3>1, <3>5, <3>6, <3>7, <3>8 DEF RecordAfter
  <2>2. ASSUME NEW c \in Parties, NEW a \in Parties, NEW s, s = db'[c].rel[a], s # None, s.task \notin spoiled'
        PROVE  RecordNames(sent', c, a, s, CreatingId(c, a, s.task), crossed)
    <3>1. CASE c = p
      BY <1>2, <2>1, <2>2, <3>1
    <3>2. CASE c # p
      <4>1. s = db[c].rel[a] /\ s.task \notin spoiled
        BY <1>4, <1>11, <2>2, <3>2
      <4>2. RecordNames(sent, c, a, s, CreatingId(c, a, s.task), crossed) /\ CreatingId(c, a, s.task) \in BOOLEAN
        BY <2>2, <4>1 DEF Channels, RecordsName, CreatingId
      <4> QED BY <1>7, <4>2, RecordNamesMore
    <3> QED BY <3>1, <3>2
  <2>3. ASSUME NEW c \in Parties, NEW a \in Parties, db'[c].rel[a] # None, db'[c].rel[a].task \notin spoiled'
        PROVE  RecordNames(sent', c, a, db'[c].rel[a], CreatingId(c, a, db[c].rel[a].task)', crossed')
    <3>1. CreatingId(c, a, db[c].rel[a].task)' = CreatingId(c, a, db'[c].rel[a].task)
      BY <1>4 DEF CreatingId
    <3> QED BY <1>4, <2>2, <2>3, <3>1
  <2> QED BY <2>3 DEF RecordsName
<1>17. NotBoth'
  <2>1. ASSUME NEW c \in Parties, NEW a \in Parties, NEW t \in Nat, Accepting(c, a, t)'
        PROVE  Accepting(c, a, t) \/ db'[c].rel[a] = None
    <3>1. ASSUME NEW x \in db'[c].tasks, x.kind = "RequestIn", x.id = t, x.peer = a,
                 \A n \in sent' : n.type \in AnswerTypes => n.thid # t
          PROVE  Accepting(c, a, t) \/ db'[c].rel[a] = None
      <4>1. x \in db[c].tasks \/ db'[c].rel[a] = None
        BY <1>1, <1>2, <1>9, <1>11, <3>1 DEF RequestAfter
      <4> QED BY <1>7, <3>1, <4>1 DEF Accepting
    <3>2. ASSUME job[c]["Inbox"] # None, job[c]["Inbox"].kind = "Accept", job[c]["Inbox"].st # "failed",
                 job[c]["Inbox"].id = t, job[c]["Inbox"].peer = a
          PROVE  Accepting(c, a, t)
      BY <3>2 DEF Accepting
    <3> QED BY <1>4, <2>1, <3>1, <3>2 DEF Accepting
  <2> QED BY <1>4, <1>14, <2>1, NotBothKept DEF Channels
<1> QED BY <1>12, <1>13, <1>14, <1>15, <1>16, <1>17 DEF Channels

-----------------------------------------------------------------------------
LEMMA InitChannels == Init => Channels
<1> SUFFICES ASSUME Init PROVE Channels
  OBVIOUS
<1>1. PICK e : e = EmptyDb
  OBVIOUS
<1>2. e.rel = [q \in Parties |-> None] /\ e.tasks = {}
  BY <1>1 DEF EmptyDb
<1>3. \A p \in Parties : db[p] = e
  BY <1>1 DEF Init
<1>4. \A p, q \in Parties : db[p].rel[q] = None /\ db[p].tasks = {}
  BY <1>2, <1>3
<1>5. sent = {} /\ \A p \in Parties, m \in Domains : job[p][m] = None
  BY DEF Init
<1>6. TasksName /\ JobsName
  BY <1>4, <1>5 DEF TasksName, JobsName, AcceptNames, CreateNames, Domains
<1>7. AskerKnows /\ AccepterKnows /\ RecordsName
  BY <1>4, <1>5 DEF AskerKnows, AccepterKnows, RecordsName
<1>8. NotBoth
  BY <1>4, <1>5 DEF NotBoth, Accepting, Domains
<1> QED BY <1>6, <1>7, <1>8 DEF Channels

LEMMA InboundChannels ==
    ASSUME Inv, Inv', Channels, Inbound
    PROVE  Channels'
<1>1. Typed /\ Once /\ FinalOnce
  BY DEF Inv, Kept
<1>2. Moves => Channels'
  BY MovesLocal, LocalKeeps
<1>3. ASSUME NEW p \in Parties, NEW m, NEW ok \in BOOLEAN, Handles(p, m, ok)
      PROVE  Channels'
  BY <1>3, HandlesChannels
<1>4. ASSUME NEW p \in Parties, NEW m \in net, Deliver(p, m)
      PROVE  Channels'
  BY <1>1, <1>2, <1>3, <1>4, DeliverIs
<1>5. ASSUME NEW p \in Parties, Return(p)
      PROVE  Channels'
  BY <1>1, <1>2, <1>3, <1>5, ReturnIs
<1>6. ASSUME NEW p \in Parties, CheckFails(p)
      PROVE  Channels'
  BY <1>1, <1>3, <1>6, CheckFailsIs
<1>7. (\E m \in net : Lose(m)) \/ (\E m \in sent : Redeliver(m)) => Channels'
  BY <1>1, <1>2, NetworkIs
<1> QED BY <1>4, <1>5, <1>6, <1>7, Zenon DEF Inbound

LEMMA UserLocal ==
    ASSUME Inv, NEW p \in Parties, User(p)
    PROVE  Local
<1>1. ASSUME NEW q \in Parties, NEW our \in {persona(p), RDid(p, nextId)}, SubmitRequest(p, q, our)
      PROVE  Local
  BY <1>1, SubmitRequestLocal
<1>2. ASSUME NEW q \in Parties,
             \/ SubmitOver(p, q, "Ping", "pings") \/ SubmitOver(p, q, "RequestVrc", "vrcs") \/ SubmitRemove(p, q)
      PROVE  Local
  BY <1>2, SubmitLocal
<1>3. ASSUME NEW t \in db[p].tasks,
             \/ \E our \in {persona(p), RDid(p, t.id)} : AnswerRequest(p, t, "Accept", our)
             \/ AnswerRequest(p, t, "Reject", None)
             \/ \E kind \in {"IssueVrc", "RejectVrc"} : AnswerVrcRequest(p, t, kind)
      PROVE  Local
  BY <1>3, AnswerLocal
<1>4. ASSUME \/ \E t \in db[p].tasks : AcceptVrc(p, t) \/ DropTasks(p, {t})
             \/ DropTasks(p, db[p].tasks)
      PROVE  Local
  BY <1>4, LeaveLocal
<1> QED BY <1>1, <1>2, <1>3, <1>4, Zenon DEF User

LEMMA BackgroundChannels ==
    ASSUME Inv, Inv', Channels, NEW p \in Parties, Background(p)
    PROVE  Channels'
<1>1. ASSUME NEW domain \in Domains, JobSends(p, domain) PROVE Channels'
  BY <1>1, SendsChannels
<1>2. ASSUME NEW domain \in Domains, JobFails(p, domain) \/ JobPanics(p, domain) PROVE Channels'
  BY <1>2, JobStopsLocal, LocalKeeps
<1>3. ASSUME NEW domain \in Domains, ApplyFailed(p, domain) PROVE Channels'
  BY <1>3, ApplyKeepsLocal, LocalKeeps
<1>4. ApplyCreate(p) => Channels'
  BY ApplyCreateLocal, LocalKeeps
<1>5. ApplyCreateFailed(p) => Channels'
  BY ApplyCutLocal, LocalKeeps
<1>6. ApplyRemove(p) => Channels'
  BY ApplyCutLocal, LocalKeeps
<1>7. ApplyWaiting(p, "Ping", "Ping") => Channels'
  BY ApplyKeepsLocal, LocalKeeps
<1>8. ApplyWaiting(p, "RequestVrc", "VrcRequestOut") => Channels'
  BY ApplyKeepsLocal, LocalKeeps
<1>9. ApplyAccept(p) => Channels'
  BY ApplyAcceptLocal, LocalKeeps
<1>10. ApplyAnswered(p) => Channels'
  BY ApplyKeepsLocal, LocalKeeps
<1> QED BY <1>1, <1>2, <1>3, <1>4, <1>5, <1>6, <1>7, <1>8, <1>9, <1>10, Zenon DEF Background

LEMMA StepChannels == Inv /\ Inv' /\ Channels /\ [Next]_vars => Channels'
<1> SUFFICES ASSUME Inv, Inv', Channels, [Next]_vars PROVE Channels'
  OBVIOUS
<1>1. Inbound => Channels'
  BY InboundChannels
<1>2. ASSUME NEW p \in Parties, User(p) PROVE Channels'
  BY <1>2, UserLocal, LocalKeeps
<1>3. ASSUME NEW p \in Parties, Background(p) PROVE Channels'
  BY <1>3, BackgroundChannels
<1>4. ASSUME NEW p \in Parties, Restart(p) PROVE Channels'
  BY <1>4, RestartLocal, LocalKeeps
<1>5. ASSUME UNCHANGED vars PROVE Channels'
  <2>1. UNCHANGED <<db, job, sent, spoiled, crossed>>
    BY <1>5 DEF vars
  <2>2. Local
    BY <2>1 DEF Local, RecordStep, AcceptStep, CreateStep, SameJob, CreatingId, CreatingStill
  <2> QED BY <2>2, LocalKeeps
<1> QED BY <1>1, <1>2, <1>3, <1>4, <1>5, Zenon DEF Next

LEMMA ChannelsInvariance == Spec => [](Inv /\ Channels)
<1>1. Init => Channels
  BY InitChannels
<1>2. Inv /\ Inv' /\ Channels /\ [Next]_vars => Channels'
  BY StepChannels
<1> QED BY <1>1, <1>2, Invariance, PTL DEF Spec

(* An established record has its thread's request and acceptance. *)
EndNames(p, q, r) ==
    \/ TheirsAccepted(sent, p, q, r) /\ OurAsked(sent, p, q, r)
    \/ TheirsAsked(sent, p, q, r) /\ Offered(sent, "accept", p, q, r.task, r.our)
LEMMA EndHas ==
    ASSUME Inv, Channels, NEW p \in Parties, NEW q \in Parties, NEW r, r = db[p].rel[q], Established(db[p], q),
           ~Creating(p, q), r.task \notin spoiled \cup crossed
    PROVE  EndNames(p, q, r) /\ r.task \in Nat /\ r # None /\ r.st = "Established" /\ p # q
<1>1. r # None /\ r.st = "Established" /\ p # q
  BY DEF Established, Inv, Kept, Typed, AccountsTyped, GoodAccount, GoodRel
<1>2. r.task \in Nat
  BY <1>1, RecordFacts DEF RelType
<1>3. ~CreatingId(p, q, r.task)
  BY DEF Creating, CreatingId
<1>4. RecordNames(sent, p, q, r, CreatingId(p, q, r.task), crossed)
  BY <1>1 DEF Channels, RecordsName
<1> QED BY <1>1, <1>2, <1>3, <1>4 DEF RecordNames, EndNames, OurAccepted

(* If the peer is in another thread, it still accepts this one. *)
LEMMA OtherThread ==
    ASSUME Inv, Channels, NEW p \in Parties, NEW q \in Parties, NEW r, EndNames(p, q, r), r.task \notin spoiled,
           \A st : ~At(db[q], p, r.task, st)
    PROVE  Accepting(q, p, r.task)
<1>1. CASE TheirsAccepted(sent, p, q, r)
  <2>1. PICK m \in sent : m.type = "accept" /\ m.thid = r.task /\ Owner(m.from) = q /\ Owner(m.to) = p
    BY <1>1 DEF TheirsAccepted, Offered
  <2>2. AcceptSent(job[q]["Inbox"], p, r.task)
    BY <2>1 DEF Channels, AccepterKnows, Taken
  <2> QED BY <2>2 DEF AcceptSent, Accepting
<1>2. CASE TheirsAsked(sent, p, q, r) /\ Offered(sent, "accept", p, q, r.task, r.our)
  <2>1. PICK n \in sent : n.type = "request" /\ n.thid = r.task /\ Owner(n.from) = q /\ Owner(n.to) = p
    BY <1>2 DEF TheirsAsked, Offered
  <2>2. PICK m \in sent : m.type = "accept" /\ m.thid = r.task
    BY <1>2 DEF Offered
  <2>3. Rejected(sent, r.task)
    BY <2>1 DEF Channels, AskerKnows, Begun
  <2> QED BY <2>2, <2>3 DEF Rejected, Inv, AnsweredOnce, OneAnswer, AnswerTypes
<1> QED BY <1>1, <1>2 DEF EndNames

(* In one thread, the two ends hold the DIDs of the same two messages. *)
LEMMA OneThread ==
    ASSUME Inv, NEW p, NEW q, p # q, NEW a, NEW b, EndNames(p, q, a), EndNames(q, p, b), a.task = b.task, a.task \notin spoiled
    PROVE  a.our = b.remote /\ a.remote = b.our
<1>1. \A m, n \in sent : m.type = n.type /\ m.thid = n.thid /\ m.thid \notin spoiled /\ m.type \in {"request", "accept"} => m = n
  BY DEF Inv, Origins, OneStart, AskTypes, AnsweredOnce, OneAnswer, AnswerTypes
<1>2. CASE TheirsAccepted(sent, p, q, a) /\ OurAsked(sent, p, q, a)
  BY <1>1, <1>2 DEF EndNames, TheirsAccepted, TheirsAsked, OurAsked, Offered
<1>3. CASE TheirsAsked(sent, p, q, a) /\ Offered(sent, "accept", p, q, a.task, a.our)
  BY <1>1, <1>3 DEF EndNames, TheirsAccepted, TheirsAsked, OurAsked, Offered
<1> QED BY <1>2, <1>3 DEF EndNames

LEMMA InvChannelsMatch ==
    ASSUME Inv, Channels
    PROVE  ChannelsMatch
<1>1. SUFFICES ASSUME NEW p \in Parties, NEW q \in Parties, NEW a, a = db[p].rel[q], NEW b, b = db[q].rel[p],
                      Established(db[p], q), Established(db[q], p), ~Creating(p, q), ~Creating(q, p),
                      a.task \notin spoiled \cup crossed, b.task \notin spoiled \cup crossed
               PROVE  a.task = b.task /\ a.our = b.remote /\ a.remote = b.our
  BY DEF ChannelsMatch, Matches
<1>2. EndNames(p, q, a) /\ a.task \in Nat /\ p # q
  BY <1>1, EndHas
<1>3. EndNames(q, p, b) /\ b.task \in Nat
  BY <1>1, EndHas
<1>4. a.task = b.task
  <2>1. SUFFICES ASSUME a.task # b.task PROVE FALSE
    OBVIOUS
  <2>2. Accepting(q, p, a.task)
    BY <1>1, <1>2, <2>1, OtherThread DEF At
  <2>3. Accepting(p, q, b.task)
    BY <1>1, <1>3, <2>1, OtherThread DEF At
  <2> QED BY <1>1, <1>2, <1>3, <2>2, <2>3 DEF Channels, NotBoth
<1> QED BY <1>1, <1>2, <1>3, <1>4, OneThread

-----------------------------------------------------------------------------
(* Both ends of an established relationship are in the same handshake, and  *)
(* each sends from the DID the other one listens for, unless a fault or the *)
(* user cut one of the threads, or another request's outcome wrote its DID  *)
(* (RelationshipOutcome::apply).                                            *)
THEOREM ChannelsMatchAlways == Spec => []ChannelsMatch
<1>1. Inv /\ Channels => ChannelsMatch
  BY InvChannelsMatch
<1> QED BY <1>1, ChannelsInvariance, PTL
=============================================================================
