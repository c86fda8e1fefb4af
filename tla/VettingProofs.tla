--------------------------- MODULE VettingProofs ---------------------------
(***************************************************************************)
(* Vetting, for any number of requests, sessions, applications, losses and *)
(* failures: the two books agree, an application shows one identity, and a *)
(* statement that reaches the application it is for is kept.               *)
(***************************************************************************)
EXTENDS Vetting, FiniteSetTheorems, TLAPS

(* What an entry, a request, a letter and a job look like while n sessions *)
(* have been opened.                                                       *)
GoodEntry(e, n) ==
    /\ e \in DeskEntry
    /\ e.state \in {"session", "card"} => e.session \in 1..n
    /\ e.state = "card" => e.card \in Card
GoodRequest(r, n) ==
    /\ r \in Request /\ r.session \in 0..n
    /\ r.state = "session" => r.session \in 1..n
GoodLetter(m, n) ==
    /\ m \in Message
    /\ m.kind # "card" => m.doc \in Docs
    /\ m.kind \in {"session", "card", "statement"} => m.session \in 1..n
    /\ m.kind \in {"card", "statement"} => m.card \in Card
    /\ m.kind = "request" => m = Letter("request", m.doc, 0, Nothing)
GoodEntries(es, n) == es \in [Docs -> DeskEntry] /\ \A d \in Docs : GoodEntry(es[d], n)
GoodRequests(rs, n) == rs \in [Docs -> Request] /\ \A d \in Docs : GoodRequest(rs[d], n)
GoodJob(job, kinds, n) ==
    job # Idle => job \in SendJob /\ job.msg.kind \in kinds /\ GoodLetter(job.msg, n)
ApplicantKinds == {"request", "card"}
VetterKinds == {"session", "statement", "decline"}

ApplicantTypes ==
    /\ application \in 0..MaxApplications /\ started \in application..MaxApplications
    /\ GoodRequests(requests, opened) /\ GoodJob(applicantJob, ApplicantKinds, opened)
    /\ statements \subseteq Statement /\ identity_claims \in Faces \cup {Nothing}

VetterTypes ==
    /\ GoodEntries(desk, opened) /\ GoodJob(vetterJob, VetterKinds, opened)
    /\ vetterJob # Idle /\ vetterJob.msg.kind # "session" =>
          GoodEntry(vetterJob.previous, opened) /\ is_open(vetterJob.previous)
    /\ issued \subseteq Statement /\ opened \in 0..MaxOpened /\ restored \subseteq Docs

PostTypes ==
    /\ \A m \in post : GoodLetter(m, opened)
    /\ expired \cup overwritten \subseteq 1..opened

Typed == ApplicantTypes /\ VetterTypes /\ PostTypes

-----------------------------------------------------------------------------
(* The parts of the records. *)


LEMMA AtParts ==
    ASSUME NEW x, NEW s, NEW c
    PROVE  At(x, s, c).state = x /\ At(x, s, c).session = s /\ At(x, s, c).card = c
  BY DEF At

LEMMA LetterParts ==
    ASSUME NEW k, NEW d, NEW s, NEW c
    PROVE  /\ Letter(k, d, s, c).kind = k /\ Letter(k, d, s, c).doc = d
           /\ Letter(k, d, s, c).session = s /\ Letter(k, d, s, c).card = c
  BY DEF Letter

LEMMA SendParts ==
    ASSUME NEW m, NEW p
    PROVE  Send(m, p).msg = m /\ Send(m, p).previous = p /\ Send(m, p).done = "no"
  BY DEF Send

LEMMA LetterType ==
    ASSUME NEW k \in PostKinds, NEW d \in 0..MaxRequests, NEW s \in 0..MaxOpened, NEW c \in Card \cup {Nothing}
    PROVE  Letter(k, d, s, c) \in Message
  BY DEF Letter, Message

LEMMA SendType ==
    ASSUME NEW m \in Message, NEW p \in DeskEntry \cup {Nothing}
    PROVE  Send(m, p) \in SendJob
  BY DEF Send, SendJob

LEMMA JobDone ==
    ASSUME NEW job \in SendJob, NEW done \in {"no", "sent", "failed"}
    PROVE  /\ [job EXCEPT !.done = done] \in SendJob
           /\ [job EXCEPT !.done = done].msg = job.msg
           /\ [job EXCEPT !.done = done].previous = job.previous
           /\ [job EXCEPT !.done = done].done = done
  BY DEF SendJob

LEMMA RequestType ==
    ASSUME NEW x \in {"none", "sent", "accepted", "refused", "session", "attested", "declined"},
           NEW s \in 0..MaxOpened, NEW c \in Card \cup {Nothing}
    PROVE  At(x, s, c) \in Request
  BY DEF At, Request

LEMMA RequestCard ==
    ASSUME NEW r \in Request, NEW c \in Card
    PROVE  /\ [r EXCEPT !.card = c] \in Request /\ [r EXCEPT !.card = c].card = c
           /\ [r EXCEPT !.card = c].state = r.state /\ [r EXCEPT !.card = c].session = r.session
  BY DEF Request

LEMMA EntryType ==
    ASSUME NEW x \in {"none", "accepted", "session", "card", "attested", "declined"},
           NEW s \in 0..MaxOpened, NEW c \in Card \cup {Nothing}
    PROVE  At(x, s, c) \in DeskEntry
  BY DEF At, DeskEntry

LEMMA CardParts ==
    ASSUME NEW c \in Card
    PROVE  c.application \in 1..MaxApplications /\ c.session \in 1..MaxOpened /\ c.face \in Faces
  BY DEF Card

LEMMA StatementType ==
    ASSUME NEW n \in 0..MaxOpened, NEW d \in Docs, NEW s \in 1..n, NEW c \in Card
    PROVE  [doc |-> d, session |-> s, card |-> c] \in Statement
<1>1. s \in 1..MaxOpened
  BY VettingAssumption
<1> QED BY <1>1 DEF Statement

LEMMA GoodValues ==
    ASSUME NEW n \in 0..MaxOpened
    PROVE  /\ \A x \in {"none", "sent", "accepted", "refused", "attested", "declined"} :
                GoodRequest(At(x, 0, Nothing), n)
           /\ \A s \in 1..n : GoodRequest(At("session", s, Nothing), n)
           /\ \A x \in {"none", "accepted", "attested", "declined"} : GoodEntry(At(x, 0, Nothing), n)
           /\ \A s \in 1..n : GoodEntry(At("session", s, Nothing), n)
           /\ \A s \in 1..n, c \in Card : GoodEntry(At("card", s, c), n)
<1>1. MaxOpened \in Nat /\ 0 \in 0..MaxOpened /\ \A s \in 1..n : s \in 0..MaxOpened
  BY VettingAssumption
<1>2. ASSUME NEW x \in {"none", "sent", "accepted", "refused", "attested", "declined"}
      PROVE  GoodRequest(At(x, 0, Nothing), n)
  <2>1. At(x, 0, Nothing) \in Request
    BY <1>1, RequestType
  <2> QED BY <1>1, <2>1, AtParts DEF GoodRequest
<1>3. ASSUME NEW s \in 1..n PROVE GoodRequest(At("session", s, Nothing), n)
  <2>1. At("session", s, Nothing) \in Request
    BY <1>1, RequestType
  <2> QED BY <1>1, <2>1, AtParts DEF GoodRequest
<1>4. ASSUME NEW x \in {"none", "accepted", "attested", "declined"} PROVE GoodEntry(At(x, 0, Nothing), n)
  <2>1. At(x, 0, Nothing) \in DeskEntry
    BY <1>1, EntryType
  <2> QED BY <1>1, <2>1, AtParts DEF GoodEntry
<1>5. ASSUME NEW s \in 1..n PROVE GoodEntry(At("session", s, Nothing), n)
  <2>1. At("session", s, Nothing) \in DeskEntry
    BY <1>1, EntryType
  <2> QED BY <1>1, <2>1, AtParts DEF GoodEntry
<1>6. ASSUME NEW s \in 1..n, NEW c \in Card PROVE GoodEntry(At("card", s, c), n)
  <2>1. At("card", s, c) \in DeskEntry
    BY <1>1, EntryType
  <2> QED BY <1>1, <2>1, AtParts DEF GoodEntry
<1> QED BY <1>2, <1>3, <1>4, <1>5, <1>6

LEMMA GoodLetters ==
    ASSUME NEW n \in 0..MaxOpened, NEW d \in Docs
    PROVE  /\ \A k \in PostKinds \ {"session", "card", "statement"} : GoodLetter(Letter(k, d, 0, Nothing), n)
           /\ \A s \in 1..n : GoodLetter(Letter("session", d, s, Nothing), n)
           /\ \A s \in 1..n, c \in Card : /\ GoodLetter(Letter("card", 0, s, c), n)
                                          /\ GoodLetter(Letter("statement", d, s, c), n)
<1>1. /\ d \in 0..MaxRequests /\ 0 \in 0..MaxRequests /\ 0 \in 0..MaxOpened
      /\ \A s \in 1..n : s \in 0..MaxOpened
  BY VettingAssumption DEF Docs
<1>2. /\ \A k \in PostKinds : Letter(k, d, 0, Nothing) \in Message
      /\ \A s \in 1..n : Letter("session", d, s, Nothing) \in Message
      /\ \A s \in 1..n, c \in Card : Letter("card", 0, s, c) \in Message /\ Letter("statement", d, s, c) \in Message
  <2>1. {"session", "card", "statement"} \subseteq PostKinds
    BY DEF PostKinds
  <2> QED BY <1>1, <2>1, LetterType
<1> QED BY <1>1, <1>2, LetterParts DEF GoodLetter

LEMMA GoodGrows ==
    ASSUME NEW n \in Nat, NEW k \in Nat, n <= k
    PROVE  /\ \A e : GoodEntry(e, n) => GoodEntry(e, k)
           /\ \A rs : GoodRequests(rs, n) => GoodRequests(rs, k)
           /\ \A es : GoodEntries(es, n) => GoodEntries(es, k)
           /\ \A m : GoodLetter(m, n) => GoodLetter(m, k)
           /\ \A job, kinds : GoodJob(job, kinds, n) => GoodJob(job, kinds, k)
<1>1. (1..n) \subseteq (1..k) /\ (0..n) \subseteq (0..k)
  OBVIOUS
<1>2. /\ \A e : GoodEntry(e, n) => GoodEntry(e, k)
      /\ \A m : GoodLetter(m, n) => GoodLetter(m, k)
      /\ \A r : GoodRequest(r, n) => GoodRequest(r, k)
  BY <1>1, Zenon DEF GoodEntry, GoodLetter, GoodRequest
<1> QED BY <1>2, Zenon DEF GoodEntries, GoodRequests, GoodJob

LEMMA SweptGood ==
    ASSUME NEW n \in 0..MaxOpened, NEW rs, GoodRequests(rs, n)
    PROVE  GoodRequests(Swept(rs), n)
<1>1. ASSUME NEW d \in Docs PROVE GoodRequest(Swept(rs)[d], n)
  <2>1. GoodRequest(Accepted, n)
    BY GoodValues DEF Accepted
  <2> QED BY <2>1 DEF Swept, GoodRequests
<1>2. Swept(rs) \in [Docs -> Request]
  <2>1. \A d \in Docs : Swept(rs)[d] \in Request
    BY <1>1 DEF GoodRequest
  <2> QED BY <2>1 DEF Swept
<1> QED BY <1>1, <1>2 DEF GoodRequests

LEMMA TidiedGood ==
    ASSUME NEW n \in 0..MaxOpened, NEW es, GoodEntries(es, n)
    PROVE  GoodEntries(Tidied(es), n)
<1>1. ASSUME NEW d \in Docs PROVE GoodEntry(Tidied(es)[d], n)
  <2>1. GoodEntry(Accepted, n)
    BY GoodValues DEF Accepted
  <2> QED BY <2>1 DEF Tidied, GoodEntries
<1>2. Tidied(es) \in [Docs -> DeskEntry]
  <2>1. \A d \in Docs : Tidied(es)[d] \in DeskEntry
    BY <1>1 DEF GoodEntry
  <2> QED BY <2>1 DEF Tidied
<1> QED BY <1>1, <1>2 DEF GoodEntries

LEMMA RequestsExcept ==
    ASSUME NEW n, NEW rs, GoodRequests(rs, n), NEW d \in Docs, NEW r, GoodRequest(r, n)
    PROVE  GoodRequests([rs EXCEPT ![d] = r], n)
  BY DEF GoodRequests, GoodRequest

LEMMA EntriesExcept ==
    ASSUME NEW n, NEW es, GoodEntries(es, n), NEW d \in Docs, NEW e, GoodEntry(e, n)
    PROVE  GoodEntries([es EXCEPT ![d] = e], n)
  BY DEF GoodEntries, GoodEntry

LEMMA SendGood ==
    ASSUME NEW n, NEW m, GoodLetter(m, n), NEW kinds, m.kind \in kinds, NEW p \in DeskEntry \cup {Nothing}
    PROVE  GoodJob(Send(m, p), kinds, n)
<1>1. Send(m, p) \in SendJob
  BY SendType DEF GoodLetter
<1> QED BY <1>1, SendParts DEF GoodJob

LEMMA DoneGood ==
    ASSUME NEW n, NEW kinds, NEW job, job # Idle, GoodJob(job, kinds, n), NEW done \in {"sent", "failed"}
    PROVE  GoodJob([job EXCEPT !.done = done], kinds, n)
<1>1. job \in SendJob /\ done \in {"no", "sent", "failed"}
  BY DEF GoodJob
<1> QED BY <1>1, JobDone, Zenon DEF GoodJob

LEMMA ApplicantTypesStep ==
    ASSUME Typed, [VettingNext]_vettingVars
    PROVE  ApplicantTypes'
<1>a. opened \in 0..MaxOpened /\ GoodRequests(requests, opened) /\ GoodJob(applicantJob, ApplicantKinds, opened)
  BY DEF Typed, ApplicantTypes, VetterTypes
<1>b. ASSUME UNCHANGED <<application, started, statements, identity_claims, opened>>,
             GoodRequests(requests', opened), GoodJob(applicantJob', ApplicantKinds, opened)
      PROVE  ApplicantTypes'
  BY <1>b DEF Typed, ApplicantTypes
<1>c. ASSUME UNCHANGED applicantVars, opened' \in Nat, opened <= opened'
      PROVE  ApplicantTypes'
  <2>1. GoodRequests(requests, opened') /\ GoodJob(applicantJob, ApplicantKinds, opened')
    BY <1>a, <1>c, GoodGrows
  <2> QED BY <1>c, <2>1 DEF Typed, ApplicantTypes, applicantVars
<1>d. opened \in Nat /\ MaxOpened \in Nat
  BY <1>a, VettingAssumption
<1>1. CASE start_application
  BY <1>1, VettingAssumption DEF start_application, vetterVars, Typed, ApplicantTypes
<1>2. CASE abandon_application
  <2>1. GoodRequests([d \in Docs |-> Blank], opened)
    BY <1>a, GoodValues DEF Blank, GoodRequests, GoodRequest
  <2> QED BY <1>2, <2>1, VettingAssumption DEF abandon_application, vetterVars, Typed, ApplicantTypes
<1>3. ASSUME NEW d \in Docs, request_vetter(d) PROVE ApplicantTypes'
  <2>1. GoodRequests(requests', opened)
    BY <1>3, <1>a, GoodValues, RequestsExcept DEF request_vetter
  <2>2. GoodLetter(Letter("request", d, 0, Nothing), opened) /\ Letter("request", d, 0, Nothing).kind = "request"
    BY <1>a, GoodLetters, LetterParts DEF PostKinds
  <2>3. GoodJob(applicantJob', ApplicantKinds, opened)
    BY <1>3, <2>2, SendGood DEF request_vetter, ApplicantKinds
  <2> QED BY <1>3, <1>b, <2>1, <2>3 DEF request_vetter, vetterVars
<1>4. ASSUME NEW d \in Docs, NEW f \in Faces, send_card(d, f) PROVE ApplicantTypes'
  <2> DEFINE c == [application |-> application, session |-> requests[d].session, face |-> f]
  <2>1. c \in Card /\ requests[d].session \in 1..opened
    <3>1. requests[d].session \in 1..opened
      BY <1>4, <1>a DEF send_card, GoodRequests, GoodRequest
    <3>2. application \in 1..MaxApplications
      BY <1>4, VettingAssumption DEF send_card, Typed, ApplicantTypes
    <3> QED BY <3>1, <3>2, <1>a, VettingAssumption DEF Card
  <2> HIDE DEF c
  <2> DEFINE m == Letter("card", 0, requests[d].session, c)
  <2>2. GoodLetter(m, opened) /\ m.kind \in ApplicantKinds
    BY <1>a, <2>1, GoodLetters, LetterParts DEF ApplicantKinds
  <2> HIDE DEF m
  <2>3. applicantJob' = Send(m, Nothing)
    BY <1>4 DEF send_card, m, c
  <2>4. GoodJob(applicantJob', ApplicantKinds, opened)
    BY <2>2, <2>3, SendGood
  <2> QED BY <1>4, <1>a, <1>b, <2>4 DEF send_card, vetterVars
<1>5. ASSUME NEW done \in {"sent", "failed"}, RunApplicantJob(done) PROVE ApplicantTypes'
  <2>1. applicantJob # Idle /\ applicantJob' = [applicantJob EXCEPT !.done = done]
    BY <1>5, Zenon DEF RunApplicantJob
  <2>2. GoodJob(applicantJob', ApplicantKinds, opened)
    BY <1>a, <2>1, DoneGood, Zenon
  <2>3. UNCHANGED <<application, started, requests, statements, identity_claims, opened>>
    BY <1>5, Zenon DEF RunApplicantJob, vetterVars
  <2> QED BY <1>a, <1>b, <2>2, <2>3
<1>6. CASE RequestOutcome
  <2>1. applicantJob # Idle /\ applicantJob.msg.kind = "request"
    BY <1>6 DEF RequestOutcome, Ended
  <2>2. applicantJob.msg.doc \in Docs
    BY <1>a, <2>1 DEF GoodJob, GoodLetter
  <2>3. GoodRequests(forget_unsent(applicantJob.msg.doc), opened)
    BY <1>a, <2>2, GoodValues, RequestsExcept DEF forget_unsent, Blank
  <2>4. GoodRequests(requests', opened)
    BY <1>6, <1>a, <2>3, SweptGood DEF RequestOutcome
  <2> QED BY <1>6, <1>b, <2>4 DEF RequestOutcome, vetterVars, GoodJob
<1>7. CASE CardOutcome
  <2>1. applicantJob # Idle /\ applicantJob.msg.kind = "card"
    BY <1>7 DEF CardOutcome, Ended
  <2>2. applicantJob.msg.card \in Card
    BY <1>a, <2>1 DEF GoodJob, GoodLetter
  <2> DEFINE c == applicantJob.msg.card
             marked(at) == [d \in Docs |-> IF d \in at THEN [requests[d] EXCEPT !.card = c] ELSE requests[d]]
  <2>3. ASSUME NEW at PROVE GoodRequests(marked(at), opened)
    <3>1. ASSUME NEW d \in Docs PROVE GoodRequest(marked(at)[d], opened) /\ marked(at)[d] \in Request
      BY <1>a, <2>2, RequestCard DEF GoodRequests, GoodRequest
    <3> QED BY <3>1 DEF GoodRequests
  <2>4. GoodRequests(requests', opened)
    <3>1. CASE applicantJob.done = "sent"
      <4>1. PICK at : requests' = Swept(marked(at))
        BY <1>7, <3>1 DEF CardOutcome, record_sent_card
      <4> QED BY <1>a, <2>3, <4>1, SweptGood
    <3>2. CASE applicantJob.done # "sent"
      BY <1>7, <1>a, <3>2, SweptGood DEF CardOutcome
    <3> QED BY <3>1, <3>2
  <2>5. identity_claims' \in Faces \cup {Nothing}
    <3>1. c.face \in Faces
      BY <2>2, CardParts
    <3> QED BY <1>7, <3>1 DEF CardOutcome, record_sent_card, Typed, ApplicantTypes
  <2> QED BY <1>7, <2>4, <2>5 DEF CardOutcome, Typed, ApplicantTypes, vetterVars, GoodJob
<1>8. CASE prune_applications
  BY <1>8, <1>a, <1>b, SweptGood DEF prune_applications, vetterVars
<1> DEFINE values == {Accepted, At("refused", 0, Nothing), At("attested", 0, Nothing), At("declined", 0, Nothing)}
<1>e. ASSUME NEW m \in post, m.kind # "card", NEW r, GoodRequest(r, opened), UNCHANGED <<Handling, statements>>,
             requests' \in {requests, [requests EXCEPT ![m.doc] = r]}
      PROVE  ApplicantTypes'
  <2>1. m.doc \in Docs
    BY <1>e DEF Typed, PostTypes, GoodLetter
  <2>2. GoodRequests(requests', opened)
    BY <1>a, <1>e, <2>1, RequestsExcept
  <2> QED BY <1>a, <1>b, <1>e, <2>2 DEF Handling, vetterVars
<1>f. \A x \in values : GoodRequest(x, opened)
  BY <1>a, GoodValues DEF Accepted
<1>9. ASSUME NEW m \in post, on_accepted(m) PROVE ApplicantTypes'
  BY <1>9, <1>e, <1>f DEF on_accepted, Reply, Becomes
<1>10. ASSUME NEW m \in post, on_refused(m) PROVE ApplicantTypes'
  BY <1>10, <1>e, <1>f DEF on_refused, Reply, Becomes
<1>11. ASSUME NEW m \in post, on_session(m) PROVE ApplicantTypes'
  <2>1. m.kind = "session" /\ m.session \in 1..opened
    BY <1>11 DEF on_session, Reply, Typed, PostTypes, GoodLetter
  <2>2. GoodRequest(At("session", m.session, Nothing), opened)
    BY <1>a, <2>1, GoodValues
  <2> QED BY <1>11, <1>e, <2>1, <2>2 DEF on_session, Becomes
<1>12. ASSUME NEW m \in post, on_statement(m) PROVE ApplicantTypes'
  <2>1. m.kind = "statement" /\ m.doc \in Docs /\ m.session \in 1..opened /\ m.card \in Card
    BY <1>12 DEF on_statement, Reply, Typed, PostTypes, GoodLetter
  <2>2. [doc |-> m.doc, session |-> m.session, card |-> m.card] \in Statement
    BY <1>a, <1>d, <2>1, StatementType
  <2>3. statements' \subseteq Statement
    BY <1>12, <2>2 DEF on_statement, Typed, ApplicantTypes
  <2>4. GoodRequests(requests', opened)
    BY <1>12, <1>a, <1>f, <2>1, RequestsExcept DEF on_statement
  <2> QED BY <1>12, <1>a, <2>3, <2>4 DEF on_statement, Handling, vetterVars, Typed, ApplicantTypes
<1>13. ASSUME NEW m \in post, on_decline(m) PROVE ApplicantTypes'
  BY <1>13, <1>e, <1>f DEF on_decline, Reply, Becomes
<1>14. ASSUME NEW d \in Docs, open_session(d) PROVE ApplicantTypes'
  BY <1>14, <1>c, <1>d DEF open_session
<1>g. ASSUME UNCHANGED <<applicantVars, opened>> PROVE ApplicantTypes'
  BY <1>g, <1>c, <1>d
<1>15. ASSUME NEW m \in post, NEW eligible \in BOOLEAN, take_request(m, eligible) PROVE ApplicantTypes'
  BY <1>15, <1>g DEF take_request
<1>16. ASSUME NEW m \in post, receive_card(m) PROVE ApplicantTypes'
  BY <1>16, <1>g DEF receive_card
<1>17. ASSUME NEW d \in Docs, attest(d) \/ decline(d) PROVE ApplicantTypes'
  BY <1>17, <1>g DEF attest, decline
<1>18. ASSUME NEW done \in {"sent", "failed"}, RunVetterJob(done) PROVE ApplicantTypes'
  BY <1>18, <1>g DEF RunVetterJob
<1>19. CASE VetterOutcome \/ prune_desk
  BY <1>19, <1>g DEF VetterOutcome, prune_desk
<1>20. ASSUME NEW m \in post, LosePost(m) PROVE ApplicantTypes'
  BY <1>20, <1>g DEF LosePost, vetterVars
<1>21. ASSUME NEW s \in 1..opened, Expire(s) PROVE ApplicantTypes'
  BY <1>21, <1>g DEF Expire, vetterVars
<1>22. CASE UNCHANGED vettingVars
  BY <1>22, <1>g DEF vettingVars, vetterVars
<1> QED
  BY <1>1, <1>2, <1>3, <1>4, <1>5, <1>6, <1>7, <1>8, <1>9, <1>10, <1>11, <1>12, <1>13, <1>14, <1>15, <1>16,
     <1>17, <1>18, <1>19, <1>20, <1>21, <1>22, Zenon DEF VettingNext

LEMMA VetterTypesStep ==
    ASSUME Typed, [VettingNext]_vettingVars
    PROVE  VetterTypes'
<1> DEFINE JobGood(job, n) ==
        /\ GoodJob(job, VetterKinds, n)
        /\ job # Idle /\ job.msg.kind # "session" => GoodEntry(job.previous, n) /\ is_open(job.previous)
<1>a. /\ opened \in 0..MaxOpened /\ GoodEntries(desk, opened) /\ JobGood(vetterJob, opened)
      /\ opened \in Nat /\ MaxOpened \in Nat
  BY VettingAssumption DEF Typed, VetterTypes
<1>i. JobGood(Idle, opened)
  BY DEF GoodJob
<1> HIDE DEF JobGood
<1>b. ASSUME UNCHANGED <<issued, restored, opened>>, GoodEntries(desk', opened), JobGood(vetterJob', opened)
      PROVE  VetterTypes'
  BY <1>b DEF Typed, VetterTypes, JobGood
<1>c. ASSUME UNCHANGED vetterVars PROVE VetterTypes'
  BY <1>a, <1>b, <1>c DEF vetterVars
<1>1. ASSUME NEW m \in post, NEW eligible \in BOOLEAN, take_request(m, eligible) PROVE VetterTypes'
  <2>1. m.doc \in Docs
    BY <1>1 DEF take_request, Typed, PostTypes, GoodLetter
  <2>2. GoodEntry(Accepted, opened)
    BY <1>a, GoodValues DEF Accepted
  <2>3. GoodEntries(desk', opened)
    BY <1>1, <1>a, <2>1, <2>2, EntriesExcept DEF take_request
  <2> QED BY <1>1, <1>a, <1>b, <2>3 DEF take_request
<1>2. ASSUME NEW d \in Docs, open_session(d) PROVE VetterTypes'
  <2>1. opened' = opened + 1 /\ opened' \in 0..MaxOpened /\ opened' \in 1..opened' /\ opened <= opened' /\ opened' \in Nat
    BY <1>2, <1>a DEF open_session
  <2>2. GoodEntries(desk, opened')
    BY <1>a, <2>1, GoodGrows
  <2>3. GoodEntry(At("session", opened', Nothing), opened')
    BY <2>1, GoodValues
  <2>4. GoodEntries(desk', opened')
    BY <1>2, <2>1, <2>2, <2>3, EntriesExcept DEF open_session
  <2>5. GoodLetter(Letter("session", d, opened', Nothing), opened') /\ Letter("session", d, opened', Nothing).kind = "session"
    BY <2>1, GoodLetters, LetterParts
  <2>6. vetterJob' = Send(Letter("session", d, opened', Nothing), Nothing)
    BY <1>2, <2>1 DEF open_session
  <2>7. JobGood(vetterJob', opened')
    BY <2>5, <2>6, SendGood, SendParts DEF JobGood, VetterKinds
  <2> QED BY <1>2, <2>1, <2>4, <2>7 DEF open_session, Typed, VetterTypes, JobGood
<1>3. ASSUME NEW m \in post, receive_card(m) PROVE VetterTypes'
  <2>1. m.session \in 1..opened /\ m.card \in Card
    BY <1>3 DEF receive_card, Typed, PostTypes, GoodLetter
  <2>2. GoodEntry(At("card", m.session, m.card), opened)
    BY <1>a, <2>1, GoodValues
  <2>3. ASSUME NEW d \in Docs PROVE GoodEntry(desk'[d], opened) /\ desk'[d] \in DeskEntry
    BY <1>3, <1>a, <2>2 DEF receive_card, GoodEntries, GoodEntry
  <2>4. GoodEntries(desk', opened)
    BY <1>3, <2>3 DEF receive_card, GoodEntries
  <2> QED BY <1>3, <1>a, <1>b, <2>4 DEF receive_card
<1>4. ASSUME NEW d \in Docs, attest(d) PROVE VetterTypes'
  <2>1. GoodEntry(desk[d], opened) /\ desk[d].session \in 1..opened /\ desk[d].card \in Card /\ desk[d] \in DeskEntry
    BY <1>4, <1>a DEF attest, GoodEntries, GoodEntry
  <2>2. GoodEntries(desk', opened)
    BY <1>4, <1>a, GoodValues, EntriesExcept DEF attest
  <2> DEFINE m == Letter("statement", d, desk[d].session, desk[d].card)
  <2>3. GoodLetter(m, opened) /\ m.kind = "statement"
    BY <1>a, <2>1, GoodLetters, LetterParts
  <2> HIDE DEF m
  <2>4. vetterJob' = Send(m, desk[d]) /\ is_open(desk[d])
    BY <1>4 DEF attest, m, is_open
  <2>5. JobGood(vetterJob', opened)
    BY <2>1, <2>3, <2>4, SendGood, SendParts DEF JobGood, VetterKinds
  <2>6. issued' \subseteq Statement
    BY <1>4, <1>a, <2>1, StatementType DEF attest, Typed, VetterTypes
  <2> QED BY <1>4, <2>2, <2>5, <2>6 DEF attest, Typed, VetterTypes, JobGood
<1>5. ASSUME NEW d \in Docs, decline(d) PROVE VetterTypes'
  <2>1. GoodEntry(desk[d], opened) /\ desk[d] \in DeskEntry
    BY <1>a DEF GoodEntries, GoodEntry
  <2>2. GoodEntries(desk', opened)
    BY <1>5, <1>a, GoodValues, EntriesExcept DEF decline
  <2> DEFINE m == Letter("decline", d, 0, Nothing)
  <2>3. GoodLetter(m, opened) /\ m.kind = "decline"
    BY <1>a, GoodLetters, LetterParts DEF PostKinds
  <2> HIDE DEF m
  <2>4. vetterJob' = Send(m, desk[d]) /\ is_open(desk[d])
    BY <1>5 DEF decline, m
  <2>5. JobGood(vetterJob', opened)
    BY <2>1, <2>3, <2>4, SendGood, SendParts DEF JobGood, VetterKinds
  <2> QED BY <1>5, <1>b, <2>2, <2>5 DEF decline
<1>6. ASSUME NEW done \in {"sent", "failed"}, RunVetterJob(done) PROVE VetterTypes'
  <2>1. vetterJob # Idle /\ vetterJob' = [vetterJob EXCEPT !.done = done]
    BY <1>6, Zenon DEF RunVetterJob
  <2>2. GoodJob(vetterJob', VetterKinds, opened)
    BY <1>a, <2>1, DoneGood, Zenon DEF JobGood
  <2>3. vetterJob'.msg = vetterJob.msg /\ vetterJob'.previous = vetterJob.previous
    <3>1. vetterJob \in SendJob /\ done \in {"no", "sent", "failed"}
      BY <1>a, <2>1 DEF JobGood, GoodJob
    <3> QED BY <2>1, <3>1, JobDone, Zenon
  <2>4. JobGood(vetterJob', opened)
    BY <1>a, <2>1, <2>2, <2>3 DEF JobGood
  <2>5. UNCHANGED <<issued, restored, opened, desk>>
    BY <1>6, Zenon DEF RunVetterJob
  <2> QED BY <1>a, <1>b, <2>4, <2>5
<1>7. CASE VetterOutcome
  <2>1. vetterJob # Idle /\ vetterJob' = Idle /\ opened' = opened
    BY <1>7 DEF VetterOutcome, Ended
  <2>2. CASE vetterJob.done = "failed" /\ vetterJob.msg.kind \in {"statement", "decline"}
    <3>1. vetterJob.msg.doc \in Docs /\ GoodEntry(vetterJob.previous, opened)
      BY <1>a, <2>1, <2>2 DEF JobGood, GoodJob, GoodLetter
    <3>2. Undone(vetterJob.msg.doc, vetterJob.previous)
      BY <1>7, <2>2 DEF VetterOutcome
    <3>3. GoodEntries(desk', opened)
      BY <1>a, <3>1, <3>2, EntriesExcept, TidiedGood DEF Undone
    <3>4. issued' \subseteq Statement /\ restored' \subseteq Docs
      BY <3>1, <3>2 DEF Undone, Typed, VetterTypes
    <3> QED BY <1>a, <1>i, <2>1, <3>3, <3>4 DEF VetterTypes, JobGood
  <2>3. CASE ~(vetterJob.done = "failed" /\ vetterJob.msg.kind \in {"statement", "decline"})
    BY <1>7, <1>a, <1>b, <1>i, <2>1, <2>3, TidiedGood DEF VetterOutcome
  <2> QED BY <2>2, <2>3
<1>8. CASE prune_desk
  BY <1>8, <1>a, <1>b, TidiedGood DEF prune_desk
<1>9. ASSUME NEW m \in post, on_accepted(m) \/ on_refused(m) \/ on_session(m) \/ on_statement(m) \/ on_decline(m)
      PROVE  VetterTypes'
  BY <1>9, <1>c DEF on_accepted, on_refused, on_session, on_statement, on_decline, Handling
<1>10. CASE start_application \/ abandon_application \/ prune_applications \/ RequestOutcome \/ CardOutcome
  BY <1>10, <1>c DEF start_application, abandon_application, prune_applications, RequestOutcome, CardOutcome
<1>11. ASSUME NEW d \in Docs, request_vetter(d) PROVE VetterTypes'
  BY <1>11, <1>c DEF request_vetter
<1>12. ASSUME NEW d \in Docs, NEW f \in Faces, send_card(d, f) PROVE VetterTypes'
  BY <1>12, <1>c DEF send_card
<1>13. ASSUME NEW done \in {"sent", "failed"}, RunApplicantJob(done) PROVE VetterTypes'
  BY <1>13, <1>c, Zenon DEF RunApplicantJob
<1>14. ASSUME NEW m \in post, LosePost(m) PROVE VetterTypes'
  BY <1>14, <1>c DEF LosePost
<1>15. ASSUME NEW s \in 1..opened, Expire(s) PROVE VetterTypes'
  BY <1>15, <1>c DEF Expire
<1>16. CASE UNCHANGED vettingVars
  BY <1>16, <1>c DEF vettingVars
<1> QED
  BY <1>1, <1>2, <1>3, <1>4, <1>5, <1>6, <1>7, <1>8, <1>9, <1>10, <1>11, <1>12, <1>13, <1>14, <1>15, <1>16,
     Zenon DEF VettingNext

LEMMA PostTypesStep ==
    ASSUME Typed, [VettingNext]_vettingVars
    PROVE  PostTypes'
<1>a. /\ opened \in 0..MaxOpened /\ opened \in Nat /\ \A m \in post : GoodLetter(m, opened)
      /\ expired \subseteq 1..opened /\ overwritten \subseteq 1..opened
  BY VettingAssumption DEF Typed, VetterTypes, PostTypes
<1>b. ASSUME UNCHANGED <<opened, expired, overwritten>>, \A m \in post' : GoodLetter(m, opened)
      PROVE  PostTypes'
  BY <1>a, <1>b DEF PostTypes
<1>c. ASSUME UNCHANGED <<opened, expired, overwritten, post>> PROVE PostTypes'
  BY <1>a, <1>b, <1>c
<1>1. ASSUME NEW done \in {"sent", "failed"}, RunApplicantJob(done) PROVE PostTypes'
  <2>1. GoodLetter(applicantJob.msg, opened)
    BY <1>1, Zenon DEF RunApplicantJob, Typed, ApplicantTypes, GoodJob
  <2>2. post' \subseteq post \cup {applicantJob.msg}
    BY <1>1, Zenon DEF RunApplicantJob, Leaves
  <2>3. UNCHANGED <<opened, expired, overwritten>>
    BY <1>1, Zenon DEF RunApplicantJob, vetterVars
  <2> QED BY <1>a, <1>b, <2>1, <2>2, <2>3
<1>2. ASSUME NEW done \in {"sent", "failed"}, RunVetterJob(done) PROVE PostTypes'
  <2>1. GoodLetter(vetterJob.msg, opened)
    BY <1>2, Zenon DEF RunVetterJob, Typed, VetterTypes, GoodJob
  <2>2. post' \subseteq post \cup {vetterJob.msg}
    BY <1>2, Zenon DEF RunVetterJob, Leaves
  <2>3. UNCHANGED <<opened, expired, overwritten>>
    BY <1>2, Zenon DEF RunVetterJob
  <2> QED BY <1>a, <1>b, <2>1, <2>2, <2>3
<1>3. ASSUME NEW m \in post, NEW eligible \in BOOLEAN, take_request(m, eligible) PROVE PostTypes'
  <2>1. m.doc \in Docs
    BY <1>3, <1>a DEF take_request, GoodLetter
  <2>2. \A k \in {"accept", "refuse"} : GoodLetter(Letter(k, m.doc, 0, Nothing), opened)
    BY <1>a, <2>1, GoodLetters DEF PostKinds
  <2>3. post' \subseteq post \cup {Letter("accept", m.doc, 0, Nothing), Letter("refuse", m.doc, 0, Nothing)}
    BY <1>3 DEF take_request
  <2> QED BY <1>3, <1>a, <1>b, <2>2, <2>3 DEF take_request
<1>4. ASSUME NEW m \in post, on_session(m) PROVE PostTypes'
  <2>1. m.doc \in Docs /\ m.session \in 1..opened
    BY <1>4, <1>a DEF on_session, Reply, GoodLetter
  <2>2. requests[m.doc].session \in 0..opened
    BY <2>1 DEF Typed, ApplicantTypes, GoodRequests, GoodRequest
  <2>3. ASSUME NEW s \in overwritten' PROVE s \in 1..opened
    <3>1. overwritten' = overwritten \/ overwritten' = overwritten \cup {t \in {requests[m.doc].session} : t > m.session}
      BY <1>4, Zenon DEF on_session
    <3>2. s \in overwritten \/ (s = requests[m.doc].session /\ s > m.session)
      BY <2>3, <3>1, Zenon
    <3>3. requests[m.doc].session > m.session => requests[m.doc].session \in 1..opened
      BY <1>a, <2>1, <2>2
    <3> QED BY <1>a, <3>2, <3>3, Zenon
  <2> QED BY <1>4, <1>a, <2>3 DEF on_session, Reply, Handling, vetterVars, PostTypes
<1>5. ASSUME NEW s \in 1..opened, Expire(s) PROVE PostTypes'
  BY <1>5, <1>a DEF Expire, vetterVars, PostTypes
<1>6. ASSUME NEW d \in Docs, open_session(d) PROVE PostTypes'
  <2>1. opened' = opened + 1
    BY <1>6 DEF open_session
  <2>2. \A m \in post : GoodLetter(m, opened')
    BY <1>a, <2>1, GoodGrows
  <2> QED BY <1>6, <1>a, <2>1, <2>2 DEF open_session, PostTypes
<1>7. ASSUME NEW m \in post, on_accepted(m) \/ on_refused(m) \/ on_statement(m) \/ on_decline(m) PROVE PostTypes'
  BY <1>7, <1>a, <1>b DEF on_accepted, on_refused, on_statement, on_decline, Reply, Handling, vetterVars
<1>8. ASSUME NEW m \in post, receive_card(m) \/ LosePost(m) PROVE PostTypes'
  BY <1>8, <1>a, <1>b DEF receive_card, LosePost, vetterVars
<1>9. CASE start_application \/ abandon_application \/ prune_applications \/ RequestOutcome \/ CardOutcome
  BY <1>9, <1>c DEF start_application, abandon_application, prune_applications, RequestOutcome, CardOutcome, vetterVars
<1>10. ASSUME NEW d \in Docs, request_vetter(d) PROVE PostTypes'
  BY <1>10, <1>c DEF request_vetter, vetterVars
<1>11. ASSUME NEW d \in Docs, NEW f \in Faces, send_card(d, f) PROVE PostTypes'
  BY <1>11, <1>c DEF send_card, vetterVars
<1>12. ASSUME NEW d \in Docs, attest(d) \/ decline(d) PROVE PostTypes'
  BY <1>12, <1>c DEF attest, decline
<1>13. CASE VetterOutcome \/ prune_desk
  BY <1>13, <1>c DEF VetterOutcome, prune_desk
<1>14. CASE UNCHANGED vettingVars
  BY <1>14, <1>c DEF vettingVars, vetterVars
<1> QED
  BY <1>1, <1>2, <1>3, <1>4, <1>5, <1>6, <1>7, <1>8, <1>9, <1>10, <1>11, <1>12, <1>13, <1>14, Zenon DEF VettingNext

-----------------------------------------------------------------------------
(* The vetter's desk. *)

(* A job of the vetter's is about an entry of the desk, in the state the    *)
(* job says.                                                                *)
VetterJobInv ==
    vetterJob # Idle =>
        /\ desk[vetterJob.msg.doc].state # "none"
        /\ vetterJob.msg.kind = "statement" => desk[vetterJob.msg.doc].state = "attested"
        /\ vetterJob.msg.kind = "decline" => desk[vetterJob.msg.doc].state = "declined"

(* A request that is on its way, or about to be sent, is not on the desk   *)
(* yet, and nothing else is under way about it.                            *)
RequestLetters == \A m \in post : m.kind = "request" => desk[m.doc].state = "none"
Asking ==
    applicantJob # Idle /\ applicantJob.done = "no" /\ applicantJob.msg.kind = "request" =>
        /\ desk[applicantJob.msg.doc].state = "none"
        /\ \A m \in post : m.doc # applicantJob.msg.doc

(* What a step is to the vetter. *)
VetterStep ==
    \/ UNCHANGED vetterVars /\ post' \subseteq post
    \/ \E m \in post : receive_card(m) \/ \E eligible \in BOOLEAN : take_request(m, eligible)
    \/ \E d \in Docs : open_session(d) \/ attest(d) \/ decline(d)
    \/ \E done \in {"sent", "failed"} : RunApplicantJob(done) \/ RunVetterJob(done)
    \/ VetterOutcome \/ prune_desk

LEMMA VetterSteps == [VettingNext]_vettingVars => VetterStep
<1> SUFFICES ASSUME [VettingNext]_vettingVars PROVE VetterStep
  OBVIOUS
<1>a. ASSUME UNCHANGED vetterVars, post' \subseteq post PROVE VetterStep
  BY <1>a, Zenon DEF VetterStep
<1>1. CASE start_application \/ abandon_application \/ prune_applications \/ RequestOutcome \/ CardOutcome
  BY <1>1, <1>a DEF start_application, abandon_application, prune_applications, RequestOutcome, CardOutcome
<1>2. ASSUME NEW d \in Docs, request_vetter(d) PROVE VetterStep
  BY <1>2, <1>a DEF request_vetter
<1>3. ASSUME NEW d \in Docs, NEW f \in Faces, send_card(d, f) PROVE VetterStep
  BY <1>3, <1>a DEF send_card
<1>4. ASSUME NEW m \in post, on_accepted(m) \/ on_refused(m) \/ on_session(m) \/ on_statement(m) \/ on_decline(m)
      PROVE  VetterStep
  BY <1>4, <1>a DEF on_accepted, on_refused, on_session, on_statement, on_decline, Reply, Handling
<1>5. ASSUME NEW m \in post, LosePost(m) PROVE VetterStep
  BY <1>5, <1>a DEF LosePost
<1>6. ASSUME NEW s \in 1..opened, Expire(s) PROVE VetterStep
  BY <1>6, <1>a DEF Expire
<1>7. CASE UNCHANGED vettingVars
  BY <1>7, <1>a DEF vettingVars
<1> QED BY <1>1, <1>2, <1>3, <1>4, <1>5, <1>6, <1>7, Zenon DEF VettingNext, VetterStep

(* A failed statement or decline, and what it is undone to. *)
Undoing == vetterJob # Idle /\ vetterJob.done = "failed" /\ vetterJob.msg.kind \in {"statement", "decline"}

LEMMA DeskFunction == Typed => desk \in [Docs -> DeskEntry]
  BY Zenon DEF Typed, VetterTypes, GoodEntries

LEMMA TidiedEntry ==
    ASSUME NEW es, NEW d \in Docs
    PROVE  Tidied(es)[d] = es[d] \/ (es[d].state = "session" /\ Tidied(es)[d] = Accepted)
<1>1. Tidied(es)[d] = IF es[d].state = "session" /\ es[d].session \in expired THEN Accepted ELSE es[d]
  BY Zenon DEF Tidied
<1>2. CASE es[d].state = "session" /\ es[d].session \in expired
  BY <1>1, <1>2, Zenon
<1>3. CASE ~(es[d].state = "session" /\ es[d].session \in expired)
  BY <1>1, <1>3, Zenon
<1> QED BY <1>2, <1>3, Zenon

LEMMA Outcome ==
    ASSUME Typed, VetterOutcome
    PROVE  /\ vetterJob # Idle /\ vetterJob' = Idle /\ vetterJob.done # "no"
           /\ UNCHANGED <<applicantVars, uses_left, opened, post, expired, overwritten>>
           /\ ~Undoing => UNCHANGED <<issued, restored>>
           /\ Undoing => /\ issued' = {st \in issued : st.doc # vetterJob.msg.doc}
                         /\ restored' = restored \cup {vetterJob.msg.doc}
                         /\ vetterJob.msg.doc \in Docs /\ GoodEntry(vetterJob.previous, opened)
                         /\ is_open(vetterJob.previous)
           /\ \A d \in Docs :
                IF Undoing /\ d = vetterJob.msg.doc
                THEN desk'[d] = vetterJob.previous \/ desk'[d] = Accepted
                ELSE desk'[d] = desk[d] \/ (desk[d].state = "session" /\ desk'[d] = Accepted)
<1>1. /\ vetterJob # Idle /\ vetterJob' = Idle /\ vetterJob.done # "no"
      /\ UNCHANGED <<applicantVars, uses_left, opened, post, expired, overwritten>>
  BY Zenon DEF VetterOutcome, Ended
<1>2. CASE Undoing
  <2>1. vetterJob.msg.doc \in Docs /\ GoodEntry(vetterJob.previous, opened) /\ is_open(vetterJob.previous)
    BY <1>2 DEF Undoing, Typed, VetterTypes, GoodJob, GoodLetter
  <2>2. Undone(vetterJob.msg.doc, vetterJob.previous)
    BY <1>2, Zenon DEF VetterOutcome, Undoing
  <2> DEFINE undone == [desk EXCEPT ![vetterJob.msg.doc] = vetterJob.previous]
  <2>3. \A d \in Docs : undone[d] = IF d = vetterJob.msg.doc THEN vetterJob.previous ELSE desk[d]
    BY DeskFunction, <2>1
  <2> HIDE DEF undone
  <2>4. desk' = Tidied(undone)
    BY <2>2, Zenon DEF Undone, undone
  <2>5. ASSUME NEW d \in Docs
        PROVE  IF d = vetterJob.msg.doc
               THEN desk'[d] = vetterJob.previous \/ desk'[d] = Accepted
               ELSE desk'[d] = desk[d] \/ (desk[d].state = "session" /\ desk'[d] = Accepted)
    BY <2>3, <2>4, TidiedEntry
  <2> QED BY <1>1, <1>2, <2>1, <2>2, <2>5, Zenon DEF Undone
<1>3. CASE ~Undoing
  <2>1. desk' = Tidied(desk) /\ UNCHANGED <<issued, restored>>
    BY <1>1, <1>3, Zenon DEF VetterOutcome, Undoing
  <2>2. \A d \in Docs : desk'[d] = desk[d] \/ (desk[d].state = "session" /\ desk'[d] = Accepted)
    BY <2>1, TidiedEntry, Zenon
  <2> QED BY <1>1, <1>3, <2>1, <2>2, Zenon
<1> QED BY <1>2, <1>3

LEMMA Pruned ==
    ASSUME prune_desk
    PROVE  \A d \in Docs : desk'[d] = desk[d] \/ (desk[d].state = "session" /\ desk'[d] = Accepted)
  BY TidiedEntry, Zenon DEF prune_desk

LEMMA ValueStates ==
    /\ Blank.state = "none" /\ Accepted.state = "accepted"
    /\ \A x, s, c : At(x, s, c).state = x
  BY AtParts DEF Blank, Accepted

LEMMA VetterJobStep ==
    ASSUME Typed, VetterJobInv, RequestLetters, [VettingNext]_vettingVars
    PROVE  VetterJobInv'
<1> USE ValueStates
<1>j. vetterJob # Idle => vetterJob.msg.doc \in Docs /\ vetterJob.msg.kind \in VetterKinds /\ vetterJob \in SendJob
  BY DEF Typed, VetterTypes, GoodJob, GoodLetter, VetterKinds
<1>a. ASSUME UNCHANGED vetterJob,
             \A d \in Docs : /\ desk[d].state # "none" => desk'[d].state # "none"
                             /\ desk[d].state \in {"attested", "declined"} => desk'[d].state = desk[d].state
      PROVE  VetterJobInv'
  BY <1>j, <1>a DEF VetterJobInv
<1>1. CASE UNCHANGED vetterVars
  BY <1>1, <1>a DEF vetterVars
<1>2. ASSUME NEW m \in post, receive_card(m) PROVE VetterJobInv'
  BY <1>2, <1>a DEF receive_card
<1>3. ASSUME NEW m \in post, NEW eligible \in BOOLEAN, take_request(m, eligible) PROVE VetterJobInv'
  <2>1. m.doc \in Docs /\ desk[m.doc].state = "none"
    BY <1>3 DEF take_request, RequestLetters, Typed, PostTypes, GoodLetter
  <2>2. vetterJob' = vetterJob /\ desk' \in {desk, [desk EXCEPT ![m.doc] = Accepted]}
    BY <1>3 DEF take_request
  <2>3. \A d \in Docs : d # m.doc => desk'[d] = desk[d]
    BY <2>1, <2>2, DeskFunction
  <2> QED BY <1>j, <2>1, <2>2, <2>3 DEF VetterJobInv
<1>4. ASSUME NEW d \in Docs, open_session(d) PROVE VetterJobInv'
  <2>1. vetterJob' = Send(Letter("session", d, opened + 1, Nothing), Nothing)
    BY <1>4, Zenon DEF open_session
  <2>2. desk'[d] = At("session", opened + 1, Nothing)
    BY <1>4, DeskFunction DEF open_session
  <2> QED BY <2>1, <2>2, SendParts, LetterParts DEF VetterJobInv
<1>5. ASSUME NEW d \in Docs, attest(d) PROVE VetterJobInv'
  <2>1. vetterJob' = Send(Letter("statement", d, desk[d].session, desk[d].card), desk[d]) /\ desk'[d].state = "attested"
    BY <1>5, DeskFunction DEF attest
  <2> QED BY <2>1, SendParts, LetterParts DEF VetterJobInv
<1>6. ASSUME NEW d \in Docs, decline(d) PROVE VetterJobInv'
  <2>1. vetterJob' = Send(Letter("decline", d, 0, Nothing), desk[d])
    BY <1>6, Zenon DEF decline
  <2>2. desk'[d] = At("declined", 0, Nothing)
    BY <1>6, DeskFunction DEF decline
  <2> QED BY <2>1, <2>2, SendParts, LetterParts DEF VetterJobInv
<1>7. ASSUME NEW done \in {"sent", "failed"}, RunApplicantJob(done) PROVE VetterJobInv'
  BY <1>7, <1>1, Zenon DEF RunApplicantJob
<1>8. ASSUME NEW done \in {"sent", "failed"}, RunVetterJob(done) PROVE VetterJobInv'
  <2>1. vetterJob # Idle /\ vetterJob' = [vetterJob EXCEPT !.done = done] /\ desk' = desk
    BY <1>8, Zenon DEF RunVetterJob
  <2>2. vetterJob'.msg = vetterJob.msg
    BY <1>j, <2>1, JobDone, Zenon
  <2> QED BY <2>1, <2>2, Zenon DEF VetterJobInv
<1>9. CASE VetterOutcome
  BY <1>9, Outcome DEF VetterJobInv
<1>10. CASE prune_desk
  BY <1>10, <1>a, Pruned DEF prune_desk
<1> QED
  BY <1>1, <1>2, <1>3, <1>4, <1>5, <1>6, <1>7, <1>8, <1>9, <1>10, VetterSteps, Zenon DEF VetterStep

(* Only a request that arrives puts something on the desk, and nothing is   *)
(* ever taken off it.                                                       *)
LEMMA DeskStays ==
    ASSUME Typed, VetterJobInv, VetterStep
    PROVE  \/ \E m \in post, eligible \in BOOLEAN : take_request(m, eligible)
           \/ \A d \in Docs : desk'[d].state = "none" <=> desk[d].state = "none"
<1> DEFINE Same == \A d \in Docs : desk'[d].state = "none" <=> desk[d].state = "none"
<1> USE ValueStates
<1>1. CASE UNCHANGED vetterVars
  BY <1>1, Zenon DEF vetterVars
<1>2. ASSUME NEW m \in post, receive_card(m) PROVE Same
  BY <1>2 DEF receive_card
<1>3. ASSUME NEW d \in Docs, open_session(d) PROVE Same
  BY <1>3, DeskFunction DEF open_session, is_open
<1>4. ASSUME NEW d \in Docs, attest(d) PROVE Same
  BY <1>4, DeskFunction DEF attest
<1>5. ASSUME NEW d \in Docs, decline(d) PROVE Same
  BY <1>5, DeskFunction DEF decline, is_open
<1>6. ASSUME NEW done \in {"sent", "failed"}, RunApplicantJob(done) \/ RunVetterJob(done) PROVE Same
  BY <1>6, Zenon DEF RunApplicantJob, RunVetterJob, vetterVars
<1>7. CASE VetterOutcome
  BY <1>7, Outcome DEF VetterJobInv, is_open
<1>8. CASE prune_desk
  BY <1>8, Pruned
<1> QED BY <1>1, <1>2, <1>3, <1>4, <1>5, <1>6, <1>7, <1>8, Zenon DEF VetterStep

(* What a step leaves on its way: what was, or a letter of one of the jobs, *)
(* or the answer to a request.                                              *)
PostStep ==
    \/ post' \subseteq post
    \/ /\ RunApplicantJob("sent") /\ post' = post \cup {applicantJob.msg}
       /\ applicantJob # Idle /\ applicantJob.done = "no"
    \/ /\ RunVetterJob("sent") /\ post' = post \cup {vetterJob.msg}
       /\ vetterJob # Idle /\ vetterJob.done = "no"
    \/ \E m \in post, eligible \in BOOLEAN, k \in {"accept", "refuse"} :
          take_request(m, eligible) /\ post' = (post \ {m}) \cup {Letter(k, m.doc, 0, Nothing)}

LEMMA PostGains == VetterStep => PostStep
<1> SUFFICES ASSUME VetterStep PROVE PostStep
  OBVIOUS
<1>a. CASE post' \subseteq post
  BY <1>a, Zenon DEF PostStep
<1>1. ASSUME NEW m \in post, receive_card(m) PROVE PostStep
  BY <1>1, <1>a DEF receive_card
<1>2. ASSUME NEW d \in Docs, open_session(d) \/ attest(d) \/ decline(d) PROVE PostStep
  BY <1>2, <1>a, Zenon DEF open_session, attest, decline
<1>3. CASE VetterOutcome \/ prune_desk
  BY <1>3, <1>a, Zenon DEF VetterOutcome, prune_desk
<1>4. ASSUME NEW done \in {"sent", "failed"}, RunApplicantJob(done) PROVE PostStep
  <2>1. CASE UNCHANGED post
    BY <2>1, <1>a, Zenon
  <2>2. CASE done = "sent" /\ post' = post \cup {applicantJob.msg}
    BY <1>4, <2>2, Zenon DEF RunApplicantJob, PostStep
  <2> QED BY <1>4, <2>1, <2>2, Zenon DEF RunApplicantJob, Leaves
<1>5. ASSUME NEW done \in {"sent", "failed"}, RunVetterJob(done) PROVE PostStep
  <2>1. CASE UNCHANGED post
    BY <2>1, <1>a, Zenon
  <2>2. CASE done = "sent" /\ post' = post \cup {vetterJob.msg}
    BY <1>5, <2>2, Zenon DEF RunVetterJob, PostStep
  <2> QED BY <1>5, <2>1, <2>2, Zenon DEF RunVetterJob, Leaves
<1>6. ASSUME NEW m \in post, NEW eligible \in BOOLEAN, take_request(m, eligible) PROVE PostStep
  <2>1. \E k \in {"accept", "refuse"} : post' = (post \ {m}) \cup {Letter(k, m.doc, 0, Nothing)}
    BY <1>6, Zenon DEF take_request
  <2> QED BY <1>6, <2>1, Zenon DEF PostStep
<1> QED BY <1>a, <1>1, <1>2, <1>3, <1>4, <1>5, <1>6, Zenon DEF VetterStep

(* What a step is to the applicant's job. *)
LEMMA JobSteps ==
    ASSUME [VettingNext]_vettingVars
    PROVE  \/ applicantJob' = applicantJob
           \/ applicantJob' = Idle /\ (RequestOutcome \/ CardOutcome)
           \/ \E d \in Docs : request_vetter(d)
           \/ \E d \in Docs, f \in Faces : send_card(d, f)
           \/ \E done \in {"sent", "failed"} : RunApplicantJob(done)
<1>1. CASE start_application \/ abandon_application \/ prune_applications
  BY <1>1, Zenon DEF start_application, abandon_application, prune_applications
<1>2. CASE RequestOutcome \/ CardOutcome
  BY <1>2, Zenon DEF RequestOutcome, CardOutcome
<1>3. ASSUME NEW m \in post, \/ on_accepted(m) \/ on_refused(m) \/ on_session(m) \/ on_statement(m) \/ on_decline(m)
                             \/ receive_card(m) \/ LosePost(m)
      PROVE  applicantJob' = applicantJob
  BY <1>3 DEF on_accepted, on_refused, on_session, on_statement, on_decline, receive_card, LosePost, Handling,
     applicantVars
<1>4. ASSUME NEW m \in post, NEW eligible \in BOOLEAN, take_request(m, eligible) PROVE applicantJob' = applicantJob
  BY <1>4 DEF take_request, applicantVars
<1>5. ASSUME NEW d \in Docs, open_session(d) \/ attest(d) \/ decline(d) PROVE applicantJob' = applicantJob
  BY <1>5 DEF open_session, attest, decline, applicantVars
<1>6. ASSUME NEW done \in {"sent", "failed"}, RunVetterJob(done) PROVE applicantJob' = applicantJob
  BY <1>6, Zenon DEF RunVetterJob, applicantVars
<1>7. CASE VetterOutcome \/ prune_desk
  BY <1>7, Zenon DEF VetterOutcome, prune_desk, applicantVars
<1>8. ASSUME NEW s \in 1..opened, Expire(s) PROVE applicantJob' = applicantJob
  BY <1>8, Zenon DEF Expire, applicantVars
<1>9. CASE UNCHANGED vettingVars
  BY <1>9, Zenon DEF vettingVars, applicantVars
<1> QED BY <1>1, <1>2, <1>3, <1>4, <1>5, <1>6, <1>7, <1>8, <1>9, Zenon DEF VettingNext

LEMMA RequestLettersStep ==
    ASSUME Typed, VetterJobInv, RequestLetters, Asking, [VettingNext]_vettingVars
    PROVE  RequestLetters'
<1>v. VetterStep
  BY VetterSteps
<1>d. \A m \in post : m.kind = "request" => m.doc \in Docs
  BY Zenon DEF Typed, PostTypes, GoodLetter
<1>k. /\ applicantJob # Idle /\ applicantJob.msg.kind = "request" => applicantJob.msg.doc \in Docs
      /\ vetterJob # Idle => vetterJob.msg.kind # "request"
  BY DEF Typed, ApplicantTypes, VetterTypes, GoodJob, GoodLetter, VetterKinds
<1>1. ASSUME NEW m \in post, NEW eligible \in BOOLEAN, NEW k \in {"accept", "refuse"}, take_request(m, eligible),
             post' = (post \ {m}) \cup {Letter(k, m.doc, 0, Nothing)}
      PROVE  RequestLetters'
  <2>1. m.kind = "request" /\ desk' \in {desk, [desk EXCEPT ![m.doc] = Accepted]} /\ m.doc \in Docs
    BY <1>1, <1>d DEF take_request
  <2>2. ASSUME NEW l \in post', l.kind = "request" PROVE desk'[l.doc].state = "none"
    <3>1. l \in post /\ l # m
      BY <1>1, <2>2, LetterParts
    <3>2. l = Letter("request", l.doc, 0, Nothing) /\ m = Letter("request", m.doc, 0, Nothing)
      BY <2>1, <2>2, <3>1, Zenon DEF Typed, PostTypes, GoodLetter
    <3>3. l.doc # m.doc /\ l.doc \in Docs
      BY <1>d, <2>2, <3>1, <3>2
    <3>4. desk'[l.doc] = desk[l.doc]
      BY <2>1, <3>3, DeskFunction
    <3> QED BY <2>2, <3>1, <3>4 DEF RequestLetters
  <2> QED BY <2>2, Zenon DEF RequestLetters
<1>2. ASSUME \A d \in Docs : desk'[d].state = "none" <=> desk[d].state = "none",
             \A m \in post' : m.kind = "request" => m.doc \in Docs /\ desk[m.doc].state = "none"
      PROVE  RequestLetters'
  BY <1>2, Zenon DEF RequestLetters
<1>3. CASE post' \subseteq post /\ \A d \in Docs : desk'[d].state = "none" <=> desk[d].state = "none"
  BY <1>2, <1>3, <1>d, Zenon DEF RequestLetters
<1>4. CASE RunApplicantJob("sent") /\ post' = post \cup {applicantJob.msg} /\ applicantJob # Idle /\ applicantJob.done = "no"
  <2>1. desk' = desk
    BY <1>4, Zenon DEF RunApplicantJob, vetterVars
  <2>2. \A m \in post' : m.kind = "request" => m.doc \in Docs /\ desk[m.doc].state = "none"
    BY <1>4, <1>d, <1>k DEF RequestLetters, Asking
  <2> QED BY <1>2, <2>1, <2>2, Zenon
<1>5. CASE RunVetterJob("sent") /\ post' = post \cup {vetterJob.msg} /\ vetterJob # Idle
  <2>1. desk' = desk
    BY <1>5, Zenon DEF RunVetterJob
  <2>2. \A m \in post' : m.kind = "request" => m.doc \in Docs /\ desk[m.doc].state = "none"
    BY <1>5, <1>d, <1>k DEF RequestLetters
  <2> QED BY <1>2, <2>1, <2>2, Zenon
<1>6. CASE post' \subseteq post /\ \E m \in post, eligible \in BOOLEAN : take_request(m, eligible)
  <2>1. PICK m \in post, eligible \in BOOLEAN : take_request(m, eligible)
    BY <1>6
  <2>2. \E k \in {"accept", "refuse"} : post' = (post \ {m}) \cup {Letter(k, m.doc, 0, Nothing)}
    BY <2>1, Zenon DEF take_request
  <2> QED BY <1>1, <2>1, <2>2, Zenon
<1> QED
  BY <1>v, <1>1, <1>3, <1>4, <1>5, <1>6, DeskStays, PostGains, Zenon DEF PostStep

LEMMA AskingStep ==
    ASSUME Typed, VetterJobInv, RequestLetters, Asking, [VettingNext]_vettingVars
    PROVE  Asking'
<1>v. VetterStep
  BY VetterSteps
<1>k. /\ applicantJob # Idle /\ applicantJob.msg.kind = "request" => applicantJob.msg.doc \in Docs
      /\ \A m \in post : m.kind = "request" => m.doc \in Docs
      /\ vetterJob # Idle => vetterJob.msg.doc \in Docs
  BY DEF Typed, ApplicantTypes, VetterTypes, PostTypes, GoodJob, GoodLetter, VetterKinds
<1>1. CASE applicantJob' = Idle
  BY <1>1, Zenon DEF Asking
<1>2. ASSUME NEW d \in Docs, request_vetter(d) PROVE Asking'
  <2>1. applicantJob' = Send(Letter("request", d, 0, Nothing), Nothing) /\ desk' = desk /\ post' = post /\ ~Used(d)
    BY <1>2, Zenon DEF request_vetter, vetterVars, Fresh
  <2> QED BY <2>1, SendParts, LetterParts DEF Asking, Used
<1>3. ASSUME NEW d \in Docs, NEW f \in Faces, send_card(d, f) PROVE Asking'
  <2>1. applicantJob'.msg.kind = "card"
    BY <1>3, SendParts, LetterParts DEF send_card
  <2> QED BY <2>1 DEF Asking
<1>4. ASSUME NEW done \in {"sent", "failed"}, RunApplicantJob(done) PROVE Asking'
  <2>1. applicantJob' = [applicantJob EXCEPT !.done = done] /\ applicantJob \in SendJob
    BY <1>4, Zenon DEF RunApplicantJob, Typed, ApplicantTypes, GoodJob
  <2>2. applicantJob'.done = done
    BY <2>1, JobDone, Zenon
  <2> QED BY <2>2 DEF Asking
<1>5. CASE applicantJob' = applicantJob /\ applicantJob # Idle /\ applicantJob.done = "no" /\ applicantJob.msg.kind = "request"
  <2> DEFINE d == applicantJob.msg.doc
  <2>1. d \in Docs /\ desk[d].state = "none" /\ \A m \in post : m.doc # d
    BY <1>5, <1>k, Zenon DEF Asking
  <2> HIDE DEF d
  <2>2. desk'[d].state = "none"
    <3>1. ASSUME NEW m \in post, NEW eligible \in BOOLEAN, take_request(m, eligible) PROVE desk'[d].state = "none"
      <4>1. m.doc # d /\ m.doc \in Docs /\ desk' \in {desk, [desk EXCEPT ![m.doc] = Accepted]}
        BY <2>1, <3>1, <1>k DEF take_request
      <4> QED BY <2>1, <4>1, DeskFunction
    <3> QED BY <1>v, <2>1, <3>1, DeskStays, Zenon
  <2>3. \A m \in post' : m.doc # d
    <3>1. CASE post' \subseteq post
      BY <2>1, <3>1
    <3>2. CASE RunApplicantJob("sent")
      <4>1. applicantJob' = [applicantJob EXCEPT !.done = "sent"] /\ applicantJob \in SendJob
        BY <3>2, Zenon DEF RunApplicantJob, Typed, ApplicantTypes, GoodJob
      <4>2. applicantJob'.done = "sent"
        BY <4>1, JobDone, Zenon
      <4> QED BY <1>5, <4>2
    <3>3. CASE vetterJob # Idle /\ post' = post \cup {vetterJob.msg}
      BY <2>1, <3>3, <1>k DEF VetterJobInv
    <3>4. ASSUME NEW m \in post, NEW k \in {"accept", "refuse"}, post' = (post \ {m}) \cup {Letter(k, m.doc, 0, Nothing)}
          PROVE  \A l \in post' : l.doc # d
      BY <2>1, <3>4, LetterParts
    <3> QED BY <1>v, <3>1, <3>2, <3>3, <3>4, PostGains, Zenon DEF PostStep
  <2> QED BY <1>5, <2>2, <2>3, Zenon DEF Asking, d
<1>6. CASE applicantJob' = applicantJob /\ ~(applicantJob # Idle /\ applicantJob.done = "no" /\ applicantJob.msg.kind = "request")
  BY <1>6, Zenon DEF Asking
<1> QED BY <1>1, <1>2, <1>3, <1>4, <1>5, <1>6, JobSteps, Zenon

-----------------------------------------------------------------------------
(* What the vetter signed. *)

StatementOf(m) == [doc |-> m.doc, session |-> m.session, card |-> m.card]

(* An entry of the list stands behind a signed entry of the desk. *)
SignedDesk == \A st \in issued : desk[st.doc].state = "attested"

(* A statement under way is on the list, and one that has not left is       *)
(* nowhere else.                                                            *)
SignedLetters ==
    /\ \A m \in post : m.kind = "statement" => StatementOf(m) \in issued
    /\ vetterJob # Idle /\ vetterJob.msg.kind = "statement" =>
        /\ StatementOf(vetterJob.msg) \in issued
        /\ vetterJob.done # "sent" => \A m \in post : m.kind = "statement" => m.doc # vetterJob.msg.doc

SignedHeld ==
    /\ statements \subseteq issued
    /\ vetterJob # Idle /\ vetterJob.msg.kind = "statement" /\ vetterJob.done # "sent" =>
        \A st \in statements : st.doc # vetterJob.msg.doc

Signed == SignedDesk /\ SignedLetters /\ SignedHeld

(* What is true of the desk wherever an invariant of the books is proved. *)
DeskInv == Typed /\ VetterJobInv /\ RequestLetters

LEMMA StatementSteps ==
    ASSUME [VettingNext]_vettingVars
    PROVE  \/ statements' \subseteq statements
           \/ \E m \in post : /\ on_statement(m) /\ m.kind = "statement" /\ Answers(m)
                              /\ statements' = statements \cup {StatementOf(m)}
<1>1. CASE start_application \/ abandon_application \/ prune_applications
  BY <1>1 DEF start_application, abandon_application, prune_applications
<1>2. CASE RequestOutcome \/ CardOutcome
  BY <1>2 DEF RequestOutcome, CardOutcome
<1>3. ASSUME NEW d \in Docs, request_vetter(d) PROVE statements' \subseteq statements
  BY <1>3 DEF request_vetter
<1>4. ASSUME NEW d \in Docs, NEW f \in Faces, send_card(d, f) PROVE statements' \subseteq statements
  BY <1>4 DEF send_card
<1>5. ASSUME NEW m \in post, \/ on_accepted(m) \/ on_refused(m) \/ on_session(m) \/ on_decline(m)
                             \/ receive_card(m) \/ LosePost(m)
      PROVE  statements' \subseteq statements
  BY <1>5 DEF on_accepted, on_refused, on_session, on_decline, receive_card, LosePost, applicantVars
<1>6. ASSUME NEW m \in post, NEW eligible \in BOOLEAN, take_request(m, eligible) PROVE statements' \subseteq statements
  BY <1>6 DEF take_request, applicantVars
<1>7. ASSUME NEW d \in Docs, open_session(d) \/ attest(d) \/ decline(d) PROVE statements' \subseteq statements
  BY <1>7 DEF open_session, attest, decline, applicantVars
<1>8. ASSUME NEW done \in {"sent", "failed"}, RunApplicantJob(done) \/ RunVetterJob(done)
      PROVE  statements' \subseteq statements
  <2>1. statements' = statements
    BY <1>8, Zenon DEF RunApplicantJob, RunVetterJob, applicantVars
  <2> QED BY <2>1
<1>9. CASE VetterOutcome \/ prune_desk
  BY <1>9 DEF VetterOutcome, prune_desk, applicantVars
<1>10. ASSUME NEW s \in 1..opened, Expire(s) PROVE statements' \subseteq statements
  BY <1>10 DEF Expire, applicantVars
<1>11. CASE UNCHANGED vettingVars
  BY <1>11 DEF vettingVars, applicantVars
<1>12. ASSUME NEW m \in post, on_statement(m)
       PROVE  \/ statements' \subseteq statements
              \/ m.kind = "statement" /\ Answers(m) /\ statements' = statements \cup {StatementOf(m)}
  <2>1. CASE Answers(m)
    BY <1>12, <2>1, Zenon DEF on_statement, Reply, StatementOf
  <2>2. CASE ~Answers(m)
    BY <1>12, <2>2 DEF on_statement
  <2> QED BY <2>1, <2>2
<1> QED
  BY <1>1, <1>2, <1>3, <1>4, <1>5, <1>6, <1>7, <1>8, <1>9, <1>10, <1>11, <1>12, Zenon DEF VettingNext

LEMMA IssuedSteps ==
    ASSUME VetterStep, Typed
    PROVE  \/ issued' = issued
           \/ \E d \in Docs : attest(d) /\ issued' = issued \cup {[doc |-> d, session |-> desk[d].session, card |-> desk[d].card]}
           \/ VetterOutcome /\ Undoing
<1>1. CASE UNCHANGED vetterVars
  BY <1>1, Zenon DEF vetterVars
<1>2. ASSUME NEW m \in post, receive_card(m) PROVE issued' = issued
  BY <1>2, Zenon DEF receive_card
<1>3. ASSUME NEW m \in post, NEW eligible \in BOOLEAN, take_request(m, eligible) PROVE issued' = issued
  BY <1>3, Zenon DEF take_request
<1>4. ASSUME NEW d \in Docs, open_session(d) \/ decline(d) PROVE issued' = issued
  BY <1>4, Zenon DEF open_session, decline
<1>5. ASSUME NEW d \in Docs, attest(d)
      PROVE  issued' = issued \cup {[doc |-> d, session |-> desk[d].session, card |-> desk[d].card]}
  BY <1>5, Zenon DEF attest
<1>6. ASSUME NEW done \in {"sent", "failed"}, RunApplicantJob(done) \/ RunVetterJob(done) PROVE issued' = issued
  BY <1>6, Zenon DEF RunApplicantJob, RunVetterJob, vetterVars
<1>7. CASE VetterOutcome /\ ~Undoing
  BY <1>7, Outcome
<1>8. CASE prune_desk
  BY <1>8, Zenon DEF prune_desk
<1> QED BY <1>1, <1>2, <1>3, <1>4, <1>5, <1>6, <1>7, <1>8, Zenon DEF VetterStep

(* A signed entry stays signed, and a declined one declined, unless the     *)
(* send that said so is undone.                                             *)
LEMMA ClosedStays ==
    ASSUME DeskInv, VetterStep, NEW d \in Docs, desk[d].state \in {"attested", "declined"},
           ~(VetterOutcome /\ Undoing /\ vetterJob.msg.doc = d)
    PROVE  desk'[d].state = desk[d].state
<1> USE DEF DeskInv
<1>1. CASE UNCHANGED vetterVars
  BY <1>1, Zenon DEF vetterVars
<1>2. ASSUME NEW m \in post, receive_card(m) PROVE desk'[d].state = desk[d].state
  BY <1>2 DEF receive_card
<1>3. ASSUME NEW m \in post, NEW eligible \in BOOLEAN, take_request(m, eligible) PROVE desk'[d].state = desk[d].state
  <2>1. m.doc # d /\ m.doc \in Docs /\ desk' \in {desk, [desk EXCEPT ![m.doc] = Accepted]}
    BY <1>3 DEF take_request, RequestLetters, Typed, PostTypes, GoodLetter
  <2> QED BY <2>1, DeskFunction
<1>4. ASSUME NEW k \in Docs, open_session(k) \/ attest(k) \/ decline(k) PROVE desk'[d].state = desk[d].state
  <2>1. k # d
    BY <1>4 DEF open_session, attest, decline, is_open
  <2>2. desk'[d] = desk[d]
    BY <1>4, <2>1, DeskFunction DEF open_session, attest, decline
  <2> QED BY <2>2
<1>5. ASSUME NEW done \in {"sent", "failed"}, RunApplicantJob(done) \/ RunVetterJob(done)
      PROVE  desk'[d].state = desk[d].state
  BY <1>5, Zenon DEF RunApplicantJob, RunVetterJob, vetterVars
<1>6. CASE VetterOutcome
  BY <1>6, Outcome
<1>7. CASE prune_desk
  BY <1>7, Pruned
<1> QED BY <1>1, <1>2, <1>3, <1>4, <1>5, <1>6, <1>7, Zenon DEF VetterStep

(* What is undone, nobody has. *)
LEMMA UndoneAlone ==
    ASSUME DeskInv, Signed, Undoing
    PROVE  /\ \A m \in post : m.kind = "statement" => m.doc # vetterJob.msg.doc
           /\ \A st \in statements : st.doc # vetterJob.msg.doc
<1>1. CASE vetterJob.msg.kind = "statement"
  BY <1>1 DEF Undoing, Signed, SignedLetters, SignedHeld
<1>2. CASE vetterJob.msg.kind = "decline"
  <2>1. desk[vetterJob.msg.doc].state = "declined"
    BY <1>2 DEF Undoing, DeskInv, VetterJobInv
  <2>2. \A st \in issued : st.doc # vetterJob.msg.doc
    BY <2>1 DEF Signed, SignedDesk
  <2>3. \A m \in post : m.kind = "statement" => StatementOf(m).doc = m.doc /\ StatementOf(m) \in issued
    BY DEF Signed, SignedLetters, StatementOf
  <2> QED BY <2>2, <2>3 DEF Signed, SignedHeld
<1> QED BY <1>1, <1>2 DEF Undoing

LEMMA SignedDeskStep ==
    ASSUME DeskInv, SignedDesk, [VettingNext]_vettingVars
    PROVE  SignedDesk'
<1>v. VetterStep
  BY VetterSteps
<1>t. \A st \in issued : st.doc \in Docs
  BY DEF DeskInv, Typed, VetterTypes, Statement
<1>1. CASE issued' = issued /\ ~(VetterOutcome /\ Undoing)
  BY <1>v, <1>t, <1>1, ClosedStays DEF SignedDesk
<1>2. ASSUME NEW d \in Docs, attest(d),
             issued' = issued \cup {[doc |-> d, session |-> desk[d].session, card |-> desk[d].card]}
      PROVE  SignedDesk'
  <2>1. desk' = [desk EXCEPT ![d] = At("attested", 0, Nothing)]
    BY <1>2 DEF attest
  <2>2. \A k \in Docs : desk'[k].state = "attested" \/ desk'[k] = desk[k]
    BY <2>1, DeskFunction, ValueStates DEF DeskInv
  <2>3. desk'[d].state = "attested"
    BY <2>1, DeskFunction, ValueStates DEF DeskInv
  <2> QED BY <1>t, <1>2, <2>2, <2>3 DEF SignedDesk
<1>3. CASE VetterOutcome /\ Undoing
  <2>1. \A st \in issued' : st \in issued /\ st.doc # vetterJob.msg.doc
    BY <1>3, Outcome DEF DeskInv
  <2>2. \A d \in Docs : d # vetterJob.msg.doc /\ desk[d].state = "attested" => desk'[d].state = "attested"
    BY <1>3, Outcome DEF DeskInv
  <2> QED BY <1>t, <2>1, <2>2 DEF SignedDesk
<1> QED BY <1>v, <1>1, <1>2, <1>3, IssuedSteps, Zenon DEF DeskInv

(* The vetter's job in a step that leaves it: as it was, or marked done.    *)
VetterJobKept ==
    /\ vetterJob' # Idle /\ vetterJob # Idle /\ vetterJob'.msg = vetterJob.msg
    /\ vetterJob.msg.kind # "session" => vetterJob'.previous = vetterJob.previous
    /\ \/ vetterJob'.done = vetterJob.done
       \/ vetterJob.done = "no" /\ \E done \in {"sent", "failed"} : RunVetterJob(done) /\ vetterJob'.done = done

LEMMA VetterJobSteps ==
    ASSUME Typed, VetterStep
    PROVE  \/ vetterJob' = Idle \/ VetterJobKept
           \/ \E d \in Docs : open_session(d) \/ attest(d) \/ decline(d)
<1>a. CASE vetterJob' = vetterJob
  BY <1>a, Zenon DEF VetterJobKept
<1>1. ASSUME NEW m \in post, receive_card(m) PROVE vetterJob' = vetterJob
  BY <1>1, Zenon DEF receive_card
<1>2. ASSUME NEW m \in post, NEW eligible \in BOOLEAN, take_request(m, eligible) PROVE vetterJob' = vetterJob
  BY <1>2, Zenon DEF take_request
<1>3. ASSUME NEW done \in {"sent", "failed"}, RunVetterJob(done) PROVE vetterJob' = Idle \/ VetterJobKept
  <2>1. vetterJob # Idle /\ vetterJob.done = "no" /\ vetterJob' = [vetterJob EXCEPT !.done = done] /\ vetterJob \in SendJob
    BY <1>3, Zenon DEF RunVetterJob, Typed, VetterTypes, GoodJob
  <2>2. vetterJob'.msg = vetterJob.msg /\ vetterJob'.previous = vetterJob.previous /\ vetterJob'.done = done
    BY <2>1, JobDone, Zenon
  <2> QED BY <1>3, <2>1, <2>2, Zenon DEF VetterJobKept
<1>4. ASSUME NEW done \in {"sent", "failed"}, RunApplicantJob(done) PROVE vetterJob' = vetterJob
  BY <1>4, Zenon DEF RunApplicantJob, vetterVars
<1>5. CASE VetterOutcome
  BY <1>5, Zenon DEF VetterOutcome
<1>6. CASE prune_desk
  BY <1>6, <1>a, Zenon DEF prune_desk
<1>7. CASE UNCHANGED vetterVars
  BY <1>7, <1>a, Zenon DEF vetterVars
<1> QED BY <1>a, <1>1, <1>2, <1>3, <1>4, <1>5, <1>6, <1>7, Zenon DEF VetterStep

(* A letter of the vetter's that is new is the one its job sends. *)
LEMMA VetterLetters ==
    ASSUME Typed, VetterStep, NEW m \in post', m.kind \in {"session", "statement", "decline"}
    PROVE  \/ m \in post
           \/ RunVetterJob("sent") /\ vetterJob # Idle /\ vetterJob.done = "no" /\ m = vetterJob.msg
<1>1. applicantJob # Idle => applicantJob.msg.kind \in {"request", "card"}
  BY DEF Typed, ApplicantTypes, GoodJob, ApplicantKinds
<1>2. CASE post' \subseteq post
  BY <1>2
<1>3. CASE post' = post \cup {applicantJob.msg} /\ applicantJob # Idle
  BY <1>1, <1>3
<1>4. CASE RunVetterJob("sent") /\ post' = post \cup {vetterJob.msg} /\ vetterJob # Idle /\ vetterJob.done = "no"
  BY <1>4, Zenon
<1>5. ASSUME NEW l \in post, NEW k \in {"accept", "refuse"}, post' = (post \ {l}) \cup {Letter(k, l.doc, 0, Nothing)}
      PROVE  m \in post
  BY <1>5, LetterParts
<1> QED BY <1>2, <1>3, <1>4, <1>5, PostGains, Zenon DEF PostStep

LEMMA SentIsDone ==
    ASSUME Typed, RunVetterJob("sent")
    PROVE  vetterJob'.done = "sent"
<1>1. vetterJob' = [vetterJob EXCEPT !.done = "sent"] /\ vetterJob \in SendJob
  BY Zenon DEF RunVetterJob, Typed, VetterTypes, GoodJob
<1> QED BY <1>1, JobDone, Zenon

LEMMA SignedLettersStep ==
    ASSUME DeskInv, Signed, [VettingNext]_vettingVars
    PROVE  SignedLetters'
<1>v. VetterStep /\ Typed
  BY VetterSteps DEF DeskInv
<1>1. ASSUME NEW m \in post', m.kind = "statement" PROVE StatementOf(m) \in issued'
  <2>1. StatementOf(m) \in issued
    BY <1>v, <1>1, VetterLetters DEF Signed, SignedLetters
  <2>2. CASE VetterOutcome /\ Undoing
    <3>1. m \in post /\ StatementOf(m).doc = m.doc
      BY <1>v, <2>2, Outcome DEF StatementOf
    <3>2. m.doc # vetterJob.msg.doc
      BY <1>1, <2>2, <3>1, UndoneAlone
    <3> QED BY <1>v, <2>1, <2>2, <3>1, <3>2, Outcome
  <2>3. CASE issued \subseteq issued'
    BY <2>1, <2>3
  <2> QED BY <1>v, <2>2, <2>3, IssuedSteps
<1>2. ASSUME vetterJob' # Idle, vetterJob'.msg.kind = "statement"
      PROVE  /\ StatementOf(vetterJob'.msg) \in issued'
             /\ vetterJob'.done # "sent" => \A m \in post' : m.kind = "statement" => m.doc # vetterJob'.msg.doc
  <2>1. CASE VetterJobKept
    <3>1. issued \subseteq issued'
      BY <1>v, <2>1, IssuedSteps, Outcome DEF VetterJobKept
    <3>2. StatementOf(vetterJob'.msg) \in issued'
      BY <1>2, <2>1, <3>1 DEF VetterJobKept, Signed, SignedLetters
    <3>3. ASSUME vetterJob'.done # "sent", NEW m \in post', m.kind = "statement" PROVE m.doc # vetterJob'.msg.doc
      <4>1. vetterJob.done # "sent"
        BY <2>1, <3>3 DEF VetterJobKept
      <4>2. m \in post
        BY <1>v, <3>3, VetterLetters, SentIsDone
      <4> QED BY <1>2, <2>1, <3>3, <4>1, <4>2 DEF VetterJobKept, Signed, SignedLetters
    <3> QED BY <3>2, <3>3
  <2>2. ASSUME NEW d \in Docs, attest(d)
        PROVE  /\ StatementOf(vetterJob'.msg) \in issued'
               /\ \A m \in post' : m.kind = "statement" => m.doc # vetterJob'.msg.doc
    <3>1. vetterJob'.msg = Letter("statement", d, desk[d].session, desk[d].card)
      BY <2>2, SendParts DEF attest
    <3>2. StatementOf(vetterJob'.msg) = [doc |-> d, session |-> desk[d].session, card |-> desk[d].card]
      BY <3>1, LetterParts DEF StatementOf
    <3>3. StatementOf(vetterJob'.msg) \in issued'
      BY <2>2, <3>2 DEF attest
    <3>4. ASSUME NEW m \in post, m.kind = "statement" PROVE m.doc # d
      <4>1. StatementOf(m) \in issued /\ StatementOf(m).doc = m.doc
        BY <3>4 DEF Signed, SignedLetters, StatementOf
      <4>2. desk[m.doc].state = "attested"
        BY <4>1, Zenon DEF Signed, SignedDesk
      <4> QED BY <2>2, <4>2 DEF attest
    <3> QED BY <2>2, <3>1, <3>3, <3>4, LetterParts DEF attest
  <2>3. ASSUME NEW d \in Docs, open_session(d) \/ decline(d) PROVE vetterJob'.msg.kind # "statement"
    BY <2>3, SendParts, LetterParts DEF open_session, decline
  <2> QED BY <1>v, <1>2, <2>1, <2>2, <2>3, VetterJobSteps, Zenon
<1> QED BY <1>1, <1>2, Zenon DEF SignedLetters

LEMMA SignedHeldStep ==
    ASSUME DeskInv, Signed, [VettingNext]_vettingVars
    PROVE  SignedHeld'
<1>v. VetterStep /\ Typed
  BY VetterSteps DEF DeskInv
<1>1. ASSUME NEW st \in statements' PROVE st \in issued'
  <2>1. st \in issued
    BY <1>1, StatementSteps DEF Signed, SignedHeld, SignedLetters
  <2>2. CASE VetterOutcome /\ Undoing
    <3>1. st \in statements
      BY <1>v, <1>1, <2>2, Outcome DEF applicantVars
    <3>2. st.doc # vetterJob.msg.doc
      BY <2>2, <3>1, UndoneAlone
    <3> QED BY <1>v, <2>1, <2>2, <3>2, Outcome
  <2>3. CASE issued \subseteq issued'
    BY <2>1, <2>3
  <2> QED BY <1>v, <2>2, <2>3, IssuedSteps
<1>2. ASSUME vetterJob' # Idle, vetterJob'.msg.kind = "statement", vetterJob'.done # "sent", NEW st \in statements'
      PROVE  st.doc # vetterJob'.msg.doc
  <2>1. CASE VetterJobKept
    <3>1. vetterJob # Idle /\ vetterJob.done # "sent" /\ vetterJob.msg.kind = "statement" /\ vetterJob'.msg = vetterJob.msg
      BY <1>2, <2>1 DEF VetterJobKept
    <3>2. CASE st \in statements
      BY <3>1, <3>2 DEF Signed, SignedHeld
    <3>3. ASSUME NEW m \in post, m.kind = "statement", st = StatementOf(m) PROVE st.doc # vetterJob'.msg.doc
      BY <3>1, <3>3 DEF Signed, SignedLetters, StatementOf
    <3> QED BY <1>2, <3>2, <3>3, StatementSteps
  <2>2. ASSUME NEW d \in Docs, attest(d) PROVE st.doc # vetterJob'.msg.doc
    <3>1. vetterJob'.msg.doc = d
      BY <2>2, SendParts, LetterParts DEF attest
    <3>2. st \in issued
      BY <1>2, <2>2 DEF attest, applicantVars, Signed, SignedHeld
    <3> QED BY <2>2, <3>1, <3>2 DEF attest, Signed, SignedDesk
  <2>3. ASSUME NEW d \in Docs, open_session(d) \/ decline(d) PROVE vetterJob'.msg.kind # "statement"
    BY <2>3, SendParts, LetterParts DEF open_session, decline
  <2> QED BY <1>v, <1>2, <2>1, <2>2, <2>3, VetterJobSteps, Zenon
<1> QED BY <1>1, <1>2, Zenon DEF SignedHeld

-----------------------------------------------------------------------------
(* What the applicant has as ended. *)

(* A decline was the vetter's, and one that has not left is nowhere else. *)
Declines ==
    /\ \A m \in post : m.kind = "decline" => desk[m.doc].state = "declined"
    /\ \A d \in Docs : requests[d].state = "declined" => desk[d].state = "declined"
    /\ vetterJob # Idle /\ vetterJob.msg.kind = "decline" /\ vetterJob.done # "sent" =>
        /\ \A m \in post : m.kind = "decline" => m.doc # vetterJob.msg.doc
        /\ requests[vetterJob.msg.doc].state # "declined"

Attested == \A d \in Docs : requests[d].state = "attested" <=> \E st \in statements : st.doc = d

(* The card of a send that left is recorded in the request. *)
Recording(d) ==
    /\ CardOutcome /\ applicantJob.done = "sent"
    /\ requests[d].state = "session" /\ requests'[d].state = "session"
    /\ requests[d].session = applicantJob.msg.card.session /\ requests'[d].session = requests[d].session
    /\ requests'[d].card = applicantJob.msg.card /\ requests[d].session \notin expired
    /\ application = applicantJob.msg.card.application
    /\ IdentityUnchanged(applicantJob.msg.card.face) /\ identity_claims' = applicantJob.msg.card.face

(* A request in one step: how it may move, and what moves it. *)
RequestStep(d) ==
    \/ requests'[d] = requests[d] /\ statements' = statements
    \/ requests'[d] = Blank /\ application' = 0 /\ statements' = {}
    \/ /\ statements' = statements
       /\ \/ requests'[d] = At("sent", 0, Nothing) /\ requests[d].state = "none" /\ request_vetter(d)
          \/ requests'[d] = Blank /\ requests[d].state = "sent"
          \/ requests'[d] = Accepted /\ requests[d].state \in {"sent", "accepted"}
          \/ requests'[d] = Accepted /\ requests[d].state = "session" /\ requests[d].session \in expired
          \/ requests'[d] = At("refused", 0, Nothing) /\ requests[d].state = "sent"
          \/ /\ requests[d].state \in {"accepted", "session"}
             /\ \E m \in post : /\ m.kind = "session" /\ m.doc = d /\ on_session(m) /\ m.session \notin expired
                                /\ requests'[d] = At("session", m.session, Nothing)
          \/ Recording(d)
          \/ /\ requests'[d] = At("declined", 0, Nothing) /\ requests[d].state \in {"accepted", "session"}
             /\ \E m \in post : m.kind = "decline" /\ m.doc = d /\ on_decline(m)
    \/ \E m \in post : /\ on_statement(m) /\ m.kind = "statement" /\ Answers(m)
                       /\ statements' = statements \cup {StatementOf(m)}
                       /\ requests'[d] = IF d = m.doc THEN At("attested", 0, Nothing) ELSE requests[d]

LEMMA SweptEntry ==
    ASSUME NEW rs, NEW d \in Docs
    PROVE  \/ Swept(rs)[d] = rs[d]
           \/ rs[d].state = "session" /\ rs[d].session \in expired /\ Swept(rs)[d] = Accepted
<1>1. Swept(rs)[d] = IF rs[d].state = "session" /\ rs[d].session \in expired THEN Accepted ELSE rs[d]
  BY Zenon DEF Swept
<1>2. CASE rs[d].state = "session" /\ rs[d].session \in expired
  BY <1>1, <1>2, Zenon
<1>3. CASE ~(rs[d].state = "session" /\ rs[d].session \in expired)
  BY <1>1, <1>3, Zenon
<1> QED BY <1>2, <1>3, Zenon

LEMMA RequestsFunction == Typed => requests \in [Docs -> Request]
  BY Zenon DEF Typed, ApplicantTypes, GoodRequests

LEMMA Recorded ==
    ASSUME Typed, CardOutcome, NEW d \in Docs
    PROVE  \/ requests'[d] = requests[d]
           \/ requests'[d] = Accepted /\ requests[d].state = "session" /\ requests[d].session \in expired
           \/ Recording(d)
<1> DEFINE c == applicantJob.msg.card
           at == {k \in Docs : /\ application = c.application
                               /\ IdentityUnchanged(c.face)
                               /\ requests[k].state = "session" /\ requests[k].session = c.session}
           marked == [k \in Docs |-> IF k \in at THEN [requests[k] EXCEPT !.card = c] ELSE requests[k]]
<1>1. CASE applicantJob.done = "sent"
  <2>1. requests' = Swept(marked) /\ identity_claims' = IF at # {} THEN c.face ELSE identity_claims
    BY <1>1, Zenon DEF CardOutcome, record_sent_card
  <2>2. marked[d] = IF d \in at THEN [requests[d] EXCEPT !.card = c] ELSE requests[d]
    BY Zenon
  <2>3. requests'[d] = IF marked[d].state = "session" /\ marked[d].session \in expired THEN Accepted ELSE marked[d]
    BY <2>1, Zenon DEF Swept
  <2>4. CASE d \in at
    <3>1. applicantJob # Idle /\ applicantJob.msg.kind = "card" /\ requests[d] \in Request
      BY RequestsFunction DEF CardOutcome, Ended
    <3>2. c \in Card
      BY <3>1, Zenon DEF Typed, ApplicantTypes, GoodJob, GoodLetter
    <3>3. marked[d] = [requests[d] EXCEPT !.card = c]
      BY <2>2, <2>4, Zenon
    <3>4. marked[d].state = requests[d].state /\ marked[d].session = requests[d].session
      BY <3>1, <3>2, <3>3, RequestCard, Zenon
    <3>8. marked[d].card = c
      <4>1. [requests[d] EXCEPT !.card = c].card = c
        BY <3>1, <3>2, RequestCard, Zenon
      <4> QED BY <3>3, <4>1, Zenon
    <3>5. /\ application = c.application /\ IdentityUnchanged(c.face)
          /\ requests[d].state = "session" /\ requests[d].session = c.session /\ identity_claims' = c.face
      BY <2>1, <2>4, Zenon
    <3>6. CASE requests[d].session \in expired
      BY <2>3, <3>4, <3>5, <3>6, Zenon
    <3>7. CASE ~(requests[d].session \in expired)
      BY <1>1, <2>3, <3>4, <3>5, <3>7, <3>8, Zenon DEF Recording
    <3> QED BY <3>6, <3>7
  <2>5. CASE d \notin at
    BY <2>1, <2>2, <2>5, SweptEntry, Zenon
  <2> QED BY <2>4, <2>5
<1>2. CASE applicantJob.done # "sent"
  BY <1>2, SweptEntry, Zenon DEF CardOutcome
<1> QED BY <1>1, <1>2

LEMMA RequestSteps ==
    ASSUME Typed, [VettingNext]_vettingVars, NEW d \in Docs
    PROVE  RequestStep(d)
<1> USE RequestsFunction
<1>f. ASSUME requests' = requests, statements' = statements PROVE RequestStep(d)
  BY <1>f, Zenon DEF RequestStep
<1>d. \A m \in post : m.kind # "card" => m.doc \in Docs
  BY DEF Typed, PostTypes, GoodLetter
<1>1. CASE start_application
  BY <1>1, <1>f DEF start_application
<1>2. CASE abandon_application
  BY <1>2 DEF abandon_application, RequestStep
<1>3. ASSUME NEW k \in Docs, request_vetter(k) PROVE RequestStep(d)
  <2>1. requests[k].state = "none" /\ statements' = statements /\ requests' = [requests EXCEPT ![k] = At("sent", 0, Nothing)]
    BY <1>3, Zenon DEF request_vetter, Fresh, Used
  <2>2. requests'[d] = IF k = d THEN At("sent", 0, Nothing) ELSE requests[d]
    BY <2>1
  <2> QED BY <1>3, <2>1, <2>2, Zenon DEF RequestStep
<1>4. ASSUME NEW k \in Docs, NEW f \in Faces, send_card(k, f) PROVE RequestStep(d)
  BY <1>4, <1>f DEF send_card
<1>5. ASSUME NEW done \in {"sent", "failed"}, RunApplicantJob(done) \/ RunVetterJob(done) PROVE RequestStep(d)
  BY <1>5, <1>f, Zenon DEF RunApplicantJob, RunVetterJob, applicantVars
<1>6. CASE RequestOutcome
  <2> DEFINE rs == IF applicantJob.done = "failed" THEN forget_unsent(applicantJob.msg.doc) ELSE requests
  <2>1. requests' = Swept(rs) /\ statements' = statements
    BY <1>6, Zenon DEF RequestOutcome
  <2>2. rs[d] = requests[d] \/ (rs[d] = Blank /\ requests[d].state = "sent")
    BY DEF forget_unsent
  <2>3. rs[d].state = "session" => rs[d] = requests[d]
    BY <2>2, ValueStates
  <2> HIDE DEF rs
  <2> QED BY <2>1, <2>2, <2>3, SweptEntry, Zenon DEF RequestStep
<1>7. CASE CardOutcome
  <2>1. statements' = statements
    BY <1>7 DEF CardOutcome
  <2> QED BY <1>7, <2>1, Recorded, Zenon DEF RequestStep
<1>8. CASE prune_applications
  BY <1>8, SweptEntry, Zenon DEF prune_applications, RequestStep
<1>9. ASSUME NEW m \in post, on_accepted(m) PROVE RequestStep(d)
  <2>1. m.doc \in Docs /\ statements' = statements
    BY <1>9, <1>d DEF on_accepted, Reply
  <2> QED BY <1>9, <2>1 DEF on_accepted, Becomes, RequestStep
<1>10. ASSUME NEW m \in post, on_refused(m) PROVE RequestStep(d)
  <2>1. m.doc \in Docs /\ statements' = statements
    BY <1>10, <1>d DEF on_refused, Reply
  <2> QED BY <1>10, <2>1 DEF on_refused, Becomes, RequestStep
<1>11. ASSUME NEW m \in post, on_session(m) PROVE RequestStep(d)
  <2>1. m.doc \in Docs /\ statements' = statements
    BY <1>11, <1>d DEF on_session, Reply
  <2>2. CASE requests' = requests
    BY <1>f, <2>1, <2>2
  <2>3. CASE /\ requests[m.doc].state \in {"accepted", "session"} /\ m.session \notin expired
             /\ requests' = [requests EXCEPT ![m.doc] = At("session", m.session, Nothing)]
    <3>1. CASE d = m.doc
      <4>1. requests'[d] = At("session", m.session, Nothing) /\ m.kind = "session"
        BY <1>11, <2>1, <2>3, <3>1 DEF on_session, Reply
      <4> QED BY <1>11, <2>1, <2>3, <3>1, <4>1, Zenon DEF RequestStep
    <3>2. CASE d # m.doc
      <4>1. requests'[d] = requests[d]
        BY <2>1, <2>3, <3>2
      <4> QED BY <2>1, <4>1, Zenon DEF RequestStep
    <3> QED BY <3>1, <3>2
  <2> QED BY <1>11, <2>2, <2>3 DEF on_session, Becomes
<1>12. ASSUME NEW m \in post, on_statement(m) PROVE RequestStep(d)
  <2>1. m.doc \in Docs /\ m.kind = "statement"
    BY <1>12, <1>d DEF on_statement, Reply
  <2>2. CASE Answers(m)
    <3>1. /\ requests' = [requests EXCEPT ![m.doc] = At("attested", 0, Nothing)]
          /\ statements' = statements \cup {StatementOf(m)}
      BY <1>12, <2>2, Zenon DEF on_statement, StatementOf
    <3>2. requests'[d] = IF d = m.doc THEN At("attested", 0, Nothing) ELSE requests[d]
      BY <2>1, <3>1
    <3> QED BY <1>12, <2>1, <2>2, <3>1, <3>2, Zenon DEF RequestStep
  <2>3. CASE ~Answers(m)
    BY <1>12, <1>f, <2>3 DEF on_statement
  <2> QED BY <2>2, <2>3
<1>13. ASSUME NEW m \in post, on_decline(m) PROVE RequestStep(d)
  <2>1. m.doc \in Docs /\ m.kind = "decline" /\ statements' = statements
    BY <1>13, <1>d DEF on_decline, Reply
  <2> QED BY <1>13, <2>1 DEF on_decline, Becomes, RequestStep
<1>14. ASSUME NEW m \in post, NEW eligible \in BOOLEAN, take_request(m, eligible) PROVE RequestStep(d)
  BY <1>14, <1>f DEF take_request, applicantVars
<1>15. ASSUME NEW m \in post, receive_card(m) \/ LosePost(m) PROVE RequestStep(d)
  BY <1>15, <1>f DEF receive_card, LosePost, applicantVars
<1>16. ASSUME NEW k \in Docs, open_session(k) \/ attest(k) \/ decline(k) PROVE RequestStep(d)
  BY <1>16, <1>f DEF open_session, attest, decline, applicantVars
<1>17. CASE VetterOutcome \/ prune_desk
  BY <1>17, <1>f DEF VetterOutcome, prune_desk, applicantVars
<1>18. ASSUME NEW s \in 1..opened, Expire(s) PROVE RequestStep(d)
  BY <1>18, <1>f DEF Expire, applicantVars
<1>19. CASE UNCHANGED vettingVars
  BY <1>19, <1>f DEF vettingVars, applicantVars
<1> QED
  BY <1>1, <1>2, <1>3, <1>4, <1>5, <1>6, <1>7, <1>8, <1>9, <1>10, <1>11, <1>12, <1>13, <1>14, <1>15, <1>16,
     <1>17, <1>18, <1>19, Zenon DEF VettingNext

LEMMA AttestedStep ==
    ASSUME Typed, Attested, [VettingNext]_vettingVars
    PROVE  Attested'
<1>1. ASSUME NEW d \in Docs
      PROVE  requests'[d].state = "attested" <=> \E st \in statements' : st.doc = d
  <2>1. RequestStep(d)
    BY RequestSteps
  <2>2. requests[d].state = "attested" <=> \E st \in statements : st.doc = d
    BY DEF Attested
  <2>3. \A m : StatementOf(m).doc = m.doc
    BY DEF StatementOf
  <2> QED BY <2>1, <2>2, <2>3, ValueStates DEF RequestStep, Recording, Answers
<1> QED BY <1>1, Zenon DEF Attested

LEMMA DeclinesStep ==
    ASSUME DeskInv, Declines, [VettingNext]_vettingVars
    PROVE  Declines'
<1>v. VetterStep /\ Typed
  BY VetterSteps DEF DeskInv
<1>u. ASSUME Undoing, vetterJob.msg.kind = "decline"
      PROVE  /\ \A m \in post : m.kind = "decline" => m.doc # vetterJob.msg.doc
             /\ requests[vetterJob.msg.doc].state # "declined"
  BY <1>u DEF Undoing, Declines
<1>w. ASSUME NEW d \in Docs, desk[d].state = "declined",
             VetterOutcome => (requests[d].state = "declined" \/ \E m \in post : m.kind = "decline" /\ m.doc = d)
      PROVE  desk'[d].state = "declined"
  <2>1. CASE VetterOutcome /\ Undoing /\ vetterJob.msg.doc = d
    <3>1. vetterJob.msg.kind = "decline"
      BY <1>w, <2>1 DEF DeskInv, VetterJobInv, Undoing
    <3> QED BY <1>u, <1>w, <2>1, <3>1
  <2>2. CASE ~(VetterOutcome /\ Undoing /\ vetterJob.msg.doc = d)
    BY <1>v, <1>w, <2>2, ClosedStays
  <2> QED BY <2>1, <2>2
<1>1. ASSUME NEW m \in post', m.kind = "decline" PROVE desk'[m.doc].state = "declined"
  <2>1. CASE m \in post
    <3>1. m.doc \in Docs /\ desk[m.doc].state = "declined"
      BY <1>1, <1>v, <2>1 DEF Declines, Typed, PostTypes, GoodLetter
    <3> QED BY <1>1, <1>w, <2>1, <3>1
  <2>2. CASE RunVetterJob("sent") /\ vetterJob # Idle /\ m = vetterJob.msg
    <3>1. desk' = desk
      BY <2>2, Zenon DEF RunVetterJob
    <3> QED BY <1>1, <2>2, <3>1 DEF DeskInv, VetterJobInv
  <2> QED BY <1>1, <1>v, <2>1, <2>2, VetterLetters
<1>2. ASSUME NEW d \in Docs, requests'[d].state = "declined" PROVE desk'[d].state = "declined"
  <2>1. requests[d].state = "declined" \/ \E m \in post : m.kind = "decline" /\ m.doc = d /\ on_decline(m)
    BY <1>2, <1>v, RequestSteps, ValueStates DEF RequestStep, Recording
  <2>2. desk[d].state = "declined"
    BY <2>1 DEF Declines
  <2> QED BY <1>w, <2>1, <2>2
<1>3. ASSUME vetterJob' # Idle, vetterJob'.msg.kind = "decline", vetterJob'.done # "sent"
      PROVE  /\ \A m \in post' : m.kind = "decline" => m.doc # vetterJob'.msg.doc
             /\ requests'[vetterJob'.msg.doc].state # "declined"
  <2>1. CASE VetterJobKept
    <3>1. /\ vetterJob # Idle /\ vetterJob.done # "sent" /\ vetterJob.msg.kind = "decline"
          /\ vetterJob'.msg = vetterJob.msg /\ vetterJob.msg.doc \in Docs
      BY <1>3, <1>v, <2>1 DEF VetterJobKept, Typed, VetterTypes, GoodJob, GoodLetter
    <3>2. ASSUME NEW m \in post', m.kind = "decline" PROVE m.doc # vetterJob.msg.doc
      <4>1. m \in post
        BY <1>3, <1>v, <3>2, VetterLetters, SentIsDone
      <4> QED BY <3>1, <3>2, <4>1 DEF Declines
    <3>3. requests'[vetterJob.msg.doc].state # "declined"
      <4>1. \A m \in post : m.kind = "decline" => m.doc # vetterJob.msg.doc
        BY <3>1 DEF Declines
      <4>2. requests[vetterJob.msg.doc].state # "declined"
        BY <3>1 DEF Declines
      <4> QED BY <1>v, <3>1, <4>1, <4>2, RequestSteps, ValueStates DEF RequestStep, Recording
    <3> QED BY <3>1, <3>2, <3>3
  <2>2. ASSUME NEW d \in Docs, decline(d)
        PROVE  /\ \A m \in post' : m.kind = "decline" => m.doc # vetterJob'.msg.doc
               /\ requests'[vetterJob'.msg.doc].state # "declined"
    <3>1. vetterJob'.msg.doc = d /\ desk[d].state # "declined"
      BY <2>2, SendParts, LetterParts DEF decline, is_open
    <3>2. post' = post /\ requests' = requests
      BY <2>2 DEF decline, applicantVars
    <3> QED BY <3>1, <3>2 DEF Declines
  <2>3. ASSUME NEW d \in Docs, open_session(d) \/ attest(d) PROVE vetterJob'.msg.kind # "decline"
    BY <2>3, SendParts, LetterParts DEF open_session, attest
  <2> QED BY <1>v, <1>3, <2>1, <2>2, <2>3, VetterJobSteps, Zenon
<1> QED BY <1>1, <1>2, <1>3, Zenon DEF Declines

-----------------------------------------------------------------------------
(* The vetter's policy. *)

OnDesk == {d \in Docs : desk[d].state # "none"}
Reopenable == open_requests \ restored

DeskPolicy ==
    /\ uses_left \in Nat /\ uses_left + Cardinality(OnDesk) = TicketUses
    /\ Cardinality(Reopenable) <= MaxOpenRequests

LEMMA DocsFinite ==
    ASSUME NEW S \in SUBSET Docs
    PROVE  IsFiniteSet(S) /\ Cardinality(S) \in Nat
<1>1. IsFiniteSet(Docs)
  BY VettingAssumption, FS_Interval DEF Docs
<1>2. IsFiniteSet(S)
  BY <1>1, FS_Subset
<1> QED BY <1>2, FS_CardinalityType

LEMMA DeskSets ==
    /\ OnDesk \in SUBSET Docs /\ open_requests \in SUBSET Docs /\ Reopenable \in SUBSET Docs
    /\ OnDesk' \in SUBSET Docs /\ open_requests' \in SUBSET Docs /\ Reopenable' \in SUBSET Docs
  BY DEF OnDesk, open_requests, Reopenable

LEMMA FewerOpen ==
    ASSUME DeskPolicy, Reopenable' \subseteq Reopenable
    PROVE  Cardinality(Reopenable)' <= MaxOpenRequests
<1>1. IsFiniteSet(Reopenable) /\ Cardinality(Reopenable) \in Nat
  BY DeskSets, DocsFinite
<1>2. Cardinality(Reopenable') <= Cardinality(Reopenable) /\ Cardinality(Reopenable') \in Nat
  BY <1>1, DeskSets, DocsFinite, FS_Subset
<1> QED BY <1>1, <1>2, VettingAssumption DEF DeskPolicy

LEMMA DeskPolicyStep ==
    ASSUME DeskInv, DeskPolicy, [VettingNext]_vettingVars
    PROVE  DeskPolicy'
<1>v. VetterStep /\ Typed /\ VetterJobInv
  BY VetterSteps DEF DeskInv
<1> USE ValueStates
<1>a. ASSUME uses_left' = uses_left, ~\E m \in post, eligible \in BOOLEAN : take_request(m, eligible),
             \A d \in Docs : is_open(desk'[d]) => is_open(desk[d]) \/ d \in restored',
             restored \subseteq restored'
      PROVE  DeskPolicy'
  <2>1. OnDesk' = OnDesk
    BY <1>a, <1>v, DeskStays DEF OnDesk
  <2>2. Reopenable' \subseteq Reopenable
    BY <1>a DEF Reopenable, open_requests
  <2> QED BY <1>a, <2>1, <2>2, FewerOpen DEF DeskPolicy
<1>s. ASSUME UNCHANGED <<desk, uses_left, restored>> PROVE DeskPolicy'
  BY <1>s DEF DeskPolicy, OnDesk, Reopenable, open_requests
<1>1. CASE UNCHANGED vetterVars
  BY <1>1, <1>s DEF vetterVars
<1>2. ASSUME NEW m \in post, NEW eligible \in BOOLEAN, take_request(m, eligible) PROVE DeskPolicy'
  <2>1. CASE UNCHANGED <<desk, uses_left>>
    BY <1>2, <1>s, <2>1 DEF take_request
  <2>2. CASE /\ uses_left > 0 /\ HasCapacity /\ uses_left' = uses_left - 1
             /\ desk' = [desk EXCEPT ![m.doc] = Accepted]
    <3>1. m.doc \in Docs /\ desk[m.doc].state = "none" /\ restored' = restored
      BY <1>2 DEF take_request, DeskInv, RequestLetters, Typed, PostTypes, GoodLetter
    <3>2. \A d \in Docs : desk'[d] = IF d = m.doc THEN Accepted ELSE desk[d]
      BY <1>v, <2>2, <3>1, DeskFunction
    <3>3. OnDesk' = OnDesk \cup {m.doc} /\ m.doc \notin OnDesk
      BY <3>1, <3>2 DEF OnDesk
    <3>4. Cardinality(OnDesk') = Cardinality(OnDesk) + 1 /\ Cardinality(OnDesk) \in Nat
      BY <3>3, DeskSets, DocsFinite, FS_AddElement
    <3>5. uses_left' \in Nat /\ uses_left' + Cardinality(OnDesk') = TicketUses
      BY <2>2, <3>4 DEF DeskPolicy
    <3>6. Reopenable' \subseteq open_requests \cup {m.doc}
      BY <3>1, <3>2 DEF Reopenable, open_requests
    <3>7. /\ IsFiniteSet(open_requests \cup {m.doc}) /\ Cardinality(open_requests) \in Nat
          /\ Cardinality(open_requests \cup {m.doc}) <= Cardinality(open_requests) + 1
      BY DeskSets, DocsFinite, FS_AddElement
    <3>8. Cardinality(Reopenable') <= Cardinality(open_requests \cup {m.doc})
      BY <3>6, <3>7, FS_Subset
    <3>9. Cardinality(Reopenable') \in Nat /\ Cardinality(open_requests \cup {m.doc}) \in Nat
      BY <3>7, DeskSets, DocsFinite, FS_CardinalityType
    <3>10. Cardinality(open_requests) < MaxOpenRequests
      BY <2>2 DEF HasCapacity
    <3>11. Cardinality(Reopenable') <= MaxOpenRequests
      BY <3>7, <3>8, <3>9, <3>10, VettingAssumption
    <3> QED BY <3>5, <3>11 DEF DeskPolicy
  <2> QED BY <1>2, <2>1, <2>2, Zenon DEF take_request
<1>b. ASSUME ~\E m \in post, eligible \in BOOLEAN : take_request(m, eligible)
      PROVE  DeskPolicy'
  <2>1. ASSUME NEW m \in post, receive_card(m) PROVE DeskPolicy'
    <3>1. uses_left' = uses_left /\ restored' = restored
      BY <2>1 DEF receive_card
    <3>2. \A d \in Docs : is_open(desk'[d]) => is_open(desk[d])
      BY <2>1 DEF receive_card, is_open
    <3> QED BY <1>a, <1>b, <3>1, <3>2
  <2>2. ASSUME NEW d \in Docs, open_session(d) \/ attest(d) \/ decline(d) PROVE DeskPolicy'
    <3>1. uses_left' = uses_left /\ restored' = restored
      BY <2>2 DEF open_session, attest, decline
    <3>2. \A k \in Docs : is_open(desk'[k]) => is_open(desk[k])
      BY <1>v, <2>2, DeskFunction DEF open_session, attest, decline, is_open
    <3> QED BY <1>a, <1>b, <3>1, <3>2
  <2>3. ASSUME NEW done \in {"sent", "failed"}, RunApplicantJob(done) \/ RunVetterJob(done) PROVE DeskPolicy'
    <3>1. UNCHANGED <<desk, uses_left, restored>>
      BY <2>3, Zenon DEF RunApplicantJob, RunVetterJob, vetterVars
    <3> QED BY <1>s, <3>1
  <2>4. CASE VetterOutcome
    <3>1. uses_left' = uses_left /\ restored \subseteq restored' /\ (Undoing => vetterJob.msg.doc \in restored')
      BY <1>v, <2>4, Outcome
    <3>2. \A d \in Docs : is_open(desk'[d]) => is_open(desk[d]) \/ d \in restored'
      BY <1>v, <2>4, <3>1, Outcome DEF is_open
    <3> QED BY <1>a, <1>b, <3>1, <3>2
  <2>5. CASE prune_desk
    <3>1. uses_left' = uses_left /\ restored' = restored
      BY <2>5 DEF prune_desk
    <3>2. \A d \in Docs : is_open(desk'[d]) => is_open(desk[d])
      BY <2>5, Pruned DEF is_open
    <3> QED BY <1>a, <1>b, <3>1, <3>2
  <2> QED BY <1>v, <1>1, <1>b, <2>1, <2>2, <2>3, <2>4, <2>5, Zenon DEF VetterStep
<1> QED BY <1>2, <1>b, Zenon

-----------------------------------------------------------------------------
(* The books agree. *)

BooksInv == DeskInv /\ Asking /\ DeskPolicy /\ Signed /\ Declines /\ Attested

LEMMA BooksInit == VettingInit => BooksInv
<1> SUFFICES ASSUME VettingInit PROVE BooksInv
  OBVIOUS
<1> USE DEF VettingInit
<1>1. \A d \in Docs : requests[d].state = "none" /\ desk[d].state = "none" /\ requests[d] = Blank /\ desk[d] = Blank
  BY ValueStates
<1>2. 0 \in 0..MaxOpened /\ opened = 0
  BY VettingAssumption
<1>3. GoodRequest(Blank, 0) /\ GoodEntry(Blank, 0)
  BY <1>2, GoodValues DEF Blank
<1>4. Typed
  <2>1. GoodRequests(requests, 0) /\ GoodEntries(desk, 0)
    BY <1>1, <1>3 DEF GoodRequests, GoodEntries, GoodRequest, GoodEntry
  <2> QED BY <1>2, <2>1, VettingAssumption DEF Typed, ApplicantTypes, VetterTypes, PostTypes, GoodJob
<1>5. DeskInv /\ Asking
  BY <1>4 DEF DeskInv, VetterJobInv, RequestLetters, Asking
<1>6. Signed /\ Declines /\ Attested
  BY <1>1 DEF Signed, SignedDesk, SignedLetters, SignedHeld, Declines, Attested
<1>7. DeskPolicy
  <2>1. OnDesk = {} /\ Reopenable = {}
    BY <1>1 DEF OnDesk, Reopenable, open_requests, is_open
  <2> QED BY <2>1, FS_EmptySet, VettingAssumption DEF DeskPolicy
<1> QED BY <1>5, <1>6, <1>7 DEF BooksInv

LEMMA BooksStep == BooksInv /\ [VettingNext]_vettingVars => BooksInv'
<1> SUFFICES ASSUME BooksInv, [VettingNext]_vettingVars PROVE BooksInv'
  OBVIOUS
<1>1. Typed'
  BY ApplicantTypesStep, VetterTypesStep, PostTypesStep DEF BooksInv, DeskInv, Typed
<1>2. VetterJobInv' /\ RequestLetters' /\ Asking'
  BY VetterJobStep, RequestLettersStep, AskingStep DEF BooksInv, DeskInv
<1>3. SignedDesk' /\ SignedLetters' /\ SignedHeld'
  BY SignedDeskStep, SignedLettersStep, SignedHeldStep DEF BooksInv, Signed
<1>4. Declines' /\ Attested' /\ DeskPolicy'
  BY DeclinesStep, AttestedStep, DeskPolicyStep DEF BooksInv, DeskInv
<1> QED BY <1>1, <1>2, <1>3, <1>4 DEF BooksInv, DeskInv, Signed

LEMMA TypesFromBooks == BooksInv => VettingTypeOK
<1> SUFFICES ASSUME BooksInv PROVE VettingTypeOK
  OBVIOUS
<1>1. post \subseteq Message
  BY DEF BooksInv, DeskInv, Typed, PostTypes, GoodLetter
<1> QED BY <1>1 DEF BooksInv, DeskInv, DeskPolicy, Reopenable, OnDesk, Typed, ApplicantTypes, VetterTypes, PostTypes,
     GoodRequests, GoodEntries, GoodJob, VettingTypeOK

LEMMA AgreeFromBooks == BooksInv => SidesAgree
<1> SUFFICES ASSUME BooksInv PROVE SidesAgree
  OBVIOUS
<1>1. ASSUME NEW d \in Docs
      PROVE  /\ requests[d].state = "attested" <=> \E st \in statements : st.doc = d
             /\ requests[d].state = "attested" => desk[d].state = "attested"
             /\ requests[d].state = "declined" => desk[d].state = "declined" /\ \A st \in issued : st.doc # d
  BY DEF BooksInv, Attested, Declines, Signed, SignedDesk, SignedHeld
<1> QED BY <1>1, TypesFromBooks, Zenon DEF SidesAgree, BooksInv, Signed, SignedHeld

(* The desk keeps to its policy and the two books agree on how each request *)
(* ended, through failed sends, late sessions and lost messages             *)
(* (sent_result, on_session, on_statement, on_decline).                     *)
THEOREM VettingSidesAgree == VettingSpec => []SidesAgree
<1>1. VettingInit => BooksInv
  BY BooksInit
<1>2. BooksInv /\ [VettingNext]_vettingVars => BooksInv'
  BY BooksStep
<1>3. BooksInv => SidesAgree
  BY AgreeFromBooks
<1> QED BY <1>1, <1>2, <1>3, PTL DEF VettingSpec


-----------------------------------------------------------------------------
(* What an application has shown. *)

(* Without an application nothing is held; a recorded card is the           *)
(* application's own, is in the session it went into, and shows its         *)
(* identity.                                                                *)
NothingHeld ==
    application = 0 => /\ statements = {} /\ identity_claims = Nothing
                       /\ \A d \in Docs : requests[d].state = "none"
RecordedCards ==
    \A d \in Docs : requests[d].card # Nothing =>
        /\ requests[d].state = "session" /\ requests[d].card \in Card
        /\ requests[d].card.application = application
        /\ requests[d].card.session = requests[d].session
        /\ requests[d].card.face = identity_claims
IdentityInv == Typed /\ NothingHeld /\ RecordedCards /\ OneIdentity

(* What a step is to the application and the identity it has shown. *)
ApplicationStep ==
    \/ start_application \/ abandon_application
    \/ UNCHANGED <<application, started, identity_claims>>
    \/ /\ UNCHANGED <<application, started>> /\ CardOutcome /\ applicantJob.msg.card \in Card
       /\ application = applicantJob.msg.card.application
       /\ IdentityUnchanged(applicantJob.msg.card.face) /\ identity_claims' = applicantJob.msg.card.face

LEMMA ApplicationSteps == Typed /\ [VettingNext]_vettingVars => ApplicationStep
<1> SUFFICES ASSUME Typed, [VettingNext]_vettingVars PROVE ApplicationStep
  OBVIOUS
<1>a. ASSUME UNCHANGED <<application, started, identity_claims>> PROVE ApplicationStep
  BY <1>a, Zenon DEF ApplicationStep
<1>1. CASE start_application \/ abandon_application
  BY <1>1, Zenon DEF ApplicationStep
<1>2. CASE RequestOutcome \/ prune_applications
  BY <1>2, <1>a DEF RequestOutcome, prune_applications
<1>3. CASE CardOutcome
  <2>1. applicantJob # Idle /\ applicantJob.msg.kind = "card" /\ UNCHANGED <<application, started>>
    BY <1>3, Zenon DEF CardOutcome, Ended
  <2>2. applicantJob.msg.card \in Card
    BY <2>1, Zenon DEF Typed, ApplicantTypes, GoodJob, GoodLetter
  <2>3. CASE identity_claims' = identity_claims
    BY <1>a, <2>1, <2>3
  <2>4. CASE identity_claims' # identity_claims
    <3>1. applicantJob.done = "sent" /\ record_sent_card(applicantJob.msg.card)
      BY <1>3, <2>4, Zenon DEF CardOutcome
    <3>2. PICK d \in Docs : application = applicantJob.msg.card.application /\ IdentityUnchanged(applicantJob.msg.card.face)
      BY <2>4, <3>1 DEF record_sent_card
    <3>3. identity_claims' = applicantJob.msg.card.face
      BY <2>4, <3>1, Zenon DEF record_sent_card
    <3> QED BY <1>3, <2>1, <2>2, <3>2, <3>3, Zenon DEF ApplicationStep
  <2> QED BY <2>3, <2>4
<1>4. ASSUME NEW d \in Docs, request_vetter(d) PROVE ApplicationStep
  BY <1>4, <1>a DEF request_vetter
<1>5. ASSUME NEW d \in Docs, NEW f \in Faces, send_card(d, f) PROVE ApplicationStep
  BY <1>5, <1>a DEF send_card
<1>6. ASSUME NEW m \in post, on_accepted(m) \/ on_refused(m) \/ on_session(m) \/ on_statement(m) \/ on_decline(m)
      PROVE  ApplicationStep
  BY <1>6, <1>a DEF on_accepted, on_refused, on_session, on_statement, on_decline, Handling
<1>7. ASSUME UNCHANGED applicantVars PROVE ApplicationStep
  BY <1>7, <1>a DEF applicantVars
<1>8. ASSUME NEW m \in post, NEW eligible \in BOOLEAN, take_request(m, eligible) PROVE ApplicationStep
  BY <1>7, <1>8, Zenon DEF take_request
<1>9. ASSUME NEW m \in post, receive_card(m) \/ LosePost(m) PROVE ApplicationStep
  BY <1>7, <1>9, Zenon DEF receive_card, LosePost
<1>10. ASSUME NEW d \in Docs, open_session(d) \/ attest(d) \/ decline(d) PROVE ApplicationStep
  BY <1>7, <1>10, Zenon DEF open_session, attest, decline
<1>11. ASSUME NEW done \in {"sent", "failed"}, RunApplicantJob(done) \/ RunVetterJob(done) PROVE ApplicationStep
  BY <1>7, <1>11, <1>a, Zenon DEF RunApplicantJob, RunVetterJob
<1>12. CASE VetterOutcome \/ prune_desk
  BY <1>7, <1>12, Zenon DEF VetterOutcome, prune_desk
<1>13. ASSUME NEW s \in 1..opened, Expire(s) PROVE ApplicationStep
  BY <1>7, <1>13, Zenon DEF Expire
<1>14. CASE UNCHANGED vettingVars
  BY <1>7, <1>14, Zenon DEF vettingVars
<1> QED
  BY <1>1, <1>2, <1>3, <1>4, <1>5, <1>6, <1>8, <1>9, <1>10, <1>11, <1>12, <1>13, <1>14, Zenon DEF VettingNext

LEMMA ValueCards ==
    /\ Blank.card = Nothing /\ Accepted.card = Nothing
    /\ \A x, s : At(x, s, Nothing).card = Nothing
  BY AtParts DEF Blank, Accepted

(* Only the outcome of a card's send records it. *)
LEMMA CardSteps ==
    ASSUME Typed, [VettingNext]_vettingVars, NEW d \in Docs, requests'[d].card # Nothing
    PROVE  requests'[d] = requests[d] \/ Recording(d)
  BY RequestSteps, ValueCards DEF RequestStep

LEMMA NothingHeldStep ==
    ASSUME IdentityInv, [VettingNext]_vettingVars
    PROVE  NothingHeld'
<1>0. SUFFICES ASSUME application' = 0
               PROVE  statements' = {} /\ identity_claims' = Nothing /\ \A d \in Docs : requests'[d].state = "none"
  BY DEF NothingHeld
<1>t. Typed
  BY DEF IdentityInv
<1>1. CASE start_application
  BY <1>0, <1>1, <1>t, VettingAssumption DEF start_application, Typed, ApplicantTypes
<1>2. CASE abandon_application
  BY <1>2, ValueStates DEF abandon_application
<1>3. CASE application' = application /\ identity_claims' = identity_claims
  <2>1. statements = {} /\ identity_claims = Nothing /\ \A d \in Docs : requests[d].state = "none"
    BY <1>0, <1>3 DEF IdentityInv, NothingHeld
  <2>2. ~\E m \in post : on_statement(m) /\ m.kind = "statement" /\ Answers(m)
    <3>1. \A m \in post : m.kind = "statement" => m.doc \in Docs
      BY <1>t DEF Typed, PostTypes, GoodLetter
    <3> QED BY <2>1, <3>1 DEF Answers
  <2>3. statements' = {}
    BY <2>1, <2>2, StatementSteps
  <2>4. ASSUME NEW d \in Docs PROVE requests'[d].state = "none"
    <3>1. RequestStep(d)
      BY <1>t, RequestSteps
    <3>2. ~request_vetter(d)
      BY <1>0, <1>3 DEF request_vetter
    <3> QED BY <2>1, <2>3, <3>1, <3>2, ValueStates DEF RequestStep, Recording
  <2> QED BY <1>3, <2>1, <2>3, <2>4
<1>4. CASE application = applicantJob.msg.card.application /\ applicantJob.msg.card \in Card /\ application' = application
  BY <1>0, <1>4, CardParts, VettingAssumption
<1> QED BY <1>t, <1>1, <1>2, <1>3, <1>4, ApplicationSteps, Zenon DEF ApplicationStep

LEMMA RecordedCardsStep ==
    ASSUME IdentityInv, [VettingNext]_vettingVars
    PROVE  RecordedCards'
<1>t. Typed
  BY DEF IdentityInv
<1>1. ASSUME NEW d \in Docs, requests'[d].card # Nothing
      PROVE  /\ requests'[d].state = "session" /\ requests'[d].card \in Card
             /\ requests'[d].card.application = application'
             /\ requests'[d].card.session = requests'[d].session
             /\ requests'[d].card.face = identity_claims'
  <2>1. CASE Recording(d)
    <3>1. applicantJob # Idle /\ applicantJob.msg.kind = "card" /\ application' = application
      BY <2>1, Zenon DEF Recording, CardOutcome, Ended
    <3>2. applicantJob.msg.card \in Card
      BY <1>t, <3>1, Zenon DEF Typed, ApplicantTypes, GoodJob, GoodLetter
    <3> QED BY <2>1, <3>1, <3>2, Zenon DEF Recording
  <2>2. CASE requests'[d] = requests[d] /\ ~Recording(d)
    <3>1. /\ requests[d].state = "session" /\ requests[d].card \in Card
          /\ requests[d].card.application = application
          /\ requests[d].card.session = requests[d].session
          /\ requests[d].card.face = identity_claims
      BY <1>1, <2>2, Zenon DEF IdentityInv, RecordedCards
    <3>2. requests[d].card.face \in Faces
      BY <3>1, CardParts
    <3>3. ~start_application
      BY <3>1 DEF start_application, IdentityInv, NothingHeld
    <3>4. ~abandon_application
      BY <1>1, ValueCards DEF abandon_application
    <3>5. application' = application /\ identity_claims' = identity_claims
      BY <1>t, <3>1, <3>2, <3>3, <3>4, ApplicationSteps, VettingAssumption DEF ApplicationStep, IdentityUnchanged
    <3> QED BY <2>2, <3>1, <3>5, Zenon
  <2> QED BY <1>1, <1>t, <2>1, <2>2, CardSteps, Zenon
<1> QED BY <1>1, Zenon DEF RecordedCards

LEMMA OneIdentityStep ==
    ASSUME IdentityInv, [VettingNext]_vettingVars
    PROVE  OneIdentity'
<1>t. Typed /\ Typed'
  BY ApplicantTypesStep, VetterTypesStep, PostTypesStep DEF IdentityInv, Typed
<1>1. ASSUME NEW st \in statements'
      PROVE  /\ st.card.application = application' /\ st.card.session = st.session
             /\ st.card.face = identity_claims'
  <2>1. /\ st.card \in Card /\ st.card.application = application
        /\ st.card.session = st.session /\ st.card.face = identity_claims
    <3>1. CASE st \in statements
      BY <1>t, <3>1 DEF IdentityInv, OneIdentity, Typed, ApplicantTypes, Statement
    <3>2. ASSUME NEW m \in post, m.kind = "statement", Answers(m), st = StatementOf(m)
          PROVE  /\ st.card \in Card /\ st.card.application = application
                 /\ st.card.session = st.session /\ st.card.face = identity_claims
      <4>1. m.doc \in Docs /\ m.card \in Card /\ st.card = m.card /\ st.session = m.session
        BY <1>t, <3>2 DEF Typed, PostTypes, GoodLetter, StatementOf
      <4>2. requests[m.doc].card = m.card /\ requests[m.doc].session = m.session /\ m.card # Nothing
        BY <3>2, <4>1, NothingIsNothingElse DEF Answers
      <4> QED BY <4>1, <4>2 DEF IdentityInv, RecordedCards
    <3> QED BY <3>1, <3>2, StatementSteps
  <2>2. st.card.face \in Faces /\ application # 0
    BY <2>1, CardParts, VettingAssumption
  <2>3. ~start_application /\ ~abandon_application
    BY <1>1, <2>2 DEF start_application, abandon_application
  <2>4. application' = application /\ identity_claims' = identity_claims
    BY <1>t, <2>1, <2>2, <2>3, ApplicationSteps, VettingAssumption DEF ApplicationStep, IdentityUnchanged
  <2> QED BY <2>1, <2>4, Zenon
<1> QED BY <1>1, Zenon DEF OneIdentity

(* Every statement an application holds is on a card it sent itself, and    *)
(* all show one identity, also when cards are made from copies of the       *)
(* application, and for applications one after another (card_claims,        *)
(* record_sent_card, on_statement).                                         *)
THEOREM VettingOneIdentity == VettingSpec => []OneIdentity
<1>1. VettingInit => IdentityInv
  <2> SUFFICES ASSUME VettingInit PROVE IdentityInv
    OBVIOUS
  <2>1. Typed
    BY BooksInit DEF BooksInv, DeskInv
  <2>2. \A d \in Docs : requests[d].state = "none" /\ requests[d].card = Nothing
    BY ValueStates, ValueCards DEF VettingInit
  <2> QED BY <2>1, <2>2 DEF VettingInit, IdentityInv, NothingHeld, RecordedCards, OneIdentity
<1>2. IdentityInv /\ [VettingNext]_vettingVars => IdentityInv'
  <2> SUFFICES ASSUME IdentityInv, [VettingNext]_vettingVars PROVE IdentityInv'
    OBVIOUS
  <2>1. Typed'
    BY ApplicantTypesStep, VetterTypesStep, PostTypesStep DEF IdentityInv, Typed
  <2> QED BY <2>1, NothingHeldStep, RecordedCardsStep, OneIdentityStep DEF IdentityInv
<1>3. IdentityInv => OneIdentity
  BY DEF IdentityInv
<1> QED BY <1>1, <1>2, <1>3, PTL DEF VettingSpec

-----------------------------------------------------------------------------
(* Statements that reach their application. *)

(* A session that is on the vetter's books for a request. *)
Serves(d, s) ==
    \/ desk[d].state \in {"session", "card"} /\ desk[d].session = s
    \/ /\ vetterJob # Idle /\ vetterJob.msg.kind # "session" /\ vetterJob.msg.doc = d
       /\ vetterJob.previous.state \in {"session", "card"} /\ vetterJob.previous.session = s
    \/ \E st \in issued : st.doc = d /\ st.session = s

(* The sessions the applicant has not been told of. *)
Opening == vetterJob # Idle /\ vetterJob.done = "no" /\ vetterJob.msg.kind = "session"
Pending == {m \in post : m.kind = "session"} \cup (IF Opening THEN {vetterJob.msg} ELSE {})

(* A card that left the applicant and can still count. *)
Away(c) ==
    \/ \E m \in post : m.kind = "card" /\ m.card = c
    \/ \E d \in Docs : desk[d].state = "card" /\ desk[d].card = c
    \/ /\ vetterJob # Idle /\ vetterJob.msg.kind # "session"
       /\ vetterJob.previous.state = "card" /\ vetterJob.previous.card = c
    \/ \E st \in issued : st.card = c

(* A card the applicant is sending, and one whose outcome is to be applied. *)
Making(c) == applicantJob # Idle /\ applicantJob.msg.kind = "card" /\ applicantJob.msg.card = c
Sending(c) == Making(c) /\ applicantJob.done # "failed"
SentNow(c) == Making(c) /\ applicantJob.done = "sent"

(* Cards carry the number of their session, of sessions and applications    *)
(* there have been.                                                         *)
CardNumbers ==
    /\ \A c \in Card : Away(c) \/ Making(c) => c.session \in 1..opened /\ c.application \in 1..started
    /\ \A m \in post : m.kind = "card" => m.card.session = m.session
    /\ \A d \in Docs : desk[d].state = "card" => desk[d].card.session = desk[d].session
    /\ vetterJob # Idle /\ vetterJob.msg.kind # "session" /\ vetterJob.previous.state = "card" =>
          vetterJob.previous.card.session = vetterJob.previous.session
    /\ \A st \in issued : st.card.session = st.session
    /\ applicantJob # Idle /\ applicantJob.msg.kind = "card" => applicantJob.msg.card.session = applicantJob.msg.session

OneStatement == \A s, t \in issued : s.doc = t.doc => s = t

(* A session belongs to one request, and the applicant is told once.        *)
SessionLetters ==
    /\ \A k, l \in Pending : k.session = l.session => k = l
    /\ Opening => vetterJob.msg \notin post
    /\ \A m \in Pending, d \in Docs : requests[d].state = "session" => requests[d].session # m.session
    /\ \A m \in Pending, d \in Docs, s \in 1..opened :
          Serves(d, s) => (m.session = s => m.doc = d) /\ (m.doc = d => m.session <= s)
    /\ \A d, e \in Docs : requests[e].state = "session" /\ Serves(d, requests[e].session) => d = e

Matters(c) == application = c.application /\ c.session \notin expired \cup overwritten
In(d, c, held) == requests[d].state = "session" /\ requests[d].session = c.session /\ requests[d].card = held
Settled(d) == requests[d].state \in {"attested", "declined"}

(* What the vetter can still sign is where the applicant looks for it: the  *)
(* session has the card, or is about to be given it.                        *)
CardsPlaced ==
    \A d \in Docs, c \in Card : Matters(c) /\ Serves(d, c.session) =>
        /\ Away(c) => In(d, c, c) \/ Settled(d) \/ SentNow(c)
        /\ Sending(c) => In(d, c, Nothing) \/ Settled(d)
IdentityKept ==
    \A c \in Card : Making(c) /\ application = c.application => IdentityUnchanged(c.face)

TakenInv == BooksInv /\ CardNumbers /\ OneStatement /\ SessionLetters /\ CardsPlaced /\ IdentityKept

(* An entry of the desk in one step. *)
EntryStep(d) ==
    \/ desk'[d] = desk[d]
    \/ desk'[d].state \in {"accepted", "attested", "declined"}
    \/ open_session(d) /\ desk'[d] = At("session", opened + 1, Nothing)
    \/ \E m \in post : /\ m.kind = "card" /\ desk[d].state = "session" /\ desk[d].session = m.session
                       /\ desk'[d] = At("card", m.session, m.card)
    \/ vetterJob # Idle /\ vetterJob.msg.kind # "session" /\ vetterJob.msg.doc = d /\ desk'[d] = vetterJob.previous

LEMMA EntrySteps ==
    ASSUME Typed, VetterStep, NEW d \in Docs
    PROVE  EntryStep(d)
<1>a. ASSUME desk' = desk PROVE EntryStep(d)
  BY <1>a, Zenon DEF EntryStep
<1>1. CASE UNCHANGED vetterVars
  BY <1>1, <1>a, Zenon DEF vetterVars
<1>2. ASSUME NEW m \in post, receive_card(m) PROVE EntryStep(d)
  <2>1. m.kind = "card"
    BY <1>2, Zenon DEF receive_card
  <2>2. CASE desk[d].state = "session" /\ desk[d].session = m.session /\ m.session \notin expired
    <3>1. desk'[d] = At("card", m.session, m.card)
      BY <1>2, <2>2, Zenon DEF receive_card
    <3> QED BY <2>1, <2>2, <3>1, Zenon DEF EntryStep
  <2>3. CASE ~(desk[d].state = "session" /\ desk[d].session = m.session /\ m.session \notin expired)
    <3>1. desk'[d] = desk[d]
      BY <1>2, <2>3, Zenon DEF receive_card
    <3> QED BY <3>1, Zenon DEF EntryStep
  <2> QED BY <2>2, <2>3
<1>3. ASSUME NEW m \in post, NEW eligible \in BOOLEAN, take_request(m, eligible) PROVE EntryStep(d)
  <2>1. m.doc \in Docs /\ desk' \in {desk, [desk EXCEPT ![m.doc] = Accepted]}
    BY <1>3 DEF take_request, Typed, PostTypes, GoodLetter
  <2>2. desk'[d] = desk[d] \/ desk'[d] = Accepted
    BY <2>1, DeskFunction
  <2> QED BY <2>2, ValueStates DEF EntryStep
<1>4. ASSUME NEW k \in Docs, open_session(k) PROVE EntryStep(d)
  <2>1. desk' = [desk EXCEPT ![k] = At("session", opened + 1, Nothing)]
    BY <1>4, Zenon DEF open_session
  <2>2. desk'[d] = IF k = d THEN At("session", opened + 1, Nothing) ELSE desk[d]
    BY <2>1, DeskFunction
  <2> QED BY <1>4, <2>2, Zenon DEF EntryStep
<1>5. ASSUME NEW k \in Docs, attest(k) \/ decline(k) PROVE EntryStep(d)
  <2>1. desk'[d] = desk[d] \/ desk'[d] = At("attested", 0, Nothing) \/ desk'[d] = At("declined", 0, Nothing)
    BY <1>5, DeskFunction DEF attest, decline
  <2> QED BY <2>1, ValueStates DEF EntryStep
<1>6. ASSUME NEW done \in {"sent", "failed"}, RunApplicantJob(done) \/ RunVetterJob(done) PROVE EntryStep(d)
  BY <1>6, <1>a, Zenon DEF RunApplicantJob, RunVetterJob, vetterVars
<1>7. CASE VetterOutcome
  <2>1. CASE Undoing /\ d = vetterJob.msg.doc
    <3>1. vetterJob # Idle /\ vetterJob.msg.kind # "session"
      BY <2>1 DEF Undoing
    <3> QED BY <1>7, <2>1, <3>1, Outcome, ValueStates DEF EntryStep
  <2>2. CASE ~(Undoing /\ d = vetterJob.msg.doc)
    BY <1>7, <2>2, Outcome, ValueStates DEF EntryStep
  <2> QED BY <2>1, <2>2
<1>8. CASE prune_desk
  BY <1>8, Pruned, ValueStates DEF EntryStep
<1> QED BY <1>1, <1>2, <1>3, <1>4, <1>5, <1>6, <1>7, <1>8, Zenon DEF VetterStep

(* What the vetter's job would restore: what it would have restored, or the *)
(* entry it has just closed.                                                *)
LEMMA PreviousSteps ==
    ASSUME Typed, VetterStep, vetterJob' # Idle, vetterJob'.msg.kind # "session"
    PROVE  \/ /\ vetterJob # Idle /\ vetterJob.msg.kind # "session"
              /\ vetterJob'.msg = vetterJob.msg /\ vetterJob'.previous = vetterJob.previous
           \/ vetterJob'.msg.doc \in Docs /\ vetterJob'.previous = desk[vetterJob'.msg.doc]
<1>1. CASE VetterJobKept
  BY <1>1, Zenon DEF VetterJobKept
<1>2. ASSUME NEW d \in Docs, attest(d) \/ decline(d)
      PROVE  vetterJob'.msg.doc \in Docs /\ vetterJob'.previous = desk[vetterJob'.msg.doc]
  BY <1>2, SendParts, LetterParts DEF attest, decline
<1>3. ASSUME NEW d \in Docs, open_session(d) PROVE FALSE
  BY <1>3, SendParts, LetterParts DEF open_session
<1> QED BY <1>1, <1>2, <1>3, VetterJobSteps, Zenon

(* A session comes onto the vetter's books by being opened, once.           *)
LEMMA ServesSteps ==
    ASSUME Typed, VetterStep, NEW d \in Docs, NEW s, Serves(d, s)'
    PROVE  Serves(d, s) \/ (open_session(d) /\ s = opened + 1)
<1>1. CASE desk'[d].state \in {"session", "card"} /\ desk'[d].session = s
  <2>1. EntryStep(d)
    BY EntrySteps
  <2> QED BY <1>1, <2>1, AtParts DEF EntryStep, Serves
<1>2. CASE /\ vetterJob' # Idle /\ vetterJob'.msg.kind # "session" /\ vetterJob'.msg.doc = d
           /\ vetterJob'.previous.state \in {"session", "card"} /\ vetterJob'.previous.session = s
  BY <1>2, PreviousSteps DEF Serves
<1>3. ASSUME NEW st \in issued', st.doc = d, st.session = s PROVE Serves(d, s)
  <2>1. CASE st \in issued
    BY <1>3, <2>1, Zenon DEF Serves
  <2>2. ASSUME NEW k \in Docs, attest(k), st = [doc |-> k, session |-> desk[k].session, card |-> desk[k].card]
        PROVE  Serves(d, s)
    BY <1>3, <2>2 DEF attest, Serves
  <2>3. CASE VetterOutcome /\ Undoing
    BY <1>3, <2>1, <2>3, Outcome
  <2> QED BY <1>3, <2>1, <2>2, <2>3, IssuedSteps
<1> QED BY <1>1, <1>2, <1>3 DEF Serves

(* A card gets away by being sent.                                          *)
LEMMA AwaySteps ==
    ASSUME Typed, VetterStep, NEW c, Away(c)'
    PROVE  Away(c) \/ (RunApplicantJob("sent") /\ applicantJob.done = "no" /\ Making(c))
<1>1. ASSUME NEW m \in post', m.kind = "card", m.card = c
      PROVE  Away(c) \/ (RunApplicantJob("sent") /\ applicantJob.done = "no" /\ Making(c))
  <2>1. CASE m \in post
    BY <1>1, <2>1, Zenon DEF Away
  <2>2. CASE RunApplicantJob("sent") /\ m = applicantJob.msg /\ applicantJob # Idle /\ applicantJob.done = "no"
    BY <1>1, <2>2, Zenon DEF Making
  <2>3. vetterJob # Idle => vetterJob.msg.kind # "card"
    BY DEF Typed, VetterTypes, GoodJob, VetterKinds
  <2> QED BY <1>1, <2>1, <2>2, <2>3, PostGains, LetterParts DEF PostStep
<1>2. ASSUME NEW d \in Docs, desk'[d].state = "card", desk'[d].card = c PROVE Away(c)
  <2>1. EntryStep(d)
    BY EntrySteps
  <2> QED BY <1>2, <2>1, AtParts DEF EntryStep, Away
<1>3. CASE /\ vetterJob' # Idle /\ vetterJob'.msg.kind # "session"
           /\ vetterJob'.previous.state = "card" /\ vetterJob'.previous.card = c
  BY <1>3, PreviousSteps DEF Away
<1>4. ASSUME NEW st \in issued', st.card = c PROVE Away(c)
  <2>1. CASE st \in issued
    BY <1>4, <2>1, Zenon DEF Away
  <2>2. ASSUME NEW k \in Docs, attest(k), st = [doc |-> k, session |-> desk[k].session, card |-> desk[k].card]
        PROVE  Away(c)
    BY <1>4, <2>2 DEF attest, Away
  <2>3. CASE VetterOutcome /\ Undoing
    BY <1>4, <2>1, <2>3, Outcome
  <2> QED BY <1>4, <2>1, <2>2, <2>3, IssuedSteps
<1> QED BY <1>1, <1>2, <1>3, <1>4 DEF Away

(* A session becomes one to tell the applicant of by being opened.          *)
LEMMA PendingSteps ==
    ASSUME Typed, VetterStep, NEW m \in Pending'
    PROVE  \/ m \in Pending
           \/ \E d \in Docs : /\ open_session(d) /\ m = Letter("session", d, opened + 1, Nothing)
                              /\ m = vetterJob'.msg
<1>1. CASE m \in post' /\ m.kind = "session"
  <2>1. m \in post \/ (vetterJob # Idle /\ vetterJob.done = "no" /\ m = vetterJob.msg)
    BY <1>1, VetterLetters
  <2> QED BY <1>1, <2>1 DEF Pending, Opening
<1>2. CASE Opening' /\ m = vetterJob'.msg
  <2>1. CASE VetterJobKept
    BY <1>2, <2>1 DEF VetterJobKept, Opening, Pending
  <2>2. ASSUME NEW d \in Docs, open_session(d) PROVE m = Letter("session", d, opened + 1, Nothing)
    BY <1>2, <2>2, SendParts DEF open_session
  <2>3. ASSUME NEW d \in Docs, attest(d) \/ decline(d) PROVE FALSE
    BY <1>2, <2>3, SendParts, LetterParts DEF attest, decline, Opening
  <2> QED BY <1>2, <2>1, <2>2, <2>3, VetterJobSteps DEF Opening
<1> QED BY <1>1, <1>2 DEF Pending

(* A card is made when its send begins.                                     *)
LEMMA MakingSteps ==
    ASSUME Typed, [VettingNext]_vettingVars, NEW c, Making(c)'
    PROVE  \/ /\ Making(c) /\ applicantJob'.msg = applicantJob.msg
              /\ Sending(c)' => Sending(c)
              /\ SentNow(c) => SentNow(c)'
           \/ \E d \in Docs, f \in Faces :
                 /\ send_card(d, f)
                 /\ c = [application |-> application, session |-> requests[d].session, face |-> f]
                 /\ applicantJob'.msg.session = requests[d].session
<1>1. CASE applicantJob' = applicantJob
  BY <1>1, Zenon DEF Making, Sending, SentNow
<1>2. CASE applicantJob' = Idle
  BY <1>2 DEF Making
<1>3. ASSUME NEW d \in Docs, request_vetter(d) PROVE FALSE
  BY <1>3, SendParts, LetterParts DEF request_vetter, Making
<1>4. ASSUME NEW d \in Docs, NEW f \in Faces, send_card(d, f)
      PROVE  /\ c = [application |-> application, session |-> requests[d].session, face |-> f]
             /\ applicantJob'.msg.session = requests[d].session
  BY <1>4, SendParts, LetterParts DEF send_card, Making
<1>5. ASSUME NEW done \in {"sent", "failed"}, RunApplicantJob(done)
      PROVE  /\ Making(c) /\ applicantJob'.msg = applicantJob.msg
             /\ Sending(c)' => Sending(c)
             /\ SentNow(c) => SentNow(c)'
  <2>1. /\ applicantJob # Idle /\ applicantJob.done = "no" /\ applicantJob' = [applicantJob EXCEPT !.done = done]
        /\ applicantJob \in SendJob
    BY <1>5, Zenon DEF RunApplicantJob, Typed, ApplicantTypes, GoodJob
  <2>2. applicantJob'.msg = applicantJob.msg
    BY <2>1, JobDone, Zenon
  <2> QED BY <2>1, <2>2 DEF Making, Sending, SentNow
<1> QED BY <1>1, <1>2, <1>3, <1>4, <1>5, JobSteps, Zenon

LEMMA Bounds ==
    ASSUME Typed
    PROVE  /\ opened \in Nat /\ started \in Nat /\ application \in Nat /\ application <= started
           /\ applicantJob # Idle /\ applicantJob.msg.kind = "card" =>
                 applicantJob.msg.session \in 1..opened /\ applicantJob.msg.card \in Card
           /\ vetterJob # Idle /\ vetterJob.msg.kind # "session" => GoodEntry(vetterJob.previous, opened)
           /\ \A d \in Docs : desk[d].state \in {"session", "card"} => desk[d].session \in 1..opened
           /\ \A d \in Docs : requests[d].state = "session" => requests[d].session \in 1..opened
           /\ \A m \in Pending : m.session \in 1..opened /\ m.doc \in Docs
<1>1. \A m \in Pending : GoodLetter(m, opened) /\ m.kind = "session"
  BY DEF Pending, Opening, Typed, VetterTypes, PostTypes, GoodJob
<1>2. \A m \in Pending : m.session \in 1..opened /\ m.doc \in Docs
  BY <1>1, Zenon DEF GoodLetter
<1>3. \A d \in Docs : GoodEntry(desk[d], opened) /\ GoodRequest(requests[d], opened)
  BY DEF Typed, ApplicantTypes, VetterTypes, GoodEntries, GoodRequests
<1>4. applicantJob # Idle /\ applicantJob.msg.kind = "card" =>
         applicantJob.msg.session \in 1..opened /\ applicantJob.msg.card \in Card
  BY DEF Typed, ApplicantTypes, GoodJob, GoodLetter
<1>5. vetterJob # Idle /\ vetterJob.msg.kind # "session" => GoodEntry(vetterJob.previous, opened)
  BY DEF Typed, VetterTypes
<1>6. opened \in Nat /\ started \in Nat /\ application \in Nat /\ application <= started
  BY VettingAssumption DEF Typed, ApplicantTypes, VetterTypes
<1> QED BY <1>2, <1>3, <1>4, <1>5, <1>6 DEF GoodEntry, GoodRequest

LEMMA OpenedGrows ==
    ASSUME Typed, [VettingNext]_vettingVars
    PROVE  (opened' = opened \/ opened' = opened + 1) /\ (started' = started \/ started' = started + 1)
<1>1. started' = started \/ started' = started + 1
  BY ApplicationSteps DEF ApplicationStep, start_application, abandon_application
<1>2. VetterStep
  BY VetterSteps
<1>3. opened' = opened \/ opened' = opened + 1
  <2>1. ASSUME NEW m \in post, receive_card(m) \/ \E eligible \in BOOLEAN : take_request(m, eligible) PROVE opened' = opened
    BY <2>1, Zenon DEF receive_card, take_request
  <2>2. ASSUME NEW d \in Docs, open_session(d) PROVE opened' = opened + 1
    BY <2>2, Zenon DEF open_session
  <2>3. ASSUME NEW d \in Docs, attest(d) \/ decline(d) PROVE opened' = opened
    BY <2>3, Zenon DEF attest, decline
  <2>4. ASSUME NEW done \in {"sent", "failed"}, RunApplicantJob(done) \/ RunVetterJob(done) PROVE opened' = opened
    BY <2>4, Zenon DEF RunApplicantJob, RunVetterJob, vetterVars
  <2>5. CASE VetterOutcome \/ prune_desk
    BY <2>5, Zenon DEF VetterOutcome, prune_desk
  <2>6. CASE UNCHANGED vetterVars
    BY <2>6, Zenon DEF vetterVars
  <2> QED BY <1>2, <2>1, <2>2, <2>3, <2>4, <2>5, <2>6, Zenon DEF VetterStep
<1> QED BY <1>1, <1>3

LEMMA CardNumbersStep ==
    ASSUME Typed, CardNumbers, [VettingNext]_vettingVars
    PROVE  CardNumbers'
<1>v. VetterStep
  BY VetterSteps
<1>1. ASSUME NEW c \in Card, (Away(c) \/ Making(c))'
      PROVE  c.session \in 1..opened' /\ c.application \in 1..started'
  <2>1. c.session \in 1..opened /\ c.application \in 1..started
    <3>1. CASE Away(c) \/ Making(c)
      BY <3>1 DEF CardNumbers
    <3>2. ASSUME NEW d \in Docs, NEW f \in Faces, send_card(d, f),
                 c = [application |-> application, session |-> requests[d].session, face |-> f]
          PROVE  c.session \in 1..opened /\ c.application \in 1..started
      BY <3>2, Bounds DEF send_card
    <3> QED BY <1>v, <1>1, <3>1, <3>2, AwaySteps, MakingSteps
  <2> QED BY <2>1, OpenedGrows, Bounds
<1>2. ASSUME NEW m \in post', m.kind = "card" PROVE m.card.session = m.session
  <2>1. m \in post \/ (applicantJob # Idle /\ m = applicantJob.msg)
    <3>1. vetterJob # Idle => vetterJob.msg.kind # "card"
      BY DEF Typed, VetterTypes, GoodJob, VetterKinds
    <3> QED BY <1>v, <1>2, <3>1, PostGains, LetterParts DEF PostStep
  <2> QED BY <1>2, <2>1 DEF CardNumbers
<1>3. ASSUME NEW d \in Docs, desk'[d].state = "card" PROVE desk'[d].card.session = desk'[d].session
  BY <1>v, <1>3, EntrySteps, AtParts DEF EntryStep, CardNumbers
<1>4. ASSUME vetterJob' # Idle, vetterJob'.msg.kind # "session", vetterJob'.previous.state = "card"
      PROVE  vetterJob'.previous.card.session = vetterJob'.previous.session
  BY <1>v, <1>4, PreviousSteps DEF CardNumbers
<1>5. ASSUME NEW st \in issued' PROVE st.card.session = st.session
  <2>1. CASE st \in issued
    BY <2>1 DEF CardNumbers
  <2>2. ASSUME NEW k \in Docs, attest(k), st = [doc |-> k, session |-> desk[k].session, card |-> desk[k].card]
        PROVE  st.card.session = st.session
    BY <2>2 DEF attest, CardNumbers
  <2>3. CASE VetterOutcome /\ Undoing
    BY <1>5, <2>1, <2>3, Outcome
  <2> QED BY <1>v, <1>5, <2>1, <2>2, <2>3, IssuedSteps
<1>6. ASSUME applicantJob' # Idle, applicantJob'.msg.kind = "card"
      PROVE  applicantJob'.msg.card.session = applicantJob'.msg.session
  <2>0. PICK c : c = applicantJob'.msg.card
    OBVIOUS
  <2>1. Making(c)'
    BY <1>6, <2>0 DEF Making
  <2>2. CASE Making(c) /\ applicantJob'.msg = applicantJob.msg
    BY <2>0, <2>2 DEF Making, CardNumbers
  <2>3. ASSUME NEW d \in Docs, NEW f \in Faces,
               c = [application |-> application, session |-> requests[d].session, face |-> f],
               applicantJob'.msg.session = requests[d].session
        PROVE  c.session = applicantJob'.msg.session
    BY <2>3
  <2> QED BY <2>0, <2>1, <2>2, <2>3, MakingSteps
<1> QED BY <1>1, <1>2, <1>3, <1>4, <1>5, <1>6, Zenon DEF CardNumbers

LEMMA OneStatementStep ==
    ASSUME Typed, SignedDesk, OneStatement, [VettingNext]_vettingVars
    PROVE  OneStatement'
<1>v. VetterStep
  BY VetterSteps
<1>1. CASE issued' \subseteq issued
  BY <1>1 DEF OneStatement
<1>2. ASSUME NEW k \in Docs, attest(k),
             issued' = issued \cup {[doc |-> k, session |-> desk[k].session, card |-> desk[k].card]}
      PROVE  OneStatement'
  <2>1. \A st \in issued : st.doc # k
    BY <1>2 DEF attest, SignedDesk
  <2> QED BY <1>2, <2>1 DEF OneStatement
<1> QED BY <1>v, <1>1, <1>2, IssuedSteps, Outcome

LEMMA ServesBound ==
    ASSUME Typed, CardNumbers, NEW d \in Docs, NEW s, Serves(d, s)
    PROVE  s \in 1..opened
<1>1. ASSUME NEW st \in issued PROVE st.session \in 1..opened
  <2>1. st.card \in Card /\ Away(st.card)
    BY DEF Typed, VetterTypes, Statement, Away
  <2> QED BY <2>1 DEF CardNumbers
<1>2. vetterJob # Idle /\ vetterJob.msg.kind # "session" /\ vetterJob.previous.state \in {"session", "card"} =>
         vetterJob.previous.session \in 1..opened
  BY Bounds, Zenon DEF GoodEntry
<1> QED BY <1>1, <1>2, Bounds DEF Serves

(* Opening a session takes the sessions before it off the books.            *)
LEMMA OpenedServes ==
    ASSUME Typed, SignedDesk, NEW d \in Docs, open_session(d), NEW s, Serves(d, s)'
    PROVE  s = opened + 1
<1>1. desk'[d].session = opened + 1 /\ vetterJob'.msg.kind = "session"
  BY DeskFunction, AtParts, SendParts, LetterParts DEF open_session
<1>2. \A st \in issued' : st.doc # d
  BY DEF open_session, SignedDesk, is_open
<1> QED BY <1>1, <1>2 DEF Serves

LEMMA SessionLettersStep ==
    ASSUME Typed, SignedDesk, CardNumbers, SessionLetters, [VettingNext]_vettingVars
    PROVE  SessionLetters'
<1>v. VetterStep
  BY VetterSteps
<1>o. opened \in Nat
  BY Bounds
<1>1. ASSUME NEW k \in Pending', NEW l \in Pending', k.session = l.session PROVE k = l
  <2>1. CASE k \in Pending /\ l \in Pending
    BY <1>1, <2>1 DEF SessionLetters
  <2>2. \A m \in Pending : m.session <= opened /\ m.session \in Nat
    BY <1>o, Bounds
  <2>3. \A d : Letter("session", d, opened + 1, Nothing).session = opened + 1
    BY LetterParts
  <2> QED BY <1>v, <1>o, <1>1, <2>1, <2>2, <2>3, PendingSteps
<1>2. ASSUME Opening' PROVE vetterJob'.msg \notin post'
  <2>1. vetterJob' # Idle /\ vetterJob'.done = "no" /\ vetterJob'.msg.kind = "session"
    BY <1>2 DEF Opening
  <2>2. CASE VetterJobKept
    <3>1. Opening /\ vetterJob'.msg = vetterJob.msg
      BY <2>1, <2>2 DEF Opening, VetterJobKept
    <3>2. vetterJob.msg \notin post /\ ~RunVetterJob("sent")
      BY <2>1, <3>1, SentIsDone DEF SessionLetters
    <3> QED BY <1>v, <2>1, <3>1, <3>2, VetterLetters
  <2>3. ASSUME NEW d \in Docs, open_session(d) PROVE vetterJob'.msg \notin post'
    <3>1. post' = post /\ vetterJob'.msg = Letter("session", d, opened + 1, Nothing)
      BY <2>3, SendParts DEF open_session
    <3>2. vetterJob'.msg.session = opened + 1 /\ vetterJob'.msg.kind = "session"
      BY <3>1, LetterParts
    <3>3. \A m \in post : m.kind = "session" => m.session \in 1..opened
      BY Bounds DEF Pending
    <3> QED BY <1>o, <3>1, <3>2, <3>3
  <2>4. ASSUME NEW d \in Docs, attest(d) \/ decline(d) PROVE FALSE
    BY <2>1, <2>4, SendParts, LetterParts DEF attest, decline
  <2> QED BY <1>v, <2>1, <2>2, <2>3, <2>4, VetterJobSteps, Zenon
<1>3. ASSUME NEW m \in Pending', NEW d \in Docs, requests'[d].state = "session"
      PROVE  requests'[d].session # m.session
  <2>1. CASE m \notin Pending
    <3>1. m.session = opened + 1
      BY <1>v, <2>1, PendingSteps, LetterParts
    <3>2. requests'[d].session <= opened /\ requests'[d].session \in Nat
      <4>1. RequestStep(d)
        BY RequestSteps
      <4>2. \A l \in post : l.kind = "session" => l.session \in 1..opened
        BY Bounds DEF Pending
      <4> QED BY <1>o, <1>3, <4>1, <4>2, Bounds, AtParts, ValueStates DEF RequestStep, Recording
    <3> QED BY <1>o, <3>1, <3>2
  <2>2. CASE m \in Pending
    <3>1. CASE requests[d].state = "session" /\ requests'[d].session = requests[d].session
      BY <2>2, <3>1 DEF SessionLetters
    <3>2. ASSUME NEW l \in post, l.kind = "session", on_session(l), requests'[d] = At("session", l.session, Nothing)
          PROVE  requests'[d].session # m.session
      <4>1. post' = post \ {l} /\ vetterJob' = vetterJob
        BY <3>2, Zenon DEF on_session, Reply, Handling, vetterVars
      <4>2. m # l /\ l \in Pending
        BY <3>2, <4>1 DEF Pending, Opening, SessionLetters
      <4> QED BY <2>2, <3>2, <4>2, AtParts DEF SessionLetters
    <3>3. RequestStep(d)
      BY RequestSteps
    <3> QED BY <1>3, <3>1, <3>2, <3>3, ValueStates DEF RequestStep, Recording
  <2> QED BY <2>1, <2>2
<1>4. ASSUME NEW m \in Pending', NEW d \in Docs, NEW s \in 1..opened', Serves(d, s)'
      PROVE  (m.session = s => m.doc = d) /\ (m.doc = d => m.session <= s)
  <2>1. CASE m \in Pending /\ Serves(d, s)
    BY <2>1, ServesBound DEF SessionLetters
  <2>2. CASE m \in Pending /\ open_session(d) /\ s = opened + 1
    BY <1>o, <2>2, Bounds
  <2>3. ASSUME NEW e \in Docs, open_session(e), m = Letter("session", e, opened + 1, Nothing)
        PROVE  (m.session = s => m.doc = d) /\ (m.doc = d => m.session <= s)
    <3>1. m.session = opened + 1 /\ m.doc = e
      BY <2>3, LetterParts
    <3>2. CASE d = e
      <4>1. s = opened + 1
        BY <1>4, <2>3, <3>2, OpenedServes
      <4> QED BY <1>o, <3>1, <3>2, <4>1
    <3>3. CASE d # e
      <4>1. ~open_session(d)
        <5>1. ASSUME open_session(d) PROVE d = e
          BY <2>3, <5>1, SendParts, LetterParts DEF open_session
        <5> QED BY <3>3, <5>1
      <4>2. s \in 1..opened
        BY <1>v, <1>4, <4>1, ServesSteps, ServesBound
      <4> QED BY <1>o, <3>1, <3>3, <4>2
    <3> QED BY <3>2, <3>3
  <2> QED BY <1>v, <1>4, <2>1, <2>2, <2>3, PendingSteps, ServesSteps
<1>5. ASSUME NEW d \in Docs, NEW e \in Docs, requests'[e].state = "session", NEW s, s = requests'[e].session, Serves(d, s)'
      PROVE  d = e
  <2>1. RequestStep(e)
    BY RequestSteps
  <2>2. \A l \in post : l.kind = "session" => l \in Pending /\ l.session \in 1..opened
    BY Bounds DEF Pending
  <2>3. s \in 1..opened
    BY <1>5, <2>1, <2>2, Bounds, AtParts, ValueStates DEF RequestStep, Recording
  <2>4. Serves(d, s)
    BY <1>v, <1>o, <1>5, <2>3, ServesSteps
  <2>5. CASE requests[e].state = "session" /\ requests[e].session = s
    BY <2>4, <2>5 DEF SessionLetters
  <2>6. ASSUME NEW l \in Pending, l.doc = e, l.session = s PROVE d = e
    BY <2>3, <2>4, <2>6 DEF SessionLetters
  <2> QED BY <1>5, <2>1, <2>2, <2>5, <2>6, AtParts, ValueStates DEF RequestStep, Recording
<1> QED BY <1>1, <1>2, <1>3, <1>4, <1>5, Zenon DEF SessionLetters

-----------------------------------------------------------------------------
(* Where the cards are. *)

LEMMA Grows ==
    ASSUME [VettingNext]_vettingVars
    PROVE  expired \subseteq expired' /\ overwritten \subseteq overwritten'
<1> DEFINE More == expired \subseteq expired' /\ overwritten \subseteq overwritten'
<1>a. ASSUME UNCHANGED <<expired, overwritten>> PROVE More
  BY <1>a
<1>1. CASE start_application \/ abandon_application \/ prune_applications \/ RequestOutcome \/ CardOutcome
  BY <1>1, <1>a, Zenon DEF start_application, abandon_application, prune_applications, RequestOutcome, CardOutcome
<1>2. ASSUME NEW d \in Docs, request_vetter(d) \/ open_session(d) \/ attest(d) \/ decline(d) PROVE More
  BY <1>2, <1>a, Zenon DEF request_vetter, open_session, attest, decline
<1>3. ASSUME NEW d \in Docs, NEW f \in Faces, send_card(d, f) PROVE More
  BY <1>3, <1>a, Zenon DEF send_card
<1>4. ASSUME NEW done \in {"sent", "failed"}, RunApplicantJob(done) \/ RunVetterJob(done) PROVE More
  BY <1>4, <1>a, Zenon DEF RunApplicantJob, RunVetterJob
<1>5. CASE VetterOutcome \/ prune_desk
  BY <1>5, <1>a, Zenon DEF VetterOutcome, prune_desk
<1>6. ASSUME NEW m \in post, on_accepted(m) \/ on_refused(m) \/ on_statement(m) \/ on_decline(m) PROVE More
  BY <1>6, <1>a, Zenon DEF on_accepted, on_refused, on_statement, on_decline, Handling
<1>7. ASSUME NEW m \in post, on_session(m) PROVE More
  <2>1. expired' = expired
    BY <1>7, Zenon DEF on_session, Handling
  <2>2. overwritten \subseteq overwritten'
    BY <1>7 DEF on_session
  <2> QED BY <2>1, <2>2
<1>8. ASSUME NEW m \in post, NEW eligible \in BOOLEAN, take_request(m, eligible) PROVE More
  BY <1>8, <1>a, Zenon DEF take_request
<1>9. ASSUME NEW m \in post, receive_card(m) \/ LosePost(m) PROVE More
  BY <1>9, <1>a, Zenon DEF receive_card, LosePost
<1>10. ASSUME NEW s \in 1..opened, Expire(s) PROVE More
  BY <1>10 DEF Expire
<1>11. CASE UNCHANGED vettingVars
  BY <1>11, <1>a, Zenon DEF vettingVars
<1> QED
  BY <1>1, <1>2, <1>3, <1>4, <1>5, <1>6, <1>7, <1>8, <1>9, <1>10, <1>11, Zenon DEF VettingNext

(* A card that can count could before. *)
LEMMA MattersSteps ==
    ASSUME Typed, [VettingNext]_vettingVars, NEW c \in Card, c.application \in 1..started
    PROVE  /\ application' = c.application =>
                 application = c.application /\ (identity_claims' = identity_claims \/ CardOutcome)
           /\ Matters(c)' => Matters(c)
<1>1. application' = c.application =>
         application = c.application /\ (identity_claims' = identity_claims \/ CardOutcome)
  BY ApplicationSteps, Bounds DEF ApplicationStep, start_application, abandon_application
<1> QED BY <1>1, Grows DEF Matters

(* A session keeps what it holds, while it counts: it is settled, or the     *)
(* card's outcome is applied.                                               *)
LEMMA InSteps ==
    ASSUME Typed, SessionLetters, [VettingNext]_vettingVars, NEW d \in Docs, NEW c \in Card, NEW held,
           In(d, c, held), c.session \in 1..opened, Serves(d, c.session), Matters(c)'
    PROVE  In(d, c, held)' \/ Settled(d)' \/ Recording(d)
<1>1. RequestStep(d)
  BY RequestSteps
<1>2. application' # 0
  BY CardParts, VettingAssumption DEF Matters
<1>3. ASSUME requests[d].session \in expired PROVE FALSE
  BY <1>3, Grows DEF In, Matters
<1>4. ASSUME NEW m \in post, m.kind = "session", m.doc = d, on_session(m), m.session \notin expired PROVE FALSE
  <2>1. m \in Pending
    BY <1>4 DEF Pending
  <2>2. m.session <= c.session /\ c.session # m.session
    BY <2>1, <1>4 DEF SessionLetters, In
  <2>3. m.session \in 1..opened /\ c.session \in 1..opened /\ opened \in Nat
    BY <2>1, Bounds
  <2>4. c.session > m.session
    BY <2>2, <2>3
  <2>5. overwritten' = overwritten \cup {s \in {requests[m.doc].session} : s > m.session}
    BY <1>4 DEF on_session
  <2>6. c.session \in overwritten'
    BY <1>4, <2>4, <2>5 DEF In
  <2> QED BY <2>6 DEF Matters
<1>5. CASE requests'[d] = requests[d]
  BY <1>5 DEF In
<1>6. ASSUME requests'[d].state \in {"attested", "declined"} PROVE Settled(d)'
  BY <1>6 DEF Settled
<1>7. requests[d].state = "session"
  BY DEF In
<1> QED BY <1>1, <1>2, <1>3, <1>4, <1>5, <1>6, <1>7, ValueStates DEF RequestStep

LEMMA SettledStays ==
    ASSUME Typed, [VettingNext]_vettingVars, NEW d \in Docs, NEW c \in Card, Settled(d), Matters(c)'
    PROVE  Settled(d)'
<1>1. RequestStep(d)
  BY RequestSteps
<1>2. application' # 0
  BY CardParts, VettingAssumption DEF Matters
<1> QED BY <1>1, <1>2, ValueStates DEF RequestStep, Recording, Settled

(* The outcome of a card's send puts it where it is looked for.             *)
LEMMA CardRecorded ==
    ASSUME Typed, CardOutcome, NEW d \in Docs, NEW c \in Card, SentNow(c), In(d, c, Nothing),
           application = c.application, IdentityUnchanged(c.face), c.session \notin expired
    PROVE  In(d, c, c)'
<1> DEFINE at == {k \in Docs : /\ application = c.application
                               /\ IdentityUnchanged(c.face)
                               /\ requests[k].state = "session" /\ requests[k].session = c.session}
           marked == [k \in Docs |-> IF k \in at THEN [requests[k] EXCEPT !.card = c] ELSE requests[k]]
<1>1. applicantJob.done = "sent" /\ applicantJob.msg.card = c
  BY DEF SentNow, Making
<1>2. requests' = Swept(marked)
  BY <1>1, Zenon DEF CardOutcome, record_sent_card
<1>3. d \in at
  BY DEF In
<1>4. marked[d] = [requests[d] EXCEPT !.card = c]
  BY <1>3, Zenon
<1>5. requests[d] \in Request
  BY RequestsFunction
<1>6. marked[d].state = requests[d].state /\ marked[d].session = requests[d].session
  BY <1>4, <1>5, RequestCard, Zenon
<1>7. marked[d].card = c
  <2>1. [requests[d] EXCEPT !.card = c].card = c
    BY <1>5, RequestCard, Zenon
  <2> QED BY <1>4, <2>1, Zenon
<1>8. requests'[d] = IF marked[d].state = "session" /\ marked[d].session \in expired THEN Accepted ELSE marked[d]
  BY <1>2, Zenon DEF Swept
<1> HIDE DEF marked, at
<1> QED BY <1>6, <1>7, <1>8 DEF In

LEMMA CardsPlacedStep ==
    ASSUME TakenInv, [VettingNext]_vettingVars
    PROVE  CardsPlaced'
<1>t. Typed /\ CardNumbers /\ SessionLetters /\ CardsPlaced /\ IdentityKept
  BY DEF TakenInv, BooksInv, DeskInv
<1>v. VetterStep
  BY VetterSteps
<1>o. opened \in Nat
  BY <1>t, Bounds
<1>0. SUFFICES ASSUME NEW d \in Docs, NEW c \in Card, Matters(c)', Serves(d, c.session)'
               PROVE  /\ Away(c)' => In(d, c, c)' \/ Settled(d)' \/ SentNow(c)'
                      /\ Sending(c)' => In(d, c, Nothing)' \/ Settled(d)'
  BY DEF CardsPlaced
<1>n. c # Nothing
  BY NothingIsNothingElse
<1>m. ASSUME c.session \in 1..opened, c.application \in 1..started
      PROVE  Matters(c) /\ Serves(d, c.session)
  <2>1. Matters(c)
    BY <1>0, <1>t, <1>m, MattersSteps
  <2>2. Serves(d, c.session)
    BY <1>0, <1>t, <1>v, <1>o, <1>m, ServesSteps
  <2> QED BY <2>1, <2>2
<1>k. ASSUME NEW held, In(d, c, held), c.session \in 1..opened, Serves(d, c.session)
      PROVE  In(d, c, held)' \/ Settled(d)' \/ Recording(d)
  BY <1>0, <1>t, <1>k, InSteps
<1>s. ASSUME Settled(d) PROVE Settled(d)'
  BY <1>0, <1>t, <1>s, SettledStays
<1>1. ASSUME Away(c)' PROVE In(d, c, c)' \/ Settled(d)' \/ SentNow(c)'
  <2>1. CASE Away(c)
    <3>1. c.session \in 1..opened /\ c.application \in 1..started
      BY <1>t, <2>1 DEF CardNumbers
    <3>2. Matters(c) /\ Serves(d, c.session)
      BY <1>m, <3>1
    <3>3. In(d, c, c) \/ Settled(d) \/ SentNow(c)
      BY <1>t, <2>1, <3>2 DEF CardsPlaced
    <3>4. ASSUME In(d, c, c), Recording(d) PROVE FALSE
      <4>1. PICK e \in Card : Making(e) /\ e = applicantJob.msg.card /\ applicantJob.done = "sent"
        BY <1>t, <3>4, Bounds DEF Recording, CardOutcome, Ended, Making
      <4>2. e.session = c.session /\ application = e.application
        BY <3>4, <4>1 DEF Recording, In
      <4>3. Matters(e) /\ Sending(e) /\ Serves(d, e.session)
        BY <3>2, <4>1, <4>2 DEF Matters, Sending
      <4>4. In(d, e, Nothing) \/ Settled(d)
        BY <1>t, <4>3 DEF CardsPlaced
      <4> QED BY <1>n, <3>4, <4>4 DEF In, Settled
    <3>5. CASE In(d, c, c)
      BY <1>k, <3>1, <3>2, <3>4, <3>5
    <3>6. CASE SentNow(c)
      <4>1. Sending(c) /\ Making(c)
        BY <3>6 DEF SentNow, Sending
      <4>2. In(d, c, Nothing) \/ Settled(d)
        BY <1>t, <3>2, <4>1 DEF CardsPlaced
      <4>3. CASE CardOutcome /\ In(d, c, Nothing)
        <5>1. application = c.application /\ c.session \notin expired /\ IdentityUnchanged(c.face)
          BY <1>t, <3>2, <4>1 DEF Matters, IdentityKept
        <5> QED BY <1>t, <3>6, <4>3, <5>1, CardRecorded
      <4>4. CASE ~CardOutcome
        <5>1. applicantJob' = applicantJob
          <6>1. ~RequestOutcome
            BY <4>1 DEF RequestOutcome, Making
          <6>2. applicantJob # Idle /\ applicantJob.done # "no"
            BY <3>6 DEF SentNow, Making
          <6>3. \A e \in Docs : ~request_vetter(e)
            BY <6>2 DEF request_vetter
          <6>4. \A e \in Docs, f \in Faces : ~send_card(e, f)
            BY <6>2, Zenon DEF send_card
          <6>5. \A done \in {"sent", "failed"} : ~RunApplicantJob(done)
            BY <6>2, Zenon DEF RunApplicantJob
          <6> QED BY <4>4, <6>1, <6>3, <6>4, <6>5, JobSteps, Zenon
        <5> QED BY <3>6, <5>1, Zenon DEF SentNow, Making
      <4> QED BY <1>s, <4>2, <4>3, <4>4
    <3> QED BY <1>s, <3>3, <3>5, <3>6
  <2>2. CASE RunApplicantJob("sent") /\ applicantJob.done = "no" /\ Making(c)
    <3>1. applicantJob' = [applicantJob EXCEPT !.done = "sent"] /\ applicantJob \in SendJob /\ applicantJob # Idle
      BY <1>t, <2>2, Zenon DEF RunApplicantJob, Typed, ApplicantTypes, GoodJob
    <3>2. applicantJob'.msg = applicantJob.msg /\ applicantJob'.done = "sent"
      BY <3>1, JobDone, Zenon
    <3>3. applicantJob' # Idle
      BY <3>1, JobDone, NothingIsNothingElse DEF Idle
    <3> QED BY <2>2, <3>2, <3>3 DEF SentNow, Making
  <2> QED BY <1>t, <1>v, <1>1, <2>1, <2>2, AwaySteps
<1>2. ASSUME Sending(c)' PROVE In(d, c, Nothing)' \/ Settled(d)'
  <2>0. Making(c)'
    BY <1>2 DEF Sending
  <2>1. CASE Making(c) /\ Sending(c)
    <3>1. c.session \in 1..opened /\ c.application \in 1..started
      BY <1>t, <2>1 DEF CardNumbers
    <3>2. Matters(c) /\ Serves(d, c.session)
      BY <1>m, <3>1
    <3>3. In(d, c, Nothing) \/ Settled(d)
      BY <1>t, <2>1, <3>2 DEF CardsPlaced
    <3>4. ~Recording(d)
      BY <2>0 DEF Recording, CardOutcome, Making
    <3> QED BY <1>k, <1>s, <3>1, <3>2, <3>3, <3>4
  <2>2. ASSUME NEW e \in Docs, NEW f \in Faces, send_card(e, f),
               c = [application |-> application, session |-> requests[e].session, face |-> f]
        PROVE  In(d, c, Nothing)'
    <3>1. /\ requests[e].state = "session" /\ requests[e].card = Nothing /\ requests' = requests
          /\ UNCHANGED vetterVars /\ requests[e].session \in 1..opened /\ c.session = requests[e].session
      BY <1>t, <2>2, Bounds DEF send_card
    <3>2. Serves(d, requests[e].session)
      BY <1>0, <1>t, <1>v, <1>o, <3>1, ServesSteps
    <3>3. d = e
      BY <1>t, <3>1, <3>2 DEF SessionLetters
    <3> QED BY <3>1, <3>3 DEF In
  <2> QED BY <1>t, <1>2, <2>0, <2>1, <2>2, MakingSteps
<1> QED BY <1>1, <1>2

LEMMA IdentityKeptStep ==
    ASSUME TakenInv, [VettingNext]_vettingVars
    PROVE  IdentityKept'
<1>t. Typed /\ CardNumbers /\ IdentityKept
  BY DEF TakenInv, BooksInv, DeskInv
<1>0. SUFFICES ASSUME NEW c \in Card, Making(c)', application' = c.application
               PROVE  IdentityUnchanged(c.face)'
  BY DEF IdentityKept
<1>1. CASE Making(c)
  <2>1. application = c.application /\ (identity_claims' = identity_claims \/ CardOutcome)
    BY <1>t, <1>0, <1>1, MattersSteps DEF CardNumbers
  <2>2. ~CardOutcome
    BY <1>0 DEF Making, CardOutcome
  <2> QED BY <1>t, <1>1, <2>1, <2>2 DEF IdentityKept, IdentityUnchanged
<1>2. ASSUME NEW d \in Docs, NEW f \in Faces, send_card(d, f),
             c = [application |-> application, session |-> requests[d].session, face |-> f]
      PROVE  IdentityUnchanged(c.face)'
  BY <1>2 DEF send_card, IdentityUnchanged
<1> QED BY <1>t, <1>0, <1>1, <1>2, MakingSteps

LEMMA TakenInit == VettingInit => TakenInv
<1> SUFFICES ASSUME VettingInit PROVE TakenInv
  OBVIOUS
<1>1. BooksInv
  BY BooksInit
<1>2. \A d \in Docs : requests[d].state = "none" /\ desk[d].state = "none"
  BY ValueStates DEF VettingInit
<1>3. /\ applicantJob = Idle /\ vetterJob = Idle /\ post = {} /\ issued = {}
  BY DEF VettingInit
<1>4. \A c : ~Away(c) /\ ~Making(c)
  BY <1>2, <1>3 DEF Away, Making
<1>5. Pending = {} /\ ~Opening
  BY <1>3 DEF Pending, Opening
<1>6. CardNumbers
  BY <1>2, <1>3, <1>4 DEF CardNumbers
<1>7. SessionLetters
  BY <1>2, <1>5 DEF SessionLetters
<1>8. CardsPlaced /\ IdentityKept
  BY <1>4 DEF CardsPlaced, IdentityKept, Sending
<1> QED BY <1>1, <1>3, <1>6, <1>7, <1>8 DEF TakenInv, OneStatement

LEMMA TakenStep == TakenInv /\ [VettingNext]_vettingVars => TakenInv'
<1> SUFFICES ASSUME TakenInv, [VettingNext]_vettingVars PROVE TakenInv'
  OBVIOUS
<1>1. BooksInv'
  BY BooksStep DEF TakenInv
<1>2. CardNumbers' /\ OneStatement' /\ SessionLetters'
  BY CardNumbersStep, OneStatementStep, SessionLettersStep DEF TakenInv, BooksInv, DeskInv, Signed
<1> QED BY <1>1, <1>2, CardsPlacedStep, IdentityKeptStep DEF TakenInv

(* A statement that is handled is taken.                                    *)
LEMMA Taken ==
    ASSUME TakenInv, [VettingNext]_vettingVars, NEW m \in post, on_statement(m),
           application = m.card.application, m.session \notin expired \cup overwritten,
           applicantJob = Idle \/ applicantJob.msg.card # m.card
    PROVE  \E st \in statements' : st.session = m.session
<1>1. m.kind = "statement" /\ m.doc \in Docs /\ m.card \in Card
  BY DEF on_statement, Reply, TakenInv, BooksInv, DeskInv, Typed, PostTypes, GoodLetter
<1>2. /\ StatementOf(m) \in issued /\ StatementOf(m).doc = m.doc /\ StatementOf(m).session = m.session
      /\ StatementOf(m).card = m.card
  BY <1>1 DEF TakenInv, BooksInv, Signed, SignedLetters, StatementOf
<1>3. m.card.session = m.session
  BY <1>2 DEF TakenInv, CardNumbers
<1>4. Away(m.card) /\ Serves(m.doc, m.card.session) /\ Matters(m.card)
  BY <1>2, <1>3 DEF Away, Serves, Matters
<1>5. In(m.doc, m.card, m.card) \/ Settled(m.doc) \/ SentNow(m.card)
  BY <1>1, <1>4 DEF TakenInv, CardsPlaced
<1>6. CASE In(m.doc, m.card, m.card)
  <2>1. Answers(m)
    BY <1>3, <1>6 DEF In, Answers
  <2>2. StatementOf(m) \in statements'
    BY <2>1 DEF on_statement, StatementOf
  <2> QED BY <1>2, <2>2
<1>7. CASE requests[m.doc].state = "attested"
  <2>1. PICK st \in statements : st.doc = m.doc
    BY <1>1, <1>7 DEF TakenInv, BooksInv, Attested
  <2>2. st = StatementOf(m)
    BY <1>2, <2>1 DEF TakenInv, BooksInv, Signed, SignedHeld, OneStatement
  <2>3. statements \subseteq statements'
    BY DEF on_statement
  <2> QED BY <1>2, <2>1, <2>2, <2>3
<1>8. CASE requests[m.doc].state = "declined"
  <2>1. desk[m.doc].state = "declined" /\ desk[m.doc].state = "attested"
    BY <1>1, <1>2, <1>8 DEF TakenInv, BooksInv, Declines, Signed, SignedDesk
  <2> QED BY <2>1
<1>9. ~SentNow(m.card)
  BY DEF SentNow, Making
<1> QED BY <1>5, <1>6, <1>7, <1>8, <1>9 DEF Settled

(* A statement that reaches the application its card was made for is kept,  *)
(* whatever was lost, replaced, undone or abandoned before (on_statement,   *)
(* record_sent_card, prune).                                                *)
THEOREM VettingStatementsTaken == VettingSpec => StatementsTaken
<1>1. VettingInit => TakenInv
  BY TakenInit
<1>2. TakenInv /\ [VettingNext]_vettingVars => TakenInv'
  BY TakenStep
<1>3. TakenInv /\ [VettingNext]_vettingVars =>
         [\A m \in post :
            /\ on_statement(m)
            /\ application = m.card.application
            /\ m.session \notin expired \cup overwritten
            /\ applicantJob = Idle \/ applicantJob.msg.card # m.card
            => \E st \in statements' : st.session = m.session]_vettingVars
  BY Taken
<1> QED BY <1>1, <1>2, <1>3, PTL DEF VettingSpec, StatementsTaken
=============================================================================
