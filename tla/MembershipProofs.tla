-------------------------- MODULE MembershipProofs --------------------------
(***************************************************************************)
(* The memberships of an account with one community, for any personas,     *)
(* number of joins and budgets: admission is by the community's credential *)
(* for a request it approved, each persona resolves to its membership, the *)
(* answers to several joins do not mix, and each join goes through the     *)
(* states of MembershipLifecycle.                                          *)
(***************************************************************************)
EXTENDS Membership, WellFoundedInduction, FiniteSetTheorems, SequenceTheorems, TLAPS

States == {"none", "open", "approved", "rejected", "withdrawn", "ended"}
Request == [by : Personas \cup {None}, state : States, acked : BOOLEAN]
Deliveries == {"no", "yes"}
Answers == {"none", "queued", "refused"}
Messages ==
    [kind : {"verdict"}, to : Personas, k : Joins, effect : {"allow", "deny", "refer"}]
    \cup [kind : {"credential", "error", "notice"}, to : Personas, k : Joins]
    \cup [kind : {"renewed"}, to : Personas, k : Joins, n : Nat]
    \cup [kind : {"notMember"}, to : Personas, k : {0}, n : Nat]
    \cup [kind : {"status"}, to : Personas, k : Joins, status : States, delivered : Deliveries, answer : Answers]

(* The community approved the k-th request, of p; it may have ended since.  *)
Issued(rq, k, p) == k \in Joins /\ rq[k].by = p /\ rq[k].state \in {"approved", "ended"}

(* A record, against the community's requests rq and n joins: it waits on    *)
(* its own request until the community names one, and the credential it     *)
(* holds was issued.                                                        *)
Whole(r, rq, n) ==
    /\ r \in Record
    /\ r.status = "Pending" <=> r.req # NoReq
    /\ r.status = "Pending" => IF r.confirmed THEN r.req > MaxJoins ELSE r.req = r.own
    /\ r.status = "Active" => r.vmc # NoReq
    /\ r.vmc # NoReq => Issued(rq, r.vmc, r.persona)
    /\ r.own \in 1..n /\ rq[r.own].by = r.persona

Book(rs, rq, n) ==
    /\ rs \in Seq(Record)
    /\ \A i \in 1..Len(rs) : Whole(rs[i], rq, n)
    /\ \A i, j \in 1..Len(rs) : rs[i].own = rs[j].own => i = j

(* One record per persona. *)
Alone(rs) == \A i, j \in 1..Len(rs) : rs[i].persona = rs[j].persona => i = j

(* What is on disk knows no more ids than the account.                      *)
Behind(old, new) ==
    \A i \in 1..Len(old), j \in 1..Len(new) :
        old[i].own = new[j].own /\ old[i].confirmed => new[j].confirmed

(* A message is about a request of the persona it is addressed to.          *)
Addressed(m, rq) ==
    /\ m \in Messages
    /\ m.kind # "notMember" => rq[m.k].by = m.to
    /\ m.kind \in {"credential", "renewed"} => Issued(rq, m.k, m.to)

Community(rq, n) ==
    /\ rq \in [Joins -> Request]
    /\ \A k \in Joins : IF k <= n THEN rq[k].by \in Personas ELSE rq[k].by = None /\ rq[k].state = "none"

Limits == [joins : Seq(Personas), faults : Nat, crashes : Nat, renewals : Nat,
           decides : Nat, elsewhere : Nat, turns : Nat, rejoins : BOOLEAN]

Rest ==
    /\ joins \in 0..MaxJoins /\ asks \in [Personas -> 0..MaxAsks]
    /\ renewals \subseteq Nat /\ job \in Personas \cup {None}
    /\ left \in Limits /\ joins + Len(left.joins) <= MaxJoins

MembershipInv ==
    /\ Rest
    /\ Community(requests, joins)
    /\ \A m \in net : Addressed(m, requests)
    /\ Book(recs, requests, joins) /\ Book(saved, requests, joins)
    /\ Behind(saved, recs)
    /\ ~left.rejoins => Alone(recs) /\ Alone(saved)

-----------------------------------------------------------------------------
LEMMA Least ==
    ASSUME NEW S, S \subseteq Nat, S # {}
    PROVE  \E i \in S : \A j \in S : i <= j
<1>1. PICK i \in S : \A j \in S : ~(<<j, i>> \in OpToRel(<, Nat))
  BY NatLessThanWellFounded, WFMin
<1>2. \A j \in S : ~(j < i)
  BY <1>1 DEF OpToRel
<1> QED BY <1>2

LEMMA NewestOne ==
    ASSUME NEW S, S \subseteq Joins, S # {}
    PROVE  Newest(S) \in S
<1> DEFINE T == {MaxJoins - k : k \in S}
<1>1. T \subseteq Nat /\ T # {}
  BY MembershipAssumption DEF Joins
<1>2. PICK i \in T : \A j \in T : i <= j
  BY <1>1, Least
<1>3. PICK k \in S : i = MaxJoins - k
  BY <1>2
<1>4. ASSUME NEW j \in S PROVE j <= k
  <2>1. i <= MaxJoins - j
    BY <1>2
  <2>2. j \in Int /\ k \in Int /\ MaxJoins \in Int
    BY MembershipAssumption DEF Joins
  <2> QED BY <1>3, <2>1, <2>2
<1> QED BY <1>4 DEF Newest

LEMMA BudgetType == \A b \in Budgets : b \in Limits /\ Len(b.joins) <= MaxJoins
<1> SUFFICES ASSUME NEW b \in Budgets PROVE b \in Limits /\ Len(b.joins) <= MaxJoins
  OBVIOUS
<1>1. b \in [joins : BoundedSeq(Personas, MaxJoins), faults : Nat, crashes : Nat, renewals : Nat,
             decides : Nat, elsewhere : Nat, turns : Nat, rejoins : BOOLEAN]
  BY MembershipAssumption
<1>2. PICK n \in 0..MaxJoins : b.joins \in [1..n -> Personas]
  BY <1>1 DEF BoundedSeq, SeqOf
<1>3. n \in Nat
  BY <1>2, MembershipAssumption
<1>4. b.joins \in Seq(Personas)
  BY <1>2, <1>3, SeqDef
<1>5. Len(b.joins) = n
  BY <1>2, <1>3, <1>4, LenProperties
<1>6. n <= MaxJoins
  BY <1>2, MembershipAssumption
<1> QED BY <1>1, <1>4, <1>5, <1>6 DEF Limits

-----------------------------------------------------------------------------
(* What the operations on a record leave of it. *)
Revised(r, q) == q.own = r.own /\ q.persona = r.persona /\ (r.confirmed => q.confirmed)

LEMMA BecomesRecord ==
    ASSUME NEW r \in Record, NEW s \in Live \cup Ended
    PROVE  /\ Becomes(r, s) \in Record /\ Becomes(r, s).status = s /\ Becomes(r, s).req = NoReq
           /\ Becomes(r, s).vmc = r.vmc /\ Becomes(r, s).own = r.own /\ Becomes(r, s).persona = r.persona
           /\ Becomes(r, s).confirmed = r.confirmed
<1>1. NoReq \in 0..(2 * MaxJoins)
  BY MembershipAssumption DEF NoReq
<1> QED BY <1>1 DEF Becomes, Record

LEMMA ConfirmedRecord ==
    ASSUME NEW r \in Record, NEW k \in Joins, r.status = "Pending"
    PROVE  LET q == confirm_request_id(r, Vid(k))
           IN  /\ q \in Record /\ q.status = "Pending" /\ q.req = Vid(k) /\ q.confirmed = TRUE
               /\ q.vmc = r.vmc /\ q.own = r.own /\ q.persona = r.persona
<1>1. Vid(k) \in 0..(2 * MaxJoins)
  BY MembershipAssumption DEF Vid, Joins
<1> QED BY <1>1 DEF confirm_request_id, Record

LEMMA HeldRecord ==
    ASSUME NEW r \in Record, NEW k \in Joins
    PROVE  /\ Hold(r, k) \in Record /\ Hold(r, k).status = "Active" /\ Hold(r, k).req = NoReq
           /\ Hold(r, k).vmc = k /\ Hold(r, k).own = r.own /\ Hold(r, k).persona = r.persona
           /\ Hold(r, k).confirmed = r.confirmed
<1>1. k \in 0..MaxJoins
  BY MembershipAssumption DEF Joins
<1>2. "Active" \in Live \cup Ended
  BY DEF Live
<1>3. PICK q \in Record : q = Becomes(r, "Active")
  BY <1>2, BecomesRecord
<1>4. Hold(r, k) = [q EXCEPT !.vmc = k]
  BY <1>3 DEF Hold
<1>5. /\ q.status = "Active" /\ q.req = NoReq /\ q.own = r.own /\ q.persona = r.persona /\ q.confirmed = r.confirmed
  BY <1>2, <1>3, BecomesRecord
<1>6. [q EXCEPT !.vmc = k] \in Record
  BY <1>1 DEF Record
<1> QED BY <1>3, <1>4, <1>5, <1>6 DEF Record

LEMMA DeliveryRecord ==
    ASSUME NEW r \in Record, NEW m, m.delivered \in Deliveries, m.answer \in Answers
    PROVE  LET q == record_credential_delivery([r EXCEPT !.approved = TRUE], m)
           IN  /\ q \in Record /\ q.status = r.status /\ q.req = r.req /\ q.confirmed = r.confirmed
               /\ q.vmc = r.vmc /\ q.own = r.own /\ q.persona = r.persona
<1>1. PICK q \in Record : q = [r EXCEPT !.approved = TRUE]
  BY DEF Record
<1>2. q.status = r.status /\ q.req = r.req /\ q.confirmed = r.confirmed /\ q.vmc = r.vmc /\ q.own = r.own /\ q.persona = r.persona
  BY <1>1 DEF Record
<1>3. PICK a \in Answers : a = IF m.answer = "none" THEN q.answer ELSE m.answer
  BY DEF Record, Answers
<1>4. record_credential_delivery(q, m) = [q EXCEPT !.delivered = m.delivered, !.answer = a]
  BY <1>3 DEF record_credential_delivery
<1>5. m.delivered \in {"unreported", "no", "yes"}
  BY DEF Deliveries
<1>6. [q EXCEPT !.delivered = m.delivered, !.answer = a] \in Record
  BY <1>3, <1>5 DEF Record, Answers
<1> QED BY <1>1, <1>2, <1>4, <1>6 DEF Record

(* What the community knows is not taken back: each request stays the one's *)
(* who made it, and an approved one ends at most.                           *)
Grown(rq, n, new) ==
    \A k \in 1..n : /\ new[k].by = rq[k].by
                    /\ rq[k].state \in {"approved", "ended"} => new[k].state \in {"approved", "ended"}

(* What an operation makes of a whole record is one, for the same join and  *)
(* persona, and forgets no id.                                              *)
Kept(r, q, rq, n) == Whole(q, rq, n) /\ Revised(r, q)

LEMMA WholeEnds ==
    ASSUME NEW r, NEW rq, NEW n, Whole(r, rq, n), NEW s \in Ended
    PROVE  Kept(r, Becomes(r, s), rq, n)
<1>1. r \in Record /\ s \in Live \cup Ended /\ s # "Pending" /\ s # "Active"
  BY DEF Whole, Ended
<1>2. PICK q : q = Becomes(r, s)
  OBVIOUS
<1>3. q \in Record /\ q.status = s /\ q.req = NoReq /\ q.vmc = r.vmc /\ q.own = r.own /\ q.persona = r.persona
      /\ q.confirmed = r.confirmed
  BY <1>1, <1>2, BecomesRecord
<1>4. Kept(r, q, rq, n)
  BY <1>1, <1>3 DEF Kept, Whole, Revised
<1> QED BY <1>2, <1>4

LEMMA WholeWithdrawn ==
    ASSUME NEW r, NEW rq, NEW n, Whole(r, rq, n)
    PROVE  Kept(r, withdraw(r), rq, n)
<1>1. CASE r.status = "Pending"
  BY <1>1, WholeEnds DEF withdraw, Ended
<1>2. CASE r.status # "Pending"
  BY <1>2 DEF withdraw, Kept, Revised
<1> QED BY <1>1, <1>2

LEMMA WholeConfirmed ==
    ASSUME NEW r, NEW rq, NEW n, Whole(r, rq, n), NEW k \in Joins
    PROVE  /\ Kept(r, confirm_request_id(r, Vid(k)), rq, n)
           /\ confirm_request_id(r, Vid(k)).status = r.status
           /\ r.status = "Pending" => /\ confirm_request_id(r, Vid(k)).confirmed
                                      /\ confirm_request_id(r, Vid(k)).req = Vid(k)
<1>1. CASE r.status = "Pending"
  <2>1. PICK q : q = confirm_request_id(r, Vid(k))
    OBVIOUS
  <2>2. q \in Record /\ q.status = "Pending" /\ q.req = Vid(k) /\ q.confirmed = TRUE
        /\ q.vmc = r.vmc /\ q.own = r.own /\ q.persona = r.persona
    BY <1>1, <2>1, ConfirmedRecord DEF Whole
  <2>3. Vid(k) # NoReq /\ Vid(k) > MaxJoins
    BY MembershipAssumption DEF Vid, NoReq, Joins
  <2>4. Kept(r, q, rq, n)
    BY <1>1, <2>2, <2>3 DEF Kept, Whole, Revised
  <2> QED BY <1>1, <2>1, <2>2, <2>4
<1>2. CASE r.status # "Pending"
  BY <1>2 DEF confirm_request_id, Kept, Revised
<1> QED BY <1>1, <1>2

LEMMA WholeHeld ==
    ASSUME NEW r, NEW rq, NEW n, Whole(r, rq, n), NEW k, Issued(rq, k, r.persona)
    PROVE  Kept(r, Hold(r, k), rq, n)
<1>1. PICK q : q = Hold(r, k)
  OBVIOUS
<1>2. k \in Joins /\ k # NoReq
  BY DEF Issued, Joins, NoReq
<1>3. q \in Record /\ q.status = "Active" /\ q.req = NoReq /\ q.vmc = k /\ q.own = r.own /\ q.persona = r.persona
      /\ q.confirmed = r.confirmed
  BY <1>1, <1>2, HeldRecord DEF Whole
<1>4. Kept(r, q, rq, n)
  BY <1>2, <1>3 DEF Kept, Whole, Revised
<1> QED BY <1>1, <1>4

LEMMA WholeAnswered ==
    ASSUME NEW r, NEW rq, NEW n, Whole(r, rq, n),
           NEW m, m.delivered \in Deliveries, m.answer \in Answers
    PROVE  /\ Kept(r, StatusApplied(r, m), rq, n)
           /\ StatusApplied(r, m).status \in {r.status, "Rejected", "Withdrawn"}
           /\ StatusApplied(r, m).status = "Pending" => StatusApplied(r, m).req = r.req
           /\ StatusApplied(r, m).status = "Withdrawn" => r.status \in {"Withdrawn", "Pending"}
<1>1. CASE m.status = "approved"
  <2>1. PICK q : q = record_credential_delivery([r EXCEPT !.approved = TRUE], m)
    OBVIOUS
  <2>2. q \in Record /\ q.status = r.status /\ q.req = r.req /\ q.confirmed = r.confirmed
        /\ q.vmc = r.vmc /\ q.own = r.own /\ q.persona = r.persona
    BY <2>1, DeliveryRecord DEF Whole
  <2>3. StatusApplied(r, m) = q
    BY <1>1, <2>1 DEF StatusApplied
  <2>4. Kept(r, q, rq, n)
    BY <2>2 DEF Kept, Whole, Revised
  <2> QED BY <2>2, <2>3, <2>4
<1>2. CASE m.status = "rejected"
  <2>1. StatusApplied(r, m) = Becomes(r, "Rejected")
    BY <1>2 DEF StatusApplied
  <2>2. Becomes(r, "Rejected").status = "Rejected"
    BY BecomesRecord DEF Whole, Ended
  <2> QED BY <2>1, <2>2, WholeEnds DEF Ended
<1>3. CASE m.status = "withdrawn"
  <2>1. StatusApplied(r, m) = withdraw(r)
    BY <1>3 DEF StatusApplied
  <2>2. r.status = "Pending" => withdraw(r).status = "Withdrawn"
    BY BecomesRecord DEF Whole, Ended, withdraw
  <2>3. r.status # "Pending" => withdraw(r) = r
    BY DEF withdraw
  <2> QED BY <2>1, <2>2, <2>3, WholeWithdrawn
<1>4. CASE m.status \notin {"approved", "rejected", "withdrawn"}
  <2>1. StatusApplied(r, m) = r
    BY <1>4 DEF StatusApplied
  <2> QED BY <2>1 DEF Kept, Revised
<1> QED BY <1>1, <1>2, <1>3, <1>4

LEMMA WholeGrows ==
    ASSUME NEW r, NEW rq, NEW n \in 0..MaxJoins, Whole(r, rq, n), NEW new, NEW more \in n..MaxJoins, Grown(rq, n, new),
           \A k \in Joins : k > n => rq[k].by = None
    PROVE  Whole(r, new, more)
<1>1. r.own \in 1..more /\ new[r.own].by = r.persona
  BY MembershipAssumption DEF Whole, Grown
<1>2. ASSUME r.vmc # NoReq PROVE Issued(new, r.vmc, r.persona)
  <2>1. r.persona # None /\ r.vmc \in Joins
    BY <1>2, MembershipAssumption DEF Whole, Record, Issued
  <2>2. r.vmc \in 1..n
    BY <1>2, <2>1, MembershipAssumption DEF Whole, Issued, Joins
  <2> QED BY <1>2, <2>1, <2>2 DEF Whole, Issued, Grown
<1> QED BY <1>1, <1>2 DEF Whole

LEMMA BookGrows ==
    ASSUME NEW rs, NEW rq, NEW n \in 0..MaxJoins, Book(rs, rq, n), NEW new, NEW more \in n..MaxJoins, Grown(rq, n, new),
           \A k \in Joins : k > n => rq[k].by = None
    PROVE  Book(rs, new, more)
  BY WholeGrows DEF Book

-----------------------------------------------------------------------------
(* What the operations on the list of records leave of it.                  *)
LEMMA BookRevised ==
    ASSUME NEW rs, NEW rq, NEW n, Book(rs, rq, n), NEW i \in 1..Len(rs), NEW q, Kept(rs[i], q, rq, n)
    PROVE  LET out == [rs EXCEPT ![i] = q]
           IN  /\ Book(out, rq, n) /\ Len(out) = Len(rs)
               /\ \A j \in 1..Len(rs) : out[j] = IF j = i THEN q ELSE rs[j]
               /\ Alone(rs) => Alone(out)
               /\ \A old : Behind(old, rs) => Behind(old, out)
<1> DEFINE out == [rs EXCEPT ![i] = q]
<1>1. rs \in Seq(Record) /\ q \in Record /\ q.own = rs[i].own /\ q.persona = rs[i].persona
      /\ (rs[i].confirmed => q.confirmed)
  BY DEF Book, Kept, Whole, Revised
<1>2. out \in Seq(Record) /\ Len(out) = Len(rs) /\ \A j \in 1..Len(rs) : out[j] = IF j = i THEN q ELSE rs[j]
  BY <1>1, ExceptSeq
<1> HIDE DEF out
<1>3. Book(out, rq, n)
  BY <1>1, <1>2 DEF Book, Kept
<1>4. Alone(rs) => Alone(out)
  BY <1>1, <1>2 DEF Alone
<1>5. \A old : Behind(old, rs) => Behind(old, out)
  BY <1>1, <1>2 DEF Behind
<1> QED BY <1>2, <1>3, <1>4, <1>5 DEF out

LEMMA BookAppended ==
    ASSUME NEW rs, NEW rq, NEW n, Book(rs, rq, n), NEW r, Whole(r, rq, n),
           \A j \in 1..Len(rs) : rs[j].own # r.own
    PROVE  LET out == Append(rs, r)
           IN  /\ Book(out, rq, n) /\ Len(out) = Len(rs) + 1 /\ out[Len(rs) + 1] = r
               /\ \A j \in 1..Len(rs) : out[j] = rs[j]
               /\ Alone(rs) /\ (\A j \in 1..Len(rs) : rs[j].persona # r.persona) => Alone(out)
<1> DEFINE out == Append(rs, r)
<1>1. rs \in Seq(Record) /\ r \in Record /\ Len(rs) \in Nat
  BY DEF Book, Whole
<1>2. out \in Seq(Record) /\ Len(out) = Len(rs) + 1 /\ (\A j \in 1..Len(rs) : out[j] = rs[j])
      /\ out[Len(rs) + 1] = r
  BY <1>1, AppendProperties
<1> HIDE DEF out
<1>3. \A j \in 1..Len(out) : (j \in 1..Len(rs) /\ out[j] = rs[j]) \/ (j = Len(rs) + 1 /\ out[j] = r)
  BY <1>1, <1>2
<1>4. Book(out, rq, n)
  <2>1. \A j \in 1..Len(out) : Whole(out[j], rq, n)
    BY <1>3 DEF Book
  <2>2. \A j, k \in 1..Len(out) : out[j].own = out[k].own => j = k
    BY <1>3 DEF Book
  <2> QED BY <1>2, <2>1, <2>2 DEF Book
<1>5. Alone(rs) /\ (\A j \in 1..Len(rs) : rs[j].persona # r.persona) => Alone(out)
  BY <1>3 DEF Alone
<1> QED BY <1>2, <1>4, <1>5 DEF out

LEMMA RemoveAtProperties ==
    ASSUME NEW S, NEW s \in Seq(S), NEW i \in 1..Len(s)
    PROVE  /\ RemoveAt(s, i) \in Seq(S) /\ Len(RemoveAt(s, i)) = Len(s) - 1
           /\ \A j \in 1..(Len(s) - 1) : RemoveAt(s, i)[j] = IF j < i THEN s[j] ELSE s[j + 1]
<1> DEFINE a == SubSeq(s, 1, i - 1)
           b == SubSeq(s, i + 1, Len(s))
<1>1. Len(s) \in Nat /\ i \in Int
  OBVIOUS
<1>2. a \in Seq(S) /\ Len(a) = i - 1 /\ \A j \in 1..(i - 1) : a[j] = s[j]
  BY <1>1, SubSeqProperties
<1>3. b \in Seq(S) /\ Len(b) = Len(s) - i /\ \A j \in 1..(Len(s) - i) : b[j] = s[i + j]
  BY <1>1, SubSeqProperties
<1>4. RemoveAt(s, i) = a \o b
  BY DEF RemoveAt
<1> HIDE DEF a, b
<1>7. a \in Seq(S) /\ b \in Seq(S)
  BY <1>2, <1>3
<1>8. a \o b \in Seq(S) /\ Len(a \o b) = Len(a) + Len(b)
      /\ \A j \in 1..(Len(a) + Len(b)) : (a \o b)[j] = IF j <= Len(a) THEN a[j] ELSE b[j - Len(a)]
  BY <1>7, ConcatProperties
<1>5. a \o b \in Seq(S) /\ Len(a \o b) = Len(s) - 1
      /\ \A j \in 1..(Len(a) + Len(b)) : (a \o b)[j] = IF j <= Len(a) THEN a[j] ELSE b[j - Len(a)]
  BY <1>1, <1>2, <1>3, <1>8
<1>6. ASSUME NEW j \in 1..(Len(s) - 1) PROVE (a \o b)[j] = IF j < i THEN s[j] ELSE s[j + 1]
  <2>1. CASE j < i
    BY <1>1, <1>2, <1>3, <1>5, <2>1
  <2>2. CASE ~(j < i)
    <3>1. j - (i - 1) \in 1..(Len(s) - i) /\ i + (j - (i - 1)) = j + 1
      BY <1>1, <2>2
    <3>2. (a \o b)[j] = b[j - (i - 1)]
      BY <1>1, <1>2, <1>3, <1>5, <2>2
    <3> QED BY <1>3, <2>2, <3>1, <3>2
  <2> QED BY <2>1, <2>2
<1> QED BY <1>4, <1>5, <1>6

LEMMA BookRemoved ==
    ASSUME NEW rs, NEW rq, NEW n, Book(rs, rq, n), NEW i \in 1..Len(rs)
    PROVE  LET out == RemoveAt(rs, i)
           IN  /\ Book(out, rq, n)
               /\ \A j \in 1..Len(out) : \E k \in 1..Len(rs) : k # i /\ out[j] = rs[k]
               /\ \A k \in 1..Len(rs) : k # i => \E j \in 1..Len(out) : out[j] = rs[k]
               /\ Alone(rs) => Alone(out)
               /\ \A old : Behind(old, rs) => Behind(old, out)
<1> DEFINE out == RemoveAt(rs, i)
           From(j) == IF j < i THEN j ELSE j + 1
<1>1. rs \in Seq(Record) /\ Len(rs) \in Nat /\ i \in Int
  BY DEF Book
<1>2. out \in Seq(Record) /\ Len(out) = Len(rs) - 1 /\ \A j \in 1..(Len(rs) - 1) : out[j] = rs[From(j)]
  BY <1>1, RemoveAtProperties
<1> HIDE DEF out
<1>3. \A j \in 1..Len(out) : From(j) \in 1..Len(rs) /\ From(j) # i /\ out[j] = rs[From(j)]
  BY <1>1, <1>2
<1>4. \A j, k \in 1..Len(out) : From(j) = From(k) => j = k
  BY <1>1, <1>2
<1>5. ASSUME NEW k \in 1..Len(rs), k # i PROVE \E j \in 1..Len(out) : out[j] = rs[k]
  <2>1. PICK j \in 1..Len(out) : From(j) = k
    <3>1. CASE k < i
      <4>1. k \in 1..Len(out) /\ From(k) = k
        BY <1>1, <1>2, <3>1
      <4> QED BY <4>1
    <3>2. CASE ~(k < i)
      <4>1. k - 1 \in 1..Len(out) /\ From(k - 1) = k
        BY <1>1, <1>2, <1>5, <3>2
      <4> QED BY <4>1
    <3> QED BY <3>1, <3>2
  <2> QED BY <1>3, <2>1
<1> HIDE DEF From
<1>6. Book(out, rq, n)
  <2>1. \A j \in 1..Len(out) : Whole(out[j], rq, n)
    BY <1>3 DEF Book
  <2>2. \A j, k \in 1..Len(out) : out[j].own = out[k].own => j = k
    BY <1>3, <1>4 DEF Book
  <2> QED BY <1>2, <2>1, <2>2 DEF Book
<1>7. Alone(rs) => Alone(out)
  BY <1>3, <1>4 DEF Alone
<1>8. \A old : Behind(old, rs) => Behind(old, out)
  BY <1>3 DEF Behind
<1> QED BY <1>3, <1>5, <1>6, <1>7, <1>8 DEF out

-----------------------------------------------------------------------------
(* The account's lookups.                                                   *)
LEMMA MembershipFound ==
    ASSUME recs \in Seq(Record), NEW p
    PROVE  \/ membership(p) = 0 /\ \A j \in 1..Len(recs) : recs[j].persona # p
           \/ membership(p) \in 1..Len(recs) /\ recs[membership(p)].persona = p
<1> DEFINE F == {i \in 1..Len(recs) : recs[i].persona = p}
<1>1. membership(p) = IF F = {} THEN 0 ELSE CHOOSE i \in F : \A j \in F : i <= j
  BY DEF membership, FirstIndex
<1>2. F \subseteq Nat
  OBVIOUS
<1>3. F # {} => \E i \in F : \A j \in F : i <= j
  BY <1>2, Least
<1> QED BY <1>1, <1>3

LEMMA RequestFound ==
    ASSUME recs \in Seq(Record), NEW id, membership_by_pending_request(id) # 0
    PROVE  LET i == membership_by_pending_request(id)
           IN  i \in 1..Len(recs) /\ recs[i].status = "Pending" /\ recs[i].req = id
<1> DEFINE F == {i \in 1..Len(recs) : recs[i].status = "Pending" /\ recs[i].req = id}
<1>1. membership_by_pending_request(id) = IF F = {} THEN 0 ELSE CHOOSE i \in F : \A j \in F : i <= j
  BY DEF membership_by_pending_request, FirstIndex
<1>2. F \subseteq Nat
  OBVIOUS
<1>3. F # {} => \E i \in F : \A j \in F : i <= j
  BY <1>2, Least
<1> QED BY <1>1, <1>3

(* A membership awaiting an id is that of a persona with an unconfirmed      *)
(* join: of the one asked, once several wait.                               *)
LEMMA AwaitingFound ==
    ASSUME recs \in Seq(Record), NEW to, membership_awaiting_request_id(to) # 0
    PROVE  \E c \in Unconfirmed :
             /\ membership_awaiting_request_id(to) = membership(recs[c].persona)
             /\ Cardinality(Unconfirmed) # 1 => recs[c].persona = to
<1> DEFINE addressed == {i \in Unconfirmed : recs[i].persona = to}
           chosen == IF Cardinality(Unconfirmed) = 1 THEN Unconfirmed ELSE addressed
           c == CHOOSE i \in chosen : TRUE
<1>1. Cardinality(chosen) = 1 /\ membership_awaiting_request_id(to) = membership(recs[c].persona)
  BY DEF membership_awaiting_request_id
<1>2. chosen # {}
  <2>1. Cardinality({}) = 0
    BY FS_EmptySet
  <2> HIDE DEF chosen
  <2> QED BY <1>1, <2>1
<1>3. c \in chosen
  BY <1>2
<1>4. c \in Unconfirmed /\ (Cardinality(Unconfirmed) # 1 => recs[c].persona = to)
  BY <1>3
<1> QED BY <1>1, <1>4

-----------------------------------------------------------------------------
(* Messages, requests and the budget.                                       *)
LEMMA MessageParts ==
    ASSUME NEW m \in Messages
    PROVE  /\ m.kind \in {"verdict", "credential", "error", "notice", "renewed", "notMember", "status"}
           /\ m.to \in Personas
           /\ m.kind # "notMember" => m.k \in Joins
           /\ m.kind = "status" => m.delivered \in Deliveries /\ m.answer \in Answers
  BY DEF Messages

(* What is sent is addressed to the persona whose request it is about.      *)
LEMMA MessageSent ==
    ASSUME NEW p \in Personas, NEW k \in Joins, NEW rq, rq[k].by = p
    PROVE  /\ \A effect \in {"allow", "deny", "refer"} : Addressed(Verdict(k, p, effect), rq)
           /\ Addressed(Refusal(k, p), rq) /\ Addressed(Notice(k, p), rq)
           /\ Issued(rq, k, p) => Addressed(Credential(k, p), rq)
           /\ Issued(rq, k, p) => \A n \in Nat : Addressed(Renewed(k, p, n), rq)
<1>1. ASSUME NEW effect \in {"allow", "deny", "refer"} PROVE Addressed(Verdict(k, p, effect), rq)
  BY <1>1 DEF Addressed, Messages, Verdict
<1>2. Addressed(Refusal(k, p), rq) /\ Addressed(Notice(k, p), rq)
  BY DEF Addressed, Messages, Refusal, Notice
<1>3. ASSUME Issued(rq, k, p) PROVE Addressed(Credential(k, p), rq)
  BY <1>3 DEF Addressed, Messages, Credential
<1>4. ASSUME Issued(rq, k, p), NEW n \in Nat PROVE Addressed(Renewed(k, p, n), rq)
  BY <1>4 DEF Addressed, Messages, Renewed
<1> QED BY <1>1, <1>2, <1>3, <1>4

LEMMA StatusSent ==
    ASSUME NEW p \in Personas, NEW k \in Joins, requests[k].by = p, requests[k].state \in States,
           NEW answer \in Answers
    PROVE  Addressed(StatusOf(k, p, answer), requests)
<1>1. StatusOf(k, p, answer) \in Messages
  BY DEF StatusOf, Messages, Deliveries
<1> QED BY <1>1 DEF StatusOf, Addressed

LEMMA AddressedGrows ==
    ASSUME NEW rq, NEW n \in 0..MaxJoins, Community(rq, n), NEW m, Addressed(m, rq), NEW new, Grown(rq, n, new)
    PROVE  Addressed(m, new)
<1>1. m \in Messages
  BY DEF Addressed
<1>2. CASE m.kind = "notMember"
  BY <1>1, <1>2 DEF Addressed
<1>3. CASE m.kind # "notMember"
  <2>1. m.k \in Joins /\ m.to \in Personas /\ rq[m.k].by = m.to
    BY <1>1, <1>3, MessageParts DEF Addressed
  <2>2. m.k \in 1..n
    BY <2>1, MembershipAssumption DEF Community, Joins
  <2>3. new[m.k].by = m.to
    BY <2>1, <2>2 DEF Grown
  <2>4. m.kind \in {"credential", "renewed"} => Issued(new, m.k, m.to)
    BY <2>2, <2>3 DEF Addressed, Issued, Grown
  <2> QED BY <1>1, <2>3, <2>4 DEF Addressed
<1> QED BY <1>2, <1>3

(* An acknowledgement, a decision or an end is noted on one request.        *)
LEMMA RequestNoted ==
    ASSUME NEW n \in 0..MaxJoins, Community(requests, n), NEW k \in Joins
    PROVE  /\ LET new == [requests EXCEPT ![k].acked = TRUE]
              IN  Community(new, n) /\ Grown(requests, n, new)
           /\ \A s \in States \ {"none"} :
                LET new == [requests EXCEPT ![k].state = s]
                IN  requests[k].by # None
                    => /\ Community(new, n) /\ new[k].by = requests[k].by /\ new[k].state = s
                       /\ (requests[k].state \in {"approved", "ended"} => s \in {"approved", "ended"})
                          => Grown(requests, n, new)
<1>1. requests[k] \in Request /\ requests[k].by \in Personas \cup {None}
  BY DEF Community, Request
<1>2. PICK a \in Request : a = [requests[k] EXCEPT !.acked = TRUE]
  BY <1>1 DEF Request
<1>3. a.by = requests[k].by /\ a.state = requests[k].state
  BY <1>1, <1>2 DEF Request
<1>4. LET new == [requests EXCEPT ![k].acked = TRUE] IN Community(new, n) /\ Grown(requests, n, new)
  <2>1. [requests EXCEPT ![k].acked = TRUE] = [requests EXCEPT ![k] = a]
    BY <1>2, Zenon
  <2>2. Community([requests EXCEPT ![k] = a], n)
    BY <1>2, <1>3 DEF Community
  <2>3. Grown(requests, n, [requests EXCEPT ![k] = a])
    BY <1>3, MembershipAssumption DEF Grown, Community, Joins
  <2> QED BY <2>1, <2>2, <2>3
<1>5. ASSUME NEW s \in States \ {"none"}, requests[k].by # None
      PROVE  LET new == [requests EXCEPT ![k].state = s]
             IN  /\ Community(new, n) /\ new[k].by = requests[k].by /\ new[k].state = s
                 /\ (requests[k].state \in {"approved", "ended"} => s \in {"approved", "ended"})
                    => Grown(requests, n, new)
  <2>1. PICK b \in Request : b = [requests[k] EXCEPT !.state = s]
    BY <1>1, <1>5 DEF Request
  <2>2. b.by = requests[k].by /\ b.state = s
    BY <1>1, <2>1 DEF Request
  <2>3. [requests EXCEPT ![k].state = s] = [requests EXCEPT ![k] = b]
    BY <2>1, Zenon
  <2>4. Community([requests EXCEPT ![k] = b], n)
    BY <1>5, <2>1, <2>2 DEF Community
  <2>5. [requests EXCEPT ![k] = b][k] = b
    BY DEF Community
  <2>6. (requests[k].state \in {"approved", "ended"} => s \in {"approved", "ended"})
        => Grown(requests, n, [requests EXCEPT ![k] = b])
    BY <2>2, MembershipAssumption DEF Grown, Community, Joins
  <2> QED BY <2>2, <2>3, <2>4, <2>5, <2>6
<1> QED BY <1>4, <1>5

SameLimits(b) == b \in Limits /\ b.joins = left.joins /\ b.rejoins = left.rejoins
LEMMA Spent ==
    ASSUME left \in Limits
    PROVE  /\ left.faults > 0 => SameLimits([left EXCEPT !.faults = @ - 1])
           /\ left.crashes > 0 => SameLimits([left EXCEPT !.crashes = @ - 1])
           /\ left.renewals > 0 => SameLimits([left EXCEPT !.renewals = @ - 1])
           /\ left.decides > 0 => SameLimits([left EXCEPT !.decides = @ - 1])
           /\ left.elsewhere > 0 => SameLimits([left EXCEPT !.elsewhere = @ - 1])
           /\ left.turns > 0 => SameLimits([left EXCEPT !.turns = @ - 1])
<1>1. left.faults > 0 => SameLimits([left EXCEPT !.faults = @ - 1])
  BY DEF SameLimits, Limits
<1>2. left.crashes > 0 => SameLimits([left EXCEPT !.crashes = @ - 1])
  BY DEF SameLimits, Limits
<1>3. left.renewals > 0 => SameLimits([left EXCEPT !.renewals = @ - 1])
  BY DEF SameLimits, Limits
<1>4. left.decides > 0 => SameLimits([left EXCEPT !.decides = @ - 1])
  BY DEF SameLimits, Limits
<1>5. left.elsewhere > 0 => SameLimits([left EXCEPT !.elsewhere = @ - 1])
  BY DEF SameLimits, Limits
<1>6. left.turns > 0 => SameLimits([left EXCEPT !.turns = @ - 1])
  BY DEF SameLimits, Limits
<1> QED BY <1>1, <1>2, <1>3, <1>4, <1>5, <1>6

(* A join has been taken from the budget, and what may go wrong with it.    *)
JoinTaken(b) ==
    /\ b \in Limits /\ b.rejoins = left.rejoins
    /\ b.joins \in Seq(Personas) /\ Len(b.joins) = Len(left.joins) - 1
LEMMA JoinSpent ==
    ASSUME left \in Limits, left.joins # <<>>
    PROVE  /\ JoinTaken([left EXCEPT !.joins = Tail(@)])
           /\ left.faults > 0 => JoinTaken([left EXCEPT !.joins = Tail(@), !.faults = @ - 1])
           /\ left.crashes > 0 => JoinTaken([left EXCEPT !.crashes = @ - 1, !.joins = Tail(@)])
<1>1. left.joins \in Seq(Personas)
  BY DEF Limits
<1>2. PICK t \in Seq(Personas) : t = Tail(left.joins) /\ Len(t) = Len(left.joins) - 1
  BY <1>1, HeadTailProperties
<1>3. JoinTaken([left EXCEPT !.joins = Tail(@)])
  <2>1. [left EXCEPT !.joins = Tail(@)] = [left EXCEPT !.joins = t]
    BY <1>2, Zenon
  <2>2. JoinTaken([left EXCEPT !.joins = t])
    BY <1>2 DEF JoinTaken, Limits
  <2> QED BY <2>1, <2>2
<1>4. ASSUME left.faults > 0 PROVE JoinTaken([left EXCEPT !.joins = Tail(@), !.faults = @ - 1])
  <2>1. PICK n \in Nat : n = left.faults - 1
    BY <1>4 DEF Limits
  <2>2. [left EXCEPT !.joins = Tail(@), !.faults = @ - 1] = [left EXCEPT !.joins = t, !.faults = n]
    BY <1>2, <2>1, Zenon
  <2>3. JoinTaken([left EXCEPT !.joins = t, !.faults = n])
    BY <1>2 DEF JoinTaken, Limits
  <2> QED BY <2>2, <2>3
<1>5. ASSUME left.crashes > 0 PROVE JoinTaken([left EXCEPT !.crashes = @ - 1, !.joins = Tail(@)])
  <2>1. PICK n \in Nat : n = left.crashes - 1
    BY <1>5 DEF Limits
  <2>2. [left EXCEPT !.crashes = @ - 1, !.joins = Tail(@)] = [left EXCEPT !.crashes = n, !.joins = t]
    BY <1>2, <2>1, Zenon
  <2>3. JoinTaken([left EXCEPT !.crashes = n, !.joins = t])
    BY <1>2 DEF JoinTaken, Limits
  <2> QED BY <2>2, <2>3
<1> QED BY <1>3, <1>4, <1>5

-----------------------------------------------------------------------------
LEMMA InitInv == Init => MembershipInv
<1> SUFFICES ASSUME Init PROVE MembershipInv
  OBVIOUS
<1>1. left \in Limits /\ Len(left.joins) <= MaxJoins
  BY BudgetType DEF Init
<1>2. Len(left.joins) \in Nat
  BY <1>1 DEF Limits
<1>3. Rest
  <2>1. asks \in [Personas -> 0..MaxAsks]
    BY MembershipAssumption DEF Init
  <2>2. joins \in 0..MaxJoins /\ joins + Len(left.joins) <= MaxJoins
    BY <1>1, <1>2, MembershipAssumption DEF Init
  <2> QED BY <1>1, <2>1, <2>2 DEF Init, Rest
<1>4. Community(requests, joins)
  <2>1. \A k \in Joins : requests[k] = [by |-> None, state |-> "none", acked |-> FALSE]
    BY DEF Init
  <2>2. [by |-> None, state |-> "none", acked |-> FALSE] \in Request
    BY DEF Request, States
  <2>3. requests \in [Joins -> Request]
    BY <2>2 DEF Init
  <2>4. \A k \in Joins : ~(k <= joins)
    BY DEF Init, Joins
  <2> QED BY <2>1, <2>3, <2>4 DEF Community
<1>5. Book(<<>>, requests, joins) /\ Behind(<<>>, <<>>) /\ Alone(<<>>)
  BY DEF Book, Behind, Alone
<1> QED BY <1>3, <1>4, <1>5 DEF Init, MembershipInv

-----------------------------------------------------------------------------
(* One record is brought up to date, or none.                               *)
Touched ==
    \/ recs' = recs
    \/ \E i \in 1..Len(recs) : \E q : Kept(recs[i], q, requests, joins) /\ recs' = [recs EXCEPT ![i] = q]

LEMMA TouchedKeeps ==
    ASSUME MembershipInv, Touched, UNCHANGED <<saved, joins>>,
           Community(requests', joins), Grown(requests, joins, requests'),
           \A m \in net' : m \in net \/ Addressed(m, requests'),
           asks' \in [Personas -> 0..MaxAsks], renewals' \subseteq Nat, job' \in Personas \cup {None},
           SameLimits(left')
    PROVE  MembershipInv'
<1>1. joins \in 0..MaxJoins /\ joins' = joins /\ joins \in joins..MaxJoins
  BY MembershipAssumption DEF MembershipInv, Rest
<1>2. \A k \in Joins : k > joins => requests[k].by = None
  BY <1>1, MembershipAssumption DEF MembershipInv, Community, Joins
<1>3. Book(recs', requests, joins) /\ Behind(saved, recs') /\ (Alone(recs) => Alone(recs'))
  <2>1. CASE recs' = recs
    BY <2>1 DEF MembershipInv
  <2>2. ASSUME NEW i \in 1..Len(recs), NEW q, Kept(recs[i], q, requests, joins), recs' = [recs EXCEPT ![i] = q]
        PROVE  Book(recs', requests, joins) /\ Behind(saved, recs') /\ (Alone(recs) => Alone(recs'))
    <3>1. Book(recs, requests, joins) /\ Behind(saved, recs)
      BY DEF MembershipInv
    <3> QED BY <2>2, <3>1, BookRevised
  <2> QED BY <2>1, <2>2 DEF Touched
<1>4. Book(recs', requests', joins) /\ Book(saved, requests', joins)
  BY <1>1, <1>2, <1>3, BookGrows DEF MembershipInv
<1>5. \A m \in net' : Addressed(m, requests')
  BY <1>1, AddressedGrows DEF MembershipInv
<1>6. Rest'
  BY <1>1 DEF MembershipInv, Rest, SameLimits
<1>7. left'.rejoins = left.rejoins
  BY DEF SameLimits
<1> QED BY <1>1, <1>3, <1>4, <1>5, <1>6, <1>7 DEF MembershipInv

-----------------------------------------------------------------------------
(* A message, the clock or the member takes a membership on, and with       *)
(* several joins unconfirmed no join takes the id of another's request.     *)
Onward(a, b) ==
    \/ b = a
    \/ a = "Pending" /\ b \in {"Active", "Rejected", "Expired", "Withdrawn"}
    \/ a = "Active" /\ b = "Removed"
Applied(i, q) ==
    /\ Kept(recs[i], q, requests, joins) /\ recs' = [recs EXCEPT ![i] = q]
    /\ ~left.rejoins => Onward(recs[i].status, q.status)
    /\ (Cardinality(Unconfirmed) > 1 /\ ~recs[i].confirmed /\ q.status = "Pending" /\ q.confirmed)
       => requests[q.req - MaxJoins].by = recs[i].persona
AppliedToOne == recs' = recs \/ \E i \in 1..Len(recs) : \E q : Applied(i, q)

LEMMA AppliedTouches == AppliedToOne => Touched
  BY DEF AppliedToOne, Applied, Touched

LEMMA KeptTwice ==
    ASSUME NEW r, NEW q, NEW s, NEW rq, NEW n, Kept(r, q, rq, n), Kept(q, s, rq, n)
    PROVE  Kept(r, s, rq, n)
  BY DEF Kept, Revised

(* Under the invariant a record is whole and carries its own persona.       *)
LEMMA RecordWhole ==
    ASSUME MembershipInv, NEW i \in 1..Len(recs)
    PROVE  /\ Whole(recs[i], requests, joins) /\ recs[i] \in Record
           /\ recs[i].own \in Joins /\ requests[recs[i].own].by = recs[i].persona
           /\ recs[i].status = "Pending" /\ ~recs[i].confirmed => recs[i].req = recs[i].own
           /\ recs[i].status = "Pending" /\ recs[i].confirmed => recs[i].req > MaxJoins
<1>1. Whole(recs[i], requests, joins)
  BY DEF MembershipInv, Book
<1>2. recs[i].own \in Joins
  BY <1>1 DEF Whole, Record
<1> QED BY <1>1, <1>2 DEF Whole

LEMMA VidOf == ASSUME NEW k \in Joins PROVE Vid(k) > MaxJoins /\ Vid(k) - MaxJoins = k /\ k <= MaxJoins
  BY MembershipAssumption DEF Vid, Joins

LEMMA VerdictApplied ==
    ASSUME MembershipInv, NEW m \in net, m.kind = "verdict", OnVerdict(m)
    PROVE  AppliedToOne
<1> DEFINE i == membership_by_pending_request(m.k)
           r == confirm_request_id(recs[i], Vid(m.k))
<1>1. m.k \in Joins /\ requests[m.k].by = m.to
  BY MessageParts DEF MembershipInv, Addressed
<1>2. CASE i = 0
  BY <1>2 DEF OnVerdict, SetRec, AppliedToOne
<1>3. CASE i # 0
  <2>1. i \in 1..Len(recs) /\ recs[i].status = "Pending" /\ recs[i].req = m.k
    BY <1>3, RequestFound DEF MembershipInv, Book
  <2>2. recs' = [recs EXCEPT ![i] = IF m.effect = "deny" THEN Becomes(r, "Rejected") ELSE r]
    BY <1>3 DEF OnVerdict, SetRec
  <2>3. Kept(recs[i], r, requests, joins) /\ r.status = "Pending" /\ r.confirmed /\ r.req = Vid(m.k)
    BY <1>1, <2>1, RecordWhole, WholeConfirmed
  <2>4. ~recs[i].confirmed
    <3>1. m.k <= MaxJoins /\ m.k \in Int /\ MaxJoins \in Int
      BY <1>1, MembershipAssumption DEF Joins
    <3> QED BY <2>1, <3>1, RecordWhole
  <2>5. requests[r.req - MaxJoins].by = recs[i].persona
    BY <1>1, <2>1, <2>3, <2>4, RecordWhole, VidOf
  <2> HIDE DEF i, r
  <2>6. CASE m.effect = "deny"
    <3>1. PICK q : q = Becomes(r, "Rejected")
      OBVIOUS
    <3>2. Kept(r, q, requests, joins) /\ q.status = "Rejected"
      <4>1. Whole(r, requests, joins) /\ r \in Record
        BY <2>3 DEF Kept, Whole
      <4>2. "Rejected" \in Ended /\ "Rejected" \in Live \cup Ended
        BY DEF Ended
      <4> QED BY <3>1, <4>1, <4>2, WholeEnds, BecomesRecord
    <3>3. Kept(recs[i], q, requests, joins)
      BY <2>3, <3>2, KeptTwice
    <3>4. Applied(i, q)
      BY <2>1, <2>2, <2>6, <3>1, <3>2, <3>3 DEF Applied, Onward
    <3> QED BY <2>1, <3>4 DEF AppliedToOne
  <2>7. CASE m.effect # "deny"
    <3>1. Applied(i, r)
      BY <2>1, <2>2, <2>3, <2>5, <2>7 DEF Applied, Onward
    <3> QED BY <2>1, <3>1 DEF AppliedToOne
  <2> QED BY <2>6, <2>7
<1> QED BY <1>2, <1>3

LEMMA ErrorApplied ==
    ASSUME MembershipInv, NEW m \in net, m.kind = "error", OnTrustTaskError(m)
    PROVE  AppliedToOne
<1> DEFINE i == membership_by_pending_request(m.k)
           q == Becomes(recs[i], "Rejected")
<1>1. CASE i = 0
  BY <1>1 DEF OnTrustTaskError, SetRec, AppliedToOne
<1>2. CASE i # 0
  <2>1. i \in 1..Len(recs) /\ recs[i].status = "Pending" /\ recs' = [recs EXCEPT ![i] = q]
    BY <1>2, RequestFound DEF OnTrustTaskError, SetRec, MembershipInv, Book
  <2>2. "Rejected" \in Ended /\ "Rejected" \in Live \cup Ended
    BY DEF Ended
  <2>3. Kept(recs[i], q, requests, joins) /\ q.status = "Rejected"
    BY <2>1, <2>2, RecordWhole, WholeEnds, BecomesRecord
  <2> HIDE DEF i, q
  <2>4. Applied(i, q)
    BY <2>1, <2>3 DEF Applied, Onward
  <2> QED BY <2>1, <2>4 DEF AppliedToOne
<1> QED BY <1>1, <1>2

LEMMA StatusIsApplied ==
    ASSUME MembershipInv, NEW m \in net, m.kind = "status", OnStatus(m)
    PROVE  AppliedToOne
<1> DEFINE known == membership_by_pending_request(Vid(m.k))
           i == IF known # 0 THEN known ELSE membership_awaiting_request_id(m.to)
           r == confirm_request_id(recs[i], Vid(m.k))
           q == StatusApplied(r, m)
<1>1. m \in Messages /\ m.k \in Joins /\ requests[m.k].by = m.to /\ m.delivered \in Deliveries /\ m.answer \in Answers
  BY MessageParts DEF MembershipInv, Addressed
<1>2. recs \in Seq(Record)
  BY DEF MembershipInv, Book
<1>3. recs' = IF i = 0 THEN recs ELSE [recs EXCEPT ![i] = q]
  BY DEF OnStatus, SetRec
(* The record is the one that waits under the id, or it waits for one.      *)
<1>4. ASSUME i # 0
      PROVE  /\ i \in 1..Len(recs)
             /\ ~left.rejoins => recs[i].status = "Pending"
             /\ Cardinality(Unconfirmed) > 1 /\ recs[i].status = "Pending" /\ ~recs[i].confirmed
                => recs[i].persona = m.to
  <2>1. CASE known # 0
    <3>1. known \in 1..Len(recs) /\ recs[known].status = "Pending" /\ recs[known].req = Vid(m.k)
      BY <1>2, <2>1, RequestFound
    <3>2. recs[known].confirmed
      <4>1. Vid(m.k) > MaxJoins
        BY <1>1, VidOf
      <4>2. recs[known].own <= MaxJoins /\ recs[known].own \in Int /\ MaxJoins \in Int
        BY <3>1, RecordWhole, MembershipAssumption DEF Joins
      <4>3. ~recs[known].confirmed => recs[known].req = recs[known].own
        BY <3>1, RecordWhole
      <4> HIDE DEF known
      <4> QED BY <3>1, <4>1, <4>2, <4>3
    <3> QED BY <2>1, <3>1, <3>2
  <2>2. CASE known = 0
    <3>1. PICK c \in Unconfirmed : /\ i = membership(recs[c].persona)
                                   /\ Cardinality(Unconfirmed) # 1 => recs[c].persona = m.to
      BY <1>2, <1>4, <2>2, AwaitingFound
    <3>2. i \in 1..Len(recs) /\ recs[i].persona = recs[c].persona
      BY <1>2, <1>4, <3>1, MembershipFound
    <3>3. c \in 1..Len(recs) /\ recs[c].status = "Pending"
      BY DEF Unconfirmed
    <3>4. ~left.rejoins => i = c
      BY <3>2, <3>3 DEF MembershipInv, Alone
    <3>5. Cardinality(Unconfirmed) > 1 => Cardinality(Unconfirmed) # 1
      OBVIOUS
    <3> HIDE DEF i
    <3> QED BY <3>1, <3>2, <3>3, <3>4, <3>5
  <2> QED BY <2>1, <2>2
<1>5. ASSUME i # 0 PROVE Applied(i, q)
  <2>1. Whole(recs[i], requests, joins)
    BY <1>4, <1>5, RecordWhole
  <2>2. /\ Kept(recs[i], r, requests, joins) /\ r.status = recs[i].status
        /\ recs[i].status = "Pending" => r.confirmed /\ r.req = Vid(m.k)
    BY <1>1, <2>1, WholeConfirmed
  <2>3. Whole(r, requests, joins)
    BY <2>2 DEF Kept
  <2>4. /\ Kept(r, q, requests, joins)
        /\ q.status \in {r.status, "Rejected", "Withdrawn"}
        /\ q.status = "Pending" => q.req = r.req
        /\ q.status = "Withdrawn" => r.status \in {"Withdrawn", "Pending"}
    BY <1>1, <2>3, WholeAnswered
  <2>5. Kept(recs[i], q, requests, joins)
    BY <2>2, <2>4, KeptTwice
  <2>6. q.status = "Pending" => recs[i].status = "Pending" /\ q.req - MaxJoins = m.k
    BY <1>1, <2>2, <2>4, VidOf
  <2>7. recs' = [recs EXCEPT ![i] = q]
    BY <1>3, <1>5
  <2>8. i \in 1..Len(recs) /\ (~left.rejoins => recs[i].status = "Pending")
        /\ (Cardinality(Unconfirmed) > 1 /\ recs[i].status = "Pending" /\ ~recs[i].confirmed => recs[i].persona = m.to)
    BY <1>4, <1>5
  <2> HIDE DEF i, q, r
  <2>9. ~left.rejoins => Onward(recs[i].status, q.status)
    BY <2>2, <2>4, <2>8 DEF Onward
  <2> QED BY <1>1, <2>5, <2>6, <2>7, <2>8, <2>9 DEF Applied
<1>6. CASE i = 0
  BY <1>3, <1>6 DEF AppliedToOne
<1>7. CASE i # 0
  <2>1. i \in 1..Len(recs)
    BY <1>4, <1>7
  <2>2. Applied(i, q)
    BY <1>5, <1>7
  <2> HIDE DEF i, q
  <2> QED BY <2>1, <2>2 DEF AppliedToOne
<1> QED BY <1>6, <1>7

LEMMA HoldApplied ==
    ASSUME MembershipInv, NEW m \in net, m.kind \in {"credential", "renewed"},
           NEW i \in 1..Len(recs), recs[i].persona = m.to, is_live(recs[i]),
           recs' = [recs EXCEPT ![i] = Hold(recs[i], m.k)]
    PROVE  Applied(i, Hold(recs[i], m.k))
<1>1. Issued(requests, m.k, recs[i].persona) /\ m.k \in Joins
  BY DEF MembershipInv, Addressed, Issued
<1>2. Kept(recs[i], Hold(recs[i], m.k), requests, joins)
  BY <1>1, RecordWhole, WholeHeld
<1>3. Hold(recs[i], m.k).status = "Active"
  BY <1>1, RecordWhole, HeldRecord
<1> QED BY <1>2, <1>3 DEF Applied, Onward, is_live, Live

LEMMA CredentialApplied ==
    ASSUME MembershipInv, NEW m \in net, m.kind = "credential", OnCredential(m)
    PROVE  AppliedToOne
<1> DEFINE i == membership(m.to)
<1>1. CASE ~credential_issue_admissible(i)
  BY <1>1 DEF OnCredential, AppliedToOne
<1>2. CASE credential_issue_admissible(i)
  <2>1. i # 0 /\ is_live(recs[i]) /\ recs' = SetRec(i, Hold(recs[i], m.k))
    BY <1>2 DEF OnCredential, credential_issue_admissible
  <2>2. i \in 1..Len(recs) /\ recs[i].persona = m.to
    BY <2>1, MembershipFound DEF MembershipInv, Book
  <2>3. Applied(i, Hold(recs[i], m.k))
    BY <2>1, <2>2, HoldApplied DEF SetRec
  <2> HIDE DEF i
  <2> QED BY <2>2, <2>3 DEF AppliedToOne
<1> QED BY <1>1, <1>2

LEMMA RenewedApplied ==
    ASSUME MembershipInv, NEW m \in net, m.kind = "renewed", OnRenewed(m)
    PROVE  AppliedToOne
<1> DEFINE i == membership(m.to)
           ok == m.n \in renewals /\ i # 0 /\ can_renew(recs[i])
<1>1. CASE ~ok
  BY <1>1 DEF OnRenewed, AppliedToOne
<1>2. CASE ok
  <2>1. i # 0 /\ is_live(recs[i]) /\ recs' = SetRec(i, Hold(recs[i], m.k))
    BY <1>2 DEF OnRenewed, can_renew, approved_awaiting_credential, is_live, Live
  <2>2. i \in 1..Len(recs) /\ recs[i].persona = m.to
    BY <2>1, MembershipFound DEF MembershipInv, Book
  <2>3. Applied(i, Hold(recs[i], m.k))
    BY <2>1, <2>2, HoldApplied DEF SetRec
  <2> HIDE DEF i
  <2> QED BY <2>2, <2>3 DEF AppliedToOne
<1> QED BY <1>1, <1>2

LEMMA NoticeApplied ==
    ASSUME MembershipInv, NEW m \in net, m.kind = "notice", OnRemovalNotice(m)
    PROVE  AppliedToOne
<1> DEFINE i == membership(m.to)
           q == Becomes(recs[i], "Removed")
<1>1. CASE ~(i # 0 /\ recs[i].status = "Active")
  BY <1>1 DEF OnRemovalNotice, AppliedToOne
<1>2. CASE i # 0 /\ recs[i].status = "Active"
  <2>1. i \in 1..Len(recs) /\ recs' = [recs EXCEPT ![i] = q]
    BY <1>2, MembershipFound DEF OnRemovalNotice, SetRec, MembershipInv, Book
  <2>2. "Removed" \in Ended /\ "Removed" \in Live \cup Ended
    BY DEF Ended
  <2>3. Kept(recs[i], q, requests, joins) /\ q.status = "Removed"
    BY <2>1, <2>2, RecordWhole, WholeEnds, BecomesRecord
  <2> HIDE DEF i, q
  <2>4. Applied(i, q)
    BY <1>2, <2>1, <2>3 DEF Applied, Onward
  <2> QED BY <2>1, <2>4 DEF AppliedToOne
<1> QED BY <1>1, <1>2

LEMMA DeliverApplies ==
    ASSUME MembershipInv, NEW m \in net, Deliver(m)
    PROVE  /\ AppliedToOne /\ renewals' \subseteq renewals /\ net' = net \ {m}
           /\ UNCHANGED <<saved, joins, asks, job, left>>
           /\ requests' = requests \/ \E k \in Joins : requests' = [requests EXCEPT ![k].acked = TRUE]
<1>1. net' = net \ {m} /\ UNCHANGED <<saved, joins, asks, job, left>>
  BY DEF Deliver
<1>2. m \in Messages /\ (m.kind # "notMember" => m.k \in Joins)
      /\ m.kind \in {"verdict", "credential", "error", "notice", "renewed", "notMember", "status"}
  BY MessageParts DEF MembershipInv, Addressed
<1>3. CASE m.kind = "verdict"
  <2>1. OnVerdict(m)
    BY <1>3 DEF Deliver
  <2> QED BY <1>1, <1>3, <2>1, VerdictApplied DEF OnVerdict
<1>4. CASE m.kind = "error"
  <2>1. OnTrustTaskError(m)
    BY <1>4 DEF Deliver
  <2> QED BY <1>1, <1>4, <2>1, ErrorApplied DEF OnTrustTaskError
<1>5. CASE m.kind = "status"
  <2>1. OnStatus(m)
    BY <1>5 DEF Deliver
  <2> QED BY <1>1, <1>5, <2>1, StatusIsApplied DEF OnStatus
<1>6. CASE m.kind = "credential"
  <2>1. OnCredential(m)
    BY <1>6 DEF Deliver
  <2> QED BY <1>1, <1>2, <1>6, <2>1, CredentialApplied DEF OnCredential, Acknowledge
<1>7. CASE m.kind = "notice"
  <2>1. OnRemovalNotice(m)
    BY <1>7 DEF Deliver
  <2> QED BY <1>1, <1>7, <2>1, NoticeApplied DEF OnRemovalNotice
<1>8. CASE m.kind = "renewed"
  <2>1. OnRenewed(m)
    BY <1>8 DEF Deliver
  <2> QED BY <1>1, <1>2, <1>8, <2>1, RenewedApplied DEF OnRenewed, Acknowledge
<1>9. CASE m.kind = "notMember"
  <2>1. OnRenewalRefused(m)
    BY <1>9 DEF Deliver
  <2> QED BY <1>1, <2>1 DEF OnRenewalRefused, AppliedToOne
<1> QED BY <1>2, <1>3, <1>4, <1>5, <1>6, <1>7, <1>8, <1>9

(* The parts of the invariant that most steps cite.                         *)
LEMMA Parts ==
    ASSUME MembershipInv
    PROVE  /\ joins \in 0..MaxJoins /\ Community(requests, joins) /\ Grown(requests, joins, requests)
           /\ asks \in [Personas -> 0..MaxAsks] /\ renewals \subseteq Nat /\ job \in Personas \cup {None}
           /\ left \in Limits /\ SameLimits(left)
  BY DEF MembershipInv, Rest, Grown, SameLimits

LEMMA DeliverStep ==
    ASSUME MembershipInv, NEW m \in net, Deliver(m)
    PROVE  MembershipInv'
<1>1. Touched /\ UNCHANGED <<saved, joins, asks, job, left>> /\ renewals' \subseteq Nat
      /\ \A x \in net' : x \in net
  BY DeliverApplies, AppliedTouches, Parts
<1>2. requests' = requests \/ \E k \in Joins : requests' = [requests EXCEPT ![k].acked = TRUE]
  BY DeliverApplies
<1>3. Community(requests', joins) /\ Grown(requests, joins, requests')
  BY <1>2, Parts, RequestNoted
<1> QED BY <1>1, <1>3, Parts, TouchedKeeps

(* The reviewer's replies.                                                  *)
LEMMA RepliesSent ==
    ASSUME NEW p \in Personas, NEW k \in Joins, NEW reply \in Replies(k, p), NEW rq,
           rq[k].by = p, rq[k].state = reply.state, NEW m \in reply.msgs
    PROVE  Addressed(m, rq)
<1>1. reply.state = "approved" => Issued(rq, k, p)
  BY DEF Issued
<1> QED BY <1>1, MessageSent DEF Replies

LEMMA RepliesStates == \A k, p : \A reply \in Replies(k, p) : reply.state \in States
  BY DEF Replies, States

LEMMA DecideStep ==
    ASSUME MembershipInv, NEW k \in Joins, Decide(k)
    PROVE  MembershipInv'
<1>1. PICK reply \in Replies(k, requests[k].by) :
        /\ reply.state \in {"approved", "rejected"}
        /\ requests' = [requests EXCEPT ![k].state = reply.state]
        /\ net' = net \cup reply.msgs
  BY DEF Decide
<1>2. requests[k].state = "open" /\ left.decides > 0 /\ left' = [left EXCEPT !.decides = @ - 1] /\ UNCHANGED client
  BY DEF Decide
<1>3. requests[k].by \in Personas /\ requests[k].by # None
  BY <1>2, Parts, MembershipAssumption DEF Community
<1>4. Community(requests', joins) /\ Grown(requests, joins, requests')
      /\ requests'[k].by = requests[k].by /\ requests'[k].state = reply.state
  <2>1. reply.state \in States \ {"none"}
    BY <1>1 DEF States
  <2> QED BY <1>1, <1>2, <1>3, <2>1, Parts, RequestNoted
<1>5. \A m \in net' : m \in net \/ Addressed(m, requests')
  BY <1>1, <1>3, <1>4, RepliesSent
<1>6. SameLimits(left')
  BY <1>2, Parts, Spent
<1> QED BY <1>2, <1>4, <1>5, <1>6, Parts, TouchedKeeps DEF client, Touched

LEMMA DecideElsewhereStep ==
    ASSUME MembershipInv, NEW k \in Joins, DecideElsewhere(k)
    PROVE  MembershipInv'
<1>1. left.elsewhere > 0 /\ left' = [left EXCEPT !.elsewhere = @ - 1] /\ UNCHANGED client
  BY DEF DecideElsewhere
<1>2. SameLimits(left')
  BY <1>1, Parts, Spent
<1>3. CASE requests[k].state = "open" /\ requests' = [requests EXCEPT ![k].state = "withdrawn"] /\ UNCHANGED net
  <2>1. "withdrawn" \in States \ {"none"} /\ requests[k].by # None
    BY <1>3, Parts, MembershipAssumption DEF States, Community
  <2>2. Community(requests', joins) /\ Grown(requests, joins, requests')
    BY <1>3, <2>1, Parts, RequestNoted
  <2> QED BY <1>1, <1>2, <1>3, <2>2, Parts, TouchedKeeps DEF client, Touched
<1>4. CASE /\ requests[k].state = "approved" /\ requests' = [requests EXCEPT ![k].state = "ended"]
           /\ net' = net \cup {Notice(k, requests[k].by)}
  <2>1. "ended" \in States \ {"none"} /\ requests[k].by \in Personas /\ requests[k].by # None
    BY <1>4, Parts, MembershipAssumption DEF States, Community
  <2>2. Community(requests', joins) /\ Grown(requests, joins, requests') /\ requests'[k].by = requests[k].by
    BY <1>4, <2>1, Parts, RequestNoted
  <2>3. \A m \in net' : m \in net \/ Addressed(m, requests')
    BY <1>4, <2>1, <2>2, MessageSent
  <2> QED BY <1>1, <1>2, <2>2, <2>3, Parts, TouchedKeeps DEF client, Touched
<1> QED BY <1>3, <1>4 DEF DecideElsewhere

LEMMA LoseStep ==
    ASSUME MembershipInv, NEW m \in net, Lose(m)
    PROVE  MembershipInv'
<1>1. left.faults > 0 /\ left' = [left EXCEPT !.faults = @ - 1] /\ net' = net \ {m} /\ UNCHANGED <<client, requests>>
  BY DEF Lose
<1>2. SameLimits(left')
  BY <1>1, Parts, Spent
<1> QED BY <1>1, <1>2, Parts, TouchedKeeps DEF client, Touched

-----------------------------------------------------------------------------
(* Joining. *)
LEMMA MayJoinParts ==
    ASSUME MembershipInv, NEW p \in Personas, MayJoin(p)
    PROVE  /\ left.joins # <<>> /\ joins + 1 \in Joins /\ joins + 1 \in 0..MaxJoins
           /\ ~left.rejoins => membership(p) = 0 /\ \A j \in 1..Len(recs) : recs[j].persona # p
<1>1. left.joins # <<>> /\ left.joins \in Seq(Personas)
  BY DEF MayJoin, MembershipInv, Rest, Limits
<1>2. Len(left.joins) \in Nat /\ Len(left.joins) # 0
  BY <1>1
<1>3. joins + 1 \in Joins /\ joins + 1 \in 0..MaxJoins
  BY <1>2, MembershipAssumption DEF MembershipInv, Rest, Joins
<1>4. ASSUME ~left.rejoins PROVE membership(p) = 0
  BY <1>4 DEF MayJoin, is_duplicate_membership, has_live_membership
<1>5. recs \in Seq(Record)
  BY DEF MembershipInv, Book
<1>6. membership(p) = 0 => \A j \in 1..Len(recs) : recs[j].persona # p
  BY <1>5, MembershipFound
<1> QED BY <1>1, <1>3, <1>4, <1>6

LEMMA RequestMade ==
    ASSUME MembershipInv, NEW p \in Personas, MayJoin(p), joins' = joins + 1,
           NEW reply \in Replies(joins', p),
           requests' = [requests EXCEPT ![joins'] = [by |-> p, state |-> reply.state, acked |-> FALSE]]
    PROVE  /\ joins' \in Joins /\ joins' \in joins..MaxJoins
           /\ Community(requests', joins') /\ Grown(requests, joins, requests')
           /\ requests'[joins'].by = p /\ requests'[joins'].state = reply.state
           /\ \A m \in reply.msgs : Addressed(m, requests')
<1>1. PICK k : k = joins'
  OBVIOUS
<1>2. k \in Joins /\ k \in joins..MaxJoins /\ k = joins + 1 /\ joins \in 0..MaxJoins
  BY <1>1, MayJoinParts, MembershipAssumption DEF MembershipInv, Rest
<1>3. PICK new \in Request : new = [by |-> p, state |-> reply.state, acked |-> FALSE]
  BY RepliesStates DEF Request
<1>4. new.by = p /\ new.state = reply.state
  BY <1>3
<1>5. requests' = [requests EXCEPT ![k] = new]
  BY <1>1, <1>3
<1>6. requests \in [Joins -> Request]
  BY DEF MembershipInv, Community
<1>7. requests' \in [Joins -> Request] /\ requests'[k] = new
      /\ \A j \in Joins : j # k => requests'[j] = requests[j]
  BY <1>2, <1>5, <1>6
<1>8. Community(requests', k)
  <2>1. ASSUME NEW j \in Joins
        PROVE  IF j <= k THEN requests'[j].by \in Personas
               ELSE requests'[j].by = None /\ requests'[j].state = "none"
    <3>1. CASE j = k
      BY <1>2, <1>4, <1>7, <3>1 DEF Joins
    <3>2. CASE j # k
      <4>1. (j <= k <=> j <= joins) /\ requests'[j] = requests[j]
        BY <1>2, <1>7, <3>2, MembershipAssumption DEF Joins
      <4> QED BY <4>1 DEF MembershipInv, Community
    <3> QED BY <3>1, <3>2
  <2> QED BY <1>7, <2>1 DEF Community
<1>9. Grown(requests, joins, requests')
  <2>1. \A j \in 1..joins : j \in Joins /\ j # k
    BY <1>2, MembershipAssumption DEF Joins
  <2> QED BY <1>7, <2>1 DEF Grown
<1>10. \A m \in reply.msgs : Addressed(m, requests')
  BY <1>1, <1>2, <1>4, <1>7, RepliesSent
<1> QED BY <1>1, <1>2, <1>4, <1>7, <1>8, <1>9, <1>10

(* Everything but the records, once a request was made.                     *)
LEMMA CommunityJoined ==
    ASSUME MembershipInv, NEW p \in Personas, MayJoin(p), joins' = joins + 1,
           NEW reply \in Replies(joins', p),
           requests' = [requests EXCEPT ![joins'] = [by |-> p, state |-> reply.state, acked |-> FALSE]],
           net' = net \cup reply.msgs, JoinTaken(left'),
           asks' \in [Personas -> 0..MaxAsks], renewals' \subseteq Nat, job' \in Personas \cup {None}
    PROVE  /\ Rest' /\ Community(requests, joins)' /\ (\A m \in net : Addressed(m, requests))'
           /\ Book(recs, requests', joins') /\ Book(saved, requests', joins')
           /\ left'.rejoins = left.rejoins
<1>1. /\ joins \in 0..MaxJoins /\ joins' \in joins..MaxJoins /\ joins' \in Joins
      /\ Community(requests', joins') /\ Grown(requests, joins, requests')
      /\ \A m \in reply.msgs : Addressed(m, requests')
  BY RequestMade, Parts
<1>2. \A k \in Joins : k > joins => requests[k].by = None
  BY <1>1, MembershipAssumption DEF MembershipInv, Community, Joins
<1>3. Book(recs, requests', joins') /\ Book(saved, requests', joins')
  BY <1>1, <1>2, BookGrows DEF MembershipInv
<1>4. \A m \in net' : Addressed(m, requests')
  BY <1>1, AddressedGrows DEF MembershipInv
<1>5. Len(left.joins) \in Nat /\ Len(left'.joins) = Len(left.joins) - 1
  BY DEF MembershipInv, Rest, Limits, JoinTaken
<1>6. joins' + Len(left'.joins) <= MaxJoins /\ joins' \in 0..MaxJoins
  <2>1. PICK before, after : before = Len(left.joins) /\ after = Len(left'.joins)
    OBVIOUS
  <2>2. before \in Nat /\ after = before - 1 /\ joins + before <= MaxJoins /\ joins' = joins + 1
    BY <1>5, <2>1 DEF MembershipInv, Rest
  <2>3. joins' + after <= MaxJoins
    BY <1>1, <2>2, MembershipAssumption
  <2>4. joins' \in 0..MaxJoins
    BY <1>1, MembershipAssumption
  <2> QED BY <2>1, <2>3, <2>4
<1>7. Rest'
  BY <1>6 DEF Rest, JoinTaken
<1> QED BY <1>1, <1>3, <1>4, <1>7 DEF JoinTaken

LEMMA NewPending ==
    ASSUME NEW p \in Personas, NEW k \in Joins, NEW rq, rq[k].by = p
    PROVE  /\ Whole(new_pending(p, k), rq, k)
           /\ new_pending(p, k).persona = p /\ new_pending(p, k).own = k
           /\ new_pending(p, k).status = "Pending" /\ new_pending(p, k).confirmed = FALSE
<1>1. PICK q : q = new_pending(p, k)
  OBVIOUS
<1>2. k \in 0..(2 * MaxJoins) /\ NoReq \in 0..MaxJoins /\ k # NoReq /\ k \in 1..k
  BY MembershipAssumption DEF Joins, NoReq
<1>3. q \in Record /\ q.persona = p /\ q.own = k /\ q.status = "Pending" /\ q.req = k /\ q.confirmed = FALSE
      /\ q.vmc = NoReq
  BY <1>1, <1>2 DEF new_pending, Record, Live
<1>4. Whole(q, rq, k)
  BY <1>2, <1>3 DEF Whole
<1> QED BY <1>1, <1>3, <1>4

LEMMA SubmitStep ==
    ASSUME MembershipInv, NEW p \in Personas, Submit(p)
    PROVE  MembershipInv'
<1>1. /\ MayJoin(p) /\ joins' = joins + 1 /\ recs' = Append(recs, new_pending(p, joins'))
      /\ saved' = recs' \/ saved' = saved
      /\ UNCHANGED <<asks, renewals, job>>
  BY DEF Submit
<1>2. PICK reply \in Replies(joins', p) :
        /\ requests' = [requests EXCEPT ![joins'] = [by |-> p, state |-> reply.state, acked |-> FALSE]]
        /\ net' = net \cup reply.msgs
        /\ IF reply.msgs = {}
           THEN left.faults > 0 /\ left' = [left EXCEPT !.joins = Tail(@), !.faults = @ - 1]
           ELSE left' = [left EXCEPT !.joins = Tail(@)]
  BY DEF Submit, Send
<1>3. JoinTaken(left')
  BY <1>1, <1>2, JoinSpent, MayJoinParts, Parts
<1>4. /\ Rest' /\ Community(requests, joins)' /\ (\A m \in net : Addressed(m, requests))'
      /\ Book(recs, requests', joins') /\ Book(saved, requests', joins')
      /\ left'.rejoins = left.rejoins
  BY <1>1, <1>2, <1>3, CommunityJoined, Parts
<1>5. joins' \in Joins /\ requests'[joins'].by = p
  BY <1>1, <1>2, RequestMade
<1>6. PICK r : r = new_pending(p, joins')
  OBVIOUS
<1>7. Whole(r, requests', joins') /\ r.persona = p /\ r.own = joins'
  BY <1>5, <1>6, NewPending
<1>8. \A rs \in {recs, saved} : \A j \in 1..Len(rs) : rs[j].own # r.own
  <2>1. \A rs \in {recs, saved} : \A j \in 1..Len(rs) : rs[j].own \in 1..joins
    BY DEF MembershipInv, Book, Whole
  <2>2. joins \in Int /\ joins' = joins + 1
    BY <1>1, Parts
  <2> QED BY <1>7, <2>1, <2>2
<1>9. recs' = Append(recs, r)
  BY <1>1, <1>6
<1>10. /\ Book(recs', requests', joins') /\ Len(recs') = Len(recs) + 1 /\ recs'[Len(recs) + 1] = r
       /\ \A j \in 1..Len(recs) : recs'[j] = recs[j]
       /\ Alone(recs) /\ (\A j \in 1..Len(recs) : recs[j].persona # p) => Alone(recs')
  BY <1>4, <1>7, <1>8, <1>9, BookAppended
<1>11. ~left.rejoins => Alone(recs') /\ Alone(saved)
  BY <1>1, <1>10, MayJoinParts DEF MembershipInv
<1>12. Behind(saved, recs')
  <2>1. Len(recs) \in Nat
    BY DEF MembershipInv, Book
  <2>2. \A j \in 1..Len(recs') : j \in 1..Len(recs) \/ recs'[j] = r
    BY <1>10, <2>1
  <2> QED BY <1>8, <1>10, <2>2 DEF MembershipInv, Behind
<1>13. Behind(recs', recs')
  BY <1>10 DEF Book, Behind
<1> QED BY <1>1, <1>4, <1>10, <1>11, <1>12, <1>13 DEF MembershipInv

LEMMA Restarted ==
    ASSUME Restart
    PROVE  /\ recs' = saved /\ asks' \in [Personas -> 0..MaxAsks] /\ renewals' \subseteq Nat
           /\ job' \in Personas \cup {None}
  BY MembershipAssumption DEF Restart

LEMMA BehindItself == ASSUME NEW rs, NEW rq, NEW n, Book(rs, rq, n) PROVE Behind(rs, rs)
  BY DEF Book, Behind

LEMMA SubmitCutStep ==
    ASSUME MembershipInv, NEW p \in Personas, SubmitCut(p)
    PROVE  MembershipInv'
<1>1. /\ MayJoin(p) /\ joins' = joins + 1 /\ left.crashes > 0 /\ Restart /\ saved' = saved
      /\ left' = [left EXCEPT !.crashes = @ - 1, !.joins = Tail(@)]
  BY DEF SubmitCut
<1>2. PICK reply \in Replies(joins', p) :
        /\ requests' = [requests EXCEPT ![joins'] = [by |-> p, state |-> reply.state, acked |-> FALSE]]
        /\ net' = net \cup reply.msgs
  BY DEF SubmitCut
<1>3. JoinTaken(left')
  BY <1>1, JoinSpent, MayJoinParts, Parts
<1>4. /\ Rest' /\ Community(requests, joins)' /\ (\A m \in net : Addressed(m, requests))'
      /\ Book(saved, requests', joins') /\ left'.rejoins = left.rejoins
  BY <1>1, <1>2, <1>3, CommunityJoined, Restarted
<1> QED BY <1>1, <1>4, Restarted, BehindItself DEF MembershipInv

LEMMA CrashStep ==
    ASSUME MembershipInv, Crash
    PROVE  MembershipInv'
<1>1. /\ left.crashes > 0 /\ left' = [left EXCEPT !.crashes = @ - 1] /\ Restart
      /\ UNCHANGED <<saved, joins, requests, net>>
  BY DEF Crash
<1>2. SameLimits(left')
  BY <1>1, Parts, Spent
<1>3. Rest'
  BY <1>1, <1>2, Restarted DEF MembershipInv, Rest, SameLimits
<1>4. Behind(saved, saved)
  BY BehindItself DEF MembershipInv
<1> QED BY <1>1, <1>2, <1>3, <1>4, Restarted DEF MembershipInv, SameLimits

LEMMA SaveStep ==
    ASSUME MembershipInv, Save
    PROVE  MembershipInv'
<1>1. saved' = recs /\ UNCHANGED <<recs, joins, asks, renewals, job, requests, net, left>>
  BY DEF Save
<1>2. Behind(recs, recs)
  BY BehindItself DEF MembershipInv
<1>3. Rest'
  BY <1>1 DEF MembershipInv, Rest
<1> QED BY <1>1, <1>2, <1>3 DEF MembershipInv

-----------------------------------------------------------------------------
(* What the loop and the member do.                                         *)
LEMMA MembersIssued ==
    ASSUME NEW p, NEW k \in MemberOf(p)
    PROVE  Issued(requests, k, p) /\ k \in Joins
  BY DEF MemberOf, Issued

LEMMA PollStep ==
    ASSUME MembershipInv, NEW i \in 1..Len(recs), Poll(i)
    PROVE  MembershipInv'
<1> DEFINE r == recs[i]
           p == r.persona
           asked == IF r.confirmed THEN {k \in Known(p) : Vid(k) = r.req} ELSE Known(p)
           k == Newest(asked)
           grace == \A m \in net : m.kind = "credential" => m.to # p
           again == grace /\ wants_credential_resend(r) /\ asks[p] < MaxAsks
           resent == again /\ asked # {} /\ k \in MemberOf(p) /\ ~requests[k].acked
           answered == net \cup {StatusOf(k, p, IF resent THEN "queued" ELSE "none")}
                           \cup (IF resent THEN {Credential(k, p)} ELSE {})
<1>1. /\ UNCHANGED <<recs, saved, joins, renewals, job, requests>>
      /\ asks' = [q \in Personas |->
                    IF q = p THEN asks[q] + (IF again THEN 1 ELSE 0)
                    ELSE IF \E j \in 1..Len(recs) : recs[j].persona = q /\ recs[j].status = "Pending"
                    THEN asks[q] ELSE 0]
      /\ \/ asked = {} /\ UNCHANGED <<net, left>>
         \/ asked # {} /\ UNCHANGED left /\ net' = answered
         \/ /\ asked # {} /\ left.faults > 0 /\ left' = [left EXCEPT !.faults = @ - 1]
            /\ net' = net \cup {StatusOf(k, p, "refused")}
  BY DEF Poll
<1>2. p \in Personas /\ asked \subseteq Joins /\ \A j \in asked : requests[j].by = p
  BY RecordWhole DEF Record, Known
<1>3. asks' \in [Personas -> 0..MaxAsks]
  <2>1. asks \in [Personas -> 0..MaxAsks] /\ MaxAsks \in Nat
    BY Parts, MembershipAssumption
  <2>2. ASSUME NEW q \in Personas
        PROVE  (IF q = p THEN asks[q] + (IF again THEN 1 ELSE 0)
                ELSE IF \E j \in 1..Len(recs) : recs[j].persona = q /\ recs[j].status = "Pending"
                THEN asks[q] ELSE 0) \in 0..MaxAsks
    <3>1. again => asks[p] < MaxAsks
      OBVIOUS
    <3> HIDE DEF again, p
    <3> QED BY <2>1, <3>1
  <2> HIDE DEF again, p
  <2> QED BY <1>1, <2>2
<1>4. ASSUME asked # {} PROVE k \in Joins /\ requests[k].by = p /\ requests[k].state \in States
  <2>1. k \in asked
    BY <1>2, <1>4, NewestOne
  <2>2. requests[k] \in Request
    BY <1>2, <2>1, Parts DEF Community
  <2> HIDE DEF k
  <2> QED BY <1>2, <2>1, <2>2 DEF Request
<1>5. ASSUME asked # {}, NEW a \in Answers PROVE Addressed(StatusOf(k, p, a), requests)
  BY <1>2, <1>4, <1>5, StatusSent
<1>6. ASSUME resent PROVE Addressed(Credential(k, p), requests)
  <2>1. Issued(requests, k, p) /\ k \in Joins /\ requests[k].by = p
    BY <1>6, MembersIssued DEF Issued
  <2> QED BY <1>2, <2>1, MessageSent
<1>7. \A m \in net' : m \in net \/ Addressed(m, requests)
  <2> HIDE DEF k, p, asked
  <2>1. CASE asked = {} /\ UNCHANGED net
    BY <2>1
  <2>2. CASE asked # {} /\ net' = answered
    <3>1. (IF resent THEN "queued" ELSE "none") \in Answers
      BY DEF Answers
    <3>2. Addressed(StatusOf(k, p, IF resent THEN "queued" ELSE "none"), requests)
      BY <1>5, <2>2, <3>1
    <3> HIDE DEF resent
    <3> QED BY <1>6, <2>2, <3>2
  <2>3. CASE asked # {} /\ net' = net \cup {StatusOf(k, p, "refused")}
    BY <1>5, <2>3 DEF Answers
  <2> HIDE DEF answered
  <2> QED BY <1>1, <2>1, <2>2, <2>3
<1>8. SameLimits(left')
  <2> HIDE DEF asked, answered, k, p
  <2> QED BY <1>1, Parts, Spent
<1>9. UNCHANGED <<recs, saved, joins, renewals, job, requests>>
  BY <1>1
<1> QED BY <1>3, <1>7, <1>8, <1>9, Parts, TouchedKeeps DEF Touched

(* A turn of the member's or of the clock's, on the records alone.          *)
LEMMA TurnKeeps ==
    ASSUME MembershipInv, Touched, left' = left \/ Turn, job' \in Personas \cup {None},
           UNCHANGED <<saved, joins, asks, renewals, requests, net>>
    PROVE  MembershipInv'
<1>1. SameLimits(left')
  BY Parts, Spent DEF Turn
<1> QED BY <1>1, Parts, TouchedKeeps

LEMMA MembershipOf ==
    ASSUME MembershipInv, NEW i \in 1..Len(recs)
    PROVE  /\ membership(recs[i].persona) \in 1..Len(recs)
           /\ recs[membership(recs[i].persona)].persona = recs[i].persona
           /\ ~left.rejoins => membership(recs[i].persona) = i
<1>1. recs \in Seq(Record)
  BY DEF MembershipInv, Book
<1>2. membership(recs[i].persona) \in 1..Len(recs)
      /\ recs[membership(recs[i].persona)].persona = recs[i].persona
  BY <1>1, MembershipFound
<1>3. ~left.rejoins => membership(recs[i].persona) = i
  BY <1>2 DEF MembershipInv, Alone
<1> QED BY <1>2, <1>3

LEMMA WithdrawApplies ==
    ASSUME MembershipInv, NEW i \in 1..Len(recs), WithdrawJoin(i)
    PROVE  AppliedToOne
<1>1. PICK j : j = membership(recs[i].persona)
  OBVIOUS
<1>2. j \in 1..Len(recs)
  BY <1>1, MembershipOf
<1>3. recs' = [recs EXCEPT ![j] = withdraw(recs[j])]
  BY <1>1, <1>2 DEF WithdrawJoin, SetRec
<1>4. Kept(recs[j], withdraw(recs[j]), requests, joins)
  BY <1>2, RecordWhole, WholeWithdrawn
<1>5. CASE recs[j].status = "Pending"
  <2>1. withdraw(recs[j]).status = "Withdrawn"
    BY <1>2, <1>5, RecordWhole, BecomesRecord DEF withdraw, Ended
  <2>2. Applied(j, withdraw(recs[j]))
    BY <1>3, <1>4, <1>5, <2>1 DEF Applied, Onward
  <2> QED BY <1>2, <2>2 DEF AppliedToOne
<1>6. CASE recs[j].status # "Pending"
  <2>1. withdraw(recs[j]) = recs[j]
    BY <1>6 DEF withdraw
  <2>2. recs' = recs
    BY <1>2, <1>3, <2>1 DEF MembershipInv, Book
  <2> QED BY <2>2 DEF AppliedToOne
<1> QED BY <1>5, <1>6

LEMMA ExpireApplies ==
    ASSUME MembershipInv, NEW i \in 1..Len(recs), ExpireStale(i)
    PROVE  AppliedToOne
<1>1. recs[i].status = "Pending" /\ recs' = [recs EXCEPT ![i] = Becomes(recs[i], "Expired")]
  BY DEF ExpireStale, SetRec
<1>2. "Expired" \in Ended /\ "Expired" \in Live \cup Ended
  BY DEF Ended
<1>3. Kept(recs[i], Becomes(recs[i], "Expired"), requests, joins) /\ Becomes(recs[i], "Expired").status = "Expired"
  BY <1>2, RecordWhole, WholeEnds, BecomesRecord
<1>4. Applied(i, Becomes(recs[i], "Expired"))
  BY <1>1, <1>3 DEF Applied, Onward
<1> QED BY <1>4 DEF AppliedToOne

LEMMA DeleteStep ==
    ASSUME MembershipInv, NEW i \in 1..Len(recs), DeleteCommunity(i)
    PROVE  MembershipInv'
<1>1. PICK j : j = membership(recs[i].persona)
  OBVIOUS
<1>2. j \in 1..Len(recs)
  BY <1>1, MembershipOf
<1>3. Turn /\ recs' = RemoveAt(recs, j) /\ UNCHANGED <<saved, joins, asks, renewals, job, requests, net>>
  BY <1>1 DEF DeleteCommunity
<1>4. SameLimits(left')
  BY <1>3, Parts, Spent DEF Turn
<1>5. Book(recs', requests, joins) /\ (Alone(recs) => Alone(recs')) /\ Behind(saved, recs')
  BY <1>2, <1>3, BookRemoved DEF MembershipInv
<1>6. Rest'
  BY <1>3, <1>4 DEF MembershipInv, Rest, SameLimits
<1>7. left'.rejoins = left.rejoins
  BY <1>4 DEF SameLimits
<1> QED BY <1>3, <1>5, <1>6, <1>7 DEF MembershipInv

LEMMA LeaveAppliedParts ==
    ASSUME MembershipInv, LeaveApplied
    PROVE  /\ \/ recs' = recs
              \/ \E i \in 1..Len(recs) :
                   /\ recs' = [recs EXCEPT ![i] = Becomes(recs[i], "Left")]
                   /\ Kept(recs[i], Becomes(recs[i], "Left"), requests, joins)
                   /\ Becomes(recs[i], "Left").status = "Left"
           /\ Community(requests', joins) /\ Grown(requests, joins, requests')
           /\ job' = None /\ UNCHANGED <<saved, joins, asks, renewals, net, left>>
<1>1. PICK i : i = membership(job)
  OBVIOUS
<1>2. /\ job' = None /\ UNCHANGED <<saved, joins, asks, renewals, net, left>>
      /\ \/ recs' = SetRec(i, Becomes(recs[i], "Left"))
         \/ UNCHANGED <<recs, requests>>
      /\ \/ requests' = [k \in Joins |-> IF k \in MemberOf(job) THEN [requests[k] EXCEPT !.state = "ended"]
                                         ELSE requests[k]]
         \/ requests' = requests
  BY <1>1 DEF LeaveApplied
<1>3. \/ recs' = recs
      \/ \E x \in 1..Len(recs) :
           /\ recs' = [recs EXCEPT ![x] = Becomes(recs[x], "Left")]
           /\ Kept(recs[x], Becomes(recs[x], "Left"), requests, joins)
           /\ Becomes(recs[x], "Left").status = "Left"
  <2>1. CASE i # 0 /\ recs' = SetRec(i, Becomes(recs[i], "Left"))
    <3>1. i \in 1..Len(recs)
      BY <1>1, <2>1, MembershipFound DEF MembershipInv, Book
    <3>2. recs' = [recs EXCEPT ![i] = Becomes(recs[i], "Left")]
      BY <2>1 DEF SetRec
    <3>3. "Left" \in Ended /\ "Left" \in Live \cup Ended
      BY DEF Ended
    <3>4. Kept(recs[i], Becomes(recs[i], "Left"), requests, joins) /\ Becomes(recs[i], "Left").status = "Left"
      BY <3>1, <3>3, RecordWhole, WholeEnds, BecomesRecord
    <3> QED BY <3>1, <3>2, <3>4
  <2>2. CASE i = 0 /\ recs' = SetRec(i, Becomes(recs[i], "Left"))
    BY <2>2 DEF SetRec
  <2> QED BY <1>2, <2>1, <2>2
<1>4. CASE requests' = [k \in Joins |-> IF k \in MemberOf(job) THEN [requests[k] EXCEPT !.state = "ended"]
                                        ELSE requests[k]]
  <2>1. requests \in [Joins -> Request]
    BY Parts DEF Community
  <2>2. ASSUME NEW k \in Joins
        PROVE  /\ requests'[k] \in Request /\ requests'[k].by = requests[k].by
               /\ requests'[k] = requests[k] \/ (requests[k].state = "approved" /\ requests'[k].state = "ended")
    <3>1. CASE k \in MemberOf(job)
      <4>1. PICK q : q = [requests[k] EXCEPT !.state = "ended"]
        OBVIOUS
      <4>2. requests[k] \in Request /\ requests[k].state = "approved"
        BY <2>1, <3>1 DEF MemberOf
      <4>3. q \in Request /\ q.by = requests[k].by /\ q.state = "ended"
        BY <4>1, <4>2 DEF Request, States
      <4> QED BY <1>4, <3>1, <4>1, <4>2, <4>3
    <3>2. CASE k \notin MemberOf(job)
      BY <1>4, <2>1, <3>2
    <3> QED BY <3>1, <3>2
  <2>3. requests' \in [Joins -> Request]
    <3>1. requests' = [k \in Joins |-> requests'[k]]
      BY <1>4
    <3> QED BY <2>2, <3>1
  <2>4. Community(requests', joins)
    BY <2>2, <2>3, Parts DEF Community
  <2>5. \A k \in 1..joins : k \in Joins
    BY Parts, MembershipAssumption DEF Joins
  <2>6. Grown(requests, joins, requests')
    BY <2>2, <2>5 DEF Grown
  <2> QED BY <1>2, <1>3, <2>4, <2>6
<1>5. CASE requests' = requests
  BY <1>2, <1>3, <1>5, Parts
<1> QED BY <1>2, <1>4, <1>5

LEMMA LeaveAppliedStep ==
    ASSUME MembershipInv, LeaveApplied
    PROVE  MembershipInv'
<1>1. Touched /\ job' \in Personas \cup {None}
  BY LeaveAppliedParts DEF Touched
<1> QED BY <1>1, LeaveAppliedParts, Parts, TouchedKeeps

LEMMA RenewStep ==
    ASSUME MembershipInv, NEW i \in 1..Len(recs), RenewCommunity(i)
    PROVE  MembershipInv'
<1>1. PICK p, n : p = recs[i].persona /\ n = left.renewals
  OBVIOUS
<1>2. /\ n > 0 /\ left' = [left EXCEPT !.renewals = @ - 1] /\ renewals' = renewals \cup {n}
      /\ net' = net \cup {IF MemberOf(p) = {} THEN NotMember(n, p) ELSE Renewed(Newest(MemberOf(p)), p, n)}
      /\ UNCHANGED <<recs, saved, joins, asks, job, requests>>
  BY <1>1 DEF RenewCommunity
<1>3. p \in Personas /\ n \in Nat
  BY <1>1, RecordWhole, Parts DEF Record, Limits
<1>4. SameLimits(left')
  BY <1>1, <1>2, Parts, Spent
<1>5. MemberOf(p) = {} => Addressed(NotMember(n, p), requests)
  BY <1>3 DEF NotMember, Addressed, Messages
<1>6. ASSUME MemberOf(p) # {} PROVE Addressed(Renewed(Newest(MemberOf(p)), p, n), requests)
  <2>1. PICK k : k = Newest(MemberOf(p))
    OBVIOUS
  <2>2. k \in MemberOf(p)
    BY <1>6, <2>1, NewestOne DEF MemberOf
  <2>3. Issued(requests, k, p) /\ k \in Joins /\ requests[k].by = p
    BY <2>2, MembersIssued DEF Issued
  <2> QED BY <1>3, <2>1, <2>3, MessageSent
<1>7. \A m \in net' : m \in net \/ Addressed(m, requests')
  BY <1>2, <1>5, <1>6
<1> QED BY <1>2, <1>3, <1>4, <1>7, Parts, TouchedKeeps DEF Touched

LEMMA StepInv == MembershipInv /\ [Next]_vars => MembershipInv'
<1> SUFFICES ASSUME MembershipInv, [Next]_vars PROVE MembershipInv'
  OBVIOUS
<1>1. ASSUME NEW p \in Personas, Submit(p) \/ SubmitCut(p) PROVE MembershipInv'
  BY <1>1, SubmitStep, SubmitCutStep
<1>2. ASSUME NEW k \in Joins, Decide(k) \/ DecideElsewhere(k) PROVE MembershipInv'
  BY <1>2, DecideStep, DecideElsewhereStep
<1>3. ASSUME NEW m \in net, Deliver(m) \/ Lose(m) PROVE MembershipInv'
  BY <1>3, DeliverStep, LoseStep
<1>4. ASSUME NEW i \in 1..Len(recs),
             Poll(i) \/ WithdrawJoin(i) \/ DeleteCommunity(i) \/ LeaveCommunity(i) \/ ExpireStale(i) \/ RenewCommunity(i)
      PROVE  MembershipInv'
  <2>1. CASE WithdrawJoin(i)
    BY <2>1, WithdrawApplies, AppliedTouches, Parts, TurnKeeps DEF WithdrawJoin
  <2>2. CASE ExpireStale(i)
    BY <2>2, ExpireApplies, AppliedTouches, Parts, TurnKeeps DEF ExpireStale
  <2>3. CASE LeaveCommunity(i)
    <3>1. recs[i].persona \in Personas
      BY RecordWhole DEF Record
    <3> QED BY <2>3, <3>1, TurnKeeps DEF LeaveCommunity, Touched
  <2> QED BY <1>4, <2>1, <2>2, <2>3, PollStep, DeleteStep, RenewStep
<1>5. ASSUME NEW n \in renewals, RenewalLapses(n) PROVE MembershipInv'
  <2>1. Touched /\ renewals' \subseteq Nat /\ UNCHANGED <<saved, joins, asks, job, requests, net, left>>
    BY <1>5, Parts DEF RenewalLapses, Touched
  <2> QED BY <2>1, Parts, TouchedKeeps
<1>6. CASE UNCHANGED vars
  <2>1. UNCHANGED <<recs, saved, joins, asks, renewals, job, requests, net, left>>
    BY <1>6 DEF vars, client
  <2> QED BY <2>1, Parts, TouchedKeeps DEF Touched
<1> QED BY <1>1, <1>2, <1>3, <1>4, <1>5, <1>6, LeaveAppliedStep, SaveStep, CrashStep DEF Next

LEMMA AlwaysInv == Spec => []MembershipInv
  BY InitInv, StepInv, PTL DEF Spec

-----------------------------------------------------------------------------
(* Admission is the membership credential: whatever verdicts, statuses,      *)
(* credentials, notices and renewals arrive and in whatever order, an Active *)
(* record holds a credential that the community issued to its persona for a *)
(* request it approved (OnCredential, OnRenewed, StatusApplied).            *)
THEOREM AdmittedByCredentialAlways == Spec => []AdmittedByCredential
<1>1. ASSUME MembershipInv PROVE AdmittedByCredential
  <2>1. TypeOK
    <3>1. \A rs \in {recs, saved} : \A i \in 1..Len(rs) :
            rs[i] \in Record /\ (rs[i].status = "Pending" <=> rs[i].req # NoReq)
      BY <1>1 DEF MembershipInv, Book, Whole
    <3> QED BY <1>1, <3>1, Parts DEF TypeOK
  <2>2. ASSUME NEW i \in 1..Len(recs), recs[i].status = "Active"
        PROVE  /\ recs[i].vmc # NoReq /\ requests[recs[i].vmc].by = recs[i].persona
               /\ requests[recs[i].vmc].state \in {"approved", "ended"}
    BY <1>1, <2>2, RecordWhole DEF Whole, Issued
  <2> QED BY <2>1, <2>2 DEF AdmittedByCredential
<1> QED BY <1>1, AlwaysInv, PTL

(* While no persona joins again over an ended record of its own, a live      *)
(* membership is the one its persona resolves to (membership). With such a  *)
(* join it is not: run mem_rejoin.                                          *)
THEOREM LiveResolvableAlways == Spec => [](~left.rejoins => LiveResolvable)
<1>1. ASSUME MembershipInv PROVE ~left.rejoins => LiveResolvable
  BY <1>1, MembershipOf DEF LiveResolvable
<1> QED BY <1>1, AlwaysInv, PTL

LEMMA RejoinsFixed == MembershipInv /\ [Next]_vars => left'.rejoins = left.rejoins
<1> SUFFICES ASSUME MembershipInv, [Next]_vars PROVE left'.rejoins = left.rejoins
  OBVIOUS
<1>1. ASSUME NEW p \in Personas, Submit(p) PROVE left'.rejoins = left.rejoins
  <2>1. left.joins # <<>>
    BY <1>1 DEF Submit, MayJoin
  <2>2. \/ left' = [left EXCEPT !.joins = Tail(@)]
        \/ left.faults > 0 /\ left' = [left EXCEPT !.joins = Tail(@), !.faults = @ - 1]
    BY <1>1 DEF Submit, Send
  <2> QED BY <2>1, <2>2, JoinSpent, Parts DEF JoinTaken
<1>2. ASSUME NEW p \in Personas, SubmitCut(p) PROVE left'.rejoins = left.rejoins
  BY <1>2, JoinSpent, Parts DEF SubmitCut, MayJoin, JoinTaken
<1>3. ASSUME SameLimits(left') PROVE left'.rejoins = left.rejoins
  BY <1>3 DEF SameLimits
<1>4. ASSUME NEW k \in Joins, Decide(k) \/ DecideElsewhere(k) PROVE SameLimits(left')
  BY <1>4, Spent, Parts DEF Decide, DecideElsewhere
<1>5. ASSUME NEW m \in net, Deliver(m) \/ Lose(m) PROVE SameLimits(left')
  BY <1>5, Spent, Parts DEF Deliver, Lose
<1>6. ASSUME NEW i \in 1..Len(recs), Poll(i) PROVE SameLimits(left')
  <2>1. left' = left \/ (left.faults > 0 /\ left' = [left EXCEPT !.faults = @ - 1])
    BY <1>6, Zenon DEF Poll
  <2> QED BY <2>1, Spent, Parts
<1>7. ASSUME NEW i \in 1..Len(recs),
             WithdrawJoin(i) \/ DeleteCommunity(i) \/ LeaveCommunity(i) \/ ExpireStale(i) \/ RenewCommunity(i)
      PROVE  SameLimits(left')
  <2>1. Turn \/ (left.renewals > 0 /\ left' = [left EXCEPT !.renewals = @ - 1])
    BY <1>7, Zenon DEF WithdrawJoin, DeleteCommunity, LeaveCommunity, ExpireStale, RenewCommunity
  <2> QED BY <2>1, Spent, Parts DEF Turn
<1>8. ASSUME LeaveApplied \/ Save \/ Crash PROVE SameLimits(left')
  BY <1>8, Spent, Parts DEF LeaveApplied, Save, Crash
<1>9. ASSUME NEW n \in renewals, RenewalLapses(n) PROVE SameLimits(left')
  BY <1>9, Parts DEF RenewalLapses
<1>10. CASE UNCHANGED vars
  BY <1>10 DEF vars
<1> QED BY <1>1, <1>2, <1>3, <1>4, <1>5, <1>6, <1>7, <1>8, <1>9, <1>10, Zenon DEF Next

-----------------------------------------------------------------------------
(* What a step does to the account's records and to what is on disk.        *)
LeftOne ==
    \E i \in 1..Len(recs) : \E q :
        Kept(recs[i], q, requests, joins) /\ q.status = "Left" /\ recs' = [recs EXCEPT ![i] = q]
DeletedOne == \E i \in 1..Len(recs) : recs[i].status \in Ended /\ recs' = RemoveAt(recs, i)
JoinedOne ==
    \E p \in Personas : /\ joins' = joins + 1 /\ joins' \in Joins
                        /\ recs' = Append(recs, new_pending(p, joins'))
                        /\ saved' \in {saved, recs'}
                        /\ requests' \in [Joins -> Request] /\ requests'[joins'].by = p
                        /\ Book(recs, requests', joins') /\ Book(saved, requests', joins')
WentBack == recs' = saved /\ saved' = saved /\ (joins' = joins \/ (joins' = joins + 1 /\ joins' \in Joins))
AccountStep ==
    \/ (AppliedToOne \/ LeftOne \/ DeletedOne) /\ UNCHANGED <<saved, joins>>
    \/ JoinedOne \/ WentBack
    \/ recs' = recs /\ saved' = recs /\ joins' = joins

LEMMA AccountSteps == MembershipInv /\ [Next]_vars => AccountStep
<1> SUFFICES ASSUME MembershipInv, [Next]_vars PROVE AccountStep
  OBVIOUS
<1>1. ASSUME UNCHANGED <<recs, saved, joins>> PROVE AccountStep
  BY <1>1 DEF AccountStep, AppliedToOne
<1>2. ASSUME NEW p \in Personas, Submit(p) PROVE AccountStep
  <2>1. MayJoin(p) /\ joins' = joins + 1 /\ recs' = Append(recs, new_pending(p, joins'))
        /\ saved' \in {saved, recs'} /\ UNCHANGED <<asks, renewals, job>>
    BY <1>2 DEF Submit
  <2>2. PICK reply \in Replies(joins', p) :
          /\ requests' = [requests EXCEPT ![joins'] = [by |-> p, state |-> reply.state, acked |-> FALSE]]
          /\ net' = net \cup reply.msgs
          /\ IF reply.msgs = {}
             THEN left.faults > 0 /\ left' = [left EXCEPT !.joins = Tail(@), !.faults = @ - 1]
             ELSE left' = [left EXCEPT !.joins = Tail(@)]
    BY <1>2 DEF Submit, Send
  <2>3. JoinTaken(left')
    BY <2>1, <2>2, JoinSpent, MayJoinParts, Parts
  <2>4. joins' \in Joins /\ Community(requests', joins') /\ requests'[joins'].by = p
    BY <2>1, <2>2, RequestMade
  <2>5. Book(recs, requests', joins') /\ Book(saved, requests', joins')
    BY <2>1, <2>2, <2>3, CommunityJoined, Parts
  <2>6. JoinedOne
    BY <2>1, <2>4, <2>5 DEF JoinedOne, Community
  <2> QED BY <2>6 DEF AccountStep
<1>3. ASSUME NEW p \in Personas, SubmitCut(p) PROVE AccountStep
  <2>1. WentBack
    BY <1>3, MayJoinParts DEF SubmitCut, Restart, WentBack
  <2> QED BY <2>1 DEF AccountStep
<1>4. ASSUME NEW k \in Joins, Decide(k) \/ DecideElsewhere(k) PROVE AccountStep
  <2>1. UNCHANGED client
    BY <1>4 DEF Decide, DecideElsewhere
  <2> QED BY <1>1, <2>1 DEF client
<1>5. ASSUME NEW m \in net, Deliver(m) PROVE AccountStep
  BY <1>5, DeliverApplies DEF AccountStep
<1>6. ASSUME NEW m \in net, Lose(m) PROVE AccountStep
  <2>1. UNCHANGED client
    BY <1>6 DEF Lose
  <2> QED BY <1>1, <2>1 DEF client
<1>7. ASSUME NEW i \in 1..Len(recs), Poll(i) \/ LeaveCommunity(i) \/ RenewCommunity(i) PROVE AccountStep
  <2>1. UNCHANGED <<recs, saved, joins>>
    BY <1>7, Zenon DEF Poll, LeaveCommunity, RenewCommunity
  <2> QED BY <1>1, <2>1
<1>8. ASSUME NEW i \in 1..Len(recs), WithdrawJoin(i) \/ ExpireStale(i) PROVE AccountStep
  <2>1. AppliedToOne
    BY <1>8, WithdrawApplies, ExpireApplies
  <2> QED BY <1>8, <2>1 DEF WithdrawJoin, ExpireStale, AccountStep
<1>9. ASSUME NEW i \in 1..Len(recs), DeleteCommunity(i) PROVE AccountStep
  <2>1. DeletedOne
    BY <1>9, MembershipOf DEF DeleteCommunity, DeletedOne
  <2> QED BY <1>9, <2>1 DEF DeleteCommunity, AccountStep
<1>10. CASE LeaveApplied
  <2>1. LeftOne \/ recs' = recs
    BY <1>10, LeaveAppliedParts DEF LeftOne
  <2> QED BY <1>1, <1>10, <2>1, LeaveAppliedParts DEF AccountStep
<1>11. CASE Save
  BY <1>11 DEF Save, AccountStep
<1>12. CASE Crash
  BY <1>12 DEF Crash, Restart, WentBack, AccountStep
<1>13. ASSUME NEW n \in renewals, RenewalLapses(n) PROVE AccountStep
  BY <1>1, <1>13 DEF RenewalLapses
<1>14. CASE UNCHANGED vars
  BY <1>1, <1>14 DEF vars, client
<1> QED BY <1>2, <1>3, <1>4, <1>5, <1>6, <1>7, <1>8, <1>9, <1>10, <1>11, <1>12, <1>13, <1>14, Zenon DEF Next

(* With several joins unconfirmed, the answers to polls that name no id come *)
(* in any order and no join takes the id of another persona's request       *)
(* (membership_awaiting_request_id, OnStatus, OnVerdict); personas may join  *)
(* again, and the account may stop at any moment.                           *)
THEOREM AnswersFindTheirJoinAlways == Spec => AnswersFindTheirJoin
<1>1. ASSUME MembershipInv, [Next]_vars, Cardinality(Unconfirmed) > 1,
             NEW i \in Unconfirmed, NEW j \in 1..Len(recs'),
             recs'[j].own = recs[i].own, recs'[j].status = "Pending", recs'[j].confirmed
      PROVE  requests[recs'[j].req - MaxJoins].by = recs[i].persona
  <2>1. i \in 1..Len(recs) /\ recs[i].status = "Pending" /\ ~recs[i].confirmed
    BY DEF Unconfirmed
  <2>2. Book(recs, requests, joins) /\ recs \in Seq(Record) /\ Len(recs) \in Nat
        /\ \A a, b \in 1..Len(recs) : recs[a].own = recs[b].own => a = b
    BY <1>1 DEF MembershipInv, Book
(* A record of this join that was there before has no id yet.               *)
  <2>3. ASSUME NEW k \in 1..Len(recs), recs'[j] = recs[k] PROVE FALSE
    BY <1>1, <2>1, <2>2, <2>3
  <2>4. recs' # recs
    BY <2>3
  <2>5. ASSUME NEW x \in 1..Len(recs), NEW q, Kept(recs[x], q, requests, joins), recs' = [recs EXCEPT ![x] = q]
        PROVE  x = i /\ recs'[j] = q
    <3>1. Len(recs') = Len(recs) /\ recs'[j] = IF j = x THEN q ELSE recs[j]
      BY <2>2, <2>5, BookRevised
    <3>2. recs'[j] = q
      BY <2>3, <3>1
    <3>3. q.own = recs[x].own
      BY <2>5 DEF Kept, Revised
    <3> QED BY <1>1, <2>1, <2>2, <3>2, <3>3
  <2>6. CASE AppliedToOne
    <3>1. PICK x, q : x \in 1..Len(recs) /\ Applied(x, q)
      BY <2>4, <2>6 DEF AppliedToOne
    <3>2. Kept(recs[x], q, requests, joins) /\ recs' = [recs EXCEPT ![x] = q]
      BY <3>1 DEF Applied
    <3>3. x = i /\ recs'[j] = q
      BY <2>5, <3>1, <3>2
    <3> QED BY <1>1, <2>1, <3>1, <3>3 DEF Applied
  <2>7. CASE LeftOne
    <3>1. PICK x, q :
            /\ x \in 1..Len(recs)
            /\ Kept(recs[x], q, requests, joins) /\ q.status = "Left" /\ recs' = [recs EXCEPT ![x] = q]
      BY <2>7 DEF LeftOne
    <3>2. recs'[j] = q
      BY <2>5, <3>1
    <3> QED BY <1>1, <3>1, <3>2
  <2>8. CASE DeletedOne
    BY <2>2, <2>3, <2>8, BookRemoved DEF DeletedOne
  <2>9. CASE JoinedOne
    <3>1. PICK p \in Personas : /\ joins' \in Joins /\ recs' = Append(recs, new_pending(p, joins'))
                               /\ requests'[joins'].by = p
      BY <2>9 DEF JoinedOne
    <3>2. PICK r : r = new_pending(p, joins')
      OBVIOUS
    <3>4. r.confirmed = FALSE /\ r \in Record
      BY <3>1, <3>2, NewPending DEF Whole
    <3>5. Len(recs') = Len(recs) + 1 /\ recs'[Len(recs) + 1] = r /\ \A k \in 1..Len(recs) : recs'[k] = recs[k]
      BY <2>2, <3>1, <3>2, <3>4, AppendProperties
    <3>6. j \in 1..Len(recs) \/ j = Len(recs) + 1
      BY <1>1, <2>2, <3>5
    <3> QED BY <1>1, <2>3, <3>4, <3>5, <3>6
  <2>10. CASE recs' = saved
    BY <1>1, <2>1, <2>10 DEF MembershipInv, Behind
  <2> QED BY <1>1, <2>4, <2>6, <2>7, <2>8, <2>9, <2>10, AccountSteps DEF AccountStep, WentBack
<1>2. MembershipInv /\ [Next]_vars
      => [Cardinality(Unconfirmed) > 1 =>
            \A i \in Unconfirmed, j \in 1..Len(recs') :
              /\ recs'[j].own = recs[i].own
              /\ recs'[j].status = "Pending" /\ recs'[j].confirmed
              => requests[recs'[j].req - MaxJoins].by = recs[i].persona]_vars
  BY <1>1
<1> QED BY <1>2, AlwaysInv, PTL DEF Spec, AnswersFindTheirJoin

-----------------------------------------------------------------------------
(* The refinement of MembershipLifecycle.                                   *)
StateOf(rs, k, n) ==
    LET found == {i \in 1..Len(rs) : rs[i].own = k}
    IN IF found # {} THEN rs[CHOOSE i \in found : TRUE].status
       ELSE IF k <= n THEN "Gone" ELSE "None"
AllStates(rs, n) == [k \in Joins |-> StateOf(rs, k, n)]

LEMMA StateOfRecord ==
    ASSUME NEW rs, NEW rq, NEW m, Book(rs, rq, m), NEW i \in 1..Len(rs), NEW n
    PROVE  StateOf(rs, rs[i].own, n) = rs[i].status
<1> DEFINE found == {j \in 1..Len(rs) : rs[j].own = rs[i].own}
<1>1. i \in found /\ \A j \in found : j = i
  BY DEF Book
<1>2. (CHOOSE j \in found : TRUE) = i
  BY <1>1
<1> QED BY <1>1, <1>2 DEF StateOf

LEMMA StateOfNone ==
    ASSUME NEW rs, NEW k, NEW n, \A i \in 1..Len(rs) : rs[i].own # k
    PROVE  StateOf(rs, k, n) = IF k <= n THEN "Gone" ELSE "None"
  BY DEF StateOf

LEMMA Mapping ==
    /\ [k \in Joins |-> StateIn(recs, k)] = AllStates(recs, joins)
    /\ [k \in Joins |-> StateIn(saved, k)] = AllStates(saved, joins)
<1>1. \A rs, k : StateIn(rs, k) = StateOf(rs, k, joins)
  BY Zenon DEF StateIn, StateOf
<1> QED BY <1>1 DEF AllStates

(* A record that is brought up to date moves its own join only.             *)
LEMMA StatesRevised ==
    ASSUME MembershipInv, NEW i \in 1..Len(recs), NEW q, Kept(recs[i], q, requests, joins)
    PROVE  LET new == [recs EXCEPT ![i] = q]
           IN  /\ recs[i].own \in Joins
               /\ AllStates(recs, joins)[recs[i].own] = recs[i].status
               /\ AllStates(new, joins) = [AllStates(recs, joins) EXCEPT ![recs[i].own] = q.status]
<1> DEFINE new == [recs EXCEPT ![i] = q]
           k == recs[i].own
<1>1. k \in Joins /\ Book(recs, requests, joins)
  BY RecordWhole DEF MembershipInv
<1>2. Book(new, requests, joins) /\ Len(new) = Len(recs) /\ \A j \in 1..Len(recs) : new[j] = IF j = i THEN q ELSE recs[j]
  BY <1>1, BookRevised
<1>3. q.own = k
  BY DEF Kept, Revised
<1> HIDE DEF new, k
<1>4. i \in 1..Len(new) /\ new[i].own = k /\ new[i].status = q.status
  BY <1>2, <1>3
<1>5. StateOf(new, k, joins) = q.status /\ StateOf(recs, k, joins) = recs[i].status
  <2>1. StateOf(new, new[i].own, joins) = new[i].status
    BY <1>2, <1>4, StateOfRecord
  <2>2. StateOf(recs, recs[i].own, joins) = recs[i].status
    BY <1>1, StateOfRecord
  <2> QED BY <1>4, <2>1, <2>2 DEF k
<1>6. ASSUME NEW h \in Joins, h # k PROVE StateOf(new, h, joins) = StateOf(recs, h, joins)
  <2>1. CASE \E j \in 1..Len(recs) : recs[j].own = h
    <3>1. PICK j \in 1..Len(recs) : recs[j].own = h
      BY <2>1
    <3>2. j # i
      BY <1>6, <3>1 DEF k
    <3>3. j \in 1..Len(new) /\ new[j] = recs[j]
      BY <1>2, <3>2
    <3>4. StateOf(new, new[j].own, joins) = new[j].status /\ StateOf(recs, recs[j].own, joins) = recs[j].status
      BY <1>1, <1>2, <3>3, StateOfRecord
    <3> QED BY <3>1, <3>3, <3>4
  <2>2. CASE \A j \in 1..Len(recs) : recs[j].own # h
    <3>1. \A j \in 1..Len(new) : new[j].own # h
      BY <1>2, <1>3, <1>6, <2>2
    <3>2. StateOf(new, h, joins) = IF h <= joins THEN "Gone" ELSE "None"
      BY <3>1, StateOfNone
    <3>3. StateOf(recs, h, joins) = IF h <= joins THEN "Gone" ELSE "None"
      BY <2>2, StateOfNone
    <3> QED BY <3>2, <3>3
  <2> QED BY <2>1, <2>2
<1>7. AllStates(new, joins) = [AllStates(recs, joins) EXCEPT ![k] = q.status]
  BY <1>1, <1>5, <1>6 DEF AllStates
<1> QED BY <1>1, <1>5, <1>7 DEF AllStates, new, k

LEMMA StatesRemoved ==
    ASSUME MembershipInv, NEW i \in 1..Len(recs)
    PROVE  /\ recs[i].own \in Joins /\ AllStates(recs, joins)[recs[i].own] = recs[i].status
           /\ AllStates(RemoveAt(recs, i), joins) = [AllStates(recs, joins) EXCEPT ![recs[i].own] = "Gone"]
<1> DEFINE new == RemoveAt(recs, i)
           k == recs[i].own
<1>1. k \in Joins /\ k <= joins /\ Book(recs, requests, joins)
  <2>1. recs[i].own \in 1..joins
    BY RecordWhole DEF Whole
  <2> QED BY <2>1, RecordWhole, Parts DEF MembershipInv
<1>2. /\ Book(new, requests, joins)
      /\ \A j \in 1..Len(new) : \E h \in 1..Len(recs) : h # i /\ new[j] = recs[h]
      /\ \A h \in 1..Len(recs) : h # i => \E j \in 1..Len(new) : new[j] = recs[h]
  BY <1>1, BookRemoved
<1> HIDE DEF new
<1>3. StateOf(recs, k, joins) = recs[i].status
  BY <1>1, StateOfRecord
<1>4. StateOf(new, k, joins) = "Gone"
  <2>1. \A j \in 1..Len(new) : new[j].own # k
    BY <1>1, <1>2 DEF Book
  <2>2. StateOf(new, k, joins) = IF k <= joins THEN "Gone" ELSE "None"
    BY <2>1, StateOfNone
  <2> QED BY <1>1, <2>2
<1>5. ASSUME NEW h \in Joins, h # k PROVE StateOf(new, h, joins) = StateOf(recs, h, joins)
  <2>1. CASE \E j \in 1..Len(recs) : recs[j].own = h
    <3>1. PICK j \in 1..Len(recs) : recs[j].own = h
      BY <2>1
    <3>2. j # i
      BY <1>5, <3>1
    <3>3. PICK x \in 1..Len(new) : new[x] = recs[j]
      BY <1>2, <3>2
    <3>4. StateOf(new, new[x].own, joins) = new[x].status
      BY <1>2, StateOfRecord
    <3>5. StateOf(recs, recs[j].own, joins) = recs[j].status
      BY <1>1, StateOfRecord
    <3> QED BY <3>1, <3>3, <3>4, <3>5
  <2>2. CASE \A j \in 1..Len(recs) : recs[j].own # h
    <3>1. \A j \in 1..Len(new) : new[j].own # h
      BY <1>2, <2>2
    <3>2. StateOf(new, h, joins) = IF h <= joins THEN "Gone" ELSE "None"
      BY <3>1, StateOfNone
    <3>3. StateOf(recs, h, joins) = IF h <= joins THEN "Gone" ELSE "None"
      BY <2>2, StateOfNone
    <3> QED BY <3>2, <3>3
  <2> QED BY <2>1, <2>2
<1> HIDE DEF k
<1>6. AllStates(new, joins) = [AllStates(recs, joins) EXCEPT ![k] = "Gone"]
  BY <1>1, <1>4, <1>5 DEF AllStates
<1> QED BY <1>1, <1>3, <1>6 DEF AllStates, new, k

(* A join that is made, and is recorded in none of the records.             *)
LEMMA StatesJoined ==
    ASSUME NEW rs, NEW rq, Book(rs, rq, joins), NEW k \in Joins, k = joins + 1, joins \in 0..MaxJoins
    PROVE  /\ AllStates(rs, joins)[k] = "None"
           /\ AllStates(rs, k) = [AllStates(rs, joins) EXCEPT ![k] = "Gone"]
           /\ \A p \in Personas : \A new \in [Joins -> Request] : new[k].by = p /\ Book(rs, new, k)
                => AllStates(Append(rs, new_pending(p, k)), k) = [AllStates(rs, joins) EXCEPT ![k] = "Pending"]
<1>1. \A j \in 1..Len(rs) : rs[j].own \in 1..joins
  BY DEF Book, Whole
<1>2. joins \in Int /\ k \in Int /\ ~(k <= joins) /\ k <= k
  BY MembershipAssumption
<1>3. \A j \in 1..Len(rs) : rs[j].own # k
  BY <1>1, <1>2
<1>4. StateOf(rs, k, joins) = "None"
  <2>1. StateOf(rs, k, joins) = IF k <= joins THEN "Gone" ELSE "None"
    BY <1>3, StateOfNone
  <2> QED BY <1>2, <2>1
<1>5. StateOf(rs, k, k) = "Gone"
  <2>1. StateOf(rs, k, k) = IF k <= k THEN "Gone" ELSE "None"
    BY <1>3, StateOfNone
  <2> QED BY <1>2, <2>1
<1>6. ASSUME NEW h \in Joins, h # k PROVE StateOf(rs, h, k) = StateOf(rs, h, joins)
  <2>1. h <= k <=> h <= joins
    BY <1>2, <1>6, MembershipAssumption DEF Joins
  <2> QED BY <2>1 DEF StateOf
<1>7. AllStates(rs, k) = [AllStates(rs, joins) EXCEPT ![k] = "Gone"]
  BY <1>5, <1>6 DEF AllStates
<1>8. ASSUME NEW p \in Personas, NEW new \in [Joins -> Request], new[k].by = p, Book(rs, new, k)
      PROVE  AllStates(Append(rs, new_pending(p, k)), k) = [AllStates(rs, joins) EXCEPT ![k] = "Pending"]
  <2>1. PICK r : r = new_pending(p, k)
    OBVIOUS
  <2>2. Whole(r, new, k) /\ r.own = k /\ r.status = "Pending"
    BY <1>8, <2>1, NewPending
  <2>3. PICK out : out = Append(rs, r)
    OBVIOUS
  <2>4. /\ Book(out, new, k) /\ Len(out) = Len(rs) + 1 /\ out[Len(rs) + 1] = r
        /\ \A j \in 1..Len(rs) : out[j] = rs[j]
    BY <1>3, <1>8, <2>2, <2>3, BookAppended
  <2>5. Len(rs) \in Nat
    BY DEF Book
  <2>6. \A j \in 1..Len(out) : j \in 1..Len(rs) \/ j = Len(rs) + 1
    BY <2>4, <2>5
  <2>7. StateOf(out, k, k) = "Pending"
    <3>1. Len(rs) + 1 \in 1..Len(out)
      BY <2>4, <2>5
    <3>2. StateOf(out, out[Len(rs) + 1].own, k) = out[Len(rs) + 1].status
      BY <2>4, <3>1, StateOfRecord
    <3> QED BY <2>2, <2>4, <3>2
  <2>8. ASSUME NEW h \in Joins, h # k PROVE StateOf(out, h, k) = StateOf(rs, h, k)
    <3>1. CASE \E j \in 1..Len(rs) : rs[j].own = h
      <4>1. PICK j \in 1..Len(rs) : rs[j].own = h
        BY <3>1
      <4>2. j \in 1..Len(out) /\ out[j] = rs[j]
        BY <2>4, <2>5
      <4>3. StateOf(out, out[j].own, k) = out[j].status /\ StateOf(rs, rs[j].own, k) = rs[j].status
        BY <2>4, <4>2, StateOfRecord
      <4> QED BY <4>1, <4>2, <4>3
    <3>2. CASE \A j \in 1..Len(rs) : rs[j].own # h
      <4>1. \A j \in 1..Len(out) : out[j].own # h
        BY <2>2, <2>4, <2>6, <2>8, <3>2
      <4>2. StateOf(out, h, k) = IF h <= k THEN "Gone" ELSE "None"
        BY <4>1, StateOfNone
      <4>3. StateOf(rs, h, k) = IF h <= k THEN "Gone" ELSE "None"
        BY <3>2, StateOfNone
      <4> QED BY <4>2, <4>3
    <3> QED BY <3>1, <3>2
  <2>9. AllStates(out, k) = [AllStates(rs, joins) EXCEPT ![k] = "Pending"]
    BY <1>6, <2>7, <2>8 DEF AllStates
  <2> QED BY <2>1, <2>3, <2>9
<1> QED BY <1>4, <1>7, <1>8 DEF AllStates

LEMMA InitLifecycle == Init => Lifecycle!Init
<1> SUFFICES ASSUME Init PROVE Lifecycle!Init
  OBVIOUS
<1>1. recs = <<>> /\ saved = <<>> /\ joins = 0
  BY DEF Init
<1>2. ASSUME NEW k \in Joins PROVE StateOf(<<>>, k, 0) = "None"
  <2>1. \A i \in 1..Len(<<>>) : <<>>[i].own # k
    OBVIOUS
  <2>2. ~(k <= 0)
    BY DEF Joins
  <2> QED BY <2>1, <2>2, StateOfNone
<1>3. AllStates(recs, joins) = [k \in Joins |-> "None"] /\ AllStates(saved, joins) = [k \in Joins |-> "None"]
  BY <1>1, <1>2 DEF AllStates
<1> QED BY <1>3, Mapping DEF Lifecycle!Init

LEMMA StepLifecycle ==
    ASSUME MembershipInv, ~left.rejoins, [Next]_vars
    PROVE  [Lifecycle!Next]_<<[k \in Joins |-> StateIn(recs, k)], [k \in Joins |-> StateIn(saved, k)]>>
<1> DEFINE S == [k \in Joins |-> StateIn(recs, k)]
           D == [k \in Joins |-> StateIn(saved, k)]
<1>1. S = AllStates(recs, joins) /\ D = AllStates(saved, joins)
  BY Mapping
<1>2. S' = AllStates(recs', joins') /\ D' = AllStates(saved', joins')
  <2>1. (S = AllStates(recs, joins) /\ D = AllStates(saved, joins))'
    BY Mapping, PTL
  <2> QED BY <2>1
<1> HIDE DEF S, D
<1>3. joins \in 0..MaxJoins /\ Book(recs, requests, joins) /\ Book(saved, requests, joins)
  BY Parts DEF MembershipInv
<1>4. \A k \in Joins : S[k] = AllStates(recs, joins)[k]
  BY <1>1
(* A record brought up to date is a step of its join.                       *)
<1>5. ASSUME NEW i \in 1..Len(recs), NEW q, Kept(recs[i], q, requests, joins), recs' = [recs EXCEPT ![i] = q],
             UNCHANGED <<saved, joins>>
      PROVE  recs[i].own \in Joins /\ S[recs[i].own] = recs[i].status
             /\ S' = [S EXCEPT ![recs[i].own] = q.status] /\ D' = D
  BY <1>1, <1>2, <1>5, StatesRevised
<1>6. ASSUME AppliedToOne, UNCHANGED <<saved, joins>> PROVE [Lifecycle!Next]_<<S, D>>
  <2>1. CASE recs' = recs
    BY <1>1, <1>2, <1>6, <2>1
  <2>2. ASSUME NEW i \in 1..Len(recs), NEW q, Applied(i, q) PROVE [Lifecycle!Next]_<<S, D>>
    <3>1. Kept(recs[i], q, requests, joins) /\ recs' = [recs EXCEPT ![i] = q] /\ Onward(recs[i].status, q.status)
      BY <2>2 DEF Applied
    <3>2. PICK k \in Joins : /\ k = recs[i].own /\ S[k] = recs[i].status
                             /\ S' = [S EXCEPT ![k] = q.status] /\ D' = D
      BY <1>5, <1>6, <3>1
    <3>3. CASE q.status = recs[i].status
      <4>1. S = [h \in Joins |-> S[h]]
        BY <1>1 DEF AllStates
      <4>2. S' = S
        BY <3>2, <3>3, <4>1
      <4> QED BY <3>2, <4>2
    <3>4. CASE q.status # recs[i].status
      <4>1. \/ S[k] = "Pending" /\ q.status \in {"Active", "Rejected", "Expired", "Withdrawn"}
            \/ S[k] = "Active" /\ q.status = "Removed"
        BY <3>1, <3>2, <3>4 DEF Onward
      <4>2. CASE S[k] = "Pending" /\ q.status = "Active"
        <5>1. Lifecycle!Admit(k)
          BY <3>2, <4>2 DEF Lifecycle!Admit, Lifecycle!Move, S, D
        <5> QED BY <5>1 DEF Lifecycle!Next
      <4>3. CASE S[k] = "Pending" /\ q.status = "Rejected"
        <5>1. Lifecycle!Reject(k)
          BY <3>2, <4>3 DEF Lifecycle!Reject, Lifecycle!Move, S, D
        <5> QED BY <5>1 DEF Lifecycle!Next
      <4>4. CASE S[k] = "Pending" /\ q.status = "Expired"
        <5>1. Lifecycle!Expire(k)
          BY <3>2, <4>4 DEF Lifecycle!Expire, Lifecycle!Move, S, D
        <5> QED BY <5>1 DEF Lifecycle!Next
      <4>5. CASE S[k] = "Pending" /\ q.status = "Withdrawn"
        <5>1. Lifecycle!Withdraw(k)
          BY <3>2, <4>5 DEF Lifecycle!Withdraw, Lifecycle!Move, S, D
        <5> QED BY <5>1 DEF Lifecycle!Next
      <4>6. CASE S[k] = "Active" /\ q.status = "Removed"
        <5>1. Lifecycle!Remove(k)
          BY <3>2, <4>6 DEF Lifecycle!Remove, Lifecycle!Move, S, D
        <5> QED BY <5>1 DEF Lifecycle!Next
      <4> QED BY <4>1, <4>2, <4>3, <4>4, <4>5, <4>6
    <3> QED BY <3>3, <3>4
  <2> QED BY <1>6, <2>1, <2>2 DEF AppliedToOne
<1>7. ASSUME LeftOne, UNCHANGED <<saved, joins>> PROVE [Lifecycle!Next]_<<S, D>>
  <2>1. PICK i, q :
          /\ i \in 1..Len(recs)
          /\ Kept(recs[i], q, requests, joins) /\ q.status = "Left" /\ recs' = [recs EXCEPT ![i] = q]
    BY <1>7 DEF LeftOne
  <2>2. PICK k \in Joins : /\ k = recs[i].own /\ S[k] = recs[i].status
                           /\ S' = [S EXCEPT ![k] = "Left"] /\ D' = D
    BY <1>5, <1>7, <2>1
  <2>3. S[k] \in Lifecycle!Kept
    BY <2>1, <2>2, RecordWhole DEF Record, Live, Ended, Lifecycle!Kept, Lifecycle!Ended
  <2>4. Lifecycle!Leave(k)
    BY <2>2, <2>3 DEF Lifecycle!Leave, Lifecycle!Move, S, D
  <2> QED BY <2>4 DEF Lifecycle!Next
<1>8. ASSUME DeletedOne, UNCHANGED <<saved, joins>> PROVE [Lifecycle!Next]_<<S, D>>
  <2>1. PICK i \in 1..Len(recs) : recs[i].status \in Ended /\ recs' = RemoveAt(recs, i)
    BY <1>8 DEF DeletedOne
  <2>2. PICK k \in Joins : k = recs[i].own /\ S[k] = recs[i].status /\ S' = [S EXCEPT ![k] = "Gone"] /\ D' = D
    BY <1>1, <1>2, <1>8, <2>1, StatesRemoved
  <2>3. Lifecycle!Delete(k)
    BY <2>1, <2>2 DEF Lifecycle!Delete, Lifecycle!Move, Lifecycle!Ended, Ended, S, D
  <2> QED BY <2>3 DEF Lifecycle!Next
<1>9. ASSUME JoinedOne PROVE [Lifecycle!Next]_<<S, D>>
  <2>1. PICK p \in Personas : /\ joins' = joins + 1 /\ joins' \in Joins
                              /\ recs' = Append(recs, new_pending(p, joins'))
                              /\ saved' \in {saved, recs'}
                              /\ requests' \in [Joins -> Request] /\ requests'[joins'].by = p
                              /\ Book(recs, requests', joins') /\ Book(saved, requests', joins')
    BY <1>9 DEF JoinedOne
  <2>2. PICK k \in Joins : k = joins'
    BY <2>1
  <2>3. S[k] = "None" /\ S' = [S EXCEPT ![k] = "Pending"]
    BY <1>1, <1>2, <1>3, <2>1, <2>2, StatesJoined
  <2>4. CASE saved' = recs'
    <3>1. D' = S'
      BY <1>2, <2>4
    <3>2. Lifecycle!Join(k)
      BY <2>3, <3>1 DEF Lifecycle!Join, S, D
    <3> QED BY <3>2 DEF Lifecycle!Next
  <2>5. CASE saved' = saved
    <3>1. D' = [D EXCEPT ![k] = "Gone"]
      BY <1>1, <1>2, <1>3, <2>1, <2>2, <2>5, StatesJoined
    <3>2. Lifecycle!Join(k)
      BY <2>3, <3>1 DEF Lifecycle!Join, S, D
    <3> QED BY <3>2 DEF Lifecycle!Next
  <2> QED BY <2>1, <2>4, <2>5
<1>10. ASSUME WentBack PROVE [Lifecycle!Next]_<<S, D>>
  <2>1. CASE joins' = joins
    <3>1. S' = D /\ D' = D
      BY <1>1, <1>2, <1>10, <2>1 DEF WentBack
    <3>2. Lifecycle!Restart
      BY <3>1 DEF Lifecycle!Restart, S, D
    <3> QED BY <3>2 DEF Lifecycle!Next
  <2>2. CASE joins' = joins + 1 /\ joins' \in Joins
    <3>1. PICK k \in Joins : k = joins'
      BY <2>2
    <3>2. S[k] = "None" /\ S' = [D EXCEPT ![k] = "Gone"] /\ D' = S'
      BY <1>1, <1>2, <1>3, <1>10, <2>2, <3>1, StatesJoined DEF WentBack
    <3>3. Lifecycle!Orphan(k)
      BY <3>2 DEF Lifecycle!Orphan, S, D
    <3> QED BY <3>3 DEF Lifecycle!Next
  <2> QED BY <1>10, <2>1, <2>2 DEF WentBack
<1>11. ASSUME recs' = recs, saved' = recs, joins' = joins PROVE [Lifecycle!Next]_<<S, D>>
  <2>1. D' = S /\ S' = S
    BY <1>1, <1>2, <1>11
  <2>2. Lifecycle!Persist
    BY <2>1 DEF Lifecycle!Persist, S, D
  <2> QED BY <2>2 DEF Lifecycle!Next
<1>12. AccountStep
  BY AccountSteps
<1>13. [Lifecycle!Next]_<<S, D>>
  BY <1>6, <1>7, <1>8, <1>9, <1>10, <1>11, <1>12, Zenon DEF AccountStep
<1> QED BY <1>13 DEF S, D

(* Each join goes through the states of MembershipLifecycle, while no        *)
(* persona joins again over an ended record of its own: no message, however *)
(* late, revives a membership that has ended, and a stop takes the account  *)
(* back to its last save and no further (Deliver, Restart, Save).           *)
THEOREM KeepsLifecycleAlways == Spec /\ ~left.rejoins => KeepsLifecycle
<1>1. Spec /\ ~left.rejoins => [](MembershipInv /\ ~left.rejoins)
  <2>1. MembershipInv /\ ~left.rejoins /\ [Next]_vars => (~left.rejoins)'
    BY RejoinsFixed
  <2> QED BY <2>1, AlwaysInv, PTL DEF Spec
<1>2. MembershipInv /\ ~left.rejoins /\ [Next]_vars
      => [Lifecycle!Next]_<<[k \in Joins |-> StateIn(recs, k)], [k \in Joins |-> StateIn(saved, k)]>>
  BY StepLifecycle
<1> QED BY <1>1, <1>2, InitLifecycle, PTL DEF Spec, KeepsLifecycle, Lifecycle!Spec
=============================================================================
