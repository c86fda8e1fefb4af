-------------------------- MODULE VerifyQueueProofs --------------------------
(***************************************************************************)
(* The verification queue keeps an exact book, a sender's messages in      *)
(* order and the copies of communities' messages, and never lets a         *)
(* stranger's check go before a community's, for every value of the        *)
(* constants.  The first part is about the verifier alone, as operators on *)
(* its state v; the invariant relates it to what is kept.                  *)
(***************************************************************************)
EXTENDS VerifyQueue, SequenceTheorems, FiniteSetTheorems, FunctionTheorems, TLAPS

-----------------------------------------------------------------------------
(* The verifier alone, on its state v.                                      *)
QState == [priority : Seq(Checks), other : Seq(Checks), running : Checks \cup {None},
           senders : [Senders -> [count : Nat, lane : {"Priority", "Other", None}]],
           rate : Nat]

InQueue(v) == ToSet(v.priority) \cup ToSet(v.other)
              \cup (IF v.running = None THEN {} ELSE {v.running})
Runs(v, s) == IF v.running # None /\ v.running.m.from = s THEN 1 ELSE 0

(* The book is exact: the count of every sender, and its lane. *)
Counted(v) ==
    \A s \in Senders :
        v.senders[s].count = Queued(s, v.priority) + Queued(s, v.other) + Runs(v, s)
OneLane(v) ==
    /\ \A q \in ToSet(v.priority) : v.senders[q.m.from].lane = "Priority"
    /\ \A q \in ToSet(v.other) : v.senders[q.m.from].lane = "Other"
    /\ \A s \in Senders : v.senders[s].count > 0 => v.senders[s].lane \in {"Priority", "Other"}

Capped(v) ==
    /\ Len(v.priority) <= PriorityCap /\ Len(v.other) <= OtherCap
    /\ v.rate <= RequestRate
    /\ \A s \in Senders : v.senders[s].count <= SenderCap

Idle(v) == v.running = None => v.priority = <<>> /\ v.other = <<>>

(* Unless the later one is in L, a sender's messages wait in order. *)
LaneInOrder(lane, L) ==
    \A i, j \in DOMAIN lane :
        i < j /\ lane[i].m.from = lane[j].m.from /\ lane[j].m \notin L
            => lane[i].m.n < lane[j].m.n
RunsFirst(v, L) ==
    v.running # None =>
        \A q \in ToSet(v.priority) \cup ToSet(v.other) :
            q.m.from = v.running.m.from /\ q.m \notin L => v.running.m.n < q.m.n
InOrder(v, L) == LaneInOrder(v.priority, L) /\ LaneInOrder(v.other, L) /\ RunsFirst(v, L)

(* A sender whose membership has not changed waits in its own lane. *)
Placed(v) == \A s \in Senders \ moved : v.senders[s].count > 0 => v.senders[s].lane = lane_for(s)

-----------------------------------------------------------------------------
(* What is kept, and what of it waits to be queued again.                   *)
TypeInv ==
    /\ QueueState \in QState
    /\ members \subseteq Senders /\ moved \subseteq Senders /\ seen \subseteq Messages
    /\ kept \in Seq(Messages) /\ backlog \in Seq(Messages) /\ restoring \in BOOLEAN
    /\ budget \in [script : [Senders -> Seq(Kinds)], restarts : Nat, dups : Nat,
                   movers : SUBSET Senders]
    /\ arrived \in [Senders -> Nat] /\ handled \in [Senders -> Seq(Nat)]
    /\ aside \subseteq Messages /\ dropped \subseteq Messages
    /\ late \subseteq Messages /\ unkept \subseteq Messages
    /\ Len(kept) <= KeptCap

QueueInv ==
    Counted(QueueState) /\ OneLane(QueueState) /\ Capped(QueueState) /\ Idle(QueueState)
    /\ Placed(QueueState)

Distinct(seq) == \A i, j \in DOMAIN seq : i # j => seq[i] # seq[j]
ListInOrder(seq) ==
    \A i, j \in DOMAIN seq :
        i < j /\ seq[i].from = seq[j].from /\ seq[j] \notin late => seq[i].n < seq[j].n

Waits(m) == \E q \in InQueue(QueueState) : q.m = m
After(m) == \A i \in DOMAIN handled[m.from] : handled[m.from][i] < m.n

Arrived ==
    /\ \A m \in seen \cup late \cup ToSet(kept) \cup ToSet(backlog) : m.n <= arrived[m.from]
    /\ \A q \in InQueue(QueueState) : q.m \in seen
    /\ \A s \in Senders : \A i \in DOMAIN handled[s] : handled[s][i] <= arrived[s]

Copies ==
    /\ Distinct(kept)
    /\ \A m \in ToSet(kept) : m \in seen \/ m \in ToSet(backlog)
    /\ \A m \in ToSet(kept) \ late : Waits(m) \/ m \in ToSet(backlog)
    /\ \A m \in ToSet(backlog) \ late : restoring /\ m \in ToSet(kept)

Order ==
    /\ InOrder(QueueState, late) /\ ListInOrder(kept) /\ ListInOrder(backlog)
    /\ \A q \in InQueue(QueueState) : q.m \in late \/ After(q.m)
    /\ \A m \in ToSet(backlog) \ late :
        /\ After(m)
        /\ \A q \in InQueue(QueueState) : q.m.from = m.from => q.m.n < m.n

Survival ==
    /\ \A m \in aside : m.from \in members \cup moved
    /\ \A m \in dropped : m.kind = "request" \/ m.from \in moved \/ m.from \notin members
    /\ \A m \in aside \ (dropped \cup unkept) :
        \/ m \in ToSet(kept)
        \/ m.n \in ToSet(handled[m.from])
        \/ m.from \in moved \ members

Inv == TypeInv /\ QueueInv /\ Arrived /\ Copies /\ Order /\ OrderPerSender /\ Survival

-----------------------------------------------------------------------------
(* What appending to a lane, taking its head and removing a message do.     *)
LEMMA AppendFacts ==
    ASSUME NEW S, NEW seq \in Seq(S), NEW e \in S
    PROVE  /\ Append(seq, e) \in Seq(S) /\ Len(Append(seq, e)) = Len(seq) + 1
           /\ \A i \in 1 .. Len(seq) : Append(seq, e)[i] = seq[i]
           /\ Append(seq, e)[Len(seq) + 1] = e
           /\ ToSet(Append(seq, e)) = ToSet(seq) \cup {e}
<1>1. /\ Append(seq, e) \in Seq(S) /\ Len(Append(seq, e)) = Len(seq) + 1
      /\ \A i \in 1 .. Len(seq) : Append(seq, e)[i] = seq[i]
      /\ Append(seq, e)[Len(seq) + 1] = e
      /\ Len(seq) \in Nat
  BY AppendProperties, LenProperties
<1>2. DOMAIN Append(seq, e) = 1 .. (Len(seq) + 1) /\ DOMAIN seq = 1 .. Len(seq)
  BY <1>1, LenProperties
<1>3. ToSet(Append(seq, e)) \subseteq ToSet(seq) \cup {e}
  BY <1>1, <1>2 DEF ToSet
<1>4. ToSet(seq) \cup {e} \subseteq ToSet(Append(seq, e))
  BY <1>1, <1>2 DEF ToSet
<1> QED BY <1>1, <1>3, <1>4

LEMMA TailFacts ==
    ASSUME NEW S, NEW seq \in Seq(S), seq # <<>>
    PROVE  /\ Tail(seq) \in Seq(S) /\ Len(Tail(seq)) = Len(seq) - 1 /\ Len(seq) \in Nat \ {0}
           /\ Head(seq) \in S /\ Head(seq) = seq[1]
           /\ \A i \in 1 .. (Len(seq) - 1) : Tail(seq)[i] = seq[i + 1]
           /\ ToSet(seq) = {Head(seq)} \cup ToSet(Tail(seq))
<1>1. /\ Tail(seq) \in Seq(S) /\ Len(Tail(seq)) = Len(seq) - 1 /\ Len(seq) \in Nat \ {0}
      /\ Head(seq) \in S /\ Head(seq) = seq[1]
      /\ \A i \in 1 .. (Len(seq) - 1) : Tail(seq)[i] = seq[i + 1]
  BY HeadTailProperties, LenProperties, EmptySeq
<1>2. DOMAIN Tail(seq) = 1 .. (Len(seq) - 1) /\ DOMAIN seq = 1 .. Len(seq)
  BY <1>1, LenProperties
<1>3. {Head(seq)} \cup ToSet(Tail(seq)) \subseteq ToSet(seq)
  <2>1. \A i \in 1 .. (Len(seq) - 1) : i + 1 \in 1 .. Len(seq)
    BY <1>1
  <2> QED BY <1>1, <1>2, <2>1 DEF ToSet
<1>4. ASSUME NEW e \in ToSet(seq), e # Head(seq) PROVE e \in ToSet(Tail(seq))
  <2>1. PICK i \in 1 .. Len(seq) : seq[i] = e
    BY <1>2 DEF ToSet
  <2>2. i - 1 \in 1 .. (Len(seq) - 1) /\ (i - 1) + 1 = i
    BY <1>1, <1>4, <2>1
  <2>3. Tail(seq)[i - 1] = e
    BY <1>1, <2>1, <2>2
  <2> QED BY <1>2, <2>2, <2>3 DEF ToSet
<1> QED BY <1>1, <1>3, <1>4

LEMMA MemberFacts ==
    ASSUME NEW S, NEW seq \in Seq(S)
    PROVE  /\ DOMAIN seq = 1 .. Len(seq) /\ Len(seq) \in Nat
           /\ \A e \in ToSet(seq) : e \in S /\ \E i \in 1 .. Len(seq) : seq[i] = e
           /\ \A i \in 1 .. Len(seq) : seq[i] \in ToSet(seq) /\ seq[i] \in S
BY LenProperties, ElementOfSeq DEF ToSet

LEMMA EmptyFacts ==
    ASSUME NEW S
    PROVE  <<>> \in Seq(S) /\ Len(<<>>) = 0 /\ ToSet(<<>>) = {} /\ DOMAIN <<>> = {}
BY EmptySeq DEF ToSet

(* Of distinct messages, one is removed and the others keep their order.    *)
LEMMA RemoveFacts ==
    ASSUME NEW S, NEW seq \in Seq(S), Distinct(seq), NEW e
    PROVE  /\ RemoveFirst(seq, e) \in Seq(S) /\ Len(RemoveFirst(seq, e)) <= Len(seq)
           /\ ToSet(RemoveFirst(seq, e)) = ToSet(seq) \ {e}
           /\ e \in ToSet(seq) => Len(RemoveFirst(seq, e)) < Len(seq)
           /\ \A i, j \in DOMAIN RemoveFirst(seq, e) : i < j =>
                 \E a, b \in DOMAIN seq : /\ a < b /\ RemoveFirst(seq, e)[i] = seq[a]
                                          /\ RemoveFirst(seq, e)[j] = seq[b]
<1> DEFINE r == RemoveFirst(seq, e)
<1>0. DOMAIN seq = 1 .. Len(seq) /\ Len(seq) \in Nat
  BY MemberFacts
<1>1. CASE ~ \E i \in 1 .. Len(seq) : seq[i] = e
  <2>1. r = seq
    BY <1>1 DEF RemoveFirst
  <2>2. e \notin ToSet(seq)
    BY <1>0, <1>1 DEF ToSet
  <2> QED BY <1>0, <2>1, <2>2
<1>2. CASE \E i \in 1 .. Len(seq) : seq[i] = e
  <2>1. PICK p \in 1 .. Len(seq) : seq[p] = e
    BY <1>2
  <2>2. {i \in 1 .. Len(seq) : seq[i] = e} = {p}
    BY <1>0, <2>1 DEF Distinct
  <2>3. r = SubSeq(seq, 1, p - 1) \o SubSeq(seq, p + 1, Len(seq))
    <3>1. r = LET j == CHOOSE i \in {p} : \A y \in {p} : i =< y
              IN SubSeq(seq, 1, j - 1) \o SubSeq(seq, j + 1, Len(seq))
      BY <1>2, <2>2 DEF RemoveFirst, RemoveAt, SelectInSeq, Min
    <3>2. (CHOOSE i \in {p} : \A y \in {p} : i =< y) = p
      BY <2>1, <1>0
    <3> QED BY <3>1, <3>2
  <2> HIDE DEF r
  <2>4. /\ r \in Seq(S) /\ Len(r) = Len(seq) - 1
        /\ \A i \in 1 .. (Len(seq) - 1) : r[i] = IF i < p THEN seq[i] ELSE seq[i + 1]
    <3> DEFINE a == SubSeq(seq, 1, p - 1)
               b == SubSeq(seq, p + 1, Len(seq))
    <3>1. /\ a \in Seq(S) /\ Len(a) = p - 1 /\ \A i \in 1 .. (p - 1) : a[i] = seq[i]
          /\ p - 1 \in Nat
      <4>1. /\ 1 \in 1 .. (Len(seq) + 1) /\ p - 1 \in 0 .. Len(seq) /\ p - 1 \in Nat
            /\ p - 1 + 1 - 1 = p - 1
            /\ (1 <= p - 1 => p - 1 - 1 + 1 = p - 1) /\ (~(1 <= p - 1) => p - 1 = 0)
        BY <1>0, <2>1
      <4>2. /\ a \in Seq(S) /\ Len(a) = (IF 1 <= p - 1 THEN (p - 1) - 1 + 1 ELSE 0)
            /\ \A i \in 1 .. (p - 1) - 1 + 1 : a[i] = seq[1 + i - 1]
        BY <4>1, SubSeqProperties
      <4>3. \A i \in 1 .. (p - 1) : i \in 1 .. (p - 1) - 1 + 1 /\ 1 + i - 1 = i
        BY <4>1
      <4> QED BY <4>1, <4>2, <4>3
    <3>2. /\ b \in Seq(S) /\ Len(b) = Len(seq) - p
          /\ \A i \in 1 .. (Len(seq) - p) : b[i] = seq[p + i]
      <4>1. p + 1 \in 1 .. (Len(seq) + 1) /\ Len(seq) \in 0 .. Len(seq)
        BY <1>0, <2>1
      <4>2. /\ b \in Seq(S)
            /\ Len(b) = (IF p + 1 <= Len(seq) THEN Len(seq) - (p + 1) + 1 ELSE 0)
            /\ \A i \in 1 .. Len(seq) - (p + 1) + 1 : b[i] = seq[(p + 1) + i - 1]
        BY <4>1, SubSeqProperties
      <4>3. \A i \in 1 .. (Len(seq) - p) :
                i \in 1 .. Len(seq) - (p + 1) + 1 /\ (p + 1) + i - 1 = p + i
        BY <1>0, <2>1
      <4>4. \A l \in Nat : \A x \in 1 .. l : (IF x + 1 <= l THEN l - (x + 1) + 1 ELSE 0) = l - x
        OBVIOUS
      <4>6. (IF p + 1 <= Len(seq) THEN Len(seq) - (p + 1) + 1 ELSE 0) = Len(seq) - p
        BY <1>0, <4>4
      <4> HIDE DEF b
      <4>5. ASSUME NEW i \in 1 .. (Len(seq) - p) PROVE b[i] = seq[p + i]
        BY <4>2, <4>3
      <4> QED BY <4>2, <4>5, <4>6
    <3> HIDE DEF a, b
    <3>3. /\ a \o b \in Seq(S) /\ Len(a \o b) = Len(a) + Len(b)
          /\ \A i \in 1 .. Len(a) + Len(b) :
                (a \o b)[i] = IF i <= Len(a) THEN a[i] ELSE b[i - Len(a)]
      BY <3>1, <3>2, ConcatProperties
    <3>4. r = a \o b
      BY <2>3 DEF a, b
    <3>5. ASSUME NEW i \in 1 .. (Len(seq) - 1)
          PROVE  r[i] = IF i < p THEN seq[i] ELSE seq[i + 1]
      <4>1. CASE i < p
        <5>1. i \in 1 .. (p - 1) /\ i \in 1 .. (p - 1) + (Len(seq) - p) /\ i <= p - 1
          BY <1>0, <2>1, <4>1
        <5> QED BY <3>1, <3>2, <3>3, <3>4, <4>1, <5>1
      <4>2. CASE ~(i < p)
        <5>1. /\ i - (p - 1) \in 1 .. (Len(seq) - p) /\ p + (i - (p - 1)) = i + 1
              /\ i \in 1 .. (p - 1) + (Len(seq) - p) /\ ~(i <= p - 1)
          BY <1>0, <2>1, <4>2
        <5> QED BY <3>1, <3>2, <3>3, <3>4, <4>2, <5>1
      <4> QED BY <4>1, <4>2
    <3>6. (p - 1) + (Len(seq) - p) = Len(seq) - 1
      BY <1>0, <2>1
    <3>7. r \in Seq(S) /\ Len(r) = Len(seq) - 1
      BY <3>1, <3>2, <3>3, <3>4, <3>6
    <3> QED BY <3>5, <3>7
  <2>5. DOMAIN r = 1 .. (Len(seq) - 1)
    BY <2>4, MemberFacts
  <2>6. \A i \in DOMAIN r : \E a \in DOMAIN seq :
            a = (IF i < p THEN i ELSE i + 1) /\ a # p /\ r[i] = seq[a]
    BY <1>0, <2>1, <2>4, <2>5
  <2>7. \A i, j \in DOMAIN r : i < j =>
            \E a, b \in DOMAIN seq : a < b /\ r[i] = seq[a] /\ r[j] = seq[b]
    <3> TAKE i, j \in DOMAIN r
    <3> HAVE i < j
    <3>1. PICK a \in DOMAIN seq : a = (IF i < p THEN i ELSE i + 1) /\ r[i] = seq[a]
      BY <2>6
    <3>2. PICK b \in DOMAIN seq : b = (IF j < p THEN j ELSE j + 1) /\ r[j] = seq[b]
      BY <2>6
    <3>3. a < b
      BY <1>0, <2>1, <2>5, <3>1, <3>2
    <3> QED BY <3>1, <3>2, <3>3
  <2>8. ToSet(r) = ToSet(seq) \ {e}
    <3>1. ASSUME NEW x \in ToSet(r) PROVE x \in ToSet(seq) \ {e}
      <4>1. PICK i \in DOMAIN r : x = r[i]
        BY DEF ToSet
      <4>2. PICK a \in DOMAIN seq : a # p /\ x = seq[a]
        BY <2>6, <4>1
      <4> QED BY <4>2, <2>1, <1>0 DEF ToSet, Distinct
    <3>2. ASSUME NEW x \in ToSet(seq), x # e PROVE x \in ToSet(r)
      <4>1. PICK a \in 1 .. Len(seq) : x = seq[a]
        BY <1>0 DEF ToSet
      <4>2. a # p
        BY <4>1, <3>2, <2>1
      <4>3. CASE a < p
        <5>1. a \in 1 .. (Len(seq) - 1) /\ r[a] = x
          BY <4>1, <4>3, <2>1, <2>4, <1>0
        <5> QED BY <5>1, <2>5 DEF ToSet
      <4>4. CASE a > p
        <5>1. a - 1 \in 1 .. (Len(seq) - 1) /\ ~(a - 1 < p) /\ (a - 1) + 1 = a
          BY <4>1, <4>4, <2>1, <1>0
        <5>2. r[a - 1] = x
          BY <5>1, <2>4, <4>1
        <5> QED BY <5>1, <5>2, <2>5 DEF ToSet
      <4> QED BY <4>2, <4>3, <4>4, <4>1, <2>1
    <3> QED BY <3>1, <3>2
  <2> QED BY <1>0, <2>4, <2>7, <2>8 DEF r
<1> QED BY <1>1, <1>2

(* The number of messages of a sender in a lane. *)
LEMMA CountAppend ==
    ASSUME NEW lane \in Seq(Checks), NEW q \in Checks, NEW s
    PROVE  /\ Queued(s, lane) \in Nat
           /\ Queued(s, Append(lane, q)) = Queued(s, lane) + (IF q.m.from = s THEN 1 ELSE 0)
<1> DEFINE P(l) == {i \in DOMAIN l : l[i].m.from = s}
           n == Len(lane) + 1
<1>1. /\ DOMAIN lane = 1 .. Len(lane) /\ DOMAIN Append(lane, q) = 1 .. n /\ Len(lane) \in Nat
      /\ \A i \in 1 .. Len(lane) : Append(lane, q)[i] = lane[i]
      /\ Append(lane, q)[n] = q
  BY AppendFacts, MemberFacts
<1>2. IsFiniteSet(P(lane)) /\ Cardinality(P(lane)) \in Nat
  <2>1. IsFiniteSet(1 .. Len(lane)) /\ P(lane) \subseteq 1 .. Len(lane)
    BY <1>1, FS_Interval
  <2> QED BY <2>1, FS_Subset, FS_CardinalityType
<1>3. n \notin P(lane)
  BY <1>1
<1>4. CASE q.m.from = s
  <2>1. P(Append(lane, q)) = P(lane) \cup {n}
    BY <1>1, <1>4
  <2>2. Cardinality(P(lane) \cup {n}) = Cardinality(P(lane)) + 1
    BY <1>2, <1>3, FS_AddElement
  <2> QED BY <1>2, <1>4, <2>1, <2>2 DEF Queued
<1>5. CASE q.m.from # s
  <2>1. P(Append(lane, q)) = P(lane)
    BY <1>1, <1>5
  <2>2. Queued(s, Append(lane, q)) = Queued(s, lane) /\ Queued(s, lane) \in Nat
    BY <1>2, <2>1 DEF Queued
  <2> QED BY <1>5, <2>2
<1> QED BY <1>4, <1>5

LEMMA CountTail ==
    ASSUME NEW lane \in Seq(Checks), lane # <<>>, NEW s
    PROVE  /\ Queued(s, Tail(lane)) \in Nat
           /\ Queued(s, lane) = Queued(s, Tail(lane)) + (IF Head(lane).m.from = s THEN 1 ELSE 0)
<1> DEFINE P(l) == {i \in DOMAIN l : l[i].m.from = s}
           T == P(lane) \ {1}
           f == [i \in P(Tail(lane)) |-> i + 1]
<1>1. /\ DOMAIN lane = 1 .. Len(lane) /\ DOMAIN Tail(lane) = 1 .. (Len(lane) - 1)
      /\ Len(lane) \in Nat \ {0} /\ Head(lane) = lane[1] /\ Tail(lane) \in Seq(Checks)
      /\ \A i \in 1 .. (Len(lane) - 1) : Tail(lane)[i] = lane[i + 1]
  BY TailFacts, MemberFacts
<1>2. IsFiniteSet(P(lane)) /\ IsFiniteSet(P(Tail(lane))) /\ Cardinality(P(Tail(lane))) \in Nat
  <2>1. /\ IsFiniteSet(1 .. Len(lane)) /\ P(lane) \subseteq 1 .. Len(lane)
        /\ P(Tail(lane)) \subseteq 1 .. Len(lane)
    BY <1>1, FS_Interval
  <2> QED BY <2>1, FS_Subset, FS_CardinalityType
<1>3. f \in Bijection(P(Tail(lane)), T)
  <2>1. f \in [P(Tail(lane)) -> T]
    BY <1>1
  <2>2. \A i, j \in P(Tail(lane)) : f[i] = f[j] => i = j
    BY <1>1
  <2>3. \A t \in T : \E i \in P(Tail(lane)) : f[i] = t
    <3> TAKE t \in T
    <3>1. t - 1 \in 1 .. (Len(lane) - 1) /\ (t - 1) + 1 = t
      BY <1>1
    <3>2. t - 1 \in P(Tail(lane)) /\ f[t - 1] = t
      BY <1>1, <3>1
    <3> QED BY <3>2
  <2> QED BY <2>1, <2>2, <2>3, Fun_IsBij
<1>4. Cardinality(T) = Cardinality(P(Tail(lane)))
  BY <1>2, <1>3, FS_Bijection DEF ExistsBijection
<1>5. CASE Head(lane).m.from = s
  <2>0. IsFiniteSet(T)
    BY <1>2, FS_RemoveElement
  <2>1. P(lane) = T \cup {1} /\ 1 \notin T /\ IsFiniteSet(T)
    BY <1>1, <1>5, <2>0
  <2>2. Cardinality(P(lane)) = Cardinality(T) + 1
    BY <2>1, FS_AddElement
  <2> QED BY <1>2, <1>4, <1>5, <2>2 DEF Queued
<1>6. CASE Head(lane).m.from # s
  <2>1. P(lane) = T
    BY <1>1, <1>6
  <2>2. Queued(s, lane) = Queued(s, Tail(lane)) /\ Queued(s, Tail(lane)) \in Nat
    BY <1>2, <1>4, <2>1 DEF Queued
  <2> QED BY <1>6, <2>2
<1> QED BY <1>5, <1>6

LEMMA CountEmpty == ASSUME NEW s PROVE Queued(s, <<>>) = 0
<1>1. {i \in DOMAIN <<>> : <<>>[i].m.from = s} = {}
  BY EmptyFacts
<1> QED BY <1>1, FS_EmptySet DEF Queued

LEMMA CountSome ==
    ASSUME NEW lane \in Seq(Checks), NEW q \in ToSet(lane)
    PROVE  Queued(q.m.from, lane) \in Nat /\ Queued(q.m.from, lane) > 0
<1> DEFINE P == {i \in DOMAIN lane : lane[i].m.from = q.m.from}
<1>0. DOMAIN lane = 1 .. Len(lane) /\ Len(lane) \in Nat
  BY MemberFacts
<1>1. PICK i \in DOMAIN lane : lane[i] = q
  BY DEF ToSet
<1>2. IsFiniteSet(P) /\ P # {}
  <2>1. IsFiniteSet(1 .. Len(lane)) /\ P \subseteq 1 .. Len(lane)
    BY <1>0, FS_Interval
  <2>2. IsFiniteSet(P)
    BY <2>1, FS_Subset
  <2> QED BY <1>1, <2>2
<1>3. Cardinality(P) \in Nat /\ Cardinality(P) # 0
  BY <1>2, FS_EmptySet, FS_CardinalityType
<1>4. Queued(q.m.from, lane) = Cardinality(P)
  BY DEF Queued
<1> QED BY <1>3, <1>4

-----------------------------------------------------------------------------
(* The verifier's operations, before the next check starts.                 *)
Joined(v, q, at) ==
    [v EXCEPT !.priority = IF at = "Priority" THEN Append(@, q) ELSE @,
              !.other = IF at = "Other" THEN Append(@, q) ELSE @,
              !.senders[q.m.from] = [count |-> @.count + 1, lane |-> at],
              !.rate = IF IsRequest(q) THEN @ + 1 ELSE @]

Left(v) ==
    LET s == v.running.m.from
        n == v.senders[s].count - 1
    IN [v EXCEPT !.running = None,
                 !.senders[s] = IF n = 0 THEN NoLane ELSE [@ EXCEPT !.count = n]]

LaneNames == {"Priority", "Other"}

LEMMA QStateFields ==
    ASSUME NEW v \in QState
    PROVE  /\ v.priority \in Seq(Checks) /\ v.other \in Seq(Checks) /\ v.rate \in Nat
           /\ v.running \in Checks \cup {None}
           /\ v.senders \in [Senders -> [count : Nat, lane : {"Priority", "Other", None}]]
           /\ None \notin Checks
BY VerifyQueueAssumption DEF QState

LEMMA CheckFields ==
    ASSUME NEW q \in Checks
    PROVE  /\ q.m \in Messages /\ q.check \in BOOLEAN /\ q.m.from \in Senders
           /\ q.m.n \in Nat \ {0} /\ q.m.kind \in Kinds /\ q # None
BY VerifyQueueAssumption DEF Checks, Messages

LEMMA StartNext ==
    ASSUME NEW v \in QState
    PROVE  LET w == start_next(v)
           IN /\ w \in QState /\ w.senders = v.senders /\ w.rate = v.rate
              /\ v.running # None => w = v
              /\ v.running = None /\ v.priority # <<>> =>
                    /\ w.running = Head(v.priority) /\ w.priority = Tail(v.priority)
                    /\ w.other = v.other /\ w.running \in Checks
              /\ v.running = None /\ v.priority = <<>> /\ v.other # <<>> =>
                    /\ w.running = Head(v.other) /\ w.other = Tail(v.other)
                    /\ w.priority = v.priority /\ w.running \in Checks
              /\ v.running = None /\ v.priority = <<>> /\ v.other = <<>> => w = v
<1> DEFINE w == start_next(v)
<1>0. /\ v.priority # <<>> => Head(v.priority) \in Checks /\ Tail(v.priority) \in Seq(Checks)
      /\ v.other # <<>> => Head(v.other) \in Checks /\ Tail(v.other) \in Seq(Checks)
  BY QStateFields, TailFacts
<1>1. CASE v.running # None
  BY <1>1 DEF start_next
<1>2. CASE v.running = None /\ v.priority # <<>>
  <2>1. w = [v EXCEPT !.running = Head(v.priority), !.priority = Tail(v.priority)]
    BY <1>2 DEF start_next
  <2> HIDE DEF w
  <2>2. /\ w \in QState /\ w.senders = v.senders /\ w.rate = v.rate /\ w.other = v.other
        /\ w.running = Head(v.priority) /\ w.priority = Tail(v.priority)
    BY <1>0, <1>2, <2>1 DEF QState
  <2> QED BY <1>0, <1>2, <2>2 DEF w
<1>3. CASE v.running = None /\ v.priority = <<>> /\ v.other # <<>>
  <2>1. w = [v EXCEPT !.running = Head(v.other), !.other = Tail(v.other)]
    BY <1>3 DEF start_next
  <2> HIDE DEF w
  <2>2. /\ w \in QState /\ w.senders = v.senders /\ w.rate = v.rate /\ w.priority = v.priority
        /\ w.running = Head(v.other) /\ w.other = Tail(v.other)
    BY <1>0, <1>3, <2>1 DEF QState
  <2> QED BY <1>0, <1>3, <2>2 DEF w
<1>4. CASE v.running = None /\ v.priority = <<>> /\ v.other = <<>>
  BY <1>4 DEF start_next
<1> QED BY <1>1, <1>2, <1>3, <1>4

LEMMA JoinedIs ==
    ASSUME NEW v \in QState, NEW q \in Checks, NEW lane \in LaneNames,
           NEW at, at = LaneOf(v, q.m.from, lane), at \in LaneNames
    PROVE  LET j == Joined(v, q, at)
           IN /\ enqueue(v, q, lane) = start_next(j) /\ j \in QState /\ j.running = v.running
              /\ j.priority = IF at = "Priority" THEN Append(v.priority, q) ELSE v.priority
              /\ j.other = IF at = "Other" THEN Append(v.other, q) ELSE v.other
              /\ j.senders = [v.senders EXCEPT
                                 ![q.m.from] = [count |-> v.senders[q.m.from].count + 1,
                                                lane |-> at]]
              /\ j.rate = IF IsRequest(q) THEN v.rate + 1 ELSE v.rate
<1> DEFINE j == Joined(v, q, at)
           p == IF at = "Priority" THEN Append(v.priority, q) ELSE v.priority
           o == IF at = "Other" THEN Append(v.other, q) ELSE v.other
           c == [count |-> v.senders[q.m.from].count + 1, lane |-> at]
           ra == IF IsRequest(q) THEN v.rate + 1 ELSE v.rate
<1>0. /\ q.m.from \in Senders
      /\ v.senders \in [Senders -> [count : Nat, lane : {"Priority", "Other", None}]]
  BY CheckFields, QStateFields
<1>1. p \in Seq(Checks) /\ o \in Seq(Checks) /\ ra \in Nat
  <2>1. Append(v.priority, q) \in Seq(Checks) /\ Append(v.other, q) \in Seq(Checks)
    BY QStateFields, AppendFacts
  <2>2. v.rate + 1 \in Nat /\ v.rate \in Nat
    BY QStateFields
  <2> QED BY <2>1, <2>2, QStateFields
<1>2. c \in [count : Nat, lane : {"Priority", "Other", None}]
  BY <1>0 DEF LaneNames
<1>3. enqueue(v, q, lane) = start_next(j)
  BY DEF enqueue, Joined
<1>4. j = [v EXCEPT !.priority = p, !.other = o, !.senders[q.m.from] = c, !.rate = ra]
  BY DEF Joined
<1> HIDE DEF j, p, o, c, ra
<1>5. [v.senders EXCEPT ![q.m.from] = c]
          \in [Senders -> [count : Nat, lane : {"Priority", "Other", None}]]
  BY <1>0, <1>2
<1>6. /\ j \in QState /\ j.running = v.running /\ j.priority = p /\ j.other = o
      /\ j.senders = [v.senders EXCEPT ![q.m.from] = c] /\ j.rate = ra
  BY <1>1, <1>4, <1>5 DEF QState
<1> QED BY <1>3, <1>6 DEF j, p, o, c, ra

LEMMA LeftIs ==
    ASSUME NEW v \in QState, v.running # None, v.senders[v.running.m.from].count > 0
    PROVE  LET w == Left(v)
               s == v.running.m.from
               n == v.senders[s].count - 1
           IN /\ finished(v) = start_next(w) /\ w \in QState /\ w.running = None
              /\ w.priority = v.priority /\ w.other = v.other /\ w.rate = v.rate
              /\ \A t \in Senders \ {s} : w.senders[t] = v.senders[t]
              /\ s \in Senders /\ w.senders[s].count = n
              /\ n > 0 => w.senders[s].lane = v.senders[s].lane
<1> DEFINE w == Left(v)
           s == v.running.m.from
           n == v.senders[s].count - 1
           c == IF n = 0 THEN NoLane ELSE [v.senders[s] EXCEPT !.count = n]
<1>0. s \in Senders /\ n \in Nat /\ v.senders[s] \in [count : Nat, lane : {"Priority", "Other", None}]
  BY QStateFields, CheckFields
<1>1. finished(v) = start_next(w)
  BY DEF finished, Left
<1>2. /\ c \in [count : Nat, lane : {"Priority", "Other", None}] /\ c.count = n
      /\ n > 0 => c.lane = v.senders[s].lane
  <2>1. NoLane \in [count : Nat, lane : {"Priority", "Other", None}] /\ NoLane.count = 0
    BY DEF NoLane
  <2> HIDE DEF n, s
  <2>2. /\ [v.senders[s] EXCEPT !.count = n] \in [count : Nat, lane : {"Priority", "Other", None}]
        /\ [v.senders[s] EXCEPT !.count = n].count = n
        /\ [v.senders[s] EXCEPT !.count = n].lane = v.senders[s].lane
    BY <1>0
  <2> QED BY <1>0, <2>1, <2>2
<1>3. w = [v EXCEPT !.running = None, !.senders[s] = c]
  BY DEF Left
<1> HIDE DEF w, c, n, s
<1>4. [v.senders EXCEPT ![s] = c]
          \in [Senders -> [count : Nat, lane : {"Priority", "Other", None}]]
  BY <1>0, <1>2, QStateFields
<1>5. /\ w \in QState /\ w.running = None /\ w.priority = v.priority /\ w.other = v.other
      /\ w.senders = [v.senders EXCEPT ![s] = c] /\ w.rate = v.rate
  BY <1>3, <1>4 DEF QState
<1>6. /\ w.senders[s] = c /\ \A t \in Senders \ {s} : w.senders[t] = v.senders[t]
  BY <1>0, <1>5, QStateFields
<1> QED BY <1>0, <1>1, <1>2, <1>5, <1>6 DEF w, s, n

LEMMA CountNat ==
    ASSUME NEW lane \in Seq(Checks), NEW s PROVE Queued(s, lane) \in Nat
<1>0. DOMAIN lane = 1 .. Len(lane) /\ Len(lane) \in Nat
  BY MemberFacts
<1>1. IsFiniteSet(1 .. Len(lane)) /\ {i \in DOMAIN lane : lane[i].m.from = s} \subseteq 1 .. Len(lane)
  BY <1>0, FS_Interval
<1>2. IsFiniteSet({i \in DOMAIN lane : lane[i].m.from = s})
  BY <1>1, FS_Subset
<1> QED BY <1>2, FS_CardinalityType DEF Queued

(* Starting the next check keeps what is queued, the book and the caps.     *)
LEMMA StartQueue ==
    ASSUME NEW v \in QState
    PROVE  LET w == start_next(v)
           IN /\ InQueue(w) = InQueue(v) /\ Idle(w)
              /\ OneLane(v) => OneLane(w)
              /\ Capped(v) => Capped(w)
<1> DEFINE w == start_next(v)
<1>0. w \in QState /\ w.senders = v.senders /\ w.rate = v.rate
  BY StartNext
<1>1. CASE v.running # None
  <2>1. w = v
    BY <1>1, StartNext
  <2> HIDE DEF w
  <2> QED BY <1>1, <2>1 DEF Idle, w
<1>2. CASE v.running = None /\ v.priority # <<>>
  <2>1. /\ w.running = Head(v.priority) /\ w.priority = Tail(v.priority)
        /\ w.other = v.other /\ w.running \in Checks
    BY <1>2, StartNext
  <2>2. /\ ToSet(v.priority) = {Head(v.priority)} \cup ToSet(Tail(v.priority))
        /\ Len(Tail(v.priority)) = Len(v.priority) - 1 /\ Len(v.priority) \in Nat
    BY <1>2, TailFacts, QStateFields
  <2>3. w.running # None
    BY <2>1, CheckFields
  <2> HIDE DEF w
  <2>4. InQueue(w) = InQueue(v)
    BY <1>2, <2>1, <2>2, <2>3 DEF InQueue
  <2>5. OneLane(v) => OneLane(w)
    BY <1>0, <2>1, <2>2 DEF OneLane
  <2>6. Capped(v) => Capped(w)
    <3>1. PriorityCap \in Nat
      BY VerifyQueueAssumption
    <3> QED BY <1>0, <2>1, <2>2, <3>1 DEF Capped
  <2> QED BY <2>3, <2>4, <2>5, <2>6 DEF Idle, w
<1>3. CASE v.running = None /\ v.priority = <<>> /\ v.other # <<>>
  <2>1. /\ w.running = Head(v.other) /\ w.other = Tail(v.other)
        /\ w.priority = v.priority /\ w.running \in Checks
    BY <1>3, StartNext
  <2>2. /\ ToSet(v.other) = {Head(v.other)} \cup ToSet(Tail(v.other))
        /\ Len(Tail(v.other)) = Len(v.other) - 1 /\ Len(v.other) \in Nat
    BY <1>3, TailFacts, QStateFields
  <2>3. w.running # None
    BY <2>1, CheckFields
  <2> HIDE DEF w
  <2>4. InQueue(w) = InQueue(v)
    BY <1>3, <2>1, <2>2, <2>3 DEF InQueue
  <2>5. OneLane(v) => OneLane(w)
    BY <1>0, <2>1, <2>2 DEF OneLane
  <2>6. Capped(v) => Capped(w)
    <3>1. OtherCap \in Nat
      BY VerifyQueueAssumption
    <3> QED BY <1>0, <2>1, <2>2, <3>1 DEF Capped
  <2> QED BY <2>3, <2>4, <2>5, <2>6 DEF Idle, w
<1>4. CASE v.running = None /\ v.priority = <<>> /\ v.other = <<>>
  <2>1. w = v
    BY <1>4, StartNext
  <2> HIDE DEF w
  <2> QED BY <1>4, <2>1 DEF Idle, w
<1> QED BY <1>1, <1>2, <1>3, <1>4

LEMMA StartCounted ==
    ASSUME NEW v \in QState, Counted(v)
    PROVE  Counted(start_next(v))
<1> DEFINE w == start_next(v)
<1>0. w \in QState /\ w.senders = v.senders
  BY StartNext
<1>1. CASE v.running = None /\ v.priority # <<>>
  <2>1. /\ w.running = Head(v.priority) /\ w.priority = Tail(v.priority)
        /\ w.other = v.other /\ w.running # None
    BY <1>1, StartNext, CheckFields
  <2> HIDE DEF w
  <2>2. ASSUME NEW s \in Senders
        PROVE  w.senders[s].count = Queued(s, w.priority) + Queued(s, w.other) + Runs(w, s)
    <3>1. /\ Queued(s, w.priority) \in Nat
          /\ Queued(s, v.priority) = Queued(s, w.priority)
                                     + (IF w.running.m.from = s THEN 1 ELSE 0)
      BY <1>1, <2>1, CountTail, QStateFields
    <3>2. Queued(s, v.other) \in Nat
      BY CountNat, QStateFields
    <3>3. v.senders[s].count = Queued(s, v.priority) + Queued(s, v.other) + 0
      BY <1>1 DEF Counted, Runs
    <3>4. Runs(w, s) = IF w.running.m.from = s THEN 1 ELSE 0
      BY <2>1 DEF Runs
    <3> QED BY <1>0, <2>1, <3>1, <3>2, <3>3, <3>4
  <2> QED BY <2>2 DEF Counted, w
<1>2. CASE v.running = None /\ v.priority = <<>> /\ v.other # <<>>
  <2>1. /\ w.running = Head(v.other) /\ w.other = Tail(v.other)
        /\ w.priority = v.priority /\ w.running # None
    BY <1>2, StartNext, CheckFields
  <2> HIDE DEF w
  <2>2. ASSUME NEW s \in Senders
        PROVE  w.senders[s].count = Queued(s, w.priority) + Queued(s, w.other) + Runs(w, s)
    <3>1. /\ Queued(s, w.other) \in Nat
          /\ Queued(s, v.other) = Queued(s, w.other)
                                  + (IF w.running.m.from = s THEN 1 ELSE 0)
      BY <1>2, <2>1, CountTail, QStateFields
    <3>2. Queued(s, v.priority) \in Nat
      BY CountNat, QStateFields
    <3>3. v.senders[s].count = Queued(s, v.priority) + Queued(s, v.other) + 0
      BY <1>2 DEF Counted, Runs
    <3>4. Runs(w, s) = IF w.running.m.from = s THEN 1 ELSE 0
      BY <2>1 DEF Runs
    <3> QED BY <1>0, <2>1, <3>1, <3>2, <3>3, <3>4
  <2> QED BY <2>2 DEF Counted, w
<1>3. CASE v.running # None \/ (v.priority = <<>> /\ v.other = <<>>)
  <2>1. w = v
    BY <1>3, StartNext
  <2> QED BY <2>1
<1> QED BY <1>1, <1>2, <1>3

(* The head of a lane comes before the rest of it, and so do those of its   *)
(* sender, which all wait in that lane.                                     *)
LEMMA HeadFirst ==
    ASSUME NEW lane \in Seq(Checks), lane # <<>>, NEW L, LaneInOrder(lane, L)
    PROVE  /\ LaneInOrder(Tail(lane), L)
           /\ \A q \in ToSet(Tail(lane)) :
                 q.m.from = Head(lane).m.from /\ q.m \notin L => Head(lane).m.n < q.m.n
<1>1. /\ DOMAIN lane = 1 .. Len(lane) /\ DOMAIN Tail(lane) = 1 .. (Len(lane) - 1)
      /\ Len(lane) \in Nat \ {0} /\ Head(lane) = lane[1]
      /\ \A i \in 1 .. (Len(lane) - 1) : Tail(lane)[i] = lane[i + 1]
  BY TailFacts, MemberFacts
<1>2. LaneInOrder(Tail(lane), L)
  <2> SUFFICES ASSUME NEW i \in DOMAIN Tail(lane), NEW j \in DOMAIN Tail(lane),
                      i < j, Tail(lane)[i].m.from = Tail(lane)[j].m.from,
                      Tail(lane)[j].m \notin L
               PROVE  Tail(lane)[i].m.n < Tail(lane)[j].m.n
    BY DEF LaneInOrder
  <2>1. i + 1 \in DOMAIN lane /\ j + 1 \in DOMAIN lane /\ i + 1 < j + 1
    BY <1>1
  <2>2. Tail(lane)[i] = lane[i + 1] /\ Tail(lane)[j] = lane[j + 1]
    BY <1>1
  <2> QED BY <2>1, <2>2 DEF LaneInOrder
<1>3. ASSUME NEW q \in ToSet(Tail(lane)), q.m.from = Head(lane).m.from, q.m \notin L
      PROVE  Head(lane).m.n < q.m.n
  <2>1. PICK i \in DOMAIN Tail(lane) : Tail(lane)[i] = q
    BY DEF ToSet
  <2>2. i + 1 \in DOMAIN lane /\ 1 \in DOMAIN lane /\ 1 < i + 1 /\ lane[i + 1] = q
    BY <1>1, <2>1
  <2> QED BY <1>1, <1>3, <2>2 DEF LaneInOrder
<1> QED BY <1>2, <1>3

LEMMA StartInOrder ==
    ASSUME NEW v \in QState, OneLane(v), NEW L, InOrder(v, L)
    PROVE  InOrder(start_next(v), L)
<1> DEFINE w == start_next(v)
<1>0. w \in QState
  BY StartNext
<1>1. CASE v.running = None /\ v.priority # <<>>
  <2>1. /\ w.running = Head(v.priority) /\ w.priority = Tail(v.priority) /\ w.other = v.other
    BY <1>1, StartNext
  <2> HIDE DEF w
  <2>2. /\ LaneInOrder(w.priority, L)
        /\ \A q \in ToSet(w.priority) :
              q.m.from = w.running.m.from /\ q.m \notin L => w.running.m.n < q.m.n
    BY <1>1, <2>1, HeadFirst, QStateFields DEF InOrder
  <2>3. \A q \in ToSet(w.other) : q.m.from # w.running.m.from
    <3>1. Head(v.priority) \in ToSet(v.priority)
      BY <1>1, TailFacts, QStateFields
    <3> QED BY <2>1, <3>1 DEF OneLane
  <2> QED BY <2>1, <2>2, <2>3 DEF InOrder, RunsFirst, w
<1>2. CASE v.running = None /\ v.priority = <<>> /\ v.other # <<>>
  <2>1. /\ w.running = Head(v.other) /\ w.other = Tail(v.other) /\ w.priority = v.priority
    BY <1>2, StartNext
  <2> HIDE DEF w
  <2>2. /\ LaneInOrder(w.other, L)
        /\ \A q \in ToSet(w.other) :
              q.m.from = w.running.m.from /\ q.m \notin L => w.running.m.n < q.m.n
    BY <1>2, <2>1, HeadFirst, QStateFields DEF InOrder
  <2>3. ToSet(w.priority) = {}
    BY <1>2, <2>1, EmptyFacts
  <2> QED BY <2>1, <2>2, <2>3 DEF InOrder, RunsFirst, w
<1>3. CASE v.running # None \/ (v.priority = <<>> /\ v.other = <<>>)
  <2>1. w = v
    BY <1>3, StartNext
  <2> QED BY <2>1
<1> QED BY <1>1, <1>2, <1>3

(* A sender with something queued or running has a place in the book.       *)
LEMMA CountPositive ==
    ASSUME NEW v \in QState, Counted(v), NEW p \in InQueue(v)
    PROVE  p \in Checks /\ p.m.from \in Senders /\ v.senders[p.m.from].count > 0
<1>1. p \in Checks /\ p.m.from \in Senders
  BY QStateFields, MemberFacts, CheckFields DEF InQueue
<1> DEFINE s == p.m.from
<1>2. /\ Queued(s, v.priority) \in Nat /\ Queued(s, v.other) \in Nat /\ Runs(v, s) \in Nat
  BY QStateFields, CountNat DEF Runs
<1>3. \/ Queued(s, v.priority) > 0 \/ Queued(s, v.other) > 0 \/ Runs(v, s) > 0
  <2>1. CASE p \in ToSet(v.priority) \/ p \in ToSet(v.other)
    BY <2>1, QStateFields, CountSome
  <2>2. CASE v.running # None /\ p = v.running
    BY <2>2 DEF Runs
  <2> QED BY <2>1, <2>2 DEF InQueue
<1>4. v.senders[s].count = Queued(s, v.priority) + Queued(s, v.other) + Runs(v, s)
  BY <1>1 DEF Counted
<1> HIDE DEF s
<1> QED BY <1>1, <1>2, <1>3, <1>4 DEF s

(* A message that is not refused goes to the end of its sender's lane.      *)
LEMMA JoinedKeeps ==
    ASSUME NEW v \in QState, NEW q \in Checks, NEW lane \in LaneNames,
           Counted(v), OneLane(v), Capped(v), ~Refuses(v, q, lane)
    PROVE  LET at == LaneOf(v, q.m.from, lane)
               j == Joined(v, q, at)
           IN /\ at \in LaneNames /\ j \in QState
              /\ enqueue(v, q, lane) = start_next(j) /\ j.running = v.running
              /\ Counted(j) /\ OneLane(j) /\ Capped(j)
              /\ InQueue(j) = InQueue(v) \cup {q}
              /\ \A t \in Senders \ {q.m.from} : j.senders[t] = v.senders[t]
              /\ j.senders[q.m.from].lane = at
              /\ j.priority = IF at = "Priority" THEN Append(v.priority, q) ELSE v.priority
              /\ j.other = IF at = "Other" THEN Append(v.other, q) ELSE v.other
<1> DEFINE at == LaneOf(v, q.m.from, lane)
           j == Joined(v, q, at)
           s == q.m.from
<1>0. /\ s \in Senders /\ v.senders[s].count \in Nat
      /\ v.senders \in [Senders -> [count : Nat, lane : {"Priority", "Other", None}]]
      /\ v.priority \in Seq(Checks) /\ v.other \in Seq(Checks)
  BY CheckFields, QStateFields
<1>1. at \in LaneNames
  BY <1>0 DEF LaneOf, OneLane, LaneNames
<1>2. /\ enqueue(v, q, lane) = start_next(j) /\ j \in QState /\ j.running = v.running
      /\ j.priority = IF at = "Priority" THEN Append(v.priority, q) ELSE v.priority
      /\ j.other = IF at = "Other" THEN Append(v.other, q) ELSE v.other
      /\ j.senders = [v.senders EXCEPT
                         ![q.m.from] = [count |-> v.senders[q.m.from].count + 1,
                                        lane |-> at]]
      /\ j.rate = IF IsRequest(q) THEN v.rate + 1 ELSE v.rate
  BY <1>1, JoinedIs
<1>3. /\ v.senders[s].count < SenderCap
      /\ at = "Priority" => Len(v.priority) < PriorityCap
      /\ at = "Other" => Len(v.other) < OtherCap
      /\ IsRequest(q) => v.rate < RequestRate
  <2>1. /\ PriorityCap \in Nat /\ OtherCap \in Nat /\ SenderCap \in Nat /\ RequestRate \in Nat
        /\ Len(v.priority) \in Nat /\ Len(v.other) \in Nat /\ v.rate \in Nat
    BY VerifyQueueAssumption, MemberFacts, QStateFields
  <2>2. ~ is_full_for(v, s, lane) /\ (IsRequest(q) => ~(v.rate >= RequestRate))
    BY DEF Refuses
  <2>3. /\ ~(v.senders[s].count >= SenderCap)
        /\ ~(IF at = "Priority" THEN Len(v.priority) >= PriorityCap ELSE Len(v.other) >= OtherCap)
    BY <2>2 DEF is_full_for
  <2> HIDE DEF at, s
  <2>4. at = "Other" => at # "Priority"
    OBVIOUS
  <2> QED BY <1>0, <2>1, <2>2, <2>3, <2>4
<1>x. /\ j.senders[s].count = v.senders[s].count + 1 /\ j.senders[s].lane = at
      /\ \A t \in Senders \ {s} : j.senders[t] = v.senders[t]
  BY <1>0, <1>2
<1> HIDE DEF at, j
<1>4. Counted(j)
  <2> SUFFICES ASSUME NEW t \in Senders
               PROVE  j.senders[t].count = Queued(t, j.priority) + Queued(t, j.other) + Runs(j, t)
    BY DEF Counted
  <2> DEFINE d == IF s = t THEN 1 ELSE 0
             x == Queued(t, v.priority)
             y == Queued(t, v.other)
             r == Runs(v, t)
  <2>1. /\ x \in Nat /\ y \in Nat /\ Queued(t, Append(v.priority, q)) = x + d
        /\ Queued(t, Append(v.other, q)) = y + d
    BY <1>0, CountAppend
  <2>2. Runs(j, t) = r /\ r \in Nat /\ v.senders[t].count = x + y + r
    BY <1>2 DEF Runs, Counted
  <2>3. j.senders[t].count = v.senders[t].count + d
    <3>1. v.senders[t].count \in Nat
      BY <1>0
    <3> QED BY <1>x, <3>1
  <2> HIDE DEF x, y, r
  <2>4. \/ j.priority = Append(v.priority, q) /\ j.other = v.other
        \/ j.other = Append(v.other, q) /\ j.priority = v.priority
    BY <1>1, <1>2 DEF LaneNames
  <2>5. \/ Queued(t, j.priority) = x + d /\ Queued(t, j.other) = y
        \/ Queued(t, j.other) = y + d /\ Queued(t, j.priority) = x
    BY <2>1, <2>4 DEF x, y
  <2>6. d \in Nat
    OBVIOUS
  <2> HIDE DEF d
  <2> QED BY <2>1, <2>2, <2>3, <2>5, <2>6
<1>5. /\ ToSet(Append(v.priority, q)) = ToSet(v.priority) \cup {q}
      /\ Len(Append(v.priority, q)) = Len(v.priority) + 1
      /\ ToSet(Append(v.other, q)) = ToSet(v.other) \cup {q}
      /\ Len(Append(v.other, q)) = Len(v.other) + 1
  BY <1>0, AppendFacts
<1>6. InQueue(j) = InQueue(v) \cup {q}
  BY <1>1, <1>2, <1>5 DEF InQueue, LaneNames
<1>7. OneLane(j)
  <2>1. ASSUME NEW p \in ToSet(v.priority), p.m.from = s PROVE at = "Priority"
    <3>1. v.senders[s].count > 0
      BY <2>1, CountPositive DEF InQueue
    <3> QED BY <2>1, <3>1, <1>0 DEF at, LaneOf, OneLane
  <2>2. ASSUME NEW p \in ToSet(v.other), p.m.from = s PROVE at = "Other"
    <3>1. v.senders[s].count > 0
      BY <2>2, CountPositive DEF InQueue
    <3> QED BY <2>2, <3>1, <1>0 DEF at, LaneOf, OneLane
  <2>3. \A p \in ToSet(v.priority) \cup ToSet(v.other) : p.m.from \in Senders
    BY <1>0, MemberFacts, CheckFields
  <2>4. \A p \in ToSet(j.priority) : j.senders[p.m.from].lane = "Priority"
    <3> TAKE p \in ToSet(j.priority)
    <3>1. CASE p \in ToSet(v.priority)
      <4>1. CASE p.m.from = s
        BY <1>x, <2>1, <3>1, <4>1
      <4>2. CASE p.m.from # s
        BY <1>x, <2>3, <3>1, <4>2 DEF OneLane
      <4> QED BY <4>1, <4>2
    <3>2. CASE p \notin ToSet(v.priority)
      BY <1>2, <1>5, <1>x, <3>2
    <3> QED BY <3>1, <3>2
  <2>5. \A p \in ToSet(j.other) : j.senders[p.m.from].lane = "Other"
    <3> TAKE p \in ToSet(j.other)
    <3>1. CASE p \in ToSet(v.other)
      <4>1. CASE p.m.from = s
        BY <1>x, <2>2, <3>1, <4>1
      <4>2. CASE p.m.from # s
        BY <1>x, <2>3, <3>1, <4>2 DEF OneLane
      <4> QED BY <4>1, <4>2
    <3>2. CASE p \notin ToSet(v.other)
      BY <1>2, <1>5, <1>x, <3>2
    <3> QED BY <3>1, <3>2
  <2>6. \A t \in Senders : j.senders[t].count > 0 => j.senders[t].lane \in {"Priority", "Other"}
    BY <1>1, <1>x DEF OneLane, LaneNames
  <2> QED BY <2>4, <2>5, <2>6 DEF OneLane
<1>8. Capped(j)
  <2>1. /\ PriorityCap \in Nat /\ OtherCap \in Nat /\ SenderCap \in Nat /\ RequestRate \in Nat
        /\ Len(v.priority) \in Nat /\ Len(v.other) \in Nat /\ v.rate \in Nat
    BY VerifyQueueAssumption, MemberFacts, QStateFields
  <2>2. Len(j.priority) <= PriorityCap
    BY <1>2, <1>3, <1>5, <2>1 DEF Capped
  <2>3. Len(j.other) <= OtherCap
    BY <1>2, <1>3, <1>5, <2>1 DEF Capped
  <2>4. j.rate <= RequestRate
    BY <1>2, <1>3, <2>1 DEF Capped
  <2>5. \A t \in Senders : j.senders[t].count <= SenderCap
    BY <1>0, <1>3, <1>x, <2>1 DEF Capped
  <2> QED BY <2>2, <2>3, <2>4, <2>5 DEF Capped
<1> QED BY <1>1, <1>2, <1>4, <1>6, <1>7, <1>8, <1>x DEF at, j

LEMMA AppendInOrder ==
    ASSUME NEW lane \in Seq(Checks), NEW q \in Checks, NEW L, LaneInOrder(lane, L),
           q.m \in L \/ \A p \in ToSet(lane) : p.m.from = q.m.from => p.m.n < q.m.n
    PROVE  LaneInOrder(Append(lane, q), L)
<1> DEFINE l == Append(lane, q)
<1>1. /\ DOMAIN lane = 1 .. Len(lane) /\ DOMAIN l = 1 .. (Len(lane) + 1) /\ Len(lane) \in Nat
      /\ \A i \in 1 .. Len(lane) : l[i] = lane[i]
      /\ l[Len(lane) + 1] = q
  BY AppendFacts, MemberFacts
<1> HIDE DEF l
<1> SUFFICES ASSUME NEW i \in DOMAIN l, NEW j \in DOMAIN l,
                    i < j, l[i].m.from = l[j].m.from, l[j].m \notin L
             PROVE  l[i].m.n < l[j].m.n
  BY DEF LaneInOrder, l
<1>2. CASE j \in DOMAIN lane
  <2>1. i \in DOMAIN lane /\ l[i] = lane[i] /\ l[j] = lane[j]
    BY <1>1, <1>2
  <2> QED BY <2>1, <1>2 DEF LaneInOrder
<1>3. CASE j \notin DOMAIN lane
  <2>1. i \in DOMAIN lane /\ l[i] = lane[i] /\ l[j] = q
    BY <1>1, <1>3
  <2>2. l[i] \in ToSet(lane)
    BY <2>1 DEF ToSet
  <2> QED BY <2>1, <2>2
<1> QED BY <1>2, <1>3

LEMMA JoinedInOrder ==
    ASSUME NEW v \in QState, NEW q \in Checks, NEW at, NEW j, j.running = v.running,
           j.priority = IF at = "Priority" THEN Append(v.priority, q) ELSE v.priority,
           j.other = IF at = "Other" THEN Append(v.other, q) ELSE v.other,
           NEW L, InOrder(v, L),
           q.m \in L \/ \A p \in InQueue(v) : p.m.from = q.m.from => p.m.n < q.m.n
    PROVE  InOrder(j, L)
<1>1. /\ j.running = v.running
      /\ j.priority = IF at = "Priority" THEN Append(v.priority, q) ELSE v.priority
      /\ j.other = IF at = "Other" THEN Append(v.other, q) ELSE v.other
  OBVIOUS
<1>2. /\ v.priority \in Seq(Checks) /\ v.other \in Seq(Checks)
      /\ ToSet(Append(v.priority, q)) = ToSet(v.priority) \cup {q}
      /\ ToSet(Append(v.other, q)) = ToSet(v.other) \cup {q}
  BY QStateFields, AppendFacts
<1>3. LaneInOrder(Append(v.priority, q), L) /\ LaneInOrder(Append(v.other, q), L)
  <2>1. LaneInOrder(v.priority, L) /\ LaneInOrder(v.other, L)
    BY DEF InOrder
  <2>2. /\ q.m \in L \/ \A p \in ToSet(v.priority) : p.m.from = q.m.from => p.m.n < q.m.n
        /\ q.m \in L \/ \A p \in ToSet(v.other) : p.m.from = q.m.from => p.m.n < q.m.n
    BY DEF InQueue
  <2> QED BY <1>2, <2>1, <2>2, AppendInOrder
<1>4. RunsFirst(j, L)
  <2> SUFFICES ASSUME v.running # None, NEW p \in ToSet(j.priority) \cup ToSet(j.other),
                      p.m.from = v.running.m.from, p.m \notin L
               PROVE  v.running.m.n < p.m.n
    BY <1>1 DEF RunsFirst
  <2>1. p \in ToSet(v.priority) \cup ToSet(v.other) \/ p = q
    BY <1>1, <1>2
  <2>2. v.running \in InQueue(v)
    BY DEF InQueue
  <2> QED BY <2>1, <2>2 DEF InOrder, RunsFirst
<1> QED BY <1>1, <1>3, <1>4 DEF InOrder

LEMMA EnqueueKeeps ==
    ASSUME NEW v \in QState, NEW q \in Checks, NEW lane \in LaneNames,
           Counted(v), OneLane(v), Capped(v), ~Refuses(v, q, lane), NEW L, InOrder(v, L),
           q.m \in L \/ \A p \in InQueue(v) : p.m.from = q.m.from => p.m.n < q.m.n
    PROVE  LET w == enqueue(v, q, lane)
           IN /\ w \in QState /\ Counted(w) /\ OneLane(w) /\ Capped(w) /\ Idle(w)
              /\ InOrder(w, L) /\ InQueue(w) = InQueue(v) \cup {q}
              /\ \A t \in Senders \ {q.m.from} : w.senders[t] = v.senders[t]
              /\ w.senders[q.m.from].lane = LaneOf(v, q.m.from, lane)
<1> DEFINE at == LaneOf(v, q.m.from, lane)
           j == Joined(v, q, at)
           w == enqueue(v, q, lane)
<1>1. /\ at \in LaneNames /\ j \in QState
      /\ w = start_next(j)
      /\ Counted(j) /\ OneLane(j) /\ Capped(j)
      /\ InQueue(j) = InQueue(v) \cup {q}
      /\ \A t \in Senders \ {q.m.from} : j.senders[t] = v.senders[t]
      /\ j.senders[q.m.from].lane = at
      /\ j.running = v.running
      /\ j.priority = IF at = "Priority" THEN Append(v.priority, q) ELSE v.priority
      /\ j.other = IF at = "Other" THEN Append(v.other, q) ELSE v.other
  BY JoinedKeeps
<1>2. InOrder(j, L)
  BY <1>1, JoinedInOrder
<1> HIDE DEF at, j, w
<1>3. w \in QState /\ w.senders = j.senders
  BY <1>1, StartNext
<1>4. InQueue(w) = InQueue(j) /\ Idle(w) /\ OneLane(w) /\ Capped(w)
  BY <1>1, StartQueue
<1>5. Counted(w) /\ InOrder(w, L)
  BY <1>1, <1>2, StartCounted, StartInOrder
<1> QED BY <1>1, <1>3, <1>4, <1>5 DEF at, w

(* A check that finishes leaves the rest as it was, and room in the lane of *)
(* priority: its head starts, or it is empty.                               *)
LEMMA FinishedKeeps ==
    ASSUME NEW v \in QState, v.running # None,
           Counted(v), OneLane(v), Capped(v), NEW L, InOrder(v, L)
    PROVE  LET w == finished(v)
               s == v.running.m.from
           IN /\ w \in QState /\ Counted(w) /\ OneLane(w) /\ Capped(w) /\ Idle(w)
              /\ InOrder(w, L) /\ w.rate = v.rate
              /\ InQueue(w) \subseteq InQueue(v) /\ InQueue(v) \subseteq InQueue(w) \cup {v.running}
              /\ \A p \in InQueue(w) :
                    p.m.from = s /\ p.m \notin L => v.running.m.n < p.m.n
              /\ \A t \in Senders \ {s} : w.senders[t] = v.senders[t]
              /\ s \in Senders /\ w.senders[s].count = v.senders[s].count - 1
              /\ w.senders[s].count > 0 => w.senders[s].lane = v.senders[s].lane
              /\ Len(w.priority) < PriorityCap
              /\ finished(v) = start_next(Left(v)) /\ Left(v) \in QState
              /\ Left(v).running = None /\ Left(v).priority = v.priority /\ Left(v).other = v.other
<1> DEFINE w == finished(v)
           s == v.running.m.from
           j == Left(v)
<1>0. /\ v.senders \in [Senders -> [count : Nat, lane : {"Priority", "Other", None}]]
      /\ v.priority \in Seq(Checks) /\ v.other \in Seq(Checks)
      /\ v.running \in Checks /\ s \in Senders
  BY CheckFields, QStateFields
<1>1. v.senders[s].count > 0
  <2>1. Runs(v, s) = 1
    BY DEF Runs
  <2> QED BY <1>0, <2>1, CountNat DEF Counted
<1>2. /\ w = start_next(j) /\ j \in QState /\ j.running = None
      /\ j.priority = v.priority /\ j.other = v.other /\ j.rate = v.rate
      /\ \A t \in Senders \ {s} : j.senders[t] = v.senders[t]
      /\ j.senders[s].count = v.senders[s].count - 1
      /\ j.senders[s].count > 0 => j.senders[s].lane = v.senders[s].lane
  BY <1>1, LeftIs
<1> HIDE DEF w, j, s
<1>3. Counted(j)
  <2> SUFFICES ASSUME NEW t \in Senders
               PROVE  j.senders[t].count = Queued(t, j.priority) + Queued(t, j.other) + Runs(j, t)
    BY DEF Counted
  <2>1. /\ Queued(t, v.priority) \in Nat /\ Queued(t, v.other) \in Nat
    BY <1>0, CountNat
  <2>2. v.senders[t].count = Queued(t, v.priority) + Queued(t, v.other) + Runs(v, t)
    BY DEF Counted
  <2>3. Runs(j, t) = 0 /\ Runs(v, t) = IF t = s THEN 1 ELSE 0
    BY <1>2 DEF Runs, s
  <2>4. j.senders[t].count = IF t = s THEN v.senders[t].count - 1 ELSE v.senders[t].count
    BY <1>2
  <2> QED BY <1>2, <2>1, <2>2, <2>3, <2>4
<1>4. OneLane(j)
  <2>1. ASSUME NEW p \in ToSet(v.priority) \cup ToSet(v.other)
        PROVE  p.m.from \in Senders /\ j.senders[p.m.from].lane = v.senders[p.m.from].lane
    <3>1. p.m.from \in Senders
      BY <1>0, MemberFacts, CheckFields
    <3>2. CASE p.m.from = s
      <4>1. Queued(s, v.priority) + Queued(s, v.other) > 0
        <5>1. Queued(s, v.priority) \in Nat /\ Queued(s, v.other) \in Nat
          BY <1>0, CountNat
        <5>2. Queued(s, v.priority) > 0 \/ Queued(s, v.other) > 0
          BY <1>0, <3>2, CountSome
        <5> QED BY <5>1, <5>2
      <4>2. j.senders[s].count > 0
        <5>1. /\ Queued(s, v.priority) \in Nat /\ Queued(s, v.other) \in Nat
          BY <1>0, CountNat
        <5>2. Runs(v, s) = 1
          BY DEF Runs, s
        <5> QED BY <1>0, <1>2, <4>1, <5>1, <5>2 DEF Counted
      <4> QED BY <1>2, <3>1, <3>2, <4>2
    <3>3. CASE p.m.from # s
      BY <1>2, <3>1, <3>3
    <3> QED BY <3>1, <3>2, <3>3
  <2>2. \A t \in Senders : j.senders[t].count > 0 => j.senders[t].lane \in {"Priority", "Other"}
    BY <1>0, <1>1, <1>2 DEF OneLane
  <2> QED BY <1>2, <2>1, <2>2 DEF OneLane
<1>5. Capped(j)
  <2>1. SenderCap \in Nat /\ \A t \in Senders : v.senders[t].count \in Nat
    BY VerifyQueueAssumption, <1>0
  <2> QED BY <1>0, <1>2, <2>1 DEF Capped
<1>6. InQueue(j) = ToSet(v.priority) \cup ToSet(v.other)
  BY <1>2 DEF InQueue
<1>7. InOrder(j, L)
  BY <1>2 DEF InOrder, RunsFirst
<1>8. /\ w \in QState /\ w.senders = j.senders /\ w.rate = v.rate
  BY <1>2, StartNext
<1>9. InQueue(w) = InQueue(j) /\ Idle(w) /\ OneLane(w) /\ Capped(w) /\ Counted(w) /\ InOrder(w, L)
  BY <1>2, <1>3, <1>4, <1>5, <1>7, StartQueue, StartCounted, StartInOrder
<1>10. /\ InQueue(w) \subseteq InQueue(v) /\ InQueue(v) \subseteq InQueue(w) \cup {v.running}
  BY <1>6, <1>9 DEF InQueue
<1>11. \A p \in InQueue(w) : p.m.from = s /\ p.m \notin L => v.running.m.n < p.m.n
  BY <1>6, <1>9 DEF InOrder, RunsFirst, s
<1>12. Len(w.priority) < PriorityCap
  <2>1. PriorityCap \in Nat \ {0} /\ Len(v.priority) <= PriorityCap
    BY VerifyQueueAssumption DEF Capped
  <2>2. CASE v.priority = <<>>
    <3>1. w.priority = <<>>
      BY <1>2, <2>2, StartNext
    <3> QED BY <2>1, <3>1, EmptyFacts
  <2>3. CASE v.priority # <<>>
    <3>1. w.priority = Tail(v.priority)
      BY <1>2, <2>3, StartNext
    <3>2. Len(Tail(v.priority)) = Len(v.priority) - 1 /\ Len(v.priority) \in Nat
      BY <1>0, <2>3, TailFacts
    <3> QED BY <2>1, <3>1, <3>2
  <2> QED BY <2>2, <2>3
<1> QED BY <1>0, <1>2, <1>8, <1>9, <1>10, <1>11, <1>12 DEF w, j, s

-----------------------------------------------------------------------------
(* The parts of a step: what is queued and kept, and what is handled.       *)
LEMMA BecomeIs ==
    ASSUME NEW v \in QState, Become(v) PROVE QueueState' = v
<1>1. v = [priority |-> v.priority, other |-> v.other, senders |-> v.senders,
           running |-> v.running, rate |-> v.rate]
  BY DEF QState
<1>2. QueueState' = [priority |-> v.priority, other |-> v.other, senders |-> v.senders,
                     running |-> v.running, rate |-> v.rate]
  BY DEF QueueState, Become
<1> QED BY <1>1, <1>2

LEMMA QueueStateIs ==
    /\ QueueState.priority = priority /\ QueueState.other = other
    /\ QueueState.senders = senders /\ QueueState.running = running /\ QueueState.rate = rate
BY DEF QueueState

LEMMA QueueStays == ASSUME UNCHANGED queue PROVE QueueState' = QueueState
BY DEF queue, QueueState

LEMMA LaneForType == ASSUME NEW s PROVE lane_for(s) \in LaneNames
BY DEF lane_for, LaneNames

Good(v, L) ==
    v \in QState /\ Counted(v) /\ OneLane(v) /\ Capped(v) /\ Idle(v) /\ InOrder(v, L)

KeptOK(k) == k \in Seq(Messages) /\ Len(k) <= KeptCap /\ Distinct(k)

(* What queue_for_check leaves behind when the message is not refused.      *)
Added(v, k, q, L) ==
    /\ Good(QueueState', L) /\ InQueue(QueueState') = InQueue(v) \cup {q} /\ Placed(QueueState')
    /\ \/ kept' = k
       \/ kept' = Append(k, q.m) /\ q.m \notin ToSet(k) /\ q.m.from \in members
    /\ KeptOK(kept')
    /\ unkept \subseteq unkept' /\ unkept' \subseteq unkept \cup {q.m}
    /\ aside' = (IF q.m.from \in members THEN aside \cup {q.m} ELSE aside)
    /\ q.m.from \in members => q.m \in ToSet(kept') \cup unkept'

LEMMA QueueForCheck ==
    ASSUME NEW v, NEW k, NEW q \in Checks, NEW L,
           Good(v, L), Placed(v), KeptOK(k),
           q.m \in L \/ \A p \in InQueue(v) : p.m.from = q.m.from => p.m.n < q.m.n,
           queue_for_check(v, k, q)
    PROVE  \/ /\ Refuses(v, q, lane_for(q.m.from))
              /\ QueueState' = v /\ kept' = k /\ UNCHANGED <<unkept, aside>>
           \/ ~Refuses(v, q, lane_for(q.m.from)) /\ Added(v, k, q, L)
<1> DEFINE lane == lane_for(q.m.from)
           w == enqueue(v, q, lane)
           keep == lane = "Priority" /\ q.m \notin ToSet(k)
           fits == q.m.kind # "large" /\ Len(k) < KeptCap
<1>0. lane \in LaneNames /\ v \in QState /\ q.m \in Messages /\ q.m.from \in Senders
  BY LaneForType, CheckFields DEF Good
<1>1. CASE Refuses(v, q, lane)
  <2>1. Become(v) /\ kept' = k /\ UNCHANGED <<unkept, aside>>
    BY <1>1 DEF queue_for_check
  <2> QED BY <1>0, <1>1, <2>1, BecomeIs
<1>2. CASE ~Refuses(v, q, lane)
  <2>1. /\ Become(w)
        /\ kept' = IF keep /\ fits THEN Append(k, q.m) ELSE k
        /\ unkept' = IF keep /\ ~fits THEN unkept \cup {q.m} ELSE unkept
        /\ aside' = IF lane = "Priority" THEN aside \cup {q.m} ELSE aside
    BY <1>2 DEF queue_for_check
  <2>2. /\ w \in QState /\ Counted(w) /\ OneLane(w) /\ Capped(w) /\ Idle(w)
        /\ InOrder(w, L) /\ InQueue(w) = InQueue(v) \cup {q}
        /\ \A t \in Senders \ {q.m.from} : w.senders[t] = v.senders[t]
        /\ w.senders[q.m.from].lane = LaneOf(v, q.m.from, lane)
    BY <1>0, <1>2, EnqueueKeeps DEF Good
  <2>3. lane = "Priority" <=> q.m.from \in members
    BY DEF lane_for
  <2> HIDE DEF w
  <2>4. QueueState' = w
    BY <2>1, <2>2, BecomeIs
  <2>5. Placed(w)
    <3> SUFFICES ASSUME NEW s \in Senders \ moved, w.senders[s].count > 0
                 PROVE  w.senders[s].lane = lane_for(s)
      BY DEF Placed
    <3>1. CASE s # q.m.from
      BY <2>2, <3>1 DEF Placed
    <3>2. CASE s = q.m.from
      <4>1. v.senders[s].count \in Nat
        BY <1>0, <3>2, QStateFields
      <4>2. CASE v.senders[s].count = 0
        BY <2>2, <3>2, <4>2 DEF LaneOf
      <4>3. CASE v.senders[s].count > 0
        <5>1. v.senders[s].lane = lane_for(s)
          BY <4>3 DEF Placed
        <5>2. LaneOf(v, s, lane) = v.senders[s].lane
          BY <4>3, <4>1 DEF LaneOf
        <5> QED BY <2>2, <3>2, <5>1, <5>2
      <4> QED BY <4>1, <4>2, <4>3
    <3> QED BY <3>1, <3>2
  <2>6. k \in Seq(Messages) /\ Len(k) \in Nat /\ KeptCap \in Nat /\ DOMAIN k = 1 .. Len(k)
    BY VerifyQueueAssumption, MemberFacts DEF KeptOK
  <2>7. CASE keep /\ fits
    <3>1. /\ kept' = Append(k, q.m) /\ q.m \notin ToSet(k) /\ q.m.from \in members
          /\ unkept' = unkept
      BY <2>1, <2>3, <2>7
    <3>2. /\ Append(k, q.m) \in Seq(Messages) /\ Len(Append(k, q.m)) = Len(k) + 1
          /\ \A i \in 1 .. Len(k) : Append(k, q.m)[i] = k[i]
          /\ Append(k, q.m)[Len(k) + 1] = q.m
          /\ ToSet(Append(k, q.m)) = ToSet(k) \cup {q.m}
      BY <1>0, <2>6, AppendFacts
    <3>3. DOMAIN kept' = 1 .. (Len(k) + 1)
      BY <3>1, <3>2, MemberFacts
    <3>4. Distinct(kept')
      <4> SUFFICES ASSUME NEW i \in DOMAIN kept', NEW j \in DOMAIN kept', i # j
                   PROVE  kept'[i] # kept'[j]
        BY DEF Distinct
      <4>1. CASE i \in DOMAIN k /\ j \in DOMAIN k
        BY <2>6, <3>1, <3>2, <4>1 DEF KeptOK, Distinct
      <4>2. CASE i \notin DOMAIN k
        <5>1. i = Len(k) + 1 /\ j \in 1 .. Len(k)
          BY <2>6, <3>3, <4>2
        <5> QED BY <2>6, <3>1, <3>2, <5>1, MemberFacts
      <4>3. CASE j \notin DOMAIN k
        <5>1. j = Len(k) + 1 /\ i \in 1 .. Len(k)
          BY <2>6, <3>3, <4>3
        <5> QED BY <2>6, <3>1, <3>2, <5>1, MemberFacts
      <4> QED BY <4>1, <4>2, <4>3
    <3>5. Len(k) + 1 <= KeptCap
      BY <2>6, <2>7
    <3>6. KeptOK(kept')
      BY <3>1, <3>2, <3>4, <3>5 DEF KeptOK
    <3> QED BY <1>2, <2>1, <2>2, <2>3, <2>4, <2>5, <3>1, <3>2, <3>6 DEF Added, Good
  <2>8. CASE ~(keep /\ fits)
    <3>1. kept' = k /\ KeptOK(kept')
      BY <2>1, <2>8
    <3>2. q.m.from \in members => q.m \in ToSet(kept') \cup unkept'
      BY <2>1, <2>3, <2>8
    <3>3. unkept \subseteq unkept' /\ unkept' \subseteq unkept \cup {q.m}
      BY <2>1
    <3> HIDE DEF keep, fits
    <3> QED BY <1>2, <2>1, <2>2, <2>3, <2>4, <2>5, <3>1, <3>2, <3>3 DEF Added, Good
  <2> QED BY <2>7, <2>8
<1> QED BY <1>1, <1>2

LEMMA HandleFacts ==
    ASSUME handled \in [Senders -> Seq(Nat)], NEW m \in Messages, Handle(m)
    PROVE  /\ handled' \in [Senders -> Seq(Nat)]
           /\ \A s \in Senders \ {m.from} : handled'[s] = handled[s]
           /\ DOMAIN handled[m.from] = 1 .. Len(handled[m.from])
           /\ DOMAIN handled'[m.from] = 1 .. (Len(handled[m.from]) + 1)
           /\ Len(handled[m.from]) \in Nat
           /\ \A i \in DOMAIN handled[m.from] : handled'[m.from][i] = handled[m.from][i]
           /\ handled'[m.from][Len(handled[m.from]) + 1] = m.n
           /\ ToSet(handled'[m.from]) = ToSet(handled[m.from]) \cup {m.n}
           /\ m.from \in Senders /\ m.n \in Nat
<1>1. m.from \in Senders /\ m.n \in Nat
  BY DEF Messages
<1>2. handled'[m.from] = Append(handled[m.from], m.n) /\ handled[m.from] \in Seq(Nat)
  BY <1>1 DEF Handle
<1>3. \A s \in Senders \ {m.from} : handled'[s] = handled[s]
  BY DEF Handle
<1>4. /\ Append(handled[m.from], m.n) \in Seq(Nat)
      /\ Len(Append(handled[m.from], m.n)) = Len(handled[m.from]) + 1
      /\ \A i \in 1 .. Len(handled[m.from]) :
            Append(handled[m.from], m.n)[i] = handled[m.from][i]
      /\ Append(handled[m.from], m.n)[Len(handled[m.from]) + 1] = m.n
      /\ ToSet(Append(handled[m.from], m.n)) = ToSet(handled[m.from]) \cup {m.n}
  <2> DEFINE h == handled[m.from]
             e == m.n
  <2>1. h \in Seq(Nat) /\ e \in Nat
    BY <1>1, <1>2
  <2> HIDE DEF h, e
  <2>2. /\ Append(h, e) \in Seq(Nat) /\ Len(Append(h, e)) = Len(h) + 1
        /\ \A i \in 1 .. Len(h) : Append(h, e)[i] = h[i]
        /\ Append(h, e)[Len(h) + 1] = e
        /\ ToSet(Append(h, e)) = ToSet(h) \cup {e}
    BY <2>1, AppendFacts
  <2> QED BY <2>2 DEF h, e
<1>5. /\ DOMAIN handled[m.from] = 1 .. Len(handled[m.from])
      /\ DOMAIN handled'[m.from] = 1 .. (Len(handled[m.from]) + 1)
      /\ Len(handled[m.from]) \in Nat
  BY <1>2, <1>4, MemberFacts
<1>6. handled' \in [Senders -> Seq(Nat)]
  BY <1>1, <1>2, <1>4 DEF Handle
<1> QED BY <1>1, <1>2, <1>3, <1>4, <1>5, <1>6

LEMMA HandleOrder ==
    ASSUME handled \in [Senders -> Seq(Nat)], NEW m \in Messages, Handle(m),
           OrderPerSender, late \subseteq late', m \in late' \/ After(m)
    PROVE  OrderPerSender'
<1> SUFFICES ASSUME NEW s \in Senders, NEW i \in DOMAIN handled'[s], NEW j \in DOMAIN handled'[s],
                    i < j, handled'[s][i] >= handled'[s][j]
             PROVE  \E x \in late' : x.from = s /\ x.n = handled'[s][j]
  BY DEF OrderPerSender
<1>1. CASE s # m.from
  <2>1. handled'[s] = handled[s]
    BY <1>1, HandleFacts
  <2> QED BY <2>1 DEF OrderPerSender
<1>2. CASE s = m.from /\ j \in DOMAIN handled[s]
  <2>1. /\ i \in DOMAIN handled[s] /\ handled'[s][i] = handled[s][i]
        /\ handled'[s][j] = handled[s][j]
    BY <1>2, HandleFacts
  <2> QED BY <2>1, <1>2 DEF OrderPerSender
<1>3. CASE s = m.from /\ j \notin DOMAIN handled[s]
  <2>1. /\ i \in DOMAIN handled[s] /\ handled'[s][i] = handled[s][i]
        /\ handled'[s][j] = m.n /\ handled[s][i] \in Nat /\ m.n \in Nat
    <3>1. j = Len(handled[s]) + 1 /\ i \in 1 .. Len(handled[s])
      BY <1>3, HandleFacts
    <3>2. handled[s] \in Seq(Nat)
      BY <1>3, HandleFacts
    <3> QED BY <1>3, <3>1, <3>2, HandleFacts, MemberFacts
  <2>2. ~After(m)
    BY <1>3, <2>1 DEF After
  <2> QED BY <1>3, <2>1, <2>2
<1> QED BY <1>1, <1>2, <1>3

LEMMA HandleAfter ==
    ASSUME handled \in [Senders -> Seq(Nat)], NEW m \in Messages, Handle(m),
           NEW x \in Messages, After(x), x.from = m.from => m.n < x.n
    PROVE  After(x)'
<1> SUFFICES ASSUME NEW i \in DOMAIN handled'[x.from] PROVE handled'[x.from][i] < x.n
  BY DEF After
<1>1. CASE x.from # m.from
  <2>1. handled'[x.from] = handled[x.from]
    BY <1>1, HandleFacts DEF Messages
  <2> QED BY <2>1 DEF After
<1>2. CASE x.from = m.from
  <2>1. i \in DOMAIN handled[x.from] \/ i = Len(handled[x.from]) + 1
    BY <1>2, HandleFacts
  <2> QED BY <1>2, <2>1, HandleFacts DEF After
<1> QED BY <1>1, <1>2

(* A message at the end of a list, late or after every other of its sender. *)
LEMMA ListAppend ==
    ASSUME NEW k \in Seq(Messages), NEW m \in Messages, ListInOrder(k),
           m \in late \/ \A x \in ToSet(k) : x.from = m.from => x.n < m.n
    PROVE  ListInOrder(Append(k, m))
<1> DEFINE l == Append(k, m)
<1>1. /\ DOMAIN k = 1 .. Len(k) /\ DOMAIN l = 1 .. (Len(k) + 1) /\ Len(k) \in Nat
      /\ \A i \in 1 .. Len(k) : l[i] = k[i] /\ k[i] \in ToSet(k)
      /\ l[Len(k) + 1] = m
  BY AppendFacts, MemberFacts
<1> HIDE DEF l
<1> SUFFICES ASSUME NEW i \in DOMAIN l, NEW j \in DOMAIN l,
                    i < j, l[i].from = l[j].from, l[j] \notin late
             PROVE  l[i].n < l[j].n
  BY DEF ListInOrder, l
<1>2. CASE j \in DOMAIN k
  <2>1. i \in DOMAIN k /\ l[i] = k[i] /\ l[j] = k[j]
    BY <1>1, <1>2
  <2> QED BY <2>1, <1>2 DEF ListInOrder
<1>3. CASE j \notin DOMAIN k
  <2>1. l[i] \in ToSet(k) /\ l[j] = m
    BY <1>1, <1>3
  <2> QED BY <2>1
<1> QED BY <1>2, <1>3

-----------------------------------------------------------------------------
(* The invariant, in the form the lemmas on a step use.                     *)
LEMMA InvQueue ==
    ASSUME Inv
    PROVE  /\ Good(QueueState, late) /\ Placed(QueueState) /\ KeptOK(kept)
           /\ \A q \in InQueue(QueueState) :
                 q \in Checks /\ q.m \in Messages /\ q.m.from \in Senders
                 /\ senders[q.m.from].count > 0
           /\ ToSet(kept) \subseteq Messages /\ ToSet(backlog) \subseteq Messages
           /\ handled \in [Senders -> Seq(Nat)] /\ arrived \in [Senders -> Nat]
<1>1. Good(QueueState, late) /\ Placed(QueueState) /\ KeptOK(kept)
  BY DEF Inv, Good, TypeInv, QueueInv, Order, KeptOK, Copies
<1>2. \A q \in InQueue(QueueState) :
         q \in Checks /\ q.m.from \in Senders /\ QueueState.senders[q.m.from].count > 0
  BY <1>1, CountPositive DEF Good
<1>3. ToSet(kept) \subseteq Messages /\ ToSet(backlog) \subseteq Messages
  BY MemberFacts DEF Inv, TypeInv
<1> QED BY <1>1, <1>2, <1>3, CheckFields, QueueStateIs DEF Inv, TypeInv

LEMMA GoodPrimed ==
    ASSUME Good(QueueState', late'), Placed(QueueState'), members' = members, moved' = moved
    PROVE  QueueInv' /\ InOrder(QueueState, late)' /\ (QueueState \in QState)'
<1>1. Placed(QueueState)'
  BY DEF Placed, lane_for
<1> QED BY <1>1 DEF Good, QueueInv

LEMMA OrderStays ==
    ASSUME OrderPerSender, handled' = handled, late \subseteq late' PROVE OrderPerSender'
BY DEF OrderPerSender

LEMMA AfterStays ==
    ASSUME handled' = handled, NEW x, After(x) PROVE After(x)'
BY DEF After

(* A message comes in that is seen, late or newer than any of its sender:   *)
(* dropped, handled or set aside, it keeps the invariant.                   *)
Comes(m) ==
    /\ process_inbound(m)
    /\ arrived' \in [Senders -> Nat] /\ \A s \in Senders : arrived[s] <= arrived'[s]
    /\ m.n <= arrived'[m.from]
    /\ m \in seen \/ m \in late \/ m.n > arrived[m.from]
    /\ budget' \in [script : [Senders -> Seq(Kinds)], restarts : Nat, dups : Nat,
                    movers : SUBSET Senders]

LEMMA ComesFacts ==
    ASSUME Inv, NEW m \in Messages, Comes(m)
    PROVE  /\ ~restoring /\ seen' = seen \cup {m}
           /\ UNCHANGED <<members, backlog, restoring, moved, dropped, late>>
           /\ \A x \in seen \cup late \cup ToSet(kept) \cup ToSet(backlog) : x.n <= arrived'[x.from]
           /\ \A s \in Senders : \A i \in DOMAIN handled[s] : handled[s][i] <= arrived'[s]
           /\ m \notin seen => m \in late \/
                 /\ After(m) /\ m \notin late /\ m \notin ToSet(kept)
                 /\ \A x \in ToSet(kept) : x.from = m.from => x.n < m.n
                 /\ \A q \in InQueue(QueueState) : q.m.from = m.from => q.m.n < m.n
           /\ ToSet(backlog) \subseteq late
<1>1. /\ ~restoring /\ seen' = seen \cup {m}
      /\ UNCHANGED <<members, backlog, restoring, moved, dropped, late>>
  BY DEF Comes, process_inbound
<1>2. /\ seen \subseteq Messages /\ late \subseteq Messages
      /\ ToSet(kept) \subseteq Messages /\ ToSet(backlog) \subseteq Messages
      /\ \A q \in InQueue(QueueState) : q.m \in Messages
      /\ handled \in [Senders -> Seq(Nat)] /\ arrived \in [Senders -> Nat]
  BY InvQueue DEF Inv, TypeInv
<1>3. \A x \in Messages : x.from \in Senders /\ x.n \in Nat
  BY DEF Messages
<1>4. \A x \in seen \cup late \cup ToSet(kept) \cup ToSet(backlog) :
          x.n <= arrived[x.from] /\ x \in Messages
  BY <1>2 DEF Inv, Arrived
<1>5. \A s \in Senders : \A i \in DOMAIN handled[s] : handled[s][i] <= arrived[s] /\ handled[s][i] \in Nat
  BY <1>2, MemberFacts DEF Inv, Arrived
<1>6. \A s \in Senders : arrived[s] <= arrived'[s] /\ arrived[s] \in Nat /\ arrived'[s] \in Nat
  BY <1>2 DEF Comes
<1>7. \A x \in seen \cup late \cup ToSet(kept) \cup ToSet(backlog) : x.n <= arrived'[x.from]
  BY <1>3, <1>4, <1>6
<1>8. \A s \in Senders : \A i \in DOMAIN handled[s] : handled[s][i] <= arrived'[s]
  BY <1>5, <1>6
<1>9. ASSUME m \notin seen, m \notin late
      PROVE  /\ After(m) /\ m \notin ToSet(kept)
             /\ \A x \in ToSet(kept) : x.from = m.from => x.n < m.n
             /\ \A q \in InQueue(QueueState) : q.m.from = m.from => q.m.n < m.n
  <2>1. m.n > arrived[m.from] /\ m.from \in Senders /\ m.n \in Nat
    BY <1>3, <1>9 DEF Comes
  <2>2. After(m)
    BY <1>5, <1>6, <2>1 DEF After
  <2>3. \A x \in ToSet(kept) \cup seen : x.from = m.from => x.n < m.n
    BY <1>3, <1>4, <1>6, <2>1
  <2>4. \A q \in InQueue(QueueState) : q.m \in seen
    BY DEF Inv, Arrived
  <2>5. m \notin ToSet(kept)
    BY <2>1, <2>3
  <2> QED BY <2>2, <2>3, <2>4, <2>5
<1>10. ToSet(backlog) \subseteq late
  BY <1>1 DEF Inv, Copies
<1> QED BY <1>1, <1>7, <1>8, <1>9, <1>10

LEMMA ComesToNothing ==
    ASSUME Inv, NEW m \in Messages, Comes(m),
           UNCHANGED <<queue, kept, handled, unkept, aside>>
    PROVE  Inv'
<1>1. QueueState' = QueueState
  BY QueueStays
<1>2. /\ seen' = seen \cup {m} /\ UNCHANGED <<members, backlog, restoring, moved, dropped, late>>
      /\ \A x \in seen \cup late \cup ToSet(kept) \cup ToSet(backlog) : x.n <= arrived'[x.from]
      /\ \A s \in Senders : \A i \in DOMAIN handled[s] : handled[s][i] <= arrived'[s]
  BY ComesFacts
<1>3. TypeInv'
  BY <1>1, <1>2 DEF Inv, TypeInv, Comes
<1>4. QueueInv' /\ InOrder(QueueState, late)'
  BY <1>1, <1>2, InvQueue, GoodPrimed
<1>5. Arrived'
  BY <1>1, <1>2 DEF Inv, Arrived, Comes
<1>6. Copies'
  <2>1. \A x \in ToSet(kept) : x \in seen' \/ x \in ToSet(backlog)
    BY <1>2 DEF Inv, Copies
  <2>2. \A x : Waits(x)' <=> Waits(x)
    BY <1>1 DEF Waits
  <2> QED BY <1>2, <2>1, <2>2 DEF Inv, Copies, Distinct
<1>7. Order'
  <2>1. ListInOrder(kept)' /\ ListInOrder(backlog)'
    BY <1>2 DEF Inv, Order, ListInOrder
  <2> QED BY <1>1, <1>2, <1>4, <2>1 DEF Inv, Order, After
<1>8. OrderPerSender'
  BY <1>2, OrderStays DEF Inv
<1>9. Survival'
  BY <1>2 DEF Inv, Survival
<1> QED BY <1>3, <1>4, <1>5, <1>6, <1>7, <1>8, <1>9 DEF Inv

LEMMA ComesToAnAnswer ==
    ASSUME Inv, NEW m \in Messages, Comes(m), m \notin seen,
           senders[m.from].count = 0, Handle(m), UNCHANGED <<queue, kept, unkept, aside>>
    PROVE  Inv'
<1>1. QueueState' = QueueState
  BY QueueStays
<1>2. /\ ~restoring /\ seen' = seen \cup {m}
      /\ UNCHANGED <<members, backlog, restoring, moved, dropped, late>>
      /\ \A x \in seen \cup late \cup ToSet(kept) \cup ToSet(backlog) : x.n <= arrived'[x.from]
      /\ \A s \in Senders : \A i \in DOMAIN handled[s] : handled[s][i] <= arrived'[s]
      /\ m \in late \/ After(m)
      /\ ToSet(backlog) \subseteq late
  BY ComesFacts
<1>0. handled \in [Senders -> Seq(Nat)] /\ m.from \in Senders
  BY DEF Inv, TypeInv, Messages
<1>3. TypeInv'
  BY <1>0, <1>1, <1>2, HandleFacts DEF Inv, TypeInv, Comes
<1>4. QueueInv' /\ InOrder(QueueState, late)'
  BY <1>1, <1>2, InvQueue, GoodPrimed
<1>5. Arrived'
  <2>1. ASSUME NEW s \in Senders, NEW i \in DOMAIN handled'[s] PROVE handled'[s][i] <= arrived'[s]
    <3>1. CASE s # m.from
      BY <1>0, <1>2, <3>1, HandleFacts
    <3>2. CASE s = m.from
      <4>1. i \in DOMAIN handled[s] \/ i = Len(handled[s]) + 1
        BY <1>0, <3>2, HandleFacts
      <4> QED BY <1>0, <1>2, <3>2, <4>1, HandleFacts DEF Comes
    <3> QED BY <3>1, <3>2
  <2> QED BY <1>1, <1>2, <2>1 DEF Inv, Arrived, Comes
<1>6. Copies'
  <2>1. \A x \in ToSet(kept) : x \in seen' \/ x \in ToSet(backlog)
    BY <1>2 DEF Inv, Copies
  <2>2. \A x : Waits(x)' <=> Waits(x)
    BY <1>1 DEF Waits
  <2> QED BY <1>2, <2>1, <2>2 DEF Inv, Copies, Distinct
<1>7. Order'
  <2>1. ListInOrder(kept)' /\ ListInOrder(backlog)'
    BY <1>2 DEF Inv, Order, ListInOrder
  <2>2. ASSUME NEW q \in InQueue(QueueState), q.m \notin late PROVE After(q.m)'
    <3>1. q.m \in Messages /\ q.m.from # m.from /\ After(q.m)
      BY <2>2, InvQueue DEF Inv, Order
    <3> QED BY <1>0, <3>1, HandleAfter
  <2> QED BY <1>1, <1>2, <1>4, <2>1, <2>2 DEF Order
<1>8. OrderPerSender'
  BY <1>0, <1>2, HandleOrder DEF Inv
<1>9. Survival'
  <2>1. \A x \in Messages : ToSet(handled[x.from]) \subseteq ToSet(handled'[x.from])
    <3> TAKE x \in Messages
    <3>1. x.from \in Senders
      BY DEF Messages
    <3>2. CASE x.from = m.from
      BY <1>0, <3>2, HandleFacts
    <3>3. CASE x.from # m.from
      BY <1>0, <3>1, <3>3, HandleFacts
    <3> QED BY <3>2, <3>3
  <2>2. aside \subseteq Messages
    BY DEF Inv, TypeInv
  <2> QED BY <1>2, <2>1, <2>2 DEF Inv, Survival
<1> QED BY <1>3, <1>4, <1>5, <1>6, <1>7, <1>8, <1>9 DEF Inv

LEMMA ComesToWait ==
    ASSUME Inv, NEW m \in Messages, Comes(m), m \notin seen,
           NEW q \in Checks, q.m = m, Added(QueueState, kept, q, late), handled' = handled
    PROVE  Inv'
<1>1. /\ Good(QueueState', late) /\ InQueue(QueueState') = InQueue(QueueState) \cup {q}
      /\ Placed(QueueState')
      /\ \/ kept' = kept
         \/ kept' = Append(kept, m) /\ m \notin ToSet(kept) /\ m.from \in members
      /\ KeptOK(kept')
      /\ unkept \subseteq unkept' /\ unkept' \subseteq unkept \cup {m}
      /\ aside' = (IF m.from \in members THEN aside \cup {m} ELSE aside)
      /\ m.from \in members => m \in ToSet(kept') \cup unkept'
  BY DEF Added
<1>2. /\ ~restoring /\ seen' = seen \cup {m}
      /\ UNCHANGED <<members, backlog, restoring, moved, dropped, late>>
      /\ \A x \in seen \cup late \cup ToSet(kept) \cup ToSet(backlog) : x.n <= arrived'[x.from]
      /\ \A s \in Senders : \A i \in DOMAIN handled[s] : handled[s][i] <= arrived'[s]
      /\ m \in late \/ (/\ After(m) /\ m \notin ToSet(kept)
                        /\ \A x \in ToSet(kept) : x.from = m.from => x.n < m.n)
      /\ ToSet(backlog) \subseteq late
  BY ComesFacts
<1>0. /\ kept \in Seq(Messages) /\ ToSet(kept') \subseteq ToSet(kept) \cup {m}
      /\ ToSet(kept) \subseteq ToSet(kept')
  <2>1. kept \in Seq(Messages)
    BY DEF Inv, TypeInv
  <2>2. ToSet(Append(kept, m)) = ToSet(kept) \cup {m}
    BY <2>1, AppendFacts
  <2> QED BY <1>1, <2>1, <2>2
<1>3. TypeInv'
  BY <1>1, <1>2 DEF Inv, TypeInv, Comes, Good, KeptOK
<1>4. QueueInv' /\ InOrder(QueueState, late)'
  BY <1>1, <1>2, GoodPrimed
<1>5. Arrived'
  BY <1>0, <1>1, <1>2 DEF Inv, Arrived, Comes
<1>6. Copies'
  <2>1. \A x \in ToSet(kept') : x \in seen' \/ x \in ToSet(backlog')
    BY <1>0, <1>2 DEF Inv, Copies
  <2>2. ASSUME NEW x \in ToSet(kept') \ late PROVE Waits(x)' \/ x \in ToSet(backlog')
    <3>1. CASE x = m
      <4>1. q \in InQueue(QueueState')
        BY <1>1
      <4> QED BY <3>1, <4>1 DEF Waits
    <3>2. CASE x # m
      <4>1. Waits(x)
        BY <1>0, <1>2, <2>2, <3>2 DEF Inv, Copies
      <4> QED BY <1>1, <4>1 DEF Waits
    <3> QED BY <3>1, <3>2
  <2>3. Distinct(kept)'
    BY <1>1 DEF KeptOK, Distinct
  <2> QED BY <1>2, <2>1, <2>2, <2>3 DEF Copies
<1>7. Order'
  <2>1. ListInOrder(kept')
    <3>1. CASE kept' = kept
      BY <3>1 DEF Inv, Order
    <3>2. CASE kept' = Append(kept, m)
      BY <1>0, <1>2, <3>2, ListAppend DEF Inv, Order
    <3> QED BY <1>1, <3>1, <3>2
  <2>2. ListInOrder(kept)' /\ ListInOrder(backlog)'
    BY <1>2, <2>1 DEF Inv, Order, ListInOrder
  <2>3. \A p \in InQueue(QueueState') : p.m \in late \/ After(p.m)
    BY <1>1, <1>2 DEF Inv, Order
  <2>4. \A p \in InQueue(QueueState') : p.m \in late' \/ After(p.m)'
    BY <1>2, <2>3, AfterStays
  <2> QED BY <1>2, <1>4, <2>2, <2>4 DEF Order
<1>8. OrderPerSender'
  BY <1>2, OrderStays DEF Inv
<1>9. Survival'
  <2>1. \A x \in aside' : x.from \in members' \cup moved'
    BY <1>1, <1>2 DEF Inv, Survival
  <2>2. ASSUME NEW x \in aside' \ (dropped' \cup unkept')
        PROVE  \/ x \in ToSet(kept')
               \/ x.n \in ToSet(handled'[x.from])
               \/ x.from \in moved' \ members'
    <3>1. CASE x = m /\ m.from \in members
      BY <1>1, <3>1, <2>2
    <3>2. CASE x \in aside
      BY <1>0, <1>1, <1>2, <2>2, <3>2 DEF Inv, Survival
    <3> QED BY <1>1, <2>2, <3>1, <3>2
  <2> QED BY <1>2, <2>1, <2>2 DEF Inv, Survival
<1> QED BY <1>3, <1>4, <1>5, <1>6, <1>7, <1>8, <1>9 DEF Inv

LEMMA ComesKeeps ==
    ASSUME Inv, NEW m \in Messages, Comes(m)
    PROVE  Inv'
<1>0. m \in seen \/ m \in late
      \/ \A p \in InQueue(QueueState) : p.m.from = m.from => p.m.n < m.n
  BY ComesFacts
<1>1. CASE UNCHANGED <<queue, kept, handled, unkept, aside>>
  BY <1>1, ComesToNothing
<1>2. CASE m \notin seen /\ senders[m.from].count = 0 /\ Handle(m)
           /\ UNCHANGED <<queue, kept, unkept, aside>>
  BY <1>2, ComesToAnAnswer
<1>3. ASSUME m \notin seen, NEW check \in BOOLEAN, handled' = handled,
             queue_for_check(QueueState, kept, [m |-> m, check |-> check])
      PROVE  Inv'
  <2> DEFINE q == [m |-> m, check |-> check]
  <2>1. q \in Checks /\ q.m = m
    BY DEF Checks
  <2>2. m \in late \/ \A p \in InQueue(QueueState) : p.m.from = m.from => p.m.n < m.n
    BY <1>0, <1>3
  <2> HIDE DEF q
  <2>3. \/ /\ Refuses(QueueState, q, lane_for(q.m.from))
           /\ QueueState' = QueueState /\ kept' = kept /\ UNCHANGED <<unkept, aside>>
        \/ ~Refuses(QueueState, q, lane_for(q.m.from)) /\ Added(QueueState, kept, q, late)
    <3>1. queue_for_check(QueueState, kept, q)
      BY <1>3 DEF q
    <3> QED BY <2>1, <2>2, <3>1, InvQueue, QueueForCheck
  <2>4. CASE QueueState' = QueueState /\ kept' = kept /\ UNCHANGED <<unkept, aside>>
    <3>1. UNCHANGED queue
      BY <2>4 DEF QueueState, queue
    <3> QED BY <1>1, <1>3, <2>4, <3>1
  <2> QED BY <1>3, <2>1, <2>3, <2>4, ComesToWait
<1>4. \/ UNCHANGED <<queue, kept, handled, unkept, aside>>
      \/ m \notin seen /\ senders[m.from].count = 0 /\ Handle(m)
         /\ UNCHANGED <<queue, kept, unkept, aside>>
      \/ m \notin seen /\ handled' = handled /\ \E check \in BOOLEAN :
            queue_for_check(QueueState, kept, [m |-> m, check |-> check])
  BY DEF Comes, process_inbound
<1> QED BY <1>1, <1>2, <1>3, <1>4

LEMMA ArriveKeeps == ASSUME Inv, NEW s \in Senders, Arrive(s) PROVE Inv'
<1> DEFINE n == arrived[s] + 1
           m == [from |-> s, n |-> n, kind |-> budget.script[s][n]]
<1>1. /\ n <= Len(budget.script[s]) /\ arrived' = [arrived EXCEPT ![s] = n]
      /\ process_inbound(m) /\ budget' = budget
  BY DEF Arrive
<1>2. arrived \in [Senders -> Nat] /\ budget.script[s] \in Seq(Kinds)
      /\ budget \in [script : [Senders -> Seq(Kinds)], restarts : Nat, dups : Nat,
                     movers : SUBSET Senders]
  BY DEF Inv, TypeInv
<1>3. n \in Nat \ {0} /\ n \in 1 .. Len(budget.script[s])
  BY <1>1, <1>2
<1>4. budget.script[s][n] \in Kinds
  BY <1>2, <1>3, ElementOfSeq
<1>5. m \in Messages /\ m.from = s /\ m.n = n
  BY <1>3, <1>4 DEF Messages
<1> HIDE DEF m
<1>6. Comes(m)
  BY <1>1, <1>2, <1>3, <1>5 DEF Comes
<1> QED BY <1>5, <1>6, ComesKeeps

LEMMA RedeliverKeeps == ASSUME Inv, Redeliver PROVE Inv'
<1>1. PICK m \in ToSet(kept) : process_inbound(m)
  BY DEF Redeliver
<1>2. /\ budget' = [budget EXCEPT !.dups = @ - 1] /\ budget.dups > 0 /\ arrived' = arrived
  BY DEF Redeliver
<1>3. /\ budget \in [script : [Senders -> Seq(Kinds)], restarts : Nat, dups : Nat,
                     movers : SUBSET Senders]
      /\ arrived \in [Senders -> Nat]
  BY DEF Inv, TypeInv
<1>4. budget' \in [script : [Senders -> Seq(Kinds)], restarts : Nat, dups : Nat,
                   movers : SUBSET Senders]
  <2>1. budget.dups - 1 \in Nat
    BY <1>2, <1>3
  <2> QED BY <1>2, <1>3, <2>1
<1>5. m \in Messages /\ m.n <= arrived[m.from]
  BY <1>1, InvQueue DEF Inv, Arrived
<1>6. m \in seen \/ m \in late
  <2>1. ~restoring
    BY <1>1 DEF process_inbound
  <2> QED BY <1>1, <2>1 DEF Inv, Copies
<1>7. Comes(m)
  <2>1. \A s \in Senders : arrived[s] <= arrived'[s]
    BY <1>2, <1>3
  <2> QED BY <1>1, <1>2, <1>3, <1>4, <1>5, <1>6, <2>1 DEF Comes
<1> QED BY <1>5, <1>7, ComesKeeps

-----------------------------------------------------------------------------
(* A check returns.                                                         *)
LEMMA InOrderMore ==
    ASSUME NEW v, NEW L, NEW M, L \subseteq M, InOrder(v, L) PROVE InOrder(v, M)
BY DEF InOrder, LaneInOrder, RunsFirst

LEMMA ReturnFacts ==
    ASSUME Inv, ~restoring, running # None
    PROVE  LET m == running.m
               v == finished(QueueState)
               k == RemoveFirst(kept, m)
           IN /\ running \in Checks /\ m \in Messages /\ m.from \in Senders
              /\ Good(v, late) /\ Placed(v)
              /\ InQueue(v) \subseteq InQueue(QueueState)
              /\ InQueue(QueueState) \subseteq InQueue(v) \cup {running}
              /\ \A p \in InQueue(v) : p.m.from = m.from /\ p.m \notin late => m.n < p.m.n
              /\ v.senders[m.from].count < SenderCap /\ Len(v.priority) < PriorityCap
              /\ v.senders[m.from].count \in Nat
              /\ KeptOK(k) /\ ListInOrder(k) /\ ToSet(k) = ToSet(kept) \ {m}
              /\ m \in seen /\ m.n <= arrived[m.from] /\ (m \in late \/ After(m))
<1> DEFINE m == running.m
           v == finished(QueueState)
           k == RemoveFirst(kept, m)
           u == QueueState
<1>1. Good(u, late) /\ Placed(u) /\ KeptOK(kept) /\ u.running = running /\ u.senders = senders
  BY InvQueue, QueueStateIs
<1>2. running \in InQueue(u)
  BY <1>1 DEF InQueue
<1>3. running \in Checks /\ m \in Messages /\ m.from \in Senders /\ senders[m.from].count > 0
  BY <1>2, InvQueue
<1>4. m \in seen /\ m.n <= arrived[m.from] /\ (m \in late \/ After(m))
  BY <1>2 DEF Inv, Arrived, Order
<1> HIDE DEF u
<1>5. LET w == finished(u)
          s == u.running.m.from
      IN  /\ w \in QState /\ Counted(w) /\ OneLane(w) /\ Capped(w) /\ Idle(w)
          /\ InOrder(w, late)
          /\ InQueue(w) \subseteq InQueue(u) /\ InQueue(u) \subseteq InQueue(w) \cup {u.running}
          /\ \A p \in InQueue(w) :
                p.m.from = s /\ p.m \notin late => u.running.m.n < p.m.n
          /\ \A t \in Senders \ {s} : w.senders[t] = u.senders[t]
          /\ w.senders[s].count = u.senders[s].count - 1
          /\ w.senders[s].count > 0 => w.senders[s].lane = u.senders[s].lane
          /\ Len(w.priority) < PriorityCap
  BY <1>1, FinishedKeeps DEF Good
<1>6. v = finished(u)
  BY DEF u
<1> HIDE DEF v
<1>7. /\ Good(v, late) /\ InQueue(v) \subseteq InQueue(u) /\ InQueue(u) \subseteq InQueue(v) \cup {running}
      /\ \A p \in InQueue(v) : p.m.from = m.from /\ p.m \notin late => m.n < p.m.n
      /\ \A t \in Senders \ {m.from} : v.senders[t] = senders[t]
      /\ v.senders[m.from].count = senders[m.from].count - 1
      /\ v.senders[m.from].count > 0 => v.senders[m.from].lane = senders[m.from].lane
      /\ Len(v.priority) < PriorityCap
  BY <1>1, <1>5, <1>6 DEF Good
<1>8. senders[m.from].count \in Nat /\ senders[m.from].count <= SenderCap /\ SenderCap \in Nat
  BY <1>1, <1>3, QStateFields, VerifyQueueAssumption DEF Good, Capped
<1>9. v.senders[m.from].count < SenderCap /\ v.senders[m.from].count \in Nat
  BY <1>3, <1>7, <1>8
<1>10. Placed(v)
  <2> SUFFICES ASSUME NEW s \in Senders \ moved, v.senders[s].count > 0
               PROVE  v.senders[s].lane = lane_for(s)
    BY DEF Placed
  <2>1. senders[s].count > 0 /\ v.senders[s].lane = senders[s].lane
    BY <1>3, <1>7
  <2> QED BY <1>1, <2>1 DEF Placed
<1>11. /\ k \in Seq(Messages) /\ Len(k) <= Len(kept) /\ ToSet(k) = ToSet(kept) \ {m}
       /\ \A i, j \in DOMAIN k : i < j =>
             \E a, b \in DOMAIN kept : a < b /\ k[i] = kept[a] /\ k[j] = kept[b]
       /\ DOMAIN k = 1 .. Len(k) /\ Len(k) \in Nat /\ Len(kept) \in Nat /\ KeptCap \in Nat
  <2>1. kept \in Seq(Messages) /\ Distinct(kept)
    BY <1>1 DEF KeptOK
  <2>2. /\ k \in Seq(Messages) /\ Len(k) <= Len(kept) /\ ToSet(k) = ToSet(kept) \ {m}
        /\ \A i, j \in DOMAIN k : i < j =>
              \E a, b \in DOMAIN kept : a < b /\ k[i] = kept[a] /\ k[j] = kept[b]
    BY <2>1, RemoveFacts
  <2> QED BY <2>1, <2>2, MemberFacts, VerifyQueueAssumption
<1> HIDE DEF k
<1>12. Distinct(k)
  <2> SUFFICES ASSUME NEW i \in DOMAIN k, NEW j \in DOMAIN k, i # j PROVE k[i] # k[j]
    BY DEF Distinct
  <2>1. i < j \/ j < i
    BY <1>11
  <2>2. \A a, b \in DOMAIN kept : a < b => kept[a] # kept[b]
    <3>1. DOMAIN kept \subseteq Nat
      BY <1>1, MemberFacts DEF KeptOK
    <3> QED BY <1>1, <3>1 DEF KeptOK, Distinct
  <2> QED BY <1>11, <2>1, <2>2
<1>13. ListInOrder(k)
  BY <1>11 DEF ListInOrder, Inv, Order
<1>14. KeptOK(k)
  BY <1>1, <1>11, <1>12 DEF KeptOK
<1> QED BY <1>3, <1>4, <1>7, <1>9, <1>10, <1>11, <1>13, <1>14 DEF v, k, u

(* What both outcomes share: the message's place is free and its copy gone. *)
LEMMA ReturnCopies ==
    ASSUME Inv, ~restoring, running # None, late \subseteq late', seen' = seen, backlog' = backlog,
           InQueue(finished(QueueState)) \subseteq InQueue(QueueState'),
           KeptOK(kept'), ToSet(kept') \subseteq ToSet(kept) \cup {running.m},
           running.m \in late' \/ running.m \notin ToSet(kept')
    PROVE  Copies'
<1>1. /\ running.m \in seen
      /\ InQueue(QueueState) \subseteq InQueue(finished(QueueState)) \cup {running}
  BY ReturnFacts
<1>2. ToSet(backlog) \subseteq late
  BY DEF Inv, Copies
<1>3. \A x \in ToSet(kept') : x \in seen' \/ x \in ToSet(backlog')
  BY <1>1 DEF Inv, Copies
<1>4. ASSUME NEW x \in ToSet(kept') \ late' PROVE Waits(x)'
  <2>1. x # running.m /\ x \in ToSet(kept) /\ x \notin late
    BY <1>4
  <2>2. Waits(x)
    BY <1>2, <2>1 DEF Inv, Copies
  <2>3. PICK p \in InQueue(QueueState) : p.m = x
    BY <2>2 DEF Waits
  <2>4. p \in InQueue(QueueState')
    BY <1>1, <2>1, <2>3
  <2> QED BY <2>3, <2>4 DEF Waits
<1>5. Distinct(kept)'
  BY DEF KeptOK, Distinct
<1> QED BY <1>2, <1>3, <1>4, <1>5 DEF Copies

LEMMA ReturnHandled ==
    ASSUME Inv, ~restoring, running # None,
           Become(finished(QueueState)), kept' = RemoveFirst(kept, running.m), Handle(running.m),
           UNCHANGED <<dropped, unkept, aside, late>>,
           restoring' = (backlog # <<>>), UNCHANGED <<members, seen, backlog, bounds>>
    PROVE  Inv'
<1> DEFINE m == running.m
           v == finished(QueueState)
<1>1. /\ m \in Messages /\ m.from \in Senders
      /\ Good(v, late) /\ Placed(v)
      /\ InQueue(v) \subseteq InQueue(QueueState)
      /\ \A p \in InQueue(v) : p.m.from = m.from /\ p.m \notin late => m.n < p.m.n
      /\ KeptOK(kept') /\ ListInOrder(kept') /\ ToSet(kept') = ToSet(kept) \ {m}
      /\ m.n <= arrived[m.from] /\ (m \in late \/ After(m))
  BY ReturnFacts
<1>2. QueueState' = v
  BY <1>1, BecomeIs DEF Good
<1>3. UNCHANGED <<members, moved, seen, backlog, late, arrived, budget, aside, dropped, unkept>>
  BY DEF bounds
<1>4. handled \in [Senders -> Seq(Nat)] /\ \A p \in InQueue(v) : p.m \in Messages
  BY <1>1, InvQueue
<1> HIDE DEF m, v
<1>5. QueueInv' /\ InOrder(QueueState, late)' /\ (QueueState \in QState)'
  BY <1>1, <1>2, <1>3, GoodPrimed
<1>6. TypeInv'
  <2>1. handled' \in [Senders -> Seq(Nat)]
    BY <1>1, <1>4, HandleFacts DEF m
  <2> QED BY <1>1, <1>3, <1>5, <2>1 DEF Inv, TypeInv, KeptOK
<1>7. Arrived'
  <2>1. ASSUME NEW s \in Senders, NEW i \in DOMAIN handled'[s] PROVE handled'[s][i] <= arrived[s]
    <3>1. CASE s # m.from
      <4>1. handled'[s] = handled[s]
        BY <1>1, <1>4, <3>1, HandleFacts DEF m
      <4> QED BY <4>1 DEF Inv, Arrived
    <3>2. CASE s = m.from
      <4>1. i \in DOMAIN handled[s] \/ i = Len(handled[s]) + 1
        <5>1. /\ DOMAIN handled[s] = 1 .. Len(handled[s]) /\ Len(handled[s]) \in Nat
              /\ DOMAIN handled'[s] = 1 .. (Len(handled[s]) + 1)
          BY <1>1, <1>4, <3>2, HandleFacts DEF m
        <5> QED BY <5>1
      <4>2. \A a \in DOMAIN handled[s] : handled'[s][a] = handled[s][a]
        BY <1>1, <1>4, <3>2, HandleFacts DEF m
      <4>3. handled'[s][Len(handled[s]) + 1] = m.n
        BY <1>1, <1>4, <3>2, HandleFacts DEF m
      <4> QED BY <1>1, <3>2, <4>1, <4>2, <4>3 DEF Inv, Arrived
    <3> QED BY <3>1, <3>2
  <2> QED BY <1>1, <1>2, <1>3, <2>1 DEF Inv, Arrived
<1>8. Copies'
  BY <1>1, <1>2, <1>3, ReturnCopies DEF m, v
<1>9. Order'
  <2>1. ListInOrder(kept)' /\ ListInOrder(backlog)'
    BY <1>1, <1>3 DEF Inv, Order, ListInOrder
  <2>2. ASSUME NEW q \in InQueue(v), q.m \notin late PROVE After(q.m)'
    <3>1. q.m \in Messages /\ (q.m.from = m.from => m.n < q.m.n) /\ After(q.m)
      BY <1>1, <1>4, <2>2 DEF Inv, Order
    <3> QED BY <1>1, <1>4, <3>1, HandleAfter DEF m
  <2>3. ToSet(backlog) \subseteq late
    BY DEF Inv, Copies
  <2> QED BY <1>2, <1>3, <1>5, <2>1, <2>2, <2>3 DEF Order
<1>10. OrderPerSender'
  BY <1>1, <1>3, <1>4, HandleOrder DEF Inv, m
<1>11. Survival'
  <2>1. \A x \in Messages : ToSet(handled[x.from]) \subseteq ToSet(handled'[x.from])
    <3> TAKE x \in Messages
    <3>1. x.from \in Senders
      BY DEF Messages
    <3>2. CASE x.from = m.from
      BY <1>1, <1>4, <3>2, HandleFacts DEF m
    <3>3. CASE x.from # m.from
      BY <1>1, <1>4, <3>1, <3>3, HandleFacts DEF m
    <3> QED BY <3>2, <3>3
  <2>2. m.n \in ToSet(handled'[m.from])
    BY <1>1, <1>4, HandleFacts DEF m
  <2>3. aside \subseteq Messages
    BY DEF Inv, TypeInv
  <2>4. ASSUME NEW x \in aside' \ (dropped' \cup unkept')
        PROVE  \/ x \in ToSet(kept') \/ x.n \in ToSet(handled'[x.from])
               \/ x.from \in moved' \ members'
    <3>1. CASE x = m
      BY <2>2, <3>1
    <3>2. CASE x # m
      BY <1>1, <1>3, <2>1, <2>3, <2>4, <3>2 DEF Inv, Survival
    <3> QED BY <3>1, <3>2
  <2> QED BY <1>3, <2>4 DEF Inv, Survival
<1> QED BY <1>5, <1>6, <1>7, <1>8, <1>9, <1>10, <1>11 DEF Inv

(* Room: a message that is set aside again, from a community whose          *)
(* membership has not changed, can only be refused by the rate on requests. *)
LEMMA RoomForRecheck ==
    ASSUME Inv, ~restoring, running # None,
           NEW q \in Checks, q.m = running.m, q.m.from \in members \ moved,
           Refuses(finished(QueueState), q, lane_for(q.m.from))
    PROVE  q.m.kind = "request"
<1> DEFINE v == finished(QueueState)
           s == q.m.from
<1>1. /\ s \in Senders /\ Placed(v) /\ v.senders[s].count < SenderCap
      /\ Len(v.priority) < PriorityCap /\ v.senders[s].count \in Nat
      /\ Len(v.priority) \in Nat
  <2>1. Good(v, late)
    BY ReturnFacts
  <2>2. Len(v.priority) \in Nat
    BY <2>1, QStateFields, MemberFacts DEF Good
  <2> QED BY <2>2, ReturnFacts
<1>2. lane_for(s) = "Priority"
  BY DEF lane_for
<1> HIDE DEF v
<1>3. LaneOf(v, s, lane_for(s)) = "Priority"
  BY <1>1, <1>2 DEF LaneOf, Placed
<1>4. ~ is_full_for(v, s, lane_for(s))
  <2>1. SenderCap \in Nat /\ PriorityCap \in Nat
    BY VerifyQueueAssumption
  <2> HIDE DEF s
  <2> QED BY <1>1, <1>3, <2>1 DEF is_full_for
<1>5. IsRequest(q)
  BY <1>4 DEF Refuses, v
<1> QED BY <1>5 DEF IsRequest

LEMMA ReturnRechecked ==
    ASSUME Inv, ~restoring, running # None,
           NEW q \in Checks, q.m = running.m,
           queue_for_check(finished(QueueState), RemoveFirst(kept, running.m), q),
           dropped' = IF Refuses(finished(QueueState), q, lane_for(running.m.from))
                      THEN dropped \cup {running.m} ELSE dropped,
           late' = late \cup {running.m}, UNCHANGED handled,
           restoring' = (backlog # <<>>), UNCHANGED <<members, seen, backlog, bounds>>
    PROVE  Inv'
<1> DEFINE m == running.m
           v == finished(QueueState)
           k == RemoveFirst(kept, m)
           refuses == Refuses(v, q, lane_for(m.from))
<1>1. /\ m \in Messages /\ m.from \in Senders
      /\ Good(v, late) /\ Placed(v)
      /\ InQueue(v) \subseteq InQueue(QueueState)
      /\ KeptOK(k) /\ ListInOrder(k) /\ ToSet(k) = ToSet(kept) \ {m}
      /\ m \in seen /\ m.n <= arrived[m.from]
  BY ReturnFacts
<1>2. UNCHANGED <<members, moved, seen, backlog, arrived, budget>>
  BY DEF bounds
<1>3. Good(v, late') /\ m \in late'
  BY <1>1, InOrderMore DEF Good
<1>x. queue_for_check(v, k, q) /\ dropped' = IF refuses THEN dropped \cup {m} ELSE dropped
  OBVIOUS
<1> HIDE DEF k, v
<1>4. \/ refuses /\ QueueState' = v /\ kept' = k /\ UNCHANGED <<unkept, aside>>
      \/ ~refuses /\ Added(v, k, q, late')
  <2> HIDE DEF m
  <2> USE DEF m
  <2> QED BY <1>1, <1>3, <1>x, QueueForCheck
<1> HIDE DEF refuses, m
<1>5. /\ Good(QueueState', late') /\ Placed(QueueState') /\ KeptOK(kept')
      /\ InQueue(v) \subseteq InQueue(QueueState')
      /\ InQueue(QueueState') \subseteq InQueue(v) \cup {q}
      /\ kept' = k \/ kept' = Append(k, m)
      /\ unkept \subseteq unkept' /\ unkept' \subseteq unkept \cup {m}
      /\ aside \subseteq aside' /\ aside' \subseteq aside \cup {m}
      /\ m \in aside' => m \in aside \/ m.from \in members
      /\ ~refuses /\ m.from \in members => m \in ToSet(kept') \cup unkept'
  <2>1. CASE refuses /\ QueueState' = v /\ kept' = k /\ UNCHANGED <<unkept, aside>>
    BY <1>1, <1>3, <2>1
  <2>2. CASE ~refuses /\ Added(v, k, q, late')
    BY <2>2 DEF Added, m
  <2> QED BY <1>4, <2>1, <2>2
<1>6. ToSet(k) \subseteq ToSet(kept') /\ ToSet(kept') \subseteq ToSet(k) \cup {m}
  <2>1. ToSet(Append(k, m)) = ToSet(k) \cup {m}
    BY <1>1, AppendFacts DEF KeptOK
  <2> QED BY <1>5, <2>1
<1>7. QueueInv' /\ InOrder(QueueState, late)' /\ (QueueState \in QState)'
  BY <1>2, <1>5, GoodPrimed
<1>8. TypeInv'
  <2>1. dropped' \subseteq Messages /\ aside' \subseteq Messages /\ unkept' \subseteq Messages
        /\ late' \subseteq Messages
    BY <1>1, <1>5 DEF Inv, TypeInv, m
  <2> QED BY <1>2, <1>5, <1>7, <2>1 DEF Inv, TypeInv, KeptOK
<1>9. Arrived'
  <2>1. \A p \in InQueue(QueueState') : p.m \in seen
    BY <1>1, <1>5 DEF Inv, Arrived, m
  <2>2. \A x \in late' \cup ToSet(kept') : x.n <= arrived[x.from]
    BY <1>1, <1>6 DEF Inv, Arrived, m
  <2> QED BY <1>2, <2>1, <2>2 DEF Inv, Arrived
<1>10. Copies'
  <2>1. ToSet(kept') \subseteq ToSet(kept) \cup {m}
    BY <1>1, <1>6
  <2> QED BY <1>2, <1>3, <1>5, <2>1, ReturnCopies DEF m, v
<1>11. Order'
  <2>1. ListInOrder(kept)'
    <3>1. \A i, j \in DOMAIN k :
              i < j /\ k[i].from = k[j].from /\ k[j] \notin late' => k[i].n < k[j].n
      BY <1>1 DEF ListInOrder
    <3>2. CASE kept' = k
      BY <3>1, <3>2 DEF ListInOrder
    <3>3. CASE kept' = Append(k, m)
      <4>1. ASSUME NEW i \in DOMAIN kept', NEW j \in DOMAIN kept',
                   i < j, kept'[i].from = kept'[j].from, kept'[j] \notin late'
            PROVE  kept'[i].n < kept'[j].n
        <5>1. /\ DOMAIN k = 1 .. Len(k) /\ DOMAIN kept' = 1 .. (Len(k) + 1) /\ Len(k) \in Nat
              /\ \A a \in 1 .. Len(k) : kept'[a] = k[a]
              /\ kept'[Len(k) + 1] = m
          BY <1>1, <3>3, AppendFacts, MemberFacts DEF KeptOK
        <5>2. j \in DOMAIN k /\ i \in DOMAIN k
          BY <1>3, <4>1, <5>1
        <5> QED BY <3>1, <4>1, <5>1, <5>2 DEF ListInOrder
      <4> QED BY <4>1 DEF ListInOrder
    <3> QED BY <1>5, <3>2, <3>3
  <2>2. ListInOrder(backlog)'
    BY <1>2 DEF Inv, Order, ListInOrder
  <2>3. \A p \in InQueue(QueueState') : p.m \in late' \/ After(p.m)
    BY <1>1, <1>3, <1>5 DEF Inv, Order, m
  <2>4. \A p \in InQueue(QueueState') : p.m \in late' \/ After(p.m)'
    BY <2>3, AfterStays
  <2>5. ToSet(backlog) \subseteq late'
    BY DEF Inv, Copies
  <2> QED BY <1>2, <1>7, <2>1, <2>2, <2>4, <2>5 DEF Order
<1>12. OrderPerSender'
  BY OrderStays DEF Inv
<1>13. Survival'
  <2>1. \A x \in aside' : x.from \in members \cup moved
    BY <1>5 DEF Inv, Survival
  <2>2. refuses => m.kind = "request" \/ m.from \in moved \/ m.from \notin members
    BY RoomForRecheck DEF refuses, m, v
  <2>3. \A x \in dropped' : x.kind = "request" \/ x.from \in moved \/ x.from \notin members
    BY <1>x, <2>2 DEF Inv, Survival
  <2>4. ASSUME NEW x \in aside' \ (dropped' \cup unkept')
        PROVE  \/ x \in ToSet(kept') \/ x.n \in ToSet(handled[x.from])
               \/ x.from \in moved \ members
    <3>1. CASE x = m
      <4>1. ~refuses
        BY <1>x, <2>4, <3>1
      <4> QED BY <1>5, <2>1, <2>4, <3>1, <4>1
    <3>2. CASE x # m
      <4>1. x \in aside /\ x \notin dropped /\ x \notin unkept
        BY <1>5, <1>x, <2>4, <3>2
      <4> QED BY <1>1, <1>6, <3>2, <4>1 DEF Inv, Survival
    <3> QED BY <3>1, <3>2
  <2> QED BY <1>2, <2>1, <2>3, <2>4 DEF Survival
<1> QED BY <1>7, <1>8, <1>9, <1>10, <1>11, <1>12, <1>13 DEF Inv

LEMMA ReturnKeeps == ASSUME Inv, Return PROVE Inv'
<1> DEFINE m == running.m
           q == [m |-> m, check |-> TRUE]
<1>1. ~restoring /\ running # None
  BY DEF Return
<1>2. q \in Checks /\ q.m = m
  BY <1>1, ReturnFacts DEF Checks
<1>3. /\ restoring' = (backlog # <<>>) /\ UNCHANGED <<members, seen, backlog, bounds>>
      /\ \/ /\ queue_for_check(finished(QueueState), RemoveFirst(kept, m), q)
            /\ dropped' = IF Refuses(finished(QueueState), q, lane_for(m.from))
                          THEN dropped \cup {m} ELSE dropped
            /\ late' = late \cup {m} /\ UNCHANGED handled
         \/ /\ Become(finished(QueueState)) /\ kept' = RemoveFirst(kept, m)
            /\ Handle(m) /\ UNCHANGED <<dropped, unkept, aside, late>>
  BY DEF Return
<1> HIDE DEF q
<1> QED BY <1>1, <1>2, <1>3, ReturnRechecked, ReturnHandled

-----------------------------------------------------------------------------
(* What was kept is queued again.                                           *)
LEMMA RestoreStops ==
    ASSUME Inv, restoring, restoring' = FALSE,
           late \subseteq late', late' \subseteq late \cup ToSet(backlog), ToSet(backlog) \subseteq late',
           seen \subseteq seen', seen' \subseteq seen \cup ToSet(backlog),
           UNCHANGED <<queue, kept, backlog, aside, unkept, members, bounds, handled, dropped>>
    PROVE  Inv'
<1>1. QueueState' = QueueState
  BY QueueStays
<1>2. UNCHANGED <<members, moved, arrived, budget, kept, backlog, aside, unkept, handled, dropped>>
  BY DEF bounds
<1>3. Good(QueueState', late') /\ Placed(QueueState') /\ ToSet(backlog) \subseteq Messages
  BY <1>1, InvQueue, InOrderMore DEF Good
<1>4. QueueInv' /\ InOrder(QueueState, late)'
  BY <1>2, <1>3, GoodPrimed
<1>5. TypeInv'
  BY <1>1, <1>2, <1>3 DEF Inv, TypeInv
<1>6. Arrived'
  BY <1>1, <1>2 DEF Inv, Arrived
<1>7. Copies'
  <2>1. \A x : Waits(x)' <=> Waits(x)
    BY <1>1 DEF Waits
  <2> QED BY <1>2, <2>1 DEF Inv, Copies, Distinct
<1>8. Order'
  <2>1. ListInOrder(kept)' /\ ListInOrder(backlog)'
    BY <1>2 DEF Inv, Order, ListInOrder
  <2> QED BY <1>1, <1>2, <1>4, <2>1 DEF Inv, Order, After
<1>9. OrderPerSender'
  BY <1>2, OrderStays DEF Inv
<1>10. Survival'
  BY <1>2 DEF Inv, Survival
<1> QED BY <1>4, <1>5, <1>6, <1>7, <1>8, <1>9, <1>10 DEF Inv

LEMMA BacklogHead ==
    ASSUME Inv, restoring, backlog # <<>>
    PROVE  LET m == Head(backlog)
           IN /\ m \in Messages /\ m.n <= arrived[m.from] /\ m \in ToSet(backlog)
              /\ Tail(backlog) \in Seq(Messages) /\ ListInOrder(Tail(backlog))
              /\ ToSet(backlog) = {m} \cup ToSet(Tail(backlog))
              /\ \A x \in ToSet(Tail(backlog)) : x.from = m.from /\ x \notin late => m.n < x.n
              /\ m \in late \/ (After(m) /\ m \in ToSet(kept))
              /\ \/ m \in late
                 \/ \A q \in InQueue(QueueState) : q.m.from = m.from => q.m.n < m.n
<1> DEFINE m == Head(backlog)
           b == Tail(backlog)
<1>1. backlog \in Seq(Messages) /\ ListInOrder(backlog)
  BY DEF Inv, TypeInv, Order
<1>2. /\ b \in Seq(Messages) /\ m \in Messages /\ m = backlog[1] /\ Len(backlog) \in Nat \ {0}
      /\ \A i \in 1 .. (Len(backlog) - 1) : b[i] = backlog[i + 1]
      /\ ToSet(backlog) = {m} \cup ToSet(b)
      /\ DOMAIN b = 1 .. (Len(backlog) - 1) /\ DOMAIN backlog = 1 .. Len(backlog)
  BY <1>1, TailFacts, MemberFacts
<1> HIDE DEF m, b
<1>3. ListInOrder(b)
  <2> SUFFICES ASSUME NEW i \in DOMAIN b, NEW j \in DOMAIN b,
                      i < j, b[i].from = b[j].from, b[j] \notin late
               PROVE  b[i].n < b[j].n
    BY DEF ListInOrder
  <2>1. i + 1 \in DOMAIN backlog /\ j + 1 \in DOMAIN backlog /\ i + 1 < j + 1
        /\ b[i] = backlog[i + 1] /\ b[j] = backlog[j + 1]
    BY <1>2
  <2> QED BY <1>1, <2>1 DEF ListInOrder
<1>4. ASSUME NEW x \in ToSet(b), x.from = m.from, x \notin late PROVE m.n < x.n
  <2>1. PICK i \in DOMAIN b : b[i] = x
    BY <1>4 DEF ToSet
  <2>2. i + 1 \in DOMAIN backlog /\ 1 \in DOMAIN backlog /\ 1 < i + 1 /\ backlog[i + 1] = x
    BY <1>2, <2>1
  <2> QED BY <1>1, <1>2, <1>4, <2>2 DEF ListInOrder
<1>5. m \in ToSet(backlog)
  BY <1>2
<1>6. /\ m.n <= arrived[m.from]
      /\ m \in late \/ (After(m) /\ m \in ToSet(kept))
      /\ m \in late \/ \A q \in InQueue(QueueState) : q.m.from = m.from => q.m.n < m.n
  BY <1>5 DEF Inv, Arrived, Copies, Order
<1> QED BY <1>2, <1>3, <1>4, <1>5, <1>6 DEF m, b

LEMMA RestoreQueues ==
    ASSUME Inv, restoring, backlog # <<>>, NEW q \in Checks, q.m = Head(backlog),
           seen' = seen \cup {q.m}, Added(QueueState, kept, q, late),
           backlog' = Tail(backlog), UNCHANGED <<restoring, late, members, bounds, handled, dropped>>
    PROVE  Inv'
<1> DEFINE m == Head(backlog)
<1>1. /\ Good(QueueState', late) /\ InQueue(QueueState') = InQueue(QueueState) \cup {q}
      /\ Placed(QueueState')
      /\ \/ kept' = kept
         \/ kept' = Append(kept, m) /\ m \notin ToSet(kept) /\ m.from \in members
      /\ KeptOK(kept')
      /\ unkept \subseteq unkept' /\ unkept' \subseteq unkept \cup {m}
      /\ aside' = (IF m.from \in members THEN aside \cup {m} ELSE aside)
      /\ m.from \in members => m \in ToSet(kept') \cup unkept'
  BY DEF Added
<1>2. UNCHANGED <<members, moved, arrived, budget, restoring, late, handled, dropped>>
  BY DEF bounds
<1>3. /\ m \in Messages /\ m.n <= arrived[m.from] /\ m \in ToSet(backlog)
      /\ backlog' \in Seq(Messages) /\ ListInOrder(backlog')
      /\ ToSet(backlog) = {m} \cup ToSet(backlog')
      /\ \A x \in ToSet(backlog') : x.from = m.from /\ x \notin late => m.n < x.n
      /\ m \in late \/ (After(m) /\ m \in ToSet(kept))
  BY BacklogHead
<1>x. q.m = m
  OBVIOUS
<1> HIDE DEF m
<1>0. /\ kept \in Seq(Messages) /\ ToSet(kept') \subseteq ToSet(kept) \cup {m}
      /\ ToSet(kept) \subseteq ToSet(kept')
  <2>1. kept \in Seq(Messages)
    BY DEF Inv, TypeInv
  <2>2. ToSet(Append(kept, m)) = ToSet(kept) \cup {m}
    BY <1>3, <2>1, AppendFacts
  <2> QED BY <1>1, <2>1, <2>2
<1>4. QueueInv' /\ InOrder(QueueState, late)' /\ (QueueState \in QState)'
  BY <1>1, <1>2, GoodPrimed
<1>5. TypeInv'
  BY <1>1, <1>2, <1>3, <1>4, <1>x DEF Inv, TypeInv, KeptOK
<1>6. Arrived'
  BY <1>0, <1>1, <1>2, <1>3, <1>x DEF Inv, Arrived
<1>7. Copies'
  <2>1. \A x \in ToSet(kept') : x \in seen' \/ x \in ToSet(backlog')
    BY <1>0, <1>3, <1>x DEF Inv, Copies
  <2>2. ASSUME NEW x \in ToSet(kept') \ late PROVE Waits(x)' \/ x \in ToSet(backlog')
    <3>1. CASE x = m
      <4>1. q \in InQueue(QueueState')
        BY <1>1
      <4> QED BY <1>x, <3>1, <4>1 DEF Waits
    <3>2. CASE x # m
      <4>1. Waits(x) \/ x \in ToSet(backlog')
        BY <1>0, <1>3, <2>2, <3>2 DEF Inv, Copies
      <4> QED BY <1>1, <4>1 DEF Waits
    <3> QED BY <3>1, <3>2
  <2>3. Distinct(kept)'
    BY <1>1 DEF KeptOK, Distinct
  <2>4. \A x \in ToSet(backlog') \ late : restoring /\ x \in ToSet(kept')
    BY <1>0, <1>3 DEF Inv, Copies
  <2> QED BY <1>2, <2>1, <2>2, <2>3, <2>4 DEF Copies
<1>8. Order'
  <2>1. ListInOrder(kept')
    <3>1. CASE kept' = kept
      BY <3>1 DEF Inv, Order
    <3>2. CASE kept' = Append(kept, m) /\ m \notin ToSet(kept)
      BY <1>0, <1>3, <3>2, ListAppend DEF Inv, Order
    <3> QED BY <1>1, <3>1, <3>2
  <2>2. ListInOrder(kept)' /\ ListInOrder(backlog)'
    BY <1>2, <1>3, <2>1 DEF ListInOrder
  <2>3. \A p \in InQueue(QueueState') : p.m \in late \/ After(p.m)
    BY <1>1, <1>3, <1>x DEF Inv, Order
  <2>4. \A p \in InQueue(QueueState') : p.m \in late' \/ After(p.m)'
    BY <1>2, <2>3, AfterStays
  <2>5. ASSUME NEW x \in ToSet(backlog') \ late
        PROVE  After(x)' /\ \A p \in InQueue(QueueState') : p.m.from = x.from => p.m.n < x.n
    <3>1. /\ After(x)
          /\ \A p \in InQueue(QueueState) : p.m.from = x.from => p.m.n < x.n
      BY <1>3, <2>5 DEF Inv, Order
    <3> QED BY <1>1, <1>2, <1>3, <1>x, <2>5, <3>1, AfterStays
  <2> QED BY <1>2, <1>4, <2>2, <2>4, <2>5 DEF Order
<1>9. OrderPerSender'
  BY <1>2, OrderStays DEF Inv
<1>10. Survival'
  <2>1. \A x \in aside' : x.from \in members' \cup moved'
    BY <1>1, <1>2 DEF Inv, Survival
  <2>2. ASSUME NEW x \in aside' \ (dropped' \cup unkept')
        PROVE  \/ x \in ToSet(kept')
               \/ x.n \in ToSet(handled'[x.from])
               \/ x.from \in moved' \ members'
    <3>1. CASE x = m /\ m.from \in members
      BY <1>1, <3>1, <2>2
    <3>2. CASE x \in aside
      BY <1>0, <1>1, <1>2, <2>2, <3>2 DEF Inv, Survival
    <3> QED BY <1>1, <2>2, <3>1, <3>2
  <2> QED BY <1>2, <2>1, <2>2 DEF Inv, Survival
<1> QED BY <1>4, <1>5, <1>6, <1>7, <1>8, <1>9, <1>10 DEF Inv

LEMMA RestoreKeeps == ASSUME Inv, restore_kept PROVE Inv'
<1> DEFINE m == Head(backlog)
<1>1. restoring /\ UNCHANGED <<members, bounds, handled, dropped>>
  BY DEF restore_kept
<1>2. CASE backlog = <<>>
  <2>1. restoring' = FALSE /\ UNCHANGED <<queue, seen, kept, backlog, aside, late, unkept>>
    BY <1>2 DEF restore_kept
  <2>2. ToSet(backlog) = {}
    BY <1>2, EmptyFacts
  <2> QED BY <1>1, <2>1, <2>2, RestoreStops
<1>3. CASE backlog # <<>>
  <2>1. PICK check \in BOOLEAN :
            LET q == [m |-> m, check |-> check]
                full == is_full_for(QueueState, m.from, "Priority")
            IN /\ seen' = IF full THEN seen ELSE seen \cup {m}
               /\ IF full \/ Refuses(QueueState, q, lane_for(m.from))
                  THEN /\ restoring' = FALSE /\ late' = late \cup ToSet(backlog)
                       /\ UNCHANGED <<queue, kept, backlog, aside, unkept>>
                  ELSE /\ queue_for_check(QueueState, kept, q)
                       /\ backlog' = Tail(backlog)
                       /\ UNCHANGED <<restoring, late>>
    BY <1>3 DEF restore_kept
  <2> DEFINE q == [m |-> m, check |-> check]
             full == is_full_for(QueueState, m.from, "Priority")
             refuses == Refuses(QueueState, q, lane_for(m.from))
  <2>2. m \in Messages /\ m \in ToSet(backlog)
    BY <1>1, <1>3, BacklogHead
  <2>3. q \in Checks /\ q.m = m
    BY <2>2 DEF Checks
  <2>4. seen' = IF full THEN seen ELSE seen \cup {m}
    BY <2>1
  <2>5. CASE full \/ refuses
    <3>1. /\ restoring' = FALSE /\ late' = late \cup ToSet(backlog)
          /\ UNCHANGED <<queue, kept, backlog, aside, unkept>>
      BY <2>1, <2>5
    <3>2. seen \subseteq seen' /\ seen' \subseteq seen \cup ToSet(backlog)
      BY <2>2, <2>4
    <3> QED BY <1>1, <3>1, <3>2, RestoreStops
  <2>6. CASE ~(full \/ refuses)
    <3>1. /\ queue_for_check(QueueState, kept, q) /\ backlog' = Tail(backlog)
          /\ UNCHANGED <<restoring, late>> /\ seen' = seen \cup {m}
      BY <2>1, <2>4, <2>6
    <3>2. m \in late \/ \A p \in InQueue(QueueState) : p.m.from = m.from => p.m.n < m.n
      BY <1>1, <1>3, BacklogHead
    <3>3. ~ Refuses(QueueState, q, lane_for(q.m.from))
      BY <2>3, <2>6
    <3> HIDE DEF q
    <3>4. Added(QueueState, kept, q, late)
      <4>1. q.m \in late \/ \A p \in InQueue(QueueState) : p.m.from = q.m.from => p.m.n < q.m.n
        BY <2>3, <3>2
      <4> QED BY <2>3, <3>1, <3>3, <4>1, InvQueue, QueueForCheck
    <3> QED BY <1>1, <1>3, <2>3, <3>1, <3>4, RestoreQueues
  <2> QED BY <2>5, <2>6
<1> QED BY <1>2, <1>3

-----------------------------------------------------------------------------
(* The other steps, and the invariant.                                      *)
LEMMA TickKeeps == ASSUME Inv, Tick PROVE Inv'
<1>1. /\ ~restoring /\ restoring' = TRUE
      /\ UNCHANGED <<queue, members, seen, kept, backlog, bounds, history>>
  BY DEF Tick
<1>2. QueueState' = QueueState /\ UNCHANGED <<members, moved, arrived, budget, seen, kept, backlog>>
      /\ UNCHANGED <<handled, aside, dropped, late, unkept>>
  BY <1>1, QueueStays DEF bounds, history
<1>3. QueueInv' /\ InOrder(QueueState, late)'
  BY <1>2, InvQueue, GoodPrimed
<1>4. TypeInv'
  BY <1>1, <1>2 DEF Inv, TypeInv
<1>5. Arrived'
  BY <1>2 DEF Inv, Arrived
<1>6. Copies'
  <2>1. \A x : Waits(x)' <=> Waits(x)
    BY <1>2 DEF Waits
  <2> QED BY <1>1, <1>2, <2>1 DEF Inv, Copies, Distinct
<1>7. Order'
  <2>1. ListInOrder(kept)' /\ ListInOrder(backlog)'
    BY <1>2 DEF Inv, Order, ListInOrder
  <2> QED BY <1>2, <1>3, <2>1 DEF Inv, Order, After
<1>8. OrderPerSender' /\ Survival'
  BY <1>2, OrderStays DEF Inv, Survival
<1> QED BY <1>3, <1>4, <1>5, <1>6, <1>7, <1>8 DEF Inv

LEMMA MinuteKeeps == ASSUME Inv, Minute PROVE Inv'
<1>1. /\ rate > 0 /\ rate' = rate - 1
      /\ UNCHANGED <<priority, other, senders, running, members, seen, kept, backlog,
                     restoring, bounds, history>>
  BY DEF Minute
<1>2. /\ UNCHANGED <<priority, other, senders, running, members, moved, arrived, budget, seen>>
      /\ UNCHANGED <<kept, backlog, restoring, handled, aside, dropped, late, unkept>>
  BY <1>1 DEF bounds, history
<1>3. Good(QueueState, late) /\ Placed(QueueState) /\ rate \in Nat /\ RequestRate \in Nat
  BY InvQueue, QStateFields, QueueStateIs, VerifyQueueAssumption DEF Good
<1>4. /\ QueueState'.priority = QueueState.priority /\ QueueState'.other = QueueState.other
      /\ QueueState'.senders = QueueState.senders /\ QueueState'.running = QueueState.running
      /\ QueueState'.rate = rate - 1 /\ QueueState.rate = rate
  BY <1>1 DEF QueueState
<1>5. QueueState' \in QState
  <2>1. rate - 1 \in Nat
    BY <1>1, <1>3
  <2>2. /\ priority \in Seq(Checks) /\ other \in Seq(Checks) /\ running \in Checks \cup {None}
        /\ senders \in [Senders -> [count : Nat, lane : {"Priority", "Other", None}]]
    BY <1>3, QStateFields, QueueStateIs DEF Good
  <2>3. QueueState' = [priority |-> priority, other |-> other, senders |-> senders,
                       running |-> running, rate |-> rate - 1]
    BY <1>1 DEF QueueState
  <2> QED BY <2>1, <2>2, <2>3 DEF QState
<1>6. InQueue(QueueState') = InQueue(QueueState)
  BY <1>4 DEF InQueue
<1>7. Good(QueueState', late') /\ Placed(QueueState')
  <2>1. Counted(QueueState') /\ OneLane(QueueState') /\ Idle(QueueState')
    BY <1>3, <1>4 DEF Good, Counted, Runs, OneLane, Idle
  <2>2. InOrder(QueueState', late') /\ Placed(QueueState')
    BY <1>2, <1>3, <1>4 DEF Good, InOrder, RunsFirst, Placed
  <2>3. Capped(QueueState')
    <3>1. rate - 1 <= RequestRate
      BY <1>3, <1>4 DEF Good, Capped
    <3> QED BY <1>3, <1>4, <3>1 DEF Good, Capped
  <2> QED BY <1>5, <2>1, <2>2, <2>3 DEF Good
<1>8. QueueInv' /\ InOrder(QueueState, late)'
  BY <1>2, <1>7, GoodPrimed
<1>9. TypeInv'
  BY <1>2, <1>5 DEF Inv, TypeInv
<1>10. Arrived'
  BY <1>2, <1>6 DEF Inv, Arrived
<1>11. Copies'
  <2>1. \A x : Waits(x)' <=> Waits(x)
    BY <1>6 DEF Waits
  <2> QED BY <1>2, <2>1 DEF Inv, Copies, Distinct
<1>12. Order'
  <2>1. ListInOrder(kept)' /\ ListInOrder(backlog)'
    BY <1>2 DEF Inv, Order, ListInOrder
  <2> QED BY <1>2, <1>6, <1>8, <2>1 DEF Inv, Order, After
<1>13. OrderPerSender' /\ Survival'
  BY <1>2, OrderStays DEF Inv, Survival
<1> QED BY <1>8, <1>9, <1>10, <1>11, <1>12, <1>13 DEF Inv

LEMMA MoveKeeps == ASSUME Inv, NEW s \in Senders, Move(s) PROVE Inv'
<1>1. /\ s \notin moved
      /\ members' = IF s \in members THEN members \ {s} ELSE members \cup {s}
      /\ moved' = moved \cup {s}
      /\ UNCHANGED <<queue, seen, kept, backlog, restoring, budget, arrived, history>>
  BY DEF Move
<1>2. QueueState' = QueueState
      /\ UNCHANGED <<handled, aside, dropped, late, unkept>>
  BY <1>1, QueueStays DEF history
<1>3. QueueInv' /\ InOrder(QueueState, late)'
  <2>1. Placed(QueueState)'
    <3> SUFFICES ASSUME NEW t \in Senders \ moved', QueueState'.senders[t].count > 0
                 PROVE  QueueState'.senders[t].lane = lane_for(t)'
      BY DEF Placed
    <3>1. t # s /\ t \notin moved /\ (t \in members' <=> t \in members)
      BY <1>1
    <3>2. QueueState.senders[t].lane = lane_for(t)
      BY <1>2, <3>1, InvQueue DEF Placed
    <3>3. lane_for(t)' = lane_for(t)
      BY <3>1 DEF lane_for
    <3> QED BY <1>2, <3>2, <3>3
  <2> QED BY <1>2, <2>1 DEF Inv, QueueInv, Order
<1>4. TypeInv'
  BY <1>1, <1>2 DEF Inv, TypeInv
<1>5. Arrived'
  BY <1>1, <1>2 DEF Inv, Arrived
<1>6. Copies'
  <2>1. \A x : Waits(x)' <=> Waits(x)
    BY <1>2 DEF Waits
  <2> QED BY <1>1, <1>2, <2>1 DEF Inv, Copies, Distinct
<1>7. Order'
  <2>1. ListInOrder(kept)' /\ ListInOrder(backlog)'
    BY <1>1, <1>2 DEF Inv, Order, ListInOrder
  <2> QED BY <1>1, <1>2, <1>3, <2>1 DEF Inv, Order, After
<1>8. OrderPerSender'
  BY <1>2, OrderStays DEF Inv
<1>9. Survival'
  <2>1. \A x \in aside : x.from \in members' \cup moved'
    BY <1>1 DEF Inv, Survival
  <2>2. \A x \in dropped : x.kind = "request" \/ x.from \in moved' \/ x.from \notin members'
    BY <1>1 DEF Inv, Survival
  <2>3. \A x : x \in moved \ members => x \in moved' \ members'
    BY <1>1
  <2>4. ASSUME NEW x \in aside \ (dropped \cup unkept)
        PROVE  \/ x \in ToSet(kept) \/ x.n \in ToSet(handled[x.from])
               \/ x.from \in moved' \ members'
    BY <2>3, <2>4 DEF Inv, Survival
  <2> QED BY <1>1, <1>2, <2>1, <2>2, <2>4 DEF Survival
<1> QED BY <1>3, <1>4, <1>5, <1>6, <1>7, <1>8, <1>9 DEF Inv

(* An empty queue is in order. *)
LEMMA EmptyQueue ==
    ASSUME NEW v, v.priority = <<>>, v.other = <<>>, v.running = None, v.rate = 0,
           v.senders = [s \in Senders |-> NoLane],
           NEW L
    PROVE  /\ Counted(v) /\ OneLane(v) /\ Capped(v) /\ Idle(v) /\ InOrder(v, L) /\ Placed(v)
           /\ InQueue(v) = {}
<1>1. /\ \A s \in Senders : v.senders[s].count = 0
      /\ ToSet(v.priority) = {} /\ ToSet(v.other) = {} /\ Len(v.priority) = 0 /\ Len(v.other) = 0
      /\ DOMAIN v.priority = {} /\ DOMAIN v.other = {}
  BY EmptyFacts DEF NoLane
<1>2. Counted(v)
  BY <1>1, CountEmpty DEF Counted, Runs
<1>3. {PriorityCap, OtherCap, SenderCap, RequestRate} \subseteq Nat
  BY VerifyQueueAssumption
<1> QED BY <1>1, <1>2, <1>3 DEF OneLane, Capped, Idle, InOrder, LaneInOrder, RunsFirst, Placed, InQueue

LEMMA RestartKeeps == ASSUME Inv, Restart PROVE Inv'
<1>1. /\ ~restoring /\ budget.restarts > 0 /\ budget' = [budget EXCEPT !.restarts = @ - 1]
      /\ priority' = <<>> /\ other' = <<>> /\ running' = None /\ rate' = 0
      /\ senders' = [s \in Senders |-> NoLane]
      /\ seen' = {} /\ backlog' = kept /\ restoring' = TRUE
      /\ UNCHANGED <<members, kept, arrived, moved, handled, aside, dropped, late, unkept>>
  BY DEF Restart, history
<1>2. /\ QueueState'.priority = <<>> /\ QueueState'.other = <<>> /\ QueueState'.running = None
      /\ QueueState'.rate = 0 /\ QueueState'.senders = [s \in Senders |-> NoLane]
  BY <1>1 DEF QueueState
<1>3. QueueState' \in QState
  <2>1. QueueState' = [priority |-> <<>>, other |-> <<>>, senders |-> [s \in Senders |-> NoLane],
                       running |-> None, rate |-> 0]
    BY <1>1 DEF QueueState
  <2>2. <<>> \in Seq(Checks) /\ NoLane \in [count : Nat, lane : {"Priority", "Other", None}]
    BY EmptyFacts DEF NoLane
  <2> QED BY <2>1, <2>2 DEF QState
<1>4. Good(QueueState', late') /\ Placed(QueueState') /\ InQueue(QueueState') = {}
  <2> DEFINE w == QueueState'
  <2>1. Counted(w) /\ OneLane(w) /\ Capped(w) /\ Idle(w) /\ InOrder(w, late') /\ Placed(w)
        /\ InQueue(w) = {}
    BY <1>2, EmptyQueue
  <2> QED BY <1>3, <2>1 DEF Good
<1>5. QueueInv' /\ InOrder(QueueState, late)'
  BY <1>1, <1>4, GoodPrimed
<1>6. TypeInv'
  <2>1. budget' \in [script : [Senders -> Seq(Kinds)], restarts : Nat, dups : Nat,
                     movers : SUBSET Senders]
    <3>1. budget \in [script : [Senders -> Seq(Kinds)], restarts : Nat, dups : Nat,
                      movers : SUBSET Senders]
      BY DEF Inv, TypeInv
    <3>2. budget.restarts - 1 \in Nat
      BY <1>1, <3>1
    <3> QED BY <1>1, <3>1, <3>2
  <2> QED BY <1>1, <1>3, <2>1 DEF Inv, TypeInv
<1>7. Arrived'
  BY <1>1, <1>4 DEF Inv, Arrived
<1>8. Copies'
  BY <1>1 DEF Inv, Copies, Distinct
<1>9. Order'
  <2>1. ListInOrder(kept)' /\ ListInOrder(backlog)'
    BY <1>1 DEF Inv, Order, ListInOrder
  <2>2. ASSUME NEW x \in ToSet(kept) \ late PROVE After(x)'
    <3>1. Waits(x)
      BY <1>1, <2>2 DEF Inv, Copies
    <3>2. After(x)
      BY <2>2, <3>1 DEF Inv, Order, Waits
    <3> QED BY <1>1, <3>2, AfterStays
  <2> QED BY <1>1, <1>4, <1>5, <2>1, <2>2 DEF Order
<1>10. OrderPerSender' /\ Survival'
  BY <1>1, OrderStays DEF Inv, Survival
<1> QED BY <1>5, <1>6, <1>7, <1>8, <1>9, <1>10 DEF Inv

LEMMA InitInv == Init => Inv
<1> SUFFICES ASSUME Init PROVE Inv
  OBVIOUS
<1>1. /\ QueueState.priority = <<>> /\ QueueState.other = <<>> /\ QueueState.running = None
      /\ QueueState.rate = 0 /\ QueueState.senders = [s \in Senders |-> NoLane]
  BY DEF Init, QueueState
<1>2. QueueState \in QState
  <2>1. QueueState = [priority |-> <<>>, other |-> <<>>, senders |-> [s \in Senders |-> NoLane],
                      running |-> None, rate |-> 0]
    BY DEF Init, QueueState
  <2>2. <<>> \in Seq(Checks) /\ NoLane \in [count : Nat, lane : {"Priority", "Other", None}]
    BY EmptyFacts DEF NoLane
  <2> QED BY <2>1, <2>2 DEF QState
<1>3. /\ Counted(QueueState) /\ OneLane(QueueState) /\ Capped(QueueState) /\ Idle(QueueState)
      /\ InOrder(QueueState, late) /\ Placed(QueueState) /\ InQueue(QueueState) = {}
  <2> DEFINE w == QueueState
  <2>1. w.priority = <<>> /\ w.other = <<>> /\ w.running = None /\ w.rate = 0
        /\ w.senders = [s \in Senders |-> NoLane]
    BY <1>1
  <2> QED BY <2>1, EmptyQueue
<1>4. /\ ToSet(kept) = {} /\ ToSet(backlog) = {} /\ DOMAIN kept = {} /\ DOMAIN backlog = {}
      /\ \A s \in Senders : handled[s] = <<>> /\ DOMAIN handled[s] = {}
      /\ kept \in Seq(Messages) /\ backlog \in Seq(Messages) /\ Len(kept) = 0
      /\ handled \in [Senders -> Seq(Nat)]
  BY EmptyFacts DEF Init
<1>5. TypeInv
  <2>1. KeptCap \in Nat /\ Communities \subseteq Senders
        /\ Budgets \subseteq [script : [Senders -> Seq(Kinds)], restarts : Nat, dups : Nat,
                             movers : SUBSET Senders]
    BY VerifyQueueAssumption
  <2>2. Len(kept) <= KeptCap
    BY <1>4, <2>1
  <2>3. arrived \in [Senders -> Nat]
    BY DEF Init
  <2> QED BY <1>2, <1>4, <2>1, <2>2, <2>3 DEF Init, TypeInv
<1>6. QueueInv
  BY <1>3 DEF QueueInv
<1>7. Arrived
  BY <1>3, <1>4 DEF Init, Arrived
<1>8. Copies
  BY <1>4 DEF Copies, Distinct
<1>9. Order
  BY <1>3, <1>4 DEF Order, ListInOrder
<1>10. OrderPerSender
  BY <1>4 DEF OrderPerSender
<1>11. Survival
  BY DEF Init, Survival
<1> QED BY <1>5, <1>6, <1>7, <1>8, <1>9, <1>10, <1>11 DEF Inv

LEMMA StutterKeeps == ASSUME Inv, UNCHANGED vars PROVE Inv'
<1>1. QueueState' = QueueState /\ UNCHANGED <<members, moved, arrived, budget, seen, kept, backlog>>
      /\ UNCHANGED <<handled, aside, dropped, late, unkept, restoring>>
  BY QueueStays DEF vars, bounds, history
<1>2. QueueInv' /\ InOrder(QueueState, late)'
  BY <1>1, InvQueue, GoodPrimed
<1>3. TypeInv' /\ Arrived'
  BY <1>1 DEF Inv, TypeInv, Arrived
<1>4. Copies'
  <2>1. \A x : Waits(x)' <=> Waits(x)
    BY <1>1 DEF Waits
  <2> QED BY <1>1, <2>1 DEF Inv, Copies, Distinct
<1>5. Order'
  <2>1. ListInOrder(kept)' /\ ListInOrder(backlog)'
    BY <1>1 DEF Inv, Order, ListInOrder
  <2> QED BY <1>1, <1>2, <2>1 DEF Inv, Order, After
<1>6. OrderPerSender' /\ Survival'
  BY <1>1, OrderStays DEF Inv, Survival
<1> QED BY <1>2, <1>3, <1>4, <1>5, <1>6 DEF Inv

LEMMA NextKeeps == Inv /\ [Next]_vars => Inv'
<1> SUFFICES ASSUME Inv, [Next]_vars PROVE Inv'
  OBVIOUS
<1>1. ASSUME NEW s \in Senders, Arrive(s) PROVE Inv'
  BY <1>1, ArriveKeeps
<1>2. ASSUME NEW s \in Senders, Move(s) PROVE Inv'
  BY <1>2, MoveKeeps
<1>3. CASE Redeliver
  BY <1>3, RedeliverKeeps
<1>4. CASE Return
  BY <1>4, ReturnKeeps
<1>5. CASE restore_kept
  BY <1>5, RestoreKeeps
<1>6. CASE Tick
  BY <1>6, TickKeeps
<1>7. CASE Minute
  BY <1>7, MinuteKeeps
<1>8. CASE Restart
  BY <1>8, RestartKeeps
<1>9. CASE UNCHANGED vars
  BY <1>9, StutterKeeps
<1> QED BY <1>1, <1>2, <1>3, <1>4, <1>5, <1>6, <1>7, <1>8, <1>9 DEF Next

LEMMA SpecInv == Spec => []Inv
BY InitInv, NextKeeps, PTL DEF Spec

-----------------------------------------------------------------------------
(* What the invariant gives.                                                *)
LEMMA Lanes ==
    ASSUME NEW a \in Seq(Checks), NEW b \in Seq(Checks)
    PROVE  /\ ToSet(a \o b) = ToSet(a) \cup ToSet(b)
           /\ a = <<>> /\ b = <<>> => a \o b = <<>>
<1>1. /\ a \o b \in Seq(Checks) /\ Len(a \o b) = Len(a) + Len(b)
      /\ \A i \in 1 .. Len(a) + Len(b) :
            (a \o b)[i] = IF i <= Len(a) THEN a[i] ELSE b[i - Len(a)]
  BY ConcatProperties
<1>2. /\ DOMAIN a = 1 .. Len(a) /\ DOMAIN b = 1 .. Len(b) /\ Len(a) \in Nat /\ Len(b) \in Nat
      /\ DOMAIN (a \o b) = 1 .. (Len(a) + Len(b))
  BY <1>1, MemberFacts
<1> DEFINE c == a \o b
<1> HIDE DEF c
<1>3. \A i \in DOMAIN c : c[i] = IF i <= Len(a) THEN a[i] ELSE b[i - Len(a)]
  BY <1>1, <1>2 DEF c
<1>4. ASSUME NEW x \in ToSet(c) PROVE x \in ToSet(a) \cup ToSet(b)
  <2>1. PICK i \in DOMAIN c : x = c[i]
    BY DEF ToSet
  <2>2. CASE i <= Len(a)
    <3>1. i \in DOMAIN a /\ x = a[i]
      BY <1>2, <1>3, <2>1, <2>2 DEF c
    <3> QED BY <3>1 DEF ToSet
  <2>3. CASE ~(i <= Len(a))
    <3>1. i - Len(a) \in DOMAIN b /\ x = b[i - Len(a)]
      BY <1>2, <1>3, <2>1, <2>3 DEF c
    <3> QED BY <3>1 DEF ToSet
  <2> QED BY <2>2, <2>3
<1>5. ASSUME NEW x \in ToSet(a) PROVE x \in ToSet(c)
  <2>1. PICK i \in DOMAIN a : x = a[i]
    BY DEF ToSet
  <2>2. i \in DOMAIN c /\ c[i] = x
    BY <1>2, <1>3, <2>1 DEF c
  <2> QED BY <2>2 DEF ToSet
<1>6. ASSUME NEW x \in ToSet(b) PROVE x \in ToSet(c)
  <2>1. PICK i \in DOMAIN b : x = b[i]
    BY DEF ToSet
  <2>2. i + Len(a) \in DOMAIN c /\ ~(i + Len(a) <= Len(a)) /\ i + Len(a) - Len(a) = i
    BY <1>2, <2>1 DEF c
  <2>3. c[i + Len(a)] = x
    BY <1>3, <2>1, <2>2
  <2> QED BY <2>2, <2>3 DEF ToSet
<1>7. a = <<>> /\ b = <<>> => a \o b = <<>>
  BY <1>1, EmptyFacts, EmptySeq
<1> QED BY <1>4, <1>5, <1>6, <1>7 DEF c

LEMMA InvTypeOK == Inv => TypeOK
<1> SUFFICES ASSUME Inv PROVE TypeOK
  OBVIOUS
<1>1. Good(QueueState, late) /\ QueueState.priority = priority /\ QueueState.other = other
      /\ QueueState.senders = senders /\ QueueState.running = running /\ QueueState.rate = rate
  BY InvQueue, QueueStateIs
<1>2. /\ priority \in Seq(Checks) /\ other \in Seq(Checks) /\ rate \in Nat
      /\ senders \in [Senders -> [count : Nat, lane : {"Priority", "Other", None}]]
      /\ running \in Checks \cup {None}
  BY <1>1, QStateFields DEF Good
<1>3. SendersTracked
  <2>1. \A s \in Senders :
           senders[s].count = Queued(s, priority) + Queued(s, other)
                              + (IF running # None /\ running.m.from = s THEN 1 ELSE 0)
    BY <1>1 DEF Good, Counted, Runs
  <2> QED BY <1>1, <2>1 DEF Good, OneLane, SendersTracked
<1>4. ToSet(InLanes) = ToSet(priority) \cup ToSet(other)
      /\ (priority = <<>> /\ other = <<>> => InLanes = <<>>)
  BY <1>2, Lanes DEF InLanes
<1>5. Waiting \subseteq Checks
  BY <1>2, <1>4, MemberFacts DEF Waiting
<1>6. /\ Len(priority) <= PriorityCap /\ Len(other) <= OtherCap
      /\ rate \in 0 .. RequestRate /\ \A s \in Senders : senders[s].count \in 0 .. SenderCap
  <2>1. RequestRate \in Nat /\ SenderCap \in Nat
    BY VerifyQueueAssumption
  <2>2. /\ Len(priority) <= PriorityCap /\ Len(other) <= OtherCap /\ rate <= RequestRate
        /\ \A s \in Senders : senders[s].count <= SenderCap
    BY <1>1 DEF Good, Capped
  <2>3. \A s \in Senders : senders[s].count \in Nat
    BY <1>2
  <2> QED BY <1>2, <2>1, <2>2, <2>3
<1>7. running = None => InLanes = <<>>
  BY <1>1, <1>4 DEF Good, Idle
<1>8. ToSet(kept) \cup ToSet(backlog) \cup seen \subseteq Messages
  BY InvQueue DEF Inv, TypeInv
<1> QED BY <1>3, <1>5, <1>6, <1>7, <1>8 DEF TypeOK, Inv, TypeInv

LEMMA InvSurvive == Inv => CommunityMessagesSurvive
BY DEF Inv, Survival, CommunityMessagesSurvive

(* Every variable keeps its type, the queue never outgrows its caps, the    *)
(* verifier is idle only when nothing is queued, and its book on the senders*)
(* is exact, whatever the caps, the messages and the memberships are.       *)
THEOREM VerifierBookExact == Spec => []TypeOK
BY SpecInv, InvTypeOK, PTL

(* A sender's messages are handled in the order they came in and once each, *)
(* also those restored from the kept list or delivered again, except one    *)
(* that needed a check only at its turn or that waited in the backlog.      *)
THEOREM OrderPerSenderAlways == Spec => []OrderPerSender
<1>1. Inv => OrderPerSender
  BY DEF Inv
<1> QED BY SpecInv, <1>1, PTL

(* Nothing set aside from a community we still belong to is lost, unless it *)
(* could not be kept or the request rate refuses it when it is set aside    *)
(* again.                                                                   *)
THEOREM CommunityMessagesSurviveAlways == Spec => []CommunityMessagesSurvive
BY SpecInv, InvSurvive, PTL

-----------------------------------------------------------------------------
(* Who is checked next.                                                     *)
(* The check that runs is left to run by what is set aside. *)
LEMMA QueueRuns ==
    ASSUME NEW v, NEW k, NEW q \in Checks, NEW L, Good(v, L),
           queue_for_check(v, k, q), v.running # None
    PROVE  running' = v.running
<1> DEFINE lane == lane_for(q.m.from)
<1>1. CASE Refuses(v, q, lane)
  BY <1>1 DEF queue_for_check, Become
<1>2. CASE ~Refuses(v, q, lane)
  <2> DEFINE j == Joined(v, q, LaneOf(v, q.m.from, lane))
  <2>1. lane \in LaneNames
    BY LaneForType
  <2>2. enqueue(v, q, lane) = start_next(j) /\ j \in QState /\ j.running = v.running
    BY <1>2, <2>1, JoinedKeeps DEF Good
  <2> HIDE DEF j
  <2>3. start_next(j) = j
    BY <2>2, StartNext
  <2>4. Become(enqueue(v, q, lane))
    BY <1>2 DEF queue_for_check
  <2> QED BY <2>2, <2>3, <2>4 DEF Become
<1> QED BY <1>1, <1>2

(* A steady sender waits in the lane of its membership. *)
LEMMA SteadyLane ==
    ASSUME Inv
    PROVE  /\ \A q \in ToSet(priority) : q.m.from \notin moved => q.m.from \in members
           /\ \A q \in ToSet(other) : q.m.from \notin moved => q.m.from \notin members
<1>1. /\ Good(QueueState, late) /\ Placed(QueueState)
      /\ QueueState.priority = priority /\ QueueState.other = other
      /\ QueueState.senders = senders
  BY InvQueue, QueueStateIs
<1>2. \A q \in ToSet(priority) \cup ToSet(other) :
          q.m.from \in Senders /\ senders[q.m.from].count > 0
  BY <1>1, InvQueue DEF InQueue
<1> QED BY <1>1, <1>2 DEF Good, OneLane, Placed, lane_for

LEMMA LanesOf == ASSUME Inv PROVE ToSet(InLanes) = ToSet(priority) \cup ToSet(other)
<1>1. priority \in Seq(Checks) /\ other \in Seq(Checks)
  BY InvQueue, QStateFields, QueueStateIs DEF Good
<1> QED BY <1>1, Lanes DEF InLanes

(* When a message is set aside with the verifier at work, none starts; with *)
(* the verifier idle, no other waits.                                       *)
LEMMA AsideDelaysNone ==
    ASSUME Inv, NEW k, NEW q \in Checks, queue_for_check(QueueState, k, q)
    PROVE  NeverDelays
<1>1. Good(QueueState, late) /\ QueueState.running = running
      /\ QueueState.priority = priority /\ QueueState.other = other
  BY InvQueue, QueueStateIs
<1>2. CASE running # None
  <2>1. running' = running
    BY <1>1, <1>2, QueueRuns
  <2> QED BY <2>1 DEF NeverDelays
<1>3. CASE running = None
  <2>1. ToSet(InLanes) = {}
    BY <1>1, <1>3, LanesOf, EmptyFacts DEF Good, Idle
  <2> QED BY <2>1 DEF NeverDelays
<1> QED BY <1>2, <1>3

LEMMA ReturnDelaysNone == ASSUME Inv, Return PROVE NeverDelays
<1> DEFINE v == finished(QueueState)
           m == running.m
           q == [m |-> m, check |-> TRUE]
<1>1. ~restoring /\ running # None
  BY DEF Return
<1>2. /\ Good(QueueState, late) /\ QueueState.running = running
      /\ QueueState.priority = priority /\ QueueState.other = other
  BY InvQueue, QueueStateIs
<1>3. LET u == QueueState
      IN /\ finished(u) = start_next(Left(u)) /\ Left(u) \in QState
         /\ Left(u).running = None /\ Left(u).priority = u.priority /\ Left(u).other = u.other
  BY <1>1, <1>2, FinishedKeeps DEF Good
<1>4. /\ priority # <<>> => v.running = Head(priority)
      /\ priority = <<>> /\ other # <<>> => v.running \in Checks
  BY <1>2, <1>3, StartNext
<1>5. priority \in Seq(Checks) /\ other \in Seq(Checks)
  BY <1>2, QStateFields DEF Good
<1>6. CASE priority = <<>> /\ other = <<>>
  <2>1. ToSet(InLanes) = {}
    BY <1>6, LanesOf, EmptyFacts
  <2> QED BY <2>1 DEF NeverDelays
<1>7. CASE priority # <<>> \/ other # <<>>
  <2>1. v.running # None
    BY <1>4, <1>5, <1>7, TailFacts, CheckFields
  <2>2. Good(v, late) /\ q \in Checks
    BY <1>1, ReturnFacts DEF Checks
  <2>3. \/ queue_for_check(v, RemoveFirst(kept, m), q)
        \/ Become(v)
    BY DEF Return
  <2> HIDE DEF v, q
  <2>4. running' = v.running
    <3>1. CASE Become(v)
      BY <3>1 DEF Become
    <3>2. CASE queue_for_check(v, RemoveFirst(kept, m), q)
      BY <2>1, <2>2, <3>2, QueueRuns
    <3> QED BY <2>3, <3>1, <3>2
  <2>5. CASE priority # <<>>
    <3>1. running' \in ToSet(priority)
      BY <1>4, <1>5, <2>4, <2>5, TailFacts
    <3> QED BY <3>1, SteadyLane DEF NeverDelays
  <2>6. CASE priority = <<>>
    <3>1. ToSet(InLanes) = ToSet(other)
      BY <2>6, LanesOf, EmptyFacts
    <3> QED BY <3>1, SteadyLane DEF NeverDelays
  <2> QED BY <2>5, <2>6
<1> QED BY <1>6, <1>7

LEMMA InboundDelaysNone ==
    ASSUME Inv, NEW m \in Messages, process_inbound(m) PROVE NeverDelays
<1>1. \/ UNCHANGED queue
      \/ \E check \in BOOLEAN : queue_for_check(QueueState, kept, [m |-> m, check |-> check])
  BY DEF process_inbound
<1>2. ASSUME NEW check \in BOOLEAN, queue_for_check(QueueState, kept, [m |-> m, check |-> check])
      PROVE  NeverDelays
  <2>1. [m |-> m, check |-> check] \in Checks
    BY DEF Checks
  <2> QED BY <1>2, <2>1, AsideDelaysNone
<1> QED BY <1>1, <1>2 DEF queue, NeverDelays

LEMMA NextDelaysNone == Inv /\ [Next]_vars => NeverDelays
<1> SUFFICES ASSUME Inv, [Next]_vars PROVE NeverDelays
  OBVIOUS
<1>1. ASSUME NEW s \in Senders, Arrive(s) PROVE NeverDelays
  <2> DEFINE n == arrived[s] + 1
             m == [from |-> s, n |-> n, kind |-> budget.script[s][n]]
  <2>1. n <= Len(budget.script[s]) /\ process_inbound(m)
    BY <1>1 DEF Arrive
  <2>2. arrived \in [Senders -> Nat] /\ budget.script[s] \in Seq(Kinds)
    BY DEF Inv, TypeInv
  <2>3. n \in Nat \ {0} /\ n \in 1 .. Len(budget.script[s])
    BY <2>1, <2>2
  <2>4. m \in Messages
    BY <2>2, <2>3, ElementOfSeq DEF Messages
  <2> QED BY <2>1, <2>4, InboundDelaysNone
<1>2. ASSUME NEW s \in Senders, Move(s) PROVE NeverDelays
  BY <1>2 DEF Move, queue, NeverDelays
<1>3. CASE Redeliver
  <2>1. PICK m \in ToSet(kept) : process_inbound(m)
    BY <1>3 DEF Redeliver
  <2>2. m \in Messages
    BY InvQueue
  <2> QED BY <2>1, <2>2, InboundDelaysNone
<1>4. CASE Return
  BY <1>4, ReturnDelaysNone
<1>5. CASE restore_kept
  <2>1. CASE UNCHANGED queue
    BY <2>1 DEF queue, NeverDelays
  <2>2. CASE ~ UNCHANGED queue
    <3>1. restoring /\ backlog # <<>>
      BY <1>5, <2>2 DEF restore_kept
    <3>2. PICK check \in BOOLEAN :
              queue_for_check(QueueState, kept, [m |-> Head(backlog), check |-> check])
      BY <1>5, <2>2 DEF restore_kept
    <3>3. [m |-> Head(backlog), check |-> check] \in Checks
      BY <3>1, BacklogHead DEF Checks
    <3> QED BY <3>2, <3>3, AsideDelaysNone
  <2> QED BY <2>1, <2>2
<1>6. CASE Tick
  BY <1>6 DEF Tick, queue, NeverDelays
<1>7. CASE Minute
  BY <1>7 DEF Minute, NeverDelays
<1>8. CASE Restart
  BY <1>8 DEF Restart, NeverDelays
<1>9. CASE UNCHANGED vars
  BY <1>9 DEF vars, queue, NeverDelays
<1> QED BY <1>1, <1>2, <1>3, <1>4, <1>5, <1>6, <1>7, <1>8, <1>9 DEF Next

(* A stranger's messages never delay those of a community: while one of     *)
(* these waits, no check of a stranger's starts.                            *)
THEOREM StrangersNeverDelayAlways == Spec => StrangersNeverDelay
<1>1. Inv /\ [Next]_vars => NeverDelays
  BY NextDelaysNone
<1>2. Spec => [][NeverDelays]_vars
  BY <1>1, SpecInv, PTL DEF Spec
<1> QED BY <1>2 DEF StrangersNeverDelay
=============================================================================
