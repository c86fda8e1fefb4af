---------------------------- MODULE VtaSyncProofs ----------------------------
(* What the three-way merge of a synced record guarantees, for any fields   *)
(* and any values, and what the exchanges with the VTA make of it.          *)
EXTENDS VtaSync, FiniteSetTheorems, WellFoundedInduction, TLAPS

(* The merge of records is a record: merge3 never invents a shape.          *)
LEMMA MergeIsRecord ==
    ASSUME NEW b \in Records, NEW l \in Records, NEW r \in Records
    PROVE  merge3(b, l, r) \in Records
<1>1. CASE ByField(b, l, r)
  <2>1. l \in Objects /\ r \in Objects
    BY <1>1 DEF ByField, Records
  <2>2. ASSUME NEW f \in Fields
        PROVE  Pick(FieldOf(b, f), l[f], r[f]) \in Scalars \cup {Absent}
    BY <2>1, <2>2 DEF Pick, Objects
  <2> QED
    BY <1>1, <2>2 DEF merge3, Records, Objects
<1>2. CASE ~ByField(b, l, r)
  BY <1>2 DEF merge3, Pick
<1> QED
  BY <1>1, <1>2

(* A record changed on one side only takes that side's value, and no        *)
(* conflict is reported: a pull of what we did not touch, and a push nobody *)
(* raced, are exact.                                                        *)
THEOREM OneSidedChange ==
    ASSUME NEW b \in Records, NEW x \in Records
    PROVE  /\ merge3(b, b, x) = x /\ conflicts3(b, b, x) = {}
           /\ merge3(b, x, b) = x /\ conflicts3(b, x, b) = {}
BY DEF merge3, conflicts3, ByField, BothMoved, Pick

(* An edit made here is in the merged record, unless it or the whole record *)
(* is reported as a conflict: merge3 loses nothing in silence.              *)
THEOREM LocalEditKeptOrReported ==
    ASSUME NEW b \in Records, NEW l \in Records, NEW r \in Records, NEW f \in Fields,
           FieldOf(l, f) # FieldOf(b, f),
           FieldOf(merge3(b, l, r), f) # FieldOf(l, f)
    PROVE  f \in conflicts3(b, l, r) \/ Root \in conflicts3(b, l, r)
<1>1. CASE ByField(b, l, r)
  <2>1. l # Absent /\ r # Absent /\ l \in Objects /\ r \in Objects
    BY <1>1 DEF ByField, Records
  <2>2. merge3(b, l, r) = [g \in Fields |-> Pick(FieldOf(b, g), l[g], r[g])]
    BY <1>1 DEF merge3
  <2>3. merge3(b, l, r) # Absent
    BY <2>2, <2>1, Merge3Assumption DEF Pick, Objects
  <2>4. FieldOf(merge3(b, l, r), f) = Pick(FieldOf(b, f), l[f], r[f])
    BY <2>2, <2>3 DEF FieldOf
  <2>5. BothMoved(FieldOf(b, f), l[f], r[f])
    BY <2>4, <2>1 DEF Pick, BothMoved, FieldOf
  <2> QED
    BY <1>1, <2>5 DEF conflicts3
<1>2. CASE ~ByField(b, l, r)
  <2>1. merge3(b, l, r) = Pick(b, l, r)
    BY <1>2 DEF merge3
  <2>2. BothMoved(b, l, r)
    BY <2>1 DEF Pick, BothMoved, FieldOf
  <2> QED
    BY <1>2, <2>2 DEF conflicts3
<1> QED
  BY <1>1, <1>2

(* A change made on the other device always arrives: the VTA's side wins    *)
(* where both moved, so every device ends with the same field.              *)
THEOREM RemoteChangeTaken ==
    ASSUME NEW b \in Records, NEW l \in Records, NEW r \in Objects, NEW f \in Fields,
           l # Absent, FieldOf(b, f) # r[f], b # Absent
    PROVE  FieldOf(merge3(b, l, r), f) = r[f]
<1>1. r # Absent /\ r \in Records
  BY Merge3Assumption DEF Objects, Records
<1>2. CASE ByField(b, l, r)
  <2>1. merge3(b, l, r) = [g \in Fields |-> Pick(FieldOf(b, g), l[g], r[g])]
    BY <1>2 DEF merge3
  <2>2. l \in Objects
    BY DEF Records
  <2>3. merge3(b, l, r) # Absent
    BY <2>1, <2>2, Merge3Assumption DEF Pick, Objects
  <2> QED
    BY <2>1, <2>3 DEF FieldOf, Pick
<1>3. CASE ~ByField(b, l, r)
  <2>1. merge3(b, l, r) = Pick(b, l, r)
    BY <1>3 DEF merge3
  <2> QED
    BY <2>1, <1>1, <1>3 DEF Pick, FieldOf, ByField, BothMoved
<1> QED
  BY <1>2, <1>3

(* Without a conflict the merge does not depend on which side is ours: two  *)
(* devices that exchange the same edits compute the same record.            *)
THEOREM NoConflictSameEverywhere ==
    ASSUME NEW b \in Records, NEW l \in Records, NEW r \in Records,
           conflicts3(b, l, r) = {}
    PROVE  merge3(b, l, r) = merge3(b, r, l)
<1>1. CASE ByField(b, l, r)
  <2>1. ByField(b, r, l)
    BY <1>1 DEF ByField, BothMoved
  <2>2. ASSUME NEW f \in Fields
        PROVE  Pick(FieldOf(b, f), l[f], r[f]) = Pick(FieldOf(b, f), r[f], l[f])
    <3>1. ~BothMoved(FieldOf(b, f), l[f], r[f])
      BY <1>1 DEF conflicts3
    <3> QED
      BY <3>1 DEF BothMoved, Pick
  <2>3. [f \in Fields |-> Pick(FieldOf(b, f), l[f], r[f])]
          = [f \in Fields |-> Pick(FieldOf(b, f), r[f], l[f])]
    BY <2>2
  <2> QED
    BY <1>1, <2>1, <2>3 DEF merge3
<1>2. CASE ~ByField(b, l, r)
  <2>1. ~BothMoved(b, l, r)
    BY <1>2 DEF conflicts3
  <2>2. ~ByField(b, r, l)
    BY <1>2 DEF ByField, BothMoved
  <2> QED
    BY <1>2, <2>1, <2>2 DEF merge3, BothMoved, Pick
<1> QED
  BY <1>1, <1>2

-----------------------------------------------------------------------------
(* The VTA as a device sees it.                                             *)
Vta == [store |-> store, counter |-> counter, reaped |-> reaped]
VtaType == [store : [Keys -> RecType], counter : Nat, reaped : Nat]

(* The latest write to record k is one the VTA had made when its counter    *)
(* stood at w; a record that is gone was last written before the reaping.   *)
Known(v, k, w) == v.store[k].ver <= w /\ (v.store[k].ver = 0 => v.reaped <= w)

(* A reading of record k is right as long as nothing newer is written.      *)
Honest(v, k, r) ==
    /\ r.ver <= v.counter
    /\ r.val # Absent => r.ver # 0
    /\ Known(v, k, r.ver) => v.store[k].val = r.val

(* The reading q is what the VTA holds, unless it was written after w.      *)
Says(v, k, q) == v.store[k].val = q.val /\ (q.val # Absent => v.store[k].ver <= q.ver)
UpTo(v, k, w, q) == Known(v, k, w) => Says(v, k, q)

(* Every write has its own version. *)
Ordered(v) ==
    /\ v.reaped <= v.counter
    /\ \A k \in Keys : v.store[k].ver <= v.counter /\ (v.store[k].val # Absent => v.store[k].ver # 0)
    /\ \A j, k \in Keys : j # k /\ v.store[j].ver = v.store[k].ver => v.store[k].ver = 0

(* What a config says of the VTA was true. *)
HonestConfig(v, c) ==
    /\ c.watermark <= v.counter
    /\ \A k \in Keys :
        /\ c.base[k].ver = 0 <=> c.base[k].val = Absent
        /\ Honest(v, k, c.base[k])
        /\ c.deferred[k] # None => Honest(v, k, c.deferred[k])

(* So is what an exchange has read and been answered; it was planned from   *)
(* the config as it still is but for the user's edits.                      *)
HonestWrite(v, e, k) ==
    /\ e.wm # None /\ e.st \notin {"pull", "snap"} /\ e.puts[k] # Absent
    /\ e.wrote[k].out = "written" => e.wrote[k].cur.val = e.puts[k] /\ e.wm < e.wrote[k].cur.ver
    /\ e.wrote[k].out # "tooLarge" => Honest(v, k, e.wrote[k].cur)
(* A snapshot has listed record k, or passed the place where it would be.   *)
Snapshot(v, e, k) ==
    /\ k \in e.seen <=> e.pulled[k] # None
    /\ k \in e.seen => UpTo(v, k, e.wm, e.pulled[k])
    /\ k \notin e.seen /\ (e.snap \/ k <= e.cur) => UpTo(v, k, e.wm, NoBase)
Flight(v, e, c) ==
    /\ e.since = c.watermark
    /\ e.wm # None => e.since <= e.wm /\ e.wm <= v.counter
    /\ e.st \in {"put", "delete"} => e.wm # None
    /\ e.st = "delete" => e.dels # {}
    /\ e.st = "pull" => e.seen = {}
    /\ e.wm = None \/ e.st \in {"pull", "snap"} => e.gone = {} /\ ~e.snap
    /\ \A k \in Keys :
        /\ e.expect[k] = c.base[k].ver
        /\ e.pulled[k] # None => Honest(v, k, e.pulled[k])
        /\ e.wrote[k] # None => HonestWrite(v, e, k)
        /\ (e.snap \/ e.st = "snap") /\ e.wm # None => Snapshot(v, e, k)
        /\ e.st = "snap" /\ e.wm = None => k \notin e.seen /\ e.pulled[k] = None /\ e.cur = 0
        /\ k \in e.dels \cup e.gone => e.puts[k] = Absent /\ c.deferred[k] = None

Device(v, ph, e, c, saved) ==
    /\ HonestConfig(v, c) /\ HonestConfig(v, saved)
    /\ ph = "off" => e.st = "idle"
    /\ e.st # "idle" => Flight(v, e, c)

HonestInv ==
    /\ TypeOK
    /\ Ordered(Vta)
    /\ \A d \in Devices : Device(Vta, phase[d], ex[d], mem[d], disk[d])

-----------------------------------------------------------------------------
(* The VTA moves on to u: what a reading can still be right about is what   *)
(* has not been written since.                                              *)
Later(v, u) ==
    /\ v.counter <= u.counter /\ v.reaped <= u.reaped
    /\ \A k \in Keys : u.store[k] = v.store[k] \/ v.counter < u.store[k].ver \/ v.counter <= u.reaped
    /\ \A k \in Keys, w \in Nat : w <= v.counter /\ Known(u, k, w) =>
        /\ Known(v, k, w) /\ u.store[k].val = v.store[k].val
        /\ u.store[k].ver <= v.store[k].ver

LEMMA HonestLater ==
    ASSUME NEW v \in VtaType, NEW u \in VtaType, Later(v, u), NEW k \in Keys,
           NEW r \in RecType \cup [ver : Nat, val : Records], Honest(v, k, r)
    PROVE  Honest(u, k, r)
  BY DEF Honest, Later, VtaType, RecType

LEMMA UpToLater ==
    ASSUME NEW v \in VtaType, NEW u \in VtaType, Later(v, u), NEW k \in Keys,
           NEW w \in Nat, w <= v.counter,
           NEW q \in RecType \cup [ver : Nat, val : Records], UpTo(v, k, w, q)
    PROVE  UpTo(u, k, w, q)
<1>1. SUFFICES ASSUME Known(u, k, w) PROVE Says(u, k, q)
  BY DEF UpTo
<1>2. Known(v, k, w) /\ u.store[k].val = v.store[k].val /\ u.store[k].ver <= v.store[k].ver
  BY <1>1 DEF Later
<1>3. u.store[k].ver \in Nat /\ v.store[k].ver \in Nat /\ q.ver \in Nat
  BY DEF VtaType, RecType
<1> QED BY <1>2, <1>3 DEF UpTo, Says

(* A reading no older than w is right up to w. *)
LEMMA HonestSays ==
    ASSUME NEW v \in VtaType, NEW k \in Keys, NEW w \in Nat,
           NEW q \in RecType \cup [ver : Nat, val : Records], Honest(v, k, q), w <= q.ver
    PROVE  UpTo(v, k, w, q)
  BY DEF Honest, UpTo, Says, Known, VtaType, RecType

LEMMA HonestConfigLater ==
    ASSUME NEW v \in VtaType, NEW u \in VtaType, Later(v, u),
           NEW c \in ConfigType, HonestConfig(v, c)
    PROVE  HonestConfig(u, c)
<1>1. c.watermark <= u.counter
  BY DEF HonestConfig, Later, VtaType, ConfigType
<1>2. ASSUME NEW k \in Keys
      PROVE  /\ c.base[k].ver = 0 <=> c.base[k].val = Absent
             /\ Honest(u, k, c.base[k])
             /\ c.deferred[k] # None => Honest(u, k, c.deferred[k])
  <2>1. c.base[k] \in [ver : Nat, val : Records] /\ c.deferred[k] \in RecType \cup {None}
    BY DEF ConfigType
  <2> QED BY <2>1, HonestLater DEF HonestConfig
<1> QED BY <1>1, <1>2 DEF HonestConfig

LEMMA FlightLater ==
    ASSUME NEW v \in VtaType, NEW u \in VtaType, Later(v, u),
           NEW e \in ExType, NEW c, Flight(v, e, c)
    PROVE  Flight(u, e, c)
<1>1. e.wm # None => e.since <= e.wm /\ e.wm <= u.counter
  BY DEF Flight, Later, VtaType, ExType
<1>2. ASSUME NEW k \in Keys
      PROVE  /\ e.pulled[k] # None => Honest(u, k, e.pulled[k])
             /\ e.wrote[k] # None => HonestWrite(u, e, k)
             /\ (e.snap \/ e.st = "snap") /\ e.wm # None => Snapshot(u, e, k)
  <2>1. e.pulled[k] \in RecType \cup {None} /\ e.wrote[k] \in WriteType \cup {None}
    BY DEF ExType
  <2>2. e.wrote[k] # None => e.wrote[k].cur \in RecType
    BY <2>1 DEF WriteType
  <2>3. (e.pulled[k] # None => Honest(v, k, e.pulled[k])) /\ (e.wrote[k] # None => HonestWrite(v, e, k))
    BY DEF Flight
  <2>4. (e.pulled[k] # None => Honest(u, k, e.pulled[k])) /\ (e.wrote[k] # None => HonestWrite(u, e, k))
    BY <2>1, <2>2, <2>3, HonestLater DEF HonestWrite
  <2>5. ASSUME e.snap \/ e.st = "snap", e.wm # None PROVE Snapshot(u, e, k)
    <3>1. Snapshot(v, e, k) /\ e.wm \in Nat /\ e.wm <= v.counter
      BY <2>5 DEF Flight, ExType
    <3>2. NoBase \in [ver : Nat, val : Records]
      BY DEF NoBase, Records
    <3>3. k \notin e.seen /\ (e.snap \/ k <= e.cur) => UpTo(u, k, e.wm, NoBase)
      BY <3>1, <3>2, UpToLater DEF Snapshot
    <3>4. k \in e.seen => UpTo(u, k, e.wm, e.pulled[k])
      BY <3>1, <2>1, UpToLater DEF Snapshot
    <3> QED BY <3>1, <3>3, <3>4 DEF Snapshot
  <2> QED BY <2>4, <2>5
<1> QED BY <1>1, <1>2, Zenon DEF Flight

-----------------------------------------------------------------------------
(* What absorbing an exchange makes of a config.                            *)
Readings == [Keys -> RecType \cup {None}]
BaseType == [ver : Nat, val : Records]

LEMMA Values == None \notin RecType /\ None \notin Nat /\ None \notin WriteType /\ Alien \notin Records
                /\ Absent \in Records /\ NoBase \in BaseType /\ NoRec \in RecType
  BY NoneIsNothingElse, SyncAssumption DEF Records, NoBase, NoRec, BaseType, RecType, StoredVals

(* A reading merged into a, and one that is not. *)
TakenIn(c, r, a, k) ==
    /\ r \in RecType /\ r.val \in Records
    /\ a.local[k] = merge3(c.base[k].val, c.local[k], r.val)
    /\ a.base[k] = IF r.val = Absent THEN NoBase ELSE [ver |-> r.ver, val |-> r.val]
    /\ a.deferred[k] = None
LeftOut(c, r, a, k) ==
    /\ a.local[k] = c.local[k] /\ a.base[k] = c.base[k]
    /\ a.deferred[k] = IF r # None /\ ~Skips(c, k, r) THEN r ELSE c.deferred[k]

LEMMA ApplyRemote ==
    ASSUME NEW c \in ConfigType, NEW recs \in Readings, NEW mode,
           NEW a, a = apply_remote(c, recs, mode)
    PROVE  /\ a \in ConfigType
           /\ a.watermark = c.watermark /\ a.rejected = c.rejected
           /\ \A k \in Keys : Merges(c, k, recs[k], mode) => TakenIn(c, recs[k], a, k)
           /\ \A k \in Keys : ~Merges(c, k, recs[k], mode) => LeftOut(c, recs[k], a, k)
<1> DEFINE M == {k \in Keys : Merges(c, k, recs[k], mode)}
           W == {k \in Keys \ M : recs[k] # None /\ ~Skips(c, k, recs[k])}
           L == [k \in Keys |-> IF k \in M THEN merge3(c.base[k].val, c.local[k], recs[k].val) ELSE c.local[k]]
           B == [k \in Keys |-> IF k \notin M THEN c.base[k]
                     ELSE IF recs[k].val = Absent THEN NoBase
                     ELSE [ver |-> recs[k].ver, val |-> recs[k].val]]
           D == [k \in Keys |-> IF k \in M THEN None ELSE IF k \in W THEN recs[k] ELSE c.deferred[k]]
<1>1. a = [c EXCEPT !.local = L, !.base = B, !.deferred = D]
  BY DEF apply_remote
<1>2. ASSUME NEW k \in Keys PROVE recs[k] \in RecType \cup {None} /\ c.base[k] \in BaseType
                                  /\ c.local[k] \in Records /\ c.deferred[k] \in RecType \cup {None}
  BY DEF Readings, ConfigType, BaseType
<1>3. ASSUME NEW k \in M PROVE recs[k] \in RecType /\ recs[k].val \in Records
  BY <1>2 DEF Merges, Defers, RecType, StoredVals
<1>4. L \in [Keys -> Records]
  <2>1. ASSUME NEW k \in M PROVE merge3(c.base[k].val, c.local[k], recs[k].val) \in Records
    <3>1. c.base[k].val \in Records
      BY <1>2 DEF BaseType
    <3> QED BY <1>2, <1>3, <3>1, MergeIsRecord
  <2> QED BY <2>1, <1>2
<1>5. B \in [Keys -> BaseType]
  BY <1>2, <1>3, Values DEF RecType, BaseType
<1>6. D \in [Keys -> RecType \cup {None}]
  BY <1>2
<1> HIDE DEF L, B, D
<1>7. a \in ConfigType /\ a.local = L /\ a.base = B /\ a.deferred = D
      /\ a.watermark = c.watermark /\ a.rejected = c.rejected
  BY <1>1, <1>4, <1>5, <1>6 DEF ConfigType, BaseType
<1> USE DEF L, B, D
<1>8. ASSUME NEW k \in Keys
      PROVE  /\ Merges(c, k, recs[k], mode) => TakenIn(c, recs[k], a, k)
             /\ ~Merges(c, k, recs[k], mode) => LeftOut(c, recs[k], a, k)
  <2>1. CASE Merges(c, k, recs[k], mode)
    <3>1. k \in M
      BY <2>1
    <3> HIDE DEF M
    <3> QED BY <3>1, <2>1, <1>3, <1>7 DEF TakenIn
  <2>2. CASE ~Merges(c, k, recs[k], mode)
    <3>1. k \notin M /\ (k \in W <=> recs[k] # None /\ ~Skips(c, k, recs[k]))
      BY <2>2
    <3> HIDE DEF M, W
    <3> QED BY <3>1, <2>2, <1>7 DEF LeftOut
  <2> QED BY <2>1, <2>2
<1> QED BY <1>7, <1>8

(* No reading at all is right of a record the VTA never had. *)
LEMMA NoBaseHonest ==
    ASSUME NEW v \in VtaType, Ordered(v), NEW k \in Keys
    PROVE  Honest(v, k, NoBase)
<1>1. v.store[k].ver \in Nat /\ (v.store[k].val # Absent => v.store[k].ver # 0) /\ v.counter \in Nat
  BY DEF Ordered, VtaType, RecType
<1> QED BY <1>1 DEF Honest, Known, NoBase

(* Readings that are right leave a config that is right. *)
LEMMA ApplyHonest ==
    ASSUME NEW v \in VtaType, Ordered(v), NEW c \in ConfigType, HonestConfig(v, c),
           NEW recs \in Readings, \A k \in Keys : recs[k] # None => Honest(v, k, recs[k]),
           NEW mode, NEW a, a = apply_remote(c, recs, mode)
    PROVE  HonestConfig(v, a)
<1>1. a.watermark <= v.counter
  BY ApplyRemote DEF HonestConfig
<1>2. ASSUME NEW k \in Keys
      PROVE  /\ a.base[k].ver = 0 <=> a.base[k].val = Absent
             /\ Honest(v, k, a.base[k])
             /\ a.deferred[k] # None => Honest(v, k, a.deferred[k])
  <2>0. /\ c.base[k].ver = 0 <=> c.base[k].val = Absent
        /\ Honest(v, k, c.base[k])
        /\ c.deferred[k] # None => Honest(v, k, c.deferred[k])
    BY DEF HonestConfig
  <2>1. CASE Merges(c, k, recs[k], mode)
    <3>1. recs[k] # None /\ Honest(v, k, recs[k]) /\ TakenIn(c, recs[k], a, k)
      BY <2>1, ApplyRemote DEF Merges
    <3>2. CASE recs[k].val = Absent
      <4>1. a.base[k] = NoBase /\ a.deferred[k] = None
        BY <3>1, <3>2, Zenon DEF TakenIn
      <4>2. Honest(v, k, NoBase)
        BY NoBaseHonest
      <4> QED BY <4>1, <4>2 DEF NoBase
    <3>3. CASE recs[k].val # Absent
      <4>1. a.base[k] = [ver |-> recs[k].ver, val |-> recs[k].val] /\ a.deferred[k] = None
        BY <3>1, <3>3, Zenon DEF TakenIn
      <4> QED BY <4>1, <3>1, <3>3 DEF Honest
    <3> QED BY <3>2, <3>3
  <2>2. CASE ~Merges(c, k, recs[k], mode)
    <3>1. a.base[k] = c.base[k] /\ (a.deferred[k] = recs[k] \/ a.deferred[k] = c.deferred[k])
      BY <2>2, ApplyRemote DEF LeftOut
    <3> QED BY <2>0, <3>1
  <2> QED BY <2>1, <2>2
<1> QED BY <1>1, <1>2 DEF HonestConfig

(* The feed that was pulled; a snapshot also says what is gone. *)
LEMMA PulledReadings ==
    ASSUME NEW c \in ConfigType, NEW e \in ExType, NEW recs, recs = PulledRecs(c, e)
    PROVE  /\ recs \in Readings
           /\ ~e.snap => recs = e.pulled
           /\ \A k \in Keys :
                \/ recs[k] = e.pulled[k]
                \/ /\ e.snap /\ e.wm \in Nat /\ c.base[k].ver # 0 /\ k \notin e.seen
                   /\ recs[k] = [ver |-> e.wm, val |-> Absent]
<1>1. /\ e.wm \in Nat \cup {None} /\ e.pulled \in Readings
  BY DEF ExType, Readings
<1>2. ASSUME NEW k \in Keys
      PROVE  /\ \/ recs[k] = e.pulled[k]
                \/ /\ e.snap /\ e.wm \in Nat /\ c.base[k].ver # 0 /\ k \notin e.seen
                   /\ recs[k] = [ver |-> e.wm, val |-> Absent]
             /\ recs[k] \in RecType \cup {None}
             /\ ~e.snap => recs[k] = e.pulled[k]
  <2>1. CASE e.snap /\ e.wm # None /\ c.base[k].ver # 0 /\ k \notin e.seen
    <3>1. recs[k] = [ver |-> e.wm, val |-> Absent]
      BY <2>1 DEF PulledRecs
    <3>2. recs[k] \in RecType
      BY <1>1, <2>1, <3>1, Values DEF RecType, StoredVals
    <3> QED BY <1>1, <2>1, <3>1, <3>2
  <2>2. CASE ~(e.snap /\ e.wm # None /\ c.base[k].ver # 0 /\ k \notin e.seen)
    <3>1. recs[k] = e.pulled[k]
      BY <2>2 DEF PulledRecs
    <3> QED BY <1>1, <3>1 DEF Readings
  <2> QED BY <2>1, <2>2
<1>3. recs = [k \in Keys |-> recs[k]]
  BY DEF PulledRecs
<1>4. recs \in Readings
  BY <1>2, <1>3 DEF Readings
<1>5. ASSUME ~e.snap PROVE recs = e.pulled
  BY <1>1, <1>2, <1>4, <1>5 DEF Readings
<1> QED BY <1>2, <1>4, <1>5

(* The winners of lost races. *)
LEMMA RacedReadings ==
    ASSUME NEW e \in ExType, NEW recs, recs = RacedRecs(e)
    PROVE  /\ recs \in Readings
           /\ \A k \in Keys : recs[k] = IF e.wrote[k] # None /\ e.wrote[k].out = "conflict"
                                        THEN e.wrote[k].cur ELSE None
<1>1. recs = [k \in Keys |-> IF e.wrote[k] # None /\ e.wrote[k].out = "conflict" THEN e.wrote[k].cur ELSE None]
  BY DEF RacedRecs, Lost
<1>2. ASSUME NEW k \in Keys, e.wrote[k] # None PROVE e.wrote[k].cur \in RecType
  BY <1>2 DEF ExType, WriteType
<1> QED BY <1>1, <1>2 DEF Readings

LEMMA AbsorbPutsFields ==
    ASSUME NEW c \in ConfigType, NEW e \in ExType, NEW b, b = AbsorbPuts(c, e)
    PROVE  /\ b \in ConfigType
           /\ b.watermark = c.watermark /\ b.local = c.local /\ b.deferred = c.deferred
           /\ \A k \in Keys : b.base[k] = IF e.wrote[k] # None /\ e.wrote[k].out = "written"
                                          THEN [ver |-> e.wrote[k].cur.ver, val |-> e.puts[k]] ELSE c.base[k]
<1> DEFINE B == [k \in Keys |-> IF k \in Written(e) THEN [ver |-> e.wrote[k].cur.ver, val |-> e.puts[k]] ELSE c.base[k]]
           R == [k \in Keys |-> IF k \in Written(e) THEN Absent
                    ELSE IF k \in TooLarge(e) THEN e.puts[k] ELSE c.rejected[k]]
<1>1. b = [c EXCEPT !.base = B, !.rejected = R]
  BY DEF AbsorbPuts
<1>2. ASSUME NEW k \in Keys
      PROVE  /\ c.base[k] \in BaseType /\ e.puts[k] \in Records /\ c.rejected[k] \in Records
             /\ e.wrote[k] # None => e.wrote[k].cur.ver \in Nat
  BY DEF ConfigType, BaseType, ExType, WriteType, RecType
<1>3. B \in [Keys -> BaseType]
  BY <1>2 DEF Written, BaseType
<1>4. R \in [Keys -> Records]
  BY <1>2, Values
<1> HIDE DEF B, R
<1>5. b \in ConfigType /\ b.base = B /\ b.watermark = c.watermark /\ b.local = c.local /\ b.deferred = c.deferred
  BY <1>1, <1>3, <1>4 DEF ConfigType, BaseType
<1> USE DEF B
<1> QED BY <1>5 DEF Written

LEMMA AbsorbDeletesFields ==
    ASSUME NEW c \in ConfigType, NEW e \in ExType, NEW z, z = AbsorbDeletes(c, e)
    PROVE  /\ z \in ConfigType
           /\ z.watermark = c.watermark /\ z.local = c.local /\ z.deferred = c.deferred
           /\ \A k \in Keys : z.base[k] = IF k \in e.gone THEN NoBase ELSE c.base[k]
<1> DEFINE B == [k \in Keys |-> IF k \in e.gone THEN NoBase ELSE c.base[k]]
<1>1. z = [c EXCEPT !.base = B]
  BY DEF AbsorbDeletes
<1>2. B \in [Keys -> BaseType]
  BY Values DEF ConfigType, BaseType
<1> HIDE DEF B
<1>3. z \in ConfigType /\ z.base = B /\ z.watermark = c.watermark /\ z.local = c.local /\ z.deferred = c.deferred
  BY <1>1, <1>2 DEF ConfigType, BaseType
<1> QED BY <1>3 DEF B

LEMMA AbsorbPullFields ==
    ASSUME NEW c \in ConfigType, NEW e \in ExType, NEW mode, NEW a, a = AbsorbPull(c, e, mode),
           NEW p, p = apply_remote(c, PulledRecs(c, e), mode)
    PROVE  /\ a \in ConfigType /\ a.watermark = IF e.wm # None THEN e.wm ELSE c.watermark
           /\ a.local = p.local /\ a.base = p.base /\ a.deferred = p.deferred
<1>1. p \in ConfigType /\ p.watermark = c.watermark
  <2>1. PICK recs : recs = PulledRecs(c, e)
    OBVIOUS
  <2>2. recs \in Readings /\ p = apply_remote(c, recs, mode)
    BY <2>1, PulledReadings
  <2> QED BY <2>2, ApplyRemote
<1>2. a = [p EXCEPT !.watermark = IF e.wm # None THEN e.wm ELSE p.watermark]
  BY DEF AbsorbPull
<1>3. e.wm \in Nat \cup {None}
  BY DEF ExType
<1> QED BY <1>1, <1>2, <1>3 DEF ConfigType

LEMMA PulledHonest ==
    ASSUME NEW v \in VtaType, NEW c \in ConfigType, NEW e \in ExType, Flight(v, e, c),
           NEW recs, recs = PulledRecs(c, e), NEW k \in Keys, recs[k] # None
    PROVE  Honest(v, k, recs[k])
<1>1. CASE recs[k] = e.pulled[k]
  BY <1>1 DEF Flight
<1>2. CASE /\ e.snap /\ e.wm \in Nat /\ c.base[k].ver # 0 /\ k \notin e.seen
           /\ recs[k] = [ver |-> e.wm, val |-> Absent]
  <2>1. e.wm # None
    BY <1>2, Values
  <2>2. UpTo(v, k, e.wm, NoBase) /\ e.wm <= v.counter
    BY <1>2, <2>1 DEF Flight, Snapshot
  <2> QED BY <1>2, <2>2 DEF UpTo, Says, NoBase, Honest
<1> QED BY <1>1, <1>2, PulledReadings

(* What the VTA answered is right, so what absorb makes of it is right.     *)
Stages(c, e, mode, recs, p, a, b, lost, x) ==
    /\ recs = PulledRecs(c, e) /\ p = apply_remote(c, recs, mode) /\ a = AbsorbPull(c, e, mode)
    /\ b = AbsorbPuts(a, e) /\ lost = RacedRecs(e) /\ x = apply_remote(b, lost, mode)

LEMMA StagesHonest ==
    ASSUME NEW v \in VtaType, Ordered(v), NEW c \in ConfigType, HonestConfig(v, c),
           NEW e \in ExType, Flight(v, e, c), NEW mode,
           NEW recs, NEW p, NEW a, NEW b, NEW lost, NEW x, Stages(c, e, mode, recs, p, a, b, lost, x)
    PROVE  /\ recs \in Readings /\ p \in ConfigType
           /\ a \in ConfigType /\ HonestConfig(v, a)
           /\ b \in ConfigType /\ HonestConfig(v, b)
           /\ lost \in Readings
           /\ x \in ConfigType /\ HonestConfig(v, x)
<1>1. /\ recs = PulledRecs(c, e) /\ p = apply_remote(c, recs, mode) /\ a = AbsorbPull(c, e, mode)
      /\ b = AbsorbPuts(a, e) /\ lost = RacedRecs(e) /\ x = apply_remote(b, lost, mode)
  BY DEF Stages
<1>3. recs \in Readings /\ \A k \in Keys : recs[k] # None => Honest(v, k, recs[k])
  BY <1>1, PulledReadings, PulledHonest
<1>4. p \in ConfigType /\ HonestConfig(v, p)
  BY <1>1, <1>3, ApplyRemote, ApplyHonest
<1>5. a \in ConfigType /\ HonestConfig(v, a)
  <2>1. /\ a \in ConfigType /\ a.watermark = IF e.wm # None THEN e.wm ELSE c.watermark
        /\ a.base = p.base /\ a.deferred = p.deferred
    BY <1>1, AbsorbPullFields
  <2>2. a.watermark <= v.counter
    BY <2>1 DEF Flight, HonestConfig
  <2> QED BY <1>4, <2>1, <2>2 DEF HonestConfig
<1>6. b \in ConfigType /\ HonestConfig(v, b)
  <2>1. /\ b \in ConfigType /\ b.watermark = a.watermark /\ b.deferred = a.deferred
        /\ \A k \in Keys : b.base[k] = IF e.wrote[k] # None /\ e.wrote[k].out = "written"
                                       THEN [ver |-> e.wrote[k].cur.ver, val |-> e.puts[k]] ELSE a.base[k]
    BY <1>1, <1>5, AbsorbPutsFields
  <2>2. ASSUME NEW k \in Keys
        PROVE  (b.base[k].ver = 0 <=> b.base[k].val = Absent) /\ Honest(v, k, b.base[k])
    <3>1. CASE e.wrote[k] # None /\ e.wrote[k].out = "written"
      <4>1. b.base[k] = [ver |-> e.wrote[k].cur.ver, val |-> e.puts[k]]
        BY <2>1, <3>1
      <4>2. HonestWrite(v, e, k) /\ e.wrote[k].cur.ver \in Nat
        BY <3>1 DEF Flight, ExType, WriteType, RecType
      <4>3. e.wrote[k].cur.ver # 0
        BY <4>2, <3>1 DEF HonestWrite, ExType
      <4> QED BY <3>1, <4>1, <4>2, <4>3 DEF HonestWrite, Honest
    <3>2. CASE ~(e.wrote[k] # None /\ e.wrote[k].out = "written")
      BY <1>5, <2>1, <3>2 DEF HonestConfig
    <3> QED BY <3>1, <3>2
  <2> QED BY <1>5, <2>1, <2>2 DEF HonestConfig
<1>7. lost \in Readings /\ \A k \in Keys : lost[k] # None => Honest(v, k, lost[k])
  <2>1. ASSUME NEW k \in Keys, lost[k] # None PROVE Honest(v, k, lost[k])
    <3>1. e.wrote[k] # None /\ e.wrote[k].out = "conflict" /\ lost[k] = e.wrote[k].cur
      BY <1>1, <2>1, RacedReadings
    <3> QED BY <3>1 DEF Flight, HonestWrite
  <2> QED BY <1>1, <2>1, RacedReadings
<1>8. x \in ConfigType /\ HonestConfig(v, x)
  BY <1>1, <1>6, <1>7, ApplyRemote, ApplyHonest
<1> QED BY <1>3, <1>4, <1>5, <1>6, <1>7, <1>8

LEMMA AbsorbHonest ==
    ASSUME NEW v \in VtaType, Ordered(v), NEW c \in ConfigType, HonestConfig(v, c),
           NEW e \in ExType, Flight(v, e, c), NEW mode, NEW z, z = absorb(c, e, mode)
    PROVE  z \in ConfigType /\ HonestConfig(v, z)
<1>1. PICK recs, p, a, b, lost, x : Stages(c, e, mode, recs, p, a, b, lost, x)
  BY DEF Stages
<1>2. z = AbsorbDeletes(x, e)
  BY <1>1 DEF Stages, absorb
<1>8. x \in ConfigType /\ HonestConfig(v, x)
  BY <1>1, StagesHonest
<1>9. /\ z \in ConfigType /\ z.watermark = x.watermark /\ z.deferred = x.deferred
      /\ \A k \in Keys : z.base[k] = IF k \in e.gone THEN NoBase ELSE x.base[k]
  BY <1>2, <1>8, AbsorbDeletesFields
<1>10. ASSUME NEW k \in Keys
       PROVE  (z.base[k].ver = 0 <=> z.base[k].val = Absent) /\ Honest(v, k, z.base[k])
  <2>1. CASE k \in e.gone
    BY <1>9, <2>1, NoBaseHonest DEF NoBase
  <2>2. CASE k \notin e.gone
    BY <1>8, <1>9, <2>2 DEF HonestConfig
  <2> QED BY <2>1, <2>2
<1> QED BY <1>8, <1>9, <1>10 DEF HonestConfig

-----------------------------------------------------------------------------
(* The VTA's steps.                                                         *)
LEMMA VtaTyped == TypeOK => Vta \in VtaType
  BY DEF TypeOK, Vta, VtaType

LEMMA KeysFinite == IsFiniteSet(Keys)
  BY FS_Interval, SyncAssumption DEF Keys

LEMMA Least ==
    ASSUME NEW S, S \subseteq Nat, S # {}
    PROVE  \E i \in S : \A j \in S : i <= j
<1>1. PICK i \in S : \A j \in S : ~(<<j, i>> \in OpToRel(<, Nat))
  BY NatLessThanWellFounded, WFMin
<1>2. \A j \in S : ~(j < i)
  BY <1>1 DEF OpToRel
<1> QED BY <1>2

(* The versions of one batch are new, and each is its own.                  *)
LEMMA NewVersions ==
    ASSUME counter \in Nat, NEW e
    PROVE  /\ Cardinality(Accepted(e)) \in Nat
           /\ \A k \in Accepted(e) : /\ NewVer(e, k) \in Nat /\ counter < NewVer(e, k)
                                     /\ NewVer(e, k) <= counter + Cardinality(Accepted(e))
           /\ \A j, k \in Accepted(e) : j # k => NewVer(e, j) # NewVer(e, k)
<1> DEFINE A == Accepted(e)
           Below(k) == {j \in A : j <= k}
<1>1. IsFiniteSet(A) /\ A \subseteq Keys /\ Keys \subseteq Nat
  BY KeysFinite, FS_Subset, SyncAssumption DEF Accepted, Puts, Keys
<1> HIDE DEF A
<1>2. Cardinality(A) \in Nat
  BY <1>1, FS_CardinalityType
<1>3. ASSUME NEW k \in A
      PROVE  /\ IsFiniteSet(Below(k)) /\ Cardinality(Below(k)) \in Nat
             /\ Cardinality(Below(k)) # 0 /\ Cardinality(Below(k)) <= Cardinality(A)
  <2>1. IsFiniteSet(Below(k)) /\ Cardinality(Below(k)) <= Cardinality(A) /\ Cardinality(Below(k)) \in Nat
    BY <1>1, FS_Subset, FS_CardinalityType
  <2>2. k \in Below(k)
    BY <1>1
  <2> QED BY <2>1, <2>2, FS_EmptySet
<1>4. ASSUME NEW j \in A, NEW k \in A, j < k PROVE Cardinality(Below(j)) < Cardinality(Below(k))
  <2>0. A \subseteq Nat /\ j \in Nat /\ k \in Nat
    BY <1>1
  <2>1. k \in Below(k) /\ k \notin Below(j)
    BY <2>0, <1>4
  <2>2. ASSUME NEW i \in Below(j) PROVE i \in Below(k)
    BY <2>0, <1>4
  <2>3. Below(j) \subseteq Below(k)
    BY <2>2
  <2> HIDE DEF Below
  <2> QED BY <2>1, <2>3, <1>3, FS_Subset
<1>5. \A k \in A : NewVer(e, k) = counter + Cardinality(Below(k))
  BY DEF NewVer, A
<1>6. \A k \in A : /\ NewVer(e, k) \in Nat /\ counter < NewVer(e, k)
                   /\ NewVer(e, k) <= counter + Cardinality(A)
  <2> HIDE DEF Below
  <2> QED BY <1>2, <1>3, <1>5
<1>7. ASSUME NEW j \in A, NEW k \in A, j # k PROVE NewVer(e, j) # NewVer(e, k)
  <2>1. j < k \/ k < j
    BY <1>1, <1>7
  <2> HIDE DEF Below
  <2> QED BY <2>1, <1>3, <1>4, <1>5
<1> QED BY <1>2, <1>6, <1>7 DEF A

(* Every write has a version of its own, above the counter. *)
Wrote(v, u) ==
    /\ u.reaped = v.reaped /\ v.counter <= u.counter
    /\ \A k \in Keys : u.store[k] = v.store[k] \/ (v.counter < u.store[k].ver /\ u.store[k].ver <= u.counter)
    /\ \A j, k \in Keys : j # k /\ v.counter < u.store[j].ver /\ v.counter < u.store[k].ver
                            => u.store[j].ver # u.store[k].ver

LEMMA WroteLater ==
    ASSUME NEW v \in VtaType, NEW u \in VtaType, Ordered(v), Wrote(v, u)
    PROVE  Ordered(u) /\ Later(v, u)
<1>1. ASSUME NEW k \in Keys PROVE v.store[k].ver \in Nat /\ u.store[k].ver \in Nat
  BY DEF VtaType, RecType
<1>2. v.counter \in Nat /\ u.counter \in Nat /\ v.reaped \in Nat /\ u.reaped = v.reaped
  BY DEF VtaType, Wrote
<1>3. Ordered(u)
  <2>1. ASSUME NEW k \in Keys
        PROVE  u.store[k].ver <= u.counter /\ (u.store[k].val # Absent => u.store[k].ver # 0)
    BY <1>1, <1>2 DEF Ordered, Wrote
  <2>2. ASSUME NEW j \in Keys, NEW k \in Keys, j # k, u.store[j].ver = u.store[k].ver
        PROVE  u.store[k].ver = 0
    <3>1. /\ v.store[j].ver = v.store[k].ver => v.store[k].ver = 0
          /\ v.store[j].ver <= v.counter /\ v.store[k].ver <= v.counter
      BY <2>2 DEF Ordered
    <3> QED BY <1>1, <1>2, <2>2, <3>1 DEF Wrote
  <2> QED BY <1>2, <2>1, <2>2 DEF Ordered, Wrote
<1>4. ASSUME NEW k \in Keys, NEW w \in Nat, w <= v.counter, Known(u, k, w)
      PROVE  Known(v, k, w) /\ u.store[k] = v.store[k]
  BY <1>1, <1>2, <1>4 DEF Known, Wrote
<1> QED BY <1>1, <1>2, <1>3, <1>4 DEF Later, Wrote

LEMMA PutsLater ==
    ASSUME TypeOK, Ordered(Vta), NEW e \in ExType, StorePuts(e), reaped' = reaped
    PROVE  Vta' \in VtaType /\ Ordered(Vta') /\ Later(Vta, Vta')
<1>1. counter \in Nat /\ store \in [Keys -> RecType] /\ reaped \in Nat /\ Vta \in VtaType
  BY VtaTyped DEF TypeOK
<1>2. /\ Cardinality(Accepted(e)) \in Nat
      /\ \A k \in Accepted(e) : /\ NewVer(e, k) \in Nat /\ counter < NewVer(e, k)
                                /\ NewVer(e, k) <= counter + Cardinality(Accepted(e))
      /\ \A j, k \in Accepted(e) : j # k => NewVer(e, j) # NewVer(e, k)
  BY <1>1, NewVersions
<1>3. /\ store' = [k \in Keys |-> IF k \in Accepted(e) THEN PutRec(e, k) ELSE store[k]]
      /\ counter' = counter + Cardinality(Accepted(e)) /\ counter' \in Nat
  BY <1>1, <1>2 DEF StorePuts
<1>4. ASSUME NEW k \in Accepted(e)
      PROVE  /\ PutRec(e, k) \in RecType /\ PutRec(e, k).ver = NewVer(e, k)
             /\ k \in Keys
  <2>1. e.puts[k] \in Records /\ k \in Keys
    BY DEF Accepted, Puts, ExType
  <2> QED BY <1>2, <2>1 DEF PutRec, RecType, StoredVals
<1>5. store' \in [Keys -> RecType]
  BY <1>1, <1>3, <1>4
<1>6. Vta' \in VtaType
  BY <1>1, <1>3, <1>5 DEF Vta, VtaType
<1>7. ASSUME NEW k \in Keys
      PROVE  IF k \in Accepted(e) THEN store'[k].ver = NewVer(e, k) ELSE store'[k] = store[k]
  BY <1>3, <1>4
<1>8. \A k \in Keys : store[k].ver \in Nat /\ store[k].ver <= counter
  BY <1>1 DEF Ordered, Vta, RecType
<1>9. Wrote(Vta, Vta')
  <2>1. /\ Vta.counter = counter /\ Vta.store = store /\ Vta'.counter = counter' /\ Vta'.store = store'
        /\ Vta'.reaped = Vta.reaped
    BY DEF Vta
  <2>2. counter <= counter'
    BY <1>1, <1>2, <1>3
  <2>3. \A k \in Keys : store'[k] = store[k] \/ (counter < store'[k].ver /\ store'[k].ver <= counter')
    BY <1>2, <1>3, <1>7
  <2>4. ASSUME NEW j \in Keys, NEW k \in Keys, j # k, counter < store'[j].ver, counter < store'[k].ver
        PROVE  store'[j].ver # store'[k].ver
    <3>1. j \in Accepted(e) /\ k \in Accepted(e)
      BY <1>1, <1>7, <1>8, <2>4
    <3> QED BY <1>2, <1>7, <2>4, <3>1
  <2> QED BY <2>1, <2>2, <2>3, <2>4 DEF Wrote
<1> QED BY <1>1, <1>6, <1>9, WroteLater

(* One record is written with the next version. *)
LEMMA OneLater ==
    ASSUME TypeOK, Ordered(Vta), reaped' = reaped, NEW i \in Keys, NEW x \in StoredVals,
           store' = [store EXCEPT ![i] = [ver |-> counter + 1, val |-> x]], counter' = counter + 1
    PROVE  Vta' \in VtaType /\ Ordered(Vta') /\ Later(Vta, Vta')
<1>1. counter \in Nat /\ store \in [Keys -> RecType] /\ reaped \in Nat /\ Vta \in VtaType
  BY VtaTyped DEF TypeOK
<1>2. [ver |-> counter + 1, val |-> x] \in RecType
  BY <1>1 DEF RecType
<1>3. store' \in [Keys -> RecType] /\ counter' \in Nat
  BY <1>1, <1>2
<1>4. Vta' \in VtaType
  BY <1>1, <1>3 DEF Vta, VtaType
<1>5. /\ Vta.counter = counter /\ Vta.store = store /\ Vta'.counter = counter' /\ Vta'.store = store'
      /\ Vta'.reaped = Vta.reaped
  BY DEF Vta
<1>6. ASSUME NEW k \in Keys PROVE IF k = i THEN store'[k].ver = counter + 1 ELSE store'[k] = store[k]
  BY <1>1
<1>7. \A k \in Keys : store[k].ver \in Nat /\ store[k].ver <= counter
  BY <1>1, <1>5 DEF Ordered, RecType
<1>8. Wrote(Vta, Vta')
  BY <1>1, <1>5, <1>6, <1>7 DEF Wrote
<1> QED BY <1>1, <1>4, <1>8, WroteLater

LEMMA ReapLater ==
    ASSUME TypeOK, Ordered(Vta), Reap
    PROVE  Vta' \in VtaType /\ Ordered(Vta') /\ Later(Vta, Vta')
<1>1. counter \in Nat /\ store \in [Keys -> RecType] /\ reaped \in Nat /\ Vta \in VtaType
  BY VtaTyped DEF TypeOK
<1>2. /\ store' = [k \in Keys |-> IF store[k].val = Absent THEN NoRec ELSE store[k]]
      /\ reaped' = counter /\ counter' = counter
  BY DEF Reap
<1>3. store' \in [Keys -> RecType]
  BY <1>1, <1>2, Values
<1>4. Vta' \in VtaType
  BY <1>1, <1>2, <1>3 DEF Vta, VtaType
<1>5. ASSUME NEW k \in Keys
      PROVE  /\ store[k].ver \in Nat /\ store[k].ver <= counter /\ (store[k].val # Absent => store[k].ver # 0)
             /\ store[k].ver = 0 => reaped <= counter
             /\ store[k].val = Absent => store'[k].ver = 0 /\ store'[k].val = Absent
             /\ store[k].val # Absent => store'[k] = store[k]
  BY <1>1, <1>2 DEF Ordered, Vta, RecType, NoRec
<1>6. Ordered(Vta')
  <2>1. ASSUME NEW j \in Keys, NEW k \in Keys, j # k, store'[j].ver = store'[k].ver PROVE store'[k].ver = 0
    <3>1. store[j].ver = store[k].ver => store[k].ver = 0
      BY <2>1 DEF Ordered, Vta
    <3> QED BY <1>5, <2>1, <3>1
  <2> QED BY <1>1, <1>2, <1>5, <2>1 DEF Ordered, Vta
<1>7. ASSUME NEW k \in Keys, NEW w \in Nat, w <= counter,
             store'[k].ver <= w, store'[k].ver = 0 => counter <= w
      PROVE  /\ store[k].ver <= w /\ (store[k].ver = 0 => reaped <= w)
             /\ store'[k].val = store[k].val /\ store'[k].ver <= store[k].ver
  BY <1>1, <1>5, <1>7
<1>8. Later(Vta, Vta')
  <2>1. reaped <= counter
    BY DEF Ordered, Vta
  <2> QED BY <1>1, <1>2, <1>7, <2>1 DEF Later, Known, Vta
<1> QED BY <1>4, <1>6, <1>8

-----------------------------------------------------------------------------
(* The steps of an exchange, field by field.                                *)
LEMMA IdleTyped == IdleEx \in ExType /\ IdleEx.st = "idle" /\ IdleEx.snap = FALSE
<1>1. [k \in Keys |-> None] \in [Keys -> RecType \cup {None}] /\ [k \in Keys |-> Absent] \in [Keys -> Records]
      /\ [k \in Keys |-> 0] \in [Keys -> Nat] /\ [k \in Keys |-> None] \in [Keys -> WriteType \cup {None}]
  BY Values
<1> QED BY <1>1 DEF IdleEx, ExType

LEMMA PlanFields ==
    ASSUME NEW c \in ConfigType, NEW e, e = PlanEx(c)
    PROVE  /\ e \in ExType /\ e.st = "pull" /\ e.since = c.watermark /\ e.cur = c.watermark
           /\ e.wm = None /\ e.snap = FALSE /\ e.seen = {} /\ e.gone = {}
           /\ \A k \in Keys :
                /\ e.pulled[k] = None /\ e.wrote[k] = None /\ e.expect[k] = c.base[k].ver
                /\ k \in e.dels => e.puts[k] = Absent /\ c.deferred[k] = None
<1> DEFINE P == [k \in Keys |-> IF k \in OutPuts(c) THEN c.local[k] ELSE Absent]
           X == [k \in Keys |-> c.base[k].ver]
<1>1. e = [IdleEx EXCEPT !.st = "pull", !.since = c.watermark, !.cur = c.watermark,
                         !.puts = P, !.dels = OutDeletes(c), !.expect = X]
  BY DEF PlanEx
<1>2. P \in [Keys -> Records] /\ X \in [Keys -> Nat] /\ OutDeletes(c) \in SUBSET Keys /\ c.watermark \in Nat
  BY Values DEF ConfigType, OutDeletes
<1>3. \A k \in OutDeletes(c) : k \in Keys /\ P[k] = Absent /\ c.deferred[k] = None
  BY DEF OutDeletes, OutPuts
<1> HIDE DEF P
<1>4. e \in ExType /\ e.st = "pull" /\ e.since = c.watermark /\ e.cur = c.watermark /\ e.puts = P
      /\ e.dels = OutDeletes(c) /\ e.expect = X /\ e.wm = IdleEx.wm /\ e.snap = IdleEx.snap
      /\ e.seen = IdleEx.seen /\ e.gone = IdleEx.gone /\ e.pulled = IdleEx.pulled /\ e.wrote = IdleEx.wrote
  BY <1>1, <1>2, IdleTyped DEF ExType
<1>5. /\ IdleEx.wm = None /\ IdleEx.snap = FALSE /\ IdleEx.seen = {} /\ IdleEx.gone = {}
      /\ IdleEx.pulled = [k \in Keys |-> None] /\ IdleEx.wrote = [k \in Keys |-> None]
  BY DEF IdleEx
<1> QED BY <1>3, <1>4, <1>5

LEMMA FailedFields ==
    ASSUME NEW e \in ExType, NEW g, g = Failed(e)
    PROVE  /\ g \in ExType /\ g.st = "done"
           /\ g.wm = IF e.st \in {"pull", "snap"} THEN None ELSE e.wm
           /\ g.since = e.since /\ g.cur = e.cur /\ g.snap = e.snap /\ g.pulled = e.pulled
           /\ g.seen = e.seen /\ g.puts = e.puts /\ g.dels = e.dels /\ g.expect = e.expect
           /\ g.wrote = e.wrote /\ g.gone = e.gone
  BY DEF Failed, ExType

LEMMA RestartFields ==
    ASSUME NEW e \in ExType, NEW g,
           g = [e EXCEPT !.st = "snap", !.cur = 0, !.wm = None, !.pulled = [k \in Keys |-> None]]
    PROVE  /\ g \in ExType /\ g.st = "snap" /\ g.cur = 0 /\ g.wm = None
           /\ g.pulled = [k \in Keys |-> None]
           /\ g.since = e.since /\ g.snap = e.snap /\ g.seen = e.seen /\ g.puts = e.puts /\ g.dels = e.dels
           /\ g.expect = e.expect /\ g.wrote = e.wrote /\ g.gone = e.gone
<1>1. [k \in Keys |-> None] \in [Keys -> RecType \cup {None}]
  OBVIOUS
<1> QED BY <1>1 DEF ExType

LEMMA DoneType ==
    ASSUME NEW e
    PROVE  PullDone(e) \in {"put", "delete", "done"} /\ (PullDone(e) = "delete" => e.dels # {})
  BY DEF PullDone, PushFrom

LEMMA WatermarkType ==
    ASSUME counter \in Nat, NEW e \in ExType
    PROVE  FirstWatermark(e) \in Nat /\ FirstWatermark(e) # None
           /\ (e.wm # None => FirstWatermark(e) = e.wm) /\ (e.wm = None => FirstWatermark(e) = counter)
  BY Values DEF FirstWatermark, ExType

(* A page of the feed holds the oldest record that was not read yet.        *)
FeedGot(e, g, k) ==
    /\ k \in Keys /\ store[k].ver > e.cur
    /\ \A j \in Keys : store[j].ver > e.cur => store[k].ver <= store[j].ver
    /\ g.pulled = [e.pulled EXCEPT ![k] = store[k]] /\ g.cur = store[k].ver
FeedEnd(e, g) == g.st # "pull" => \A j \in Keys : store[j].ver <= g.cur

LEMMA FeedFields ==
    ASSUME store \in [Keys -> RecType], counter \in Nat, NEW e \in ExType, e.st = "pull",
           NEW g, g = FeedPage(e)
    PROVE  /\ g \in ExType /\ g.st \in {"pull", "put", "delete", "done"} /\ (g.st = "delete" => g.dels # {})
           /\ g.wm = FirstWatermark(e) /\ g.since = e.since /\ g.snap = e.snap /\ g.seen = e.seen
           /\ g.puts = e.puts /\ g.dels = e.dels /\ g.expect = e.expect /\ g.wrote = e.wrote /\ g.gone = e.gone
           /\ (g.pulled = e.pulled /\ g.cur = e.cur) \/ \E k \in Keys : FeedGot(e, g, k)
           /\ FeedEnd(e, g)
<1>1. FirstWatermark(e) \in Nat
  BY WatermarkType
<1>2. PullDone(e) \in {"put", "delete", "done"} /\ (PullDone(e) = "delete" => e.dels # {})
  BY DoneType
<1>3. \A k \in Keys : store[k] \in RecType /\ store[k].ver \in Nat
  BY DEF RecType
<1>4. CASE Above(e.cur) = {}
  <2>1. g = [e EXCEPT !.wm = FirstWatermark(e), !.st = PullDone(e)]
    BY <1>4 DEF FeedPage
  <2>2. /\ g \in ExType /\ g.st = PullDone(e) /\ g.dels = e.dels
        /\ g.wm = FirstWatermark(e) /\ g.since = e.since /\ g.snap = e.snap /\ g.seen = e.seen
        /\ g.puts = e.puts /\ g.expect = e.expect /\ g.wrote = e.wrote /\ g.gone = e.gone
        /\ g.pulled = e.pulled /\ g.cur = e.cur
    BY <1>1, <1>2, <2>1 DEF ExType
  <2>3. FeedEnd(e, g)
    BY <1>3, <1>4, <2>2 DEF FeedEnd, Above, ExType
  <2> QED BY <1>2, <2>2, <2>3
<1>5. CASE Above(e.cur) # {}
  <2>1. PICK k : k = First(Above(e.cur))
    OBVIOUS
  <2>2. k \in Above(e.cur) /\ \A j \in Above(e.cur) : store[k].ver <= store[j].ver
    <3>1. \E i \in Above(e.cur) : \A j \in Above(e.cur) : store[i].ver <= store[j].ver
      <4> DEFINE S == {store[j].ver : j \in Above(e.cur)}
      <4>1. S \subseteq Nat /\ S # {}
        BY <1>3, <1>5 DEF Above
      <4>2. PICK n \in S : \A m \in S : n <= m
        BY <4>1, Least
      <4> QED BY <4>2
    <3> QED BY <2>1, <3>1 DEF First
  <2>3. k \in Keys /\ store[k].ver > e.cur /\ \A j \in Keys : store[j].ver > e.cur => store[k].ver <= store[j].ver
    BY <2>2 DEF Above
  <2>4. PICK st : st = IF Above(store[k].ver) = {} THEN PullDone(e) ELSE "pull"
    OBVIOUS
  <2>5. g = [e EXCEPT !.wm = FirstWatermark(e), !.pulled[k] = store[k], !.cur = store[k].ver, !.st = st]
    BY <1>5, <2>1, <2>4 DEF FeedPage
  <2>6. [e.pulled EXCEPT ![k] = store[k]] \in [Keys -> RecType \cup {None}]
    BY <1>3, <2>3 DEF ExType
  <2>7. st \in {"pull", "put", "delete", "done"}
    BY <1>2, <2>4
  <2>8. /\ g \in ExType /\ g.st = st /\ g.dels = e.dels
        /\ g.wm = FirstWatermark(e) /\ g.since = e.since /\ g.snap = e.snap /\ g.seen = e.seen
        /\ g.puts = e.puts /\ g.expect = e.expect /\ g.wrote = e.wrote /\ g.gone = e.gone
        /\ g.pulled = [e.pulled EXCEPT ![k] = store[k]] /\ g.cur = store[k].ver
    BY <1>1, <1>3, <2>3, <2>5, <2>6, <2>7 DEF ExType
  <2>9. FeedEnd(e, g)
    BY <1>3, <2>3, <2>4, <2>8 DEF FeedEnd, Above
  <2>10. FeedGot(e, g, k)
    BY <2>3, <2>8 DEF FeedGot
  <2> QED BY <1>2, <2>3, <2>4, <2>8, <2>9, <2>10
<1> QED BY <1>4, <1>5

(* A page of a snapshot holds the next live record.                         *)
SnapGot(e, g, k) ==
    /\ k \in Keys /\ k > e.cur /\ store[k].val # Absent
    /\ \A j \in Keys : j > e.cur /\ store[j].val # Absent => k <= j
    /\ g.pulled = [e.pulled EXCEPT ![k] = store[k]] /\ g.cur = k /\ g.seen = e.seen \cup {k}
SnapEnd(g) == \A j \in Keys : store[j].val # Absent => j <= g.cur

LEMMA SnapFields ==
    ASSUME TypeOK, NEW d \in Devices, SnapPage(d), NEW e, e = ex[d], NEW g, g = ex'[d]
    PROVE  /\ g \in ExType /\ g.st \in {"snap", "put", "delete", "done"} /\ (g.st = "delete" => g.dels # {})
           /\ g.wm = FirstWatermark(e) /\ g.since = e.since /\ (g.snap <=> g.st # "snap")
           /\ g.puts = e.puts /\ g.dels = e.dels /\ g.expect = e.expect /\ g.wrote = e.wrote /\ g.gone = e.gone
           /\ \/ g.pulled = e.pulled /\ g.cur = e.cur /\ g.seen = e.seen /\ g.snap
              \/ \E k \in Keys : SnapGot(e, g, k)
           /\ g.snap => SnapEnd(g)
<1>1. e \in ExType /\ counter \in Nat /\ store \in [Keys -> RecType] /\ ex \in [Devices -> ExType]
  BY DEF TypeOK
<1>2. FirstWatermark(e) \in Nat
  BY <1>1, WatermarkType
<1>3. PullDone(e) \in {"put", "delete", "done"} /\ (PullDone(e) = "delete" => e.dels # {})
  BY DoneType
<1>4. PICK rest, last : rest = LiveAfter(e.cur) /\ last = (Cardinality(rest) <= 1)
  OBVIOUS
<1>5. PICK st : st = IF last THEN PullDone(e) ELSE "snap"
  OBVIOUS
<1>6. rest \subseteq Keys /\ Keys \subseteq Nat /\ e.cur \in Nat
      /\ \A k \in Keys : k \in rest <=> k > e.cur /\ store[k].val # Absent
  BY <1>1, <1>4 DEF LiveAfter, ExType, Keys
<1>7. IsFiniteSet(rest) /\ Cardinality(rest) \in Nat /\ last \in BOOLEAN
  BY <1>4, <1>6, KeysFinite, FS_Subset, FS_CardinalityType
<1>a. last <=> Cardinality(rest) <= 1
  BY <1>4, Zenon
<1>8. (last => st \in {"put", "delete", "done"} /\ st = PullDone(e)) /\ (~last => st = "snap")
  BY <1>3, <1>5, Zenon
<1>9. CASE rest = {}
  <2>1. last
    <3>1. Cardinality(rest) = 0
      BY <1>9, FS_EmptySet
    <3> QED BY <1>a, <3>1
  <2>2. g = [e EXCEPT !.wm = FirstWatermark(e), !.snap = last, !.st = st]
    BY <1>1, <1>4, <1>5, <1>9 DEF SnapPage, SetEx
  <2>3. /\ g \in ExType /\ g.st = st /\ g.snap = last /\ g.dels = e.dels
        /\ g.wm = FirstWatermark(e) /\ g.since = e.since /\ g.seen = e.seen
        /\ g.puts = e.puts /\ g.expect = e.expect /\ g.wrote = e.wrote /\ g.gone = e.gone
        /\ g.pulled = e.pulled /\ g.cur = e.cur
    BY <1>1, <1>2, <1>7, <1>8, <2>2 DEF ExType
  <2>4. SnapEnd(g)
    BY <1>6, <1>9, <2>3 DEF SnapEnd
  <2> QED BY <1>3, <1>5, <1>8, <2>1, <2>3, <2>4
<1>10. CASE rest # {}
  <2>1. PICK k : k = CHOOSE i \in rest : \A j \in rest : i <= j
    OBVIOUS
  <2>2. k \in rest /\ \A j \in rest : k <= j
    <3>1. \E i \in rest : \A j \in rest : i <= j
      BY <1>6, <1>10, Least
    <3> QED BY <2>1, <3>1
  <2>3. g = [[e EXCEPT !.pulled[k] = store[k], !.cur = k, !.seen = @ \cup {k}]
               EXCEPT !.wm = FirstWatermark(e), !.snap = last, !.st = st]
    BY <1>1, <1>4, <1>5, <1>10, <2>1 DEF SnapPage, SetEx
  <2>4. [e.pulled EXCEPT ![k] = store[k]] \in [Keys -> RecType \cup {None}] /\ k \in Keys /\ k \in Nat
    BY <1>1, <1>6, <2>2 DEF ExType
  <2>5. PICK h : h = [e EXCEPT !.pulled[k] = store[k], !.cur = k, !.seen = @ \cup {k}]
    OBVIOUS
  <2>6. /\ h \in ExType /\ h.pulled = [e.pulled EXCEPT ![k] = store[k]] /\ h.cur = k /\ h.seen = e.seen \cup {k}
        /\ h.since = e.since /\ h.puts = e.puts /\ h.dels = e.dels /\ h.expect = e.expect
        /\ h.wrote = e.wrote /\ h.gone = e.gone
    BY <1>1, <2>4, <2>5 DEF ExType
  <2>7. /\ g \in ExType /\ g.st = st /\ g.snap = last /\ g.dels = h.dels
        /\ g.wm = FirstWatermark(e) /\ g.since = h.since /\ g.seen = h.seen
        /\ g.puts = h.puts /\ g.expect = h.expect /\ g.wrote = h.wrote /\ g.gone = h.gone
        /\ g.pulled = h.pulled /\ g.cur = h.cur
    <3>1. g = [h EXCEPT !.wm = FirstWatermark(e), !.snap = last, !.st = st]
      BY <2>3, <2>5
    <3>2. st \in {"snap", "put", "delete", "done"}
      BY <1>8
    <3> QED BY <1>2, <1>7, <2>6, <3>1, <3>2 DEF ExType
  <2>8. ASSUME last PROVE SnapEnd(g)
    <3>1. rest = {k}
      <4>1. Cardinality(rest) <= 1 /\ Cardinality(rest) # 0
        BY <1>a, <1>7, <1>10, <2>8, FS_EmptySet
      <4>2. Cardinality(rest) = 1
        BY <1>7, <4>1
      <4>3. PICK i : rest = {i}
        BY <1>7, <4>2, FS_Singleton
      <4> QED BY <2>2, <4>3
    <3>2. g.cur = k /\ k > e.cur /\ k \in Nat
      BY <1>6, <2>2, <2>4, <2>6, <2>7
    <3>3. ASSUME NEW j \in Keys, store[j].val # Absent PROVE j <= k
      <4>1. j \in Nat /\ (j > e.cur => j = k)
        BY <1>6, <3>1, <3>3
      <4> QED BY <1>6, <3>2, <4>1
    <3> QED BY <3>2, <3>3 DEF SnapEnd
  <2>9. SnapGot(e, g, k)
    BY <1>6, <2>2, <2>4, <2>6, <2>7 DEF SnapGot
  <2> QED BY <1>3, <1>5, <1>8, <2>4, <2>6, <2>7, <2>8, <2>9
<1> QED BY <1>9, <1>10

(* A batch of writes, and one deletion.                                     *)
LEMMA PutFields ==
    ASSUME TypeOK, NEW d \in Devices, PutMany(d), NEW e, e = ex[d], NEW g, g = ex'[d]
    PROVE  /\ g \in ExType /\ g.st \in {"delete", "done"} /\ (g.st = "delete" => g.dels # {})
           /\ g.wm = e.wm /\ g.since = e.since /\ g.cur = e.cur /\ g.snap = e.snap /\ g.pulled = e.pulled
           /\ g.seen = e.seen /\ g.puts = e.puts /\ g.dels = e.dels /\ g.expect = e.expect /\ g.gone = e.gone
           /\ \A k \in Keys : g.wrote[k] = PutResult(e, k) /\ (PutResult(e, k) # None => PutResult(e, k) \in WriteType)
<1>1. e \in ExType /\ counter \in Nat /\ store \in [Keys -> RecType] /\ ex \in [Devices -> ExType]
  BY DEF TypeOK
<1>2. PICK st : st = PushFrom(e)
  OBVIOUS
<1>3. st \in {"delete", "done"} /\ (st = "delete" => e.dels # {})
  BY <1>2 DEF PushFrom
<1>4. ASSUME NEW k \in Keys PROVE PutResult(e, k) \in WriteType \cup {None}
  <2>1. CASE k \in Accepted(e)
    <3>1. NewVer(e, k) \in Nat /\ e.puts[k] \in Records
      BY <1>1, <2>1, NewVersions DEF ExType
    <3>2. PutRec(e, k) \in RecType
      BY <3>1 DEF PutRec, RecType, StoredVals
    <3> QED BY <2>1, <3>2 DEF PutResult, WriteType
  <2>2. CASE k \notin Accepted(e)
    BY <1>1, <2>2, Values DEF PutResult, WriteType
  <2> QED BY <2>1, <2>2
<1> DEFINE W == [k \in Keys |-> PutResult(e, k)]
<1>5. W \in [Keys -> WriteType \cup {None}]
  BY <1>4
<1>6. g = [e EXCEPT !.wrote = W, !.st = st]
  BY <1>1, <1>2 DEF PutMany, SetEx
<1>7. \A k \in Keys : W[k] = PutResult(e, k)
  OBVIOUS
<1> HIDE DEF W
<1>8. /\ g \in ExType /\ g.st = st /\ g.wrote = W
      /\ g.wm = e.wm /\ g.since = e.since /\ g.cur = e.cur /\ g.snap = e.snap /\ g.pulled = e.pulled
      /\ g.seen = e.seen /\ g.puts = e.puts /\ g.dels = e.dels /\ g.expect = e.expect /\ g.gone = e.gone
  BY <1>1, <1>3, <1>5, <1>6 DEF ExType
<1> QED BY <1>3, <1>4, <1>7, <1>8

LEMMA NextDeleted ==
    ASSUME NEW e \in ExType, e.dels # {}
    PROVE  NextDelete(e) \in e.dels
<1>1. e.dels \subseteq Nat
  BY SyncAssumption DEF ExType, Keys
<1>2. \E i \in e.dels : \A j \in e.dels : i <= j
  BY <1>1, Least
<1> QED BY <1>2 DEF NextDelete

LEMMA DeleteFields ==
    ASSUME TypeOK, NEW d \in Devices, DeleteOne(d), NEW e, e = ex[d], e.dels # {}, NEW g, g = ex'[d],
           NEW k, k = NextDelete(e)
    PROVE  /\ g \in ExType /\ g.st \in {"delete", "done"} /\ (g.st = "delete" => g.dels # {})
           /\ g.wm = e.wm /\ g.since = e.since /\ g.cur = e.cur /\ g.snap = e.snap /\ g.pulled = e.pulled
           /\ g.seen = e.seen /\ g.puts = e.puts /\ g.expect = e.expect /\ g.wrote = e.wrote
           /\ g.dels = e.dels \ {k}
           /\ \/ g.gone = e.gone
              \/ g.gone = e.gone \cup {k} /\ (store[k].val = Absent \/ store[k].ver = e.expect[k])
<1>1. e \in ExType /\ ex \in [Devices -> ExType] /\ k \in Keys
  BY NextDeleted DEF TypeOK, ExType
<1>2. PICK edited, rest, st : /\ edited = (store[k].val # Absent /\ store[k].ver # e.expect[k])
                              /\ rest = [e EXCEPT !.dels = @ \ {k}] /\ st = PushFrom(rest)
  OBVIOUS
<1>3. /\ rest \in ExType /\ rest.dels = e.dels \ {k} /\ rest.gone = e.gone /\ rest.kept = e.kept
      /\ rest.wm = e.wm /\ rest.since = e.since /\ rest.cur = e.cur /\ rest.snap = e.snap
      /\ rest.pulled = e.pulled /\ rest.seen = e.seen /\ rest.puts = e.puts /\ rest.expect = e.expect
      /\ rest.wrote = e.wrote
  BY <1>1, <1>2 DEF ExType
<1>4. st \in {"delete", "done"} /\ (st = "delete" => rest.dels # {})
  BY <1>2 DEF PushFrom
<1>5. PICK gone, kept : /\ gone = (IF edited THEN rest.gone ELSE rest.gone \cup {k})
                        /\ kept = (IF edited THEN rest.kept \cup {k} ELSE rest.kept)
  OBVIOUS
<1>6. g = [rest EXCEPT !.gone = gone, !.kept = kept, !.st = st]
  BY <1>1, <1>2, <1>5 DEF DeleteOne, SetEx
<1>7. gone \in SUBSET Keys /\ kept \in SUBSET Keys
  BY <1>1, <1>3, <1>5 DEF ExType
<1>8. /\ g \in ExType /\ g.st = st /\ g.gone = gone /\ g.dels = rest.dels
      /\ g.wm = rest.wm /\ g.since = rest.since /\ g.cur = rest.cur /\ g.snap = rest.snap
      /\ g.pulled = rest.pulled /\ g.seen = rest.seen /\ g.puts = rest.puts /\ g.expect = rest.expect
      /\ g.wrote = rest.wrote
  BY <1>3, <1>4, <1>6, <1>7 DEF ExType
<1>9. \/ g.gone = e.gone
      \/ g.gone = e.gone \cup {k} /\ (store[k].val = Absent \/ store[k].ver = e.expect[k])
  <2>1. gone = e.gone \/ (gone = e.gone \cup {k} /\ ~edited)
    BY <1>3, <1>5, Zenon
  <2>2. ~edited => store[k].val = Absent \/ store[k].ver = e.expect[k]
    BY <1>2, Zenon
  <2> QED BY <1>8, <2>1, <2>2
<1> QED BY <1>3, <1>4, <1>8, <1>9

-----------------------------------------------------------------------------
(* An exchange stays right at each of its steps.                            *)
LEMMA LaterSelf == ASSUME NEW v \in VtaType PROVE Later(v, v)
  BY DEF Later, VtaType, RecType

LEMMA StoreHonest ==
    ASSUME NEW v \in VtaType, Ordered(v), NEW k \in Keys
    PROVE  Honest(v, k, v.store[k])
  BY DEF Ordered, Honest, VtaType, RecType

LEMMA FlightPlanned ==
    ASSUME NEW v, NEW c \in ConfigType, NEW e, e = PlanEx(c)
    PROVE  Flight(v, e, c)
<1>1. /\ e \in ExType /\ e.st = "pull" /\ e.since = c.watermark /\ e.wm = None /\ e.snap = FALSE /\ e.gone = {} /\ e.seen = {}
      /\ \A k \in Keys :
           /\ e.pulled[k] = None /\ e.wrote[k] = None /\ e.expect[k] = c.base[k].ver
           /\ k \in e.dels => e.puts[k] = Absent /\ c.deferred[k] = None
  <2>1. PICK x : x = PlanEx(c) /\ x = e
    OBVIOUS
  <2> HIDE DEF PlanEx
  <2>2. /\ x \in ExType /\ x.st = "pull" /\ x.since = c.watermark /\ x.wm = None /\ x.snap = FALSE
        /\ x.gone = {} /\ x.seen = {}
    BY <2>1, PlanFields
  <2>3. ASSUME NEW k \in Keys
        PROVE  /\ x.pulled[k] = None /\ x.wrote[k] = None /\ x.expect[k] = c.base[k].ver
               /\ k \in x.dels => x.puts[k] = Absent /\ c.deferred[k] = None
    BY <2>1, PlanFields
  <2> QED BY <2>1, <2>2, <2>3
<1> QED BY <1>1 DEF Flight

LEMMA FlightFailed ==
    ASSUME NEW v, NEW c, NEW e \in ExType, Flight(v, e, c), NEW g, g = Failed(e)
    PROVE  Flight(v, g, c)
<1>1. /\ g.st = "done" /\ g.wm = IF e.st \in {"pull", "snap"} THEN None ELSE e.wm
      /\ g.since = e.since /\ g.snap = e.snap /\ g.pulled = e.pulled
      /\ g.seen = e.seen /\ g.puts = e.puts /\ g.dels = e.dels /\ g.expect = e.expect
      /\ g.wrote = e.wrote /\ g.gone = e.gone
  BY FailedFields
<1>2. ASSUME NEW k \in Keys
      PROVE  /\ g.expect[k] = c.base[k].ver
             /\ g.pulled[k] # None => Honest(v, k, g.pulled[k])
             /\ g.wrote[k] # None => HonestWrite(v, g, k)
             /\ g.snap => Snapshot(v, g, k)
             /\ k \in g.dels \cup g.gone => g.puts[k] = Absent /\ c.deferred[k] = None
  <2>1. g.wrote[k] # None => HonestWrite(v, g, k)
    BY <1>1 DEF Flight, HonestWrite
  <2>2. ASSUME g.snap PROVE Snapshot(v, g, k)
    <3>1. e.snap /\ e.wm # None /\ e.st \notin {"pull", "snap"}
      BY <1>1, <2>2 DEF Flight
    <3>2. Snapshot(v, e, k)
      BY <3>1 DEF Flight
    <3> QED BY <1>1, <3>1, <3>2 DEF Snapshot
  <2> QED BY <1>1, <2>1, <2>2 DEF Flight
<1>3. /\ g.since = c.watermark
      /\ g.wm # None => g.since <= g.wm /\ g.wm <= v.counter
      /\ g.wm = None \/ g.st \in {"pull", "snap"} => g.gone = {} /\ ~g.snap
  BY <1>1 DEF Flight
<1> QED BY <1>1, <1>2, <1>3 DEF Flight

LEMMA FlightRestart ==
    ASSUME NEW v, NEW c, NEW e \in ExType, Flight(v, e, c), e.st = "pull", NEW g,
           g = [e EXCEPT !.st = "snap", !.cur = 0, !.wm = None, !.pulled = [k \in Keys |-> None]]
    PROVE  Flight(v, g, c)
<1>1. /\ g.st = "snap" /\ g.cur = 0 /\ g.wm = None /\ g.pulled = [k \in Keys |-> None]
      /\ g.since = e.since /\ g.snap = e.snap /\ g.seen = e.seen /\ g.puts = e.puts /\ g.dels = e.dels
      /\ g.expect = e.expect /\ g.wrote = e.wrote /\ g.gone = e.gone
  BY RestartFields
<1>2. ASSUME NEW k \in Keys
      PROVE  /\ g.expect[k] = c.base[k].ver
             /\ g.pulled[k] = None /\ g.wrote[k] = None
             /\ k \in g.dels \cup g.gone => g.puts[k] = Absent /\ c.deferred[k] = None
  BY <1>1 DEF Flight, HonestWrite
<1>3. g.since = c.watermark /\ g.gone = {} /\ ~g.snap /\ g.seen = {}
  BY <1>1 DEF Flight
<1> QED BY <1>1, <1>2, <1>3 DEF Flight

LEMMA FlightFeed ==
    ASSUME TypeOK, Ordered(Vta), NEW c, NEW e \in ExType, Flight(Vta, e, c), e.st = "pull",
           e.since <= counter, NEW g, g = FeedPage(e)
    PROVE  Flight(Vta, g, c)
<1>0. store \in [Keys -> RecType] /\ counter \in Nat
  BY DEF TypeOK
<1>1. /\ g \in ExType /\ g.st \in {"pull", "put", "delete", "done"} /\ (g.st = "delete" => g.dels # {})
      /\ g.wm = FirstWatermark(e) /\ g.since = e.since /\ g.snap = e.snap /\ g.seen = e.seen
      /\ g.puts = e.puts /\ g.dels = e.dels /\ g.expect = e.expect /\ g.wrote = e.wrote /\ g.gone = e.gone
      /\ (g.pulled = e.pulled /\ g.cur = e.cur) \/ \E k \in Keys : FeedGot(e, g, k)
  BY <1>0, FeedFields
<1>2. g.wm \in Nat /\ g.wm # None /\ (e.wm # None => g.wm = e.wm) /\ (e.wm = None => g.wm = counter)
  BY <1>0, <1>1, WatermarkType
<1>3. g.since = c.watermark /\ g.since <= g.wm /\ g.wm <= Vta.counter /\ g.gone = {} /\ ~g.snap /\ g.seen = {}
  BY <1>0, <1>1, <1>2 DEF Flight, Vta
<1>4. ASSUME NEW k \in Keys, g.pulled[k] # None PROVE Honest(Vta, k, g.pulled[k])
  <2>1. CASE g.pulled[k] = e.pulled[k]
    BY <1>4, <2>1 DEF Flight
  <2>2. CASE g.pulled[k] = store[k]
    BY <2>2, VtaTyped, StoreHonest DEF Vta
  <2>3. g.pulled[k] = e.pulled[k] \/ g.pulled[k] = store[k]
    <3>1. CASE g.pulled = e.pulled
      BY <3>1
    <3>2. CASE \E i \in Keys : FeedGot(e, g, i)
      BY <3>2 DEF FeedGot, ExType
    <3> QED BY <1>1, <3>1, <3>2
  <2> QED BY <2>1, <2>2, <2>3
<1>5. ASSUME NEW k \in Keys
      PROVE  /\ g.expect[k] = c.base[k].ver
             /\ g.wrote[k] = None
             /\ k \in g.dels \cup g.gone => g.puts[k] = Absent /\ c.deferred[k] = None
  BY <1>1 DEF Flight, HonestWrite
<1> QED BY <1>1, <1>2, <1>3, <1>4, <1>5 DEF Flight

LEMMA FlightSnap ==
    ASSUME TypeOK, Ordered(Vta), NEW c, NEW d \in Devices, SnapPage(d), NEW e, e = ex[d], NEW g, g = ex'[d],
           Flight(Vta, e, c), e.since <= counter
    PROVE  Flight(Vta, g, c)
<1>0. store \in [Keys -> RecType] /\ counter \in Nat /\ e \in ExType /\ e.st = "snap" /\ Keys \subseteq Nat
      /\ Vta.store = store /\ Vta.counter = counter /\ Vta \in VtaType
  BY SyncAssumption, VtaTyped DEF TypeOK, SnapPage, Keys, Vta
<1>1. /\ g \in ExType /\ g.st \in {"snap", "put", "delete", "done"} /\ (g.st = "delete" => g.dels # {})
      /\ g.wm = FirstWatermark(e) /\ g.since = e.since /\ (g.snap <=> g.st # "snap")
      /\ g.puts = e.puts /\ g.dels = e.dels /\ g.expect = e.expect /\ g.wrote = e.wrote /\ g.gone = e.gone
      /\ \/ g.pulled = e.pulled /\ g.cur = e.cur /\ g.seen = e.seen /\ g.snap
         \/ \E k \in Keys : SnapGot(e, g, k)
      /\ g.snap => SnapEnd(g)
  BY SnapFields
<1>2. g.wm \in Nat /\ g.wm # None /\ (e.wm # None => g.wm = e.wm) /\ (e.wm = None => g.wm = counter)
  BY <1>0, <1>1, WatermarkType
<1>3. g.since = c.watermark /\ g.since <= g.wm /\ g.wm <= Vta.counter /\ g.gone = {}
  BY <1>0, <1>1, <1>2 DEF Flight
<1>4. ASSUME NEW k \in Keys
      PROVE  /\ k \in e.seen <=> e.pulled[k] # None
             /\ k \in e.seen => UpTo(Vta, k, g.wm, e.pulled[k])
             /\ k \notin e.seen /\ k <= e.cur => UpTo(Vta, k, g.wm, NoBase)
  <2>1. CASE e.wm # None
    BY <1>0, <1>2, <2>1 DEF Flight, Snapshot
  <2>2. CASE e.wm = None
    <3>1. k \notin e.seen /\ e.pulled[k] = None /\ e.cur = 0 /\ k >= 1
      BY <1>0, <2>2 DEF Flight, Keys
    <3> QED BY <1>0, <3>1
  <2> QED BY <2>1, <2>2
<1>5. ASSUME NEW k \in Keys, store[k].val = Absent PROVE UpTo(Vta, k, g.wm, NoBase)
  BY <1>0, <1>5 DEF UpTo, Says, NoBase
<1>6. ASSUME NEW k \in Keys PROVE UpTo(Vta, k, g.wm, store[k]) /\ Honest(Vta, k, store[k])
  <2>1. store[k].ver \in Nat
    BY <1>0 DEF RecType
  <2> QED BY <1>0, <2>1, StoreHonest DEF UpTo, Says
<1>7. ASSUME NEW k \in Keys
      PROVE  /\ g.pulled[k] # None => Honest(Vta, k, g.pulled[k])
             /\ Snapshot(Vta, g, k)
  <2>1. CASE g.pulled = e.pulled /\ g.cur = e.cur /\ g.seen = e.seen /\ g.snap
    <3>1. k \notin g.seen => UpTo(Vta, k, g.wm, NoBase)
      <4>1. store[k].val # Absent => k <= e.cur
        BY <1>1, <2>1 DEF SnapEnd
      <4> QED BY <1>4, <1>5, <2>1, <4>1
    <3> QED BY <1>4, <2>1, <3>1 DEF Snapshot, Flight
  <2>2. CASE \E i \in Keys : SnapGot(e, g, i)
    <3>1. PICK i \in Keys : SnapGot(e, g, i)
      BY <2>2
    <3>2. /\ g.pulled = [e.pulled EXCEPT ![i] = store[i]] /\ g.cur = i /\ g.seen = e.seen \cup {i}
          /\ i > e.cur /\ \A j \in Keys : j > e.cur /\ store[j].val # Absent => i <= j
      BY <3>1 DEF SnapGot
    <3>3. CASE k = i
      <4>1. g.pulled[k] = store[k] /\ k \in g.seen /\ store[k] # None
        BY <1>0, <3>2, <3>3, Values DEF ExType
      <4> QED BY <1>6, <4>1 DEF Snapshot
    <3>4. CASE k # i
      <4>1. g.pulled[k] = e.pulled[k] /\ (k \in g.seen <=> k \in e.seen)
        BY <1>0, <3>2, <3>4 DEF ExType
      <4>2. g.pulled[k] # None => Honest(Vta, k, g.pulled[k])
        BY <4>1 DEF Flight
      <4>3. ASSUME k \notin g.seen, g.snap \/ k <= g.cur PROVE UpTo(Vta, k, g.wm, NoBase)
        <5>1. CASE store[k].val = Absent
          BY <1>5, <5>1
        <5>2. CASE store[k].val # Absent
          <6>1. k <= i /\ k \in Nat /\ i \in Nat /\ e.cur \in Nat
            BY <1>0, <1>1, <3>2, <4>3, <5>2 DEF SnapEnd, ExType
          <6>2. ~(k > e.cur)
            BY <3>2, <3>4, <5>2, <6>1
          <6> QED BY <1>4, <4>1, <4>3, <6>1, <6>2
        <5> QED BY <5>1, <5>2
      <4> QED BY <1>4, <4>1, <4>2, <4>3 DEF Snapshot
    <3> QED BY <3>3, <3>4
  <2> QED BY <1>1, <2>1, <2>2
<1>8. ASSUME NEW k \in Keys
      PROVE  /\ g.expect[k] = c.base[k].ver
             /\ g.wrote[k] = None
             /\ k \in g.dels \cup g.gone => g.puts[k] = Absent /\ c.deferred[k] = None
  BY <1>0, <1>1 DEF Flight, HonestWrite
<1>9. g.st \in {"pull", "snap"} => ~g.snap
  BY <1>1
<1> QED BY <1>1, <1>2, <1>3, <1>7, <1>8, <1>9 DEF Flight

LEMMA FlightPut ==
    ASSUME TypeOK, Ordered(Vta), NEW c, NEW d \in Devices, PutMany(d), NEW e, e = ex[d], NEW g, g = ex'[d],
           Flight(Vta, e, c)
    PROVE  Vta' \in VtaType /\ Ordered(Vta') /\ Later(Vta, Vta') /\ Flight(Vta', g, c)
<1>0. e \in ExType /\ e.st = "put" /\ counter \in Nat /\ store \in [Keys -> RecType] /\ Vta \in VtaType
      /\ Vta.store = store /\ Vta.counter = counter /\ Vta'.store = store'
  BY VtaTyped DEF TypeOK, PutMany, Vta
<1>1. StorePuts(e) /\ reaped' = reaped
  BY DEF PutMany
<1>2. Vta' \in VtaType /\ Ordered(Vta') /\ Later(Vta, Vta')
  BY <1>0, <1>1, PutsLater
<1>3. PICK u \in VtaType : u = Vta' /\ Ordered(u) /\ Later(Vta, u)
  BY <1>2
<1>4. Flight(u, e, c)
  BY <1>0, <1>3, FlightLater
<1>5. /\ g \in ExType /\ g.st \in {"delete", "done"} /\ (g.st = "delete" => g.dels # {})
      /\ g.wm = e.wm /\ g.since = e.since /\ g.cur = e.cur /\ g.snap = e.snap /\ g.pulled = e.pulled
      /\ g.seen = e.seen /\ g.puts = e.puts /\ g.dels = e.dels /\ g.expect = e.expect /\ g.gone = e.gone
      /\ \A k \in Keys : g.wrote[k] = PutResult(e, k) /\ (PutResult(e, k) # None => PutResult(e, k) \in WriteType)
  BY PutFields
<1>6. e.wm # None /\ e.wm \in Nat /\ e.wm <= counter
  BY <1>0 DEF Flight, ExType
<1>7. ASSUME NEW k \in Keys, g.wrote[k] # None PROVE HonestWrite(u, g, k)
  <2>1. k \in Puts(e) /\ e.puts[k] # Absent
    BY <1>5, <1>7 DEF PutResult, Puts
  <2>2. CASE k \in Accepted(e)
    <3>1. g.wrote[k] = [out |-> "written", cur |-> PutRec(e, k)]
      BY <1>5, <2>1, <2>2 DEF PutResult
    <3>2. u.store[k] = PutRec(e, k)
      BY <1>0, <1>1, <1>3, <2>2 DEF StorePuts
    <3>3. Honest(u, k, PutRec(e, k))
      BY <1>3, <3>2, StoreHonest
    <3>4. PutRec(e, k).val = e.puts[k] /\ e.wm < PutRec(e, k).ver
      <4>1. NewVer(e, k) \in Nat /\ counter < NewVer(e, k)
        BY <1>0, <2>2, NewVersions
      <4> QED BY <1>0, <1>6, <4>1 DEF PutRec
    <3> QED BY <1>5, <1>6, <2>1, <3>1, <3>3, <3>4 DEF HonestWrite
  <2>3. CASE k \notin Accepted(e) /\ e.expect[k] # LiveVersion(k)
    <3>1. g.wrote[k] = [out |-> "conflict", cur |-> store[k]]
      BY <1>5, <2>1, <2>3 DEF PutResult
    <3>2. Honest(Vta, k, store[k]) /\ store[k] \in RecType
      BY <1>0, StoreHonest
    <3>3. Honest(u, k, store[k])
      BY <1>0, <1>3, <3>2, HonestLater
    <3> QED BY <1>5, <1>6, <2>1, <3>1, <3>3 DEF HonestWrite
  <2>4. CASE k \notin Accepted(e) /\ e.expect[k] = LiveVersion(k)
    <3>1. g.wrote[k] = [out |-> "tooLarge", cur |-> NoRec]
      BY <1>5, <2>1, <2>4 DEF PutResult
    <3> QED BY <1>5, <1>6, <2>1, <3>1 DEF HonestWrite
  <2> QED BY <2>2, <2>3, <2>4
<1>8. ASSUME NEW k \in Keys
      PROVE  /\ g.expect[k] = c.base[k].ver
             /\ g.pulled[k] # None => Honest(u, k, g.pulled[k])
             /\ g.snap => Snapshot(u, g, k)
             /\ k \in g.dels \cup g.gone => g.puts[k] = Absent /\ c.deferred[k] = None
  <2>1. ASSUME g.snap PROVE Snapshot(u, g, k)
    <3>1. Snapshot(u, e, k)
      BY <1>4, <1>5, <1>6, <2>1 DEF Flight
    <3> QED BY <1>5, <2>1, <3>1 DEF Snapshot
  <2> QED BY <1>4, <1>5, <2>1 DEF Flight
<1>9. /\ g.since = c.watermark
      /\ g.since <= g.wm /\ g.wm <= u.counter /\ g.wm # None
  BY <1>4, <1>5, <1>6 DEF Flight
<1>10. Flight(u, g, c)
  BY <1>5, <1>7, <1>8, <1>9 DEF Flight
<1> QED BY <1>2, <1>3, <1>10

LEMMA DeleteLater ==
    ASSUME TypeOK, Ordered(Vta), NEW d, NEW k \in Keys, NEW x, StoreDelete(d, k, x), reaped' = reaped
    PROVE  Vta' \in VtaType /\ Ordered(Vta') /\ Later(Vta, Vta')
<1>1. CASE store[k].val # Absent /\ store[k].ver = x
  <2>1. store' = [store EXCEPT ![k] = [ver |-> counter + 1, val |-> Absent]] /\ counter' = counter + 1
    BY <1>1 DEF StoreDelete
  <2>2. Absent \in StoredVals
    BY Values DEF StoredVals
  <2> QED BY <2>1, <2>2, OneLater
<1>2. CASE ~(store[k].val # Absent /\ store[k].ver = x)
  <2>1. Vta' = Vta
    BY <1>2 DEF StoreDelete, Vta
  <2> QED BY <2>1, VtaTyped, LaterSelf
<1> QED BY <1>1, <1>2

LEMMA FlightDelete ==
    ASSUME TypeOK, Ordered(Vta), NEW c, NEW d \in Devices, DeleteOne(d), NEW e, e = ex[d], NEW g, g = ex'[d],
           Flight(Vta, e, c)
    PROVE  Vta' \in VtaType /\ Ordered(Vta') /\ Later(Vta, Vta') /\ Flight(Vta', g, c)
<1>0. e \in ExType /\ e.st = "delete" /\ e.dels # {} /\ Vta \in VtaType
  BY VtaTyped DEF TypeOK, DeleteOne, Flight
<1>1. PICK k : k = NextDelete(e)
  OBVIOUS
<1>2. k \in e.dels /\ k \in Keys
  BY <1>0, <1>1, NextDeleted DEF ExType
<1>3. StoreDelete(d, k, e.expect[k]) /\ reaped' = reaped
  BY <1>1 DEF DeleteOne
<1>4. Vta' \in VtaType /\ Ordered(Vta') /\ Later(Vta, Vta')
  BY <1>2, <1>3, DeleteLater
<1>5. PICK u \in VtaType : u = Vta' /\ Ordered(u) /\ Later(Vta, u)
  BY <1>4
<1>6. Flight(u, e, c)
  BY <1>0, <1>5, FlightLater
<1>7. /\ g \in ExType /\ g.st \in {"delete", "done"} /\ (g.st = "delete" => g.dels # {})
      /\ g.wm = e.wm /\ g.since = e.since /\ g.cur = e.cur /\ g.snap = e.snap /\ g.pulled = e.pulled
      /\ g.seen = e.seen /\ g.puts = e.puts /\ g.expect = e.expect /\ g.wrote = e.wrote
      /\ g.dels = e.dels \ {k} /\ (g.gone = e.gone \/ g.gone = e.gone \cup {k})
  <2>1. \/ g.gone = e.gone
        \/ g.gone = e.gone \cup {k} /\ (store[k].val = Absent \/ store[k].ver = e.expect[k])
    BY <1>0, <1>1, DeleteFields
  <2>2. /\ g \in ExType /\ g.st \in {"delete", "done"} /\ (g.st = "delete" => g.dels # {})
        /\ g.wm = e.wm /\ g.since = e.since /\ g.cur = e.cur /\ g.snap = e.snap /\ g.pulled = e.pulled
        /\ g.seen = e.seen /\ g.puts = e.puts /\ g.expect = e.expect /\ g.wrote = e.wrote
        /\ g.dels = e.dels \ {k}
    BY <1>0, <1>1, DeleteFields
  <2> QED BY <2>1, <2>2, Zenon
<1>8. e.wm # None
  BY <1>0 DEF Flight
<1>9. ASSUME NEW i \in Keys
       PROVE  /\ g.expect[i] = c.base[i].ver
              /\ g.pulled[i] # None => Honest(u, i, g.pulled[i])
              /\ g.wrote[i] # None => HonestWrite(u, g, i)
              /\ g.snap => Snapshot(u, g, i)
              /\ i \in g.dels \cup g.gone => g.puts[i] = Absent /\ c.deferred[i] = None
  <2>1. ASSUME g.snap PROVE Snapshot(u, g, i)
    <3>1. Snapshot(u, e, i)
      BY <1>6, <1>7, <1>8, <2>1 DEF Flight
    <3> QED BY <1>7, <2>1, <3>1 DEF Snapshot
  <2>2. g.wrote[i] # None => HonestWrite(u, g, i)
    BY <1>6, <1>7 DEF Flight, HonestWrite
  <2>3. i \in g.dels \cup g.gone => i \in e.dels \cup e.gone
    BY <1>2, <1>7
  <2> QED BY <1>6, <1>7, <2>1, <2>2, <2>3 DEF Flight
<1>10. /\ g.since = c.watermark /\ g.since <= g.wm /\ g.wm <= u.counter /\ g.wm # None
  BY <1>6, <1>7, <1>8 DEF Flight
<1>11. Flight(u, g, c)
  BY <1>7, <1>9, <1>10 DEF Flight
<1> QED BY <1>4, <1>5, <1>11

LEMMA FlightAnswerLost ==
    ASSUME TypeOK, Ordered(Vta), NEW c, NEW d \in Devices, AnswerLost(d), NEW e, e = ex[d], NEW g, g = ex'[d],
           Flight(Vta, e, c)
    PROVE  Vta' \in VtaType /\ Ordered(Vta') /\ Later(Vta, Vta') /\ g \in ExType /\ Flight(Vta', g, c)
<1>0. e \in ExType /\ Vta \in VtaType /\ reaped' = reaped /\ g = Failed(e)
  BY VtaTyped DEF TypeOK, AnswerLost, SetEx
<1>1. Vta' \in VtaType /\ Ordered(Vta') /\ Later(Vta, Vta')
  <2>1. CASE e.st = "put"
    <3>1. StorePuts(e)
      BY <2>1 DEF AnswerLost
    <3> QED BY <1>0, <3>1, PutsLater
  <2>2. CASE e.st = "delete"
    <3>1. PICK k : k = NextDelete(e)
      OBVIOUS
    <3>2. k \in Keys
      BY <1>0, <2>2, <3>1, NextDeleted DEF ExType, Flight
    <3>3. StoreDelete(d, k, e.expect[k])
      BY <2>2, <3>1 DEF AnswerLost
    <3> QED BY <1>0, <3>2, <3>3, DeleteLater
  <2> QED BY <2>1, <2>2 DEF AnswerLost
<1>2. PICK u \in VtaType : u = Vta' /\ Ordered(u) /\ Later(Vta, u)
  BY <1>1
<1>3. Flight(u, e, c)
  BY <1>0, <1>2, FlightLater
<1>4. g \in ExType /\ Flight(u, g, c)
  BY <1>0, <1>3, FlightFailed, FailedFields
<1> QED BY <1>1, <1>2, <1>4

-----------------------------------------------------------------------------
(* What is true of one device stays true when only the VTA moves on.        *)
LEMMA DeviceLater ==
    ASSUME NEW v \in VtaType, NEW u \in VtaType, Later(v, u), NEW ph, NEW e \in ExType,
           NEW c \in ConfigType, NEW saved \in ConfigType, Device(v, ph, e, c, saved)
    PROVE  Device(u, ph, e, c, saved)
<1>1. HonestConfig(u, c) /\ HonestConfig(u, saved)
  BY HonestConfigLater DEF Device
<1>2. e.st # "idle" => Flight(u, e, c)
  BY FlightLater DEF Device
<1> QED BY <1>1, <1>2 DEF Device

LEMMA Frame ==
    ASSUME HonestInv, TypeOK', NEW u \in VtaType, u = Vta', Ordered(u), Later(Vta, u), NEW d \in Devices,
           \A x \in Devices \ {d} : /\ phase'[x] = phase[x] /\ ex'[x] = ex[x]
                                    /\ mem'[x] = mem[x] /\ disk'[x] = disk[x],
           Device(u, phase'[d], ex'[d], mem'[d], disk'[d])
    PROVE  HonestInv'
<1>1. ASSUME NEW x \in Devices PROVE Device(u, phase'[x], ex'[x], mem'[x], disk'[x])
  <2>1. CASE x = d
    BY <2>1
  <2>2. CASE x # d
    <3>1. Device(Vta, phase[x], ex[x], mem[x], disk[x])
      BY DEF HonestInv
    <3>2. ex[x] \in ExType /\ mem[x] \in ConfigType /\ disk[x] \in ConfigType /\ Vta \in VtaType
      BY VtaTyped DEF HonestInv, TypeOK
    <3>3. Device(u, phase[x], ex[x], mem[x], disk[x])
      BY <3>1, <3>2, DeviceLater
    <3> QED BY <2>2, <3>3
  <2> QED BY <2>1, <2>2
<1> QED BY <1>1 DEF HonestInv

LEMMA ConflictPaths ==
    ASSUME NEW c, NEW recs, NEW mode
    PROVE  ApplyConflicts(c, recs, mode) \in SUBSET (Keys \X (Fields \cup {Root}))
<1>1. ASSUME NEW b, NEW l, NEW r PROVE conflicts3(b, l, r) \subseteq Fields \cup {Root}
  BY DEF conflicts3
<1> QED BY <1>1 DEF ApplyConflicts

LEMMA AbsorbPaths ==
    ASSUME NEW c, NEW e, NEW mode
    PROVE  AbsorbConflicts(c, e, mode) \in SUBSET (Keys \X (Fields \cup {Root}))
  BY ConflictPaths DEF AbsorbConflicts

LEMMA Spent ==
    ASSUME TypeOK, NEW what \in Bounded, Spend(what)
    PROVE  left' \in [Bounded -> Nat]
<1>1. left \in [Bounded -> Nat] /\ left[what] > 0 /\ left' = [left EXCEPT ![what] = @ - 1]
  BY DEF TypeOK, Spend
<1>2. left[what] - 1 \in Nat
  BY <1>1
<1> QED BY <1>1, <1>2

(* A step of one exchange, with or without the VTA. *)
LEMMA ExchangeKeeps ==
    ASSUME HonestInv, NEW d \in Devices, NEW g \in ExType, ex' = [ex EXCEPT ![d] = g], ex[d].st # "idle",
           Vta' \in VtaType, Ordered(Vta'), Later(Vta, Vta'), Flight(Vta', g, mem[d]),
           UNCHANGED devVars, left' \in [Bounded -> Nat]
    PROVE  HonestInv'
<1>1. TypeOK /\ Device(Vta, phase[d], ex[d], mem[d], disk[d]) /\ Vta \in VtaType
  BY VtaTyped DEF HonestInv
<1>2. ex[d] \in ExType /\ mem[d] \in ConfigType /\ disk[d] \in ConfigType
  BY <1>1 DEF TypeOK
<1>3. PICK u \in VtaType : u = Vta' /\ Ordered(u) /\ Later(Vta, u) /\ Flight(u, g, mem[d])
  OBVIOUS
<1>4. mem' = mem /\ disk' = disk /\ phase' = phase /\ round' = round /\ report' = report
  BY DEF devVars
<1>5. ex' \in [Devices -> ExType] /\ ex'[d] = g /\ \A x \in Devices \ {d} : ex'[x] = ex[x]
  BY <1>1 DEF TypeOK
<1>6. store' \in [Keys -> RecType] /\ counter' \in Nat /\ reaped' \in Nat
  BY DEF Vta, VtaType
<1>7. TypeOK'
  BY <1>1, <1>4, <1>5, <1>6 DEF TypeOK
<1>8. Device(u, phase[d], g, mem[d], disk[d])
  <2>1. HonestConfig(u, mem[d]) /\ HonestConfig(u, disk[d])
    BY <1>1, <1>2, <1>3, HonestConfigLater DEF Device
  <2>2. phase[d] # "off"
    BY <1>1 DEF Device
  <2> QED BY <1>3, <2>1, <2>2 DEF Device
<1> QED BY <1>3, <1>4, <1>5, <1>7, <1>8, Frame

(* A step of the VTA alone. *)
LEMMA VtaKeeps ==
    ASSUME HonestInv, Vta' \in VtaType, Ordered(Vta'), Later(Vta, Vta'),
           UNCHANGED <<ex, devVars>>, left' \in [Bounded -> Nat]
    PROVE  HonestInv'
<1>1. TypeOK /\ Vta \in VtaType
  BY VtaTyped DEF HonestInv
<1>2. PICK u \in VtaType : u = Vta' /\ Ordered(u) /\ Later(Vta, u)
  OBVIOUS
<1>3. ex' = ex /\ mem' = mem /\ disk' = disk /\ phase' = phase /\ round' = round /\ report' = report
  BY DEF devVars
<1>4. store' \in [Keys -> RecType] /\ counter' \in Nat /\ reaped' \in Nat
  BY DEF Vta, VtaType
<1>5. TypeOK'
  BY <1>1, <1>3, <1>4 DEF TypeOK
<1>6. ASSUME NEW x \in Devices PROVE Device(u, phase[x], ex[x], mem[x], disk[x])
  <2>1. Device(Vta, phase[x], ex[x], mem[x], disk[x])
    BY DEF HonestInv
  <2>2. ex[x] \in ExType /\ mem[x] \in ConfigType /\ disk[x] \in ConfigType
    BY <1>1 DEF TypeOK
  <2> QED BY <1>1, <1>2, <2>1, <2>2, DeviceLater
<1> QED BY <1>2, <1>3, <1>5, <1>6 DEF HonestInv

(* A step of one device that asks the VTA nothing. *)
LEMMA DeviceKeeps ==
    ASSUME HonestInv, UNCHANGED vtaVars, NEW d \in Devices,
           NEW c \in ConfigType, mem' = [mem EXCEPT ![d] = c],
           NEW s \in ConfigType, disk' = [disk EXCEPT ![d] = s],
           NEW ph \in {"off", "loading", "running"}, phase' = [phase EXCEPT ![d] = ph],
           NEW g \in ExType, ex' = [ex EXCEPT ![d] = g],
           NEW r \in 0..LoadRounds, round' = [round EXCEPT ![d] = r],
           NEW p \in SUBSET (Keys \X (Fields \cup {Root})), report' = [report EXCEPT ![d] = p],
           left' \in [Bounded -> Nat], Device(Vta, ph, g, c, s)
    PROVE  HonestInv'
<1>1. TypeOK /\ Vta \in VtaType /\ Vta' = Vta /\ Ordered(Vta)
  BY VtaTyped DEF HonestInv, vtaVars, Vta
<1>2. /\ mem'[d] = c /\ disk'[d] = s /\ phase'[d] = ph /\ ex'[d] = g
      /\ \A x \in Devices \ {d} : /\ phase'[x] = phase[x] /\ ex'[x] = ex[x]
                                  /\ mem'[x] = mem[x] /\ disk'[x] = disk[x]
  BY <1>1 DEF TypeOK
<1>3. /\ mem' \in [Devices -> ConfigType] /\ disk' \in [Devices -> ConfigType]
      /\ phase' \in [Devices -> {"off", "loading", "running"}] /\ ex' \in [Devices -> ExType]
  BY <1>1 DEF TypeOK
<1>4. round' \in [Devices -> 0..LoadRounds] /\ report' \in [Devices -> SUBSET (Keys \X (Fields \cup {Root}))]
  BY <1>1 DEF TypeOK
<1>5. store' \in [Keys -> RecType] /\ counter' \in Nat /\ reaped' \in Nat
  BY <1>1 DEF TypeOK, vtaVars
<1>6. TypeOK'
  BY <1>3, <1>4, <1>5 DEF TypeOK
<1> QED BY <1>1, <1>2, <1>6, LaterSelf, Frame

-----------------------------------------------------------------------------
(* The invariant holds at first and after every step.                       *)
LEMMA NewConfigHonest == NewConfig \in ConfigType /\ \A v \in VtaType : Ordered(v) => HonestConfig(v, NewConfig)
<1>1. NewConfig \in ConfigType
  <2>1. /\ [k \in Keys |-> Absent] \in [Keys -> Records] /\ [k \in Keys |-> NoBase] \in [Keys -> BaseType]
        /\ [k \in Keys |-> None] \in [Keys -> RecType \cup {None}]
    BY Values
  <2> QED BY <2>1 DEF NewConfig, ConfigType, BaseType
<1>2. ASSUME NEW v \in VtaType, Ordered(v) PROVE HonestConfig(v, NewConfig)
  <2>1. \A k \in Keys : Honest(v, k, NoBase)
    BY <1>2, NoBaseHonest
  <2>2. 0 <= v.counter
    BY DEF VtaType
  <2>3. NewConfig.watermark = 0 /\ \A k \in Keys : NewConfig.base[k] = NoBase /\ NewConfig.deferred[k] = None
    BY DEF NewConfig
  <2> QED BY <2>1, <2>2, <2>3 DEF HonestConfig, NoBase
<1> QED BY <1>1, <1>2

LEMMA HonestInit == Init => HonestInv
<1> SUFFICES ASSUME Init PROVE HonestInv
  OBVIOUS
<1>1. TypeOK
  <2>1. /\ store = [k \in Keys |-> NoRec] /\ counter = 0 /\ reaped = 0
        /\ mem = [d \in Devices |-> NewConfig] /\ disk = [d \in Devices |-> NewConfig]
        /\ phase = [d \in Devices |-> "off"] /\ ex = [d \in Devices |-> IdleEx]
        /\ round = [d \in Devices |-> 0] /\ report = [d \in Devices |-> {}] /\ left \in [Bounded -> Nat]
    BY SyncAssumption DEF Init
  <2>2. mem \in [Devices -> ConfigType] /\ disk \in [Devices -> ConfigType] /\ ex \in [Devices -> ExType]
    BY <2>1, NewConfigHonest, IdleTyped
  <2>3. store \in [Keys -> RecType] /\ counter \in Nat /\ reaped \in Nat
    BY <2>1, Values
  <2>4. /\ phase \in [Devices -> {"off", "loading", "running"}] /\ round \in [Devices -> 0..LoadRounds]
        /\ report \in [Devices -> SUBSET (Keys \X (Fields \cup {Root}))]
    BY <2>1 DEF LoadRounds
  <2> QED BY <2>1, <2>2, <2>3, <2>4 DEF TypeOK
<1>2. Ordered(Vta)
  BY DEF Init, Vta, Ordered, NoRec
<1>3. ASSUME NEW d \in Devices PROVE Device(Vta, phase[d], ex[d], mem[d], disk[d])
  <2>1. ex[d] = IdleEx /\ mem[d] = NewConfig /\ disk[d] = NewConfig
    BY DEF Init
  <2> QED BY <1>1, <1>2, <2>1, VtaTyped, NewConfigHonest, IdleTyped DEF Device
<1> QED BY <1>1, <1>2, <1>3 DEF HonestInv

LEMMA HonestExchange ==
    ASSUME HonestInv, NEW d \in Devices,
           ExchangeStep(d) \/ RequestFails(d) \/ AnswerLost(d)
    PROVE  HonestInv'
<1>1. TypeOK /\ Ordered(Vta) /\ Device(Vta, phase[d], ex[d], mem[d], disk[d]) /\ Vta \in VtaType
  BY VtaTyped DEF HonestInv
<1>2. PICK e \in ExType : e = ex[d]
  BY <1>1 DEF TypeOK
<1>3. PICK g : g = ex'[d]
  OBVIOUS
<1>4. ASSUME g \in ExType, ex' = [ex EXCEPT ![d] = g], e.st # "idle",
             Vta' \in VtaType /\ Ordered(Vta') /\ Later(Vta, Vta') /\ Flight(Vta', g, mem[d]),
             UNCHANGED devVars, left' \in [Bounded -> Nat]
      PROVE  HonestInv'
  BY <1>2, <1>4, ExchangeKeeps
<1>5. ex \in [Devices -> ExType] /\ left \in [Bounded -> Nat] /\ counter \in Nat
  BY <1>1 DEF TypeOK
<1>6. e.st # "idle" => Flight(Vta, e, mem[d]) /\ e.since <= counter
  BY <1>1, <1>2 DEF Device, Flight, HonestConfig, Vta
<1>7. UNCHANGED vtaVars => Vta' = Vta
  BY DEF vtaVars, Vta
<1>8. CASE PullPage(d)
  <2>1. e.st = "pull" /\ UNCHANGED vtaVars /\ UNCHANGED devVars /\ left' = left
    BY <1>2, <1>8 DEF PullPage
  <2>2. CASE e.since < reaped
    <3>1. PICK h : h = [e EXCEPT !.st = "snap", !.cur = 0, !.wm = None, !.pulled = [k \in Keys |-> None]]
      OBVIOUS
    <3>2. ex' = [ex EXCEPT ![d] = h]
      BY <1>2, <1>8, <2>2, <3>1 DEF PullPage, SetEx
    <3>3. g = h
      BY <1>3, <1>5, <3>2
    <3>4. g \in ExType /\ Flight(Vta, g, mem[d])
      BY <1>6, <2>1, <3>1, <3>3, RestartFields, FlightRestart
    <3> QED BY <1>1, <1>4, <1>5, <1>7, <2>1, <3>2, <3>3, <3>4, LaterSelf
  <2>3. CASE ~(e.since < reaped)
    <3>1. PICK h : h = FeedPage(e)
      OBVIOUS
    <3>2. ex' = [ex EXCEPT ![d] = h]
      BY <1>2, <1>8, <2>3, <3>1 DEF PullPage, SetEx
    <3>3. g = h
      BY <1>3, <1>5, <3>2
    <3>4. g \in ExType
      <4>1. store \in [Keys -> RecType]
        BY <1>1 DEF TypeOK
      <4> QED BY <1>5, <2>1, <3>1, <3>3, <4>1, FeedFields
    <3>5. Flight(Vta, g, mem[d])
      BY <1>1, <1>6, <2>1, <3>1, <3>3, FlightFeed
    <3> QED BY <1>1, <1>4, <1>5, <1>7, <2>1, <3>2, <3>3, <3>4, <3>5, LaterSelf
  <2> QED BY <2>2, <2>3
<1>9. ASSUME SnapPage(d) \/ PutMany(d) \/ DeleteOne(d) \/ RequestFails(d) \/ AnswerLost(d)
      PROVE  ex' = [ex EXCEPT ![d] = g]
  <2>1. \E h : ex' = [ex EXCEPT ![d] = h]
    BY <1>9 DEF SnapPage, PutMany, DeleteOne, RequestFails, AnswerLost, SetEx
  <2> QED BY <1>3, <1>5, <2>1
<1>10. CASE SnapPage(d)
  <2>1. e.st = "snap" /\ UNCHANGED vtaVars /\ UNCHANGED devVars /\ left' = left
    BY <1>2, <1>10 DEF SnapPage
  <2>2. g \in ExType
    BY <1>1, <1>2, <1>3, <1>10, SnapFields
  <2>3. Flight(Vta, g, mem[d])
    BY <1>1, <1>2, <1>3, <1>6, <1>10, <2>1, FlightSnap
  <2> QED BY <1>1, <1>4, <1>5, <1>7, <1>9, <1>10, <2>1, <2>2, <2>3, LaterSelf
<1>11. CASE PutMany(d)
  <2>1. e.st = "put" /\ UNCHANGED devVars /\ left' = left
    BY <1>2, <1>11 DEF PutMany
  <2>2. g \in ExType
    BY <1>1, <1>2, <1>3, <1>11, PutFields
  <2>3. Vta' \in VtaType /\ Ordered(Vta') /\ Later(Vta, Vta') /\ Flight(Vta', g, mem[d])
    BY <1>1, <1>2, <1>3, <1>6, <1>11, <2>1, FlightPut
  <2> QED BY <1>4, <1>5, <1>9, <1>11, <2>1, <2>2, <2>3
<1>12. CASE DeleteOne(d)
  <2>1. e.st = "delete" /\ UNCHANGED devVars /\ left' = left
    BY <1>2, <1>12 DEF DeleteOne
  <2>2. g \in ExType
    <3>1. PICK k : k = NextDelete(e)
      OBVIOUS
    <3>2. e.dels # {}
      BY <1>6, <2>1 DEF Flight
    <3> QED BY <1>1, <1>2, <1>3, <1>12, <3>1, <3>2, DeleteFields
  <2>3. Vta' \in VtaType /\ Ordered(Vta') /\ Later(Vta, Vta') /\ Flight(Vta', g, mem[d])
    BY <1>1, <1>2, <1>3, <1>6, <1>12, <2>1, FlightDelete
  <2> QED BY <1>4, <1>5, <1>9, <1>12, <2>1, <2>2, <2>3
<1>13. CASE RequestFails(d)
  <2>1. e.st # "idle" /\ UNCHANGED vtaVars /\ UNCHANGED devVars
    BY <1>2, <1>13 DEF RequestFails
  <2>2. left' \in [Bounded -> Nat]
    BY <1>1, <1>13, Spent DEF RequestFails, Bounded
  <2>3. g = Failed(e)
    BY <1>2, <1>3, <1>5, <1>13 DEF RequestFails, SetEx
  <2>4. g \in ExType /\ Flight(Vta, g, mem[d])
    BY <1>6, <2>1, <2>3, FailedFields, FlightFailed
  <2> QED BY <1>1, <1>4, <1>7, <1>9, <1>13, <2>1, <2>2, <2>4, LaterSelf
<1>14. CASE AnswerLost(d)
  <2>1. e.st # "idle" /\ UNCHANGED devVars
    BY <1>2, <1>14 DEF AnswerLost
  <2>2. left' \in [Bounded -> Nat]
    BY <1>1, <1>14, Spent DEF AnswerLost, Bounded
  <2>3. Vta' \in VtaType /\ Ordered(Vta') /\ Later(Vta, Vta') /\ g \in ExType /\ Flight(Vta', g, mem[d])
    BY <1>1, <1>2, <1>3, <1>6, <1>14, <2>1, FlightAnswerLost
  <2> QED BY <1>4, <1>9, <1>14, <2>1, <2>2, <2>3
<1> QED BY <1>8, <1>10, <1>11, <1>12, <1>13, <1>14 DEF ExchangeStep

(* A config that says of the VTA what another one says is as right. *)
LEMMA SameSaid ==
    ASSUME NEW v, NEW c, NEW a, HonestConfig(v, c),
           a.watermark = c.watermark, a.base = c.base, a.deferred = c.deferred
    PROVE  HonestConfig(v, a) /\ \A e : Flight(v, e, c) => Flight(v, e, a)
<1>1. HonestConfig(v, a)
  BY DEF HonestConfig
<1>2. ASSUME NEW e, Flight(v, e, c) PROVE Flight(v, e, a)
  BY <1>2 DEF Flight
<1> QED BY <1>1, <1>2

(* Launch takes in what waited. *)
LEMMA LaunchHonest ==
    ASSUME NEW v \in VtaType, Ordered(v), NEW s \in ConfigType, HonestConfig(v, s),
           NEW t, t = [s EXCEPT !.deferred = [k \in Keys |-> None]],
           NEW c, c = apply_remote(t, s.deferred, "Load")
    PROVE  t \in ConfigType /\ t.base = s.base /\ t.watermark = s.watermark /\ t.deferred = [k \in Keys |-> None]
           /\ c \in ConfigType /\ HonestConfig(v, c)
<1>1. [k \in Keys |-> None] \in [Keys -> RecType \cup {None}]
  OBVIOUS
<1>2. t \in ConfigType /\ t.base = s.base /\ t.watermark = s.watermark /\ t.deferred = [k \in Keys |-> None]
  BY <1>1 DEF ConfigType
<1>3. HonestConfig(v, t)
  BY <1>2 DEF HonestConfig
<1>4. PICK recs : recs = s.deferred
  OBVIOUS
<1>5. recs \in Readings /\ \A k \in Keys : recs[k] # None => Honest(v, k, recs[k])
  BY <1>4 DEF ConfigType, Readings, HonestConfig
<1>6. c = apply_remote(t, recs, "Load")
  BY <1>4
<1>7. c \in ConfigType /\ HonestConfig(v, c)
  BY <1>2, <1>3, <1>5, <1>6, ApplyRemote, ApplyHonest
<1> QED BY <1>2, <1>7

LEMMA HonestDevice ==
    ASSUME HonestInv, NEW d \in Devices,
           \/ DeviceStep(d) \/ LoadTimeout(d) \/ Launch(d) \/ LaunchOffline(d) \/ Crash(d)
           \/ \E k \in Keys, x \in [Fields -> Scalars] \cup {Absent} : Edit(d, k, x)
    PROVE  HonestInv'
<1>1. TypeOK /\ Ordered(Vta) /\ Device(Vta, phase[d], ex[d], mem[d], disk[d]) /\ Vta \in VtaType
  BY VtaTyped DEF HonestInv
<1>2. PICK c, s, e, ph, r, p :
        c = mem[d] /\ s = disk[d] /\ e = ex[d] /\ ph = phase[d] /\ r = round[d] /\ p = report[d]
  OBVIOUS
<1>3. /\ c \in ConfigType /\ s \in ConfigType /\ e \in ExType /\ ph \in {"off", "loading", "running"}
      /\ r \in 0..LoadRounds /\ p \in SUBSET (Keys \X (Fields \cup {Root})) /\ left \in [Bounded -> Nat]
  BY <1>1, <1>2 DEF TypeOK
<1>4. HonestConfig(Vta, c) /\ HonestConfig(Vta, s) /\ (ph = "off" => e.st = "idle")
      /\ (e.st # "idle" => Flight(Vta, e, c))
  BY <1>1, <1>2 DEF Device
<1>5. /\ mem = [mem EXCEPT ![d] = c] /\ disk = [disk EXCEPT ![d] = s] /\ ex = [ex EXCEPT ![d] = e]
      /\ phase = [phase EXCEPT ![d] = ph] /\ round = [round EXCEPT ![d] = r]
      /\ report = [report EXCEPT ![d] = p]
  BY <1>1, <1>2 DEF TypeOK
<1>6. ASSUME UNCHANGED vtaVars,
             NEW c1 \in ConfigType, mem' = [mem EXCEPT ![d] = c1],
             NEW s1 \in ConfigType, disk' = [disk EXCEPT ![d] = s1],
             NEW ph1 \in {"off", "loading", "running"}, phase' = [phase EXCEPT ![d] = ph1],
             NEW e1 \in ExType, ex' = [ex EXCEPT ![d] = e1],
             NEW r1 \in 0..LoadRounds, round' = [round EXCEPT ![d] = r1],
             NEW p1 \in SUBSET (Keys \X (Fields \cup {Root})), report' = [report EXCEPT ![d] = p1],
             left' \in [Bounded -> Nat],
             HonestConfig(Vta, c1), HonestConfig(Vta, s1), ph1 = "off" => e1.st = "idle",
             e1.st # "idle" => Flight(Vta, e1, c1)
      PROVE  HonestInv'
  <2>1. Device(Vta, ph1, e1, c1, s1)
    BY <1>6 DEF Device
  <2> QED BY <1>6, <2>1, DeviceKeeps
<1>7. 0 \in 0..LoadRounds /\ LoadRounds \in 0..LoadRounds /\ {} \in SUBSET (Keys \X (Fields \cup {Root}))
      /\ ((r \in 0..LoadRounds /\ r > 1) => r - 1 \in 0..LoadRounds)
  BY DEF LoadRounds
<1>8. ASSUME NEW k \in Keys, NEW x \in [Fields -> Scalars] \cup {Absent}, Edit(d, k, x) PROVE HonestInv'
  <2>1. PICK c1 : c1 = [c EXCEPT !.local[k] = x]
    OBVIOUS
  <2>2. x \in Records /\ [c.local EXCEPT ![k] = x] \in [Keys -> Records]
    BY <1>3 DEF Records, Objects, ConfigType
  <2>3. c1 \in ConfigType /\ c1.base = c.base /\ c1.watermark = c.watermark /\ c1.deferred = c.deferred
    BY <1>3, <2>1, <2>2 DEF ConfigType
  <2>4. HonestConfig(Vta, c1) /\ (e.st # "idle" => Flight(Vta, e, c1))
    BY <1>4, <2>3, SameSaid
  <2>5. left' \in [Bounded -> Nat]
    BY <1>1, <1>8, Spent DEF Edit, Bounded
  <2>6. /\ UNCHANGED vtaVars /\ mem' = [mem EXCEPT ![d] = c1] /\ disk' = disk /\ phase' = phase /\ ex' = ex
        /\ round' = round /\ report' = report
    BY <1>2, <1>8, <2>1 DEF Edit, SetMem
  <2> QED BY <1>3, <1>4, <1>5, <1>6, <2>3, <2>4, <2>5, <2>6
<1>9. CASE Save(d)
  <2>1. left' \in [Bounded -> Nat]
    BY <1>1, <1>9, Spent DEF Save, Bounded
  <2>2. /\ UNCHANGED vtaVars /\ mem' = mem /\ disk' = [disk EXCEPT ![d] = c] /\ phase' = phase /\ ex' = ex
        /\ round' = round /\ report' = report
    BY <1>2, <1>9 DEF Save
  <2> QED BY <1>3, <1>4, <1>5, <1>6, <2>1, <2>2
<1>10. CASE StartSync(d)
  <2>1. PICK g : g = PlanEx(c)
    OBVIOUS
  <2>2. g \in ExType /\ Flight(Vta, g, c)
    BY <1>3, <2>1, PlanFields, FlightPlanned
  <2>3. /\ UNCHANGED vtaVars /\ mem' = mem /\ disk' = disk /\ phase' = phase /\ ex' = [ex EXCEPT ![d] = g]
        /\ round' = round /\ report' = [report EXCEPT ![d] = {}] /\ left' = left /\ ph = "running"
    BY <1>2, <1>10, <2>1 DEF StartSync, SetEx
  <2> QED BY <1>3, <1>4, <1>5, <1>6, <1>7, <2>2, <2>3
<1>11. CASE AbsorbLive(d)
  <2>1. PICK z, q : z = absorb(c, e, "Live") /\ q = AbsorbConflicts(c, e, "Live")
    OBVIOUS
  <2>2. /\ UNCHANGED vtaVars /\ mem' = [mem EXCEPT ![d] = z] /\ disk' = disk /\ phase' = phase
        /\ ex' = [ex EXCEPT ![d] = IdleEx] /\ round' = round /\ report' = [report EXCEPT ![d] = q]
        /\ left' = left /\ e.st = "done"
    BY <1>2, <1>11, <2>1 DEF AbsorbLive, SetMem, SetEx
  <2>3. z \in ConfigType /\ HonestConfig(Vta, z)
    BY <1>1, <1>3, <1>4, <2>1, <2>2, AbsorbHonest
  <2>4. q \in SUBSET (Keys \X (Fields \cup {Root}))
    BY <2>1, AbsorbPaths
  <2> QED BY <1>3, <1>4, <1>5, <1>6, <2>2, <2>3, <2>4, IdleTyped
<1>12. CASE AbsorbLoad(d)
  <2>1. PICK z, q, again : /\ z = absorb(c, e, "Load") /\ q = p \cup AbsorbConflicts(c, e, "Load")
                           /\ again = (~e.err /\ LostRace(e) /\ r > 1)
    OBVIOUS
  <2>2. PICK g, ph1, r1 : /\ g = IF again THEN PlanEx(z) ELSE IdleEx
                          /\ ph1 = IF again THEN "loading" ELSE "running"
                          /\ r1 = IF again THEN r - 1 ELSE 0
    OBVIOUS
  <2>3. /\ UNCHANGED vtaVars /\ mem' = [mem EXCEPT ![d] = z] /\ disk' = disk
        /\ phase' = [phase EXCEPT ![d] = ph1] /\ ex' = [ex EXCEPT ![d] = g]
        /\ round' = [round EXCEPT ![d] = r1] /\ report' = [report EXCEPT ![d] = q] /\ left' = left /\ e.st = "done"
    <3>1. UNCHANGED vtaVars /\ disk' = disk /\ left' = left /\ e.st = "done"
      BY <1>2, <1>12 DEF AbsorbLoad
    <3>2. report' = [report EXCEPT ![d] = q]
      BY <1>2, <1>12, <2>1 DEF AbsorbLoad
    <3>3. mem' = [mem EXCEPT ![d] = z]
      BY <1>2, <1>12, <2>1 DEF AbsorbLoad, SetMem
    <3>4. ex' = [ex EXCEPT ![d] = g]
      BY <1>2, <1>12, <2>1, <2>2 DEF AbsorbLoad, SetEx
    <3>5. phase' = [phase EXCEPT ![d] = ph1]
      BY <1>2, <1>12, <2>1, <2>2 DEF AbsorbLoad
    <3>6. round' = [round EXCEPT ![d] = r1]
      BY <1>2, <1>12, <2>1, <2>2 DEF AbsorbLoad
    <3> QED BY <3>1, <3>2, <3>3, <3>4, <3>5, <3>6
  <2>4. z \in ConfigType /\ HonestConfig(Vta, z)
    BY <1>1, <1>3, <1>4, <2>1, <2>3, AbsorbHonest
  <2>5. q \in SUBSET (Keys \X (Fields \cup {Root}))
    BY <1>3, <2>1, AbsorbPaths
  <2>6. again => r > 1
    BY <2>1, Zenon
  <2>7. r1 \in 0..LoadRounds
    BY <1>3, <1>7, <2>2, <2>6
  <2>8. g \in ExType /\ (g.st # "idle" => Flight(Vta, g, z)) /\ ph1 # "off" /\ ph1 \in {"off", "loading", "running"}
    BY <2>2, <2>4, IdleTyped, PlanFields, FlightPlanned
  <2> QED BY <1>3, <1>4, <1>5, <1>6, <2>3, <2>4, <2>5, <2>7, <2>8
<1>13. CASE LoadTimeout(d)
  <2>1. left' \in [Bounded -> Nat]
    BY <1>1, <1>13, Spent DEF LoadTimeout, Bounded
  <2>2. /\ UNCHANGED vtaVars /\ mem' = mem /\ disk' = disk /\ phase' = [phase EXCEPT ![d] = "running"]
        /\ ex' = [ex EXCEPT ![d] = IdleEx] /\ round' = [round EXCEPT ![d] = 0] /\ report' = [report EXCEPT ![d] = {}]
    BY <1>13 DEF LoadTimeout, SetEx
  <2> QED BY <1>3, <1>4, <1>5, <1>6, <1>7, <2>1, <2>2, IdleTyped
<1>14. CASE Launch(d)
  <2>1. PICK t : t = [s EXCEPT !.deferred = [k \in Keys |-> None]]
    OBVIOUS
  <2>2. PICK c1, q : c1 = apply_remote(t, s.deferred, "Load") /\ q = ApplyConflicts(t, s.deferred, "Load")
    OBVIOUS
  <2>3. PICK g : g = PlanEx(c1)
    OBVIOUS
  <2>4. /\ UNCHANGED vtaVars /\ mem' = [mem EXCEPT ![d] = c1] /\ disk' = disk
        /\ phase' = [phase EXCEPT ![d] = "loading"] /\ ex' = [ex EXCEPT ![d] = g]
        /\ round' = [round EXCEPT ![d] = LoadRounds] /\ report' = [report EXCEPT ![d] = q] /\ left' = left
    BY <1>2, <1>14, <2>1, <2>2, <2>3 DEF Launch, SetMem, SetEx
  <2>5. c1 \in ConfigType /\ HonestConfig(Vta, c1)
    BY <1>1, <1>3, <1>4, <2>1, <2>2, LaunchHonest
  <2>6. g \in ExType /\ Flight(Vta, g, c1)
    BY <2>3, <2>5, PlanFields, FlightPlanned
  <2>7. q \in SUBSET (Keys \X (Fields \cup {Root}))
    BY <2>2, ConflictPaths
  <2> QED BY <1>3, <1>4, <1>5, <1>6, <1>7, <2>4, <2>5, <2>6, <2>7
<1>15. CASE LaunchOffline(d)
  <2>1. /\ UNCHANGED vtaVars /\ mem' = [mem EXCEPT ![d] = s] /\ disk' = disk
        /\ phase' = [phase EXCEPT ![d] = "running"] /\ ex' = ex /\ round' = round
        /\ report' = [report EXCEPT ![d] = {}] /\ left' = left /\ ph = "off"
    BY <1>2, <1>15 DEF LaunchOffline, SetMem
  <2> QED BY <1>3, <1>4, <1>5, <1>6, <1>7, <2>1
<1>16. CASE Crash(d)
  <2>1. left' \in [Bounded -> Nat]
    BY <1>1, <1>16, Spent DEF Crash, Bounded
  <2>2. /\ UNCHANGED vtaVars /\ mem' = mem /\ disk' = disk /\ phase' = [phase EXCEPT ![d] = "off"]
        /\ ex' = [ex EXCEPT ![d] = IdleEx] /\ round' = [round EXCEPT ![d] = 0] /\ report' = report
    BY <1>16 DEF Crash, SetEx
  <2> QED BY <1>3, <1>4, <1>5, <1>6, <1>7, <2>1, <2>2, IdleTyped
<1> QED BY <1>8, <1>9, <1>10, <1>11, <1>12, <1>13, <1>14, <1>15, <1>16 DEF DeviceStep

LEMMA HonestStep == HonestInv /\ [Next]_vars => HonestInv'
<1> SUFFICES ASSUME HonestInv, [Next]_vars PROVE HonestInv'
  OBVIOUS
<1>1. TypeOK /\ Ordered(Vta) /\ Vta \in VtaType /\ left \in [Bounded -> Nat]
  BY VtaTyped DEF HonestInv, TypeOK
<1>2. CASE Reap
  BY <1>1, <1>2, ReapLater, Spent, VtaKeeps DEF Reap, Bounded
<1>3. ASSUME NEW k \in Keys, NewerBuildWrites(k) PROVE HonestInv'
  <2>1. Vta' \in VtaType /\ Ordered(Vta') /\ Later(Vta, Vta')
    BY <1>1, <1>3, OneLater DEF NewerBuildWrites, StoredVals
  <2>2. left' \in [Bounded -> Nat]
    BY <1>1, <1>3, Spent DEF NewerBuildWrites, Bounded
  <2> QED BY <1>3, <2>1, <2>2, VtaKeeps DEF NewerBuildWrites
<1>4. CASE UNCHANGED vars
  <2>1. Vta' = Vta /\ UNCHANGED <<ex, devVars>> /\ left' = left
    BY <1>4 DEF vars, devVars, Vta
  <2> QED BY <1>1, <2>1, LaterSelf, VtaKeeps
<1>5. ASSUME NEW d \in Devices,
             \/ ExchangeStep(d) \/ RequestFails(d) \/ AnswerLost(d) \/ DeviceStep(d)
             \/ \E k \in Keys, x \in [Fields -> Scalars] \cup {Absent} : Edit(d, k, x)
             \/ LoadTimeout(d) \/ Launch(d) \/ LaunchOffline(d) \/ Crash(d)
      PROVE  HonestInv'
  BY <1>5, HonestExchange, HonestDevice, Zenon
<1> QED BY <1>2, <1>3, <1>4, <1>5, Zenon DEF Next

(* A device never remembers agreeing with the VTA on something the VTA did  *)
(* not hold under that version, for any number of devices and records and   *)
(* however requests fail, answers are lost and devices stop: BaseHonest.    *)
THEOREM BaseHonestAlways == Spec => []BaseHonest
<1>1. ASSUME HonestInv PROVE BaseHonest
  <2>1. TypeOK
    BY <1>1 DEF HonestInv
  <2>2. ASSUME NEW d \in Devices, NEW k \in Keys, NEW c \in {mem[d], disk[d]}
        PROVE  /\ c.base[k].ver <= counter
               /\ c.base[k].ver # 0 /\ c.base[k].ver = store[k].ver => store[k].val = c.base[k].val
    <3>1. HonestConfig(Vta, c) /\ c \in ConfigType
      BY <1>1, <2>1 DEF HonestInv, Device, TypeOK
    <3>2. Honest(Vta, k, c.base[k]) /\ c.base[k].ver \in Nat
      BY <3>1 DEF HonestConfig, ConfigType
    <3> QED BY <3>2 DEF Honest, Known, Vta
  <2> QED BY <2>1, <2>2 DEF BaseHonest
<1> QED BY <1>1, HonestInit, HonestStep, PTL DEF Spec

(* No device holds a base for a record it cannot read, so none writes it.   *)
LEMMA AlienUnread ==
    ASSUME HonestInv, NEW d \in Devices, ex[d].st # "idle", NEW k \in Keys, store[k].val = Alien
    PROVE  ex[d].expect[k] # store[k].ver
<1>1. /\ HonestConfig(Vta, mem[d]) /\ Flight(Vta, ex[d], mem[d]) /\ Ordered(Vta)
      /\ mem[d] \in ConfigType /\ store[k] \in RecType /\ Vta.store = store
  BY DEF HonestInv, Device, TypeOK, Vta
<1>2. PICK b \in BaseType : b = mem[d].base[k] /\ Honest(Vta, k, b) /\ ex[d].expect[k] = b.ver
  BY <1>1 DEF HonestConfig, ConfigType, Flight, BaseType
<1>3. store[k].ver # 0 /\ store[k].val # b.val /\ b.ver \in Nat /\ store[k].ver \in Nat
  BY <1>1, Values DEF Ordered, BaseType, RecType
<1> QED BY <1>1, <1>2, <1>3 DEF Honest, Known

(* A record written by a newer build stays as it is until that build writes *)
(* it again: no older device overwrites, deletes or reaps it, however old   *)
(* the state it planned its exchange from: NewerBuildUntouched.             *)
THEOREM NewerBuildUntouchedAlways == Spec => NewerBuildUntouched
<1> DEFINE Untouched == \A k \in Keys : store[k].val = Alien => store'[k].val = Alien
<1>1. ASSUME HonestInv, Next PROVE Untouched
  <2> SUFFICES ASSUME NEW k \in Keys, store[k].val = Alien PROVE store'[k].val = Alien
    OBVIOUS
  <2>1. TypeOK /\ store \in [Keys -> RecType] /\ Alien # Absent
    BY <1>1, Values DEF HonestInv, TypeOK
  <2>2. ASSUME NEW d \in Devices, ex[d].st # "idle", StorePuts(ex[d]) PROVE store'[k] = store[k]
    <3>1. k \notin Accepted(ex[d])
      BY <1>1, <2>1, <2>2, AlienUnread DEF Accepted, LiveVersion
    <3> QED BY <2>2, <3>1 DEF StorePuts
  <2>3. ASSUME NEW d \in Devices, ex[d].st # "idle", NEW i, StoreDelete(d, i, ex[d].expect[i])
        PROVE  store'[k] = store[k]
    <3>1. CASE i = k
      <4>1. store[k].ver # ex[d].expect[k]
        BY <1>1, <2>3, AlienUnread
      <4> QED BY <2>3, <3>1, <4>1 DEF StoreDelete
    <3>2. CASE i # k
      BY <2>1, <2>3, <3>2 DEF StoreDelete
    <3> QED BY <3>1, <3>2
  <2>4. ASSUME NEW d \in Devices, PutMany(d) PROVE store'[k] = store[k]
    BY <2>2, <2>4 DEF PutMany
  <2>5. ASSUME NEW d \in Devices, DeleteOne(d) PROVE store'[k] = store[k]
    BY <2>3, <2>5 DEF DeleteOne
  <2>6. ASSUME NEW d \in Devices, AnswerLost(d) PROVE store'[k] = store[k]
    BY <2>2, <2>3, <2>6 DEF AnswerLost
  <2>7. ASSUME NEW d \in Devices,
               \/ PullPage(d) \/ SnapPage(d) \/ RequestFails(d) \/ DeviceStep(d)
               \/ \E i \in Keys, x \in [Fields -> Scalars] \cup {Absent} : Edit(d, i, x)
               \/ LoadTimeout(d) \/ Launch(d) \/ LaunchOffline(d) \/ Crash(d)
        PROVE  store' = store
    BY <2>7 DEF PullPage, SnapPage, RequestFails, DeviceStep, StartSync, AbsorbLive, AbsorbLoad, Save,
                Edit, LoadTimeout, Launch, LaunchOffline, Crash, vtaVars
  <2>8. CASE Reap
    BY <2>1, <2>8 DEF Reap
  <2>9. ASSUME NEW i \in Keys, NewerBuildWrites(i) PROVE store'[k].val = Alien
    BY <2>1, <2>9 DEF NewerBuildWrites
  <2>10. ASSUME NEW d \in Devices,
                \/ ExchangeStep(d) \/ RequestFails(d) \/ AnswerLost(d) \/ DeviceStep(d)
                \/ \E i \in Keys, x \in [Fields -> Scalars] \cup {Absent} : Edit(d, i, x)
                \/ LoadTimeout(d) \/ Launch(d) \/ LaunchOffline(d) \/ Crash(d)
         PROVE  store'[k] = store[k]
    BY <2>4, <2>5, <2>6, <2>7, <2>10, Zenon DEF ExchangeStep
  <2>11. ASSUME NEW d \in Devices,
                \/ ExchangeStep(d) \/ RequestFails(d) \/ AnswerLost(d) \/ DeviceStep(d)
                \/ \E i \in Keys, x \in [Fields -> Scalars] \cup {Absent} : Edit(d, i, x)
                \/ LoadTimeout(d) \/ Launch(d) \/ LaunchOffline(d) \/ Crash(d)
         PROVE  store'[k].val = Alien
    BY <2>10, <2>11
  <2> QED BY <1>1, <2>8, <2>9, <2>11, Zenon DEF Next
<1>2. ASSUME HonestInv, [Next]_vars PROVE [Untouched]_vars
  BY <1>1, <1>2
<1>3. Spec => []HonestInv
  BY HonestInit, HonestStep, PTL DEF Spec
<1> QED BY <1>2, <1>3, PTL DEF Spec, NewerBuildUntouched

(* An edit in one record is kept by one pass of apply_remote, or reported.  *)
LEMMA ApplyKeepsOrReports ==
    ASSUME NEW c \in ConfigType, NEW recs \in Readings, NEW mode, NEW a, a = apply_remote(c, recs, mode),
           NEW k \in Keys, NEW f \in Fields, Unsynced(c, k, f),
           FieldOf(a.local[k], f) # FieldOf(c.local[k], f)
    PROVE  <<k, f>> \in ApplyConflicts(c, recs, mode) \/ <<k, Root>> \in ApplyConflicts(c, recs, mode)
<1>1. Merges(c, k, recs[k], mode)
  BY ApplyRemote DEF LeftOut
<1>2. TakenIn(c, recs[k], a, k)
  BY <1>1, ApplyRemote
<1>3. PICK b \in Records, l \in Records, r \in Records :
        b = c.base[k].val /\ l = c.local[k] /\ r = recs[k].val /\ a.local[k] = merge3(b, l, r)
  BY <1>2 DEF TakenIn, ConfigType
<1>4. FieldOf(l, f) # FieldOf(b, f) /\ FieldOf(merge3(b, l, r), f) # FieldOf(l, f)
  BY <1>3 DEF Unsynced
<1>5. f \in conflicts3(b, l, r) \/ Root \in conflicts3(b, l, r)
  BY <1>4, LocalEditKeptOrReported
<1>6. {k} \X conflicts3(b, l, r) \subseteq ApplyConflicts(c, recs, mode)
  BY <1>1, <1>3 DEF ApplyConflicts
<1> QED BY <1>5, <1>6

LEMMA AbsorbKeepsOrReports ==
    ASSUME NEW c \in ConfigType, NEW e \in ExType, NEW mode, NEW z, z = absorb(c, e, mode),
           NEW k \in Keys, NEW f \in Fields, Unsynced(c, k, f),
           NEW recs, recs = PulledRecs(c, e),
           NEW q, q = AbsorbConflicts(c, e, mode)
    PROVE  \/ FieldOf(z.local[k], f) = FieldOf(c.local[k], f)
           \/ <<k, f>> \in q \/ <<k, Root>> \in q
           \/ recs[k] # None /\ FieldOf(recs[k].val, f) = FieldOf(c.local[k], f)
<1>1. PICK p, a, b, lost, x :
        /\ p = apply_remote(c, recs, mode) /\ a = AbsorbPull(c, e, mode)
        /\ b = AbsorbPuts(a, e) /\ lost = RacedRecs(e) /\ x = apply_remote(b, lost, mode)
  OBVIOUS
<1>2. z = AbsorbDeletes(x, e) /\ q = ApplyConflicts(c, recs, mode) \cup ApplyConflicts(b, lost, mode)
  BY <1>1 DEF absorb, AbsorbConflicts
<1>3. recs \in Readings /\ p \in ConfigType
  BY <1>1, PulledReadings, ApplyRemote
<1>4. a \in ConfigType /\ a.local = p.local /\ a.base = p.base
  BY <1>1, AbsorbPullFields
<1>5. /\ b \in ConfigType /\ b.local = p.local
      /\ b.base[k] = IF e.wrote[k] # None /\ e.wrote[k].out = "written"
                     THEN [ver |-> e.wrote[k].cur.ver, val |-> e.puts[k]] ELSE a.base[k]
  BY <1>1, <1>4, AbsorbPutsFields
<1>6. lost \in Readings /\ lost[k] = IF e.wrote[k] # None /\ e.wrote[k].out = "conflict"
                                     THEN e.wrote[k].cur ELSE None
  BY <1>1, RacedReadings
<1>7. x \in ConfigType
  BY <1>1, <1>5, <1>6, ApplyRemote
<1>8. z.local = x.local
  BY <1>2, <1>7, AbsorbDeletesFields
<1>9. CASE FieldOf(p.local[k], f) # FieldOf(c.local[k], f)
  BY <1>1, <1>2, <1>3, <1>9, ApplyKeepsOrReports
<1>10. CASE FieldOf(p.local[k], f) = FieldOf(c.local[k], f) /\ FieldOf(x.local[k], f) # FieldOf(b.local[k], f)
  <2>1. Merges(b, k, lost[k], mode)
    BY <1>1, <1>5, <1>6, <1>10, ApplyRemote DEF LeftOut
  <2>2. b.base[k] = p.base[k]
    BY <1>4, <1>5, <1>6, <2>1 DEF Merges
  <2>3. CASE FieldOf(p.base[k].val, f) # FieldOf(b.local[k], f)
    <3>1. Unsynced(b, k, f)
      BY <2>2, <2>3 DEF Unsynced
    <3>2. <<k, f>> \in ApplyConflicts(b, lost, mode) \/ <<k, Root>> \in ApplyConflicts(b, lost, mode)
      BY <1>1, <1>5, <1>6, <1>10, <3>1, ApplyKeepsOrReports
    <3> QED BY <1>2, <3>2
  <2>4. CASE FieldOf(p.base[k].val, f) = FieldOf(b.local[k], f)
    <3>1. p.base[k] # c.base[k]
      BY <1>5, <1>10, <2>4 DEF Unsynced
    <3>2. Merges(c, k, recs[k], mode)
      BY <1>1, <1>3, <3>1, ApplyRemote DEF LeftOut
    <3>3. TakenIn(c, recs[k], p, k) /\ recs[k] # None
      BY <1>1, <1>3, <3>2, ApplyRemote DEF Merges
    <3>4. p.base[k].val = recs[k].val
      <4>1. CASE recs[k].val = Absent
        <5>1. p.base[k] = NoBase
          BY <3>3, <4>1 DEF TakenIn
        <5> QED BY <4>1, <5>1 DEF NoBase
      <4>2. CASE recs[k].val # Absent
        <5>1. p.base[k] = [ver |-> recs[k].ver, val |-> recs[k].val]
          BY <3>3, <4>2 DEF TakenIn
        <5> QED BY <5>1
      <4> QED BY <4>1, <4>2
    <3> QED BY <1>5, <1>10, <2>4, <3>3, <3>4
  <2> QED BY <2>3, <2>4
<1>11. CASE FieldOf(p.local[k], f) = FieldOf(c.local[k], f) /\ FieldOf(x.local[k], f) = FieldOf(b.local[k], f)
  BY <1>5, <1>8, <1>11
<1> QED BY <1>9, <1>10, <1>11

LEMMA TypeAlways == Spec => []TypeOK
<1>1. HonestInv => TypeOK
  BY DEF HonestInv
<1> QED BY <1>1, HonestInit, HonestStep, PTL DEF Spec

(* Nothing is clobbered silently: whatever an exchange brings back, a local *)
(* edit the VTA has not seen is kept field by field, or its loss is         *)
(* reported, or the VTA already had the same value: EditsKeptOrReported.    *)
THEOREM EditsKeptOrReportedAlways == Spec => EditsKeptOrReported
<1> DEFINE Kept ==
             \A d \in Devices : (AbsorbLive(d) \/ AbsorbLoad(d)) =>
               \A k \in Keys, f \in Fields :
                 Unsynced(mem[d], k, f) =>
                   \/ FieldOf(mem'[d].local[k], f) = FieldOf(mem[d].local[k], f)
                   \/ <<k, f>> \in report'[d] \/ <<k, Root>> \in report'[d]
                   \/ AlreadyAtVta(d, k, f)
<1>1. ASSUME TypeOK PROVE Kept
  <2> SUFFICES ASSUME NEW d \in Devices, AbsorbLive(d) \/ AbsorbLoad(d),
                      NEW k \in Keys, NEW f \in Fields, Unsynced(mem[d], k, f)
               PROVE  \/ FieldOf(mem'[d].local[k], f) = FieldOf(mem[d].local[k], f)
                      \/ <<k, f>> \in report'[d] \/ <<k, Root>> \in report'[d]
                      \/ AlreadyAtVta(d, k, f)
    OBVIOUS
  <2>1. PICK c, e, recs : c = mem[d] /\ e = ex[d] /\ recs = PulledRecs(c, e)
    OBVIOUS
  <2>2. c \in ConfigType /\ e \in ExType /\ d \in DOMAIN mem /\ d \in DOMAIN report
    BY <1>1, <2>1 DEF TypeOK
  <2>3. PICK mode, z, q : /\ z = absorb(c, e, mode) /\ q = AbsorbConflicts(c, e, mode)
                          /\ mem'[d] = z /\ q \subseteq report'[d]
    <3>1. CASE AbsorbLive(d)
      <4>1. PICK z, q : z = absorb(c, e, "Live") /\ q = AbsorbConflicts(c, e, "Live")
        OBVIOUS
      <4>2. mem' = [mem EXCEPT ![d] = z] /\ report' = [report EXCEPT ![d] = q]
        BY <2>1, <3>1, <4>1 DEF AbsorbLive, SetMem
      <4>3. mem'[d] = z /\ q \subseteq report'[d]
        BY <2>2, <4>2
      <4> QED BY <4>1, <4>3
    <3>2. CASE AbsorbLoad(d)
      <4>1. PICK z, q : z = absorb(c, e, "Load") /\ q = AbsorbConflicts(c, e, "Load")
        OBVIOUS
      <4>2. mem' = [mem EXCEPT ![d] = z]
        BY <2>1, <3>2, <4>1 DEF AbsorbLoad, SetMem
      <4>3. report' = [report EXCEPT ![d] = @ \cup q]
        BY <2>1, <3>2, <4>1 DEF AbsorbLoad
      <4>4. mem'[d] = z /\ q \subseteq report'[d]
        BY <2>2, <4>2, <4>3
      <4> QED BY <4>1, <4>4
    <3> QED BY <3>1, <3>2
  <2>4. \/ FieldOf(z.local[k], f) = FieldOf(c.local[k], f)
        \/ <<k, f>> \in q \/ <<k, Root>> \in q
        \/ recs[k] # None /\ FieldOf(recs[k].val, f) = FieldOf(c.local[k], f)
    <3>1. Unsynced(c, k, f)
      BY <2>1
    <3> QED BY <2>1, <2>2, <2>3, <3>1, AbsorbKeepsOrReports
  <2>5. (recs[k] # None /\ FieldOf(recs[k].val, f) = FieldOf(c.local[k], f)) => AlreadyAtVta(d, k, f)
    BY <2>1 DEF AlreadyAtVta
  <2> QED BY <2>1, <2>3, <2>4, <2>5
<1>2. ASSUME TypeOK, [Next]_vars PROVE [Kept]_vars
  BY <1>1, <1>2
<1> QED BY <1>2, TypeAlways, PTL DEF Spec, EditsKeptOrReported

-----------------------------------------------------------------------------
(* Which writes a device has read.  A snapshot lists only what is live, and *)
(* what it implies is taken in only for records that have a base: a record  *)
(* that waits for the next launch without one is not met by it.             *)
SnapshotsMeetBases ==
    \A d \in Devices, k \in Keys :
        ex[d].snap /\ mem[d].deferred[k] # None => mem[d].base[k].ver # 0

(* What a device was told last of record k. *)
Told(c, k) ==
    IF c.deferred[k] # None /\ ~Skips(c, k, c.deferred[k]) THEN c.deferred[k] ELSE c.base[k]
Got(c, recs, k) == IF recs[k] # None /\ ~Skips(c, k, recs[k]) THEN recs[k] ELSE Told(c, k)

(* Record k as read up to w.  One of a kind this build does not know is     *)
(* left at the VTA: nothing is claimed of it.                               *)
Reads(v, k, w, q) == k \in NewKinds \/ UpTo(v, k, w, q)

(* Whatever was written up to the watermark is what the device was told.    *)
ReadConfig(v, c) == \A k \in Keys : Reads(v, k, c.watermark, Told(c, k))

(* So is it with what an exchange has pulled on top, up to the watermark it *)
(* started from, and up to the new one once the pull is complete.           *)
Reading(v, e, c) ==
    /\ \A k \in Keys :
        /\ ~e.snap => Reads(v, k, e.since, Got(c, e.pulled, k))
        /\ e.st \notin {"pull", "snap"} /\ e.wm # None => Reads(v, k, e.wm, Got(c, PulledRecs(c, e), k))
        /\ e.wrote[k] # None /\ e.wrote[k].out = "conflict" => Reads(v, k, e.wm, e.wrote[k].cur)
        /\ k \in e.gone => Reads(v, k, e.wm, NoBase)
        /\ k \in e.seen => e.pulled[k].val # Absent
    /\ e.st = "pull" =>
        /\ e.since <= e.cur
        /\ e.wm = None => e.cur = e.since /\ \A k \in Keys : e.pulled[k] = None
        /\ e.wm # None /\ v.reaped <= e.since =>
             \A k \in Keys : v.store[k].ver <= e.cur => Reads(v, k, e.wm, Got(c, e.pulled, k))

ReadDevice(v, e, c, saved) ==
    /\ ReadConfig(v, c) /\ ReadConfig(v, saved)
    /\ e.st # "idle" => Reading(v, e, c)

ReadInv ==
    /\ HonestInv
    /\ \A d \in Devices : ReadDevice(Vta, ex[d], mem[d], disk[d])

(* Readings that say the same. *)
Same(q, r) == q.val = r.val /\ (q.val # Absent => q.ver = r.ver)
AnyReading == RecType \cup BaseType

LEMMA SameReads ==
    ASSUME NEW v, NEW k, NEW w, NEW q, NEW r, Reads(v, k, w, r), Same(q, r)
    PROVE  Reads(v, k, w, q)
BY DEF Reads, UpTo, Says, Same

LEMMA ReadsLater ==
    ASSUME NEW v \in VtaType, NEW u \in VtaType, Later(v, u), NEW k \in Keys, NEW w \in Nat, w <= v.counter,
           NEW q \in RecType \cup [ver : Nat, val : Records], Reads(v, k, w, q)
    PROVE  Reads(u, k, w, q)
BY UpToLater DEF Reads

LEMMA ToldType ==
    ASSUME NEW c \in ConfigType, NEW recs \in Readings, NEW k \in Keys
    PROVE  Told(c, k) \in AnyReading /\ Got(c, recs, k) \in AnyReading
<1>1. c.deferred[k] \in RecType \cup {None} /\ c.base[k] \in BaseType /\ recs[k] \in RecType \cup {None}
  BY DEF ConfigType, BaseType, Readings
<1> QED BY <1>1 DEF Told, Got, AnyReading

(* What was told is right, whichever it is.                                 *)
LEMMA ToldHonest ==
    ASSUME NEW v, NEW c \in ConfigType, HonestConfig(v, c), NEW k \in Keys
    PROVE  Honest(v, k, Told(c, k)) /\ (c.base[k].ver # 0 => c.base[k].ver <= Told(c, k).ver)
<1>1. PICK b \in BaseType, r \in RecType \cup {None} :
        b = c.base[k] /\ r = c.deferred[k] /\ Honest(v, k, b) /\ (r # None => Honest(v, k, r))
  BY DEF ConfigType, BaseType, HonestConfig
<1>2. CASE r # None /\ ~Skips(c, k, r)
  <2>1. Told(c, k) = r /\ r \in RecType
    BY <1>1, <1>2 DEF Told
  <2>2. b.ver # 0 => b.ver <= r.ver
    BY <1>1, <1>2, <2>1 DEF Skips, RecType, BaseType
  <2> QED BY <1>1, <1>2, <2>1, <2>2
<1>3. CASE ~(r # None /\ ~Skips(c, k, r))
  <2>1. Told(c, k) = b
    BY <1>1, <1>3 DEF Told
  <2> QED BY <1>1, <2>1 DEF BaseType
<1> QED BY <1>2, <1>3

(* A pass of apply_remote leaves the device told what it got.               *)
LEMMA ToldApply ==
    ASSUME NEW c \in ConfigType, NEW recs \in Readings, NEW mode, NEW a, a = apply_remote(c, recs, mode),
           NEW k \in Keys
    PROVE  Same(Told(a, k), Got(c, recs, k))
<1>1. a \in ConfigType
  BY ApplyRemote
<1>2. CASE Merges(c, k, recs[k], mode)
  <2>1. recs[k] # None /\ ~Skips(c, k, recs[k])
    BY <1>2 DEF Merges
  <2>2. Got(c, recs, k) = recs[k]
    BY <2>1 DEF Got
  <2>3. TakenIn(c, recs[k], a, k)
    BY <1>2, ApplyRemote
  <2>4. Told(a, k) = a.base[k]
    BY <2>3 DEF TakenIn, Told
  <2>5. CASE recs[k].val = Absent
    <3>1. a.base[k] = NoBase
      BY <2>3, <2>5 DEF TakenIn
    <3> QED BY <2>2, <2>4, <2>5, <3>1 DEF Same, NoBase
  <2>6. CASE recs[k].val # Absent
    <3>1. a.base[k] = [ver |-> recs[k].ver, val |-> recs[k].val]
      BY <2>3, <2>6 DEF TakenIn
    <3> QED BY <2>2, <2>4, <3>1 DEF Same
  <2> QED BY <2>5, <2>6
<1>3. CASE ~Merges(c, k, recs[k], mode)
  <2>1. /\ a.base[k] = c.base[k]
        /\ recs[k] # None /\ ~Skips(c, k, recs[k]) => a.deferred[k] = recs[k]
        /\ ~(recs[k] # None /\ ~Skips(c, k, recs[k])) => a.deferred[k] = c.deferred[k]
    BY <1>3, ApplyRemote DEF LeftOut
  <2>2. Told(a, k) = Got(c, recs, k)
    BY <2>1 DEF Told, Got, Skips
  <2> QED BY <2>2 DEF Same
<1> QED BY <1>2, <1>3

(* A record as the VTA holds it, and one it would have to be older than.    *)
LEMMA FreshGot ==
    ASSUME NEW v \in VtaType, Ordered(v), NEW c \in ConfigType, HonestConfig(v, c), NEW k \in Keys,
           NEW recs \in Readings, recs[k] = v.store[k], v.store[k].ver # 0, NEW w
    PROVE  Reads(v, k, w, Got(c, recs, k))
<1> SUFFICES ASSUME k \notin NewKinds PROVE UpTo(v, k, w, Got(c, recs, k))
  BY DEF Reads
<1>1. v.store[k] \in RecType /\ v.store[k].ver \in Nat /\ v.store[k] # None
  BY Values DEF VtaType, RecType
<1>2. CASE ~Skips(c, k, recs[k])
  BY <1>1, <1>2 DEF Got, UpTo, Says
<1>3. CASE Skips(c, k, recs[k])
  <2>1. Got(c, recs, k) = Told(c, k) /\ c.base[k].ver # 0 /\ v.store[k].ver <= c.base[k].ver
    BY <1>3 DEF Got, Skips
  <2>2. PICK q \in AnyReading : q = Told(c, k) /\ Honest(v, k, q) /\ v.store[k].ver <= q.ver
    <3>1. Told(c, k) \in AnyReading /\ Honest(v, k, Told(c, k))
      BY ToldType, ToldHonest
    <3>2. c.base[k].ver <= Told(c, k).ver
      BY <2>1, ToldHonest
    <3>3. c.base[k].ver \in Nat /\ Told(c, k).ver \in Nat
      BY <3>1 DEF ConfigType, AnyReading, RecType, BaseType
    <3> QED BY <1>1, <2>1, <3>1, <3>2, <3>3
  <2>3. Says(v, k, q)
    BY <1>1, <2>2 DEF Honest, Known, Says
  <2> QED BY <2>1, <2>2, <2>3 DEF UpTo
<1> QED BY <1>2, <1>3

(* Taking an exchange in: the device is told all of it, in that order.      *)
LEMMA AbsorbRead ==
    ASSUME NEW v \in VtaType, Ordered(v), NEW c \in ConfigType, HonestConfig(v, c),
           NEW e \in ExType, Flight(v, e, c), Reading(v, e, c), e.st = "done",
           NEW mode, NEW z, z = absorb(c, e, mode)
    PROVE  ReadConfig(v, z)
<1>1. PICK recs, p, a, b, lost, x : Stages(c, e, mode, recs, p, a, b, lost, x)
  BY DEF Stages
<1>2. /\ recs = PulledRecs(c, e) /\ p = apply_remote(c, recs, mode) /\ a = AbsorbPull(c, e, mode)
      /\ b = AbsorbPuts(a, e) /\ lost = RacedRecs(e) /\ x = apply_remote(b, lost, mode)
      /\ z = AbsorbDeletes(x, e)
  BY <1>1 DEF Stages, absorb
<1>3. /\ recs \in Readings /\ p \in ConfigType
      /\ a \in ConfigType /\ HonestConfig(v, a)
      /\ b \in ConfigType /\ HonestConfig(v, b)
      /\ lost \in Readings
      /\ x \in ConfigType /\ HonestConfig(v, x)
  BY <1>1, StagesHonest
<1>4. PICK w \in Nat : w = IF e.wm # None THEN e.wm ELSE c.watermark
  BY DEF ExType, ConfigType
<1>5. a.watermark = w /\ a.local = p.local /\ a.base = p.base /\ a.deferred = p.deferred
  BY <1>2, <1>4, AbsorbPullFields
<1>6. /\ b.watermark = w /\ b.deferred = a.deferred
      /\ \A k \in Keys : b.base[k] = IF e.wrote[k] # None /\ e.wrote[k].out = "written"
                                     THEN [ver |-> e.wrote[k].cur.ver, val |-> e.puts[k]] ELSE a.base[k]
  BY <1>2, <1>3, <1>5, AbsorbPutsFields
<1>7. x.watermark = w
  BY <1>2, <1>3, <1>6, ApplyRemote
<1>8. /\ z.watermark = w /\ z.deferred = x.deferred
      /\ \A k \in Keys : z.base[k] = IF k \in e.gone THEN NoBase ELSE x.base[k]
  BY <1>2, <1>3, <1>7, AbsorbDeletesFields
<1>9. ASSUME NEW k \in Keys, k \notin NewKinds PROVE Reads(v, k, w, Told(z, k))
  <2>1. Reads(v, k, w, Got(c, recs, k))
    <3>1. CASE e.wm # None
      BY <1>2, <1>4, <3>1 DEF Reading
    <3>2. CASE e.wm = None
      <4>1. ~e.snap /\ recs = e.pulled /\ w = e.since
        BY <1>2, <1>4, <3>2, PulledReadings DEF Flight
      <4> QED BY <4>1 DEF Reading
    <3> QED BY <3>1, <3>2
  <2>2. Reads(v, k, w, Told(a, k))
    <3>1. Told(a, k) = Told(p, k)
      BY <1>5 DEF Told, Skips
    <3> QED BY <1>2, <1>3, <2>1, <3>1, ToldApply, SameReads
  <2>3. e.wrote[k] # None => w = e.wm /\ HonestWrite(v, e, k)
    BY <1>4 DEF Flight, HonestWrite
  <2>4. Reads(v, k, w, Told(b, k))
    <3>1. CASE e.wrote[k] # None /\ e.wrote[k].out = "written"
      <4>1. b.base[k] = [ver |-> e.wrote[k].cur.ver, val |-> e.puts[k]] /\ w < e.wrote[k].cur.ver
            /\ e.wrote[k].cur.ver \in Nat
        BY <1>6, <2>3, <3>1 DEF HonestWrite, ExType, WriteType, RecType
      <4>2. PICK q \in AnyReading : q = Told(b, k) /\ Honest(v, k, q) /\ e.wrote[k].cur.ver <= q.ver
        <5>1. Told(b, k) \in AnyReading /\ Honest(v, k, Told(b, k))
          BY <1>3, ToldType, ToldHonest
        <5>2. b.base[k].ver # 0 /\ b.base[k].ver = e.wrote[k].cur.ver
          BY <4>1
        <5>3. b.base[k].ver <= Told(b, k).ver
          BY <1>3, <5>2, ToldHonest
        <5> QED BY <5>1, <5>2, <5>3
      <4>3. w <= q.ver
        BY <4>1, <4>2 DEF AnyReading, RecType, BaseType
      <4> QED BY <4>2, <4>3, HonestSays DEF AnyReading, BaseType, Reads
    <3>2. CASE ~(e.wrote[k] # None /\ e.wrote[k].out = "written")
      <4>1. b.base[k] = a.base[k]
        BY <1>6, <3>2
      <4>2. Told(b, k) = Told(a, k)
        BY <1>6, <4>1 DEF Told, Skips
      <4> QED BY <2>2, <4>2
    <3> QED BY <3>1, <3>2
  <2>5. lost[k] = IF e.wrote[k] # None /\ e.wrote[k].out = "conflict" THEN e.wrote[k].cur ELSE None
    BY <1>2, RacedReadings
  <2>6. Reads(v, k, w, Got(b, lost, k))
    <3>1. CASE lost[k] # None /\ ~Skips(b, k, lost[k])
      <4>1. Got(b, lost, k) = e.wrote[k].cur /\ e.wrote[k] # None /\ e.wrote[k].out = "conflict"
        BY <2>5, <3>1 DEF Got
      <4> QED BY <2>3, <4>1 DEF Reading
    <3>2. CASE ~(lost[k] # None /\ ~Skips(b, k, lost[k]))
      <4>1. Got(b, lost, k) = Told(b, k)
        BY <3>2 DEF Got
      <4> QED BY <2>4, <4>1
    <3> QED BY <3>1, <3>2
  <2>7. Reads(v, k, w, Told(x, k))
    BY <1>2, <1>3, <2>6, ToldApply, SameReads
  <2>8. CASE k \notin e.gone
    <3>1. Told(z, k) = Told(x, k)
      <4>1. z.base[k] = x.base[k]
        BY <1>8, <2>8
      <4> QED BY <1>8, <4>1 DEF Told, Skips
    <3> QED BY <2>7, <3>1
  <2>9. CASE k \in e.gone
    <3>1. e.wm # None /\ w = e.wm /\ c.deferred[k] = None /\ e.wrote[k] = None
      BY <1>4, <2>9 DEF Flight, HonestWrite
    <3>2. CASE x.deferred[k] = None
      <4>1. Told(z, k) = NoBase
        BY <1>8, <2>9, <3>2 DEF Told
      <4> QED BY <2>9, <3>1, <4>1 DEF Reading
    <3>3. CASE x.deferred[k] # None
      <4>1. Told(z, k) = x.deferred[k]
        BY <1>8, <1>9, <2>9, <3>3 DEF Told, Skips, NoBase
      <4>2. x.deferred[k] = a.deferred[k]
        <5>1. lost[k] = None
          BY <2>5, <3>1
        <5>2. ~Merges(b, k, lost[k], mode)
          BY <5>1 DEF Merges
        <5>3. LeftOut(b, lost[k], x, k)
          BY <1>2, <1>3, <5>2, ApplyRemote
        <5> QED BY <1>6, <5>1, <5>3 DEF LeftOut
      <4>3. ~Merges(c, k, recs[k], mode)
        <5>1. p.deferred[k] # None
          BY <1>5, <3>3, <4>2
        <5>2. Merges(c, k, recs[k], mode) => TakenIn(c, recs[k], p, k)
          BY <1>2, <1>3, ApplyRemote
        <5> QED BY <5>1, <5>2, Zenon DEF TakenIn
      <4>4. LeftOut(c, recs[k], p, k)
        BY <1>2, <1>3, <4>3, ApplyRemote
      <4>5. a.deferred[k] = recs[k] /\ recs[k] # None /\ ~Skips(c, k, recs[k])
        BY <1>5, <3>1, <3>3, <4>2, <4>4 DEF LeftOut
      <4>6. Got(c, recs, k) = recs[k]
        BY <4>5 DEF Got
      <4> QED BY <2>1, <4>1, <4>2, <4>5, <4>6
    <3> QED BY <3>2, <3>3
  <2> QED BY <2>8, <2>9
<1> QED BY <1>8, <1>9 DEF ReadConfig, Reads

-----------------------------------------------------------------------------
(* What was read stays read when the VTA moves on.                          *)
LEMMA ReadConfigLater ==
    ASSUME NEW v \in VtaType, NEW u \in VtaType, Later(v, u),
           NEW c \in ConfigType, HonestConfig(v, c), ReadConfig(v, c)
    PROVE  ReadConfig(u, c)
<1>1. c.watermark \in Nat /\ c.watermark <= v.counter
  BY DEF ConfigType, HonestConfig
<1>2. ASSUME NEW k \in Keys PROVE Reads(u, k, c.watermark, Told(c, k))
  <2>1. Told(c, k) \in AnyReading
    <3>1. c.deferred \in Readings
      BY DEF ConfigType, Readings
    <3> QED BY <3>1, ToldType
  <2> QED BY <1>1, <2>1, ReadsLater DEF ReadConfig, AnyReading, BaseType
<1> QED BY <1>2 DEF ReadConfig

LEMMA ReadingLater ==
    ASSUME NEW v \in VtaType, NEW u \in VtaType, Later(v, u), Ordered(v),
           NEW c \in ConfigType, HonestConfig(v, c),
           NEW e \in ExType, Flight(v, e, c), Reading(v, e, c)
    PROVE  Reading(u, e, c)
<1>1. e.since \in Nat /\ e.since <= v.counter /\ e.cur \in Nat
      /\ (e.wm # None => e.wm \in Nat /\ e.wm <= v.counter /\ e.since <= e.wm)
  BY DEF ExType, Flight, HonestConfig
<1>2. ASSUME NEW k \in Keys PROVE Got(c, e.pulled, k) \in AnyReading /\ Got(c, PulledRecs(c, e), k) \in AnyReading
  <2>1. PICK recs : recs = PulledRecs(c, e)
    OBVIOUS
  <2>2. recs \in Readings /\ e.pulled \in Readings
    BY <2>1, PulledReadings DEF ExType, Readings
  <2> QED BY <2>1, <2>2, ToldType
<1>3. ASSUME NEW k \in Keys, NEW w \in Nat, w <= v.counter, NEW q \in AnyReading, Reads(v, k, w, q)
      PROVE  Reads(u, k, w, q)
  BY <1>3, ReadsLater DEF AnyReading, BaseType
<1>4. ASSUME NEW k \in Keys
      PROVE  /\ ~e.snap => Reads(u, k, e.since, Got(c, e.pulled, k))
             /\ e.st \notin {"pull", "snap"} /\ e.wm # None => Reads(u, k, e.wm, Got(c, PulledRecs(c, e), k))
             /\ e.wrote[k] # None /\ e.wrote[k].out = "conflict" => Reads(u, k, e.wm, e.wrote[k].cur)
             /\ k \in e.gone => Reads(u, k, e.wm, NoBase)
             /\ k \in e.seen => e.pulled[k].val # Absent
  <2>1. ~e.snap => Reads(u, k, e.since, Got(c, e.pulled, k))
    BY <1>1, <1>2, <1>3 DEF Reading
  <2>2. e.st \notin {"pull", "snap"} /\ e.wm # None => Reads(u, k, e.wm, Got(c, PulledRecs(c, e), k))
    BY <1>1, <1>2, <1>3 DEF Reading
  <2>3. ASSUME e.wrote[k] # None, e.wrote[k].out = "conflict" PROVE Reads(u, k, e.wm, e.wrote[k].cur)
    <3>1. e.wm # None /\ e.wrote[k].cur \in AnyReading
      BY <2>3 DEF Flight, HonestWrite, ExType, WriteType, AnyReading
    <3> QED BY <1>1, <1>3, <2>3, <3>1 DEF Reading
  <2>4. ASSUME k \in e.gone PROVE Reads(u, k, e.wm, NoBase)
    <3>1. e.wm # None /\ NoBase \in AnyReading
      BY <2>4, Values DEF Flight, AnyReading
    <3> QED BY <1>1, <1>3, <2>4, <3>1 DEF Reading
  <2>5. k \in e.seen => e.pulled[k].val # Absent
    BY DEF Reading
  <2> QED BY <2>1, <2>2, <2>3, <2>4, <2>5
<1>5. ASSUME e.st = "pull", e.wm # None, u.reaped <= e.since, NEW k \in Keys, u.store[k].ver <= e.cur
      PROVE  Reads(u, k, e.wm, Got(c, e.pulled, k))
  <2>1. /\ v.reaped \in Nat /\ u.reaped \in Nat /\ v.counter \in Nat /\ v.reaped <= u.reaped
        /\ v.store[k].ver \in Nat /\ u.store[k].ver \in Nat /\ v.store[k].ver <= v.counter
        /\ (u.store[k] = v.store[k] \/ v.counter < u.store[k].ver \/ v.counter <= u.reaped)
    BY DEF VtaType, RecType, Later, Ordered
  <2>2. e.since <= e.cur /\ v.reaped <= e.since
    BY <1>1, <1>5, <2>1 DEF Reading
  <2>3. CASE v.counter < u.store[k].ver
    <3>1. ~Known(u, k, e.wm)
      BY <1>1, <1>5, <2>1, <2>3 DEF Known
    <3> QED BY <3>1 DEF Reads, UpTo
  <2>4. CASE u.store[k] = v.store[k] \/ v.counter <= u.reaped
    <3>1. v.store[k].ver <= e.cur
      BY <1>1, <1>5, <2>1, <2>2, <2>4
    <3>2. Reads(v, k, e.wm, Got(c, e.pulled, k))
      BY <1>5, <2>2, <3>1 DEF Reading
    <3> QED BY <1>1, <1>2, <1>3, <1>5, <3>2
  <2> QED BY <2>1, <2>3, <2>4
<1>6. e.st = "pull" =>
        /\ e.since <= e.cur
        /\ e.wm = None => e.cur = e.since /\ \A k \in Keys : e.pulled[k] = None
  BY DEF Reading
<1> QED BY <1>4, <1>5, <1>6 DEF Reading

(* The steps of an exchange.                                                *)
LEMMA ReadingPlanned ==
    ASSUME NEW v, NEW c \in ConfigType, ReadConfig(v, c), NEW e, e = PlanEx(c)
    PROVE  Reading(v, e, c)
<1>1. PICK x : x = PlanEx(c) /\ x = e
  OBVIOUS
<1> HIDE DEF PlanEx
<1>2. /\ x \in ExType /\ x.st = "pull" /\ x.since = c.watermark /\ x.cur = c.watermark
      /\ x.wm = None /\ x.snap = FALSE /\ x.seen = {} /\ x.gone = {} /\ c.watermark \in Nat
  BY <1>1, PlanFields DEF ConfigType
<1>3. ASSUME NEW k \in Keys
      PROVE  /\ x.pulled[k] = None /\ x.wrote[k] = None /\ x.expect[k] = c.base[k].ver
             /\ k \in x.dels => x.puts[k] = Absent /\ c.deferred[k] = None
  BY <1>1, PlanFields
<1>4. ASSUME NEW k \in Keys PROVE Reads(v, k, x.since, Got(c, x.pulled, k))
  <2>1. Got(c, x.pulled, k) = Told(c, k)
    BY <1>3 DEF Got
  <2> QED BY <1>2, <2>1 DEF ReadConfig
<1>5. x.since <= x.cur
  BY <1>2
<1>6. Reading(v, x, c)
  BY <1>2, <1>3, <1>4, <1>5 DEF Reading
<1> QED BY <1>1, <1>6

LEMMA ReadingFailed ==
    ASSUME NEW v, NEW c, NEW e \in ExType, Flight(v, e, c), Reading(v, e, c), NEW g, g = Failed(e)
    PROVE  Reading(v, g, c)
<1>1. /\ g.st = "done" /\ (e.st \in {"pull", "snap"} => g.wm = None) /\ (e.st \notin {"pull", "snap"} => g.wm = e.wm)
      /\ g.since = e.since /\ g.snap = e.snap /\ g.pulled = e.pulled
      /\ g.seen = e.seen /\ g.wrote = e.wrote /\ g.gone = e.gone
  BY FailedFields
<1>2. ASSUME e.st \notin {"pull", "snap"} PROVE PulledRecs(c, g) = PulledRecs(c, e)
  BY <1>1, <1>2 DEF PulledRecs
<1>3. ASSUME NEW k \in Keys
      PROVE  /\ ~g.snap => Reads(v, k, g.since, Got(c, g.pulled, k))
             /\ g.st \notin {"pull", "snap"} /\ g.wm # None => Reads(v, k, g.wm, Got(c, PulledRecs(c, g), k))
             /\ g.wrote[k] # None /\ g.wrote[k].out = "conflict" => Reads(v, k, g.wm, g.wrote[k].cur)
             /\ k \in g.gone => Reads(v, k, g.wm, NoBase)
             /\ k \in g.seen => g.pulled[k].val # Absent
  <2>1. e.st \in {"pull", "snap"} => e.wrote[k] = None /\ k \notin e.gone
    BY DEF Flight, HonestWrite
  <2> QED BY <1>1, <1>2, <2>1 DEF Reading
<1> QED BY <1>1, <1>3 DEF Reading

LEMMA ReadingRestart ==
    ASSUME NEW v, NEW c, ReadConfig(v, c), NEW e \in ExType, Flight(v, e, c), e.st = "pull", NEW g,
           g = [e EXCEPT !.st = "snap", !.cur = 0, !.wm = None, !.pulled = [k \in Keys |-> None]]
    PROVE  Reading(v, g, c)
<1>0. /\ g.st = "snap" /\ g.cur = 0 /\ g.wm = None /\ g.pulled = [k \in Keys |-> None]
      /\ g.since = e.since /\ g.snap = e.snap /\ g.seen = e.seen /\ g.puts = e.puts /\ g.dels = e.dels
      /\ g.expect = e.expect /\ g.wrote = e.wrote /\ g.gone = e.gone
  BY RestartFields, Zenon
<1>1. /\ g.st = "snap" /\ g.pulled = [k \in Keys |-> None] /\ g.since = c.watermark /\ g.seen = {}
      /\ g.gone = {} /\ \A k \in Keys : g.wrote[k] = None
  BY <1>0 DEF Flight, HonestWrite
<1>2. ASSUME NEW k \in Keys PROVE Reads(v, k, g.since, Got(c, g.pulled, k))
  <2>1. Got(c, g.pulled, k) = Told(c, k)
    BY <1>1 DEF Got
  <2> QED BY <1>1, <2>1 DEF ReadConfig
<1> QED BY <1>1, <1>2 DEF Reading

LEMMA GotOf ==
    ASSUME NEW c, NEW p, NEW q, NEW k, p[k] = q[k]
    PROVE  Got(c, p, k) = Got(c, q, k)
BY DEF Got

(* A page of the feed: every write up to its last is read now, for the      *)
(* versions are distinct and no tombstone is missing.                       *)
LEMMA ReadingFeed ==
    ASSUME TypeOK, Ordered(Vta), NEW c \in ConfigType, HonestConfig(Vta, c), ReadConfig(Vta, c),
           NEW e \in ExType, Flight(Vta, e, c), Reading(Vta, e, c), e.st = "pull", ~(e.since < reaped),
           NEW g, g = FeedPage(e)
    PROVE  Reading(Vta, g, c)
<1>0. /\ store \in [Keys -> RecType] /\ counter \in Nat /\ reaped \in Nat /\ e.since \in Nat /\ e.cur \in Nat
      /\ Vta.store = store /\ Vta.counter = counter /\ Vta.reaped = reaped /\ Vta \in VtaType
      /\ e.pulled \in Readings /\ ~e.snap /\ e.since = c.watermark /\ e.seen = {} /\ e.gone = {}
      /\ e.since <= e.cur /\ e.since <= counter
  BY VtaTyped DEF TypeOK, Vta, ExType, Readings, Flight, Reading, HonestConfig
<1>1. /\ g \in ExType /\ g.st \in {"pull", "put", "delete", "done"}
      /\ g.wm = FirstWatermark(e) /\ g.since = e.since /\ g.snap = e.snap /\ g.seen = e.seen
      /\ g.wrote = e.wrote /\ g.gone = e.gone
      /\ (g.pulled = e.pulled /\ g.cur = e.cur) \/ \E k \in Keys : FeedGot(e, g, k)
      /\ FeedEnd(e, g)
  BY <1>0, FeedFields
<1>2. g.wm \in Nat /\ g.wm # None /\ (e.wm # None => g.wm = e.wm) /\ g.pulled \in Readings
  BY <1>0, <1>1, WatermarkType DEF ExType, Readings
<1>3. ASSUME NEW k \in Keys, store[k].ver <= e.cur
      PROVE  Reads(Vta, k, g.wm, Got(c, e.pulled, k))
  <2>1. CASE e.wm = None
    <3>1. Got(c, e.pulled, k) = Told(c, k) /\ e.cur = e.since
      BY <2>1 DEF Reading, Got
    <3>2. Known(Vta, k, c.watermark)
      BY <1>0, <1>3, <3>1 DEF Known
    <3> QED BY <3>1, <3>2 DEF ReadConfig, Reads, UpTo
  <2>2. CASE e.wm # None
    <3>1. reaped <= e.since
      BY <1>0
    <3> QED BY <1>0, <1>2, <1>3, <2>2, <3>1 DEF Reading
  <2> QED BY <2>1, <2>2
<1>4. ASSUME NEW k \in Keys
      PROVE  \/ Got(c, g.pulled, k) = Got(c, e.pulled, k) /\ (store[k].ver <= g.cur => store[k].ver <= e.cur)
             \/ \A w : Reads(Vta, k, w, Got(c, g.pulled, k))
  <2>0. store[k].ver \in Nat
    BY <1>0 DEF RecType
  <2>1. CASE g.pulled = e.pulled /\ g.cur = e.cur
    BY <2>1
  <2>2. CASE \E i \in Keys : FeedGot(e, g, i)
    <3>1. PICK i \in Keys : FeedGot(e, g, i)
      BY <2>2
    <3>2. store[i].ver \in Nat /\ g.pulled = [e.pulled EXCEPT ![i] = store[i]] /\ g.cur = store[i].ver
          /\ store[i].ver > e.cur
      BY <1>0, <3>1 DEF RecType, FeedGot
    <3>3. CASE k = i
      <4>1. g.pulled[k] = Vta.store[k] /\ Vta.store[k].ver # 0
        BY <1>0, <3>2, <3>3 DEF Readings
      <4> QED BY <1>0, <1>2, <4>1, FreshGot
    <3>4. CASE k # i
      <4>1. g.pulled[k] = e.pulled[k]
        BY <1>0, <3>2, <3>4 DEF Readings
      <4>2. ASSUME store[k].ver <= g.cur, ~(store[k].ver <= e.cur) PROVE FALSE
        <5>1. store[k].ver > e.cur
          BY <1>0, <2>0, <4>2
        <5>2. store[i].ver <= store[k].ver
          BY <3>1, <5>1 DEF FeedGot
        <5>3. store[i].ver = store[k].ver /\ store[k].ver # 0
          BY <1>0, <2>0, <3>2, <4>2, <5>1, <5>2
        <5> QED BY <1>0, <3>4, <5>3 DEF Ordered
      <4> QED BY <4>1, <4>2, GotOf
    <3> QED BY <3>3, <3>4
  <2> QED BY <1>1, <2>1, <2>2
<1>5. ASSUME NEW k \in Keys PROVE Reads(Vta, k, g.since, Got(c, g.pulled, k))
  <2>1. Reads(Vta, k, e.since, Got(c, e.pulled, k))
    BY <1>0 DEF Reading
  <2> QED BY <1>1, <1>4, <2>1
<1>6. ASSUME NEW k \in Keys, store[k].ver <= g.cur PROVE Reads(Vta, k, g.wm, Got(c, g.pulled, k))
  BY <1>3, <1>4, <1>6
<1>7. ASSUME NEW k \in Keys, g.st # "pull" PROVE Reads(Vta, k, g.wm, Got(c, PulledRecs(c, g), k))
  <2>1. PICK recs : recs = PulledRecs(c, g)
    OBVIOUS
  <2>2. recs = g.pulled
    BY <1>0, <1>1, <2>1, PulledReadings
  <2> QED BY <1>1, <1>6, <1>7, <2>1, <2>2 DEF FeedEnd
<1>8. g.since <= g.cur
  <2>1. CASE g.pulled = e.pulled /\ g.cur = e.cur
    BY <1>0, <1>1, <2>1
  <2>2. CASE \E i \in Keys : FeedGot(e, g, i)
    <3>1. PICK i \in Keys : FeedGot(e, g, i)
      BY <2>2
    <3>2. store[i].ver \in Nat /\ g.cur = store[i].ver /\ store[i].ver > e.cur
      BY <1>0, <3>1 DEF RecType, FeedGot
    <3> QED BY <1>0, <1>1, <3>2
  <2> QED BY <1>1, <2>1, <2>2
<1>9. ASSUME NEW k \in Keys PROVE g.wrote[k] = None /\ k \notin g.gone /\ k \notin g.seen
  BY <1>0, <1>1 DEF Flight, HonestWrite
<1> QED BY <1>0, <1>1, <1>2, <1>5, <1>6, <1>7, <1>8, <1>9 DEF Reading

(* A complete snapshot says of every record what the VTA held.              *)
LEMMA SnapshotGot ==
    ASSUME NEW v \in VtaType, Ordered(v), NEW c \in ConfigType, HonestConfig(v, c),
           NEW e \in ExType, e.snap, e.wm # None, NEW k \in Keys, Snapshot(v, e, k),
           k \in e.seen => e.pulled[k].val # Absent,
           c.deferred[k] # None => c.base[k].ver # 0,
           NEW recs, recs = PulledRecs(c, e)
    PROVE  Reads(v, k, e.wm, Got(c, recs, k))
<1>1. recs[k] = IF c.base[k].ver # 0 /\ k \notin e.seen THEN [ver |-> e.wm, val |-> Absent] ELSE e.pulled[k]
  BY DEF PulledRecs
<1>2. e.wm \in Nat /\ c.base[k].ver \in Nat /\ v.store[k].ver \in Nat
      /\ recs \in Readings /\ (k \in e.seen => e.pulled[k] \in RecType)
  <2>1. recs \in Readings
    BY PulledReadings
  <2> QED BY <2>1 DEF ExType, ConfigType, VtaType, RecType, Snapshot
<1>3. /\ Honest(v, k, c.base[k]) /\ (c.base[k].ver = 0 <=> c.base[k].val = Absent)
      /\ (v.store[k].val # Absent => v.store[k].ver # 0)
  BY DEF HonestConfig, Ordered
<1> SUFFICES ASSUME k \notin NewKinds, Known(v, k, e.wm) PROVE Says(v, k, Got(c, recs, k))
  BY DEF Reads, UpTo
<1>4. CASE k \in e.seen
  <2>1. PICK r \in RecType : r = e.pulled[k] /\ recs[k] = r /\ Says(v, k, r) /\ r.val # Absent
    BY <1>1, <1>2, <1>4 DEF Snapshot, UpTo
  <2>2. CASE ~Skips(c, k, r)
    <3>1. r # None
      BY Values
    <3> QED BY <2>1, <2>2, <3>1 DEF Got
  <2>3. CASE Skips(c, k, r)
    <3>1. c.base[k].ver # 0 /\ r.ver <= c.base[k].ver /\ Got(c, recs, k) = Told(c, k)
      BY <2>1, <2>3 DEF Skips, Got
    <3>2. PICK q \in AnyReading : q = Told(c, k) /\ Honest(v, k, q) /\ c.base[k].ver <= q.ver
      <4>1. Told(c, k) \in AnyReading /\ Honest(v, k, Told(c, k))
        BY <1>2, ToldType, ToldHonest
      <4>2. c.base[k].ver <= Told(c, k).ver
        BY <3>1, ToldHonest
      <4> QED BY <4>1, <4>2
    <3>3. v.store[k].ver <= q.ver /\ v.store[k].ver # 0
      <4>1. q.ver \in Nat /\ r.ver \in Nat
        BY DEF AnyReading, RecType, BaseType
      <4> QED BY <1>2, <1>3, <2>1, <3>1, <3>2, <4>1 DEF Says
    <3> QED BY <3>1, <3>2, <3>3 DEF Honest, Known, Says
  <2> QED BY <2>2, <2>3
<1>5. CASE k \notin e.seen
  <2>1. v.store[k].val = Absent
    BY <1>5 DEF Snapshot, UpTo, Says, NoBase
  <2>2. CASE c.base[k].ver = 0
    <3>1. Got(c, recs, k) = Told(c, k) /\ c.deferred[k] = None
      BY <1>1, <1>5, <2>2 DEF Got, Snapshot
    <3>2. Told(c, k) = c.base[k]
      BY <3>1 DEF Told
    <3> QED BY <1>3, <2>1, <2>2, <3>1, <3>2 DEF Says
  <2>3. CASE c.base[k].ver # 0
    <3>1. recs[k] = [ver |-> e.wm, val |-> Absent] /\ recs[k] \in RecType /\ recs[k] # None
      <4>1. recs[k] = [ver |-> e.wm, val |-> Absent]
        BY <1>1, <1>5, <2>3
      <4> QED BY <1>2, <4>1, Values DEF RecType, StoredVals
    <3>2. ~Skips(c, k, recs[k])
      <4>1. SUFFICES ASSUME e.wm <= c.base[k].ver PROVE FALSE
        BY <3>1 DEF Skips
      <4>2. Known(v, k, c.base[k].ver)
        <5>1. v.reaped \in Nat
          BY DEF VtaType
        <5> QED BY <1>2, <4>1, <5>1 DEF Known
      <4> QED BY <1>3, <2>1, <2>3, <4>2 DEF Honest
    <3>3. Got(c, recs, k) = [ver |-> e.wm, val |-> Absent]
      BY <3>1, <3>2 DEF Got
    <3> QED BY <2>1, <3>3 DEF Says
  <2> QED BY <2>2, <2>3
<1> QED BY <1>4, <1>5

LEMMA ReadingSnap ==
    ASSUME TypeOK, Ordered(Vta), NEW c \in ConfigType, HonestConfig(Vta, c),
           NEW d \in Devices, SnapPage(d), NEW e, e = ex[d], NEW g, g = ex'[d],
           Flight(Vta, e, c), Reading(Vta, e, c), Flight(Vta, g, c),
           g.snap => \A k \in Keys : c.deferred[k] # None => c.base[k].ver # 0
    PROVE  Reading(Vta, g, c)
<1>0. /\ store \in [Keys -> RecType] /\ e \in ExType /\ e.st = "snap" /\ counter \in Nat
      /\ Vta.store = store /\ Vta \in VtaType /\ e.pulled \in Readings /\ ~e.snap
  BY VtaTyped DEF TypeOK, Vta, ExType, Readings, Flight, SnapPage
<1>1. /\ g \in ExType /\ g.st \in {"snap", "put", "delete", "done"}
      /\ g.wm = FirstWatermark(e) /\ g.since = e.since /\ (g.snap <=> g.st # "snap")
      /\ g.wrote = e.wrote /\ g.gone = e.gone
      /\ \/ g.pulled = e.pulled /\ g.cur = e.cur /\ g.seen = e.seen /\ g.snap
         \/ \E k \in Keys : SnapGot(e, g, k)
  BY SnapFields
<1>2. g.wm # None /\ g.pulled \in Readings
  BY <1>0, <1>1, WatermarkType DEF ExType, Readings
<1>3. ASSUME NEW k \in Keys
      PROVE  /\ Reads(Vta, k, g.since, Got(c, g.pulled, k))
             /\ k \in g.seen => g.pulled[k].val # Absent
  <2>0. Reads(Vta, k, e.since, Got(c, e.pulled, k)) /\ (k \in e.seen => e.pulled[k].val # Absent)
    BY <1>0 DEF Reading
  <2>1. CASE g.pulled = e.pulled /\ g.cur = e.cur /\ g.seen = e.seen /\ g.snap
    BY <1>1, <2>0, <2>1
  <2>2. CASE \E i \in Keys : SnapGot(e, g, i)
    <3>1. PICK i \in Keys : SnapGot(e, g, i)
      BY <2>2
    <3>2. /\ g.pulled = [e.pulled EXCEPT ![i] = store[i]] /\ g.seen = e.seen \cup {i}
          /\ store[i].val # Absent
      BY <3>1 DEF SnapGot
    <3>3. CASE k = i
      <4>1. g.pulled[k] = Vta.store[k] /\ Vta.store[k].ver # 0 /\ store[k].val # Absent
        BY <1>0, <3>2, <3>3 DEF Readings, Ordered
      <4>2. Reads(Vta, k, g.since, Got(c, g.pulled, k))
        BY <1>0, <1>2, <4>1, FreshGot
      <4> QED BY <1>0, <4>1, <4>2
    <3>4. CASE k # i
      <4>1. g.pulled[k] = e.pulled[k] /\ (k \in g.seen => k \in e.seen)
        BY <1>0, <3>2, <3>4 DEF Readings
      <4>2. Got(c, g.pulled, k) = Got(c, e.pulled, k)
        BY <4>1, GotOf
      <4> QED BY <1>1, <2>0, <4>1, <4>2
    <3> QED BY <3>3, <3>4
  <2> QED BY <1>1, <2>1, <2>2
<1>4. ASSUME NEW k \in Keys, g.st # "snap" PROVE Reads(Vta, k, g.wm, Got(c, PulledRecs(c, g), k))
  <2>1. PICK recs : recs = PulledRecs(c, g)
    OBVIOUS
  <2>2. g.snap /\ Snapshot(Vta, g, k)
    BY <1>1, <1>2, <1>4 DEF Flight
  <2> QED BY <1>0, <1>1, <1>2, <1>3, <2>1, <2>2, SnapshotGot
<1>5. ASSUME NEW k \in Keys PROVE g.wrote[k] = None /\ k \notin g.gone
  BY <1>0, <1>1 DEF Flight, HonestWrite
<1> QED BY <1>1, <1>3, <1>4, <1>5 DEF Reading

(* A push changes nothing of what was pulled.                               *)
LEMMA ReadingKept ==
    ASSUME NEW v, NEW c, NEW e, NEW g, Reading(v, e, c),
           e.st \notin {"pull", "snap"}, g.st \notin {"pull", "snap"},
           g.since = e.since, g.wm = e.wm, g.snap = e.snap, g.pulled = e.pulled, g.seen = e.seen,
           \A k \in Keys : g.wrote[k] # None /\ g.wrote[k].out = "conflict" => Reads(v, k, g.wm, g.wrote[k].cur),
           \A k \in Keys : k \in g.gone => Reads(v, k, g.wm, NoBase)
    PROVE  Reading(v, g, c)
<1>1. PulledRecs(c, g) = PulledRecs(c, e)
  BY DEF PulledRecs
<1>2. ASSUME NEW k \in Keys
      PROVE  /\ ~g.snap => Reads(v, k, g.since, Got(c, g.pulled, k))
             /\ g.wm # None => Reads(v, k, g.wm, Got(c, PulledRecs(c, g), k))
             /\ k \in g.seen => g.pulled[k].val # Absent
  BY <1>1 DEF Reading
<1> QED BY <1>2 DEF Reading

LEMMA ReadingPut ==
    ASSUME TypeOK, Ordered(Vta), NEW c \in ConfigType, HonestConfig(Vta, c),
           NEW d \in Devices, PutMany(d), NEW e, e = ex[d], NEW g, g = ex'[d],
           Flight(Vta, e, c), Reading(Vta, e, c)
    PROVE  Reading(Vta', g, c)
<1>0. /\ store \in [Keys -> RecType] /\ e \in ExType /\ e.st = "put" /\ Vta \in VtaType
      /\ Vta.store = store /\ Vta.counter = counter /\ e.wm # None /\ e.wm \in Nat /\ e.wm <= counter
  BY VtaTyped DEF TypeOK, Vta, ExType, Flight, PutMany
<1>1. PICK u \in VtaType : u = Vta' /\ Later(Vta, u)
  <2>1. Vta' \in VtaType /\ Later(Vta, Vta')
    BY <1>0, FlightPut
  <2> QED BY <2>1
<1>2. Reading(u, e, c)
  BY <1>0, <1>1, ReadingLater
<1>3. /\ g.st \in {"delete", "done"}
      /\ g.wm = e.wm /\ g.since = e.since /\ g.cur = e.cur /\ g.snap = e.snap /\ g.pulled = e.pulled
      /\ g.seen = e.seen /\ g.gone = e.gone
      /\ \A k \in Keys : g.wrote[k] = PutResult(e, k) /\ (PutResult(e, k) # None => PutResult(e, k) \in WriteType)
  BY PutFields
<1>4. ASSUME NEW k \in Keys, g.wrote[k] # None, g.wrote[k].out = "conflict"
      PROVE  Reads(u, k, g.wm, g.wrote[k].cur)
  <2>1. g.wrote[k].cur = store[k]
    <3>1. g.wrote[k] = PutResult(e, k) /\ k \in Puts(e)
      BY <1>3, <1>4 DEF PutResult
    <3>2. CASE k \in Accepted(e)
      <4>1. g.wrote[k] = [out |-> "written", cur |-> PutRec(e, k)]
        BY <3>1, <3>2 DEF PutResult
      <4> QED BY <1>4, <4>1
    <3>3. CASE k \notin Accepted(e) /\ e.expect[k] # LiveVersion(k)
      <4>1. g.wrote[k] = [out |-> "conflict", cur |-> store[k]]
        BY <3>1, <3>3 DEF PutResult
      <4> QED BY <4>1
    <3>4. CASE k \notin Accepted(e) /\ e.expect[k] = LiveVersion(k)
      <4>1. g.wrote[k] = [out |-> "tooLarge", cur |-> NoRec]
        BY <3>1, <3>4 DEF PutResult
      <4> QED BY <1>4, <4>1
    <3> QED BY <3>2, <3>3, <3>4
  <2>2. Reads(Vta, k, e.wm, store[k]) /\ store[k] \in RecType
    BY <1>0 DEF Reads, UpTo, Says, RecType
  <2>3. Reads(u, k, e.wm, store[k])
    BY <1>0, <1>1, <2>2, ReadsLater
  <2> QED BY <1>3, <2>1, <2>3
<1>5. \A k \in Keys : k \in g.gone => Reads(u, k, g.wm, NoBase)
  BY <1>2, <1>3 DEF Reading
<1>6. g.st \notin {"pull", "snap"} /\ e.st \notin {"pull", "snap"}
  BY <1>0, <1>3
<1>7. \A k \in Keys : g.wrote[k] # None /\ g.wrote[k].out = "conflict" => Reads(u, k, g.wm, g.wrote[k].cur)
  BY <1>4
<1> HIDE DEF Vta
<1>8. Reading(u, g, c)
  BY <1>2, <1>3, <1>5, <1>6, <1>7, ReadingKept
<1> QED BY <1>1, <1>8

LEMMA ReadingDelete ==
    ASSUME TypeOK, Ordered(Vta), NEW c \in ConfigType, HonestConfig(Vta, c),
           NEW d \in Devices, DeleteOne(d), NEW e, e = ex[d], NEW g, g = ex'[d],
           Flight(Vta, e, c), Reading(Vta, e, c)
    PROVE  Reading(Vta', g, c)
<1>0. /\ store \in [Keys -> RecType] /\ e \in ExType /\ e.st = "delete" /\ e.dels # {} /\ Vta \in VtaType
  BY VtaTyped DEF TypeOK, Vta, ExType, Flight, DeleteOne
<1>1. PICK u \in VtaType : u = Vta' /\ Later(Vta, u) /\ u.store = store'
  <2>1. Vta' \in VtaType /\ Later(Vta, Vta')
    BY <1>0, FlightDelete
  <2> QED BY <2>1 DEF Vta
<1>2. Reading(u, e, c)
  BY <1>0, <1>1, ReadingLater
<1>3. PICK i : i = NextDelete(e)
  OBVIOUS
<1>4. i \in Keys
  BY <1>0, <1>3, NextDeleted DEF ExType
<1>5. /\ g.st \in {"delete", "done"}
      /\ g.wm = e.wm /\ g.since = e.since /\ g.snap = e.snap /\ g.pulled = e.pulled
      /\ g.seen = e.seen /\ g.wrote = e.wrote
  BY <1>0, <1>3, DeleteFields
<1>6. \/ g.gone = e.gone
      \/ g.gone = e.gone \cup {i} /\ (store[i].val = Absent \/ store[i].ver = e.expect[i])
  BY <1>0, <1>3, DeleteFields
<1>7. ASSUME NEW k \in Keys, k \in g.gone PROVE Reads(u, k, g.wm, NoBase)
  <2>1. CASE k \in e.gone
    BY <1>2, <1>5, <2>1 DEF Reading
  <2>2. CASE k \notin e.gone
    <3>1. k = i /\ (store[i].val = Absent \/ store[i].ver = e.expect[i])
      BY <1>6, <1>7, <2>2
    <3>2. StoreDelete(d, i, e.expect[i])
      BY <1>3 DEF DeleteOne
    <3>3. store'[i].val = Absent
      BY <1>0, <1>4, <3>1, <3>2 DEF StoreDelete
    <3> QED BY <1>1, <3>1, <3>3 DEF Reads, UpTo, Says, NoBase
  <2> QED BY <2>1, <2>2
<1>8. \A k \in Keys : g.wrote[k] # None /\ g.wrote[k].out = "conflict" => Reads(u, k, g.wm, g.wrote[k].cur)
  BY <1>2, <1>5 DEF Reading
<1>9. g.st \notin {"pull", "snap"} /\ e.st \notin {"pull", "snap"}
  BY <1>0, <1>5
<1>10. Reading(u, g, c)
  BY <1>2, <1>5, <1>7, <1>8, <1>9, ReadingKept
<1> QED BY <1>1, <1>10

-----------------------------------------------------------------------------
(* Every device has read what its watermark says, after every step.         *)
LEMMA ReadDeviceLater ==
    ASSUME NEW v \in VtaType, NEW u \in VtaType, Later(v, u), Ordered(v), NEW ph, NEW e \in ExType,
           NEW c \in ConfigType, NEW s \in ConfigType, Device(v, ph, e, c, s), ReadDevice(v, e, c, s)
    PROVE  ReadDevice(u, e, c, s)
<1>1. HonestConfig(v, c) /\ HonestConfig(v, s) /\ (e.st # "idle" => Flight(v, e, c))
  BY DEF Device
<1>2. ReadConfig(v, c) /\ ReadConfig(v, s) /\ (e.st # "idle" => Reading(v, e, c))
  BY DEF ReadDevice
<1>3. ReadConfig(u, c) /\ ReadConfig(u, s)
  BY <1>1, <1>2, ReadConfigLater
<1>4. e.st # "idle" => Reading(u, e, c)
  BY <1>1, <1>2, ReadingLater
<1> QED BY <1>3, <1>4 DEF ReadDevice

LEMMA ReadFrame ==
    ASSUME ReadInv, HonestInv', NEW u \in VtaType, u = Vta', Later(Vta, u), NEW d \in Devices,
           \A x \in Devices \ {d} : ex'[x] = ex[x] /\ mem'[x] = mem[x] /\ disk'[x] = disk[x],
           ReadDevice(u, ex'[d], mem'[d], disk'[d])
    PROVE  ReadInv'
<1>1. TypeOK /\ Ordered(Vta) /\ Vta \in VtaType
  BY VtaTyped DEF ReadInv, HonestInv
<1>2. ASSUME NEW x \in Devices PROVE ReadDevice(u, ex'[x], mem'[x], disk'[x])
  <2>1. CASE x = d
    BY <2>1
  <2>2. CASE x # d
    <3>1. Device(Vta, phase[x], ex[x], mem[x], disk[x]) /\ ReadDevice(Vta, ex[x], mem[x], disk[x])
      BY DEF ReadInv, HonestInv
    <3>2. ex[x] \in ExType /\ mem[x] \in ConfigType /\ disk[x] \in ConfigType
      BY <1>1 DEF TypeOK
    <3>3. ReadDevice(u, ex[x], mem[x], disk[x])
      BY <1>1, <3>1, <3>2, ReadDeviceLater
    <3> QED BY <2>2, <3>3
  <2> QED BY <2>1, <2>2
<1> QED BY <1>2 DEF ReadInv

LEMMA ReadVta ==
    ASSUME ReadInv, HonestInv', NEW u \in VtaType, u = Vta', Later(Vta, u),
           ex' = ex, mem' = mem, disk' = disk
    PROVE  ReadInv'
<1>1. TypeOK /\ Ordered(Vta) /\ Vta \in VtaType
  BY VtaTyped DEF ReadInv, HonestInv
<1>2. ASSUME NEW x \in Devices PROVE ReadDevice(u, ex[x], mem[x], disk[x])
  <2>1. Device(Vta, phase[x], ex[x], mem[x], disk[x]) /\ ReadDevice(Vta, ex[x], mem[x], disk[x])
    BY DEF ReadInv, HonestInv
  <2>2. ex[x] \in ExType /\ mem[x] \in ConfigType /\ disk[x] \in ConfigType
    BY <1>1 DEF TypeOK
  <2> QED BY <1>1, <2>1, <2>2, ReadDeviceLater
<1> QED BY <1>2 DEF ReadInv

LEMMA ReadExchange ==
    ASSUME ReadInv, HonestInv', SnapshotsMeetBases', NEW d \in Devices,
           ExchangeStep(d) \/ RequestFails(d) \/ AnswerLost(d)
    PROVE  ReadInv'
<1>1. /\ TypeOK /\ Ordered(Vta) /\ Vta \in VtaType
      /\ Device(Vta, phase[d], ex[d], mem[d], disk[d]) /\ ReadDevice(Vta, ex[d], mem[d], disk[d])
  BY VtaTyped DEF ReadInv, HonestInv
<1>2. PICK e \in ExType, c \in ConfigType, s \in ConfigType : e = ex[d] /\ c = mem[d] /\ s = disk[d]
  BY <1>1 DEF TypeOK
<1>3. e.st # "idle"
  BY <1>2 DEF ExchangeStep, PullPage, SnapPage, PutMany, DeleteOne, RequestFails, AnswerLost
<1>4. /\ HonestConfig(Vta, c) /\ Flight(Vta, e, c) /\ ReadConfig(Vta, c) /\ ReadConfig(Vta, s)
      /\ HonestConfig(Vta, s) /\ Reading(Vta, e, c) /\ e.since <= counter
  BY <1>1, <1>2, <1>3 DEF Device, ReadDevice, HonestConfig, Flight, Vta
<1>5. PICK g : g = ex'[d]
  OBVIOUS
<1>6. ex \in [Devices -> ExType] /\ mem' = mem /\ disk' = disk /\ ex' = [ex EXCEPT ![d] = g]
  <2>1. ex \in [Devices -> ExType]
    BY <1>1 DEF TypeOK
  <2>2. UNCHANGED devVars /\ \E h : ex' = [ex EXCEPT ![d] = h]
    BY DEF ExchangeStep, PullPage, SnapPage, PutMany, DeleteOne, RequestFails, AnswerLost, SetEx
  <2> QED BY <1>5, <2>1, <2>2 DEF devVars
<1>7. ASSUME Vta' \in VtaType, Later(Vta, Vta'), Reading(Vta', g, c) PROVE ReadInv'
  <2>1. PICK u \in VtaType : u = Vta' /\ Later(Vta, u) /\ Reading(u, g, c)
    BY <1>7
  <2>2. ReadConfig(u, c) /\ ReadConfig(u, s)
    BY <1>1, <1>4, <2>1, ReadConfigLater
  <2>3. ReadDevice(u, ex'[d], mem'[d], disk'[d])
    BY <1>2, <1>5, <1>6, <2>1, <2>2 DEF ReadDevice
  <2>4. \A x \in Devices \ {d} : ex'[x] = ex[x] /\ mem'[x] = mem[x] /\ disk'[x] = disk[x]
    BY <1>6
  <2> QED BY <2>1, <2>3, <2>4, ReadFrame
<1>8. UNCHANGED vtaVars => Vta' = Vta /\ Vta' \in VtaType /\ Later(Vta, Vta')
  <2>1. UNCHANGED vtaVars => Vta' = Vta
    BY DEF vtaVars, Vta
  <2> QED BY <1>1, <2>1, LaterSelf
<1>9. CASE PullPage(d)
  <2>1. e.st = "pull" /\ UNCHANGED vtaVars
    BY <1>2, <1>9 DEF PullPage
  <2>2. CASE e.since < reaped
    <3>1. PICK h : h = [e EXCEPT !.st = "snap", !.cur = 0, !.wm = None, !.pulled = [k \in Keys |-> None]]
      OBVIOUS
    <3>2. ex' = [ex EXCEPT ![d] = h]
      BY <1>2, <1>9, <2>2, <3>1 DEF PullPage, SetEx
    <3>3. g = h
      BY <1>5, <1>6, <3>2
    <3>4. Reading(Vta, h, c)
      BY <1>4, <2>1, <3>1, ReadingRestart, Zenon
    <3>5. Reading(Vta, g, c)
      BY <3>3, <3>4
    <3> QED BY <1>7, <1>8, <2>1, <3>5
  <2>3. CASE ~(e.since < reaped)
    <3>1. PICK h : h = FeedPage(e)
      OBVIOUS
    <3>2. ex' = [ex EXCEPT ![d] = h]
      BY <1>2, <1>9, <2>3, <3>1 DEF PullPage, SetEx
    <3>3. g = h
      BY <1>5, <1>6, <3>2
    <3>4. Reading(Vta, g, c)
      BY <1>1, <1>4, <2>1, <2>3, <3>1, <3>3, ReadingFeed
    <3> QED BY <1>7, <1>8, <2>1, <3>4
  <2> QED BY <2>2, <2>3
<1>10. CASE SnapPage(d)
  <2>1. UNCHANGED vtaVars
    BY <1>10 DEF SnapPage
  <2>2. Flight(Vta, g, c)
    BY <1>1, <1>2, <1>4, <1>5, <1>10, FlightSnap
  <2>3. g.snap => \A k \in Keys : c.deferred[k] # None => c.base[k].ver # 0
    BY <1>2, <1>5, <1>6 DEF SnapshotsMeetBases
  <2>4. Reading(Vta, g, c)
    BY <1>1, <1>2, <1>4, <1>5, <1>10, <2>2, <2>3, ReadingSnap
  <2> QED BY <1>7, <1>8, <2>1, <2>4
<1>11. CASE PutMany(d)
  <2>1. Vta' \in VtaType /\ Later(Vta, Vta')
    BY <1>1, <1>2, <1>4, <1>5, <1>11, FlightPut
  <2>2. Reading(Vta', g, c)
    BY <1>1, <1>2, <1>4, <1>5, <1>11, ReadingPut
  <2> QED BY <1>7, <2>1, <2>2
<1>12. CASE DeleteOne(d)
  <2>1. Vta' \in VtaType /\ Later(Vta, Vta')
    BY <1>1, <1>2, <1>4, <1>5, <1>12, FlightDelete
  <2>2. Reading(Vta', g, c)
    BY <1>1, <1>2, <1>4, <1>5, <1>12, ReadingDelete
  <2> QED BY <1>7, <2>1, <2>2
<1>13. CASE RequestFails(d)
  <2>1. UNCHANGED vtaVars
    BY <1>13 DEF RequestFails
  <2>2. g = Failed(e)
    BY <1>2, <1>5, <1>6, <1>13 DEF RequestFails, SetEx
  <2>3. Reading(Vta, g, c)
    BY <1>4, <2>2, ReadingFailed
  <2> QED BY <1>7, <1>8, <2>1, <2>3
<1>14. CASE AnswerLost(d)
  <2>1. Vta' \in VtaType /\ Later(Vta, Vta')
    BY <1>1, <1>2, <1>4, <1>5, <1>14, FlightAnswerLost
  <2>2. g = Failed(e)
    BY <1>2, <1>5, <1>6, <1>14 DEF AnswerLost, SetEx
  <2>3. PICK u \in VtaType : u = Vta' /\ Later(Vta, u)
    BY <2>1
  <2>4. Reading(u, e, c) /\ Flight(u, e, c)
    BY <1>1, <1>4, <2>3, ReadingLater, FlightLater
  <2>5. Reading(u, g, c)
    BY <2>2, <2>4, ReadingFailed
  <2> QED BY <1>7, <2>1, <2>3, <2>5
<1> QED BY <1>9, <1>10, <1>11, <1>12, <1>13, <1>14 DEF ExchangeStep

(* A config that says of the VTA what another one says has read as much.    *)
LEMMA SameRead ==
    ASSUME NEW v, NEW c, NEW a, a.watermark = c.watermark, a.base = c.base, a.deferred = c.deferred
    PROVE  /\ ReadConfig(v, c) => ReadConfig(v, a)
           /\ \A e : Reading(v, e, c) => Reading(v, e, a)
<1>1. ASSUME NEW k PROVE Told(a, k) = Told(c, k)
  BY DEF Told, Skips
<1>2. ASSUME NEW recs, NEW k PROVE Got(a, recs, k) = Got(c, recs, k)
  BY <1>1 DEF Got, Skips
<1>3. ASSUME NEW e PROVE PulledRecs(a, e) = PulledRecs(c, e)
  BY DEF PulledRecs
<1>4. ReadConfig(v, c) => ReadConfig(v, a)
  BY <1>1 DEF ReadConfig
<1>5. ASSUME NEW e, Reading(v, e, c) PROVE Reading(v, e, a)
  BY <1>2, <1>3, <1>5 DEF Reading
<1> QED BY <1>4, <1>5

(* A launch takes in what waited, which is what the device was told.        *)
LEMMA LaunchRead ==
    ASSUME NEW v, NEW s \in ConfigType, ReadConfig(v, s), NEW recs \in Readings, recs = s.deferred,
           NEW t \in ConfigType, t.base = s.base, t.watermark = s.watermark,
           t.deferred = [k \in Keys |-> None],
           NEW mode, NEW c, c = apply_remote(t, recs, mode)
    PROVE  ReadConfig(v, c)
<1>1. c.watermark = s.watermark
  BY ApplyRemote
<1>2. ASSUME NEW k \in Keys PROVE Reads(v, k, s.watermark, Told(c, k))
  <2>1. Told(t, k) = s.base[k] /\ (\A r : Skips(t, k, r) <=> Skips(s, k, r))
    BY DEF Told, Skips
  <2>2. Got(t, recs, k) = Told(s, k)
    BY <2>1 DEF Got, Told
  <2>3. Same(Told(c, k), Got(t, recs, k))
    BY ToldApply
  <2> QED BY <2>2, <2>3, SameReads DEF ReadConfig
<1> QED BY <1>1, <1>2 DEF ReadConfig

LEMMA ReadLocal ==
    ASSUME ReadInv, HonestInv', NEW d \in Devices,
           \/ DeviceStep(d) \/ LoadTimeout(d) \/ Launch(d) \/ LaunchOffline(d) \/ Crash(d)
           \/ \E k \in Keys, x \in [Fields -> Scalars] \cup {Absent} : Edit(d, k, x)
    PROVE  ReadInv'
<1>1. /\ TypeOK /\ Ordered(Vta) /\ Vta \in VtaType
      /\ Device(Vta, phase[d], ex[d], mem[d], disk[d]) /\ ReadDevice(Vta, ex[d], mem[d], disk[d])
  BY VtaTyped DEF ReadInv, HonestInv
<1>2. PICK e \in ExType, c \in ConfigType, s \in ConfigType : e = ex[d] /\ c = mem[d] /\ s = disk[d]
  BY <1>1 DEF TypeOK
<1>3. /\ HonestConfig(Vta, c) /\ HonestConfig(Vta, s) /\ (phase[d] = "off" => e.st = "idle")
      /\ (e.st # "idle" => Flight(Vta, e, c))
  BY <1>1, <1>2 DEF Device
<1>4. ReadConfig(Vta, c) /\ ReadConfig(Vta, s) /\ (e.st # "idle" => Reading(Vta, e, c))
  BY <1>1, <1>2 DEF ReadDevice
<1>5. mem \in [Devices -> ConfigType] /\ disk \in [Devices -> ConfigType] /\ ex \in [Devices -> ExType]
  BY <1>1 DEF TypeOK
<1>6. mem = [mem EXCEPT ![d] = c] /\ disk = [disk EXCEPT ![d] = s] /\ ex = [ex EXCEPT ![d] = e]
  BY <1>2, <1>5
<1>7. ASSUME UNCHANGED vtaVars,
             NEW c1, mem' = [mem EXCEPT ![d] = c1], NEW s1, disk' = [disk EXCEPT ![d] = s1],
             NEW e1, ex' = [ex EXCEPT ![d] = e1],
             ReadConfig(Vta, c1), ReadConfig(Vta, s1), e1.st # "idle" => Reading(Vta, e1, c1)
      PROVE  ReadInv'
  <2>1. PICK u \in VtaType : u = Vta' /\ u = Vta /\ Later(Vta, u)
    <3>1. Vta' = Vta
      BY <1>7 DEF vtaVars, Vta
    <3> QED BY <1>1, <3>1, LaterSelf
  <2>2. /\ ex'[d] = e1 /\ mem'[d] = c1 /\ disk'[d] = s1
        /\ \A x \in Devices \ {d} : ex'[x] = ex[x] /\ mem'[x] = mem[x] /\ disk'[x] = disk[x]
    BY <1>5, <1>7
  <2>3. ReadDevice(u, ex'[d], mem'[d], disk'[d])
    BY <1>7, <2>1, <2>2 DEF ReadDevice
  <2> QED BY <2>1, <2>2, <2>3, ReadFrame
<1>8. ASSUME NEW k \in Keys, NEW x \in [Fields -> Scalars] \cup {Absent}, Edit(d, k, x) PROVE ReadInv'
  <2>1. PICK c1 : c1 = [c EXCEPT !.local[k] = x]
    OBVIOUS
  <2>2. c1.base = c.base /\ c1.watermark = c.watermark /\ c1.deferred = c.deferred
    BY <2>1 DEF ConfigType
  <2>3. ReadConfig(Vta, c1) /\ (e.st # "idle" => Reading(Vta, e, c1))
    BY <1>4, <2>2, SameRead
  <2>4. UNCHANGED vtaVars /\ mem' = [mem EXCEPT ![d] = c1] /\ disk' = disk /\ ex' = ex
    BY <1>2, <1>8, <2>1 DEF Edit, SetMem
  <2> QED BY <1>4, <1>6, <1>7, <2>3, <2>4
<1>9. CASE Save(d)
  <2>1. UNCHANGED vtaVars /\ mem' = mem /\ disk' = [disk EXCEPT ![d] = c] /\ ex' = ex
    BY <1>2, <1>9 DEF Save
  <2> QED BY <1>4, <1>6, <1>7, <2>1
<1>10. CASE StartSync(d)
  <2>1. PICK g : g = PlanEx(c)
    OBVIOUS
  <2>2. Reading(Vta, g, c)
    BY <1>4, <2>1, ReadingPlanned
  <2>3. UNCHANGED vtaVars /\ mem' = mem /\ disk' = disk /\ ex' = [ex EXCEPT ![d] = g]
    BY <1>2, <1>10, <2>1 DEF StartSync, SetEx
  <2> QED BY <1>4, <1>6, <1>7, <2>2, <2>3
<1>11. CASE AbsorbLive(d)
  <2>1. PICK z : z = absorb(c, e, "Live")
    OBVIOUS
  <2>2. /\ UNCHANGED vtaVars /\ mem' = [mem EXCEPT ![d] = z] /\ disk' = disk
        /\ ex' = [ex EXCEPT ![d] = IdleEx] /\ e.st = "done"
    BY <1>2, <1>11, <2>1 DEF AbsorbLive, SetMem, SetEx
  <2>3. ReadConfig(Vta, z)
    BY <1>1, <1>3, <1>4, <2>1, <2>2, AbsorbRead
  <2> QED BY <1>4, <1>6, <1>7, <2>2, <2>3, IdleTyped
<1>12. CASE AbsorbLoad(d)
  <2>1. PICK z : z = absorb(c, e, "Load")
    OBVIOUS
  <2>2. PICK again : again = (~e.err /\ LostRace(e) /\ round[d] > 1)
    OBVIOUS
  <2>3. PICK g : g = IF again THEN PlanEx(z) ELSE IdleEx
    OBVIOUS
  <2>4. UNCHANGED vtaVars /\ disk' = disk /\ e.st = "done"
    BY <1>2, <1>12 DEF AbsorbLoad
  <2>5. mem' = [mem EXCEPT ![d] = z]
    BY <1>2, <1>12, <2>1 DEF AbsorbLoad, SetMem
  <2>6. ex' = [ex EXCEPT ![d] = g]
    BY <1>2, <1>12, <2>1, <2>2, <2>3 DEF AbsorbLoad, SetEx
  <2>7. ReadConfig(Vta, z) /\ z \in ConfigType
    BY <1>1, <1>3, <1>4, <2>1, <2>4, AbsorbRead, AbsorbHonest
  <2>8. g.st # "idle" => Reading(Vta, g, z)
    BY <2>3, <2>7, IdleTyped, ReadingPlanned
  <2> QED BY <1>4, <1>6, <1>7, <2>4, <2>5, <2>6, <2>7, <2>8
<1>13. CASE LoadTimeout(d)
  <2>1. UNCHANGED vtaVars /\ mem' = mem /\ disk' = disk /\ ex' = [ex EXCEPT ![d] = IdleEx]
    BY <1>13 DEF LoadTimeout, SetEx
  <2> QED BY <1>4, <1>6, <1>7, <2>1, IdleTyped
<1>14. CASE Launch(d)
  <2>1. PICK t : t = [s EXCEPT !.deferred = [k \in Keys |-> None]]
    OBVIOUS
  <2>2. PICK c1 : c1 = apply_remote(t, s.deferred, "Load")
    OBVIOUS
  <2>3. PICK g : g = PlanEx(c1)
    OBVIOUS
  <2>4. UNCHANGED vtaVars /\ mem' = [mem EXCEPT ![d] = c1] /\ disk' = disk /\ ex' = [ex EXCEPT ![d] = g]
    BY <1>2, <1>14, <2>1, <2>2, <2>3 DEF Launch, SetMem, SetEx
  <2>5. ReadConfig(Vta, c1) /\ c1 \in ConfigType
    <3>1. /\ t \in ConfigType /\ t.base = s.base /\ t.watermark = s.watermark
          /\ t.deferred = [k \in Keys |-> None] /\ c1 \in ConfigType
      BY <1>1, <1>3, <2>1, <2>2, LaunchHonest
    <3>2. PICK recs \in Readings : recs = s.deferred
      BY DEF ConfigType, Readings
    <3>3. c1 = apply_remote(t, recs, "Load")
      BY <2>2, <3>2
    <3> QED BY <1>4, <3>1, <3>2, <3>3, LaunchRead
  <2>6. Reading(Vta, g, c1)
    BY <2>3, <2>5, ReadingPlanned
  <2> QED BY <1>4, <1>6, <1>7, <2>4, <2>5, <2>6
<1>15. CASE LaunchOffline(d)
  <2>1. UNCHANGED vtaVars /\ mem' = [mem EXCEPT ![d] = s] /\ disk' = disk /\ ex' = ex /\ e.st = "idle"
    BY <1>2, <1>3, <1>15 DEF LaunchOffline, SetMem
  <2> QED BY <1>4, <1>6, <1>7, <2>1
<1>16. CASE Crash(d)
  <2>1. UNCHANGED vtaVars /\ mem' = mem /\ disk' = disk /\ ex' = [ex EXCEPT ![d] = IdleEx]
    BY <1>16 DEF Crash, SetEx
  <2> QED BY <1>4, <1>6, <1>7, <2>1, IdleTyped
<1> QED BY <1>8, <1>9, <1>10, <1>11, <1>12, <1>13, <1>14, <1>15, <1>16 DEF DeviceStep

LEMMA ReadInit == Init => ReadInv
<1> SUFFICES ASSUME Init PROVE ReadInv
  OBVIOUS
<1>1. ASSUME NEW d \in Devices PROVE ReadDevice(Vta, ex[d], mem[d], disk[d])
  <2>1. ex[d] = IdleEx /\ mem[d] = NewConfig /\ disk[d] = NewConfig
    BY DEF Init
  <2>2. ASSUME NEW k \in Keys PROVE Reads(Vta, k, NewConfig.watermark, Told(NewConfig, k))
    <3>1. Told(NewConfig, k) = NoBase
      BY DEF Told, NewConfig
    <3>2. Vta.store[k].val = Absent
      BY DEF Init, Vta, NoRec
    <3> QED BY <3>1, <3>2 DEF Reads, UpTo, Says, NoBase
  <2> QED BY <2>1, <2>2, IdleTyped DEF ReadDevice, ReadConfig
<1> QED BY <1>1, HonestInit DEF ReadInv

LEMMA ReadStep == ReadInv /\ [Next]_vars /\ SnapshotsMeetBases' => ReadInv'
<1> SUFFICES ASSUME ReadInv, [Next]_vars, SnapshotsMeetBases' PROVE ReadInv'
  OBVIOUS
<1>1. TypeOK /\ Ordered(Vta) /\ Vta \in VtaType /\ HonestInv'
  BY VtaTyped, HonestStep DEF ReadInv, HonestInv
<1>2. ASSUME Vta' \in VtaType, Later(Vta, Vta'), ex' = ex, mem' = mem, disk' = disk PROVE ReadInv'
  <2>1. PICK u \in VtaType : u = Vta' /\ Later(Vta, u)
    BY <1>2
  <2> QED BY <1>1, <1>2, <2>1, ReadVta
<1>3. CASE Reap
  <2>1. ex' = ex /\ mem' = mem /\ disk' = disk
    BY <1>3 DEF Reap, devVars
  <2> QED BY <1>1, <1>2, <1>3, <2>1, ReapLater
<1>4. ASSUME NEW k \in Keys, NewerBuildWrites(k) PROVE ReadInv'
  <2>1. Vta' \in VtaType /\ Later(Vta, Vta')
    BY <1>1, <1>4, OneLater DEF NewerBuildWrites, StoredVals
  <2>2. ex' = ex /\ mem' = mem /\ disk' = disk
    BY <1>4 DEF NewerBuildWrites, devVars
  <2> QED BY <1>2, <2>1, <2>2
<1>5. CASE UNCHANGED vars
  <2>1. Vta' = Vta /\ ex' = ex /\ mem' = mem /\ disk' = disk
    BY <1>5 DEF vars, Vta
  <2> QED BY <1>1, <1>2, <2>1, LaterSelf
<1>6. ASSUME NEW d \in Devices,
             \/ ExchangeStep(d) \/ RequestFails(d) \/ AnswerLost(d) \/ DeviceStep(d)
             \/ \E k \in Keys, x \in [Fields -> Scalars] \cup {Absent} : Edit(d, k, x)
             \/ LoadTimeout(d) \/ Launch(d) \/ LaunchOffline(d) \/ Crash(d)
      PROVE  ReadInv'
  BY <1>1, <1>6, ReadExchange, ReadLocal, Zenon
<1> QED BY <1>3, <1>4, <1>5, <1>6, Zenon DEF Next

LEMMA ReadAlways == Spec /\ []SnapshotsMeetBases => []ReadInv
  BY ReadInit, ReadStep, PTL DEF Spec

(* What the VTA had written when its counter stood at the watermark is what *)
(* the device was told, which is its base unless something waits.           *)
LEMMA ReadBase ==
    ASSUME TypeOK, NEW c \in ConfigType, HonestConfig(Vta, c), ReadConfig(Vta, c), NEW k \in KnownKeys,
           c.deferred[k] = None, Known(Vta, k, c.watermark)
    PROVE  Says(Vta, k, c.base[k])
<1>1. Told(c, k) = c.base[k]
  BY DEF Told
<1> QED BY <1>1 DEF ReadConfig, Reads, UpTo, KnownKeys

(* The watermark promise, for any number of devices and records: whatever   *)
(* the VTA wrote up to a device's watermark, of the kinds its build knows,  *)
(* is in its base, waits for its next launch, or was deleted, however the   *)
(* pages of the feed, the answers of the pushes and the crashes fall:       *)
(* NothingSkipped.                                                          *)
THEOREM NothingSkippedAlways == Spec /\ []SnapshotsMeetBases => []NothingSkipped
<1>1. ASSUME ReadInv PROVE NothingSkipped
  <2> SUFFICES ASSUME NEW d \in Devices, NEW k \in KnownKeys, NEW c \in {mem[d], disk[d]},
                      store[k].ver <= c.watermark, c.deferred[k] = None
               PROVE  c.base[k].ver >= store[k].ver \/ (store[k].val = Absent /\ c.base[k].ver = 0)
    BY DEF NothingSkipped, Caught
  <2>1. TypeOK
    BY <1>1 DEF ReadInv, HonestInv
  <2>2. c \in ConfigType /\ HonestConfig(Vta, c) /\ ReadConfig(Vta, c)
    BY <1>1, <2>1 DEF ReadInv, HonestInv, Device, ReadDevice, TypeOK
  <2>3. c.base[k].ver \in Nat /\ store[k].ver \in Nat /\ (c.base[k].ver = 0 <=> c.base[k].val = Absent)
        /\ Vta.store = store
    BY <2>1, <2>2 DEF TypeOK, ConfigType, RecType, HonestConfig, Vta, KnownKeys
  <2>4. CASE store[k].ver = 0
    BY <2>3, <2>4
  <2>5. CASE store[k].ver # 0
    <3>1. Says(Vta, k, c.base[k])
      BY <2>1, <2>2, <2>3, <2>5, ReadBase DEF Known
    <3> QED BY <2>3, <3>1 DEF Says
  <2> QED BY <2>4, <2>5
<1> QED BY <1>1, ReadAlways, PTL

(* Every device that is at rest, having read everything and with nothing to *)
(* send, holds exactly what the VTA holds of the kinds its build knows, and *)
(* so what every other one that is at rest holds of them: AtRestAgrees.     *)
THEOREM AtRestAgreesAlways == Spec /\ []SnapshotsMeetBases => []AtRestAgrees
<1>1. ASSUME ReadInv PROVE AtRestAgrees
  <2> SUFFICES ASSUME NEW d \in Devices, AtRest(d), NEW k \in KnownKeys
               PROVE  mem[d].local[k] = store[k].val
    BY DEF AtRestAgrees
  <2>0. k \in Keys
    BY DEF KnownKeys
  <2>1. TypeOK /\ Ordered(Vta)
    BY <1>1 DEF ReadInv, HonestInv
  <2>2. PICK c \in ConfigType : c = mem[d] /\ HonestConfig(Vta, c) /\ ReadConfig(Vta, c)
    BY <1>1, <2>1 DEF ReadInv, HonestInv, Device, ReadDevice, TypeOK
  <2>3. /\ c.watermark = counter /\ c.deferred[k] = None /\ ~Refused(c, k)
        /\ k \notin OutPuts(c) /\ k \notin OutDeletes(c)
    BY <2>0, <2>2 DEF AtRest
  <2>4. Known(Vta, k, c.watermark)
    BY <2>0, <2>1, <2>3 DEF Known, Ordered, Vta
  <2>5. store[k].val = c.base[k].val
    BY <2>1, <2>2, <2>3, <2>4, ReadBase DEF Says, Vta
  <2>6. c.base[k].ver = 0 <=> c.base[k].val = Absent
    BY <2>0, <2>2 DEF HonestConfig
  <2>7. CASE c.local[k] = Absent
    BY <2>0, <2>2, <2>3, <2>5, <2>6, <2>7 DEF OutDeletes
  <2>8. CASE c.local[k] # Absent
    BY <2>0, <2>2, <2>3, <2>5, <2>8 DEF OutPuts, Refused
  <2> QED BY <2>7, <2>8
<1> QED BY <1>1, ReadAlways, PTL
=============================================================================
