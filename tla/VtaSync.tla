------------------------------ MODULE VtaSync ------------------------------
(***************************************************************************)
(* Synchronisation of the account state of several devices through the     *)
(* VTA's application-state store (openvtc-core vta_sync).  Each device      *)
(* keeps its records locally with, per record, the version and value it    *)
(* last agreed on with the VTA (base), changes that must wait for the next *)
(* launch (deferred), and a change-feed watermark.  An exchange pulls the  *)
(* feed page by page, pushes conditional writes and deletes, and is        *)
(* absorbed by the event loop, which went on editing in the meantime.      *)
(* Requests may fail before or after the VTA acted on them, devices crash  *)
(* and restart from their last save, and the VTA reaps tombstones.         *)
(***************************************************************************)
EXTENDS Merge3, Integers, FiniteSets

CONSTANTS Devices,
          NumKeys,      \* records are numbered 1 .. NumKeys
          LiveKeys,     \* those whose kind applies to a running session
          PersonaKeys,  \* those that are personas
          NewKinds,     \* those of a kind only newer builds know
          Persona,      \* membership key -> the key of its persona, or 0
          Alien,        \* a value written in a newer format, or malformed
          Big,          \* values over the VTA's size limit
          None,
          Budgets       \* bounds: how often what may happen, one choice per behaviour

Keys == 1..NumKeys
KnownKeys == Keys \ NewKinds
LoadRounds == 3     \* LOAD_ROUNDS
Bounded == {"edits", "saves", "faults", "crashes", "reaps", "newer"}

ASSUME SyncAssumption ==
    /\ NumKeys \in Nat /\ LiveKeys \subseteq Keys /\ PersonaKeys \subseteq Keys
    /\ NewKinds \subseteq Keys \ (LiveKeys \cup PersonaKeys)
    /\ Persona \in [Keys -> PersonaKeys \cup {0}] /\ Big \subseteq Objects
    /\ Alien \notin Records /\ None \notin Records
    /\ Budgets \subseteq [Bounded -> Nat]

VARIABLES
    store,      \* VTA: key -> [ver, val, by]; val Absent = tombstone, ver 0 = no record
    counter,    \* VTA: version of the latest write
    reaped,     \* VTA: tombstones up to this version are gone
    mem,        \* device -> its Config in memory (ConfigType)
    disk,       \* device -> its Config as last saved
    phase,      \* device -> "off", "loading", "running"
    ex,         \* device -> the exchange in flight
    round,      \* device -> rounds left of sync_at_load
    report,     \* device -> <<key, path>> conflicts of the latest absorb
    left        \* what is left of the budget

vars == <<store, counter, reaped, mem, disk, phase, ex, round, report, left>>

NoRec == [ver |-> 0, val |-> Absent]
NoBase == [ver |-> 0, val |-> Absent]

StoredVals == Records \cup {Alien}
RecType == [ver : Nat, val : StoredVals]
ConfigType == [local : [Keys -> Records],
               base : [Keys -> [ver : Nat, val : Records]],
               deferred : [Keys -> RecType \cup {None}],
               rejected : [Keys -> Records],
               watermark : Nat]

(* What the VTA answers to one write of a batch. *)
WriteType == [out : {"written", "conflict", "tooLarge"}, cur : RecType]

(* Option::None is no value of the type it is the absence of. *)
ASSUME NoneIsNothingElse == None \notin Nat \cup RecType \cup WriteType

NewConfig == [local |-> [k \in Keys |-> Absent], base |-> [k \in Keys |-> NoBase],
              deferred |-> [k \in Keys |-> None], rejected |-> [k \in Keys |-> Absent],
              watermark |-> 0]

Spend(what) == left[what] > 0 /\ left' = [left EXCEPT ![what] = @ - 1]

-----------------------------------------------------------------------------
(* A variant that only pushes what was synced before. *)
OutPuts_KnownOnly(c) ==
    {k \in Keys : /\ c.local[k] # Absent /\ c.deferred[k] = None
                  /\ c.base[k].ver # 0 /\ c.base[k].val # c.local[k]
                  /\ c.rejected[k] # c.local[k]}

(* outgoing: what no longer matches its base, each with the base's version. *)
OutPuts(c) ==
    {k \in Keys : /\ c.local[k] # Absent /\ c.deferred[k] = None
                  /\ ~(c.base[k].ver # 0 /\ c.base[k].val = c.local[k])
                  /\ c.rejected[k] # c.local[k]}

OutDeletes(c) ==
    {k \in Keys : c.local[k] = Absent /\ c.deferred[k] = None /\ c.base[k].ver # 0}

(* An exchange as planned on the loop; results are filled in as it runs. *)
IdleEx == [st |-> "idle", since |-> 0, cur |-> 0, wm |-> None, snap |-> FALSE,
           pulled |-> [k \in Keys |-> None], seen |-> {},
           puts |-> [k \in Keys |-> Absent], dels |-> {},
           expect |-> [k \in Keys |-> 0], wrote |-> [k \in Keys |-> None],
           gone |-> {}, kept |-> {}, err |-> FALSE]

PlanEx(c) ==
    [IdleEx EXCEPT !.st = "pull", !.since = c.watermark, !.cur = c.watermark,
        !.puts = [k \in Keys |-> IF k \in OutPuts(c) THEN c.local[k] ELSE Absent],
        !.dels = OutDeletes(c),
        !.expect = [k \in Keys |-> c.base[k].ver]]

(* Where the push goes on: the puts in one batch, then the deletes. *)
PushFrom(e) ==
    IF e.dels = {} THEN "done" ELSE "delete"
PullDone(e) ==
    IF \E k \in Keys : e.puts[k] # Absent THEN "put" ELSE PushFrom(e)

-----------------------------------------------------------------------------
(* apply_remote for one record rec of key k, in Load or Live mode. *)
AppliesLive(c, k, val) ==
    /\ k \in LiveKeys
    /\ (Persona[k] # 0 /\ val # Absent) => c.local[Persona[k]] # Absent

(* A record of a kind this build does not know is left at the VTA.          *)
Skips(c, k, rec) ==
    \/ c.base[k].ver # 0 /\ rec.ver <= c.base[k].ver
    \/ k \in NewKinds
Defers(c, k, rec, mode) ==
    rec.val = Alien \/ (mode = "Live" /\ ~AppliesLive(c, k, rec.val))
Merges(c, k, rec, mode) == rec # None /\ ~Skips(c, k, rec) /\ ~Defers(c, k, rec, mode)

(* A variant that notes the version of what it could not take in, and lets  *)
(* the record itself go.                                                    *)
apply_remote_NotHeld(c, recs, mode) ==
    LET merging == {k \in Keys : Merges(c, k, recs[k], mode)}
        deferring == {k \in Keys \ merging : recs[k] # None /\ ~Skips(c, k, recs[k])}
    IN [c EXCEPT
        !.local = [k \in Keys |-> IF k \in merging
                     THEN merge3(c.base[k].val, @[k], recs[k].val) ELSE @[k]],
        !.base = [k \in Keys |-> IF k \in deferring THEN [ver |-> recs[k].ver, val |-> @[k].val]
                     ELSE IF k \notin merging THEN @[k]
                     ELSE IF recs[k].val = Absent THEN NoBase
                     ELSE [ver |-> recs[k].ver, val |-> recs[k].val]]]

apply_remote(c, recs, mode) ==
    LET merging == {k \in Keys : Merges(c, k, recs[k], mode)}
        deferring == {k \in Keys \ merging : recs[k] # None /\ ~Skips(c, k, recs[k])}
    IN [c EXCEPT
        !.local = [k \in Keys |-> IF k \in merging
                     THEN merge3(c.base[k].val, @[k], recs[k].val) ELSE @[k]],
        !.base = [k \in Keys |-> IF k \notin merging THEN @[k]
                     ELSE IF recs[k].val = Absent THEN NoBase
                     ELSE [ver |-> recs[k].ver, val |-> recs[k].val]],
        !.deferred = [k \in Keys |-> IF k \in merging THEN None
                     ELSE IF k \in deferring THEN recs[k] ELSE @[k]]]

(* The conflicts apply_remote reports. *)
ApplyConflicts(c, recs, mode) ==
    UNION {{k} \X conflicts3(c.base[k].val, c.local[k], recs[k].val) :
              k \in {i \in Keys : Merges(c, i, recs[i], mode)}}

(* A variant that infers nothing from a snapshot. *)
PulledRecs_FeedOnly(c, e) == e.pulled

(* absorb, first part: the pulled feed; a snapshot also says what is gone.  *)
PulledRecs(c, e) ==
    [k \in Keys |->
        IF e.snap /\ e.wm # None /\ c.base[k].ver # 0 /\ k \notin e.seen
        THEN [ver |-> e.wm, val |-> Absent]
        ELSE e.pulled[k]]

AbsorbPull(c, e, mode) ==
    [apply_remote(c, PulledRecs(c, e), mode)
        EXCEPT !.watermark = IF e.wm # None THEN e.wm ELSE @]

(* second part: what became of the puts ... *)
Written(e) == {k \in Keys : e.wrote[k] # None /\ e.wrote[k].out = "written"}
Lost(e) == {k \in Keys : e.wrote[k] # None /\ e.wrote[k].out = "conflict"}
TooLarge(e) == {k \in Keys : e.wrote[k] # None /\ e.wrote[k].out = "tooLarge"}
RacedRecs(e) == [k \in Keys |-> IF k \in Lost(e) THEN e.wrote[k].cur ELSE None]

(* A variant that takes the current local value as agreed. *)
AbsorbPuts_Current(c, e) ==
    [c EXCEPT
        !.base = [k \in Keys |-> IF k \in Written(e)
                    THEN [ver |-> e.wrote[k].cur.ver, val |-> c.local[k]] ELSE @[k]],
        !.rejected = [k \in Keys |-> IF k \in Written(e) THEN Absent
                    ELSE IF k \in TooLarge(e) THEN e.puts[k] ELSE @[k]]]

AbsorbPuts(c, e) ==
    [c EXCEPT
        !.base = [k \in Keys |-> IF k \in Written(e)
                    THEN [ver |-> e.wrote[k].cur.ver, val |-> e.puts[k]] ELSE @[k]],
        !.rejected = [k \in Keys |-> IF k \in Written(e) THEN Absent
                    ELSE IF k \in TooLarge(e) THEN e.puts[k] ELSE @[k]]]

(* ... the winners of lost races, then the deletes. *)
AbsorbDeletes(c, e) ==
    [c EXCEPT !.base = [k \in Keys |-> IF k \in e.gone THEN NoBase ELSE @[k]]]

absorb(c, e, mode) ==
    AbsorbDeletes(
        apply_remote(AbsorbPuts(AbsorbPull(c, e, mode), e), RacedRecs(e), mode), e)

LostRace(e) == Lost(e) # {} \/ e.kept # {}

AbsorbConflicts(c, e, mode) ==
    ApplyConflicts(c, PulledRecs(c, e), mode)
    \cup ApplyConflicts(AbsorbPuts(AbsorbPull(c, e, mode), e), RacedRecs(e), mode)

-----------------------------------------------------------------------------
Init ==
    /\ store = [k \in Keys |-> NoRec] /\ counter = 0 /\ reaped = 0
    /\ mem = [d \in Devices |-> NewConfig] /\ disk = [d \in Devices |-> NewConfig]
    /\ phase = [d \in Devices |-> "off"]
    /\ ex = [d \in Devices |-> IdleEx] /\ round = [d \in Devices |-> 0]
    /\ report = [d \in Devices |-> {}]
    /\ left \in Budgets

vtaVars == <<store, counter, reaped>>
devVars == <<mem, disk, phase, round, report>>

SetEx(d, e) == ex' = [ex EXCEPT ![d] = e]

(* One page of the change feed: the next record in version order.  A        *)
(* watermark older than the reaped tombstones restarts as a snapshot.       *)
Above(cur) == {k \in Keys : store[k].ver > cur}
First(set) == CHOOSE k \in set : \A j \in set : store[k].ver <= store[j].ver

(* A variant that adopts the watermark of the last page. *)
FirstWatermark_Last(e) == counter

(* The counter as of the first page. *)
FirstWatermark(e) == IF e.wm = None THEN counter ELSE e.wm

FeedPage(e) ==
    IF Above(e.cur) = {}
    THEN [e EXCEPT !.wm = FirstWatermark(e), !.st = PullDone(e)]
    ELSE LET k == First(Above(e.cur)) IN
         [e EXCEPT !.wm = FirstWatermark(e), !.pulled[k] = store[k],
                   !.cur = store[k].ver,
                   !.st = IF Above(store[k].ver) = {} THEN PullDone(e) ELSE "pull"]

PullPage(d) ==
    /\ ex[d].st = "pull"
    /\ SetEx(d, IF ex[d].since < reaped
                THEN [ex[d] EXCEPT !.st = "snap", !.cur = 0, !.wm = None,
                                   !.pulled = [k \in Keys |-> None]]
                ELSE FeedPage(ex[d]))
    /\ UNCHANGED <<vtaVars, devVars, left>>

(* One page of a snapshot of the live records, in key order. *)
LiveAfter(cur) == {k \in Keys : k > cur /\ store[k].val # Absent}

SnapPage(d) ==
    /\ ex[d].st = "snap"
    /\ LET e == ex[d]
           rest == LiveAfter(e.cur)
           k == CHOOSE i \in rest : \A j \in rest : i <= j
           last == Cardinality(rest) <= 1
           got == IF rest = {} THEN e
                  ELSE [e EXCEPT !.pulled[k] = store[k], !.cur = k, !.seen = @ \cup {k}]
       IN SetEx(d, [got EXCEPT !.wm = FirstWatermark(e), !.snap = last,
                               !.st = IF last THEN PullDone(e) ELSE "snap"])
    /\ UNCHANGED <<vtaVars, devVars, left>>

(* put_many: each write on its own merits, versions in order. *)
LiveVersion(k) == IF store[k].val = Absent THEN 0 ELSE store[k].ver
Puts(e) == {k \in Keys : e.puts[k] # Absent}
Accepted(e) == {k \in Puts(e) : e.expect[k] = LiveVersion(k) /\ e.puts[k] \notin Big}
NewVer(e, k) == counter + Cardinality({j \in Accepted(e) : j <= k})
PutRec(e, k) == [ver |-> NewVer(e, k), val |-> e.puts[k]]

PutResult(e, k) ==
    IF k \notin Puts(e) THEN None
    ELSE IF k \in Accepted(e) THEN [out |-> "written", cur |-> PutRec(e, k)]
    ELSE IF e.expect[k] # LiveVersion(k) THEN [out |-> "conflict", cur |-> store[k]]
    ELSE [out |-> "tooLarge", cur |-> NoRec]

StorePuts(e) ==
    /\ store' = [k \in Keys |-> IF k \in Accepted(e) THEN PutRec(e, k) ELSE store[k]]
    /\ counter' = counter + Cardinality(Accepted(e))

PutMany(d) ==
    /\ ex[d].st = "put"
    /\ StorePuts(ex[d])
    /\ SetEx(d, [ex[d] EXCEPT !.wrote = [k \in Keys |-> PutResult(ex[d], k)],
                              !.st = PushFrom(ex[d])])
    /\ UNCHANGED <<reaped, devVars, left>>

(* The deletes, one request each, in key order. *)
NextDelete(e) == CHOOSE k \in e.dels : \A j \in e.dels : k <= j

StoreDelete(d, k, expected) ==
    IF store[k].val # Absent /\ store[k].ver = expected
    THEN /\ store' = [store EXCEPT ![k] = [ver |-> counter + 1, val |-> Absent]]
         /\ counter' = counter + 1
    ELSE UNCHANGED <<store, counter>>

DeleteOne(d) ==
    /\ ex[d].st = "delete"
    /\ LET e == ex[d]
           k == NextDelete(e)
           edited == store[k].val # Absent /\ store[k].ver # e.expect[k]
           rest == [e EXCEPT !.dels = @ \ {k}]
       IN /\ StoreDelete(d, k, e.expect[k])
          /\ SetEx(d, [rest EXCEPT !.gone = IF edited THEN @ ELSE @ \cup {k},
                                   !.kept = IF edited THEN @ \cup {k} ELSE @,
                                   !.st = PushFrom(rest)])
    /\ UNCHANGED <<reaped, devVars, left>>

(* A request fails before it reaches the VTA, or its answer is lost.  What  *)
(* was pulled without the feed's end carries no watermark.                  *)
Failed(e) == [e EXCEPT !.st = "done", !.err = TRUE,
                       !.wm = IF e.st \in {"pull", "snap"} THEN None ELSE @]

RequestFails(d) ==
    /\ ex[d].st \in {"pull", "snap", "put", "delete"}
    /\ Spend("faults")
    /\ SetEx(d, Failed(ex[d]))
    /\ UNCHANGED <<vtaVars, devVars>>

AnswerLost(d) ==
    /\ ex[d].st \in {"put", "delete"}
    /\ Spend("faults")
    /\ IF ex[d].st = "put" THEN StorePuts(ex[d])
       ELSE LET k == NextDelete(ex[d]) IN StoreDelete(d, k, ex[d].expect[k])
    /\ SetEx(d, Failed(ex[d]))
    /\ UNCHANGED <<reaped, devVars>>

-----------------------------------------------------------------------------
(* The device. *)
SetMem(d, c) == mem' = [mem EXCEPT ![d] = c]

(* The user changes, creates or deletes one record, one field at a time. *)
Edit(d, k, v) ==
    /\ phase[d] = "running" /\ k \in KnownKeys
    /\ v # mem[d].local[k]
    /\ (v # Absent /\ mem[d].local[k] # Absent)
          => Cardinality({f \in Fields : v[f] # mem[d].local[k][f]}) = 1
    /\ Spend("edits")
    /\ SetMem(d, [mem[d] EXCEPT !.local[k] = v])
    /\ UNCHANGED <<vtaVars, disk, phase, ex, round, report>>

(* A coalesced save of the whole config. *)
Save(d) ==
    /\ phase[d] = "running" /\ disk[d] # mem[d]
    /\ Spend("saves")
    /\ disk' = [disk EXCEPT ![d] = mem[d]]
    /\ UNCHANGED <<vtaVars, mem, phase, ex, round, report>>

(* The sync tick: the plan is taken on the loop, the exchange is spawned. *)
StartSync(d) ==
    /\ phase[d] = "running" /\ ex[d].st = "idle"
    /\ SetEx(d, PlanEx(mem[d]))
    /\ report' = [report EXCEPT ![d] = {}]
    /\ UNCHANGED <<vtaVars, mem, disk, phase, round, left>>

(* The exchange comes back to the running loop ... *)
AbsorbLive(d) ==
    /\ phase[d] = "running" /\ ex[d].st = "done"
    /\ SetMem(d, absorb(mem[d], ex[d], "Live"))
    /\ report' = [report EXCEPT ![d] = AbsorbConflicts(mem[d], ex[d], "Live")]
    /\ SetEx(d, IdleEx)
    /\ UNCHANGED <<vtaVars, disk, phase, round, left>>

(* ... or to sync_at_load, which goes on while it lost a race. *)
AbsorbLoad(d) ==
    /\ phase[d] = "loading" /\ ex[d].st = "done"
    /\ LET c == absorb(mem[d], ex[d], "Load")
           again == ~ex[d].err /\ LostRace(ex[d]) /\ round[d] > 1
       IN /\ SetMem(d, c)
          /\ SetEx(d, IF again THEN PlanEx(c) ELSE IdleEx)
          /\ phase' = [phase EXCEPT ![d] = IF again THEN "loading" ELSE "running"]
          /\ round' = [round EXCEPT ![d] = IF again THEN @ - 1 ELSE 0]
    /\ report' = [report EXCEPT ![d] = @ \cup AbsorbConflicts(mem[d], ex[d], "Load")]
    /\ UNCHANGED <<vtaVars, disk, left>>

(* LOAD_SYNC_BUDGET runs out: the exchange is dropped where it is, and the  *)
(* report so far is replaced by one that only says so.                      *)
LoadTimeout(d) ==
    /\ phase[d] = "loading" /\ ex[d].st # "idle"
    /\ Spend("faults")
    /\ phase' = [phase EXCEPT ![d] = "running"]
    /\ round' = [round EXCEPT ![d] = 0]
    /\ SetEx(d, IdleEx)
    /\ report' = [report EXCEPT ![d] = {}]
    /\ UNCHANGED <<vtaVars, mem, disk>>

Launch(d) ==
    /\ phase[d] = "off"
    /\ LET taken == [disk[d] EXCEPT !.deferred = [k \in Keys |-> None]]
           waiting == disk[d].deferred
           c == apply_remote(taken, waiting, "Load")
       IN /\ SetMem(d, c)
          /\ SetEx(d, PlanEx(c))
          /\ report' = [report EXCEPT ![d] = ApplyConflicts(taken, waiting, "Load")]
    /\ phase' = [phase EXCEPT ![d] = "loading"]
    /\ round' = [round EXCEPT ![d] = LoadRounds]
    /\ UNCHANGED <<vtaVars, disk, left>>

(* A launch that cannot reach the VTA fails, except for an account without  *)
(* personas, which loads and syncs nothing.                                 *)
LaunchOffline(d) ==
    /\ phase[d] = "off"
    /\ \A k \in PersonaKeys : disk[d].local[k] = Absent
    /\ SetMem(d, disk[d])
    /\ phase' = [phase EXCEPT ![d] = "running"]
    /\ report' = [report EXCEPT ![d] = {}]
    /\ UNCHANGED <<vtaVars, disk, ex, round, left>>

(* The process ends, by a crash or an exit: the exchange is abandoned. *)
Crash(d) ==
    /\ phase[d] # "off"
    /\ Spend("crashes")
    /\ phase' = [phase EXCEPT ![d] = "off"]
    /\ round' = [round EXCEPT ![d] = 0]
    /\ SetEx(d, IdleEx)
    /\ UNCHANGED <<vtaVars, mem, disk, report>>

-----------------------------------------------------------------------------
(* The VTA drops its tombstones. *)
Reap ==
    /\ reaped < counter /\ Spend("reaps")
    /\ store' = [k \in Keys |-> IF store[k].val = Absent THEN NoRec ELSE store[k]]
    /\ reaped' = counter
    /\ UNCHANGED <<counter, ex, devVars>>

(* A device with a newer build writes a record this build cannot read, for  *)
(* its format or for its kind.                                              *)
NewerBuildWrites(k) ==
    /\ Spend("newer")
    /\ store' = [store EXCEPT ![k] = [ver |-> counter + 1, val |-> Alien]]
    /\ counter' = counter + 1
    /\ UNCHANGED <<reaped, ex, devVars>>

ExchangeStep(d) == PullPage(d) \/ SnapPage(d) \/ PutMany(d) \/ DeleteOne(d)
DeviceStep(d) == StartSync(d) \/ AbsorbLive(d) \/ AbsorbLoad(d) \/ Save(d)

Next ==
    \/ \E d \in Devices :
         \/ ExchangeStep(d) \/ RequestFails(d) \/ AnswerLost(d)
         \/ DeviceStep(d)
         \/ \E k \in Keys, v \in [Fields -> Scalars] \cup {Absent} : Edit(d, k, v)
         \/ LoadTimeout(d) \/ Launch(d) \/ LaunchOffline(d) \/ Crash(d)
    \/ Reap
    \/ \E k \in Keys : NewerBuildWrites(k)

Spec == Init /\ [][Next]_vars

(* The exchange task runs, its result wakes the loop or the load that waits *)
(* for it, and the 60 s pull timer starts cycles (failures are transient).  *)
Fairness ==
    \A d \in Devices :
        /\ WF_vars(ExchangeStep(d)) /\ WF_vars(StartSync(d))
        /\ WF_vars(AbsorbLive(d)) /\ WF_vars(AbsorbLoad(d))
FairSpec == Spec /\ Fairness

-----------------------------------------------------------------------------
ExType ==
    [st : {"idle", "pull", "snap", "put", "delete", "done"},
     since : Nat, cur : Nat, wm : Nat \cup {None}, snap : BOOLEAN,
     pulled : [Keys -> RecType \cup {None}], seen : SUBSET Keys,
     puts : [Keys -> Records], dels : SUBSET Keys, expect : [Keys -> Nat],
     wrote : [Keys -> WriteType \cup {None}],
     gone : SUBSET Keys, kept : SUBSET Keys, err : BOOLEAN]

(* Types; in particular nothing this build cannot read reaches the local    *)
(* config or a base.                                                        *)
TypeOK ==
    /\ store \in [Keys -> RecType] /\ counter \in Nat /\ reaped \in Nat
    /\ mem \in [Devices -> ConfigType] /\ disk \in [Devices -> ConfigType]
    /\ phase \in [Devices -> {"off", "loading", "running"}]
    /\ ex \in [Devices -> ExType]
    /\ round \in [Devices -> 0..LoadRounds]
    /\ report \in [Devices -> SUBSET (Keys \X (Fields \cup {Root}))]
    /\ left \in [Bounded -> Nat]

(* The base of a record is what the VTA held under that version: a device   *)
(* never remembers agreeing on something the VTA does not have, although    *)
(* pulls, pushes and the reports of lost races arrive long after the fact.  *)
(* On states that keep their type.                                          *)
BaseHonest ==
    /\ TypeOK
    /\ \A d \in Devices, k \in Keys : \A c \in {mem[d], disk[d]} :
        /\ c.base[k].ver <= counter
        /\ c.base[k].ver # 0 /\ c.base[k].ver = store[k].ver
              => store[k].val = c.base[k].val

(* The watermark promise: whatever the VTA wrote up to the watermark, of    *)
(* the kinds this build knows, is in the base, waits in deferred, or was    *)
(* deleted.  A record of another kind goes under the watermark unread.      *)
Caught(c, k) ==
    \/ c.deferred[k] # None
    \/ c.base[k].ver >= store[k].ver
    \/ store[k].val = Absent /\ c.base[k].ver = 0
NothingSkipped ==
    \A d \in Devices, k \in KnownKeys : \A c \in {mem[d], disk[d]} :
        store[k].ver <= c.watermark => Caught(c, k)

(* The local value is one the VTA said is too large. *)
Refused(c, k) == c.local[k] # Absent /\ c.rejected[k] = c.local[k]

(* A device at rest: it has read everything and has nothing to send. *)
AtRest(d) ==
    /\ phase[d] = "running" /\ ex[d].st = "idle"
    /\ mem[d].watermark = counter
    /\ \A k \in Keys : mem[d].deferred[k] = None /\ ~Refused(mem[d], k)
    /\ OutPuts(mem[d]) = {} /\ OutDeletes(mem[d]) = {}

(* "Every device that opens the same context sees the same" records: a      *)
(* device at rest holds exactly what the VTA holds, of the kinds it knows.  *)
AtRestAgrees ==
    \A d \in Devices : AtRest(d) => \A k \in KnownKeys : mem[d].local[k] = store[k].val

(* "Nothing is clobbered silently": a local edit the VTA has not seen is    *)
(* either still there, field by field, after an exchange is absorbed, or    *)
(* its loss is reported, or the VTA had the same value before the loss.     *)
Unsynced(c, k, f) == FieldOf(c.local[k], f) # FieldOf(c.base[k].val, f)
AlreadyAtVta(d, k, f) ==
    LET recs == PulledRecs(mem[d], ex[d])
    IN recs[k] # None /\ FieldOf(recs[k].val, f) = FieldOf(mem[d].local[k], f)
EditsKeptOrReported ==
    [][\A d \in Devices : (AbsorbLive(d) \/ AbsorbLoad(d)) =>
        \A k \in Keys, f \in Fields :
            Unsynced(mem[d], k, f) =>
                \/ FieldOf(mem'[d].local[k], f) = FieldOf(mem[d].local[k], f)
                \/ <<k, f>> \in report'[d] \/ <<k, Root>> \in report'[d]
                \/ AlreadyAtVta(d, k, f)]_vars

(* A record from a newer build, in a newer format or of a newer kind, is    *)
(* never overwritten or deleted by this one.                                *)
NewerBuildUntouched ==
    [][\A k \in Keys : store[k].val = Alien => store'[k].val = Alien]_vars

(* Once users, faults and crashes pause, every device ends up with what the *)
(* VTA holds of the kinds it knows (records deferred to the next launch and *)
(* refused ones aside).                                                     *)
Settled(d) ==
    phase[d] = "running" =>
        \A k \in KnownKeys : \/ mem[d].deferred[k] # None
                             \/ Refused(mem[d], k)
                             \/ mem[d].local[k] = store[k].val
Converges == <>[](\A d \in Devices : Settled(d))
=============================================================================
