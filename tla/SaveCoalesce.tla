---------------------------- MODULE SaveCoalesce ----------------------------
(***************************************************************************)
(* Persistence of the account configuration: the coalescing save scheduler *)
(* of the event loop (SaveScheduler), the two-store write it triggers      *)
(* (Config::save: the credential store, then the config file), the         *)
(* handlers that save on the loop thread by themselves, shutdown, and the  *)
(* degraded (no community yet) loop, which owns a scheduler of its own.    *)
(*                                                                         *)
(* A configuration is abstracted to a version number.  Two threads may be  *)
(* inside Config::save at once: the blocking thread of the coalesced save  *)
(* ("bg") and the loop thread itself ("loop").                             *)
(***************************************************************************)
EXTENDS Integers

CONSTANTS MaxVersion,   \* bound: configuration versions ever created
          MaxFaults     \* bound: failed snapshots and failed writes

ASSUME BoundsAssumption == MaxVersion \in Nat /\ MaxFaults \in Nat

Writers == {"bg", "loop"}

(* Where a thread is inside Config::save; "ok" and "err" are its result. *)
SaveSteps == {"secrets", "truncate", "write"}
WriterPCs == {"idle", "ok", "err"} \cup SaveSteps

(* The config file between open-with-truncate and the end of fs::write. *)
Torn == -1

VARIABLES
    phase,      \* which loop runs, or how the last one ended
    cont,       \* what the loop does once its own save returns; "none": it selects
    live,       \* version of the Config the loop owns
    newest,     \* highest version number handed out
    dirty, inFlight, deadline,  \* SaveScheduler
    pc, ver,    \* per thread: place in Config::save, version of its snapshot
    secrets, file,  \* versions on disk: credential store, config file
    faults,     \* failures so far
    owed,       \* history: newest version the scheduler took responsibility for
    forced,     \* history: newest version a loop-thread save reported as saved
    upset,      \* history: a loop-thread save raced a background one or failed, or a
                \*   hand-off dropped a dirty mark, and no later snapshot was taken
    raced       \* history: a loop save ever started during a background one

sched == <<dirty, inFlight, deadline>>
disk == <<secrets, file>>
vars == <<phase, cont, live, newest, dirty, inFlight, deadline, pc, ver,
          secrets, file, faults, owed, forced, upset, raced>>

Phases == {"down", "degraded", "running", "draining",
           "stopped", "exitFailed", "degradedStopped"}

(* Every variable keeps its type: in particular a session never runs on a   *)
(* half-written config file (live is a version, never Torn).                *)
TypeOK ==
    /\ phase \in Phases
    /\ cont \in {"none", "external", "flush", "exit"}
    /\ live \in Nat /\ newest \in Nat /\ owed \in Nat /\ forced \in Nat /\ secrets \in Nat
    /\ file \in Nat \cup {Torn}
    /\ faults \in Nat
    /\ dirty \in BOOLEAN /\ inFlight \in BOOLEAN /\ deadline \in BOOLEAN
    /\ upset \in BOOLEAN /\ raced \in BOOLEAN
    /\ pc \in [Writers -> WriterPCs]
    /\ ver \in [Writers -> Nat]

-----------------------------------------------------------------------------
(* A profile that was set up and closed cleanly. *)
Init ==
    /\ phase = "down" /\ cont = "none"
    /\ live = 0 /\ newest = 0 /\ owed = 0 /\ forced = 0
    /\ dirty = FALSE /\ inFlight = FALSE /\ deadline = FALSE
    /\ pc = [w \in Writers |-> "idle"] /\ ver = [w \in Writers |-> 0]
    /\ secrets = 0 /\ file = 0 /\ faults = 0
    /\ upset = FALSE /\ raced = FALSE

(* The loop is back in its select!, in one of its two forms. *)
Selecting(loops) == phase \in loops /\ cont = "none"

(* A handler changes the configuration. *)
NewVersion ==
    /\ newest < MaxVersion
    /\ newest' = newest + 1
    /\ live' = newest + 1

(* A variant that skips the credential store. *)
Begin_FileOnly(w, v) == pc' = [pc EXCEPT ![w] = "truncate"] /\ ver' = [ver EXCEPT ![w] = v]

(* Config::save is entered with a snapshot of version v. *)
Begin(w, v) == pc' = [pc EXCEPT ![w] = "secrets"] /\ ver' = [ver EXCEPT ![w] = v]

Fault == faults < MaxFaults /\ faults' = faults + 1

-----------------------------------------------------------------------------
(* A session starts: the file and the secrets are loaded, and a fresh       *)
(* scheduler is made.  A torn file does not parse, so no session starts.    *)
Start ==
    /\ phase \in {"down", "stopped", "exitFailed", "degradedStopped"}
    /\ file # Torn
    /\ phase' \in {"degraded", "running"}
    /\ live' = file /\ owed' = file /\ forced' = file
    /\ dirty' = FALSE /\ inFlight' = FALSE /\ deadline' = FALSE
    /\ upset' = FALSE
    /\ UNCHANGED <<cont, newest, pc, ver, disk, faults, raced>>

(* Any handler that mutates the config and calls mark_dirty. *)
MarkDirty ==
    /\ Selecting({"running", "degraded"})
    /\ NewVersion
    /\ dirty' = TRUE /\ deadline' = TRUE
    /\ owed' = newest + 1
    /\ UNCHANGED <<phase, cont, inFlight, pc, ver, disk, faults, forced, upset, raced>>

(* The deadline arm: take_for_save, then spawn_blocking(pending.run). *)
TakeForSave ==
    /\ Selecting({"running"}) /\ deadline
    /\ IF inFlight \/ ~dirty
       THEN /\ deadline' = FALSE
            /\ UNCHANGED <<dirty, inFlight, pc, ver, upset>>
       ELSE /\ dirty' = FALSE /\ deadline' = FALSE /\ inFlight' = TRUE
            /\ Begin("bg", live)
            /\ upset' = FALSE
    /\ UNCHANGED <<phase, cont, live, newest, disk, faults, owed, forced, raced>>

(* clone_for_save fails: still dirty, the deadline is armed again. *)
SnapshotFails ==
    /\ Selecting({"running"}) /\ deadline /\ ~inFlight /\ dirty
    /\ Fault
    /\ deadline' = TRUE
    /\ UNCHANGED <<phase, cont, live, newest, dirty, inFlight, pc, ver, disk,
                   owed, forced, upset, raced>>

(* Config::save, first half: the credential store. *)
WriteSecrets(w) ==
    /\ pc[w] = "secrets"
    /\ secrets' = ver[w]
    /\ pc' = [pc EXCEPT ![w] = "truncate"]
    /\ UNCHANGED <<phase, cont, live, newest, sched, ver, file, faults, owed,
                   forced, upset, raced>>

(* Config::save, second half: fs::write opens the file and truncates it ... *)
TruncateFile(w) ==
    /\ pc[w] = "truncate"
    /\ file' = Torn
    /\ pc' = [pc EXCEPT ![w] = "write"]
    /\ UNCHANGED <<phase, cont, live, newest, sched, ver, secrets, faults, owed,
                   forced, upset, raced>>

(* ... and writes from offset 0.  When the other thread wrote since this one *)
(* truncated, the longer of the two contents decides what is left over.      *)
WriteFile(w) ==
    /\ pc[w] = "write"
    /\ file' \in IF file = Torn THEN {ver[w]} ELSE {ver[w], Torn}
    /\ pc' = [pc EXCEPT ![w] = "ok"]
    /\ UNCHANGED <<phase, cont, live, newest, sched, ver, secrets, faults, owed,
                   forced, upset, raced>>

(* The store refuses, the disk is full: Config::save returns its error. *)
SaveFails(w) ==
    /\ pc[w] \in SaveSteps
    /\ Fault
    /\ pc' = [pc EXCEPT ![w] = "err"]
    /\ UNCHANGED <<phase, cont, live, newest, sched, ver, disk, owed, forced, upset, raced>>

(* Variants of finish: a failed save is dropped; no deadline is armed again. *)
Finish_NoRetry(ok) ==
    /\ inFlight' = FALSE
    /\ dirty' = dirty
    /\ deadline' = (deadline \/ dirty)

Finish_NoRearm(ok) ==
    /\ inFlight' = FALSE
    /\ dirty' = (dirty \/ ~ok)
    /\ deadline' = deadline

(* SaveScheduler::finish *)
Finish(ok) ==
    /\ inFlight' = FALSE
    /\ dirty' = (dirty \/ ~ok)
    /\ deadline' = (deadline \/ dirty \/ ~ok)

(* The save_done arm. *)
SaveDone ==
    /\ Selecting({"running"})
    /\ pc["bg"] \in {"ok", "err"}
    /\ Finish(pc["bg"] = "ok")
    /\ pc' = [pc EXCEPT !["bg"] = "idle"]
    /\ UNCHANGED <<phase, cont, live, newest, ver, disk, faults, owed, forced, upset, raced>>

-----------------------------------------------------------------------------
(* A handler saves on the loop thread: the export and import log entries,  *)
(* setting and removing the passphrase.  A background save may be running. *)
ExternalSave ==
    /\ Selecting({"running", "degraded"})
    /\ NewVersion
    /\ cont' = "external"
    /\ Begin("loop", newest + 1)
    /\ upset' = (upset \/ pc["bg"] \in SaveSteps)
    /\ raced' = (raced \/ pc["bg"] \in SaveSteps)
    /\ UNCHANGED <<phase, sched, disk, faults, owed, forced>>

(* It returns: clear_after_external_save on success; on failure the error   *)
(* is shown and the scheduler is left alone.                                *)
ExternalSaveDone ==
    /\ cont = "external" /\ pc["loop"] \in {"ok", "err"}
    /\ IF pc["loop"] = "ok"
       THEN /\ dirty' = FALSE /\ deadline' = FALSE
            /\ owed' = ver["loop"] /\ forced' = ver["loop"]
            /\ UNCHANGED upset
       ELSE /\ upset' = TRUE
            /\ UNCHANGED <<dirty, deadline, owed, forced>>
    /\ cont' = "none" /\ pc' = [pc EXCEPT !["loop"] = "idle"]
    /\ UNCHANGED <<phase, live, newest, inFlight, ver, disk, faults, raced>>

(* Degraded loop, DeleteCommunity: remove_community marks dirty, then flush. *)
DegradedDelete ==
    /\ Selecting({"degraded"})
    /\ NewVersion
    /\ dirty' = TRUE /\ deadline' = TRUE
    /\ owed' = newest + 1
    /\ cont' = "flush"
    /\ Begin("loop", newest + 1)
    /\ UNCHANGED <<phase, inFlight, disk, faults, forced, upset, raced>>

FlushDone ==
    /\ cont = "flush" /\ pc["loop"] \in {"ok", "err"}
    /\ IF pc["loop"] = "ok"
       THEN dirty' = FALSE /\ deadline' = FALSE
       ELSE UNCHANGED <<dirty, deadline>>
    /\ cont' = "none" /\ pc' = [pc EXCEPT !["loop"] = "idle"]
    /\ UNCHANGED <<phase, live, newest, inFlight, ver, disk, faults, owed, forced, upset, raced>>

(* Degraded loop: the account joined a community or minted its first       *)
(* persona.  run() takes the live config over and makes a new scheduler.   *)
HandOff ==
    /\ Selecting({"degraded"})
    /\ phase' = "running"
    /\ dirty' = FALSE /\ inFlight' = FALSE /\ deadline' = FALSE
    /\ upset' = (upset \/ dirty)
    /\ UNCHANGED <<cont, live, newest, pc, ver, disk, faults, owed, forced, raced>>

(* Degraded loop: Exit or an interrupt.  Nothing is saved on the way out. *)
DegradedExit ==
    /\ Selecting({"degraded"})
    /\ phase' = "degradedStopped"
    /\ UNCHANGED <<cont, live, newest, sched, pc, ver, disk, faults, owed, forced, upset, raced>>

(* Runtime loop: Exit or an interrupt breaks it. *)
Exit ==
    /\ Selecting({"running"})
    /\ phase' = "draining"
    /\ UNCHANGED <<cont, live, newest, sched, pc, ver, disk, faults, owed, forced, upset, raced>>

(* A variant that waits for a success only. *)
DrainInFlight_OkOnly ==
    /\ Selecting({"draining"}) /\ inFlight
    /\ pc["bg"] = "ok"
    /\ Finish(TRUE)
    /\ pc' = [pc EXCEPT !["bg"] = "idle"]
    /\ UNCHANGED <<phase, cont, live, newest, ver, disk, faults, owed, forced, upset, raced>>

(* After the loop: a save in flight is awaited ... *)
DrainInFlight ==
    /\ Selecting({"draining"}) /\ inFlight
    /\ pc["bg"] \in {"ok", "err"}
    /\ Finish(pc["bg"] = "ok")
    /\ pc' = [pc EXCEPT !["bg"] = "idle"]
    /\ UNCHANGED <<phase, cont, live, newest, ver, disk, faults, owed, forced, upset, raced>>

(* A variant without the last save. *)
ExitFlush_None ==
    /\ Selecting({"draining"}) /\ ~inFlight
    /\ phase' = "stopped"
    /\ UNCHANGED <<cont, pc, ver, upset>>
    /\ UNCHANGED <<live, newest, sched, disk, faults, owed, forced, raced>>

(* ... then needs_flush decides on a last save. *)
ExitFlush ==
    /\ Selecting({"draining"}) /\ ~inFlight
    /\ IF dirty
       THEN /\ cont' = "exit" /\ Begin("loop", live)
            /\ upset' = FALSE
            /\ UNCHANGED phase
       ELSE /\ phase' = "stopped"
            /\ UNCHANGED <<cont, pc, ver, upset>>
    /\ UNCHANGED <<live, newest, sched, disk, faults, owed, forced, raced>>

(* The snapshot for the last save cannot be taken. *)
ExitSnapshotFails ==
    /\ Selecting({"draining"}) /\ ~inFlight /\ dirty
    /\ Fault
    /\ phase' = "exitFailed"
    /\ UNCHANGED <<cont, live, newest, sched, pc, ver, disk, owed, forced, upset, raced>>

ExitFlushDone ==
    /\ cont = "exit" /\ pc["loop"] \in {"ok", "err"}
    /\ phase' = IF pc["loop"] = "ok" THEN "stopped" ELSE "exitFailed"
    /\ cont' = "none" /\ pc' = [pc EXCEPT !["loop"] = "idle"]
    /\ UNCHANGED <<live, newest, sched, ver, disk, faults, owed, forced, upset, raced>>

(* The process dies, both threads with it; the disk keeps what it has. *)
Crash ==
    /\ phase \in {"degraded", "running", "draining"}
    /\ phase' = "down" /\ cont' = "none"
    /\ pc' = [w \in Writers |-> "idle"]
    /\ UNCHANGED <<live, newest, sched, ver, disk, faults, owed, forced, upset, raced>>

WriterStep(w) == WriteSecrets(w) \/ TruncateFile(w) \/ WriteFile(w)

Next ==
    \/ Start \/ MarkDirty \/ TakeForSave \/ SnapshotFails \/ SaveDone
    \/ \E w \in Writers : WriterStep(w) \/ SaveFails(w)
    \/ ExternalSave \/ ExternalSaveDone
    \/ DegradedDelete \/ FlushDone \/ HandOff \/ DegradedExit
    \/ Exit \/ DrainInFlight \/ ExitFlush \/ ExitSnapshotFails \/ ExitFlushDone
    \/ Crash

(* A due deadline and a finished save wake the loop; a thread inside        *)
(* Config::save runs on.  Nothing obliges a user to act or a process to die.*)
Fairness ==
    /\ WF_vars(TakeForSave) /\ WF_vars(SaveDone)
    /\ WF_vars(ExternalSaveDone) /\ WF_vars(FlushDone)
    /\ WF_vars(DrainInFlight) /\ WF_vars(ExitFlush) /\ WF_vars(ExitFlushDone)
    /\ \A w \in Writers : WF_vars(WriterStep(w))

Spec == Init /\ [][Next]_vars
FairSpec == Spec /\ Fairness

-----------------------------------------------------------------------------
(* Saved(v): the config file holds version v or a later one. *)
Saved(v) == file >= v

(* No mark_dirty is lost: while the runtime loop selects, a marked change   *)
(* that is not on disk is either still marked or being saved, whatever      *)
(* saves failed, were skipped or overlapped new marks.                      *)
NoLostMark ==
    (phase = "running" /\ cont = "none" /\ ~upset /\ ~Saved(owed))
        => dirty \/ inFlight

(* The exit of the runtime loop waits for the save in flight and flushes    *)
(* what was marked after its snapshot: a clean exit leaves all on disk.     *)
CleanExitDurable == (phase = "stopped" /\ ~upset) => Saved(owed)

(* The secrets-then-file order of Config::save: whatever crash or failure   *)
(* interrupts it, no persona in the file lacks its keys, as long as no two  *)
(* saves ever overlapped.                                                   *)
KeysBeforeRecords == raced \/ secrets >= file

(* What clear_after_external_save relies on: once a passphrase change or an *)
(* export has saved, and the scheduler is idle, that save is what is on     *)
(* disk, not an older snapshot.                                             *)
ForcedSaveHolds ==
    (phase = "running" /\ cont = "none" /\ ~dirty /\ ~inFlight) => Saved(forced)

(* A marked change reaches the disk however often saves fail or overlap     *)
(* marks (failures are bounded), unless the loop ends first.                *)
MarksPersist ==
    \A v \in 1..MaxVersion :
        (phase = "running" /\ owed = v /\ ~upset)
            ~> (Saved(v) \/ phase # "running" \/ upset)

(* Waiting for the save in flight never keeps the program from ending.      *)
ShutdownEnds == phase = "draining" ~> phase \in {"stopped", "exitFailed", "down"}

-----------------------------------------------------------------------------
(* The parts of the inductive invariant behind the safety properties.       *)
Session == phase \in {"degraded", "running", "draining"}

(* The scheduler's in_flight flag says exactly whether the background       *)
(* thread exists, and the loop thread is in a save exactly when a handler   *)
(* waits for it.                                                            *)
ThreadsTracked ==
    /\ phase \in {"running", "draining"} => (inFlight <=> pc["bg"] # "idle")
    /\ phase \notin {"running", "draining"} => pc["bg"] = "idle"
    /\ phase = "degraded" => ~inFlight
    /\ cont = "none" <=> pc["loop"] = "idle"
    /\ ~Session => cont = "none"
    /\ cont = "exit" => phase = "draining" /\ ~inFlight
    /\ cont = "flush" => phase = "degraded" /\ dirty
    /\ cont = "external" => phase \in {"running", "degraded"}
    /\ (pc["bg"] \in SaveSteps /\ cont # "none") => upset /\ raced

(* Versions: nothing on disk or in a snapshot is newer than the live config. *)
VersionsOrdered ==
    /\ live <= newest /\ owed <= newest /\ secrets <= newest /\ file <= newest
    /\ Session => file <= live /\ owed <= live
    /\ \A w \in Writers : pc[w] # "idle" => ver[w] <= live
    /\ cont # "none" => owed <= ver["loop"]

(* While saves never overlapped, a writer past its first half has its own   *)
(* secrets on disk, and one before it is not behind the file.               *)
KeysFirst ==
    ~raced =>
        /\ secrets >= file
        /\ \A w \in Writers : pc[w] \in SaveSteps => file <= ver[w]
        /\ \A w \in Writers : pc[w] \in {"truncate", "write"} => secrets = ver[w]

(* What is known of the file and the dirty flag when nothing upset them.    *)
MarksCovered ==
    ~upset =>
        /\ \A w \in Writers : pc[w] = "write" => file = Torn
        /\ (Session /\ pc["bg"] \in SaveSteps /\ ~dirty) => owed <= ver["bg"]
        /\ (Session /\ cont = "none" /\ pc["bg"] \in {"idle", "ok"} /\ ~dirty) => Saved(owed)
        /\ pc["loop"] = "ok" => file = ver["loop"]

IInv == TypeOK /\ ThreadsTracked /\ VersionsOrdered /\ KeysFirst /\ MarksCovered
            /\ CleanExitDurable
=============================================================================
