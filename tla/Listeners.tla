----------------------------- MODULE Listeners -----------------------------
(***************************************************************************)
(* One persona's mediator listener.  The loop's jobs, the supervisor that  *)
(* rebuilds dead transports and the task that asks refused claims again    *)
(* all install it through add_listener; a persona whose keys the VTA holds *)
(* connects under a collection claim, which a renewal task keeps alive.    *)
(* Removing a listener takes two: it is off every list, then its socket is *)
(* closed; meanwhile everybody else goes on.  The locks of the lists are   *)
(* never held across a wait.  Waits and backoffs may end at any moment,    *)
(* except that a claim lasts longer than a connect and the renewal task    *)
(* acts before the claim's end.                                            *)
(***************************************************************************)
EXTENDS Naturals

CONSTANT MaxTimers      \* release timers running at once

ASSUME TimersAssumption == MaxTimers \in Nat \ {0}

VARIABLES
    installed,    \* the identity's wire is there, its socket up or reconnecting
    stranded,     \* torn down by the supervisor and not brought back
    waiting,      \* its claim is to be asked again
    held,         \* the recorded claim: "none", "renewable", "last" (not renewable)
    renewal,      \* the renewal task: "off", "asleep", "asking", "ending", "closing"
    ending,       \* what it closes for: "again" (has a spec), "gone" (has none), "release"
    at,           \* where each caller of add_listener, and the loop's removal, is
    timers,       \* running release timers
    releasing,    \* a release is on its way to the VTA
    claim,        \* the VTA's record: "free", "ours", "other"
    keeper,       \* the VTA "collects" for the persona, "declines" to, or is not asked: "absent"
    intent,       \* history: what the account has reason to expect: "up", "down", "either"
    overlap,      \* history: a socket opened, or a renewal aborted, while a removal closed the old one
    cut,          \* history: a release met a grant
    stripped,     \* history: somebody cleared the entry of a rebuild under way
    forgot        \* history: the renewal, a granted retry or a stripped rebuild lost it

claims == <<held, renewal, ending, timers, releasing, claim, keeper>>
excuses == <<overlap, cut, stripped, forgot>>
listenerVars == <<installed, stranded, waiting, at, intent, excuses, claims>>

Callers == {"job", "supervisor", "retry"}
Removers == {"loop", "job", "supervisor"}       \* and the renewal task
Steps == {"idle", "due", "sampledDown", "sampledStranded", "closing", "removed", "lock",
          "asking", "granted", "connecting"}

ListenersInit ==
    /\ installed = FALSE /\ stranded = FALSE /\ waiting = FALSE
    /\ held = "none" /\ renewal = "off" /\ ending = "no"
    /\ timers = 0 /\ releasing = FALSE
    /\ keeper \in {"collects", "declines", "absent"}
    /\ claim \in IF keeper = "collects" THEN {"free", "other"} ELSE {"free"}
    /\ at = [c \in Callers \cup {"loop"} |-> "idle"]
    /\ intent = "either" /\ overlap = FALSE /\ cut = FALSE /\ stripped = FALSE /\ forgot = FALSE

Connecting == \E c \in Callers : at[c] \in {"granted", "connecting"}
Rebuilding == at["supervisor"] \in {"lock", "asking", "granted", "connecting"}
Working == \E c \in Callers : at[c] # "idle"
Closing == (\E r \in Removers : at[r] = "closing") \/ renewal = "closing"
PuttingBack == renewal \in {"ending", "closing"} /\ ending = "again"

(* This runtime means the listener to be up. *)
collects_for == installed \/ stranded \/ waiting

Move(c, step) == at' = [at EXCEPT ![c] = step]

(* A variant that does not look whether the listener came back. *)
release_due_Always == TRUE
(* What a release timer asks when it fires. *)
release_due == ~collects_for

(* A claim is left to a timer once its socket is closed. *)
release_unless_back ==
    /\ held # "none" => timers < MaxTimers
    /\ timers' = IF held # "none" THEN timers + 1 ELSE timers

(* A variant that leaves the supervisor its entry. *)
remove_listener_KeepsStranded(back) ==
    /\ UNCHANGED stranded /\ waiting' = back /\ installed' = FALSE /\ stripped' = Rebuilding
    /\ IF installed THEN UNCHANGED timers ELSE release_unless_back

(* Off every list (but for a renewal that puts it back at once, having no   *)
(* socket to wait for); a wire has its socket still to close.               *)
remove_listener(back) ==
    /\ stranded' = FALSE /\ waiting' = back /\ installed' = FALSE /\ stripped' = Rebuilding
    /\ IF installed THEN UNCHANGED timers ELSE release_unless_back

AfterRemoval == [loop |-> "idle", job |-> "lock", supervisor |-> "removed"]

Removes(r) == remove_listener(FALSE) /\ Move(r, IF installed THEN "closing" ELSE AfterRemoval[r])

-----------------------------------------------------------------------------
(* The loop: start-up or a join wants the persona up. *)
Want ==
    /\ at["job"] = "idle" /\ at["loop"] = "idle" /\ ~installed
    /\ Move("job", "lock") /\ intent' = "up" /\ forgot' = FALSE
    /\ UNCHANGED <<installed, stranded, waiting, overlap, cut, stripped, claims>>

(* reconnect_persona_listener_io: remove, then add. *)
Reconnect ==
    /\ at["job"] = "idle" /\ at["loop"] = "idle"
    /\ Removes("job") /\ intent' = "up" /\ forgot' = FALSE
    /\ UNCHANGED <<overlap, cut, held, renewal, ending, releasing, claim, keeper>>

(* A community left, a persona deleted: the loop removes the listener and   *)
(* waits for its socket to close.                                           *)
Unwant ==
    /\ at["loop"] = "idle" /\ intent # "down"
    /\ intent' = IF Working \/ PuttingBack THEN "either" ELSE "down"
    /\ Removes("loop") /\ forgot' = FALSE
    /\ UNCHANGED <<overlap, cut, held, renewal, ending, releasing, claim, keeper>>

(* quiesce_wire is done, and the removal returns to its caller. *)
Closed(a) ==
    /\ at[a] = "closing" /\ release_unless_back /\ Move(a, AfterRemoval[a])
    /\ UNCHANGED <<installed, stranded, waiting, intent, excuses, held, renewal, ending,
                   releasing, claim, keeper>>

-----------------------------------------------------------------------------
(* add_listener *)

(* What a successful add means for its caller. *)
Added(c) ==
    /\ Move(c, "idle")
    /\ stranded' = IF c = "supervisor" THEN FALSE ELSE stranded
    /\ intent' = IF intent = "either" THEN "up" ELSE intent
    /\ stripped' = (stripped /\ c # "supervisor") /\ forgot' = FALSE

Connects(c) == Move(c, "connecting") /\ overlap' = (overlap \/ Closing)

(* A variant that does not look again once it has the lock. *)
Lock_Blind(c) ==
    /\ at[c] = "lock"
    /\ \A d \in Callers : at[d] \notin {"asking", "granted", "connecting"}
    /\ IF keeper = "absent" THEN Connects(c) ELSE Move(c, "asking") /\ UNCHANGED overlap
    /\ UNCHANGED <<installed, stranded, waiting, intent, cut, stripped, forgot, claims>>

(* One connect at a time; a caller that waited may find the listener there. *)
Lock(c) ==
    /\ at[c] = "lock"
    /\ \A d \in Callers : at[d] \notin {"asking", "granted", "connecting"}
    /\ \/ installed /\ Added(c) /\ UNCHANGED overlap
       \/ /\ ~installed
          /\ IF keeper = "absent" THEN Connects(c) ELSE Move(c, "asking") /\ UNCHANGED overlap
          /\ UNCHANGED <<stranded, intent, stripped, forgot>>
    /\ UNCHANGED <<installed, waiting, cut, claims>>

(* The VTA grants the claim; its answer is under way. *)
Grant(c) ==
    /\ at[c] = "asking" /\ keeper = "collects" /\ claim # "other"
    /\ claim' = "ours" /\ Move(c, "granted") /\ cut' = releasing
    /\ UNCHANGED <<installed, stranded, waiting, intent, overlap, stripped, forgot, held,
                   renewal, ending, timers, releasing, keeper>>

(* The grant is recorded over any older claim, with a renewal task of its own. *)
Granted(c) ==
    /\ at[c] = "granted" /\ Connects(c)
    /\ waiting' = FALSE /\ held' = "renewable" /\ renewal' = "asleep" /\ ending' = "no"
    /\ UNCHANGED <<installed, stranded, intent, cut, stripped, forgot, timers, releasing, claim, keeper>>

(* The VTA does not collect for the persona: it connects without a claim. *)
Declined(c) ==
    /\ at[c] = "asking" /\ keeper = "declines"
    /\ waiting' = FALSE /\ Connects(c)
    /\ UNCHANGED <<installed, stranded, intent, cut, stripped, forgot, claims>>

(* Held elsewhere, refused or unreachable, the request lost or applied. *)
Refused(c) ==
    /\ at[c] = "asking"
    /\ stranded' = FALSE /\ waiting' = TRUE /\ Move(c, "idle")
    /\ stripped' = (c # "supervisor" /\ Rebuilding)
    /\ claim' \in {claim} \cup (IF keeper = "collects" /\ claim = "free" THEN {"ours"} ELSE {})
    /\ UNCHANGED <<installed, intent, overlap, cut, forgot, held, renewal, ending, timers,
                   releasing, keeper>>

Connected(c) ==
    /\ at[c] = "connecting" /\ installed' = TRUE /\ Added(c)
    /\ UNCHANGED <<waiting, overlap, cut, claims>>

(* A failed connect leaves its claim to a timer; the job's caller is told. *)
ConnectFails(c) ==
    /\ at[c] = "connecting" /\ Move(c, "idle")
    /\ release_unless_back
    /\ intent' = IF c = "job" /\ intent = "up" THEN "either" ELSE intent
    /\ forgot' = (forgot \/ (~waiting /\ ~stranded /\ (c = "retry" \/ (c = "supervisor" /\ stripped))))
    /\ stripped' = (stripped /\ c # "supervisor")
    /\ UNCHANGED <<installed, stranded, waiting, overlap, cut, held, renewal, ending,
                   releasing, claim, keeper>>

-----------------------------------------------------------------------------
(* supervise_once.  Other listeners of a pass are rebuilt between its sample *)
(* and this one's turn.                                                      *)
Sample ==
    /\ at["supervisor"] = "idle"
    /\ \/ installed /\ Move("supervisor", "sampledDown") /\ stranded' = FALSE
       \/ installed /\ stranded /\ stranded' = FALSE /\ UNCHANGED at
       \/ /\ ~installed /\ stranded
          /\ Move("supervisor", "sampledStranded") /\ UNCHANGED stranded
    /\ UNCHANGED <<installed, waiting, intent, excuses, claims>>

Rebuild ==
    \/ /\ at["supervisor"] = "sampledDown" /\ ~installed   \* removed meanwhile
       /\ Move("supervisor", "idle")
       /\ UNCHANGED <<installed, stranded, waiting, intent, excuses, claims>>
    \/ /\ \/ at["supervisor"] = "sampledDown" /\ installed
          \/ at["supervisor"] = "sampledStranded"
       /\ Removes("supervisor")
       /\ UNCHANGED <<intent, overlap, cut, forgot, held, renewal, ending, releasing, claim, keeper>>

(* A variant that goes on without keeping the spec. *)
Strand_Unlisted ==
    /\ at["supervisor"] = "removed" /\ Move("supervisor", "lock")
    /\ UNCHANGED <<installed, stranded, waiting, intent, excuses, claims>>

(* The spec is kept before the add, so that a failure can be tried again. *)
Strand ==
    /\ at["supervisor"] = "removed" /\ Move("supervisor", "lock")
    /\ stranded' = TRUE /\ stripped' = FALSE
    /\ UNCHANGED <<installed, waiting, intent, overlap, cut, forgot, claims>>

(* retry_claims: a pass takes what is due, then adds one after the other. *)
TakeDue ==
    /\ at["retry"] = "idle" /\ waiting /\ Move("retry", "due")
    /\ UNCHANGED <<installed, stranded, waiting, intent, excuses, claims>>

RetryClaim ==
    /\ at["retry"] = "due"
    /\ \/ installed /\ waiting' = FALSE /\ Move("retry", "idle")
       \/ ~installed /\ Move("retry", "lock") /\ UNCHANGED waiting
    /\ UNCHANGED <<installed, stranded, intent, excuses, claims>>

-----------------------------------------------------------------------------
(* Collection claims *)

(* The VTA hears of a release, or never does. *)
ReleaseArrives ==
    /\ releasing /\ releasing' = FALSE
    /\ claim' \in {claim, IF claim = "ours" THEN "free" ELSE claim}
    /\ UNCHANGED <<installed, stranded, waiting, at, intent, excuses, held, renewal, ending,
                   timers, keeper>>

(* The timer of a removal or a failed connect fires.  Releasing a claim      *)
(* aborts its renewal task, wherever it is in closing the listener.          *)
TimerFires ==
    /\ timers > 0 /\ timers' = timers - 1
    /\ IF release_due /\ held # "none"
       THEN /\ held' = "none" /\ renewal' = "off" /\ ending' = "no" /\ releasing' = TRUE
            /\ overlap' = (overlap \/ renewal = "closing")
            /\ cut' = (cut \/ Connecting)
            /\ forgot' = (forgot \/ PuttingBack)
       ELSE UNCHANGED <<held, renewal, ending, releasing, overlap, cut, forgot>>
    /\ UNCHANGED <<installed, stranded, waiting, at, intent, stripped, claim, keeper>>

(* release_now from the renewal task aborts the task itself, so the release *)
(* may not be sent.                                                         *)
SelfRelease ==
    /\ held' = "none" /\ renewal' = "off" /\ releasing' \in {releasing, TRUE}
    /\ cut' = (cut \/ (releasing' /\ Connecting))

(* close_for_collection reads the spec, waits for the listener to be removed *)
(* and puts it on the claims' list, without a look at what happened          *)
(* meanwhile.                                                                *)
close_for_collection(come_back) ==
    /\ renewal' = "ending"
    /\ ending' = IF ~come_back THEN "release" ELSE IF installed THEN "again" ELSE "gone"
    /\ UNCHANGED <<installed, stranded, waiting, at, intent, excuses, held, timers, releasing,
                   claim, keeper>>

(* The end of it; a listener that is not to come back has its claim released. *)
RenewalReturns ==
    /\ ending' = "no"
    /\ \/ ending = "release" /\ SelfRelease
       \/ ending # "release" /\ renewal' = "off" /\ UNCHANGED <<held, releasing, cut>>

RenewalRemoves ==
    /\ renewal = "ending" /\ remove_listener(~installed /\ ending = "again")
    /\ \/ installed /\ renewal' = "closing" /\ UNCHANGED <<ending, held, releasing, cut>>
       \/ ~installed /\ RenewalReturns
    /\ forgot' = (forgot \/ (ending = "gone" /\ collects_for))
    /\ intent' = IF ending = "release" THEN IF Working THEN "either" ELSE "down" ELSE intent
    /\ UNCHANGED <<at, overlap, claim, keeper>>

RenewalClosed ==
    /\ renewal = "closing" /\ release_unless_back /\ RenewalReturns
    /\ waiting' = (waiting \/ ending = "again")
    /\ UNCHANGED <<installed, stranded, at, intent, overlap, stripped, forgot, claim, keeper>>

(* renew_loop wakes at half-time, or when the socket must close. *)
RenewalWakes ==
    /\ renewal = "asleep" /\ (\A c \in Callers : at[c] = "connecting" => keeper # "collects")
    /\ \/ /\ ~collects_for /\ SelfRelease
          /\ UNCHANGED <<installed, stranded, waiting, at, intent, overlap, stripped,
                         forgot, ending, timers, claim, keeper>>
       \/ collects_for /\ close_for_collection(held = "renewable")
       \/ /\ collects_for /\ held = "renewable" /\ renewal' = "asking"
          /\ UNCHANGED <<installed, stranded, waiting, at, intent, excuses, held, ending,
                         timers, releasing, claim, keeper>>

(* The answer to a renewal. *)
RenewalAnswered ==
    /\ renewal = "asking"
    /\ \/ /\ \/ keeper = "collects" /\ claim # "other" /\ claim' = "ours" /\ renewal' = "asleep"
                /\ UNCHANGED held
             \/ keeper = "declines" /\ held' = "none" /\ renewal' = "off" /\ UNCHANGED claim
             \/ keeper = "collects" /\ held' = "last" /\ renewal' = "asleep" /\ UNCHANGED claim
          /\ UNCHANGED <<installed, stranded, waiting, at, intent, excuses, ending, timers,
                         releasing, keeper>>
       \/ close_for_collection(TRUE)     \* unreachable until the socket must close

(* The VTA and the member's other clients. *)
ClaimEnds ==
    /\ claim = "ours" /\ renewal = "off" /\ ~Connecting /\ claim' = "free"
    /\ UNCHANGED <<installed, stranded, waiting, at, intent, excuses, held, renewal, ending,
                   timers, releasing, keeper>>

Others ==
    /\ keeper = "collects"
    /\ \/ claim = "free" /\ claim' = "other" /\ UNCHANGED keeper
       \/ claim = "other" /\ claim' = "free" /\ UNCHANGED keeper
       \/ keeper' = "declines" /\ claim' = "free"
    /\ UNCHANGED <<installed, stranded, waiting, at, intent, excuses, held, renewal, ending,
                   timers, releasing>>

Adding(c) ==
    \/ Lock(c) \/ Grant(c) \/ Granted(c) \/ Declined(c) \/ Refused(c) \/ Connected(c)
    \/ ConnectFails(c)

ListenersNext ==
    \/ Want \/ Reconnect \/ Unwant
    \/ \E a \in Removers : Closed(a)
    \/ \E c \in Callers : Adding(c)
    \/ Sample \/ Rebuild \/ Strand \/ TakeDue \/ RetryClaim
    \/ ReleaseArrives \/ TimerFires \/ RenewalWakes \/ RenewalRemoves \/ RenewalClosed
    \/ RenewalAnswered \/ ClaimEnds \/ Others

ListenersSpec == ListenersInit /\ [][ListenersNext]_listenerVars

-----------------------------------------------------------------------------
(* No renewal task outlives the claim it renews. *)
ListenersTypeOK ==
    /\ installed \in BOOLEAN /\ stranded \in BOOLEAN /\ waiting \in BOOLEAN
    /\ held \in {"none", "renewable", "last"}
    /\ renewal \in {"off", "asleep", "asking", "ending", "closing"}
    /\ ending \in {"no", "again", "gone", "release"}
    /\ at \in [Callers \cup {"loop"} -> Steps] /\ timers \in 0..MaxTimers /\ releasing \in BOOLEAN
    /\ claim \in {"free", "ours", "other"} /\ keeper \in {"collects", "declines", "absent"}
    /\ intent \in {"up", "down", "either"} /\ overlap \in BOOLEAN /\ cut \in BOOLEAN
    /\ stripped \in BOOLEAN /\ forgot \in BOOLEAN
    /\ renewal # "off" => held # "none"

(* The mediator allows one socket per DID: whoever installs the listener, no *)
(* two are opened at once, nor one beside an installed one; and the socket a *)
(* removal closes is closed before another opens, unless somebody else than  *)
(* its remover opened that one.                                              *)
OneSocket ==
    /\ \A c \in Callers : at[c] \in {"asking", "granted", "connecting"} =>
        /\ ~installed
        /\ \A d \in Callers \ {c} : at[d] \notin {"asking", "granted", "connecting"}
    /\ Closing /\ ~overlap =>
        /\ ~installed /\ \A c \in Callers : at[c] # "connecting"
        /\ \A r \in Removers : at[r] = "closing" =>
            renewal # "closing" /\ \A q \in Removers \ {r} : at[q] # "closing"

(* An open socket of a persona the VTA collects for has a claim behind it,  *)
(* through reconnects, rebuilds, renewals and the timers of older removals; *)
(* a release that meets a grant under way is excused.                       *)
ClaimedWhileOpen == installed /\ keeper = "collects" /\ ~cut => claim = "ours"

(* A listener the account wants and does not have is on the supervisor's or *)
(* the claims' list, or somebody is bringing it up or putting it back.      *)
ComesBack ==
    intent = "up" /\ ~installed => stranded \/ waiting \/ Working \/ PuttingBack

(* ComesBack, where the renewal, a granted retry or a stripped rebuild has  *)
(* not lost it.                                                             *)
NeverForgotten == ~forgot => ComesBack

(* A listener removed for good is not brought back by the supervisor, the   *)
(* claims' retries, a renewal or an old timer, unless an add, or a close    *)
(* that had read the spec to come back, was already under way.              *)
RemovedStaysRemoved ==
    intent = "down" => ~collects_for /\ ~Working /\ ~PuttingBack
=============================================================================
