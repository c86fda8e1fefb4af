# OpenVTC: formal models, model checks and proofs

OpenVTC is a terminal client with which a person joins Verifiable Trust
Communities (VTCs).  The crate `openvtc` holds the user interface and the
event loop, `openvtc-core` the account, the protocols and the storage.  This
directory holds TLA+ models of its stateful parts, the TLC runs that check
them on small instances and the TLAPS proofs that hold for every instance.
`SH/` below stands for `src/openvtc/src/state_handler/`, `CORE/` for
`src/openvtc-core/src/`.

## 1. The system

The UI task sends `Action`s over a channel to one `StateHandler` loop, the only
code that mutates the `Config`.  The loop selects over actions, inbound
messages, timers and results of background jobs.  Everything slow (saving, the
exchange with the VTA, sends, DID resolves, status-list fetches) runs outside
the loop and comes back as a message, so the loop may have moved on in the
meantime: most of what is hard about this program is in that gap.

| Component | State | Operations | Interacts with | Hard behaviour | Correct when |
|---|---|---|---|---|---|
| Configuration persistence (`SH/save_coalesce.rs`, `CORE/config/saving.rs`) | dirty, in_flight, deadline; credential store, config file | mark_dirty, take_for_save, finish, forced saves, degraded loop, shutdown | every handler that changes the config | two threads in `Config::save`, failed saves, crash between the two writes | no marked change is lost, a clean exit is durable, keys are on disk before records that need them |
| VTA account-state sync (`CORE/vta_sync/`, `CORE/config/loading.rs`) | local records, base, watermark, deferred, rejected; the VTA's versioned store | plan, pull (feed or snapshot, paged), put_many, delete, absorb (live or at load) | persistence, other devices through the VTA | concurrent devices, lost answers, reaped tombstones, restarts from an older save, records of newer builds | every device converges to the VTA's records, no edit is lost in silence |
| Sync driver (`SH/vta_sync_driver.rs`) | in_flight, wanted, not_before, next_pull, failures | request, should_start, finished | persistence, sync | retries, timers, a change saved during a cycle | cycles never overlap, a change is carried within the longest backoff |
| Inbound dispatch and verification queue (`SH/message_dispatch.rs`, `SH/verify_queue.rs`) | seen ids, two lanes, per-sender book, kept copies, backlog | triage, enqueue, finished, restore | every message handler, persistence | messages handed back out of order, caps, restart with messages queued | order per sender, communities' messages survive, queue drains |
| Relationships, VRCs, trust pings (`SH/relationship_actions.rs`, `SH/inbox_actions.rs`, `CORE/relationships.rs`, `CORE/vrc.rs`, `CORE/tasks.rs`) | record per peer, VRCs, inbox tasks | request, accept, reject, finalize, remove, request / issue / reject / accept a VRC, ping | background dispatch, dispatch, verification queue | messages against the outcomes of our own jobs, crossing requests, redelivery, restarts | handshakes close, both ends use matching DIDs |
| Background dispatch (`SH/background_dispatch.rs`) | busy flag per domain | try_begin, spawn, apply_outcome | all user operations | jobs of two domains at once, panics | one job per domain, its outcome applied once |
| Membership lifecycle (`CORE/config/account.rs`, `SH/join_flow.rs`, `CORE/join.rs`, `CORE/messaging.rs`) | record per (community, persona): Pending, Active, Rejected, ... | submit, receipt, decision, credential, expiry, withdraw, leave, delete, poll | dispatch, sessions, vetting | lost and late answers, several personas at one community, stops between a change and its save | only a credential admits, what ended stays ended, a lost answer is asked for again |
| Renewal (`CORE/renewal.rs`) | pending renewals (in memory) | request, answer, acknowledge | membership | answer after timeout or restart | an answer is applied once, to the membership that asked |
| Join status poll (`SH/join_status_poll.rs`) | per join: attempts, last poll, resend asks | due | membership | cap per tick, backoff | every parked join is asked about again and again |
| Persona sessions (`SH/session_manager.rs`) | session per persona, cap, indicator | register, deregister, status, reconcile | listeners | cap, shared personas, dropped transitions | a live community has a session, the indicator settles |
| Persona listeners (`CORE/didcomm.rs`, `CORE/collection.rs`) | identities, stranded and waiting lists, collection claims and their renewal tasks | add, remove, reconnect, supervise, retry, claim, renew, release | mediator, VTA | three callers add one listener, timers of an earlier removal, claims that run out | one socket per DID, a claim behind it, never forgotten, removed stays removed |
| Vetting (`CORE/vetting/`, `SH/vetting_actions.rs`) | applications, requests, desk, tickets, issued statements | ask, accept, refuse, open a session, send a card, attest, decline, sweep | membership, dispatch, background dispatch | answers against outcomes, sessions replaced or expired, sends undone | both books agree, one identity per application, the desk keeps to its policy |
| Hidden vetting (`CORE/vetting/hidden.rs`, `SH/hidden_vetting_*.rs`) | engines, token drip | enrol, draw, attest | vetting, VTA | schedules, expiry | a token is spent once |
| Single-instance lock (`CORE/process_lock.rs`) | lock file | check, remove | start-up | two starts, stale file | one process per profile |
| Configuration formats, secure store, OpenPGP card | encrypted blobs | encode, decode | persistence | none beyond the write order | round trip |
| Transport (`CORE/didcomm.rs`, `CORE/tsp.rs`) | connections, outbox | send, receive | all protocols | external mediator: delay, loss, repetition | |
| Elections (`SH/elections_actions.rs`, `CORE/elections.rs`) | the panel's view, a lane each for the community, the VTA and the ballot box | open, show, present, take a ticket, review, cast, resend, back | background dispatch, community, VTA, ballot box | outcomes that meet another screen or election, lost answers, busy lanes | presents and casts only what the member chose, comes to rest, a cast goes to its own box |
| Rooms, repositories, capabilities, witnessing, notifications, agent names, devices | views keyed by thread | ask, answer | dispatch, background dispatch | late or foreign answers | an answer is shown in the view that asked |
| Setup, recovery, command line, user interface | interactive state | | start-up | | |

`PROJECT.json` lists every component with its status, the hazards with their
source lines, and for every definition the lines it models.

## 2. Modules

* `SaveCoalesce`: the scheduler of config saves and what reaches the disk.
  A configuration is a version number.  The background save and the saves the
  loop makes itself are two writers, each in three steps: secrets, truncated
  file, written file.  Every step may fail and the process may die between any
  two.  `phase` is where the program is (degraded loop, runtime loop, draining
  at exit, stopped), `cont` what the loop is in the middle of.  `owed`,
  `forced`, `upset` and `raced` are history variables for the properties.
  `MCSaveCoalesce` instantiates it, `SaveCoalesceProofs` proves it.
* `Merge3`: the three-way merge of one record (`merge.rs`) as operators.
* `VtaSync`, `MCVtaSync`, `VtaSyncProofs`: devices and the VTA's store.  An exchange is planned
  from the config, pulls page by page, pushes conditional writes, and is
  absorbed when its result reaches the loop; in between the user edits and
  other devices write.  A load runs up to `LOAD_ROUNDS` exchanges before the
  loop starts.  The store is external: it is modelled from the calls of
  `store.rs` and the test double in `tests.rs`.  Records are objects of two
  levels; `Alien` is a record of a newer format, `NewKinds` are the keys of
  kinds this build does not know, whose records it skips.  A failed request covers
  `MAX_PAGES` too.  `VtaSyncProofs` proves what the merge and the sync promise.
* `Relationships`, `RelationshipsProofs`, `ChannelsProofs`: two accounts with one persona each over a
  network that delays, loses and repeats messages.  A user operation claims its
  busy domain and becomes a job; the job sends; its outcome is applied later.
  A message that needs a check is held and comes back in order.  `saved` is the
  database a clean exit leaves.  A DID is `<<owner, thread, epoch>>`, the
  persona's `<<owner, 0, 0>>`.  A send that errors is one that was not sent.  One
  that succeeds has left its message in an outbox kept in memory
  (`CORE/didcomm.rs:462`): when a stop takes it, the network has lost it.
* `VerifyQueue`, `MCVerifyQueue`, `VerifyQueueProofs`: the queue in detail: lanes, per-sender book,
  caps, request rate, one check at a time, kept copies of communities'
  messages, the backlog after a restart, redelivery and changes of
  membership.  Whether a message needs a check is read off records that change
  between triages, so each triage may answer either way.  `seen` stands for the
  ids seen this session (`SeenMessages`): the code keeps them by message id
  alone, and the last 1024 of them.  The model's messages are fewer and have ids
  of their own, so a repetition that comes after its id was forgotten, and two
  senders that use one id, are left out.

* `Membership`, `MCMembership`, `MembershipProofs`: the records an account keeps with one
  community, and the community's requests behind them.  Submits, verdicts,
  status answers, credentials, notices and renewals are applied in any order;
  messages are lost, the account stops between a change and its save.  A join's
  document id is its number k, the id the community gives it `MaxJoins + k`;
  `vmc` is the join a credential was issued for.  `Save` exists only where a
  crash can follow it.
* `MembershipLifecycle`: what the account promises of each join, as a small
  state machine with a durable copy.  `Membership` implements it: its property
  `KeepsLifecycle` is `MembershipLifecycle!Spec` under the mapping of every
  join to the status of the record that holds it.
* `SyncDriver`: when cycles start, over a clock of the
  loop's ticks.  `backoff` and `clean` stand for the number of failures;
  `fresh`, `carried` and `age` are history.
* `JoinPoll`: which joins a tick of the status poll asks about.  What a poll
  asks and what its answer does is `PollJoin` and `OnStatus` of `Membership`.
* `ProcessLock`: every call on the lock file a step.
* `Sessions`: the registry, the poller's bounded channel, the reconcile timer
  and the indicator.  Listeners come and go at any moment.
* `Listeners`: one persona's listener.  The loop's jobs, the
  supervisor and the claims' retry are the three callers of `add_listener`, a
  lock orders them.  `remove_listener` takes two steps, outside that lock: the
  listener is off every list, then its socket is closed (`Closed`), and anybody
  may act in between.  `held` and `renewal` are the account's side of the claim,
  `claim` and `releasing` the VTA's.  `close_for_collection` takes three: what it
  closes for is settled with the spec it reads (`ending`), then the listener is
  removed, then its socket closed and the spec put on the claims' list.
  `intent` is what the account has reason to expect, and `overlap` notes a
  socket opened while a removal was still closing the old one.
* `Elections`: the panel that takes tickets and votes.  `view` is what it shows
  and waits for, `lanes` the job of each dispatch domain; `next` is the step an
  answer called for, taken by `advance` when its lane is free.  An election
  stands for its manifest, its ballot box and its questions, a draft for the
  election whose questions it answers.  The community, the VTA and the box
  answer in any order, refuse, or are lost.  `chosen` and `confirmed` are history.
* `MCRuntime`: the last six together.  They share no state in the model, so
  every behaviour moves one of them; one run checks all without their product.
* `RuntimeProofs`: the proofs about these six and their run.
* `Vetting`, `VettingProofs`: an applicant and a vetter, each with one send at a
  time off its loop (`applicantJob`, `vetterJob`), over messages that are lost
  and reordered.  A request, a session, a card and a statement are what they
  bind: document, session number, and the identity the card shows.  A send that
  fails is undone from `previous`.  Sessions expire by one clock both sides
  share.  `overwritten` and `restored` are history.
* `MCPeers`: `Relationships` and `Vetting`, each behaviour moving one of them.

The modules meet where the code does.  `SaveCoalesce` is the save behind
`saved` (Relationships, Membership), `disk` (VtaSync) and `kept` (VerifyQueue),
each of which takes "what was saved" as one step.  `VerifyQueue` is the detail
of the `held` list of `Relationships`.  `EachAsked` of `JoinPoll` is what
`Membership` assumes when it calls its polls fair, and `PromptlyCarried` of
`SyncDriver` what `VtaSync` assumes of its cycles.  `Listeners` is the detail of
`net` in `Sessions`.

## 3. Runs

Runs that pass:

| Run | Shows | Bounds, and why they are enough |
|---|---|---|
| `save_config` | no mark lost, clean exit durable, keys before records, every mark reaches the disk unless the session ends, shutdown ends | 4 versions: an older save in flight, a newer mark, a forced save and one after a restart; 2 faults: a failure and the failure of its retry |
| `sync_record` | a base is a version the VTA had; a device at rest holds what the VTA holds; an unsynced edit is kept or reported; newer builds' records stay untouched | 2 devices, 1 record with 2 fields, 2 values; 4 edits with a fault, or 2 with a crash, a reap and a newer build |
| `sync_pages` | no write of a known kind between two pages is skipped; once edits and faults stop every running device agrees with the VTA on the kinds it knows | 2 records, one naming the other, and one of a kind the devices do not know; pages of one record; a restart with changes deferred, a reap that forces a snapshot, a lost answer, or a newer build's record in a feed or a snapshot; one value too large for the VTA |
| `membership` | only a credential admits; a live record is the one its persona resolves to; answers to id-less polls repair their own join; `Membership` implements `MembershipLifecycle`; an approved join does not stay Pending because a message was lost | 2 joins of one or of two personas; a loss, or a crash, or a renewal with a change at the community; 2 polls that ask for the credential again |
| `peers` | relationships: handshakes close, DIDs at both ends match, no message ends an established relationship, no VRC request waits for nothing.  Vetting: the two books agree on how every request ended; an application holds statements on its own cards and one identity; the desk keeps to its policy and its ticket; a statement that can be taken is taken | 2 requests, a removal, a dismissal; or a fault, a restart and a redelivery; or VRCs and pings.  2 vetting requests of one application and a desk with room for one, or 1 request and two applications; 2 sessions, 1 failed send, 2 messages under way, 2 identities.  Symmetric in the accounts and in the identities |
| `verify_queue` | caps and an exact per-sender book, order and single handling, survival with room on recheck, priority, drainage | a community and a stranger, 4 or 5 messages, caps of 1 to 3 so that each is reached, one restart, one redelivery, one change of membership each |
| `runtime` | cycles do not overlap and carry a change in time; each parked join is asked about; one process per profile; sessions serve the live memberships, the indicator settles; one socket at a time unless another caller opens one during a removal, claimed, not forgotten, and gone once removed; the Elections panel presents and casts only by choice and comes to rest | durations of 2 to 8 ticks in the order of the real ones; 3 joins, 1 poll per tick; 3 processes; 2 personas, 2 communities, a cap of 1 session, a channel of 1; 2 release timers; 2 elections with one question, one held by the panel's community and one put to it, both tickets held or none, 4 turns (`MaxTurns`: a vote started, and the way back from its confirmation to the list) |

The `Budgets` constants bound how often each kind of thing happens in one
behaviour; every behaviour takes one of the listed budgets, so that rare events
meet without their product growing.

`CHECK_DEADLOCK FALSE` is set because the program may stop and, within the
bounds, nothing may be left to do.

Runs that find a violation, each a disagreement of the code with what the
repository says of it (quoted in `PROJECT.json`, "findings"):

* `save_forced`: a passphrase change or export reports success, then the older
  snapshot of a background save that was still being written lands last, and
  the scheduler takes everything for saved.
* `sync_resurrect`: a record held in `deferred`, deleted elsewhere and reaped,
  comes back at the next launch and no later sync removes it.
* `mem_rejoin`: a persona that joins again while its ended record is kept has
  two records, and every lookup finds the ended one.
* `listener_forgotten`: a persona whose claim was refused at first is granted it
  later, the connect that follows fails, and no list names the listener any more.
* `election_box`: a member confirms a ballot, goes back and opens another
  election before the VTA has built the cast; the cast goes to the ballot box of
  the election on screen, whose answer ends it.

The passing runs excuse these cases, and those of section 5 that are marked so,
by history variables (`upset`, `raced`, `early`, `crossed`, `excused`, `cut`,
`stripped`, `forgot`, `overlap`, `overwritten`, `restored`), so everything else is checked
around them.

Fairness.  `SaveCoalesce`: the loop's `select!` keeps taking enabled arms and
the writer threads run (weak fairness of each).  `VtaSync`: the exchange task
runs, its result wakes the loop, and the driver's 60 s pull keeps starting
cycles.  `VerifyQueue`: `JOB_TIMEOUT` ends every check and `select!` is random
among ready arms, so a finished check is taken although backlog retries come in
between (strong fairness of `Return`); the tick fires and minutes pass (weak).
`Membership`: the status poll comes back to every pending join (`EachAsked`)
and the mediator delivers what it stored (weak fairness of `PollJoin` and of the
arrival of status answers and credentials; losses are bounded by the budget).
`JoinPoll` and `Sessions`: the 60 s and 15 s intervals of the loop keep firing.
`Elections`: jobs end, as their calls have timeouts, and the tick comes; weak
fairness of all of these together is enough, neither community nor member owes
a step.
`Relationships`, `Vetting`, `ProcessLock`, `SyncDriver` and `Listeners` are
checked for safety only; in `SyncDriver` the deadline is part of the state.

## 4. Proofs

45 theorems in eight modules, on 630 lemmas; 43 of them are listed in
`PROJECT.json`, the other two (`Inductive`, `LockTypeCorrect`) are steps towards them.  Type correctness is proved for
`SaveCoalesce`, the six machines of `MCRuntime` (`MachinesTypeCorrect` is the
type invariant of their run), `Relationships`, `VerifyQueue`, and, as part of
their theorems, for `Membership`, `Vetting` and `VtaSync`.  Every safety
invariant and action property of the passing runs is stated by a theorem; where
a theorem has a hypothesis, it is named below.

Every inductive invariant was checked by TLC before it was proved, on the
instances of the runs or larger ones: `MembershipInv` on 586,262 states;
`ElectionsInv` on 426,606; those
of `Vetting` on four instances of 145 to 501 thousand; that of `VerifyQueue` on
the 412,853 of its run; that of `Relationships`
and its extension `Channels` on 622,635; `ReadInv` of `VtaSync`
on 2,139,714 (one record, nothing stored at first), 1,334,482 (one record
stored) and 2,432,271 (two records, one naming the other).

`SaveCoalesceProofs` proves, for every `MaxVersion` and `MaxFaults`, that
`Spec` implies always `TypeOK` (`TypeCorrect`), `NoLostMark` (`MarksKept`),
`CleanExitDurable` (`ExitDurable`) and `KeysBeforeRecords`
(`KeysCoverRecords`).  The constants are assumed to be natural numbers.  None
of these is inductive alone.  The inductive invariant
`IInv == TypeOK /\ ThreadsTracked /\ VersionsOrdered /\ KeysFirst /\
MarksCovered /\ CleanExitDurable` adds: which writer runs follows from the
scheduler's flags and the loop's position (`ThreadsTracked`); nothing on disk
or in a writer is newer than the live config (`VersionsOrdered`); a writer past
its secrets step has put its version in the credential store (`KeysFirst`);
what is owed and not on disk is dirty, or in the version of a running writer
(`MarksCovered`).  The proof has one step per action and conjunct.

`VtaSyncProofs` proves, for every set of fields and values, what the merge
promises: a one-sided change is taken as it is (`OneSidedChange`); a local edit
is in the result or in the conflicts (`LocalEditKeptOrReported`); the VTA's
change of a field wins where both sides hold the record (`RemoteChangeTaken`);
without a conflict the result does not depend on which side is local
(`NoConflictSameEverywhere`).  Then, for any number of devices and records:

* `BaseHonest`, `NewerBuildUntouched` and `EditsKeptOrReported` hold always
  (`BaseHonestAlways`, `NewerBuildUntouchedAlways`,
  `EditsKeptOrReportedAlways`).  The invariant `HonestInv` is about readings: a
  reading of a record is honest when, as long as nothing newer is written, it is
  what the VTA holds.  Every base, every deferred record and everything an
  exchange has pulled or been told of a lost race is honest, and an exchange was
  planned from the bases the config still has.  A step of the VTA keeps honest
  readings honest because it only writes above its counter (`Later`), whatever
  devices do meanwhile; that is what makes late answers and old saves harmless.
* `NothingSkipped` and `AtRestAgrees`, which speak of the kinds of record this
  build knows, hold always, provided that a snapshot
  meets a base for every record it finds deferred (`SnapshotsMeetBases`;
  `NothingSkippedAlways`, `AtRestAgreesAlways`).  `ReadInv` adds that what a
  device was told last of a record is all that was written up to its watermark
  (`ReadConfig`; `Reads` claims nothing of a record of an unknown kind), and what an exchange has told it so far all up to the page it
  has reached (`Reading`).  The hypothesis cannot be dropped: without it
  `AtRestAgrees` is false, as run `sync_resurrect` shows.  It is a hypothesis
  about a behaviour, not an assumption on constants; a snapshot that meets no
  deferred record satisfies it, and so does one where the record had been synced
  before.

The search for the invariant showed that `AlreadyAtVta`, by which
`EditsKeptOrReported` excuses a loss, has to look at what the whole pull said of
a record (`PulledRecs`): a local deletion that a snapshot's missing record agrees
with is then overwritten by the record of a lost race, and nothing is clobbered.
Assumed: `Absent` and `Root` are no values or fields, and `None` is no number,
record or answer (`Merge3Assumption`, `SyncAssumption`, `NoneIsNothingElse`).

`MembershipProofs` proves, for any number of personas and joins:
`AdmittedByCredential` and `AnswersFindTheirJoin` for every behaviour,
`LiveResolvable` and the refinement `KeepsLifecycle` while no persona joins
again over an ended record of its own (`~left.rejoins`, fixed at the start of a
behaviour).  With such a join the two are false: run `mem_rejoin` shows the
first, and a verdict on the new request that ends the old record a second time
the other (TLC finds it in seven steps).  The invariant `MembershipInv` says of the account's book, live and saved alike, that
every record belongs to one join, that an id it has was given to that persona's
request, and that an Active one holds a credential issued to its persona
(`Book`); of every message under way, that it names the request it is about
(`Addressed`); and that the saved book is behind the live one, never beside it
(`Behind`).  The refinement is proved step by step: each action takes every join
by a step of `MembershipLifecycle` or leaves it, `Save` and `Restart` are its
`Save` and `Restart`.

`VettingProofs` proves `SidesAgree`, `OneIdentity` and `StatementsTaken` for any
number of requests, sessions, applications and identities.  `BooksInv` follows
each document through the message or job that carries it: a job is about an
entry in the state it says (`VetterJobInv`), a request under way is not yet on
the desk (`RequestLetters`, `Asking`), a statement that exists was signed and
its entry is attested, or its send failed (`Signed`, `Attested`), and the same
of declines.  `IdentityInv` adds that a card recorded with a request shows the
identity of its application.  `TakenInv` says where a card can be while the
statement it may earn still counts (`CardsPlaced`), that a session has one card
and a card one statement (`CardNumbers`, `OneStatement`), and that no job can
make a card with another identity meanwhile (`IdentityKept`).  Assumed:
`Nothing` is no card and no job (`NothingIsNothingElse`).

`RelationshipsProofs` proves `HandshakeCloses`, `VrcRequestsAnswered` and the
action property `EstablishedSurvivesMessages` for any number of accounts (the
runs have two), inbox sizes, requests, restarts, losses and repetitions.  The
invariant `Inv` follows every thread from its start to its end.  Where things
are: a message is under way or held at most once (`Once`), what a restart brings
back differs from the live records only where a thread was cut or its job still
runs (`OnDisk`), and a Create job's record is the latest (`Latest`).  Where they
come from: a thread has one start, and every message, task and job follows the
message it answers (`Origins`).  What has happened once does not happen again: a
request that is under way, waits as a task or is being answered has no answer
yet (`AnsweredOnce`).  Then, step by step, a request whose thread was not cut is
answered or its record still waits (`Asked`), an accept is under way to such a
record or was finalized (`Closing`), a finalize is under way or its acceptance
no longer waits (`Finished`); the same for VRC requests (`VrcAsked`, `VrcDone`,
`VrcOnce`).  Most actions fall into one of three classes, each shown to keep all
of this once: steps that only record or cut (`Rests`), steps that start a job
(`Begins`), and the handling of a message (`Takes`); the sends (`JobSends`) are
the fourth.  The proof was preceded by a correction:
with an inbox of one task TLC refuted `VrcRequestsAnswered`, because a request
that meets a full inbox is dropped (`SH/message_dispatch.rs:2057`); `early` now
counts it.  Assumed: `None` is no DID, record or job (`NoneIsNothingElse`).

`ChannelsProofs` adds `ChannelsMatch`: both ends of an established relationship
are in one handshake and hold each other's DIDs.  `Channels`, on top of `Inv`,
says that tasks, jobs and records name the DIDs of their thread's request and
acceptance (`TasksName`, `JobsName`, `RecordsName`; a record's own DID may be
its outcome's to write yet), that who asked or accepted has a record of that
thread, unless it was rejected or the outcome is still to come (`AskerKnows`,
`AccepterKnows`), and that two accounts never both accept a request of the other
(`NotBoth`).  If the two ends were in different threads, each would have asked in
its own and still be accepting the other's, which `NotBoth` excludes; it holds
because an accepted request meets the record of its asker, and no request is
admitted beside a record.

`RuntimeProofs` holds the proofs of the loop's own components, one after the
other.  Of `Sessions` it proves the cap and type correctness (`SessionsTypeCorrect`) and
`SessionForLive`, for any number of communities and any finite set of personas
(finite because sessions are counted).

Of `ProcessLock` it proves `OneInstance` for any number of processes that start,
exit and crash at any step.  The invariant `LockInv` says that a number in the
file or read from it is that of a process that has run (`NumbersHaveRun`), that
only the file of a process that is gone is taken over (`TakenFromTheDead`), and
that, unless a changed file was taken for a stale one, the file names its owner
and there is one (`FileOfOwner`, `OneOwner`).  Assumed: process numbers are
distinct from the two markers of the file.

Of `SyncDriver` it proves `OneCycle` and `PromptlyCarried` for all durations
with `MinGap <= BackoffMax` and `PullEvery <= BackoffMax` (both true of the
code's).  The invariant adds that a change no exchange carries is asked for or
will be met by the timed pull (`Asked`), and that what it has waited and what it
still has to wait stay within the limit (`Patience`).

Of `Listeners` it proves `OneSocket`, `ClaimedWhileOpen`, `NeverForgotten` and
`RemovedStaysRemoved` for any number of release timers.  `OneSocket` is inductive
with the types: two callers never connect at once, and the socket a removal
closes is the only one, unless somebody else opened another meanwhile
(`overlap`).  `ClaimKept` says that while
a socket is open or about to be, the claim is ours, no release is on its way and
a renewal task looks after it; `OnSomeList` that a rebuild is on the supervisor's
list, a wanted, missing listener on some list or in somebody's hands, those of a
renewal that is closing it to put it back included, and that such a renewal
knows what it closes for.

Of `Elections` it proves `OnlyByChoice` for any elections, communities, turns and
order of answers.  `ElectionsInv` gives every request, step and job its shape and
says what it was meant for (`Meant`): while a membership is presented, what is on
screen, asked or to be asked is an election chosen for it (`PendingMeant`,
`NextMeant`), and a ballot or cast on its way, whichever screen it left from, is of
a confirmed election.  Each helper (`send`, `ask_vta`, `deliver`, `read_election`,
`TakeNext`, `advance`) is shown once to keep this, then each key and each answer.
Of `JoinPoll` it proves the bounds (`PacerTypeCorrect`).

`VerifyQueueProofs` proves `TypeOK`, `OrderPerSender`, `CommunityMessagesSurvive`
and `StrangersNeverDelay` for any senders, caps, request rate, restarts,
redeliveries and changes of membership.  Its first part is about the verifier
alone, as operators on its state: what `enqueue`, `finished` and `start_next` do
to the lanes, the book and who is checked next.  The invariant `Inv` says that
the book is exact and a sender waits in one lane (`Counted`, `OneLane`), the lane
of its membership unless that changed (`Placed`); that the verifier is idle only
when nothing is queued (`Idle`); that nothing queued, kept or handled is newer
than what has come in (`Arrived`).  `Copies` says that the kept copies are
distinct and each is of a message that waits or is in the backlog, unless it is
late.  `Order` carries the order through: a sender's messages are in order in the
queue, on the kept list and in the backlog, after all it has had handled, and
those of the backlog after those of the queue.  `Survival` follows each message
of a community to the kept list or to what was handled.  That one which waited its
turn finds room when it is set aside again rests on the exact book: its own place
is free, and the head of the lane of priority, if any, has moved on
(`RoomForRecheck`).

The proof was preceded by two corrections.  The first conjunct of
`CommunityMessagesSurvive` was about every message refused, and on larger bounds
TLC refuted it in twelve steps: after two restarts a message still in the backlog
is delivered again to a full queue, and refused as it arrives.  It now speaks of a
message refused when it is set aside a second time (`dropped`), which is what the
code promises.  The second conjunct excuses no refusal on arrival any more.
Assumed: `None` is no sender and no check.

Model-checked only: all liveness (`MarksPersist`, `ShutdownEnds`, `Converges`,
`ApprovedJoinCompletes`, `Drains`, `EachAsked`, `StatusSettles`,
`PanelSettles`), which is out of the prover's reach; and the refutations of the
five violation runs.

## 5. Observations

Seen while modelling, and not stated as properties of a run:

* Two saves that overlap can leave a newer file beside older secrets
  (`CORE/config/saving.rs:190`); `KeysBeforeRecords` excuses them by `raced`.
* When the load budget runs out, the report collected so far is replaced by one
  that holds only an error, while its merges stay (`CORE/config/loading.rs:824`).
* A lost answer to a push makes a device's own older write conflict with its
  own newer edit (`CORE/vta_sync/mod.rs:541`).
* Requests that cross leave both sides in `RequestSent`.  Accepting an old
  inbound request overwrites an `Established` record.  A restart between
  sending an accept with a fresh DID and recording it leaves the DIDs
  mismatched.
* A message that waited its turn and then needs a check is queued behind its
  sender's later messages (`SH/message_dispatch.rs:917`); meanwhile a stranger's
  check may start before it, and if the message is a stranger's whose lane is
  full it is dropped.  A message left in the backlog by the request rate is
  overtaken by newer ones of its sender, and delivered again at that moment it
  is handled twice.  `OrderPerSender` excuses these by `late`.
* A finalize handled before the outcome of our accept is applied finds no record
  and is dropped (`SH/message_dispatch.rs:1921`): the acceptor stays in
  `RequestAccepted`, although `docs/openvtc-config-data-structure.md:362` says
  "`RequestAccepted` -> `Established` (when requestor finalizes)".  For the
  requestor a provisional record closes the same race
  (`SH/relationship_actions.rs:1297`).  Excused by `early`.
* The outcome of a request writes its DID into the record of the peer's request
  that was accepted meanwhile (excused by `crossed`).
* A VRC received over a relationship DID is filed under that DID and stays when
  the relationship is removed (`SH/inbox_actions.rs:43`).
* A record of a kind this build does not know is skipped, neither in the base
  nor in `deferred`, and the watermark goes past it (`CORE/vta_sync/mod.rs:505`,
  619): after an upgrade it is not pulled again until somebody writes it anew or
  a reap forces a snapshot, although `CORE/vta_sync/mod.rs:61` says "A record from
  a newer build is held, untouched, until a build that understands it runs".
  `NothingSkipped`, `AtRestAgrees` and `Converges` therefore speak of known kinds.
* A setting edited in the degraded loop is only marked, and that loop has
  neither a deadline arm nor a flush at exit (`SH/mod.rs:3605` against 3046).

Memberships:

* A late status answer for another persona's request is adopted by the only
  join that is unconfirmed (`CORE/config/account.rs:1292`).
* A credential that lands on an unconfirmed record is answered with one that
  names the placeholder id (`CORE/messaging.rs:222`, `CORE/join.rs:173`).
* The late credential of an earlier join admits a later one; a leave in flight
  is applied to whatever record the persona has by then.
* After a crash that takes an Active record back to Pending, with the
  acknowledgement already sent, only a renewal by hand helps.

Runtime:

* `JoinPoll`: the pacing of the only pending join survives its resolution and a
  new join of the same persona (`due` is not called without candidates), against
  the comment at `SH/join_status_poll.rs:117`.  More than 60 parked joins would
  starve the last; `PacerAssumption` excludes it.
* `ProcessLock`: two starts on one stale file both pass, also when the holder
  exits between another's read and judgement (`CORE/process_lock.rs:90`, whose
  comment at 28 claims to avoid this).  A crash between creating and writing the
  file leaves an empty lock on which every later start fails.
* `SyncDriver`: a panic in the spawned exchange leaves `in_flight` set.
* `Sessions`: a listener that is removed emits no transition, so the indicator
  may stay "Connected" and `online_listeners` keep its id.  A community refused
  at the cap is not registered when a session frees up, though the log says so.
  A deletion refused because its row has changed deregisters the session all the
  same.
* `Listeners`: `remove_listener` promises to return with the socket closed, but
  takes the identity off first and closes without the connect lock
  (`CORE/didcomm.rs:673`, 346).  Another caller's add finds nothing installed and
  may open a second socket meanwhile, against "The mediator permits one websocket
  per DID" (`CORE/didcomm.rs:1090`).  `OneSocket` excuses it by `overlap`.
* `Listeners`: a listener removed for good while `close_for_collection` waits for
  the socket to close is put on the claims' list all the same
  (`CORE/didcomm.rs:581`) and comes back; so does one whose removal meets an
  add under way.  `intent` is then "either", and `RemovedStaysRemoved` and
  `NeverForgotten` claim nothing until the next outcome.
* `Listeners`: a release timer that fires while the renewal task closes the
  listener aborts it there.  The socket may stay open until the transport is
  dropped (`overlap`), and the spec it held is lost (`forgot`).
* `Listeners`: the release timer that fires while a new add holds its grant, or
  a release already sent, gives up the new claim (`cut`).  Closing for
  collection a listener that waits or is stranded, and a rebuild whose entry
  another caller's refusal cleared, lose it (`forgot`, `stripped`).  A release
  made by the renewal task aborts that task and may never be sent.
* "durable outbox" (`CORE/didcomm.rs:362`): the runtime is started with
  `InMemoryOutboxStore` (`CORE/didcomm.rs:462`).

Vetting:

* A statement that comes after its session's time is dropped: `prune`
  (`CORE/vetting/book.rs:2664`) takes the applicant's request back to accepted
  although its card went out; its comment says "close sessions nobody answered".
  The vetter keeps the card and may sign at any time.
* A statement that comes before the card's outcome is applied, or after an older
  session message has replaced the session, is dropped too; the vetter has
  signed and the applicant waits.
* A failed decline or statement puts its entry back without looking at the
  limit, so the desk can exceed `max_open_requests` (`restored`).
* A second withdrawal whose send fails forgets the first one, whose answer is
  then ignored (`SH/vetting_actions.rs:6646`).

Elections (an outcome is matched to the view by community and persona alone,
`SH/elections_actions.rs:1341`):

* Going back from the disclosure's read before it is signed resets the target,
  and the read is then signed for and sent to the panel's own community.
* A ticket found already held for one election answers the flow of a later one:
  the ballot screen opens without a ticket.
* With equal questions, the election under a confirmation can be replaced by a
  late answer, and what was filled in for one is cast in the other.
* A ticket accepted after going back is not in `tickets_taken`, so the warning
  that a vote follows its ticket too soon is missing.
* A late outcome replaces `next`; the flow whose step it was waits until the
  member goes back.  Opening the panel while the send lane is busy leaves the list
  Loading until r is pressed.

## 6. Not modelled

Within the modelled components: the join flow's and setup's own saves and the
debounce's length (SaveCoalesce); permanent sync errors, `put_new` and the
witness's reconcile (VtaSync); contacts, aliases, listeners, message age and
sizes, requests to oneself, more than two accounts (Relationships);
unauthenticated messages, which are dropped, and a kept message that a later
build no longer sets aside (VerifyQueue).  A crash that loses the latest kept
list is a matter of `SaveCoalesce`; `VerifyQueue` restarts after a clean exit.

Further: display data and acknowledgements' contents, more than one status
answer per join at a time (Membership); bulk start-up, shutdown with
`release_all`, the wait for the lists' locks inside a removal, the teardown that
goes on after the socket is closed, a clock that stops during suspend
(Listeners); identities that do not resolve are treated like a refusal at the cap
(Sessions); withdrawal, the life of tickets, directory, profiles, requirements,
hidden attestations, restarts and duplicates, the move of closed entries to the
record of who was vetted (Vetting); the editing of a ballot, what only the
screen shows, and the list of threads whose answers are admitted from strangers
(Elections).  A crash between a vetter's send and the
debounced save would let it sign twice.

The components marked `not_modelled` in `PROJECT.json` are of three kinds.
Rendering and input (`src/openvtc/src/ui/`, the pages' forms and view state, set-up
wizards, the command line) are most of the repository's lines; they hold no state
that outlives a screen and no protocol.  Formats, cryptography and external
services appear as arbitrary answers of the checks.  The request-and-reply views
(rooms, repositories, capabilities, notifications, agent names,
devices) keep nothing but the last answer and share the busy domains modelled in
`Relationships`.

## 7. Plan

1. Hidden vetting: enrolment and the token drip.
2. An abstract mailbox (per sender in order, nothing lost) that `VerifyQueue`
   implements outside the excused cases.
3. The other thread-keyed views (rooms, repositories, capabilities), which share
   the panel's pattern.
