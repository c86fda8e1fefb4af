------------------------------ MODULE Elections ------------------------------
(***************************************************************************)
(* The Elections panel: a member takes a ticket to an election and votes.  *)
(* The loop owns the panel; the community, the member's VTA and the ballot *)
(* box are asked off the loop on a lane each, one job per lane, and every  *)
(* answer comes back as an outcome the loop applies to whatever the panel  *)
(* shows by then.  An answer only names the step that follows (next);      *)
(* advance takes it after each reply and outcome, and on the tick.         *)
(*                                                                         *)
(* An election stands for its manifest, its ballot box and its questions.  *)
(* What the member fills in is abstract: a draft is that of the election   *)
(* whose questions it answers.                                             *)
(***************************************************************************)
EXTENDS Naturals

CONSTANTS
    Ballots,        \* the elections
    HeldBy,         \* the community that holds each
    Audience,       \* the party each is put to
    Questions,      \* what each asks
    Homes,          \* communities the member can open the panel of
    MaxTurns,       \* bound: keys that leave a screen, start a flow or repeat one, and failures
    None

ASSUME ElectionsAssumption ==
    /\ None \notin Ballots
    /\ MaxTurns \in Nat

VARIABLES
    view,           \* ElectionsState::view, None while the panel is closed
    tickets_taken,  \* ElectionsState::tickets_taken, all within the timing window
    lanes,          \* the job of each dispatch domain
    connected,      \* whether there is a VTA
    tickets,        \* the tickets the VTA holds
    chosen,         \* history: elections the member chose to present a membership for
    confirmed,      \* history: elections whose ballot the member confirmed
    turns           \* how many of MaxTurns there were

electionVars == <<view, tickets_taken, lanes, connected, tickets, chosen, confirmed, turns>>

(* An election put to another party's members: its community shows it, and *)
(* admits a claim to its ticket, with a presentation of that membership.   *)
ToAnotherParty(e) == Audience[e] # HeldBy[e]
concerns(e, home) == home \in {HeldBy[e], Audience[e]}

Screens == {"list", "disclose", "detail", "ballot", "confirm", "result"}
Intents == {"view", "ticket", "vote"}
States == {"registration", "voting", "closed"}

(* A request to the community: what it is for, what it really asks about,  *)
(* and whether it carries a presentation.                                  *)
ListRequest(v, page) == [purpose |-> "list", e |-> None, about |-> None, intent |-> "view",
                         to |-> v.home, presents |-> FALSE, page |-> page]
ShowRequest(e, intent, to, presents) ==
    [purpose |-> "show", e |-> e, about |-> e, intent |-> intent, to |-> to, presents |-> presents, page |-> 1]
IssueRequest(e, about, to) ==
    [purpose |-> "issue", e |-> e, about |-> about, intent |-> "ticket", to |-> to, presents |-> FALSE, page |-> 1]

(* A ticket, a ballot, a cast or a receipt: of which election, and whose questions it answers. *)
Paper(e, answers) == [election |-> e, answers |-> answers]

NewView(home) ==
    [home |-> home, screen |-> "list", shown |-> None, form |-> None, target |-> home,
     presenting |-> None, opening |-> None, disclose |-> None, pending |-> None, flow |-> None,
     next |-> None, cast |-> None, loaded |-> FALSE, told |-> FALSE, due |-> FALSE]

NoJobs == [send |-> FALSE, vta |-> None, cast |-> None]

ElectionsInit ==
    /\ view = None /\ tickets_taken = {} /\ lanes = NoJobs
    /\ connected \in BOOLEAN /\ tickets \in SUBSET Ballots
    /\ chosen = {} /\ confirmed = {} /\ turns = 0

Listed(v) == {e \in Ballots : v.loaded /\ HeldBy[e] = v.home /\ ~ToAnotherParty(e)}
rows(v) == Listed(v) \cup {e \in Ballots : v.told /\ concerns(e, v.home)}

reset_target(v) ==
    [v EXCEPT !.target = v.home, !.presenting = None, !.opening = None, !.disclose = None]

----------------------------------------------------------------------------
(* Sending and asking.  A step is refused (taken = FALSE) when its lane is *)
(* busy; one that cannot be sent at all is taken, and ends the flow.       *)

Busy(v, l) == [taken |-> FALSE, view |-> v, lanes |-> l]
Taken(v, l) == [taken |-> TRUE, view |-> v, lanes |-> l]

(* Said where the view shows it: without a list to show, only the list failed. *)
fail(v, purpose) == IF purpose = "list" /\ Listed(v) = {} THEN v ELSE [v EXCEPT !.flow = None]

(* ok: the persona's keys are there, and a signed document is addressed to *)
(* the community it goes to.                                               *)
send(v, l, request, ok) ==
    IF v.pending # None THEN Busy(v, l)
    ELSE IF ~ok THEN Taken(fail(v, request.purpose), l)
    ELSE IF l.send THEN Busy(v, l)
    ELSE Taken([v EXCEPT !.pending = request], [l EXCEPT !.send = TRUE])

send_signed(v, l, request, document, ok) == send(v, l, request, ok /\ document.to = v.target)

(* A job carries the view it was asked for: its community and its target. *)
ask_vta(v, l, ask) ==
    IF ~connected THEN Taken([v EXCEPT !.flow = None, !.next = None], l)
    ELSE IF l.vta # None THEN Busy(v, l)
    ELSE Taken(v, [l EXCEPT !.vta = [home |-> v.home, community |-> v.target, ask |-> ask]])

(* Without an election on screen there is no ballot box: the step is dropped. *)
deliver(v, l, built) ==
    IF v.shown = None THEN Taken(v, l)
    ELSE IF l.cast # None THEN Busy(v, l)
    ELSE Taken(v, [l EXCEPT !.cast = [home |-> v.home, of |-> built, box |-> v.shown.e]])

refresh(v, l, ok) == send([v EXCEPT !.due = TRUE], l, ListRequest(v, 1), ok)

read_election(v, l, e, intent, ok) ==
    IF v.presenting # None
    THEN Taken([v EXCEPT !.next = [kind |-> "ReadPresenting", e |-> e, intent |-> intent]], l)
    ELSE send(v, l, ShowRequest(e, intent, v.target, FALSE), ok)

(* The step an answer called for. *)
TakeNext(v, l, n, ok) ==
    CASE n.kind = "Refresh" ->
           IF l.send \/ v.pending # None THEN Busy(v, l)
           ELSE LET r == refresh(v, l, ok) IN Taken(r.view, r.lanes)
      [] n.kind = "ListPage" -> send(v, l, ListRequest(v, 2), ok)
      [] n.kind = "ReadPresenting" ->
           ask_vta(v, l, [kind |-> "read", e |-> n.e, intent |-> n.intent])
      [] n.kind = "SendShowDocument" ->
           send_signed(v, l, ShowRequest(n.e, n.intent, v.target, TRUE), n, ok)
      [] n.kind = "SendIssueDocument" ->
           send_signed(v, l, IssueRequest(IF v.shown = None THEN None ELSE v.shown.e, n.e, v.target), n, ok)
      [] n.kind = "SendIssue" -> send(v, l, IssueRequest(n.e, n.e, v.target), ok)
      [] n.kind = "Deliver" -> deliver(v, l, n.of)
      [] n.kind \in {"Register", "Accept", "Vote", "Keep"} ->
           IF v.shown = None THEN Taken(v, l)
           ELSE ask_vta(v, l, [kind |-> n.kind, shown |-> v.shown.e, of |-> n.of])

ask_notified(v, l) ==
    IF ~v.due \/ v.flow # None THEN Busy(v, l)
    ELSE IF ~connected THEN Taken([v EXCEPT !.due = FALSE], l)
    ELSE IF l.vta # None THEN Busy(v, l)
    ELSE LET r == ask_vta(v, l, [kind |-> "notified"]) IN Taken([r.view EXCEPT !.due = FALSE], r.lanes)

(* A step whose lane was busy is kept for the next tick. *)
advance(v, l, ok) ==
    IF v = None THEN Taken(v, l)
    ELSE LET a == ask_notified(v, l) IN
         IF v.next = None THEN a
         ELSE LET r == TakeNext([a.view EXCEPT !.next = None], a.lanes, v.next, ok)
              IN IF r.taken THEN r ELSE Busy([r.view EXCEPT !.next = v.next], r.lanes)

(* n of the turns that are bounded. *)
Spent(n) == turns + n <= MaxTurns /\ turns' = turns + n

(* What the loop does after a reply, an outcome or the tick. *)
Advance(v, l, n) ==
    \E ok \in BOOLEAN :
        /\ ok \/ (v # None /\ v.next # None)
        /\ Spent(IF ok THEN n ELSE n + 1)
        /\ LET r == advance(v, l, ok) IN view' = r.view /\ lanes' = r.lanes

(* A key the loop services; r(ok) is what it does, or fails to send. *)
Does(r(_), n) ==
    \E ok \in BOOLEAN :
        view' = r(ok).view /\ lanes' = r(ok).lanes /\ Spent(IF ok THEN n ELSE n + 1)

----------------------------------------------------------------------------
(* The member's keys. *)

On(screen) == view # None /\ view.screen = screen
NoHistory == UNCHANGED <<tickets_taken, connected, tickets, chosen, confirmed>>

(* The view waits for nothing yet: opening it asks for the list. *)
Open(home) ==
    /\ view = None
    /\ LET Opened(ok) == refresh(NewView(home), lanes, ok) IN Does(Opened, 0)
    /\ NoHistory

Back ==
    /\ view # None /\ Spent(1)
    /\ view' = CASE view.screen = "list" -> None
                 [] view.screen = "disclose" -> [reset_target(view) EXCEPT !.screen = "list"]
                 [] view.screen = "detail" ->
                      [reset_target(view) EXCEPT !.screen = "list", !.shown = None, !.flow = None]
                 [] view.screen = "ballot" -> [view EXCEPT !.form = None, !.screen = "detail"]
                 [] view.screen = "confirm" -> [view EXCEPT !.screen = "ballot"]
                 [] view.screen = "result" -> [view EXCEPT !.screen = "detail"]
    /\ NoHistory /\ UNCHANGED lanes

(* From the list, the election that is highlighted; with the lane busy, the *)
(* list stays.                                                              *)
show_selected(v, l, e, ok) ==
    LET opened == IF e \in Listed(v) THEN reset_target(v)
                  ELSE [reset_target(v) EXCEPT !.target = HeldBy[e], !.opening = e]
        w == [opened EXCEPT !.screen = "detail", !.shown = None]
        r == send(w, l, ShowRequest(e, "view", w.target, FALSE), ok)
    IN IF r.taken THEN r ELSE Busy([r.view EXCEPT !.screen = "list"], r.lanes)

Show(e) ==
    /\ On("list") /\ view.pending = None /\ e \in rows(view)
    /\ LET Opened(ok) == show_selected(view, lanes, e, ok) IN Does(Opened, 0)
    /\ NoHistory

refresh_screen ==
    /\ view # None /\ view.pending = None
    /\ \/ /\ On("list")
          /\ LET Again(ok) == refresh(view, lanes, ok) IN Does(Again, 1)
       \/ /\ On("detail") /\ view.shown # None
          /\ LET Again(ok) == read_election(view, lanes, view.shown.e, "view", ok) IN Does(Again, 1)
       \/ /\ On("detail") /\ view.shown = None
          /\ \E e \in rows(view) : LET Again(ok) == show_selected(view, lanes, e, ok) IN Does(Again, 1)
    /\ NoHistory

start_flow(intent) ==
    /\ On("detail") /\ view.flow = None /\ view.pending = None /\ view.shown # None
    /\ connected
    /\ LET v == [view EXCEPT !.flow = [e |-> view.shown.e, intent |-> intent]]
           Started(ok) == LET r == read_election(v, lanes, view.shown.e, intent, ok)
                          IN IF r.taken THEN r ELSE [r EXCEPT !.view.flow = None]
       IN Does(Started, 1)
    /\ NoHistory

(* y on the disclosure. *)
present ==
    /\ On("disclose") /\ view.disclose # None
    /\ LET d == view.disclose IN
         IF ~connected
         THEN view' = [view EXCEPT !.disclose = None, !.screen = "list"] /\ UNCHANGED chosen
         ELSE /\ view' = [view EXCEPT !.disclose = None, !.target = HeldBy[d.e], !.presenting = Audience[d.e],
                                      !.screen = "detail", !.shown = None,
                                      !.next = [kind |-> "ReadPresenting", e |-> d.e, intent |-> d.intent]]
              /\ chosen' = chosen \cup {d.e}
    /\ UNCHANGED <<tickets_taken, lanes, connected, tickets, confirmed, turns>>

(* The draft as a ballot of the election on screen, and whether it is one: *)
(* of that election, with answers to its questions.                        *)
Ballot(v) == Paper(v.shown.e, v.form)
(* Defect: a ballot of another election passes when the questions are the same. *)
check_ballot_Answers(e, ballot) == Questions[ballot.answers] = Questions[e]
check_ballot(e, ballot) == ballot.election = e /\ Questions[ballot.answers] = Questions[e]

review ==
    /\ On("ballot") /\ view.form # None /\ view.shown # None
    /\ check_ballot(view.shown.e, Ballot(view))
    /\ view' = [view EXCEPT !.screen = "confirm"]
    /\ NoHistory /\ UNCHANGED <<lanes, turns>>

(* y on the confirmation. *)
cast ==
    /\ On("confirm") /\ view.flow = None /\ view.form # None /\ view.shown # None
    /\ view' = [view EXCEPT !.flow = [e |-> view.shown.e, intent |-> "vote"],
                            !.next = [kind |-> "Vote", of |-> Ballot(view)]]
    /\ Spent(IF view.shown.e \in confirmed THEN 1 ELSE 0)
    /\ confirmed' = confirmed \cup {view.shown.e}
    /\ UNCHANGED <<tickets_taken, lanes, connected, tickets, chosen>>

resend ==
    /\ On("result") /\ view.flow = None /\ view.cast # None
    /\ view' = [view EXCEPT !.flow = [e |-> IF view.shown = None THEN None ELSE view.shown.e, intent |-> "vote"],
                            !.next = [kind |-> "Deliver", of |-> view.cast]]
    /\ NoHistory /\ UNCHANGED <<lanes, turns>>

----------------------------------------------------------------------------
(* The community. *)

Answered(v) == [v EXCEPT !.pending = None]

(* A lane is freed by the outcome of its job; while it was busy the view   *)
(* could wait for no other request, so a failure is that of the one it     *)
(* still waits for, or of none.                                            *)
SendDone(left) ==
    /\ lanes.send
    /\ LET v == IF left \/ view = None THEN view
                ELSE IF view.pending = None THEN view
                ELSE fail(Answered(view), view.pending.purpose)
       IN Advance(v, [lanes EXCEPT !.send = FALSE], IF left THEN 0 ELSE 1)
    /\ NoHistory

(* The request that waits is answered; every other answer is dropped. *)
Waits(purpose) == view # None /\ view.pending # None /\ view.pending.purpose = purpose

ListReply(last) ==
    /\ Waits("list") /\ (view.pending.page = 2 => last)
    /\ Advance(IF last THEN [Answered(view) EXCEPT !.loaded = TRUE]
               ELSE [Answered(view) EXCEPT !.next = [kind |-> "ListPage"]], lanes, 0)
    /\ NoHistory

(* An election read for a ticket or a vote goes on to the VTA, while tickets *)
(* can be taken.                                                             *)
after_show(v) ==
    IF v.shown.state = "closed" THEN [v EXCEPT !.flow = None]
    ELSE [v EXCEPT !.next = [kind |-> "Register", of |-> Paper(None, None)]]

ShowReply(state) ==
    /\ Waits("show")
    /\ ToAnotherParty(view.pending.about) => view.pending.presents
    /\ LET v == [Answered(view) EXCEPT !.shown = [e |-> view.pending.e, state |-> state]]
       IN Advance(IF view.pending.intent = "view" THEN v ELSE after_show(v), lanes, 0)
    /\ NoHistory

TicketIssued ==
    /\ Waits("issue")
    /\ Advance([Answered(view) EXCEPT !.next = [kind |-> "Accept", of |-> Paper(view.pending.about, None)]], lanes, 0)
    /\ NoHistory

(* A refusal ends the flow; one that does not know a notified election     *)
(* offers the read that presents the membership it is put to.              *)
RefusalReply(unknown) ==
    /\ view # None /\ view.pending # None
    /\ LET p == view.pending IN
         Advance(IF /\ unknown /\ p.purpose = "show" /\ view.presenting = None
                    /\ view.opening = p.e /\ ToAnotherParty(p.e)
                 THEN [Answered(view) EXCEPT !.flow = None, !.screen = "disclose",
                                             !.disclose = [e |-> p.e, intent |-> p.intent]]
                 ELSE fail(Answered(view), p.purpose), lanes, 0)
    /\ NoHistory

----------------------------------------------------------------------------
(* The VTA.  What it does for a job, and what it answers, happen at once: *)
(* nothing else looks at its tickets.                                     *)

VtaJob(kind) == lanes.vta # None /\ lanes.vta.ask.kind = kind

(* An outcome is for the view of its community, whatever that shows by now. *)
ForView(job) == view # None /\ view.home = job.home
VtaOutcome(v, n) == Advance(IF ForView(lanes.vta) THEN v ELSE view, [lanes EXCEPT !.vta = None], n)

Notified ==
    /\ VtaJob("notified")
    /\ VtaOutcome([view EXCEPT !.told = TRUE], 0)
    /\ NoHistory

ReadSigned ==
    /\ VtaJob("read")
    /\ VtaOutcome([view EXCEPT !.next = [kind |-> "SendShowDocument", e |-> lanes.vta.ask.e,
                                         intent |-> lanes.vta.ask.intent, to |-> lanes.vta.community]], 0)
    /\ NoHistory

(* The ticket is held already: a vote goes on to the ballot. *)
AlreadyHeld(v) ==
    LET w == [v EXCEPT !.flow = None]
    IN IF v.flow # None /\ v.flow.intent = "vote" /\ v.shown # None /\ v.shown.state = "voting"
       THEN [w EXCEPT !.form = v.shown.e, !.screen = "ballot"]
       ELSE w

Registered ==
    /\ VtaJob("Register")
    /\ LET e == lanes.vta.ask.shown IN
         VtaOutcome(IF e \in tickets THEN AlreadyHeld(view)
                    ELSE [view EXCEPT !.next =
                            IF ToAnotherParty(e)
                            THEN [kind |-> "SendIssueDocument", e |-> e, to |-> lanes.vta.community]
                            ELSE [kind |-> "SendIssue", e |-> e]], 0)
    /\ NoHistory

(* What the VTA has to refuse: a ticket of another election than it is     *)
(* shown, and a vote without a ticket; a ballot of another is not sent.    *)
Impossible(ask) ==
    \/ ask.kind = "Accept" /\ ask.of.election # ask.shown
    \/ ask.kind = "Vote" /\ (~check_ballot(ask.shown, ask.of) \/ ask.shown \notin tickets)

TicketAccepted ==
    /\ VtaJob("Accept") /\ ~Impossible(lanes.vta.ask)
    /\ tickets' = tickets \cup {lanes.vta.ask.shown}
    /\ VtaOutcome([view EXCEPT !.flow = None, !.next = [kind |-> "Refresh"]], 0)
    /\ tickets_taken' = IF ForView(lanes.vta) /\ view.flow # None
                        THEN tickets_taken \cup {view.flow.e} ELSE tickets_taken
    /\ UNCHANGED <<connected, chosen, confirmed>>

Voted ==
    /\ VtaJob("Vote") /\ ~Impossible(lanes.vta.ask)
    /\ LET built == Paper(lanes.vta.ask.shown, lanes.vta.ask.of.answers) IN
         VtaOutcome([view EXCEPT !.form = None, !.cast = built, !.screen = "result",
                                 !.next = [kind |-> "Deliver", of |-> built]], 0)
    /\ NoHistory

(* Kept or not, the vote is over. *)
Kept ==
    /\ VtaJob("Keep")
    /\ VtaOutcome([view EXCEPT !.flow = None, !.cast = None], 0)
    /\ NoHistory

(* Busy, or not answered in time: a ticket may have been taken all the same. *)
VtaError ==
    /\ lanes.vta # None /\ lanes.vta.ask.kind # "Keep"
    /\ LET ask == lanes.vta.ask IN
         /\ VtaOutcome(IF ask.kind = "notified" THEN view
                       ELSE [view EXCEPT !.flow = None, !.screen = IF ask.kind = "Vote" THEN "ballot" ELSE @],
                       IF Impossible(ask) THEN 0 ELSE 1)
         /\ \/ UNCHANGED tickets
            \/ ask.kind = "Accept" /\ ~Impossible(ask) /\ tickets' = tickets \cup {ask.shown}
    /\ UNCHANGED <<tickets_taken, connected, chosen, confirmed>>

----------------------------------------------------------------------------
(* The ballot box. *)

CastOutcome(v, n) ==
    Advance(IF ForView(lanes.cast) THEN [v EXCEPT !.screen = "result"] ELSE view,
            [lanes EXCEPT !.cast = None], n)

(* Only the cast's own ballot box answers it with a receipt. *)
OwnBox == lanes.cast.box = lanes.cast.of.election

Receipt ==
    /\ lanes.cast # None /\ OwnBox
    /\ CastOutcome([view EXCEPT !.next = [kind |-> "Keep", of |-> lanes.cast.of]], 0)
    /\ NoHistory

(* Only a cast that was not answered can be sent again. *)
CastFails(lost) ==
    /\ lanes.cast # None
    /\ CastOutcome([view EXCEPT !.flow = None, !.cast = IF lost THEN lanes.cast.of ELSE None],
                   IF OwnBox \/ lost THEN 1 ELSE 0)
    /\ NoHistory

----------------------------------------------------------------------------
(* The loop. *)

(* Defect: an unanswered request is never given up. *)
tick_NoWindow(expires) ==
    /\ view # None /\ ~expires
    /\ Advance(view, lanes, 0)
    /\ NoHistory

(* A request may wait for REPLY_WINDOW. *)
tick(expires) ==
    /\ view # None /\ (expires => view.pending # None)
    /\ Advance(IF expires THEN fail(Answered(view), view.pending.purpose) ELSE view, lanes, 0)
    /\ NoHistory

(* A job that panicked ends what the panel has under way. *)
job_lost(lane) ==
    /\ lanes[lane] # NoJobs[lane]
    /\ Advance(IF view = None THEN view ELSE [view EXCEPT !.pending = None, !.flow = None, !.next = None],
               [lanes EXCEPT ![lane] = NoJobs[lane]], 1)
    /\ NoHistory

Key ==
    \/ \E h \in Homes : Open(h)
    \/ Back \/ refresh_screen \/ present \/ review \/ cast \/ resend
    \/ \E e \in Ballots : Show(e)
    \/ \E i \in {"ticket", "vote"} : start_flow(i)

SendEnds == \E left \in BOOLEAN : SendDone(left)
VtaEnds == Notified \/ ReadSigned \/ Registered \/ TicketAccepted \/ Voted \/ Kept \/ VtaError
CastEnds == Receipt \/ \E lost \in BOOLEAN : CastFails(lost)

ElectionsNext ==
    \/ Key \/ SendEnds \/ VtaEnds \/ CastEnds
    \/ \E last \in BOOLEAN : ListReply(last)
    \/ \E s \in States : ShowReply(s)
    \/ TicketIssued
    \/ \E unknown \in BOOLEAN : RefusalReply(unknown)
    \/ \E expires \in BOOLEAN : tick(expires)
    \/ \E lane \in DOMAIN NoJobs : job_lost(lane)

(* Jobs end, their calls being bounded by timeouts, and the tick keeps      *)
(* coming: something moves while something can.  Neither the community nor  *)
(* the member owes anything.                                                *)
LoopMoves == SendEnds \/ VtaEnds \/ CastEnds \/ \E expires \in BOOLEAN : tick(expires)
ElectionsFairness == WF_electionVars(LoopMoves)

ElectionsSpec == ElectionsInit /\ [][ElectionsNext]_electionVars

----------------------------------------------------------------------------
Requests == [purpose : {"list", "show", "issue"}, e : Ballots \cup {None}, about : Ballots \cup {None},
             intent : Intents, presents : BOOLEAN, page : {1, 2}]

(* One job per lane, and a view that waits for one request: what it shows, *)
(* the flow and the draft are of elections there are, the draft's screens  *)
(* come with an election on screen, and nothing is asked without a VTA.    *)
ElectionsTypeOK ==
    /\ tickets_taken \subseteq Ballots \cup {None} /\ tickets \subseteq Ballots
    /\ lanes.send \in BOOLEAN /\ (lanes.vta # None => connected)
    /\ turns \in 0..MaxTurns
    /\ view # None =>
         /\ view.screen \in Screens /\ view.home \in Homes
         /\ view.shown # None => view.shown.e \in Ballots /\ view.shown.state \in States
         /\ view.flow # None => view.flow.e \in Ballots \cup {None} /\ connected
         /\ view.pending # None => [f \in DOMAIN view.pending \ {"to"} |-> view.pending[f]] \in Requests

(* Whatever comes back late, and to whichever screen: a membership is      *)
(* presented only to read an election the member chose to present it for   *)
(* (present), and a cast is built and sent only for an election whose      *)
(* ballot the member confirmed (cast, vote_payload).                       *)
OnlyByChoice ==
    /\ ElectionsTypeOK
    /\ view # None /\ view.pending # None /\ view.pending.presents => view.pending.about \in chosen
    /\ lanes.vta # None /\ lanes.vta.ask.kind = "read" => lanes.vta.ask.e \in chosen
    /\ lanes.cast # None => lanes.cast.of.election \in confirmed
    /\ view # None /\ view.cast # None => view.cast.election \in confirmed

(* The panel always comes to rest again, also while the member works: every *)
(* request is answered or given up after REPLY_WINDOW, every job ends, and *)
(* a step that found its lane busy is taken (tick, advance).               *)
AtRest == lanes = NoJobs /\ (view # None => view.pending = None /\ view.next = None)
PanelSettles == []<>AtRest

(* A cast goes to its own election's ballot box (deliver, deliver_cast). *)
CastToItsBox == lanes.cast # None => OwnBox
=============================================================================
