---------------------------- MODULE ReplayPages ----------------------------
(***************************************************************************)
(* Historical replay (replay-pages.tsx): the page that chooses a period and *)
(* what to watch in it, the page that plays the timeline of what was        *)
(* watched and forks it, the form of an exact replay, and the page of the   *)
(* replay itself.  The URL says which of them is mounted.                   *)
(***************************************************************************)
EXTENDS PageHost

CONSTANTS
    Periods,      \* the periods on offer; two may be clipped to the same coverage
    Targets,      \* contracts and accounts that are active in every period
    Interactions  \* bound: the interactions of a timeline

ASSUME InteractionsAssumption == Interactions \in Nat \ {0}

ReplayCall(op) == [op |-> op, range |-> None, picked |-> {}, after |-> 0, out |-> "sent",
                   status |-> None, most |-> 0]
ActiveStatuses == {"executing"}
LoadingStatuses == {"indexing"}

\* ReplayPage: the end of the URL
ReplayRoutes == {"new", "audit", "timeline", "id"}
ReplayRoute(u) == CASE u = "timeline" -> "timeline" [] u = "id" -> "replay"
                    [] u = "audit" -> "exact" [] OTHER -> "when"

\* covered: the recorder has said what it covers; named: the contract in the URL,
\* which is selected from the start without having been looked for
FromUrl(t) == IF t = None THEN {} ELSE {[target |-> t, range |-> None]}
WhenMounted(t) == [at |-> "when", named |-> t, covered |-> FALSE, range |-> None, queried |-> FALSE,
    window |-> None, picked |-> FromUrl(t), looking |-> FALSE, busy |-> FALSE, calls |-> 0]
ExactMounted(mode) == [at |-> "exact", mode |-> mode, busy |-> FALSE, calls |-> 0]
ReplayMounted == [at |-> "replay", status |-> None, lost |-> FALSE, busy |-> FALSE, calls |-> 0]
TimelineMounted == [at |-> "timeline", status |-> None, events |-> 0, playhead |-> 0, playing |-> FALSE,
    lost |-> FALSE, busy |-> FALSE, calls |-> 0]

\* the call each page begins with
Mounting(route) ==
    CASE route = "when" -> /\ \E t \in (Sought \cap Targets) \cup {None} : page = WhenMounted(t)
                           /\ wire = {ReplayCall("coverage")}
      [] route = "exact" -> page \in {ExactMounted(m) : m \in {"transaction", "window"}} /\ wire = {}
      [] route = "replay" -> page = ReplayMounted /\ wire = {ReplayCall("replay")}
      [] route = "timeline" -> page = TimelineMounted /\ wire = {ReplayCall("load")}

\* clipped: the ledgers a period resolves to; known: how many interactions of
\* the timeline are indexed
ReplaysInit ==
    /\ \E u \in ReplayRoutes : Mounting(ReplayRoute(u))
    /\ \E clipped \in [Periods -> {"all", "some"}] :
         db = [clipped |-> clipped, known |-> 0, timeline |-> "indexing", replay |-> "executing"]

-----------------------------------------------------------------------------
(* The period and what was active in it (NewTimelinePage) *)

InWhen == page.at = "when"

\* the effect that looks for targets: when the period or the search changes
Look(p) ==
    /\ page' = [p EXCEPT !.looking = TRUE]
    /\ wire' = {r \in wire : r.op # "targets"} \cup {[ReplayCall("targets") EXCEPT !.range = p.range]}
    /\ UNCHANGED db

Ranged(p, range) ==
    IF range = page.range THEN Show(p) ELSE Look([p EXCEPT !.range = range])

\* The first answer sets a period; a failure leaves a message.
Covered(r, ok) ==
    /\ r \in wire /\ r.op = "coverage"
    /\ IF ~ok THEN Then(page, r, {})
       ELSE \E x \in Periods :
              /\ page' = [page EXCEPT !.covered = TRUE, !.range = db.clipped[x], !.looking = TRUE]
              /\ wire' = {[ReplayCall("targets") EXCEPT !.range = db.clipped[x]]}
              /\ UNCHANGED db

\* Mutant: what was selected in the former period stays selected
ChoosePeriodKeeping(range) ==
    /\ InWhen /\ page.covered /\ page.calls < MaxCalls
    /\ Ranged([page EXCEPT !.window = None, !.calls = @ + 1], range)

\* choosePeriod and applyCustomPeriod: what was found and selected is dropped;
\* the same ledgers again are not looked through again.
ChoosePeriod(range) ==
    /\ InWhen /\ page.covered /\ page.calls < MaxCalls
    /\ Ranged([page EXCEPT !.window = None, !.picked = {}, !.calls = @ + 1], range)

\* The targets of the former search stay until the answer.
SearchTargets ==
    /\ InWhen /\ page.range # None /\ page.calls < MaxCalls
    /\ Look([page EXCEPT !.queried = ~@, !.calls = @ + 1])

TargetsFound(r, ok) ==
    /\ r \in wire /\ r.op = "targets"
    /\ Then([page EXCEPT !.window = IF ok THEN r.range ELSE @, !.looking = FALSE], r, {})

\* at most 32 are selected; each is kept with the ledgers it was found in
ToggleTarget(t) ==
    /\ InWhen /\ page.window # None
    /\ LET x == [target |-> t, range |-> page.window]
       IN Show([page EXCEPT !.picked = IF \E y \in @ : y.target = t THEN {y \in @ : y.target # t} ELSE @ \cup {x}])

\* the timeline is created for the ledgers of the targets on display
CanWatch == InWhen /\ ~page.busy /\ page.covered /\ page.window # None /\ page.picked # {}
Watch ==
    /\ CanWatch
    /\ Call([page EXCEPT !.busy = TRUE],
            [ReplayCall("watch") EXCEPT !.range = page.window, !.picked = page.picked])

-----------------------------------------------------------------------------
(* The exact replay (NewReplayPage) *)

InExact == page.at = "exact"
ChooseReplayMode(m) == InExact /\ m # page.mode /\ Show([page EXCEPT !.mode = m])

\* filled: the fields of the mode are; a text that is no JSON fails like the call
CanReplay(filled) ==
    /\ InExact /\ ~page.busy
    /\ IF page.mode = "transaction" THEN "hash" \in filled ELSE {"start", "end", "contracts"} \subseteq filled
SubmitReplay(filled) == CanReplay(filled) /\ Call([page EXCEPT !.busy = TRUE], ReplayCall("create"))

-----------------------------------------------------------------------------
(* The replay (ReplayDetailPage) *)

InReplay == page.at = "replay" /\ page.status # None

\* every one and a half seconds while it is active
PollsReplay(p) == IF p.status \in ActiveStatuses THEN {ReplayCall("replay")} ELSE {}

ReplayArrives(r, heard) ==
    /\ r \in wire /\ r.op = "replay"
    /\ heard => r.out = "ok"
    /\ LET p == IF heard THEN [page EXCEPT !.status = r.status] ELSE [page EXCEPT !.lost = TRUE]
       IN Then(p, r, IF heard THEN PollsReplay(p) ELSE {})

CancelReplay == InReplay /\ page.status \in ActiveStatuses /\ Call(page, ReplayCall("cancel"))
ReplayCancelled(r) ==
    /\ r \in wire /\ r.op = "cancel" /\ r.out = "ok"
    /\ Then([page EXCEPT !.status = "cancelled"], r, {})

\* traces: the modified branch has some; a window names the transaction
CanAnalyzeReplay(traces, named) == InReplay /\ traces # {} /\ ~page.busy /\ (named \/ traces = {"exact"})
AnalyzeReplay(traces, named) ==
    /\ CanAnalyzeReplay(traces, named)
    /\ Call([page EXCEPT !.busy = TRUE], ReplayCall("analysis"))
Promote ==
    /\ InReplay /\ page.status = "success" /\ ~page.busy
    /\ Call([page EXCEPT !.busy = TRUE], ReplayCall("promote"))

-----------------------------------------------------------------------------
(* The timeline (TimelineDetailPage) *)

InTimeline == page.at = "timeline" /\ page.status # None
LastEvent(p) == IF p.events = 0 THEN 0 ELSE p.events - 1

\* one interaction to a page: a full page is followed by another
MoreFollow(r) == r.most > r.after

\* load collects all pages before it shows any, and is asked for again while
\* the timeline is not ready.
TimelineArrives(r, heard) ==
    /\ r \in wire /\ r.op = "load"
    /\ heard => r.out = "ok"
    /\ CASE ~heard -> Then([page EXCEPT !.lost = TRUE], r, {})
         [] heard /\ MoreFollow(r) -> Then(page, r, {[ReplayCall("load") EXCEPT !.after = r.after + 1]})
         [] OTHER -> Then([page EXCEPT !.status = r.status, !.events = r.most], r,
                          IF r.status \in LoadingStatuses THEN {ReplayCall("load")} ELSE {})

MovePlayhead(i) == InTimeline /\ Show([page EXCEPT !.playhead = i])
PlayOrPause == InTimeline /\ page.events # 0 /\ Show([page EXCEPT !.playing = ~@])

\* the timer that plays, and the effect that stops at the end
PlayheadMoves ==
    /\ InTimeline /\ page.playing /\ page.playhead < LastEvent(page)
    /\ Show([page EXCEPT !.playhead = @ + 1, !.playing = page.playhead + 1 < LastEvent(page)])
PlayingEnds ==
    /\ InTimeline /\ page.playing /\ page.events # 0 /\ page.playhead >= LastEvent(page)
    /\ Show([page EXCEPT !.playing = FALSE])

\* at the scrubber or an interaction, which both pause
SelectInteraction(i) == InTimeline /\ i < page.events /\ Show([page EXCEPT !.playhead = i, !.playing = FALSE])

CanForkTimeline == InTimeline /\ page.playhead < page.events /\ page.status = "ready" /\ ~page.busy
ForkTimeline ==
    /\ CanForkTimeline
    /\ Call([page EXCEPT !.busy = TRUE], [ReplayCall("fork") EXCEPT !.after = page.playhead])

\* What is created is shown instead of the page: that is left out.
Created(r) ==
    /\ r \in wire /\ r.op \in {"watch", "create", "promote", "analysis", "fork"}
    /\ Then([page EXCEPT !.busy = FALSE], r, {})

-----------------------------------------------------------------------------
(* The server *)

Indexed ==
    /\ db.timeline = "indexing" /\ db.known < Interactions
    /\ db' = [db EXCEPT !.known = @ + 1]
    /\ UNCHANGED <<page, wire>>
IndexReady ==
    /\ db.timeline = "indexing"
    /\ db' = [db EXCEPT !.timeline = "ready"]
    /\ UNCHANGED <<page, wire>>
ReplayEnds ==
    /\ db.replay = "executing"
    /\ db' = [db EXCEPT !.replay = "success"]
    /\ UNCHANGED <<page, wire>>
ServeReplay(r) ==
    /\ r.out = "sent" /\ r.op \in {"replay", "load", "cancel"}
    /\ db' = IF r.op = "cancel" /\ db.replay = "executing" THEN [db EXCEPT !.replay = "cancelled"] ELSE db
    /\ wire' = (wire \ {r}) \cup
         {[r EXCEPT !.out = "ok", !.status = IF r.op = "load" THEN db.timeline ELSE db.replay,
                    !.most = IF r.op # "load" THEN 0 ELSE IF db.known > r.after THEN r.after + 1 ELSE r.after]}
    /\ UNCHANGED page

ReplaysNext ==
    /\ page.at \in {"when", "exact", "replay", "timeline"}
    /\ \/ \E range \in {"all", "some"} : ChoosePeriod(range)
       \/ SearchTargets \/ Watch \/ CancelReplay \/ Promote
       \/ \E t \in Targets : ToggleTarget(t)
       \/ \E m \in {"transaction", "window"} : ChooseReplayMode(m)
       \/ \E filled \in {{"hash"}, {"start", "end", "contracts"}} : SubmitReplay(filled)
       \/ \E traces \in {{"exact"}, {"window"}}, named \in BOOLEAN : AnalyzeReplay(traces, named)
       \/ page.at = "timeline" /\ \E i \in {0, LastEvent(page)} : MovePlayhead(i)
       \/ \E i \in 0 .. Interactions - 1 : SelectInteraction(i)
       \/ PlayOrPause \/ PlayheadMoves \/ PlayingEnds \/ ForkTimeline
       \/ \E r \in wire :
            \/ ReplayCancelled(r) \/ Created(r) \/ ServeReplay(r)
            \/ \E yes \in BOOLEAN :
                 Covered(r, yes) \/ TargetsFound(r, yes) \/ ReplayArrives(r, yes) \/ TimelineArrives(r, yes)
       \/ page.at = "timeline" /\ (Indexed \/ IndexReady)
       \/ page.at = "replay" /\ ReplayEnds

-----------------------------------------------------------------------------
(* Properties *)

ReplaysTypeOK ==
    /\ page.at = "when" => page.window \in {None, "all", "some"}
    /\ page.at = "timeline" => page.events \in 0 .. Interactions

\* However the period and the search change, the targets on display were looked
\* for in the period that is chosen; and what is watched was found in the very
\* ledgers the timeline is made of, but for the contract the URL named, which
\* nobody looked for.
WatchesWhatWasFound == page.at = "when" =>
    /\ page.window \in {None, page.range}
    /\ \A x \in page.picked : x.range = page.range \/ x \in FromUrl(page.named)
    /\ \A r \in wire : r.op = "watch" => \A x \in r.picked : x.range = r.range \/ x \in FromUrl(page.named)

\* A replay that is shown as active is still being asked for, unless it could
\* not be read: even if an older answer has undone a cancellation.
ActiveIsPolled == page.at = "replay" =>
    (page.status \in ActiveStatuses => page.lost \/ InFlight({"replay"}))

\* A timeline that is shown as ready is shown with all its interactions, in
\* however many pages and between however many steps of the indexing they were
\* read; the playhead never passes the last, and a fork begins at one.
ReadyIsComplete == page.at = "timeline" =>
    /\ page.status = "ready" => page.events = db.known
    /\ page.playhead <= LastEvent(page)
    /\ \A r \in wire : r.op = "fork" => r.after < db.known
=============================================================================
