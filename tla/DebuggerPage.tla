---------------------------- MODULE DebuggerPage ----------------------------
(***************************************************************************)
(* The debugger of one analysis (DebuggerPage of project-pages.tsx).  It    *)
(* waits for the analysis of a recorded execution, then starts a debugger   *)
(* for it, then reads the timeline page by page and moves over its events.  *)
(*                                                                         *)
(* refresh is called by the first effect, by a button, by a timer, and once *)
(* more whenever the page begins or ends to start the debugger, so several  *)
(* may be under way at a time.                                             *)
(***************************************************************************)
EXTENDS PageHost

CONSTANT
    Events        \* bound: the events of a recorded execution, one to a page

ASSUME EventsAssumption == Events \in Nat \ {0}

Positions == 0 .. Events - 1
Over == {"failed", "cancelled"}

\* starting: the page was starting the debugger when refresh began
DebugCall(op) == [op |-> op, starting |-> FALSE, cursor |-> 0, append |-> FALSE, out |-> "sent",
                  analysis |-> None, debugger |-> None]

\* depth: how deep in the calls each event is; stops: where "continue" stops;
\* next: the first event that has not been read, Events when there is none
DebugMounted == [at |-> "debug", analysis |-> "queued", debugger |-> None, trace |-> FALSE,
    timeline |-> <<>>, next |-> Events, current |-> 0, starting |-> FALSE, crossed |-> FALSE, calls |-> 0]

DebugInit ==
    /\ page = DebugMounted /\ wire = {DebugCall("get")}
    /\ \E depth \in {[i \in Positions |-> 0], [i \in Positions |-> i % 2]}, stops \in {{}, {Events - 1}} :
         db = [analysis |-> "queued", debugger |-> None, depth |-> depth, stops |-> stops]

-----------------------------------------------------------------------------
(* Loading *)

InDebugger == page.at = "debug"
Got(p) == [DebugCall("get") EXCEPT !.starting = p.starting]

RefreshDebugger == InDebugger /\ Call(page, Got(page))

\* every one and a half seconds; bound: one at a time
PollDebugger ==
    /\ InDebugger /\ page.analysis \notin Over /\ page.debugger # "succeeded" /\ ~page.trace
    /\ ~InFlight({"get"})
    /\ wire' = wire \cup {Got(page)}
    /\ UNCHANGED <<page, db>>

\* The effect that follows calls refresh when "starting" has changed.
Starting(p, b) == [p EXCEPT !.starting = b]
Effect(p) == IF p.starting = page.starting THEN {} ELSE {Got(p)}

TraceCall(cursor, append) == [DebugCall("trace") EXCEPT !.cursor = cursor, !.append = append]
MarkCrossed(p) == [p EXCEPT !.crossed = @ \/ InFlight({"trace"})]

DebuggerRead(r) ==
    /\ r \in wire /\ r.op = "get" /\ r.out = "ok"
    /\ LET p == [page EXCEPT !.analysis = r.analysis, !.debugger = r.debugger]
           start == r.analysis = "succeeded" /\ r.debugger = None /\ ~r.starting
       IN IF start THEN LET q == Starting(p, TRUE) IN Then(q, r, {DebugCall("start")} \cup Effect(q))
          ELSE IF r.debugger = "succeeded" THEN Then(MarkCrossed(p), r, {TraceCall(0, FALSE)})
          ELSE Then(p, r, {})

\* the debugger was started, or it is not known whether it was
DebuggerStarted(r) ==
    /\ r \in wire /\ r.op = "start"
    /\ LET p == Starting(page, FALSE) IN Then(p, r, Effect(p))

DebuggerLost(r) ==
    /\ r \in wire /\ r.op \in {"get", "trace"}
    /\ LET p == Starting(page, FALSE)
       IN IF r.append THEN Then(page, r, {}) ELSE Then(p, r, Effect(p))

\* the events of the page at cursor, and where the next page begins
PageAt(cursor) == IF cursor \in Positions THEN <<cursor>> ELSE <<>>
NextAfter(cursor) == IF cursor + 1 \in Positions THEN cursor + 1 ELSE Events

TimelineWith(r) == IF r.append THEN page.timeline \o PageAt(r.cursor) ELSE PageAt(r.cursor)

\* loadTrace: a first page begins the timeline again, and leaves the position
TraceArrives(r) ==
    /\ r \in wire /\ r.op = "trace" /\ r.out = "ok"
    /\ Then([page EXCEPT !.trace = TRUE, !.timeline = TimelineWith(r), !.next = NextAfter(r.cursor),
                         !.crossed = @ /\ (r.append \/ \E q \in wire \ {r} : q.op = "trace")], r, {})

\* The button is there until the last page has been read, also while it is read.
LoadMore ==
    /\ InDebugger /\ page.trace /\ page.next # Events
    /\ Call(MarkCrossed(page), TraceCall(page.next, TRUE))

-----------------------------------------------------------------------------
(* Moving over the events *)

DepthAt(i) == IF i < Len(page.timeline) THEN db.depth[page.timeline[i + 1]] ELSE 0
Later == page.current + 1 .. Len(page.timeline) - 1
First(S) == IF S = {} THEN Len(page.timeline) - 1 ELSE CHOOSE i \in S : \A j \in S : i <= j

Into == IF page.current + 1 < Len(page.timeline) THEN page.current + 1 ELSE Len(page.timeline) - 1
OverCalls == First({i \in Later : DepthAt(i) <= DepthAt(page.current)})
Out == First({i \in Later : DepthAt(i) < DepthAt(page.current)})
Continue == First({i \in Later : page.timeline[i + 1] \in db.stops})

Move(target) ==
    /\ InDebugger /\ page.trace /\ page.timeline # <<>>
    /\ Show([page EXCEPT !.current = target])

\* in the timeline; a frame of the call tree selects its first event
SelectEvent(i) ==
    /\ InDebugger /\ page.trace /\ i < Len(page.timeline)
    /\ Show([page EXCEPT !.current = i])

-----------------------------------------------------------------------------
(* The server *)

Analysed(s) ==
    /\ db.analysis = "queued"
    /\ db' = [db EXCEPT !.analysis = s]
    /\ UNCHANGED <<page, wire>>
DebuggerReady ==
    /\ db.debugger = "running"
    /\ db' = [db EXCEPT !.debugger = "succeeded"]
    /\ UNCHANGED <<page, wire>>
ServeDebugger(r) ==
    /\ r.out = "sent"
    /\ db' = IF r.op = "start" /\ db.debugger = None THEN [db EXCEPT !.debugger = "running"] ELSE db
    /\ wire' = (wire \ {r}) \cup
         {IF r.op = "get" THEN [r EXCEPT !.out = "ok", !.analysis = db.analysis, !.debugger = db.debugger]
          ELSE [r EXCEPT !.out = "ok"]}
    /\ UNCHANGED page

DebugNext ==
    /\ page.at = "debug"
    /\ \/ RefreshDebugger \/ PollDebugger \/ LoadMore \/ DebuggerReady
       \/ \E target \in {Into, OverCalls, Out, Continue} : Move(target)
       \/ \E i \in Positions : SelectEvent(i)
       \/ \E s \in {"succeeded", "failed"} : Analysed(s)
       \/ \E r \in wire :
            DebuggerRead(r) \/ DebuggerStarted(r) \/ DebuggerLost(r) \/ TraceArrives(r) \/ ServeDebugger(r)

-----------------------------------------------------------------------------
(* Properties *)

DebugTypeOK == page.at = "debug" =>
    /\ page.timeline \in Seq(Positions) /\ page.next \in 0 .. Events
    /\ page.trace <=> page.timeline # <<>>

\* However often it was refreshed, the timeline is the beginning of what was
\* recorded, every event once and in order, and what comes next is the next
\* page: unless two pages were read at a time.
TimelineIsAPrefix == page.at = "debug" =>
    LET n == Len(page.timeline) IN
    ~page.crossed =>
        /\ page.timeline = [i \in 1 .. n |-> i - 1]
        /\ page.trace => page.next = n

\* Whatever overlaps, the page does not believe for ever that it is starting
\* the debugger.
StartingEnds == page.at = "debug" => (page.starting => InFlight({"start"}))
=============================================================================
