--------------------------- MODULE SimulationRuns ---------------------------
(***************************************************************************)
(* What becomes of a simulation (SimulatorPage of project-pages.tsx): the   *)
(* list of the runs, the one on display, and the loops that poll it until   *)
(* it has ended.  A loop outlives the click that began it: what tells it to *)
(* stop is a generation, which every simulation, repair and cancellation    *)
(* moves on, and which the loop compares after every wait and every answer. *)
(*                                                                         *)
(* The inputs are in SimulationForm.  A repair of the coverage of historical*)
(* ledgers is polled the same way, as a job.                                *)
(***************************************************************************)
EXTENDS PageHost

CONSTANT
    Runs          \* identifiers of simulations

Job == "job"

ASSUME RunsAssumption == Job \notin Runs

Statuses == {"active", "ended", "cancelling", "cancelled"}
Terminal == {"ended", "cancelled"}

\* A call, or a polling loop: first "wait", then "sent" and "ok" again and again.
\* by: the click that began it; gen: the generation it belongs to; path: a run
\* is polled through the job that executes it, and read when that is over
RunCall(op, of, by, gen) == [op |-> op, of |-> of, by |-> by, gen |-> gen, path |-> FALSE,
                             out |-> "sent", status |-> None, rows |-> {}]

\* job: what is on display is a job; crossed: it may not be what is polled;
\* cancelled: the runs whose cancellation was accepted
RunsMounted(e) == [at |-> "runs", editor |-> e, rows |-> {}, shown |-> {}, job |-> FALSE, gen |-> 0,
    loading |-> FALSE, refreshing |-> FALSE, crossed |-> FALSE, cancelled |-> {}, calls |-> 0]

\* the first effect closes the editor, unless the page is that of a new one
RunsInit ==
    /\ \E new \in BOOLEAN : page = RunsMounted(new)
    /\ wire = {RunCall("list", None, None, 0)}
    /\ \E known \in SUBSET Runs :
         db = [x \in Runs \cup {Job} |-> IF x \in known THEN "active" ELSE None]

-----------------------------------------------------------------------------
(* What is on the screen *)

InEditor == page.at = "runs" /\ page.editor
OnRunList == page.at = "runs" /\ ~page.editor
Shown(p) == IF p.shown = {} THEN [run |-> None, status |-> None] ELSE CHOOSE x \in p.shown : TRUE

\* the search and the filter only hide rows
VisibleRun(x) == OnRunList /\ x \in page.rows
CanRefreshRuns == OnRunList /\ ~page.loading /\ ~page.refreshing
CanAnalyze == InEditor /\ Shown(page).run \in Runs /\ Shown(page).status = "ended"
CanCancel ==
    /\ InEditor /\ page.shown # {}
    /\ Shown(page).run \in Runs \/ page.job
    /\ Shown(page).status \notin Terminal \cup {"cancelling"}

NewSimulation == OnRunList /\ Show([page EXCEPT !.editor = TRUE])
ExitEditor == InEditor /\ Show([page EXCEPT !.editor = FALSE])

-----------------------------------------------------------------------------
(* The list *)

\* refreshSimulations
RefreshRuns ==
    /\ CanRefreshRuns
    /\ Call([page EXCEPT !.refreshing = TRUE], RunCall("list", None, "refresh", 0))

\* the button under a pending result
RefreshStatus ==
    /\ InEditor /\ Shown(page).status = "active"
    /\ Call(page, RunCall("list", None, None, 0))

\* load, and the end of what waits for it; a failure only leaves a message
RunsListed(r, heard) ==
    /\ r \in wire /\ r.op = "list"
    /\ heard => r.out = "ok"
    /\ Then([page EXCEPT !.rows = IF heard THEN r.rows ELSE @,
                         !.refreshing = @ /\ r.by # "refresh", !.loading = @ /\ r.by # "simulate"], r, {})

-----------------------------------------------------------------------------
(* Simulate, repair, cancel *)

NextGeneration(p) == [p EXCEPT !.gen = @ + 1]

\* the request itself is in SimulationForm
StartRun(op) ==
    /\ InEditor /\ ~page.loading
    /\ LET p == NextGeneration([page EXCEPT !.loading = TRUE, !.job = FALSE])
       IN Call(p, RunCall(op, None, op, p.gen))

\* The answer is on display whatever was begun since; the loop finds out.
Polling(r, of) == [RunCall("poll", of, r.by, r.gen) EXCEPT !.out = "wait"]
Displays(p, x, s) == [p EXCEPT !.shown = {[run |-> x, status |-> s]}]

\* path: the server answers with the address of a job
RunQueued(r, heard, path) ==
    /\ r \in wire /\ r.op = "simulate"
    /\ heard => r.out = "ok"
    /\ IF ~heard THEN Then([page EXCEPT !.loading = FALSE], r, {})
       ELSE Then([Displays(page, r.of, "active") EXCEPT !.job = FALSE, !.crossed = r.gen # page.gen], r,
                 {[Polling(r, r.of) EXCEPT !.path = path]})

RepairQueued(r, heard) ==
    /\ r \in wire /\ r.op = "repair"
    /\ heard => r.out = "ok"
    /\ IF ~heard THEN Then([page EXCEPT !.loading = FALSE], r, {})
       ELSE Then([Displays(page, Job, "active") EXCEPT !.job = TRUE, !.crossed = r.gen # page.gen], r,
                 {Polling(r, Job)})

\* Mutant: the generation stays, and with it the loop of what is cancelled
CancelRunAsWell ==
    /\ CanCancel
    /\ Call(page, RunCall("cancel", Shown(page).run, "cancel", page.gen))

\* cancelRun stops the polling, even if the cancellation then fails.
CancelRun ==
    /\ CanCancel
    /\ LET p == NextGeneration(page) IN Call(p, RunCall("cancel", Shown(page).run, "cancel", p.gen))

\* What is on display by then is called "cancelling", unless it is a job.
CancelAccepted(r, heard) ==
    /\ r \in wire /\ r.op = "cancel"
    /\ heard => r.out = "ok"
    /\ IF ~heard THEN Then(page, r, {})
       ELSE LET p == [page EXCEPT !.cancelled = @ \cup ({r.of} \cap Runs), !.crossed = @ \/ Shown(page).run # r.of]
            IN Then(IF r.of = Job THEN p ELSE Displays(p, Shown(p).run, "cancelling"), r, {Polling(r, r.of)})

-----------------------------------------------------------------------------
(* pollSimulation and pollResourceJob *)

\* The loop is over: a simulation and its cancellation read the list again,
\* the former before its button is free; a repair frees it.
LoopEnds(p, r) ==
    IF r.of # Job THEN Then(p, r, {RunCall("list", None, r.by, 0)})
    ELSE Then([p EXCEPT !.loading = @ /\ r.by # "repair"], r, {})

\* more: it has not been asked too often
PollAgain(r, more) ==
    /\ r \in wire /\ r.op = "poll" /\ r.out = "wait"
    /\ IF r.gen = page.gen /\ more THEN Then(page, r, {[r EXCEPT !.out = "sent"]})
       ELSE LoopEnds(page, r)

PollLost(r) ==
    /\ r \in wire /\ r.op \in {"poll", "final"} /\ r.out # "wait"
    /\ Then([page EXCEPT !.loading = @ /\ r.by = "cancel"], r, {})

\* A run that was polled through its job is merged into what is on display, of
\* whichever run that is, and read itself when the job has ended.
PollAnswered(r) ==
    /\ r \in wire /\ r.op = "poll" /\ r.out = "ok"
    /\ LET read == [Displays(page, r.of, r.status) EXCEPT !.crossed = @ /\ r.path]
       IN CASE r.gen # page.gen -> LoopEnds(page, r)
            [] r.gen = page.gen /\ r.path /\ r.status \in Terminal ->
                 Then(page, r, {[r EXCEPT !.op = "final", !.out = "sent"]})
            [] r.gen = page.gen /\ ~r.path /\ r.status \in Terminal -> LoopEnds(read, r)
            [] OTHER -> Then(read, r, {[r EXCEPT !.out = "wait", !.status = None]})

RunCompleted(r) ==
    /\ r \in wire /\ r.op = "final" /\ r.out = "ok"
    /\ LoopEnds(IF r.gen = page.gen THEN [Displays(page, r.of, r.status) EXCEPT !.crossed = FALSE] ELSE page, r)

-----------------------------------------------------------------------------
(* A run of the list *)

\* openRun leaves the generation alone: a loop that is under way goes on.
OpenRun(x) ==
    /\ VisibleRun(x)
    /\ Call([page EXCEPT !.editor = TRUE, !.loading = TRUE, !.job = FALSE], RunCall("open", x, None, 0))

RunOpened(r, heard) ==
    /\ r \in wire /\ r.op = "open"
    /\ heard => r.out = "ok"
    /\ LET p == [page EXCEPT !.loading = FALSE]
       IN Then(IF heard THEN [Displays(p, r.of, r.status) EXCEPT !.crossed = TRUE] ELSE p, r, {})

\* Then the debugger is shown, which leaves this page.
AnalyzeRun ==
    /\ CanAnalyze
    /\ Call([page EXCEPT !.loading = TRUE], RunCall("analysis", Shown(page).run, None, 0))
AnalysisAccepted(r) ==
    /\ r \in wire /\ r.op = "analysis"
    /\ Then([page EXCEPT !.loading = FALSE], r, {})

-----------------------------------------------------------------------------
(* The server.  What is lost or refused is not heard. *)

ServeRun(r) ==
    /\ r.out = "sent" /\ r.op \in {"simulate", "repair", "cancel"}
    /\ \E x \in IF r.op = "simulate" THEN {y \in Runs : db[y] = None} ELSE IF r.op = "repair" THEN {Job} ELSE {r.of} :
          /\ r.op = "cancel" => db[x] = "active"
          /\ db' = [db EXCEPT ![x] = IF r.op = "cancel" THEN "cancelled" ELSE "active"]
          /\ wire' = (wire \ {r}) \cup {[r EXCEPT !.out = "ok", !.of = x]}
    /\ UNCHANGED page

ServeRunRead(r) ==
    /\ r.out = "sent" /\ r.op \in {"list", "poll", "final", "open"}
    /\ wire' = (wire \ {r}) \cup
         {IF r.op = "list" THEN [r EXCEPT !.out = "ok", !.rows = {x \in Runs : db[x] # None}]
          ELSE [r EXCEPT !.out = "ok", !.status = db[r.of]]}
    /\ UNCHANGED <<page, db>>

RunEnds(x) ==
    /\ db[x] = "active"
    /\ db' = [db EXCEPT ![x] = "ended"]
    /\ UNCHANGED <<page, wire>>

RunsNext ==
    /\ page.at = "runs"
    /\ \/ NewSimulation \/ ExitEditor \/ RefreshRuns \/ RefreshStatus \/ CancelRun \/ AnalyzeRun
       \/ \E op \in {"simulate", "repair"} : StartRun(op)
       \/ \E x \in Runs : OpenRun(x)
       \/ \E x \in Runs \cup {Job} : RunEnds(x)
       \/ \E r \in wire :
            \/ PollLost(r) \/ PollAnswered(r) \/ RunCompleted(r) \/ AnalysisAccepted(r)
            \/ ServeRun(r) \/ ServeRunRead(r)
            \/ \E yes \in BOOLEAN :
                 \/ RunsListed(r, yes) \/ RepairQueued(r, yes) \/ CancelAccepted(r, yes)
                 \/ PollAgain(r, yes) \/ RunOpened(r, yes)
                 \/ \E path \in BOOLEAN : RunQueued(r, yes, path)

-----------------------------------------------------------------------------
(* Properties *)

RunsTypeOK == page.at = "runs" =>
    /\ page.rows \subseteq Runs /\ Cardinality(page.shown) <= 1
    /\ page.shown \subseteq [run : Runs \cup {Job}, status : Statuses]
    /\ page.cancelled \subseteq Runs
    /\ \A r \in wire : r.op \in {"poll", "final"} => r.of \in Runs \cup {Job}

Loops == {r \in wire : r.op \in {"poll", "final"} /\ r.gen = page.gen}

\* At most one loop may still change the display, whatever was simulated,
\* repaired, cancelled and opened meanwhile; and unless a run was opened from
\* the list, or an answer came late, it polls what is on display.
OneLoopPolls == page.at = "runs" =>
    \A r \in Loops : Loops = {r} /\ (page.crossed \/ Shown(page).run = r.of)

\* A run that was cancelled is never again shown as active, unless it was
\* opened from the list.
CancelledStaysSo == page.at = "runs" =>
    (Shown(page).run \in page.cancelled /\ ~page.crossed => Shown(page).status # "active")

\* The page is busy only while some call or some loop is to free it.
BusyForACause == page.at = "runs" =>
    (page.loading => InFlight({"simulate", "repair", "open", "analysis"})
                     \/ \E r \in wire : r.by \in {"simulate", "repair"})
=============================================================================
