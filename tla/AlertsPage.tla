----------------------------- MODULE AlertsPage -----------------------------
(***************************************************************************)
(* The page of a project's alert rules (AlertsPage of project-pages.tsx):  *)
(* the list, the history of firings of every rule, the detail view of one  *)
(* rule, and the builder that creates and edits rules, of which only what  *)
(* it saves matters here; AlertBuilder models what is in it.               *)
(***************************************************************************)
EXTENDS PagedList

CONSTANT
    Rules         \* identifiers of rules

\* what a rule says is abstracted to whether it was edited and switched on
Rule == [id : Rules, edited : BOOLEAN, on : BOOLEAN]
Ids(R) == {r.id : r \in R}

FirstRuleReads == {"alerts", "refresh", "reload", "saved"}
RuleReads == FirstRuleReads \cup {"turn"}
RuleWrites == {"post", "patch", "toggle", "remove", "delete"}

\* body: the rule a write sends; who: the rules it is about
RuleCall(op, who, body) == [op |-> op, who |-> who, body |-> body, out |-> "sent",
                            rows |-> {}, cursors |-> {}, old |-> FALSE]

\* "firings" and "past" are the rules whose firings are on display, in the
\* history section and in the detail view
AlertsMounted == [at |-> "alerts", rows |-> {}, cursors |-> {}, whole |-> FALSE, stale |-> TRUE,
    query |-> None, ticked |-> {}, section |-> "alerts", firings |-> {}, awaiting |-> FALSE, detail |-> {}, past |-> {},
    building |-> FALSE, editing |-> {}, dialog |-> None, loading |-> FALSE, refreshing |-> FALSE,
    calls |-> 0]

\* The list is on its way, or its first page is there already: then every call of
\* the visit is the user's.
AlertsInit ==
    /\ \E known \in {Sought \cap Rules, Rules} : db = [id : known, edited : {FALSE}, on : {TRUE}]
    /\ \/ page = [AlertsMounted EXCEPT !.calls = 1] /\ wire = {RuleCall("alerts", {}, {})}
       \/ /\ \E p \in FirstReadings :
               page = [AlertsMounted EXCEPT !.rows = p.rows, !.cursors = p.cursors,
                                            !.whole = p.cursors = {}, !.stale = FALSE]
          /\ wire = {}

-----------------------------------------------------------------------------
(* What is on the screen *)

AlertScreen == IF page.detail # {} THEN "detail" ELSE IF page.building THEN "builder" ELSE page.section
OnAlerts(screen) == page.at = "alerts" /\ AlertScreen = screen /\ page.dialog = None

VisibleRules == {r \in page.rows : page.query \in {None, r.id}}
SelectedRules == {r \in VisibleRules : r.id \in page.ticked}

AlertToolbar(button) ==
    /\ OnAlerts("alerts")
    /\ button = "refresh" => ~page.loading /\ ~page.refreshing
    /\ button \in {"tag", "delete"} => SelectedRules # {}
    /\ button = "delete" => ~page.loading

AlertRowOffers(r) == OnAlerts("alerts") /\ r \in VisibleRules

-----------------------------------------------------------------------------
(* The history section: its effect runs whenever the section or the rows of *)
(* the list change, and disowns the round of calls it made before.          *)

Rounds(W) == {r \in W : r.op = "histories"}
Round(p) == RuleCall("histories", Ids(p.rows), {})

\* The handler goes on to p and W, and the effect runs if the section or the
\* rows are not those of the last render.
HistoryEffect(p, W, newRows) ==
    /\ UNCHANGED db
    /\ IF p.section = "history" /\ (newRows \/ page.section # "history")
       THEN page' = [p EXCEPT !.awaiting = TRUE] /\ wire' = (W \ Rounds(W)) \cup {Round(p)}
       ELSE page' = p /\ wire' = IF p.section = "history" THEN W ELSE W \ Rounds(W)

\* A rule whose history could not be read has no firings here.
HistoriesArrive(r) ==
    /\ r \in wire /\ r.op = "histories"
    /\ \E shown \in SUBSET r.who : Then([page EXCEPT !.firings = shown, !.awaiting = FALSE], r, {})

GoToSection(s) ==
    /\ page.at = "alerts" /\ AlertScreen \notin {"detail", "builder", s} /\ page.dialog = None
    /\ HistoryEffect([page EXCEPT !.section = s], wire, FALSE)

-----------------------------------------------------------------------------
(* The list *)

SearchAlerts(q) == OnAlerts("alerts") /\ Show([page EXCEPT !.query = q])

RulesArrive(r) ==
    /\ r \in UNION {Answers(op) : op \in RuleReads}
    /\ HistoryEffect([PageRead(page, r) EXCEPT !.loading = @ /\ r.op # "saved"], wire \ {r}, r.out = "ok")

\* with the cursor of the button below the list
TurnAlertsPage ==
    /\ OnAlerts("alerts") /\ page.cursors # {}
    /\ Call(page, RuleCall("turn", {}, {}))

RefreshAlerts ==
    /\ AlertToolbar("refresh")
    /\ Call([page EXCEPT !.refreshing = TRUE], RuleCall("refresh", {}, {}))

AlertsSettle ==
    /\ page.refreshing /\ ~InFlight({"refresh"})
    /\ Show([page EXCEPT !.refreshing = FALSE, !.ticked = {}])

ToggleRule(r) ==
    /\ AlertRowOffers(r)
    /\ Show([page EXCEPT !.ticked = IF r.id \in @ THEN @ \ {r.id} ELSE @ \cup {r.id}])

ToggleAllRules ==
    /\ OnAlerts("alerts") /\ VisibleRules # {}
    /\ Show([page EXCEPT !.ticked = IF SelectedRules = VisibleRules THEN @ \ Ids(VisibleRules)
                                    ELSE @ \cup Ids(VisibleRules)])

\* Bound: no dialog is opened that no call could follow.
OpenAlertDialog(kind) ==
    /\ page.calls < MaxCalls
    /\ kind \in {"tag", "delete"} /\ AlertToolbar(kind)
    /\ Show([page EXCEPT !.dialog = kind])

CloseAlertDialog ==
    /\ page.at = "alerts" /\ page.dialog # None /\ AlertScreen = "alerts"
    /\ Show([page EXCEPT !.dialog = None])

\* One DELETE for each rule, all at once: some may succeed and others fail, and
\* then the list keeps them all.
DeleteSelectedRules ==
    /\ page.at = "alerts" /\ page.dialog = "delete" /\ AlertScreen = "alerts"
    /\ ~page.loading /\ SelectedRules # {}
    /\ Call([page EXCEPT !.loading = TRUE], RuleCall("delete", Ids(SelectedRules), {}))

RulesDeleted(r) ==
    /\ r \in Answers("delete")
    /\ IF r.out = "ok"
       THEN HistoryEffect([page EXCEPT !.loading = FALSE, !.rows = {a \in @ : a.id \notin r.who},
                !.ticked = @ \ r.who, !.dialog = IF @ = "delete" THEN None ELSE @], wire \ {r}, TRUE)
       ELSE Then([page EXCEPT !.loading = FALSE], r, {})

\* A tag is only created: it is not attached to the rules.
SaveAlertTag ==
    /\ page.at = "alerts" /\ page.dialog = "tag" /\ AlertScreen = "alerts"
    /\ ~page.loading /\ SelectedRules # {}
    /\ Call([page EXCEPT !.loading = TRUE], RuleCall("tag", {}, {}))

AlertTagSaved(r) ==
    /\ r \in Answers("tag")
    /\ Then([page EXCEPT !.loading = FALSE,
                         !.dialog = IF r.out = "ok" /\ @ = "tag" THEN None ELSE @], r, {})

-----------------------------------------------------------------------------
(* The builder *)

\* with the rule to edit, or with none
ResetBuilder(rule) ==
    /\ page.calls < MaxCalls
    /\ \/ page.at = "alerts" /\ AlertScreen \notin {"detail", "builder"} /\ page.dialog = None /\ rule = {}
       \/ OnAlerts("detail") /\ rule = page.detail
    /\ HistoryEffect([page EXCEPT !.detail = {}, !.section = "alerts",
            !.building = TRUE, !.editing = rule], wire, FALSE)

LeaveBuilder == OnAlerts("builder") /\ Show([page EXCEPT !.building = FALSE, !.editing = {}])

SaveRule(on) ==
    /\ OnAlerts("builder") /\ ~page.loading
    /\ LET of == Ids(page.editing) IN
       Call([page EXCEPT !.loading = TRUE],
            RuleCall(IF of = {} THEN "post" ELSE "patch", of, [id : of, edited : {TRUE}, on : {on}]))

RuleSaved(r) ==
    /\ r \in Answers("post") \cup Answers("patch")
    /\ IF r.out = "ok"
       THEN HistoryEffect([page EXCEPT !.building = FALSE, !.editing = {}, !.section = "alerts", !.stale = TRUE],
                          (wire \ {r}) \cup {RuleCall("saved", {}, {})}, FALSE)
       ELSE Then([page EXCEPT !.loading = FALSE], r, {})

-----------------------------------------------------------------------------
(* The detail view *)

OpenAlert(r) ==
    /\ AlertRowOffers(r)
    /\ Call([page EXCEPT !.detail = {r}], RuleCall("history", {r.id}, {}))

\* whichever rule is open by then
HistoryArrives(r) ==
    /\ r \in Answers("history")
    /\ Then([page EXCEPT !.past = IF r.out = "ok" THEN r.who ELSE {}], r, {})

BackToAlerts == OnAlerts("detail") /\ Show([page EXCEPT !.detail = {}])

\* The whole rule is sent back, as it was when it was opened.
PatchEnabled ==
    /\ OnAlerts("detail")
    /\ Call(page, RuleCall("toggle", Ids(page.detail), {[r EXCEPT !.on = ~@] : r \in page.detail}))

RulePatched(r) ==
    /\ r \in Answers("toggle")
    /\ IF r.out = "ok"
       THEN Then([page EXCEPT !.detail = r.body, !.stale = TRUE], r, {RuleCall("reload", {}, {})})
       ELSE Then(page, r, {})

RemoveRule ==
    /\ OnAlerts("detail")
    /\ Call(page, RuleCall("remove", Ids(page.detail), {}))

RuleRemoved(r) ==
    /\ r \in Answers("remove")
    /\ IF r.out = "ok"
       THEN Then([page EXCEPT !.detail = {}, !.stale = TRUE], r, {RuleCall("reload", {}, {})})
       ELSE Then(page, r, {})

-----------------------------------------------------------------------------
(* The server *)

RulesOutdated(W) == {IF q.op \in RuleReads /\ q.out = "ok" THEN [q EXCEPT !.old = TRUE] ELSE q : q \in W}

\* what a write makes of the rules: of part of those it names, or a fresh one
RulesWritten(r, part, fresh) ==
    CASE r.op = "post" -> db \cup [id : fresh, edited : {FALSE}, on : {TRUE}]
      [] r.op \in {"patch", "toggle"} ->
           {IF \E b \in r.body : b.id = a.id /\ a.id \in part
            THEN CHOOSE b \in r.body : b.id = a.id ELSE a : a \in db}
      [] OTHER -> {a \in db : a.id \notin part}

ServeRuleWrite(r) ==
    /\ r.out = "sent" /\ r.op \in RuleWrites
    /\ \E part \in {{}, r.who} \cup (IF r.op = "delete" THEN SUBSET r.who ELSE {}),
          fresh \in SUBSET (Rules \ Ids(db)), heard \in BOOLEAN :
         LET known == part \subseteq Ids(db)
             done == part = r.who /\ known /\ (r.op = "post" => fresh # {})
             applied == RulesWritten(r, part, fresh)
         IN /\ Cardinality(fresh) <= (IF r.op = "post" THEN 1 ELSE 0)
            /\ db' = applied
            /\ wire' = (IF applied = db THEN wire \ {r} ELSE RulesOutdated(wire \ {r}))
                         \cup {[r EXCEPT !.out = IF heard /\ done THEN "ok" ELSE "fail"]}
            /\ page' = [page EXCEPT !.stale = @ \/ (applied # db /\ ~(heard /\ done))]

ServeRuleRead(r) ==
    /\ r.out = "sent" /\ r.op \notin RuleWrites \cup {"histories"}
    /\ \E out \in {"ok", "fail"} : \E p \in Readings(r, FirstRuleReads, out) :
         wire' = (wire \ {r}) \cup {[r EXCEPT !.out = out, !.rows = p.rows, !.cursors = p.cursors]}
    /\ UNCHANGED <<page, db>>

AlertsNext ==
    /\ page.at = "alerts"
    /\ \/ \E s \in {"alerts", "history", "destinations"} : GoToSection(s)
       \/ \E q \in Sought \cup {None} : SearchAlerts(q)
       \/ \E r \in page.rows : ToggleRule(r) \/ OpenAlert(r)
       \/ \E kind \in {"tag", "delete"} : OpenAlertDialog(kind)
       \/ RefreshAlerts \/ TurnAlertsPage \/ AlertsSettle \/ ToggleAllRules \/ CloseAlertDialog
       \/ DeleteSelectedRules \/ SaveAlertTag
       \/ ResetBuilder({}) \/ ResetBuilder(page.detail)
       \/ LeaveBuilder \/ \E on \in BOOLEAN : SaveRule(on)
       \/ BackToAlerts \/ PatchEnabled \/ RemoveRule
       \/ \E r \in wire :
            \/ RulesArrive(r) \/ HistoriesArrive(r) \/ RulesDeleted(r) \/ AlertTagSaved(r)
            \/ RuleSaved(r) \/ HistoryArrives(r) \/ RulePatched(r)
            \/ RuleRemoved(r) \/ ServeRuleWrite(r) \/ ServeRuleRead(r)

-----------------------------------------------------------------------------
(* Properties *)

AlertsTypeOK == page.at = "alerts" =>
    /\ page.rows \subseteq Rule /\ page.cursors \subseteq {"prev", "next"} /\ db \subseteq Rule /\ page.detail \subseteq Rule
    /\ Cardinality(page.detail) <= 1 /\ page.firings \subseteq Rules
    /\ page.section \in {"alerts", "history", "destinations"}

\* The rules on display are the server's, as it holds them, and all of them when
\* the list was read from the start and nothing came next, unless its last reading
\* crossed a change or the answer to a change never came.
RulesListAgrees == page.at = "alerts" =>
    page.stale \/ InFlight(RuleWrites) \/ ShowsTable

\* When the history section is not waiting, it shows firings of rules of the
\* list only: those of a rule that has left it are gone with it.
HistoryIsOfTheList == page.at = "alerts" =>
    (page.section = "history" /\ ~page.awaiting => page.firings \subseteq Ids(page.rows))
=============================================================================
