----------------------------- MODULE AlertDelivery -----------------------------
(***************************************************************************)
(* Alerts: ingest/src/alerts_eval.rs evaluates every enabled alert when a  *)
(* transaction was ingested, api/src/monitoring.rs does so on request, and *)
(* its handlers create, change and delete alerts and destinations, deliver *)
(* to a destination and record how that went.  Each statement commits by   *)
(* itself, except that an alert and its children are written in one        *)
(* transaction; so the calls below interleave between any two statements.  *)
(*                                                                         *)
(* A call is one spawned evaluation or one HTTP request; its parameters    *)
(* are fixed in Init.  What a target and a list of expressions mean is     *)
(* abstracted to the transactions they cover.                              *)
(***************************************************************************)
EXTENDS Naturals, FiniteSets

CONSTANTS
  Calls,      \* evaluations and requests
  Kinds,      \* the kinds of calls there may be
  Alerts,     \* alert ids
  ProjectOf,  \* the project of each alert
  Txs,        \* transactions
  Dests,      \* destinations, of projects and of organisations
  Forms,      \* what an alert may be created with or changed to
  Initial,    \* the alerts at the start: a form, or None
  None,       \* no such thing, or SQL NULL
  MaxFaults   \* bound: failed statements, failed requests and crashes

Form == [enabled : BOOLEAN, target : SUBSET Txs, exprs : SUBSET Txs, dests : SUBSET Dests]

ASSUME AlertAssumption ==
  /\ Kinds \subseteq {"ingest", "api", "create", "patch", "delete", "drop", "test"}
  /\ Forms \subseteq Form
  /\ Initial \in [Alerts -> Form \cup {None}]
  /\ None \notin Form \cup Alerts \cup Txs \cup Dests
  /\ ProjectOf \in [Alerts -> {ProjectOf[a] : a \in Alerts}]
  /\ MaxFaults \in Nat

VARIABLES
  alert,     \* alerts with alert_expressions and alert_destinations
  present,   \* account_destinations and project_destinations
  firings,   \* alert_firings, with who inserted it and for which destinations
  rows,      \* destination_deliveries, with who inserted it and for which transaction
  req,       \* the parameters of each call
  pc,        \* where each call is
  todo,      \* projects an evaluation has still to look at
  project,   \* the project it is looking at
  left,      \* alerts of that project still to be evaluated
  cur,       \* the alert being evaluated
  aims,      \* the loaded target covers the transaction
  conds,     \* the loaded expressions: "match", "differ", or "none" of them
  pending,   \* destinations still to be written to, or to be validated
  dest,      \* the destination being delivered to
  outcome,   \* what its delivery came to
  born,      \* history: alert ids that were given out
  touched,   \* history: alerts written since the evaluation began
  skipped,   \* history: projects whose evaluation failed
  lost,      \* history: deliveries whose INSERT failed and was ignored
  faults     \* failures so far

tables  == <<alert, present, firings, rows, born>>
scan    == <<todo, project, left>>
load    == <<cur, aims, conds>>
send    == <<pending, dest, outcome>>
history == <<touched, skipped, lost, faults>>
vars    == <<alert, present, firings, rows, req, pc, todo, project, left, cur, aims,
             conds, pending, dest, outcome, born, touched, skipped, lost, faults>>

Projects == {ProjectOf[a] : a \in Alerts}
Ended    == {"done", "failed"}
Steps    == {"begin", "select", "alerts", "exprs", "dests", "fire", "deliver",
             "open", "send", "record", "check", "write"}
Statuses == {"success", "failed", "pending", "retry", "skipped"}

Requests ==
  { r \in
      [kind : {"ingest"}, tx : Txs, on : {None}, form : {None}]
      \cup [kind : {"api"}, tx : Txs, on : Projects, form : {None}]
      \cup [kind : {"create"}, tx : {None}, on : Projects, form : Forms]
      \cup [kind : {"patch"}, tx : {None}, on : Alerts, form : Forms]
      \cup [kind : {"delete"}, tx : {None}, on : Alerts, form : {None}]
      \cup [kind : {"drop", "test"}, tx : {None}, on : Dests, form : {None}]
    : r.kind \in Kinds }

Entry(kind) == CASE kind = "ingest"              -> "begin"
                 [] kind = "api"                 -> "select"
                 [] kind \in {"create", "patch"} -> "check"
                 [] kind = "test"                -> "open"
                 [] OTHER                        -> "write"

Init ==
  /\ alert = Initial
  /\ present = Dests
  /\ firings = {}
  /\ rows = {}
  /\ req \in [Calls -> Requests]
  /\ pc = [c \in Calls |-> Entry(req[c].kind)]
  /\ todo = [c \in Calls |-> {}]
  /\ project = [c \in Calls |-> IF req[c].kind = "api" THEN req[c].on ELSE None]
  /\ left = [c \in Calls |-> {}]
  /\ cur = [c \in Calls |-> None]
  /\ aims = [c \in Calls |-> FALSE]
  /\ conds = [c \in Calls |-> "none"]
  /\ pending = [c \in Calls |-> IF req[c].kind \in {"create", "patch"}
                                THEN req[c].form.dests ELSE {}]
  /\ dest = [c \in Calls |-> IF req[c].kind = "test" THEN req[c].on ELSE None]
  /\ outcome = [c \in Calls |-> None]
  /\ born = {a \in Alerts : Initial[a] # None}
  /\ touched = [c \in Calls |-> {}]
  /\ skipped = [c \in Calls |-> {}]
  /\ lost = {}
  /\ faults = 0

Evaluates(c) == req[c].kind \in {"ingest", "api"}

\* The call returns, or its task is dropped; what it held is gone.
End(c, how) ==
  /\ pc' = [pc EXCEPT ![c] = how]
  /\ todo' = [todo EXCEPT ![c] = {}]
  /\ project' = [project EXCEPT ![c] = None]
  /\ left' = [left EXCEPT ![c] = {}]
  /\ cur' = [cur EXCEPT ![c] = None]
  /\ aims' = [aims EXCEPT ![c] = FALSE]
  /\ conds' = [conds EXCEPT ![c] = "none"]
  /\ pending' = [pending EXCEPT ![c] = {}]
  /\ dest' = [dest EXCEPT ![c] = None]
  /\ outcome' = [outcome EXCEPT ![c] = None]

\* The loop turns to the next alert of the project.
NextAlert(c) ==
  /\ pc' = [pc EXCEPT ![c] = "alerts"]
  /\ cur' = [cur EXCEPT ![c] = None]
  /\ aims' = [aims EXCEPT ![c] = FALSE]
  /\ conds' = [conds EXCEPT ![c] = "none"]
  /\ pending' = [pending EXCEPT ![c] = {}]
  /\ UNCHANGED <<scan, dest, outcome>>

\* Mutant: the loop over the projects stops at the first error.
BrokenLoop(c) ==
  /\ pc' = [pc EXCEPT ![c] = "alerts"]
  /\ skipped' = [skipped EXCEPT ![c] = @ \cup {project[c]}]
  /\ project' = [project EXCEPT ![c] = None]
  /\ todo' = [todo EXCEPT ![c] = {}]
  /\ left' = [left EXCEPT ![c] = {}]
  /\ cur' = [cur EXCEPT ![c] = None]
  /\ aims' = [aims EXCEPT ![c] = FALSE]
  /\ conds' = [conds EXCEPT ![c] = "none"]
  /\ pending' = [pending EXCEPT ![c] = {}]
  /\ UNCHANGED <<dest, outcome>>

\* A database error inside a project: evaluate_for_tx logs it and goes on with
\* the next project, evaluate_transaction_alerts returns it.
Broken(c) ==
  IF req[c].kind = "ingest"
  THEN /\ pc' = [pc EXCEPT ![c] = "alerts"]
       /\ skipped' = [skipped EXCEPT ![c] = @ \cup {project[c]}]
       /\ project' = [project EXCEPT ![c] = None]
       /\ left' = [left EXCEPT ![c] = {}]
       /\ cur' = [cur EXCEPT ![c] = None]
       /\ aims' = [aims EXCEPT ![c] = FALSE]
       /\ conds' = [conds EXCEPT ![c] = "none"]
       /\ pending' = [pending EXCEPT ![c] = {}]
       /\ UNCHANGED <<todo, dest, outcome>>
  ELSE End(c, "failed") /\ UNCHANGED skipped

-----------------------------------------------------------------------------
(* Evaluation of a transaction. *)

\* SELECT DISTINCT project_id FROM alerts WHERE enabled.
Begin(c) ==
  /\ pc[c] = "begin"
  /\ todo' = [todo EXCEPT ![c] =
                {ProjectOf[a] : a \in {b \in Alerts : alert[b] # None /\ alert[b].enabled}}]
  /\ pc' = [pc EXCEPT ![c] = "alerts"]
  /\ UNCHANGED <<tables, req, project, left, load, send, history>>

NextProject(c) ==
  /\ pc[c] = "alerts" /\ left[c] = {}
  /\ \E p \in todo[c] :
       /\ project' = [project EXCEPT ![c] = p]
       /\ todo' = [todo EXCEPT ![c] = @ \ {p}]
  /\ pc' = [pc EXCEPT ![c] = "select"]
  /\ UNCHANGED <<tables, req, left, load, send, history>>

\* Mutant: the query for a project's alerts forgets enabled.
SelectAllAlerts(c) ==
  /\ pc[c] = "select"
  /\ left' = [left EXCEPT ![c] =
                {a \in Alerts : ProjectOf[a] = project[c] /\ alert[a] # None}]
  /\ pc' = [pc EXCEPT ![c] = "alerts"]
  /\ UNCHANGED <<tables, req, todo, project, load, send, history>>

\* The enabled alerts of the project; nothing looks at enabled after this.
SelectAlerts(c) ==
  /\ pc[c] = "select"
  /\ left' = [left EXCEPT ![c] =
                {a \in Alerts : /\ ProjectOf[a] = project[c]
                                /\ alert[a] # None /\ alert[a].enabled}]
  /\ pc' = [pc EXCEPT ![c] = "alerts"]
  /\ UNCHANGED <<tables, req, todo, project, load, send, history>>

\* load_alert, first SELECT: the alert's own row.  A deleted alert is passed over
\* by the ingester and an error to the API.
LoadRow(c) ==
  /\ pc[c] = "alerts"
  /\ \E a \in left[c] :
       IF alert[a] # None
       THEN /\ cur' = [cur EXCEPT ![c] = a]
            /\ aims' = [aims EXCEPT ![c] = req[c].tx \in alert[a].target]
            /\ left' = [left EXCEPT ![c] = @ \ {a}]
            /\ pc' = [pc EXCEPT ![c] = "exprs"]
            /\ UNCHANGED <<todo, project, conds, send>>
       ELSE IF req[c].kind = "ingest"
       THEN left' = [left EXCEPT ![c] = @ \ {a}] /\ UNCHANGED <<pc, todo, project, load, send>>
       ELSE End(c, "failed")
  /\ UNCHANGED <<tables, req, history>>

\* load_alert, second SELECT: alert_expressions.
LoadExprs(c) ==
  /\ pc[c] = "exprs"
  /\ conds' = [conds EXCEPT ![c] = IF alert[cur[c]] = None THEN "none"
                                   ELSE IF req[c].tx \in alert[cur[c]].exprs THEN "match"
                                   ELSE "differ"]
  /\ pc' = [pc EXCEPT ![c] = "dests"]
  /\ UNCHANGED <<tables, req, scan, cur, aims, send, history>>

\* load_alert, third SELECT: alert_destinations.  Then the evaluation, which is
\* pure; an alert without expressions is an error, and only the API returns it.
LoadDests(c) ==
  /\ pc[c] = "dests"
  /\ IF aims[c] /\ conds[c] = "match"
     THEN /\ pending' = [pending EXCEPT ![c] =
                           IF alert[cur[c]] = None THEN {} ELSE alert[cur[c]].dests]
          /\ pc' = [pc EXCEPT ![c] = "fire"]
          /\ UNCHANGED <<scan, load, dest, outcome>>
     ELSE IF req[c].kind = "api" /\ aims[c] /\ conds[c] = "none"
     THEN End(c, "failed")
     ELSE NextAlert(c)
  /\ UNCHANGED <<tables, req, history>>

Fired(a, t) == \E f \in firings : f.alert = a /\ f.tx = t

\* Mutant: ON CONFLICT DO UPDATE, so that the id is returned to every evaluation.
FireReturning(c) ==
  /\ pc[c] = "fire"
  /\ IF alert[cur[c]] = None
     THEN Broken(c) /\ UNCHANGED firings
     ELSE /\ firings' = IF Fired(cur[c], req[c].tx) THEN firings ELSE firings \cup
               {[alert |-> cur[c], tx |-> req[c].tx, by |-> c, dests |-> pending[c]]}
          /\ pc' = [pc EXCEPT ![c] = "deliver"]
          /\ UNCHANGED <<scan, load, send, skipped>>
  /\ UNCHANGED <<alert, present, rows, born, req, touched, lost, faults>>

\* INSERT INTO alert_firings ... ON CONFLICT DO NOTHING RETURNING id.  The foreign
\* key refuses the firing of a deleted alert.
Fire(c) ==
  /\ pc[c] = "fire"
  /\ IF alert[cur[c]] = None
     THEN Broken(c) /\ UNCHANGED firings
     ELSE IF Fired(cur[c], req[c].tx)
     THEN NextAlert(c) /\ UNCHANGED <<firings, skipped>>
     ELSE /\ firings' = firings \cup
               {[alert |-> cur[c], tx |-> req[c].tx, by |-> c, dests |-> pending[c]]}
          /\ pc' = [pc EXCEPT ![c] = "deliver"]
          /\ UNCHANGED <<scan, load, send, skipped>>
  /\ UNCHANGED <<alert, present, rows, born, req, touched, lost, faults>>

\* INSERT INTO destination_deliveries.  The ingester ignores what the foreign key
\* says of a deleted alert, and leaves it at the pending row; the API delivers.
Deliver(c) ==
  /\ pc[c] = "deliver"
  /\ \E d \in pending[c] :
       IF alert[cur[c]] = None /\ req[c].kind = "api"
       THEN End(c, "failed") /\ UNCHANGED rows
       ELSE /\ pending' = [pending EXCEPT ![c] = @ \ {d}]
            /\ rows' = IF alert[cur[c]] = None THEN rows
                       ELSE rows \cup {[alert |-> cur[c], tx |-> req[c].tx, dest |-> d,
                                        by |-> c, status |-> "pending", attempt |-> 1]}
            /\ IF req[c].kind = "ingest"
               THEN UNCHANGED <<pc, dest>>
               ELSE /\ pc' = [pc EXCEPT ![c] = "send"]
                    /\ dest' = [dest EXCEPT ![c] = d]
            /\ UNCHANGED <<scan, load, outcome>>
  /\ UNCHANGED <<alert, present, firings, born, req, history>>

AllDelivered(c) ==
  /\ pc[c] = "deliver"
  /\ pending[c] = {}
  /\ NextAlert(c)
  /\ UNCHANGED <<tables, req, history>>

Finish(c) ==
  /\ pc[c] = "alerts" /\ left[c] = {} /\ todo[c] = {}
  /\ End(c, "done")
  /\ UNCHANGED <<tables, req, history>>

-----------------------------------------------------------------------------
(* Delivery to one destination: deliver_record. *)

\* Mutant: the row of a test counts its attempts from 0.
OpenTestAtZero(c) ==
  /\ pc[c] = "open"
  /\ IF dest[c] \in present
     THEN /\ rows' = rows \cup {[alert |-> None, tx |-> None, dest |-> dest[c],
                                 by |-> c, status |-> "pending", attempt |-> 0]}
          /\ pc' = [pc EXCEPT ![c] = "send"]
          /\ UNCHANGED <<scan, load, send>>
     ELSE End(c, "failed") /\ UNCHANGED rows
  /\ UNCHANGED <<alert, present, firings, born, req, history>>

\* test_project_destination, test_org_destination: the destination exists, and
\* gets a row of its own.
OpenTest(c) ==
  /\ pc[c] = "open"
  /\ IF dest[c] \in present
     THEN /\ rows' = rows \cup {[alert |-> None, tx |-> None, dest |-> dest[c],
                                 by |-> c, status |-> "pending", attempt |-> 1]}
          /\ pc' = [pc EXCEPT ![c] = "send"]
          /\ UNCHANGED <<scan, load, send>>
     ELSE End(c, "failed") /\ UNCHANGED rows
  /\ UNCHANGED <<alert, present, firings, born, req, history>>

\* delivery_destination and the request: accepted, or not (an HTTP status that is
\* no success, a refused mail).  A request that gets no answer is in Fail.
Send(c) ==
  /\ pc[c] = "send"
  /\ IF dest[c] \in present
     THEN /\ \E o \in {"success", "retry"} : outcome' = [outcome EXCEPT ![c] = o]
          /\ pc' = [pc EXCEPT ![c] = "record"]
          /\ UNCHANGED <<scan, load, pending, dest>>
     ELSE End(c, "failed")
  /\ UNCHANGED <<tables, req, history>>

\* next_backoff_seconds has an entry for this many attempts.
BackoffSteps == 5
Retriable(n) == n <= BackoffSteps

\* The row the call is delivering, and the UPDATE of it.
Own(c) == {r \in rows : r.by = c /\ r.alert = cur[c] /\ r.dest = dest[c]}

Updated(r, o) ==
  [r EXCEPT !.status = IF o = "retry" /\ ~Retriable(r.attempt + 1) THEN "failed" ELSE o,
            !.attempt = IF o = "retry" THEN @ + 1 ELSE @]

Record(c) ==
  /\ pc[c] = "record"
  /\ rows' = (rows \ Own(c)) \cup {Updated(r, outcome[c]) : r \in Own(c)}
  /\ IF req[c].kind = "api"
     THEN /\ pc' = [pc EXCEPT ![c] = "deliver"]
          /\ dest' = [dest EXCEPT ![c] = None]
          /\ outcome' = [outcome EXCEPT ![c] = None]
          /\ UNCHANGED <<scan, load, pending>>
     ELSE End(c, "done")
  /\ UNCHANGED <<alert, present, firings, born, req, history>>

-----------------------------------------------------------------------------
(* The handlers that write alerts and destinations. *)

\* Evaluations that have begun see the alert change under them.
Touch(a) ==
  touched' = [x \in Calls |->
    IF Evaluates(x) /\ pc[x] # Entry(req[x].kind) THEN touched[x] \cup {a} ELSE touched[x]]

\* validate_destination_ref, one SELECT for each destination, before the transaction.
Validate(c) ==
  /\ pc[c] = "check"
  /\ \E d \in pending[c] :
       IF d \in present
       THEN /\ pending' = [pending EXCEPT ![c] = @ \ {d}]
            /\ UNCHANGED <<pc, scan, load, dest, outcome>>
       ELSE End(c, "failed")
  /\ UNCHANGED <<tables, req, history>>

\* create_alert: the transaction with the alert and its children.
CreateAlert(c) ==
  /\ pc[c] = "check" /\ pending[c] = {} /\ req[c].kind = "create"
  /\ \E a \in Alerts \ born :
       /\ ProjectOf[a] = req[c].on
       /\ alert' = [alert EXCEPT ![a] = req[c].form]
       /\ born' = born \cup {a}
       /\ Touch(a)
  /\ End(c, "done")
  /\ UNCHANGED <<present, firings, rows, req, skipped, lost, faults>>

\* patch_alert: the UPDATE and the new children, in one transaction.
PatchAlert(c) ==
  /\ pc[c] = "check" /\ pending[c] = {} /\ req[c].kind = "patch"
  /\ IF alert[req[c].on] = None
     THEN End(c, "failed") /\ UNCHANGED <<alert, touched>>
     ELSE /\ alert' = [alert EXCEPT ![req[c].on] = req[c].form]
          /\ Touch(req[c].on)
          /\ End(c, "done")
  /\ UNCHANGED <<present, firings, rows, born, req, skipped, lost, faults>>

\* Mutant: the deliveries go with their alert.
DeleteAlertCascade(c) ==
  LET a == req[c].on IN
  /\ pc[c] = "write" /\ req[c].kind = "delete"
  /\ IF alert[a] = None
     THEN End(c, "failed") /\ UNCHANGED <<alert, firings, rows, touched>>
     ELSE /\ alert' = [alert EXCEPT ![a] = None]
          /\ firings' = {f \in firings : f.alert # a}
          /\ rows' = {r \in rows : r.alert # a}
          /\ Touch(a)
          /\ End(c, "done")
  /\ UNCHANGED <<present, born, req, skipped, lost, faults>>

\* delete_alert: firings go with it (ON DELETE CASCADE), deliveries prevent it.
DeleteAlert(c) ==
  LET a == req[c].on IN
  /\ pc[c] = "write" /\ req[c].kind = "delete"
  /\ IF alert[a] = None \/ \E r \in rows : r.alert = a
     THEN End(c, "failed") /\ UNCHANGED <<alert, firings, touched>>
     ELSE /\ alert' = [alert EXCEPT ![a] = None]
          /\ firings' = {f \in firings : f.alert # a}
          /\ Touch(a)
          /\ End(c, "done")
  /\ UNCHANGED <<present, rows, born, req, skipped, lost, faults>>

\* delete_org_destination, delete_project_destination: nothing refers to the row
\* by a foreign key, so alerts and deliveries keep naming it.
DropDestination(c) ==
  /\ pc[c] = "write" /\ req[c].kind = "drop"
  /\ IF req[c].on \in present
     THEN /\ present' = present \ {req[c].on}
          /\ End(c, "done")
     ELSE End(c, "failed") /\ UNCHANGED present
  /\ UNCHANGED <<alert, firings, rows, born, req, history>>

-----------------------------------------------------------------------------
(* Failures. *)

\* A statement fails inside a project.
SkipProject(c) ==
  /\ req[c].kind = "ingest"
  /\ \/ pc[c] \in {"select", "exprs", "dests", "fire"}
     \/ pc[c] = "alerts" /\ left[c] # {}
  /\ faults < MaxFaults
  /\ faults' = faults + 1
  /\ Broken(c)
  /\ UNCHANGED <<tables, req, touched, lost>>

\* Mutant: the loop over the destinations stops at the first error.
LoseDeliveries(c) ==
  /\ pc[c] = "deliver" /\ req[c].kind = "ingest"
  /\ faults < MaxFaults
  /\ faults' = faults + 1
  /\ \E d \in pending[c] :
       /\ pending' = [pending EXCEPT ![c] = {}]
       /\ lost' = lost \cup {<<cur[c], req[c].tx, d>>}
  /\ UNCHANGED <<tables, req, pc, scan, load, dest, outcome, touched, skipped>>

\* The ingester ignores that the INSERT of a delivery failed.
LoseDelivery(c) ==
  /\ pc[c] = "deliver" /\ req[c].kind = "ingest"
  /\ faults < MaxFaults
  /\ faults' = faults + 1
  /\ \E d \in pending[c] :
       /\ pending' = [pending EXCEPT ![c] = @ \ {d}]
       /\ lost' = lost \cup {<<cur[c], req[c].tx, d>>}
  /\ UNCHANGED <<tables, req, pc, scan, load, dest, outcome, touched, skipped>>

\* A failed statement or request the handler returns, or the end of the process.
Fail(c) ==
  /\ pc[c] \notin Ended
  /\ faults < MaxFaults
  /\ faults' = faults + 1
  /\ End(c, "failed")
  /\ UNCHANGED <<tables, req, touched, skipped, lost>>

-----------------------------------------------------------------------------
Evaluation(c) ==
  \/ Begin(c) \/ NextProject(c) \/ SelectAlerts(c) \/ LoadRow(c) \/ LoadExprs(c)
  \/ LoadDests(c) \/ Fire(c) \/ Deliver(c) \/ AllDelivered(c) \/ Finish(c)

Delivery(c) == OpenTest(c) \/ Send(c) \/ Record(c)

Handler(c) ==
  \/ Validate(c) \/ CreateAlert(c) \/ PatchAlert(c) \/ DeleteAlert(c)
  \/ DropDestination(c)

Failure(c) == SkipProject(c) \/ LoseDelivery(c) \/ Fail(c)

Next == \E c \in Calls : Evaluation(c) \/ Delivery(c) \/ Handler(c) \/ Failure(c)

Spec == Init /\ [][Next]_vars

\* A spawned task and a handler run to their end.
FairSpec == Spec /\ \A c \in Calls : WF_vars(Evaluation(c) \/ Delivery(c) \/ Handler(c))

-----------------------------------------------------------------------------
Firing == [alert : Alerts, tx : Txs, by : Calls, dests : SUBSET Dests]
DeliveryRow == [alert : Alerts \cup {None}, tx : Txs \cup {None}, dest : Dests, by : Calls,
                status : Statuses, attempt : 1..2]

\* The types of the state.  No delivery is tried more than once, so its attempt
\* column never passes 2.
TypeOK ==
  /\ alert \in [Alerts -> Form \cup {None}]
  /\ present \subseteq Dests
  /\ \A f \in firings : f \in Firing
  /\ \A r \in rows : r \in DeliveryRow
  /\ req \in [Calls -> Requests]
  /\ pc \in [Calls -> Steps \cup Ended]
  /\ todo \in [Calls -> SUBSET Projects]
  /\ project \in [Calls -> Projects \cup {None}]
  /\ left \in [Calls -> SUBSET Alerts]
  /\ cur \in [Calls -> Alerts \cup {None}]
  /\ aims \in [Calls -> BOOLEAN]
  /\ conds \in [Calls -> {"match", "differ", "none"}]
  /\ pending \in [Calls -> SUBSET Dests]
  /\ dest \in [Calls -> Dests \cup {None}]
  /\ outcome \in [Calls -> {"success", "retry", None}]
  /\ born \subseteq Alerts
  /\ touched \in [Calls -> SUBSET Alerts]
  /\ skipped \in [Calls -> SUBSET Projects]
  /\ lost \subseteq Alerts \X Txs \X Dests
  /\ faults \in 0..MaxFaults

Matches(a, t) == /\ alert[a] # None
                 /\ alert[a].enabled
                 /\ t \in alert[a].target \cap alert[a].exprs

\* However many evaluations of a transaction run at once (passes that overlap, a
\* ledger ingested again, the API), each destination of an alert gets one delivery.
OneDeliveryEach ==
  \A r, s \in rows :
    r.alert # None /\ r.alert = s.alert /\ r.tx = s.tx /\ r.dest = s.dest => r = s

\* An evaluation that ended well has fired, or found fired, every alert that matched
\* the transaction and did not change meanwhile, whatever failed in the other projects:
\* "one project's failure must not block others" (alerts_eval.rs:28).
NoMissedFiring ==
  \A c \in Calls : Evaluates(c) /\ pc[c] = "done" =>
    \A a \in Alerts :
      /\ a \notin touched[c]
      /\ req[c].kind = "api" => ProjectOf[a] = req[c].on
      /\ ProjectOf[a] \notin skipped[c]
      /\ Matches(a, req[c].tx)
      => Fired(a, req[c].tx)

\* What fired was asked for: an alert that did not change since the evaluation began
\* is enabled and matches, and was fired for the destinations it has.
FiredAsConfigured ==
  \A f \in firings :
    f.alert \notin touched[f.by] =>
      /\ Matches(f.alert, f.tx)
      /\ f.dests = alert[f.alert].dests

\* A firing's deliveries are all written once its evaluation ended well, but for those
\* whose own INSERT failed: one destination's failure does not reach the next.
NoDeliveryDropped ==
  \A f \in firings : pc[f.by] = "done" =>
    \A d \in f.dests :
      \/ \E r \in rows : r.alert = f.alert /\ r.tx = f.tx /\ r.dest = d
      \/ <<f.alert, f.tx, d>> \in lost

\* The history of deliveries is kept: no row goes, even if its alert or destination
\* is deleted, and a recorded result is not written over.
HistoryKept ==
  [][\A r \in rows : \/ r \in rows'
                     \/ /\ r.status = "pending"
                        /\ \E s \in rows' : /\ s.alert = r.alert /\ s.tx = r.tx
                                            /\ s.dest = r.dest /\ s.by = r.by]_vars
=============================================================================
