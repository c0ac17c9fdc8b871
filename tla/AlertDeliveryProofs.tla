-------------------------- MODULE AlertDeliveryProofs --------------------------
(***************************************************************************)
(* Theorems about AlertDelivery, for any number of calls, alerts, projects,*)
(* transactions, destinations and failures.                                *)
(***************************************************************************)
EXTENDS AlertDelivery, TLAPS

USE DEF tables, scan, load, send, history

\* What the place of a call says about its locals.
Shape ==
  \A c \in Calls :
    /\ pc[c] = "begin" => req[c].kind = "ingest"
    /\ pc[c] \in {"select", "alerts", "exprs", "dests", "fire", "deliver"} => Evaluates(c)
    /\ pc[c] \in {"send", "record"} => req[c].kind \in {"api", "test"}
    /\ pc[c] = "open" => req[c].kind = "test"
    /\ pc[c] = "check" => req[c].kind \in {"create", "patch"}
    /\ pc[c] = "write" => req[c].kind \in {"delete", "drop"}
    /\ pc[c] \in {"exprs", "dests", "fire", "deliver"} => cur[c] \in Alerts
    /\ pc[c] \in {"send", "record"} /\ req[c].kind = "api" => cur[c] \in Alerts
    /\ req[c].kind = "test" => cur[c] = None /\ pending[c] = {}
    /\ pc[c] \in {"open", "send", "record"} => dest[c] \in Dests
    /\ pc[c] = "record" => outcome[c] \in {"success", "retry"}
    /\ pc[c] \in {"select", "exprs", "dests", "fire"} => project[c] \in Projects
    /\ left[c] # {} => project[c] \in Projects

\* The rows a call has still to write are not there, and the one it is delivering
\* is as it was inserted.
Fresh ==
  \A c \in Calls :
    /\ pc[c] = "open" => \A r \in rows : r.by # c
    /\ pc[c] \in {"send", "record"} =>
         \A r \in Own(c) : r.status = "pending" /\ r.attempt = 1
    /\ pc[c] \in {"deliver", "send", "record"} =>
         \A r \in rows : r.by = c /\ r.alert = cur[c] => r.dest \notin pending[c]

TypeInv == TypeOK /\ Shape

LEMMA RequestFacts ==
  ASSUME NEW r \in Requests
  PROVE  /\ r.kind \in {"ingest", "api", "create", "patch", "delete", "drop", "test"}
         /\ r.kind \in {"ingest", "api"} => r.tx \in Txs
         /\ r.kind \in {"api", "create"} => r.on \in Projects
         /\ r.kind \in {"create", "patch"} => r.form \in Form
         /\ r.kind \in {"patch", "delete"} => r.on \in Alerts
         /\ r.kind \in {"drop", "test"} => r.on \in Dests
  BY AlertAssumption DEF Requests

LEMMA FormFacts ==
  ASSUME NEW f \in Form
  PROVE  f # None /\ f.enabled \in BOOLEAN /\ f.dests \in SUBSET Dests
         /\ f.target \in SUBSET Txs /\ f.exprs \in SUBSET Txs
  BY AlertAssumption DEF Form

LEMMA ProjectFacts == \A a \in Alerts : ProjectOf[a] \in Projects
  BY DEF Projects

LEMMA TypeInit == Init => TypeInv
<1> SUFFICES ASSUME Init PROVE TypeInv OBVIOUS
<1>0. \A c \in Calls : req[c] \in Requests
  BY DEF Init
<1>1. \A c \in Calls : pc[c] = Entry(req[c].kind) /\ Entry(req[c].kind) \in Steps
  BY <1>0, RequestFacts DEF Init, Entry, Steps
<1>2. \A c \in Calls : req[c].kind \in {"create", "patch"} => req[c].form.dests \in SUBSET Dests
  BY <1>0, RequestFacts, FormFacts
<1>3. \A c \in Calls : /\ req[c].kind = "api" => req[c].on \in Projects
                       /\ req[c].kind = "test" => req[c].on \in Dests
  BY <1>0, RequestFacts
<1>4. pending \in [Calls -> SUBSET Dests] /\ dest \in [Calls -> Dests \cup {None}]
      /\ project \in [Calls -> Projects \cup {None}]
  BY <1>2, <1>3 DEF Init
<1>5. TypeOK
  BY <1>1, <1>4, AlertAssumption DEF Init, TypeOK
<1>6. Shape
  BY <1>0, <1>1, <1>3, RequestFacts DEF Init, Shape, Entry, Evaluates
<1> QED BY <1>5, <1>6 DEF TypeInv

LEMMA TypeStep == TypeInv /\ Fresh /\ [Next]_vars => TypeInv'
<1> SUFFICES ASSUME TypeInv, Fresh, [Next]_vars PROVE TypeInv' OBVIOUS
<1> USE DEF TypeInv, TypeOK, Steps, Ended, Evaluates
<1>0. \A c \in Calls : req[c] \in Requests
  OBVIOUS
<1>1. ASSUME NEW c \in Calls, NEW how \in Ended, End(c, how),
             UNCHANGED <<req, rows, lost>>,
             alert' \in [Alerts -> Form \cup {None}], present' \subseteq Dests,
             \A f \in firings' : f \in Firing, born' \subseteq Alerts,
             touched' \in [Calls -> SUBSET Alerts], skipped' = skipped,
             faults' \in 0..MaxFaults
      PROVE TypeInv'
  BY <1>1 DEF End, Shape
<1>2. ASSUME NEW c \in Calls, NextAlert(c), Evaluates(c),
             UNCHANGED <<req, alert, present, rows, firings, born, touched, skipped, lost, faults>>
      PROVE TypeInv'
  BY <1>2 DEF NextAlert, Shape
<1>3. ASSUME NEW c \in Calls, req[c].kind = "ingest", project[c] \in Projects, Broken(c),
             UNCHANGED <<req, alert, present, rows, firings, born, touched, lost>>,
             faults' \in 0..MaxFaults
      PROVE TypeInv'
  <2>0. /\ pc' = [pc EXCEPT ![c] = "alerts"]
        /\ skipped' = [skipped EXCEPT ![c] = @ \cup {project[c]}]
        /\ project' = [project EXCEPT ![c] = None]
        /\ left' = [left EXCEPT ![c] = {}]
        /\ cur' = [cur EXCEPT ![c] = None]
        /\ aims' = [aims EXCEPT ![c] = FALSE]
        /\ conds' = [conds EXCEPT ![c] = "none"]
        /\ pending' = [pending EXCEPT ![c] = {}]
        /\ UNCHANGED <<todo, dest, outcome, req, alert, present, rows, firings, born,
                       touched, lost>>
        /\ faults' \in 0..MaxFaults
    BY <1>3 DEF Broken
  <2>3. skipped' \in [Calls -> SUBSET Projects]
    BY <1>3, <2>0
  <2>1. TypeOK'
    BY <2>0, <2>3
  <2>2. Shape'
    BY <1>3, <2>0 DEF Shape
  <2> QED BY <2>1, <2>2
<1>4. ASSUME NEW c \in Calls, Begin(c) PROVE TypeInv'
  <2>1. {ProjectOf[a] : a \in {b \in Alerts : alert[b] # None /\ alert[b].enabled}} \subseteq Projects
    BY DEF Projects
  <2>2. todo' \in [Calls -> SUBSET Projects]
    BY <1>4, <2>1 DEF Begin
  <2> QED BY <1>4, <2>2 DEF Begin, Shape
<1>5. ASSUME NEW c \in Calls, NextProject(c) PROVE TypeInv'
  BY <1>5 DEF NextProject, Shape
<1>6. ASSUME NEW c \in Calls, SelectAlerts(c) PROVE TypeInv'
  BY <1>6 DEF SelectAlerts, Shape
<1>7. ASSUME NEW c \in Calls, LoadRow(c) PROVE TypeInv'
  <2>1. PICK a \in left[c] :
          IF alert[a] # None
          THEN /\ cur' = [cur EXCEPT ![c] = a]
               /\ aims' = [aims EXCEPT ![c] = req[c].tx \in alert[a].target]
               /\ left' = [left EXCEPT ![c] = @ \ {a}]
               /\ pc' = [pc EXCEPT ![c] = "exprs"]
               /\ UNCHANGED <<todo, project, conds, send>>
          ELSE IF req[c].kind = "ingest"
          THEN left' = [left EXCEPT ![c] = @ \ {a}] /\ UNCHANGED <<pc, todo, project, load, send>>
          ELSE End(c, "failed")
    BY <1>7 DEF LoadRow
  <2>2. a \in Alerts /\ project[c] \in Projects /\ pc[c] = "alerts"
    BY <1>7 DEF LoadRow, Shape
  <2>3. UNCHANGED <<tables, req, history>>
    BY <1>7 DEF LoadRow
  <2>4. CASE alert[a] # None
    <3> DEFINE b == req[c].tx \in alert[a].target
    <3>0. aims' = [aims EXCEPT ![c] = b] /\ b \in BOOLEAN /\ aims \in [Calls -> BOOLEAN]
      BY <2>1, <2>4
    <3> HIDE DEF b
    <3>1. aims' \in [Calls -> BOOLEAN]
      BY <3>0
    <3> QED BY <2>1, <2>2, <2>3, <2>4, <3>1 DEF Shape
  <2>5. CASE alert[a] = None /\ req[c].kind = "ingest"
    BY <2>1, <2>2, <2>3, <2>5 DEF Shape
  <2>6. CASE alert[a] = None /\ req[c].kind # "ingest"
    BY <1>1, <2>1, <2>3, <2>6
  <2> QED BY <2>4, <2>5, <2>6
<1>8. ASSUME NEW c \in Calls, LoadExprs(c) PROVE TypeInv'
  BY <1>8 DEF LoadExprs, Shape
<1>9. ASSUME NEW c \in Calls, LoadDests(c) PROVE TypeInv'
  <2>1. pc[c] = "dests" /\ cur[c] \in Alerts /\ project[c] \in Projects
    BY <1>9 DEF LoadDests, Shape
  <2>2. CASE aims[c] /\ conds[c] = "match"
    <3> DEFINE D == IF alert[cur[c]] = None THEN {} ELSE alert[cur[c]].dests
    <3>1. D \in SUBSET Dests
      BY <2>1, FormFacts
    <3>2. pending' = [pending EXCEPT ![c] = D]
      BY <1>9, <2>2 DEF LoadDests
    <3> HIDE DEF D
    <3> QED BY <1>9, <2>1, <2>2, <3>1, <3>2 DEF LoadDests, Shape
  <2>3. CASE ~(aims[c] /\ conds[c] = "match") /\ req[c].kind = "api" /\ aims[c] /\ conds[c] = "none"
    BY <1>1, <1>9, <2>3 DEF LoadDests
  <2>4. CASE ~(aims[c] /\ conds[c] = "match") /\ ~(req[c].kind = "api" /\ aims[c] /\ conds[c] = "none")
    BY <1>2, <1>9, <2>1, <2>4 DEF LoadDests, Shape
  <2> QED BY <2>2, <2>3, <2>4
<1>10. ASSUME NEW c \in Calls, Fire(c) PROVE TypeInv'
  <2>1. pc[c] = "fire" /\ cur[c] \in Alerts /\ project[c] \in Projects /\ Evaluates(c)
    BY <1>10 DEF Fire, Shape
  <2>2. CASE alert[cur[c]] = None
    <3>1. CASE req[c].kind = "ingest"
      BY <1>3, <1>10, <2>1, <2>2, <3>1 DEF Fire
    <3>2. CASE req[c].kind # "ingest"
      BY <1>1, <1>10, <2>2, <3>2 DEF Fire, Broken
    <3> QED BY <3>1, <3>2
  <2>3. CASE alert[cur[c]] # None /\ Fired(cur[c], req[c].tx)
    BY <1>2, <1>10, <2>1, <2>3 DEF Fire
  <2>4. CASE alert[cur[c]] # None /\ ~Fired(cur[c], req[c].tx)
    <3> DEFINE f == [alert |-> cur[c], tx |-> req[c].tx, by |-> c, dests |-> pending[c]]
    <3>1. f \in Firing
      BY <1>0, <2>1, RequestFacts DEF Firing
    <3>2. firings' = firings \cup {f} /\ pc' = [pc EXCEPT ![c] = "deliver"]
          /\ UNCHANGED <<scan, load, send, skipped, alert, present, rows, born, req, touched, lost, faults>>
      BY <1>10, <2>4 DEF Fire
    <3> HIDE DEF f
    <3> QED BY <2>1, <3>1, <3>2 DEF Shape
  <2> QED BY <2>2, <2>3, <2>4
<1>11. ASSUME NEW c \in Calls, Deliver(c) PROVE TypeInv'
  <2>1. pc[c] = "deliver" /\ cur[c] \in Alerts /\ Evaluates(c) /\ req[c].tx \in Txs
    BY <1>0, <1>11, RequestFacts DEF Deliver, Shape
  <2>2. CASE alert[cur[c]] = None /\ req[c].kind = "api"
    BY <1>1, <1>11, <2>2 DEF Deliver
  <2>3. CASE ~(alert[cur[c]] = None /\ req[c].kind = "api")
    <3>1. PICK d \in pending[c] :
            /\ pending' = [pending EXCEPT ![c] = @ \ {d}]
            /\ rows' = IF alert[cur[c]] = None THEN rows
                       ELSE rows \cup {[alert |-> cur[c], tx |-> req[c].tx, dest |-> d,
                                        by |-> c, status |-> "pending", attempt |-> 1]}
            /\ IF req[c].kind = "ingest"
               THEN UNCHANGED <<pc, dest>>
               ELSE /\ pc' = [pc EXCEPT ![c] = "send"]
                    /\ dest' = [dest EXCEPT ![c] = d]
            /\ UNCHANGED <<scan, load, outcome>>
      BY <1>11, <2>3 DEF Deliver
    <3>2. d \in Dests
      BY <3>1
    <3>3. [alert |-> cur[c], tx |-> req[c].tx, dest |-> d, by |-> c,
           status |-> "pending", attempt |-> 1] \in DeliveryRow
      BY <2>1, <3>2 DEF DeliveryRow, Statuses
    <3>4. \A r \in rows' : r \in DeliveryRow
      BY <3>1, <3>3
    <3>5. UNCHANGED <<alert, present, firings, born, req, history>>
      BY <1>11 DEF Deliver
    <3> QED BY <2>1, <3>1, <3>2, <3>4, <3>5 DEF Shape
  <2> QED BY <2>2, <2>3
<1>12. ASSUME NEW c \in Calls, AllDelivered(c) PROVE TypeInv'
  <2>1. Evaluates(c) /\ pc[c] = "deliver"
    BY <1>12 DEF AllDelivered, Shape
  <2> QED BY <1>2, <1>12, <2>1 DEF AllDelivered
<1>13. ASSUME NEW c \in Calls, Finish(c) PROVE TypeInv'
  BY <1>1, <1>13 DEF Finish
<1>14. ASSUME NEW c \in Calls, OpenTest(c) PROVE TypeInv'
  <2>1. CASE dest[c] \in present
    <3>1. [alert |-> None, tx |-> None, dest |-> dest[c], by |-> c,
           status |-> "pending", attempt |-> 1] \in DeliveryRow
      BY <1>14, <2>1 DEF OpenTest, DeliveryRow, Statuses
    <3>2. \A r \in rows' : r \in DeliveryRow
      BY <1>14, <2>1, <3>1 DEF OpenTest
    <3>3. /\ pc[c] = "open" /\ pc' = [pc EXCEPT ![c] = "send"]
          /\ UNCHANGED <<scan, load, send, alert, present, firings, born, req, history>>
      BY <1>14, <2>1 DEF OpenTest
    <3> QED BY <3>2, <3>3 DEF Shape
  <2>2. CASE dest[c] \notin present
    BY <1>1, <1>14, <2>2 DEF OpenTest
  <2> QED BY <2>1, <2>2
<1>15. ASSUME NEW c \in Calls, Send(c) PROVE TypeInv'
  <2>1. CASE dest[c] \in present
    BY <1>15, <2>1 DEF Send, Shape
  <2>2. CASE dest[c] \notin present
    BY <1>1, <1>15, <2>2 DEF Send
  <2> QED BY <2>1, <2>2
<1>16. ASSUME NEW c \in Calls, Record(c) PROVE TypeInv'
  <2>1. pc[c] = "record" /\ outcome[c] \in {"success", "retry"}
    BY <1>16 DEF Record, Shape
  <2>2. ASSUME NEW r \in Own(c) PROVE Updated(r, outcome[c]) \in DeliveryRow
    <3>1. r \in DeliveryRow /\ r.attempt = 1
      BY <2>1, <2>2 DEF Own, Fresh
    <3> DEFINE n == IF outcome[c] = "retry" THEN 2 ELSE 1
    <3>2. Updated(r, outcome[c]) = [r EXCEPT !.status = outcome[c], !.attempt = n]
      BY <2>1, <3>1 DEF Updated, Retriable, BackoffSteps
    <3>3. n \in 1..2 /\ outcome[c] \in Statuses
      BY <2>1 DEF Statuses
    <3> HIDE DEF n
    <3>4. [r EXCEPT !.status = outcome[c], !.attempt = n] \in DeliveryRow
      BY <3>1, <3>3 DEF DeliveryRow
    <3> QED BY <3>2, <3>4
  <2>3. rows' = (rows \ Own(c)) \cup {Updated(r, outcome[c]) : r \in Own(c)}
    BY <1>16 DEF Record
  <2>4. \A r \in rows' : r \in DeliveryRow
    BY <2>2, <2>3
  <2>5. CASE req[c].kind = "api"
    BY <1>16, <2>4, <2>5 DEF Record, Shape
  <2>6. CASE req[c].kind # "api"
    <3>1. End(c, "done") /\ UNCHANGED <<alert, present, firings, born, req, history>>
      BY <1>16, <2>6 DEF Record
    <3>2. TypeOK'
      BY <2>4, <3>1 DEF End
    <3>3. Shape'
      BY <3>1 DEF End, Shape
    <3> QED BY <3>2, <3>3
  <2> QED BY <2>5, <2>6
<1>17. ASSUME NEW c \in Calls, Validate(c) PROVE TypeInv'
  <2>1. PICK d \in pending[c] :
          IF d \in present
          THEN /\ pending' = [pending EXCEPT ![c] = @ \ {d}]
               /\ UNCHANGED <<pc, scan, load, dest, outcome>>
          ELSE End(c, "failed")
    BY <1>17 DEF Validate
  <2>2. CASE d \in present
    BY <1>17, <2>1, <2>2 DEF Validate, Shape
  <2>3. CASE d \notin present
    BY <1>1, <1>17, <2>1, <2>3 DEF Validate
  <2> QED BY <2>2, <2>3
<1>18. ASSUME NEW a \in Alerts, Touch(a) PROVE touched' \in [Calls -> SUBSET Alerts]
  BY <1>18 DEF Touch
<1>19. ASSUME NEW c \in Calls, CreateAlert(c) PROVE TypeInv'
  <2>1. PICK a \in Alerts \ born :
          /\ alert' = [alert EXCEPT ![a] = req[c].form]
          /\ born' = born \cup {a}
          /\ Touch(a)
    BY <1>19 DEF CreateAlert
  <2>2. req[c].form \in Form
    BY <1>0, <1>19, RequestFacts DEF CreateAlert
  <2>3. alert' \in [Alerts -> Form \cup {None}] /\ born' \subseteq Alerts
        /\ touched' \in [Calls -> SUBSET Alerts]
    BY <1>18, <2>1, <2>2
  <2> QED BY <1>1, <1>19, <2>3 DEF CreateAlert
<1>20. ASSUME NEW c \in Calls, PatchAlert(c) PROVE TypeInv'
  <2>1. req[c].form \in Form /\ req[c].on \in Alerts
    BY <1>0, <1>20, RequestFacts DEF PatchAlert
  <2>2. CASE alert[req[c].on] = None
    BY <1>1, <1>20, <2>2 DEF PatchAlert
  <2>3. CASE alert[req[c].on] # None
    <3>1. alert' \in [Alerts -> Form \cup {None}] /\ touched' \in [Calls -> SUBSET Alerts]
      BY <1>18, <1>20, <2>1, <2>3 DEF PatchAlert
    <3> QED BY <1>1, <1>20, <2>3, <3>1 DEF PatchAlert
  <2> QED BY <2>2, <2>3
<1>21. ASSUME NEW c \in Calls, DeleteAlert(c) PROVE TypeInv'
  <2> DEFINE a == req[c].on
  <2>1. a \in Alerts
    BY <1>0, <1>21, RequestFacts DEF DeleteAlert
  <2>2. CASE alert[a] = None \/ \E r \in rows : r.alert = a
    BY <1>1, <1>21, <2>2 DEF DeleteAlert
  <2>3. CASE ~(alert[a] = None \/ \E r \in rows : r.alert = a)
    <3>1. /\ alert' = [alert EXCEPT ![a] = None]
          /\ firings' = {f \in firings : f.alert # a}
          /\ Touch(a)
          /\ End(c, "done")
          /\ UNCHANGED <<present, rows, born, req, skipped, lost, faults>>
      BY <1>21, <2>3 DEF DeleteAlert
    <3>2. alert' \in [Alerts -> Form \cup {None}] /\ touched' \in [Calls -> SUBSET Alerts]
      BY <1>18, <2>1, <3>1
    <3>3. \A f \in firings' : f \in Firing
      BY <3>1
    <3> QED BY <1>1, <3>1, <3>2, <3>3
  <2> QED BY <2>2, <2>3
<1>22. ASSUME NEW c \in Calls, DropDestination(c) PROVE TypeInv'
  <2>1. present' \subseteq Dests /\ \E how \in Ended : End(c, how)
    BY <1>22 DEF DropDestination
  <2> QED BY <1>1, <1>22, <2>1 DEF DropDestination
<1>23. ASSUME NEW c \in Calls, SkipProject(c) PROVE TypeInv'
  <2>1. project[c] \in Projects /\ faults' \in 0..MaxFaults /\ req[c].kind = "ingest"
    BY <1>23, AlertAssumption DEF SkipProject, Shape
  <2> QED BY <1>3, <1>23, <2>1 DEF SkipProject
<1>24. ASSUME NEW c \in Calls, LoseDelivery(c) PROVE TypeInv'
  <2>1. cur[c] \in Alerts /\ req[c].tx \in Txs /\ faults' \in 0..MaxFaults
    BY <1>0, <1>24, RequestFacts, AlertAssumption DEF LoseDelivery, Shape
  <2>2. PICK d \in pending[c] : /\ pending' = [pending EXCEPT ![c] = @ \ {d}]
                                /\ lost' = lost \cup {<<cur[c], req[c].tx, d>>}
    BY <1>24 DEF LoseDelivery
  <2>3. lost' \subseteq Alerts \X Txs \X Dests
    BY <2>1, <2>2
  <2> QED BY <1>24, <2>1, <2>2, <2>3 DEF LoseDelivery, Shape
<1>25. ASSUME NEW c \in Calls, Fail(c) PROVE TypeInv'
  <2>1. faults' \in 0..MaxFaults
    BY <1>25, AlertAssumption DEF Fail
  <2> QED BY <1>1, <1>25, <2>1 DEF Fail
<1>26. CASE UNCHANGED vars
  BY <1>26 DEF vars, Shape
<1> QED
  BY <1>4, <1>5, <1>6, <1>7, <1>8, <1>9, <1>10, <1>11, <1>12, <1>13, <1>14, <1>15, <1>16, <1>17,
     <1>19, <1>20, <1>21, <1>22, <1>23, <1>24, <1>25, <1>26
  DEF Next, Evaluation, Delivery, Handler, Failure

-----------------------------------------------------------------------------
(* Who inserted what: one delivery for each destination of a firing. *)

Delivering(c) == Evaluates(c) /\ pc[c] \in {"deliver", "send", "record"}

\* Each delivery of an alert belongs to the firing its call inserted, and while
\* the call delivers, that firing is there unless the alert was deleted.
Books ==
  /\ \A a \in Alerts : alert[a] # None => a \in born
  /\ \A c \in Calls : cur[c] # None => cur[c] \in born
  /\ \A f \in firings : f.tx = req[f.by].tx /\ Evaluates(f.by) /\ alert[f.alert] # None
  /\ \A f, g \in firings : f.alert = g.alert /\ f.tx = g.tx => f = g
  /\ \A r \in rows : r.alert = None => ~Evaluates(r.by)
  /\ \A r \in rows : r.alert # None =>
       /\ r.tx = req[r.by].tx /\ Evaluates(r.by)
       /\ \E f \in firings : f.alert = r.alert /\ f.by = r.by /\ r.dest \in f.dests
  /\ \A r, s \in rows : r.by = s.by /\ r.alert = s.alert /\ r.dest = s.dest => r = s
  /\ \A c \in Calls : Delivering(c) =>
       \/ alert[cur[c]] = None
       \/ \E f \in firings : f.alert = cur[c] /\ f.by = c /\ pending[c] \subseteq f.dests

Inv == TypeInv /\ Fresh /\ Books

LEMMA InvInit == Init => Inv
<1> SUFFICES ASSUME Init PROVE Inv OBVIOUS
<1>1. \A c \in Calls : pc[c] \in {"begin", "select", "check", "open", "write"}
  BY RequestFacts DEF Init, Entry
<1>2. Fresh
  BY <1>1 DEF Init, Fresh
<1>3. Books
  BY <1>1 DEF Init, Books, Delivering
<1> QED BY TypeInit, <1>2, <1>3 DEF Inv

\* A step of c that inserts no firing and no delivery and does not begin to deliver.
LEMMA BooksFrame ==
  ASSUME Inv, NEW c \in Calls, UNCHANGED <<rows, firings, req>>,
         \A a \in Alerts : alert[a] # None => alert'[a] # None,
         \A a \in Alerts : alert'[a] # None => a \in born',
         \A a \in born : alert[a] = None => alert'[a] = None,
         born \subseteq born',
         \A d \in Calls \ {c} : pc'[d] = pc[d] /\ cur'[d] = cur[d]
                                  /\ pending'[d] = pending[d] /\ dest'[d] = dest[d],
         pc'[c] \notin {"open", "deliver", "send", "record"},
         cur'[c] # None => cur'[c] \in born
  PROVE  Fresh' /\ Books'
<1> USE DEF Inv, TypeInv, TypeOK, Evaluates
<1>1. Fresh'
  <2>1. \A d \in Calls \ {c} : Own(d)' = Own(d)
    BY DEF Own
  <2> QED BY <2>1 DEF Fresh
<1>2. \A d \in Calls : cur'[d] # None => cur'[d] \in born'
  BY DEF Books
<1>3. \A f \in firings' : f.tx = req'[f.by].tx /\ Evaluates(f.by)' /\ alert'[f.alert] # None
  BY DEF Books, Firing
<1>4. \A d \in Calls : Delivering(d)' =>
       \/ alert'[cur'[d]] = None
       \/ \E f \in firings' : f.alert = cur'[d] /\ f.by = d /\ pending'[d] \subseteq f.dests
  <2> SUFFICES ASSUME NEW d \in Calls, Delivering(d)'
               PROVE  \/ alert'[cur'[d]] = None
                      \/ \E f \in firings : f.alert = cur[d] /\ f.by = d /\ pending[d] \subseteq f.dests
                         /\ cur'[d] = cur[d] /\ pending'[d] = pending[d]
    OBVIOUS
  <2>1. d # c /\ Delivering(d)
    BY DEF Delivering
  <2>2. cur[d] \in Alerts
    BY <2>1 DEF Delivering, Shape
  <2>3. cur[d] \in born
    BY <2>2, AlertAssumption DEF Books
  <2> QED BY <2>1, <2>3 DEF Books
<1>5. \A r \in rows' : r.alert # None =>
        /\ r.tx = req'[r.by].tx /\ Evaluates(r.by)'
        /\ \E f \in firings' : f.alert = r.alert /\ f.by = r.by /\ r.dest \in f.dests
  BY DEF Books
<1> QED BY <1>1, <1>2, <1>3, <1>4, <1>5 DEF Books

LEMMA BooksStep == Inv /\ TypeInv' /\ [Next]_vars => Fresh' /\ Books'
<1> SUFFICES ASSUME Inv, TypeInv', [Next]_vars PROVE Fresh' /\ Books' OBVIOUS
<1>0. TypeInv /\ TypeOK /\ Shape /\ Fresh /\ Books
  BY DEF Inv, TypeInv
<1>t. /\ pc \in [Calls -> Steps \cup Ended] /\ cur \in [Calls -> Alerts \cup {None}]
      /\ pending \in [Calls -> SUBSET Dests] /\ dest \in [Calls -> Dests \cup {None}]
      /\ alert \in [Alerts -> Form \cup {None}] /\ req \in [Calls -> Requests]
      /\ left \in [Calls -> SUBSET Alerts]
  BY <1>0 DEF TypeOK
<1>b. /\ \A a \in Alerts : alert[a] # None => a \in born
      /\ \A c \in Calls : cur[c] # None => cur[c] \in born
  BY <1>0 DEF Books
<1>1. ASSUME NEW c \in Calls, NEW how \in Ended, End(c, how),
             UNCHANGED <<rows, firings, req, alert, born>>
      PROVE Fresh' /\ Books'
  BY <1>1, <1>t, <1>b, BooksFrame DEF End, Ended
<1>2. ASSUME NEW c \in Calls, NextAlert(c), UNCHANGED <<rows, firings, req, alert, born>>
      PROVE Fresh' /\ Books'
  BY <1>2, <1>t, <1>b, BooksFrame DEF NextAlert
<1>3. ASSUME NEW c \in Calls, Broken(c), UNCHANGED <<rows, firings, req, alert, born>>
      PROVE Fresh' /\ Books'
  <2>1. CASE req[c].kind = "ingest"
    BY <1>3, <2>1, <1>t, <1>b, BooksFrame DEF Broken
  <2>2. CASE req[c].kind # "ingest"
    BY <1>3, <2>2, <1>1 DEF Broken, Ended
  <2> QED BY <2>1, <2>2
<1>4. ASSUME NEW c \in Calls, Begin(c) \/ NextProject(c) \/ SelectAlerts(c) \/ LoadExprs(c)
      PROVE Fresh' /\ Books'
  <2>1. /\ UNCHANGED <<rows, firings, req, alert, born, cur, pending, dest>>
        /\ pc' \in { [pc EXCEPT ![c] = x] : x \in {"alerts", "select", "dests"} }
    BY <1>4 DEF Begin, NextProject, SelectAlerts, LoadExprs
  <2> QED BY <2>1, <1>t, <1>b, BooksFrame
<1>5. ASSUME NEW c \in Calls, LoadRow(c) PROVE Fresh' /\ Books'
  <2>1. PICK a \in left[c] :
          IF alert[a] # None
          THEN /\ cur' = [cur EXCEPT ![c] = a]
               /\ aims' = [aims EXCEPT ![c] = req[c].tx \in alert[a].target]
               /\ left' = [left EXCEPT ![c] = @ \ {a}]
               /\ pc' = [pc EXCEPT ![c] = "exprs"]
               /\ UNCHANGED <<todo, project, conds, send>>
          ELSE IF req[c].kind = "ingest"
          THEN left' = [left EXCEPT ![c] = @ \ {a}] /\ UNCHANGED <<pc, todo, project, load, send>>
          ELSE End(c, "failed")
    BY <1>5 DEF LoadRow
  <2>2. a \in Alerts /\ pc[c] = "alerts" /\ UNCHANGED <<rows, firings, req, alert, born>>
    BY <1>5, <1>t, <2>1 DEF LoadRow
  <2>3. CASE alert[a] # None
    BY <2>1, <2>2, <2>3, <1>t, <1>b, BooksFrame
  <2>4. CASE alert[a] = None /\ req[c].kind = "ingest"
    BY <2>1, <2>2, <2>4, <1>t, <1>b, BooksFrame
  <2>5. CASE alert[a] = None /\ req[c].kind # "ingest"
    BY <2>1, <2>2, <2>5, <1>1 DEF Ended
  <2> QED BY <2>3, <2>4, <2>5
<1>6. ASSUME NEW c \in Calls, LoadDests(c) PROVE Fresh' /\ Books'
  <2>0. UNCHANGED <<rows, firings, req, alert, born>>
    BY <1>6 DEF LoadDests
  <2>1. CASE aims[c] /\ conds[c] = "match"
    <3>1. /\ pc' = [pc EXCEPT ![c] = "fire"] /\ UNCHANGED <<cur, dest>>
          /\ \A d \in Calls \ {c} : pending'[d] = pending[d]
      BY <1>6, <1>t, <2>1 DEF LoadDests
    <3> QED BY <2>0, <3>1, <1>t, <1>b, BooksFrame
  <2>2. CASE ~(aims[c] /\ conds[c] = "match")
    BY <1>6, <2>0, <2>2, <1>1, <1>2 DEF LoadDests, Ended
  <2> QED BY <2>1, <2>2
<1>7. ASSUME NEW c \in Calls, Fire(c) PROVE Fresh' /\ Books'
  <2>0. UNCHANGED <<alert, present, rows, born, req>> /\ pc[c] = "fire"
    BY <1>7 DEF Fire
  <2>1. CASE alert[cur[c]] = None
    BY <1>7, <2>0, <2>1, <1>3 DEF Fire
  <2>2. CASE alert[cur[c]] # None /\ Fired(cur[c], req[c].tx)
    BY <1>7, <2>0, <2>2, <1>2 DEF Fire
  <2>3. CASE alert[cur[c]] # None /\ ~Fired(cur[c], req[c].tx)
    <3> DEFINE f == [alert |-> cur[c], tx |-> req[c].tx, by |-> c, dests |-> pending[c]]
    <3>1. firings' = firings \cup {f} /\ pc' = [pc EXCEPT ![c] = "deliver"]
          /\ UNCHANGED <<cur, pending, dest>>
      BY <1>7, <2>3 DEF Fire
    <3>2. Evaluates(c) /\ cur[c] \in Alerts
      BY <1>0, <2>0 DEF Shape
    <3>3. f.alert = cur[c] /\ f.tx = req[c].tx /\ f.by = c /\ f.dests = pending[c]
      OBVIOUS
    <3> HIDE DEF f
    <3>4. \A g \in firings : ~(g.alert = cur[c] /\ g.tx = req[c].tx)
      BY <2>3 DEF Fired
    <3>5. \A r \in rows : ~(r.by = c /\ r.alert = cur[c])
      <4> SUFFICES ASSUME NEW r \in rows, r.by = c, r.alert = cur[c] PROVE FALSE
        OBVIOUS
      <4>1. PICK g \in firings : g.alert = r.alert /\ g.by = r.by
        BY <1>0, <3>2, AlertAssumption DEF Books
      <4>2. g.tx = req[c].tx
        BY <1>0, <4>1 DEF Books
      <4> QED BY <3>4, <4>1, <4>2
    <3>6. Fresh'
      <4>1. \A d \in Calls : Own(d)' = Own(d)
        BY <2>0, <3>1 DEF Own
      <4> QED BY <1>0, <1>t, <2>0, <3>1, <3>5, <4>1 DEF Fresh
    <3>7. Books'
      <4>1. \A g \in firings' : g.tx = req'[g.by].tx /\ Evaluates(g.by)' /\ alert'[g.alert] # None
        BY <1>0, <2>0, <2>3, <3>1, <3>2, <3>3 DEF Books, Evaluates
      <4>2. \A g, h \in firings' : g.alert = h.alert /\ g.tx = h.tx => g = h
        BY <1>0, <3>1, <3>3, <3>4 DEF Books
      <4>3. \A r \in rows' : r.alert # None =>
              /\ r.tx = req'[r.by].tx /\ Evaluates(r.by)'
              /\ \E g \in firings' : g.alert = r.alert /\ g.by = r.by /\ r.dest \in g.dests
        BY <1>0, <2>0, <3>1 DEF Books, Evaluates
      <4>4. \A d \in Calls : Delivering(d)' =>
              \/ alert'[cur'[d]] = None
              \/ \E g \in firings' : g.alert = cur'[d] /\ g.by = d /\ pending'[d] \subseteq g.dests
        <5>1. ASSUME NEW d \in Calls, d # c, Delivering(d)' PROVE Delivering(d)
          BY <1>t, <2>0, <3>1, <5>1 DEF Delivering, Evaluates
        <5> QED BY <1>0, <2>0, <3>1, <3>3, <5>1 DEF Books
      <4> QED BY <1>0, <2>0, <3>1, <4>1, <4>2, <4>3, <4>4 DEF Books, Evaluates
    <3> QED BY <3>6, <3>7
  <2> QED BY <2>1, <2>2, <2>3
<1>8. ASSUME NEW c \in Calls, UNCHANGED <<rows, firings, req, alert, born, cur, dest>>,
             pc[c] \in {"deliver", "send"}, pc' = [pc EXCEPT ![c] = pc'[c]],
             pc'[c] \in IF pc[c] = "deliver" THEN {"deliver"} ELSE {"record"},
             \A d \in Calls \ {c} : pending'[d] = pending[d],
             pending'[c] \subseteq pending[c]
      PROVE Fresh' /\ Books'
  <2>0. \A d \in Calls : /\ pending'[d] \subseteq pending[d]
                         /\ d # c => pc'[d] = pc[d]
    BY <1>8, <1>t
  <2>1. \A d \in Calls : Own(d)' = Own(d)
    BY <1>8 DEF Own
  <2>2. Fresh'
    <3>1. \A d \in Calls : pc'[d] = "open" => pc[d] = "open"
      BY <1>8, <2>0
    <3>2. \A d \in Calls : pc'[d] \in {"send", "record"} => pc[d] \in {"send", "record"}
      BY <1>8, <2>0
    <3>3. \A d \in Calls : pc'[d] \in {"deliver", "send", "record"} =>
                             pc[d] \in {"deliver", "send", "record"}
      BY <1>8, <2>0
    <3> QED BY <1>0, <1>8, <2>0, <2>1, <3>1, <3>2, <3>3 DEF Fresh
  <2>3. \A d \in Calls : Delivering(d)' =>
          \/ alert'[cur'[d]] = None
          \/ \E f \in firings' : f.alert = cur'[d] /\ f.by = d /\ pending'[d] \subseteq f.dests
    <3>1. \A d \in Calls : Delivering(d)' => Delivering(d)
      BY <1>8, <2>0 DEF Delivering, Evaluates
    <3> QED BY <1>0, <1>8, <2>0, <3>1 DEF Books
  <2> QED BY <1>0, <1>8, <2>2, <2>3 DEF Books, Evaluates
<1>9. ASSUME NEW c \in Calls, Deliver(c) PROVE Fresh' /\ Books'
  <2>0. /\ pc[c] = "deliver" /\ cur[c] \in Alerts /\ cur[c] # None /\ Evaluates(c)
        /\ UNCHANGED <<alert, present, firings, born, req, history>>
    BY <1>0, <1>9, AlertAssumption DEF Deliver, Shape
  <2>1. CASE alert[cur[c]] = None /\ req[c].kind = "api"
    BY <1>1, <1>9, <2>0, <2>1 DEF Deliver, Ended
  <2>2. CASE ~(alert[cur[c]] = None /\ req[c].kind = "api")
    <3>1. PICK d \in pending[c] :
            /\ pending' = [pending EXCEPT ![c] = @ \ {d}]
            /\ rows' = IF alert[cur[c]] = None THEN rows
                       ELSE rows \cup {[alert |-> cur[c], tx |-> req[c].tx, dest |-> d,
                                        by |-> c, status |-> "pending", attempt |-> 1]}
            /\ IF req[c].kind = "ingest"
               THEN UNCHANGED <<pc, dest>>
               ELSE /\ pc' = [pc EXCEPT ![c] = "send"]
                    /\ dest' = [dest EXCEPT ![c] = d]
            /\ UNCHANGED <<scan, load, outcome>>
      BY <1>9, <2>2 DEF Deliver
    <3>2. CASE alert[cur[c]] = None
      BY <1>8, <1>t, <2>0, <2>2, <3>1, <3>2 DEF Evaluates
    <3>3. CASE alert[cur[c]] # None
      <4> DEFINE n == [alert |-> cur[c], tx |-> req[c].tx, dest |-> d,
                       by |-> c, status |-> "pending", attempt |-> 1]
      <4>1. /\ rows' = rows \cup {n} /\ UNCHANGED cur
            /\ pending' = [pending EXCEPT ![c] = @ \ {d}]
            /\ \A x \in Calls \ {c} : pc'[x] = pc[x] /\ dest'[x] = dest[x]
            /\ pc'[c] = "deliver" \/ (pc'[c] = "send" /\ dest'[c] = d)
        BY <1>t, <2>0, <3>1, <3>3
      <4>2. /\ n.alert = cur[c] /\ n.tx = req[c].tx /\ n.dest = d
            /\ n.by = c /\ n.status = "pending" /\ n.attempt = 1
        OBVIOUS
      <4> HIDE DEF n
      <4>3. \A r \in rows : r.by = c /\ r.alert = cur[c] => r.dest # d
        BY <1>0, <2>0, <3>1 DEF Fresh
      <4>4. Fresh'
        <5>1. \A x \in Calls \ {c} : Own(x)' = Own(x)
          BY <4>1, <4>2 DEF Own
        <5>2. pc'[c] = "send" => Own(c)' = {n}
          BY <4>1, <4>2, <4>3 DEF Own
        <5>3. \A r \in rows' : r.by = c /\ r.alert = cur'[c] => r.dest \notin pending'[c]
          BY <1>0, <1>t, <2>0, <4>1, <4>2 DEF Fresh
        <5>4. \A x \in Calls : /\ pc'[x] = "open" => \A r \in rows' : r.by # x
                               /\ pc'[x] \in {"deliver", "send", "record"} =>
                                    \A r \in rows' : r.by = x /\ r.alert = cur'[x]
                                                       => r.dest \notin pending'[x]
          BY <1>0, <1>t, <4>1, <4>2, <5>3 DEF Fresh
        <5>5. \A x \in Calls : pc'[x] \in {"send", "record"} =>
                \A r \in Own(x)' : r.status = "pending" /\ r.attempt = 1
          BY <1>0, <4>1, <4>2, <5>1, <5>2 DEF Fresh
        <5> QED BY <5>4, <5>5 DEF Fresh
      <4>5. \A r, s \in rows' : r.by = s.by /\ r.alert = s.alert /\ r.dest = s.dest => r = s
        BY <1>0, <4>1, <4>2, <4>3 DEF Books
      <4>6. PICK f \in firings : f.alert = cur[c] /\ f.by = c /\ pending[c] \subseteq f.dests
        BY <1>0, <2>0, <3>3 DEF Books, Delivering
      <4>7. \A r \in rows' : /\ r.alert = None => ~Evaluates(r.by)'
                             /\ r.alert # None =>
                                  /\ r.tx = req'[r.by].tx /\ Evaluates(r.by)'
                                  /\ \E g \in firings' : g.alert = r.alert /\ g.by = r.by
                                                           /\ r.dest \in g.dests
        BY <1>0, <2>0, <3>1, <4>1, <4>2, <4>6 DEF Books, Evaluates
      <4>8. \A x \in Calls : Delivering(x)' =>
              \/ alert'[cur'[x]] = None
              \/ \E g \in firings' : g.alert = cur'[x] /\ g.by = x /\ pending'[x] \subseteq g.dests
        <5>1. \A x \in Calls : /\ Delivering(x)' => Delivering(x)
                               /\ pending'[x] \subseteq pending[x]
          BY <1>t, <2>0, <4>1 DEF Delivering, Evaluates
        <5> QED BY <1>0, <2>0, <4>1, <5>1 DEF Books
      <4> QED BY <1>0, <2>0, <4>1, <4>4, <4>5, <4>7, <4>8 DEF Books, Evaluates
    <3> QED BY <3>2, <3>3
  <2> QED BY <2>1, <2>2
<1>10. ASSUME NEW c \in Calls, AllDelivered(c) \/ Finish(c) PROVE Fresh' /\ Books'
  BY <1>1, <1>2, <1>10 DEF AllDelivered, Finish, Ended
<1>11. ASSUME NEW c \in Calls, OpenTest(c) PROVE Fresh' /\ Books'
  <2>1. CASE dest[c] \in present
    <3> DEFINE n == [alert |-> None, tx |-> None, dest |-> dest[c], by |-> c,
                     status |-> "pending", attempt |-> 1]
    <3>1. /\ pc[c] = "open" /\ rows' = rows \cup {n} /\ pc' = [pc EXCEPT ![c] = "send"]
          /\ UNCHANGED <<cur, pending, dest, alert, firings, born, req>>
      BY <1>11, <2>1 DEF OpenTest
    <3>2. /\ n.alert = None /\ n.dest = dest[c] /\ n.by = c
          /\ n.status = "pending" /\ n.attempt = 1
      OBVIOUS
    <3> HIDE DEF n
    <3>3. /\ cur[c] = None /\ pending[c] = {} /\ ~Evaluates(c)
          /\ \A r \in rows : r.by # c
      BY <1>0, <3>1 DEF Shape, Fresh, Evaluates
    <3>4. Fresh'
      <4>1. \A x \in Calls \ {c} : Own(x)' = Own(x)
        BY <3>1, <3>2 DEF Own
      <4>2. Own(c)' = {n}
        BY <3>1, <3>2, <3>3 DEF Own
      <4>3. \A x \in Calls : pc'[x] \in {"send", "record"} =>
              \A r \in Own(x)' : r.status = "pending" /\ r.attempt = 1
        BY <1>0, <1>t, <3>1, <3>2, <4>1, <4>2 DEF Fresh
      <4>4. \A x \in Calls : /\ pc'[x] = "open" => \A r \in rows' : r.by # x
                             /\ pc'[x] \in {"deliver", "send", "record"} =>
                                  \A r \in rows' : r.by = x /\ r.alert = cur'[x]
                                                     => r.dest \notin pending'[x]
        BY <1>0, <1>t, <3>1, <3>2, <3>3 DEF Fresh
      <4> QED BY <4>3, <4>4 DEF Fresh
    <3>5. \A r, s \in rows' : r.by = s.by /\ r.alert = s.alert /\ r.dest = s.dest => r = s
      BY <1>0, <3>1, <3>2, <3>3 DEF Books
    <3>6. \A x \in Calls : Delivering(x)' => Delivering(x)
      BY <1>t, <3>1, <3>3 DEF Delivering, Evaluates
    <3> QED BY <1>0, <3>1, <3>2, <3>3, <3>4, <3>5, <3>6 DEF Books, Evaluates
  <2>2. CASE dest[c] \notin present
    BY <1>1, <1>11, <2>2 DEF OpenTest, Ended
  <2> QED BY <2>1, <2>2
<1>12. ASSUME NEW c \in Calls, Send(c) PROVE Fresh' /\ Books'
  <2>1. CASE dest[c] \in present
    <3>1. /\ pc[c] = "send" /\ pc' = [pc EXCEPT ![c] = "record"]
          /\ UNCHANGED <<rows, firings, req, alert, born, cur, dest, pending>>
      BY <1>12, <2>1 DEF Send
    <3> QED BY <1>8, <1>t, <3>1
  <2>2. CASE dest[c] \notin present
    BY <1>1, <1>12, <2>2 DEF Send, Ended
  <2> QED BY <2>1, <2>2
<1>13. ASSUME NEW c \in Calls, Record(c) PROVE Fresh' /\ Books'
  <2>0. /\ pc[c] = "record" /\ UNCHANGED <<alert, present, firings, born, req, history>>
        /\ rows' = (rows \ Own(c)) \cup {Updated(r, outcome[c]) : r \in Own(c)}
    BY <1>13 DEF Record
  <2>1. \A r \in rows : LET u == Updated(r, outcome[c])
                        IN u.alert = r.alert /\ u.tx = r.tx /\ u.dest = r.dest /\ u.by = r.by
    BY <1>0 DEF TypeOK, DeliveryRow, Updated
  <2>2. \A x \in rows' : \E r \in rows :
          /\ x.alert = r.alert /\ x.tx = r.tx /\ x.dest = r.dest /\ x.by = r.by
          /\ x = IF r \in Own(c) THEN Updated(r, outcome[c]) ELSE r
    BY <2>0, <2>1 DEF Own
  <2>3. /\ \A x \in Calls \ {c} : pc'[x] = pc[x] /\ cur'[x] = cur[x] /\ pending'[x] = pending[x]
                                    /\ dest'[x] = dest[x]
        /\ \/ pc'[c] \in Ended /\ cur'[c] = None
           \/ pc'[c] = "deliver" /\ cur'[c] = cur[c] /\ pending'[c] = pending[c]
    BY <1>13, <1>t DEF Record, End, Ended
  <2>4. \A x \in Calls : /\ Delivering(x)' => Delivering(x) /\ cur'[x] = cur[x]
                                              /\ pending'[x] = pending[x]
                         /\ cur'[x] # None => cur'[x] = cur[x]
    BY <2>0, <2>3 DEF Delivering, Evaluates, Ended
  <2>5. Fresh'
    <3>1. \A x \in Calls \ {c} : Own(x)' = Own(x)
      <4> SUFFICES ASSUME NEW x \in Calls \ {c} PROVE Own(x)' = Own(x)
        OBVIOUS
      <4>1. \A r \in rows : r.by = x => r \in rows'
        BY <2>0 DEF Own
      <4>2. \A r \in rows' : r.by = x => r \in rows
        BY <2>2 DEF Own
      <4> QED BY <2>3, <4>1, <4>2 DEF Own
    <3>2. \A x \in Calls : pc'[x] \in {"send", "record"} =>
            \A r \in Own(x)' : r.status = "pending" /\ r.attempt = 1
      BY <1>0, <2>3, <3>1 DEF Fresh, Ended
    <3>3. \A x \in Calls : pc'[x] = "open" => \A r \in rows' : r.by # x
      BY <1>0, <2>2, <2>3 DEF Fresh, Ended
    <3>4. \A x \in Calls : pc'[x] \in {"deliver", "send", "record"} =>
            \A r \in rows' : r.by = x /\ r.alert = cur'[x] => r.dest \notin pending'[x]
      <4>1. \A x \in Calls : pc'[x] \in {"deliver", "send", "record"} =>
              /\ pc[x] \in {"deliver", "send", "record"}
              /\ cur'[x] = cur[x] /\ pending'[x] = pending[x]
        BY <2>0, <2>3 DEF Ended
      <4> QED BY <1>0, <2>2, <4>1 DEF Fresh
    <3> QED BY <3>2, <3>3, <3>4 DEF Fresh
  <2>6. \A r, s \in rows' : r.by = s.by /\ r.alert = s.alert /\ r.dest = s.dest => r = s
    <3> SUFFICES ASSUME NEW r \in rows', NEW s \in rows',
                        r.by = s.by, r.alert = s.alert, r.dest = s.dest
                 PROVE r = s
      OBVIOUS
    <3>1. PICK u \in rows :
            /\ r.alert = u.alert /\ r.dest = u.dest /\ r.by = u.by
            /\ r = IF u \in Own(c) THEN Updated(u, outcome[c]) ELSE u
      BY <2>2
    <3>2. PICK v \in rows :
            /\ s.alert = v.alert /\ s.dest = v.dest /\ s.by = v.by
            /\ s = IF v \in Own(c) THEN Updated(v, outcome[c]) ELSE v
      BY <2>2
    <3>3. u.by = v.by /\ u.alert = v.alert /\ u.dest = v.dest
      BY <3>1, <3>2
    <3>4. \A x, y \in rows : x.by = y.by /\ x.alert = y.alert /\ x.dest = y.dest => x = y
      BY <1>0 DEF Books
    <3>5. u = v
      BY <3>3, <3>4
    <3> QED BY <3>1, <3>2, <3>5
  <2>7. \A r \in rows' : /\ r.alert = None => ~Evaluates(r.by)'
                         /\ r.alert # None =>
                              /\ r.tx = req'[r.by].tx /\ Evaluates(r.by)'
                              /\ \E g \in firings' : g.alert = r.alert /\ g.by = r.by
                                                       /\ r.dest \in g.dests
    <3> SUFFICES ASSUME NEW x \in rows'
                 PROVE /\ x.alert = None => ~Evaluates(x.by)
                       /\ x.alert # None =>
                              /\ x.tx = req[x.by].tx /\ Evaluates(x.by)
                              /\ \E g \in firings : g.alert = x.alert /\ g.by = x.by
                                                       /\ x.dest \in g.dests
      BY <2>0 DEF Evaluates
    <3>1. PICK r \in rows : x.alert = r.alert /\ x.tx = r.tx /\ x.dest = r.dest /\ x.by = r.by
      BY <2>2
    <3> QED BY <1>0, <3>1 DEF Books
  <2>8. \A x \in Calls : Delivering(x)' =>
          \/ alert'[cur'[x]] = None
          \/ \E g \in firings' : g.alert = cur'[x] /\ g.by = x /\ pending'[x] \subseteq g.dests
    BY <1>0, <2>0, <2>4 DEF Books
  <2> QED BY <1>0, <2>0, <2>4, <2>5, <2>6, <2>7, <2>8 DEF Books, Evaluates
<1>14. ASSUME NEW c \in Calls, Validate(c) PROVE Fresh' /\ Books'
  <2>1. PICK d \in pending[c] :
          IF d \in present
          THEN /\ pending' = [pending EXCEPT ![c] = @ \ {d}]
               /\ UNCHANGED <<pc, scan, load, dest, outcome>>
          ELSE End(c, "failed")
    BY <1>14 DEF Validate
  <2>2. pc[c] = "check" /\ UNCHANGED <<rows, firings, req, alert, born>>
    BY <1>14 DEF Validate
  <2>3. CASE d \in present
    BY <2>1, <2>2, <2>3, <1>t, <1>b, BooksFrame
  <2>4. CASE d \notin present
    BY <2>1, <2>2, <2>4, <1>1 DEF Ended
  <2> QED BY <2>3, <2>4
<1>15. ASSUME NEW c \in Calls, CreateAlert(c) PROVE Fresh' /\ Books'
  <2>1. PICK a \in Alerts \ born :
          /\ alert' = [alert EXCEPT ![a] = req[c].form]
          /\ born' = born \cup {a}
    BY <1>15 DEF CreateAlert
  <2>2. End(c, "done") /\ UNCHANGED <<rows, firings, req>> /\ req[c].form # None
    BY <1>15, <1>t, RequestFacts, FormFacts DEF CreateAlert
  <2> QED BY <2>1, <2>2, <1>t, <1>b, BooksFrame DEF End
<1>16. ASSUME NEW c \in Calls, PatchAlert(c) PROVE Fresh' /\ Books'
  <2>1. CASE alert[req[c].on] = None
    BY <1>1, <1>16, <2>1 DEF PatchAlert, Ended
  <2>2. CASE alert[req[c].on] # None
    <3>1. /\ alert' = [alert EXCEPT ![req[c].on] = req[c].form]
          /\ End(c, "done") /\ UNCHANGED <<rows, firings, req, born>>
          /\ req[c].form # None /\ req[c].on \in Alerts
      BY <1>16, <1>t, <2>2, RequestFacts, FormFacts DEF PatchAlert
    <3> QED BY <2>2, <3>1, <1>t, <1>b, BooksFrame DEF End
  <2> QED BY <2>1, <2>2
<1>17. ASSUME NEW c \in Calls, DeleteAlert(c) PROVE Fresh' /\ Books'
  <2> DEFINE a == req[c].on
  <2>1. CASE alert[a] = None \/ \E r \in rows : r.alert = a
    BY <1>1, <1>17, <2>1 DEF DeleteAlert, Ended
  <2>2. CASE ~(alert[a] = None \/ \E r \in rows : r.alert = a)
    <3>1. /\ alert' = [alert EXCEPT ![a] = None]
          /\ firings' = {f \in firings : f.alert # a}
          /\ End(c, "done") /\ UNCHANGED <<rows, req, born>>
          /\ a \in Alerts
      BY <1>17, <1>t, <2>2, RequestFacts DEF DeleteAlert
    <3>2. \A r \in rows : r.alert # a
      BY <2>2
    <3> HIDE DEF a
    <3>3. /\ \A x \in Calls \ {c} : pc'[x] = pc[x] /\ cur'[x] = cur[x] /\ pending'[x] = pending[x]
                                      /\ dest'[x] = dest[x]
          /\ pc'[c] = "done" /\ cur'[c] = None
      BY <1>t, <3>1 DEF End
    <3>4. Fresh'
      <4>1. \A x \in Calls \ {c} : Own(x)' = Own(x)
        BY <3>1, <3>3 DEF Own
      <4> QED BY <1>0, <3>1, <3>3, <4>1 DEF Fresh
    <3>5. \A x \in Calls : Delivering(x)' =>
            \/ alert'[cur'[x]] = None
            \/ \E g \in firings' : g.alert = cur'[x] /\ g.by = x /\ pending'[x] \subseteq g.dests
      <4> SUFFICES ASSUME NEW x \in Calls, Delivering(x)', cur'[x] # a
                   PROVE \/ alert'[cur'[x]] = None
                         \/ \E g \in firings' : g.alert = cur'[x] /\ g.by = x
                                                  /\ pending'[x] \subseteq g.dests
        BY <1>t, <3>1
      <4>1. x # c /\ Delivering(x) /\ cur'[x] = cur[x] /\ pending'[x] = pending[x]
        BY <3>1, <3>3 DEF Delivering, Evaluates
      <4>2. cur[x] \in Alerts
        BY <1>0, <4>1 DEF Delivering, Shape, Evaluates
      <4>3. \/ alert[cur[x]] = None
            \/ \E g \in firings : g.alert = cur[x] /\ g.by = x /\ pending[x] \subseteq g.dests
        BY <1>0, <4>1 DEF Books
      <4>4. alert[cur[x]] = None => alert'[cur'[x]] = None
        BY <1>t, <3>1, <4>1, <4>2
      <4>5. \A g \in firings : g.alert = cur[x] => g \in firings'
        BY <3>1, <4>1
      <4> QED BY <4>1, <4>3, <4>4, <4>5
    <3>6. \A f \in firings' : f.tx = req'[f.by].tx /\ Evaluates(f.by)' /\ alert'[f.alert] # None
      BY <1>0, <1>t, <3>1 DEF Books, Evaluates, TypeOK, Firing
    <3>7. \A r \in rows' : r.alert # None =>
            /\ r.tx = req'[r.by].tx /\ Evaluates(r.by)'
            /\ \E f \in firings' : f.alert = r.alert /\ f.by = r.by /\ r.dest \in f.dests
      BY <1>0, <3>1, <3>2 DEF Books, Evaluates
    <3>8. \A b \in Alerts : alert'[b] # None => b \in born'
      BY <1>b, <1>t, <3>1
    <3> QED BY <1>0, <1>b, <3>1, <3>3, <3>4, <3>5, <3>6, <3>7, <3>8 DEF Books, Evaluates
  <2> QED BY <2>1, <2>2
<1>18. ASSUME NEW c \in Calls, DropDestination(c) PROVE Fresh' /\ Books'
  <2>1. /\ UNCHANGED <<rows, firings, req, alert, born>>
        /\ \E how \in Ended : End(c, how)
    BY <1>18 DEF DropDestination, Ended
  <2> QED BY <1>1, <2>1
<1>19. ASSUME NEW c \in Calls, SkipProject(c) \/ LoseDelivery(c) \/ Fail(c) PROVE Fresh' /\ Books'
  <2>1. CASE SkipProject(c)
    BY <1>3, <2>1 DEF SkipProject
  <2>2. CASE LoseDelivery(c)
    <3>1. PICK d \in pending[c] : pending' = [pending EXCEPT ![c] = @ \ {d}]
      BY <2>2 DEF LoseDelivery
    <3>2. pc[c] = "deliver" /\ UNCHANGED <<rows, firings, req, alert, born, cur, dest, pc>>
      BY <2>2 DEF LoseDelivery
    <3> QED BY <1>8, <1>t, <3>1, <3>2
  <2>3. CASE Fail(c)
    BY <1>1, <2>3 DEF Fail, Ended
  <2> QED BY <1>19, <2>1, <2>2, <2>3
<1>20. CASE UNCHANGED vars
  <2>1. \A c \in Calls : Own(c)' = Own(c)
    BY <1>20 DEF vars, Own
  <2> QED BY <1>0, <1>20, <2>1 DEF vars, Fresh, Books, Delivering, Evaluates
<1> QED
  BY <1>4, <1>5, <1>6, <1>7, <1>9, <1>10, <1>11, <1>12, <1>13, <1>14, <1>15, <1>16, <1>17, <1>18,
     <1>19, <1>20
  DEF Next, Evaluation, Delivery, Handler, Failure

LEMMA InvStep == Inv /\ [Next]_vars => Inv'
<1> SUFFICES ASSUME Inv, [Next]_vars PROVE Inv' OBVIOUS
<1>1. TypeInv'
  BY TypeStep DEF Inv
<1> QED BY <1>1, BooksStep DEF Inv

\* A step of a call leaves the locals of the others alone, and no call that ended steps.
LEMMA OwnStep ==
  ASSUME TypeOK, NEW c \in Calls, Evaluation(c) \/ Delivery(c) \/ Handler(c) \/ Failure(c)
  PROVE  /\ pc[c] \notin Ended /\ UNCHANGED req
         /\ \A x \in Calls \ {c} : /\ pc'[x] = pc[x] /\ todo'[x] = todo[x]
                                   /\ project'[x] = project[x] /\ left'[x] = left[x]
                                   /\ cur'[x] = cur[x] /\ aims'[x] = aims[x]
                                   /\ conds'[x] = conds[x] /\ pending'[x] = pending[x]
<1> DEFINE Kept == \A x \in Calls \ {c} :
             /\ pc'[x] = pc[x] /\ todo'[x] = todo[x] /\ project'[x] = project[x]
             /\ left'[x] = left[x] /\ cur'[x] = cur[x] /\ aims'[x] = aims[x]
             /\ conds'[x] = conds[x] /\ pending'[x] = pending[x]
<1> USE DEF TypeOK, Ended
<1>1. ASSUME NEW how, End(c, how) PROVE Kept
  BY <1>1 DEF End
<1>2. ASSUME NextAlert(c) PROVE Kept
  BY <1>2 DEF NextAlert
<1>3. ASSUME Broken(c) PROVE Kept
  BY <1>1, <1>3 DEF Broken
<1> DEFINE Goal == pc[c] \notin Ended /\ UNCHANGED req /\ Kept
<1>4. ASSUME Begin(c) \/ NextProject(c) \/ SelectAlerts(c) \/ LoadExprs(c) PROVE Goal
  BY <1>4 DEF Begin, NextProject, SelectAlerts, LoadExprs
<1>5. ASSUME LoadRow(c) PROVE Goal
  BY <1>1, <1>5 DEF LoadRow
<1>6. ASSUME LoadDests(c) PROVE Goal
  BY <1>1, <1>2, <1>6 DEF LoadDests
<1>7. ASSUME Fire(c) PROVE Goal
  BY <1>2, <1>3, <1>7 DEF Fire
<1>8. ASSUME Deliver(c) PROVE Goal
  BY <1>1, <1>8 DEF Deliver
<1>9. ASSUME AllDelivered(c) \/ Finish(c) PROVE Goal
  BY <1>1, <1>2, <1>9 DEF AllDelivered, Finish
<1>10. ASSUME Delivery(c) PROVE Goal
  BY <1>1, <1>10 DEF Delivery, OpenTest, Send, Record
<1>11. ASSUME Handler(c) PROVE Goal
  BY <1>1, <1>11 DEF Handler, Validate, CreateAlert, PatchAlert, DeleteAlert, DropDestination
<1>12. ASSUME Failure(c) PROVE Goal
  BY <1>1, <1>3, <1>12 DEF Failure, SkipProject, LoseDelivery, Fail
<1> QED
  BY <1>4, <1>5, <1>6, <1>7, <1>8, <1>9, <1>10, <1>11, <1>12 DEF Evaluation

\* Rows are never removed; only Record writes over one, and it was pending.
LEMMA RowsKept ==
  ASSUME Inv, [Next]_vars, NEW r \in rows
  PROVE  \/ r \in rows'
         \/ /\ r.status = "pending"
            /\ \E s \in rows' : /\ s.alert = r.alert /\ s.tx = r.tx
                                /\ s.dest = r.dest /\ s.by = r.by
<1>1. ASSUME NEW c \in Calls, Record(c), r \in Own(c)
      PROVE  /\ r.status = "pending"
             /\ \E s \in rows' : /\ s.alert = r.alert /\ s.tx = r.tx
                                 /\ s.dest = r.dest /\ s.by = r.by
  <2>1. r.status = "pending"
    BY <1>1 DEF Inv, Fresh, Record
  <2>2. Updated(r, outcome[c]) \in rows'
    BY <1>1 DEF Record
  <2>3. LET u == Updated(r, outcome[c])
        IN u.alert = r.alert /\ u.tx = r.tx /\ u.dest = r.dest /\ u.by = r.by
    BY DEF Inv, TypeInv, TypeOK, DeliveryRow, Updated
  <2> QED BY <2>1, <2>2, <2>3
<1>2. ASSUME NEW c \in Calls, Record(c), r \notin Own(c) PROVE r \in rows'
  BY <1>2 DEF Record
<1>3. ASSUME NEW c \in Calls, Evaluation(c) PROVE r \in rows'
  <2>1. Deliver(c) => r \in rows'
    BY DEF Deliver
  <2> QED
    BY <1>3, <2>1 DEF Evaluation, Begin, NextProject, SelectAlerts, LoadRow, LoadExprs,
                      LoadDests, Fire, AllDelivered, Finish
<1>4. ASSUME NEW c \in Calls, Handler(c) \/ Failure(c) PROVE r \in rows'
  <2>1. UNCHANGED rows
    BY <1>4 DEF Handler, Validate, CreateAlert, PatchAlert, DeleteAlert, DropDestination,
                Failure, SkipProject, LoseDelivery, Fail
  <2> QED BY <2>1
<1>5. ASSUME NEW c \in Calls, OpenTest(c) \/ Send(c) PROVE r \in rows'
  BY <1>5 DEF OpenTest, Send
<1>6. CASE UNCHANGED vars
  BY <1>6 DEF vars
<1> QED BY <1>1, <1>2, <1>3, <1>4, <1>5, <1>6 DEF Next, Delivery

-----------------------------------------------------------------------------
\* The inductive invariant holds.
LEMMA Invariance == Spec => []Inv
  BY InvInit, InvStep, PTL DEF Spec

\* The types of the state; in particular no delivery is attempted a second time, so the
\* attempt column of destination_deliveries never passes 2.
THEOREM TypeCorrect == Spec => []TypeOK
<1>1. Inv => TypeOK
  BY DEF Inv, TypeInv
<1> QED BY Invariance, <1>1, PTL

\* However many evaluations of the same transaction race (overlapping passes of
\* the ingester, the API), each destination of an alert gets one delivery row.
THEOREM DeliveredOnce == Spec => []OneDeliveryEach
<1>1. Inv => OneDeliveryEach
  <2> SUFFICES ASSUME Inv, NEW r \in rows, NEW s \in rows,
                      r.alert # None, r.alert = s.alert, r.tx = s.tx, r.dest = s.dest
               PROVE r = s
    BY DEF OneDeliveryEach
  <2>1. PICK f \in firings : f.alert = r.alert /\ f.by = r.by
    BY DEF Inv, Books
  <2>2. PICK g \in firings : g.alert = s.alert /\ g.by = s.by
    BY DEF Inv, Books
  <2>3. f.tx = r.tx /\ g.tx = s.tx
    BY <2>1, <2>2 DEF Inv, Books
  <2>4. f = g
    BY <2>1, <2>2, <2>3 DEF Inv, Books
  <2>5. r.by = s.by
    BY <2>1, <2>2, <2>4
  <2> QED BY <2>5 DEF Inv, Books
<1> QED BY Invariance, <1>1, PTL

\* No row of destination_deliveries is removed, by whichever request, and a result that
\* was recorded is not written over.
THEOREM HistoryStays == Spec => HistoryKept
<1>1. Inv /\ [Next]_vars =>
        [\A r \in rows : \/ r \in rows'
                         \/ /\ r.status = "pending"
                            /\ \E s \in rows' : /\ s.alert = r.alert /\ s.tx = r.tx
                                                /\ s.dest = r.dest /\ s.by = r.by]_vars
  BY RowsKept
<1> QED BY Invariance, <1>1, PTL DEF Spec, HistoryKept

-----------------------------------------------------------------------------
(* A firing's destinations: written, lost, or still to be written. *)

Written(f, d) == \E r \in rows : r.alert = f.alert /\ r.tx = f.tx /\ r.dest = d

Accounted(f, d) ==
  \/ Written(f, d)
  \/ <<f.alert, f.tx, d>> \in lost
  \/ Delivering(f.by) /\ cur[f.by] = f.alert /\ d \in pending[f.by]
  \/ pc[f.by] = "failed"

Ledger == \A f \in firings : \A d \in f.dests : Accounted(f, d)

LEMMA LedgerStep == Inv /\ Ledger /\ [Next]_vars => Ledger'
<1> SUFFICES ASSUME Inv, Ledger, [Next]_vars, NEW f \in firings', NEW d \in f.dests
             PROVE  Accounted(f, d)'
  BY DEF Ledger
<1>0. TypeInv /\ TypeOK /\ Shape /\ Books
  BY DEF Inv, TypeInv
<1>t. /\ pc \in [Calls -> Steps \cup Ended] /\ cur \in [Calls -> Alerts \cup {None}]
      /\ pending \in [Calls -> SUBSET Dests] /\ req \in [Calls -> Requests]
  BY <1>0 DEF TypeOK
<1>1. Written(f, d) => Written(f, d)'
  <2> SUFFICES ASSUME NEW r \in rows, r.alert = f.alert, r.tx = f.tx, r.dest = d
               PROVE  \E s \in rows' : s.alert = f.alert /\ s.tx = f.tx /\ s.dest = d
    BY DEF Written
  <2> QED BY RowsKept
<1>2. lost \subseteq lost'
  <2>1. ASSUME NEW c \in Calls, LoseDelivery(c) PROVE lost \subseteq lost'
    BY <2>1 DEF LoseDelivery
  <2>2. ASSUME NEW c \in Calls, Evaluation(c) \/ Delivery(c) \/ Handler(c) \/ SkipProject(c) \/ Fail(c)
        PROVE UNCHANGED lost
    BY <2>2 DEF Evaluation, Begin, NextProject, SelectAlerts, LoadRow, LoadExprs, LoadDests, Fire,
                Deliver, AllDelivered, Finish, Delivery, OpenTest, Send, Record, Handler, Validate,
                CreateAlert, PatchAlert, DeleteAlert, DropDestination, SkipProject, Fail
  <2> QED BY <2>1, <2>2 DEF Next, Failure, vars
<1>3. CASE UNCHANGED vars
  BY <1>3 DEF vars, Ledger, Accounted, Written, Delivering, Evaluates
<1>4. ASSUME NEW c \in Calls, Fire(c), f \notin firings PROVE Accounted(f, d)'
  <2>1. /\ f = [alert |-> cur[c], tx |-> req[c].tx, by |-> c, dests |-> pending[c]]
        /\ pc' = [pc EXCEPT ![c] = "deliver"] /\ UNCHANGED <<cur, pending, req>>
        /\ pc[c] = "fire"
    BY <1>4 DEF Fire
  <2>2. Evaluates(c)
    BY <1>0, <2>1 DEF Shape
  <2> QED BY <1>t, <2>1, <2>2 DEF Accounted, Delivering, Evaluates
<1>5. ASSUME NEW c \in Calls, Evaluation(c) \/ Delivery(c) \/ Handler(c) \/ Failure(c),
             ~Fire(c) \/ f \in firings
      PROVE Accounted(f, d)'
  <2>1. f \in firings
    BY <1>5 DEF Evaluation, Begin, NextProject, SelectAlerts, LoadRow, LoadExprs, LoadDests,
                Deliver, AllDelivered, Finish, Delivery, OpenTest, Send, Record, Handler, Validate,
                CreateAlert, PatchAlert, DeleteAlert, DropDestination, Failure, SkipProject,
                LoseDelivery, Fail
  <2>2. /\ Accounted(f, d) /\ f.by \in Calls /\ f.tx = req[f.by].tx /\ Evaluates(f.by)
        /\ alert[f.alert] # None /\ f.alert \in Alerts /\ f.alert # None
    BY <1>0, <2>1, AlertAssumption DEF Ledger, Books, TypeOK, Firing
  <2>3. /\ pc[c] \notin Ended /\ UNCHANGED req
        /\ \A x \in Calls \ {c} : pc'[x] = pc[x] /\ cur'[x] = cur[x] /\ pending'[x] = pending[x]
    BY <1>0, <1>5, OwnStep
  <2>4. CASE f.by # c
    BY <1>1, <1>2, <2>2, <2>3, <2>4 DEF Accounted, Delivering, Evaluates
  <2>5. CASE f.by = c /\ (Written(f, d) \/ <<f.alert, f.tx, d>> \in lost)
    BY <1>1, <1>2, <2>5 DEF Accounted
  <2>6. CASE f.by = c /\ Delivering(c) /\ cur[c] = f.alert /\ d \in pending[c]
    <3> SUFFICES \/ Written(f, d)' \/ <<f.alert, f.tx, d>> \in lost' \/ pc'[c] = "failed"
                 \/ /\ pc'[c] \in {"deliver", "send", "record"}
                    /\ cur'[c] = cur[c] /\ d \in pending'[c]
      BY <2>2, <2>3, <2>6 DEF Accounted, Delivering, Evaluates
    <3>1. /\ pc[c] \in {"deliver", "send", "record"} /\ req[c].kind \in {"ingest", "api"}
          /\ pc[c] \in {"send", "record"} => req[c].kind = "api"
      BY <1>0, <2>6 DEF Delivering, Evaluates, Shape
    <3>2. CASE Deliver(c)
      <4>1. alert[cur[c]] # None
        BY <2>2, <2>6
      <4>2. PICK e \in pending[c] :
              /\ pending' = [pending EXCEPT ![c] = @ \ {e}]
              /\ rows' = rows \cup {[alert |-> cur[c], tx |-> req[c].tx, dest |-> e,
                                     by |-> c, status |-> "pending", attempt |-> 1]}
              /\ pc'[c] \in {"deliver", "send"} /\ UNCHANGED cur
        BY <1>t, <3>2, <4>1 DEF Deliver
      <4>3. CASE d = e
        <5>1. f.tx = req[c].tx
          BY <2>2, <2>6
        <5> DEFINE n == [alert |-> cur[c], tx |-> req[c].tx, dest |-> e,
                         by |-> c, status |-> "pending", attempt |-> 1]
        <5>2. n \in rows'
          BY <4>2
        <5>3. n.alert = cur[c] /\ n.tx = req[c].tx /\ n.dest = e
          OBVIOUS
        <5> HIDE DEF n
        <5>4. \E r \in rows' : r.alert = cur[c] /\ r.tx = req[c].tx /\ r.dest = e
          BY <5>2, <5>3
        <5>5. \E r \in rows' : r.alert = f.alert /\ r.tx = f.tx /\ r.dest = d
          BY <2>6, <4>3, <5>1, <5>4
        <5> QED BY <5>5 DEF Written
      <4>4. CASE d # e
        BY <1>t, <2>6, <4>2, <4>4
      <4> QED BY <4>3, <4>4
    <3>3. CASE AllDelivered(c)
      BY <2>6, <3>3 DEF AllDelivered
    <3>4. CASE Send(c)
      BY <1>t, <2>6, <3>4 DEF Send, End
    <3>5. CASE Record(c)
      BY <1>t, <2>6, <3>1, <3>5 DEF Record
    <3>6. CASE LoseDelivery(c)
      <4>1. PICK e \in pending[c] : /\ pending' = [pending EXCEPT ![c] = @ \ {e}]
                                    /\ lost' = lost \cup {<<cur[c], req[c].tx, e>>}
        BY <3>6 DEF LoseDelivery
      <4>2. UNCHANGED <<pc, cur>>
        BY <3>6 DEF LoseDelivery
      <4> QED BY <1>t, <2>2, <2>6, <3>1, <4>1, <4>2
    <3>7. CASE Fail(c)
      BY <1>t, <3>7 DEF Fail, End
    <3> QED
      BY <1>5, <3>1, <3>2, <3>3, <3>4, <3>5, <3>6, <3>7
      DEF Evaluation, Begin, NextProject, SelectAlerts, LoadRow, LoadExprs, LoadDests, Fire,
          Finish, Delivery, OpenTest, Handler, Validate, CreateAlert, PatchAlert, DeleteAlert,
          DropDestination, Failure, SkipProject
  <2>7. CASE f.by = c /\ pc[f.by] = "failed"
    BY <2>3, <2>7 DEF Ended
  <2> QED BY <2>2, <2>4, <2>5, <2>6, <2>7 DEF Accounted
<1> QED BY <1>3, <1>4, <1>5 DEF Next

\* An evaluation that ended well has written a delivery for each destination of what it
\* fired, but for those whose own INSERT failed: a failure does not reach the next one.
THEOREM DeliveriesWritten == Spec => []NoDeliveryDropped
<1>1. Init => Ledger
  BY DEF Init, Ledger
<1>2. Ledger => NoDeliveryDropped
  BY DEF Ledger, Accounted, Written, Delivering, NoDeliveryDropped
<1> QED BY Invariance, LedgerStep, <1>1, <1>2, PTL DEF Spec

-----------------------------------------------------------------------------
(* What an evaluation has seen, and which alerts it has still to look at. *)

Begun(c) == pc[c] # Entry(req[c].kind)

\* What an evaluation loaded is what the tables hold of an alert nobody wrote since.
Course(c) ==
  /\ req[c].kind = "api" => todo[c] = {}
  /\ req[c].kind = "api" /\ pc[c] = "select" => project[c] = req[c].on
  /\ ~Begun(c) => left[c] = {} /\ \A f \in firings : f.by # c
  /\ pc[c] \in Ended => todo[c] = {} /\ left[c] = {}
  /\ \A a \in left[c] : /\ ProjectOf[a] = project[c]
                        /\ a \notin touched[c] => alert[a] # None /\ alert[a].enabled
  /\ pc[c] \in {"exprs", "dests", "fire"} => ProjectOf[cur[c]] = project[c]
  /\ pc[c] \in {"exprs", "dests", "fire"} /\ cur[c] \notin touched[c] =>
       /\ alert[cur[c]] # None /\ alert[cur[c]].enabled
       /\ aims[c] <=> req[c].tx \in alert[cur[c]].target
       /\ pc[c] # "exprs" => (conds[c] = "match" <=> req[c].tx \in alert[cur[c]].exprs)
  /\ pc[c] = "fire" => /\ aims[c] /\ conds[c] = "match"
                       /\ cur[c] \notin touched[c] => pending[c] = alert[cur[c]].dests

Courses == \A c \in Calls : Evaluates(c) => Course(c)

\* Where a matching alert is that an evaluation has not fired yet.
Covered(c, a) ==
  \/ Fired(a, req[c].tx)
  \/ ProjectOf[a] \in todo[c]
  \/ pc[c] = "select" /\ project[c] = ProjectOf[a]
  \/ a \in left[c]
  \/ pc[c] \in {"exprs", "dests", "fire"} /\ cur[c] = a

Coverage ==
  \A c \in Calls : Evaluates(c) /\ Begun(c) /\ pc[c] # "failed" =>
    \A a \in Alerts :
      /\ a \notin touched[c]
      /\ req[c].kind = "api" => ProjectOf[a] = req[c].on
      /\ ProjectOf[a] \notin skipped[c]
      /\ Matches(a, req[c].tx)
      => Covered(c, a)

\* The alerts an evaluation has not seen written are as they were before the step, and
\* an evaluation itself writes none.
LEMMA Steady ==
  ASSUME Inv, NEW c \in Calls, Evaluation(c) \/ Delivery(c) \/ Handler(c) \/ Failure(c)
  PROVE  /\ Evaluates(c) => UNCHANGED <<alert, touched>>
         /\ \A x \in Calls : /\ touched[x] \subseteq touched'[x]
                             /\ skipped[x] \subseteq skipped'[x]
         /\ \A x \in Calls, a \in Alerts :
              Evaluates(x) /\ Begun(x) /\ a \notin touched'[x] => alert'[a] = alert[a]
<1>0. TypeOK /\ Shape
  BY DEF Inv, TypeInv
<1>1. ASSUME Evaluation(c) \/ Delivery(c) \/ Failure(c) PROVE UNCHANGED <<alert, touched>>
  BY <1>1 DEF Evaluation, Begin, NextProject, SelectAlerts, LoadRow, LoadExprs, LoadDests, Fire,
              Deliver, AllDelivered, Finish, Delivery, OpenTest, Send, Record, Failure,
              SkipProject, LoseDelivery, Fail
<1>2. \A x \in Calls : skipped[x] \subseteq skipped'[x]
  <2>1. ASSUME Broken(c) PROVE \A x \in Calls : skipped[x] \subseteq skipped'[x]
    BY <1>0, <2>1 DEF Broken, TypeOK
  <2>2. CASE Fire(c) \/ SkipProject(c)
    BY <2>1, <2>2 DEF Fire, SkipProject
  <2>3. CASE ~(Fire(c) \/ SkipProject(c))
    <3>1. UNCHANGED skipped
      BY <2>3 DEF Evaluation, Begin, NextProject, SelectAlerts, LoadRow, LoadExprs, LoadDests,
                  Deliver, AllDelivered, Finish, Delivery, OpenTest, Send, Record, Handler,
                  Validate, CreateAlert, PatchAlert, DeleteAlert, DropDestination, Failure,
                  LoseDelivery, Fail
    <3> QED BY <3>1
  <2> QED BY <2>2, <2>3
<1>3. ASSUME Handler(c)
      PROVE  \/ UNCHANGED <<alert, touched>>
             \/ \E a \in Alerts : Touch(a) /\ \A b \in Alerts \ {a} : alert'[b] = alert[b]
  <2>1. CASE Validate(c) \/ DropDestination(c)
    BY <2>1 DEF Validate, DropDestination
  <2>2. CASE CreateAlert(c)
    <3>1. PICK a \in Alerts \ born : alert' = [alert EXCEPT ![a] = req[c].form] /\ Touch(a)
      BY <2>2 DEF CreateAlert
    <3> QED BY <1>0, <3>1 DEF TypeOK
  <2>3. CASE PatchAlert(c)
    <3>1. req[c].on \in Alerts
      BY <1>0, <2>3, RequestFacts DEF PatchAlert, TypeOK
    <3> QED BY <1>0, <2>3, <3>1 DEF PatchAlert, TypeOK
  <2>4. CASE DeleteAlert(c)
    <3>1. req[c].on \in Alerts
      BY <1>0, <2>4, RequestFacts DEF DeleteAlert, TypeOK
    <3> QED BY <1>0, <2>4, <3>1 DEF DeleteAlert, TypeOK
  <2> QED BY <1>3, <2>1, <2>2, <2>3, <2>4 DEF Handler
<1>4. ASSUME Handler(c) PROVE ~Evaluates(c)
  BY <1>0, <1>4 DEF Handler, Validate, CreateAlert, PatchAlert, DeleteAlert, DropDestination,
                    Shape, Evaluates
<1>5. CASE UNCHANGED <<alert, touched>>
  BY <1>2, <1>5
<1>6. ASSUME NEW a \in Alerts, Touch(a), \A b \in Alerts \ {a} : alert'[b] = alert[b]
      PROVE  \A x \in Calls : /\ touched[x] \subseteq touched'[x]
                              /\ \A b \in Alerts : Evaluates(x) /\ Begun(x) /\ b \notin touched'[x]
                                                     => alert'[b] = alert[b]
  BY <1>6 DEF Touch, Begun
<1> QED BY <1>1, <1>2, <1>3, <1>4, <1>5, <1>6

\* A firing goes with its alert only, and only Fire adds one.
LEMMA FiringsKept ==
  ASSUME NEW c \in Calls, Evaluation(c) \/ Delivery(c) \/ Handler(c) \/ Failure(c), TypeOK
  PROVE  /\ \A f \in firings : f \in firings' \/ alert'[f.alert] = None
         /\ ~Fire(c) => firings' \subseteq firings
<1>1. CASE Fire(c)
  BY <1>1 DEF Fire
<1>2. CASE DeleteAlert(c)
  BY <1>2, RequestFacts DEF DeleteAlert, TypeOK
<1>3. CASE ~Fire(c) /\ ~DeleteAlert(c)
  <2>1. UNCHANGED firings
    BY <1>3 DEF Evaluation, Begin, NextProject, SelectAlerts, LoadRow, LoadExprs, LoadDests,
                Deliver, AllDelivered, Finish, Delivery, OpenTest, Send, Record, Handler, Validate,
                CreateAlert, PatchAlert, DropDestination, Failure, SkipProject, LoseDelivery, Fail
  <2> QED BY <2>1
<1> QED BY <1>1, <1>2, <1>3

LEMMA CourseOther ==
  ASSUME Inv, NEW c \in Calls, Evaluation(c) \/ Delivery(c) \/ Handler(c) \/ Failure(c),
         NEW x \in Calls \ {c}, Evaluates(x), Course(x)
  PROVE  Course(x)'
<1>0. TypeOK
  BY DEF Inv, TypeInv
<1>1. /\ UNCHANGED req
      /\ pc'[x] = pc[x] /\ todo'[x] = todo[x] /\ project'[x] = project[x] /\ left'[x] = left[x]
      /\ cur'[x] = cur[x] /\ aims'[x] = aims[x] /\ conds'[x] = conds[x]
      /\ pending'[x] = pending[x]
  BY <1>0, OwnStep
<1>2. /\ touched[x] \subseteq touched'[x]
      /\ \A a \in Alerts : Begun(x) /\ a \notin touched'[x] => alert'[a] = alert[a]
  BY Steady
<1>3. ASSUME ~Begun(x), NEW f \in firings' PROVE f.by # x
  <2>1. CASE Fire(c)
    <3>1. f \in firings \/ f.by = c
      BY <2>1 DEF Fire
    <3> QED BY <1>3, <3>1 DEF Course
  <2>2. CASE ~Fire(c)
    BY <1>0, <1>3, <2>2, FiringsKept DEF Course
  <2> QED BY <2>1, <2>2
<1>4. pc[x] \in {"exprs", "dests", "fire"} => Begun(x) /\ cur[x] \in Alerts
  BY DEF Begun, Entry, Evaluates, Inv, TypeInv, Shape
<1>5. left[x] \subseteq Alerts /\ (left[x] # {} => Begun(x))
  BY <1>0 DEF TypeOK, Course
<1>6. Begun(x)' <=> Begun(x)
  BY <1>1 DEF Begun
<1>7. \A a \in left[x] : /\ ProjectOf[a] = project[x]
                         /\ a \notin touched'[x] => alert'[a] # None /\ alert'[a].enabled
  BY <1>2, <1>5 DEF Course
<1>8. pc[x] \in {"exprs", "dests", "fire"} /\ cur[x] \notin touched'[x] =>
        /\ alert'[cur[x]] = alert[cur[x]] /\ cur[x] \notin touched[x]
  BY <1>2, <1>4
<1>9. /\ req[x].kind = "api" => todo[x] = {}
      /\ req[x].kind = "api" /\ pc[x] = "select" => project[x] = req[x].on
      /\ ~Begun(x) => left[x] = {} /\ \A f \in firings' : f.by # x
      /\ pc[x] \in Ended => todo[x] = {} /\ left[x] = {}
  BY <1>3 DEF Course
<1>10. /\ pc[x] \in {"exprs", "dests", "fire"} => ProjectOf[cur[x]] = project[x]
       /\ pc[x] \in {"exprs", "dests", "fire"} /\ cur[x] \notin touched'[x] =>
            /\ alert'[cur[x]] # None /\ alert'[cur[x]].enabled
            /\ aims[x] <=> req[x].tx \in alert'[cur[x]].target
            /\ pc[x] # "exprs" => (conds[x] = "match" <=> req[x].tx \in alert'[cur[x]].exprs)
       /\ pc[x] = "fire" => /\ aims[x] /\ conds[x] = "match"
                            /\ cur[x] \notin touched'[x] => pending[x] = alert'[cur[x]].dests
  BY <1>8 DEF Course
<1> QED BY <1>1, <1>6, <1>7, <1>9, <1>10 DEF Course

\* The same for the evaluation that steps.
LEMMA CourseOwn ==
  ASSUME Inv, NEW c \in Calls, Evaluation(c) \/ Delivery(c) \/ Handler(c) \/ Failure(c),
         Evaluates(c), Course(c)
  PROVE  Course(c)'
<1>0. TypeInv /\ TypeOK /\ Shape
  BY DEF Inv, TypeInv
<1>t. /\ pc \in [Calls -> Steps \cup Ended] /\ cur \in [Calls -> Alerts \cup {None}]
      /\ pending \in [Calls -> SUBSET Dests] /\ req \in [Calls -> Requests]
      /\ todo \in [Calls -> SUBSET Projects] /\ project \in [Calls -> Projects \cup {None}]
      /\ left \in [Calls -> SUBSET Alerts] /\ aims \in [Calls -> BOOLEAN]
      /\ conds \in [Calls -> {"match", "differ", "none"}]
      /\ alert \in [Alerts -> Form \cup {None}]
  BY <1>0 DEF TypeOK
<1>u. UNCHANGED <<alert, touched, req>>
  BY <1>0, Steady, OwnStep
<1>e. Entry(req[c].kind) \in {"begin", "select"} /\ req[c].kind \in {"ingest", "api"}
      /\ (req[c].kind = "ingest" <=> Entry(req[c].kind) = "begin")
  BY DEF Evaluates, Entry
<1>1. ASSUME NEW how \in Ended, End(c, how) PROVE Course(c)'
  BY <1>1, <1>t, <1>u, <1>e DEF End, Course, Begun, Ended
<1>2. ASSUME pc'[c] = "alerts", todo'[c] \subseteq todo[c], UNCHANGED project,
             left'[c] \subseteq left[c]
      PROVE  Course(c)'
  BY <1>2, <1>t, <1>u, <1>e DEF Course, Begun, Ended
<1>3. ASSUME NextAlert(c) PROVE Course(c)'
  BY <1>2, <1>3, <1>t DEF NextAlert
<1>4. ASSUME Broken(c) PROVE Course(c)'
  BY <1>1, <1>4, <1>t, <1>u, <1>e DEF Broken, Course, Begun, Ended
<1>5. CASE Begin(c)
  <2>1. /\ req[c].kind = "ingest" /\ left[c] = {} /\ pc'[c] = "alerts"
        /\ UNCHANGED <<left, project>>
    BY <1>5, <1>0, <1>t, <1>e DEF Begin, Shape, Course, Begun
  <2> QED BY <2>1, <1>u, <1>e DEF Course, Begun, Ended
<1>6. CASE NextProject(c)
  <2>1. /\ left'[c] = {} /\ pc'[c] = "select" /\ todo[c] # {}
    BY <1>6, <1>t DEF NextProject
  <2> QED BY <2>1, <1>u, <1>e DEF Course, Begun, Ended
<1>7. CASE SelectAlerts(c)
  <2>1. /\ left'[c] = {a \in Alerts : /\ ProjectOf[a] = project[c]
                                      /\ alert[a] # None /\ alert[a].enabled}
        /\ pc'[c] = "alerts" /\ UNCHANGED <<todo, project>>
    BY <1>7, <1>t DEF SelectAlerts
  <2> QED BY <2>1, <1>u, <1>e DEF Course, Begun, Ended
<1>8. CASE LoadRow(c)
  <2>1. PICK a \in left[c] :
          IF alert[a] # None
          THEN /\ cur' = [cur EXCEPT ![c] = a]
               /\ aims' = [aims EXCEPT ![c] = req[c].tx \in alert[a].target]
               /\ left' = [left EXCEPT ![c] = @ \ {a}]
               /\ pc' = [pc EXCEPT ![c] = "exprs"]
               /\ UNCHANGED <<todo, project, conds, send>>
          ELSE IF req[c].kind = "ingest"
          THEN left' = [left EXCEPT ![c] = @ \ {a}] /\ UNCHANGED <<pc, todo, project, load, send>>
          ELSE End(c, "failed")
    BY <1>8 DEF LoadRow
  <2>2. pc[c] = "alerts" /\ a \in Alerts
    BY <1>8, <1>t, <2>1 DEF LoadRow
  <2>3. CASE alert[a] # None
    <3>1. cur'[c] = a /\ left'[c] = left[c] \ {a} /\ pc'[c] = "exprs" /\ UNCHANGED <<todo, project>>
      BY <1>t, <2>1, <2>3
    <3>2. aims'[c] <=> req[c].tx \in alert[a].target
      BY <1>t, <2>1, <2>3
    <3>3. a \notin touched[c] => alert[a].enabled
      BY <2>1 DEF Course
    <3>4. ProjectOf[a] = project[c]
      BY <2>1 DEF Course
    <3> QED BY <1>u, <1>e, <2>3, <3>1, <3>2, <3>3, <3>4 DEF Course, Begun, Ended
  <2>4. CASE alert[a] = None /\ req[c].kind = "ingest"
    BY <1>2, <1>t, <2>1, <2>2, <2>4
  <2>5. CASE alert[a] = None /\ req[c].kind # "ingest"
    BY <1>1, <2>1, <2>5 DEF Ended
  <2> QED BY <2>3, <2>4, <2>5
<1>9. CASE LoadExprs(c)
  <2>1. /\ pc[c] = "exprs" /\ pc'[c] = "dests" /\ UNCHANGED <<todo, project, left, cur, aims>>
        /\ alert[cur[c]] # None => (conds'[c] = "match" <=> req[c].tx \in alert[cur[c]].exprs)
    BY <1>9, <1>t DEF LoadExprs
  <2>2. Begun(c) /\ Begun(c)'
    BY <1>e, <1>u, <2>1 DEF Begun
  <2> QED BY <1>u, <2>1, <2>2 DEF Course, Ended
<1>10. CASE LoadDests(c)
  <2>1. CASE aims[c] /\ conds[c] = "match"
    <3>1. /\ pc[c] = "dests" /\ pc'[c] = "fire"
          /\ UNCHANGED <<todo, project, left, cur, aims, conds>>
          /\ alert[cur[c]] # None => pending'[c] = alert[cur[c]].dests
      BY <1>10, <1>t, <2>1 DEF LoadDests
    <3>2. Begun(c) /\ Begun(c)'
      BY <1>e, <1>u, <3>1 DEF Begun
    <3> QED BY <1>u, <2>1, <3>1, <3>2 DEF Course, Ended
  <2>2. CASE ~(aims[c] /\ conds[c] = "match")
    BY <1>1, <1>3, <1>10, <2>2 DEF LoadDests, Ended
  <2> QED BY <2>1, <2>2
<1>11. ASSUME pc[c] \in {"fire", "deliver", "send", "record"},
              pc'[c] \in {"deliver", "send", "record"}, UNCHANGED <<todo, project, left>>
       PROVE  Course(c)'
  BY <1>11, <1>u, <1>e DEF Course, Begun, Ended
<1>12. CASE Fire(c)
  BY <1>3, <1>4, <1>11, <1>12, <1>t DEF Fire
<1>13. CASE Deliver(c)
  <2>1. \/ End(c, "failed")
        \/ /\ pc[c] = "deliver" /\ pc'[c] \in {"deliver", "send"}
           /\ UNCHANGED <<todo, project, left>>
    BY <1>13, <1>t DEF Deliver
  <2> QED BY <1>1, <1>11, <2>1 DEF Ended
<1>14. CASE AllDelivered(c) \/ Finish(c)
  BY <1>1, <1>3, <1>14 DEF AllDelivered, Finish, Ended
<1>15. CASE Delivery(c)
  <2>1. ~OpenTest(c)
    BY <1>0, <1>e DEF OpenTest, Shape
  <2>2. \/ \E how \in Ended : End(c, how)
        \/ /\ pc[c] \in {"send", "record"} /\ pc'[c] \in {"record", "deliver"}
           /\ UNCHANGED <<todo, project, left>>
    BY <1>15, <1>t, <2>1 DEF Delivery, Send, Record, Ended
  <2> QED BY <1>1, <1>11, <2>2
<1>16. ~Handler(c)
  BY <1>0, <1>e DEF Handler, Validate, CreateAlert, PatchAlert, DeleteAlert, DropDestination, Shape
<1>17. CASE Failure(c)
  <2>1. CASE SkipProject(c) \/ Fail(c)
    BY <1>1, <1>4, <2>1 DEF SkipProject, Fail, Ended
  <2>2. CASE LoseDelivery(c)
    BY <1>11, <2>2 DEF LoseDelivery
  <2> QED BY <1>17, <2>1, <2>2 DEF Failure
<1> QED
  BY <1>5, <1>6, <1>7, <1>8, <1>9, <1>10, <1>12, <1>13, <1>14, <1>15, <1>16, <1>17
  DEF Evaluation

\* What every evaluation has loaded stays in step with the tables.
LEMMA CoursesStep == Inv /\ Courses /\ [Next]_vars => Courses'
<1> SUFFICES ASSUME Inv, Courses, [Next]_vars, NEW x \in Calls, Evaluates(x)' PROVE Course(x)'
  BY DEF Courses
<1>1. CASE UNCHANGED vars
  BY <1>1 DEF vars, Courses, Course, Begun, Evaluates
<1>2. ASSUME NEW c \in Calls, Evaluation(c) \/ Delivery(c) \/ Handler(c) \/ Failure(c)
      PROVE  Course(x)'
  <2>1. Evaluates(x) /\ Course(x)
    BY <1>2, OwnStep DEF Courses, Evaluates, Inv, TypeInv
  <2> QED BY <1>2, <2>1, CourseOther, CourseOwn
<1> QED BY <1>1, <1>2 DEF Next

LEMMA FiredStep == Inv /\ Courses /\ FiredAsConfigured /\ [Next]_vars => FiredAsConfigured'
<1> SUFFICES ASSUME Inv, Courses, FiredAsConfigured, [Next]_vars,
                    NEW f \in firings', (f.alert \notin touched[f.by])'
             PROVE  Matches(f.alert, f.tx)' /\ f.dests = alert'[f.alert].dests
  BY DEF FiredAsConfigured
<1>0. TypeOK /\ Shape
  BY DEF Inv, TypeInv
<1>1. CASE UNCHANGED vars
  BY <1>1 DEF vars, FiredAsConfigured, Matches
<1>2. ASSUME NEW c \in Calls, Evaluation(c) \/ Delivery(c) \/ Handler(c) \/ Failure(c),
             f \in firings
      PROVE  Matches(f.alert, f.tx)' /\ f.dests = alert'[f.alert].dests
  <2>1. f.alert \in Alerts /\ f.by \in Calls /\ Evaluates(f.by)
    BY <1>0, <1>2 DEF TypeOK, Firing, Inv, Books
  <2>2. Begun(f.by)
    BY <1>2, <2>1 DEF Courses, Course
  <2>3. alert'[f.alert] = alert[f.alert] /\ f.alert \notin touched[f.by]
    BY <1>2, <2>1, <2>2, Steady
  <2> QED BY <1>2, <2>3 DEF FiredAsConfigured, Matches
<1>3. ASSUME NEW c \in Calls, Fire(c), f \notin firings
      PROVE  Matches(f.alert, f.tx)' /\ f.dests = alert'[f.alert].dests
  <2>1. /\ f = [alert |-> cur[c], tx |-> req[c].tx, by |-> c, dests |-> pending[c]]
        /\ UNCHANGED <<alert, touched>> /\ pc[c] = "fire"
    BY <1>3 DEF Fire
  <2>2. f.alert = cur[c] /\ f.tx = req[c].tx /\ f.by = c /\ f.dests = pending[c]
    BY <2>1
  <2>3. Course(c) /\ cur[c] \notin touched[c]
    BY <1>0, <2>1, <2>2 DEF Courses, Shape
  <2> QED BY <2>1, <2>2, <2>3 DEF Course, Matches
<1>4. ASSUME NEW c \in Calls, Evaluation(c) \/ Delivery(c) \/ Handler(c) \/ Failure(c),
             ~Fire(c)
      PROVE  f \in firings
  BY <1>0, <1>4, FiringsKept
<1> QED BY <1>1, <1>2, <1>3, <1>4 DEF Next

\* Whatever edits race with an evaluation: what it fires is an enabled alert that matches
\* the transaction, for the destinations it has, unless the alert was written meanwhile.
THEOREM FiredAsAsked == Spec => []FiredAsConfigured
<1>1. Init => Courses /\ FiredAsConfigured
  BY RequestFacts DEF Init, Courses, Course, FiredAsConfigured, Begun, Evaluates, Entry, Ended
<1> QED BY Invariance, CoursesStep, FiredStep, <1>1, PTL DEF Spec

-----------------------------------------------------------------------------
(* No matching alert is missed. *)

LEMMA CoverageStep == Inv /\ Courses /\ Courses' /\ Coverage /\ [Next]_vars => Coverage'
<1> SUFFICES ASSUME Inv, Courses, Courses', Coverage, [Next]_vars, NEW x \in Calls,
                    Evaluates(x)', Begun(x)', pc'[x] # "failed",
                    NEW a \in Alerts, a \notin touched'[x],
                    (req[x].kind = "api" => ProjectOf[a] = req[x].on)',
                    ProjectOf[a] \notin skipped'[x], Matches(a, req[x].tx)'
             PROVE  Covered(x, a)'
  BY DEF Coverage
<1>0. TypeInv /\ TypeOK /\ Shape
  BY DEF Inv, TypeInv
<1>t. /\ pc \in [Calls -> Steps \cup Ended] /\ cur \in [Calls -> Alerts \cup {None}]
      /\ todo \in [Calls -> SUBSET Projects] /\ project \in [Calls -> Projects \cup {None}]
      /\ left \in [Calls -> SUBSET Alerts] /\ skipped \in [Calls -> SUBSET Projects]
      /\ alert \in [Alerts -> Form \cup {None}]
  BY <1>0 DEF TypeOK
<1>1. CASE UNCHANGED vars
  BY <1>1 DEF vars, Coverage, Covered, Matches, Fired, Begun, Evaluates
<1>2. ASSUME NEW c \in Calls, Evaluation(c) \/ Delivery(c) \/ Handler(c) \/ Failure(c)
      PROVE  Covered(x, a)'
  <2>0. UNCHANGED req /\ Evaluates(x) /\ Course(x) /\ alert'[a] # None
    BY <1>0, <1>2, OwnStep DEF Evaluates, Courses, Matches
  <2>1. Fired(a, req[x].tx) => Fired(a, req[x].tx)'
    BY <1>0, <1>2, <2>0, FiringsKept DEF Fired
  <2>2. a \notin touched[x] /\ ProjectOf[a] \notin skipped[x]
    BY <1>2, Steady
  <2>3. ASSUME Begun(x), pc[x] # "failed" PROVE Matches(a, req[x].tx) /\ Covered(x, a)
    <3>1. alert'[a] = alert[a]
      BY <1>2, <2>0, <2>3, Steady
    <3>2. Matches(a, req[x].tx)
      BY <2>0, <3>1 DEF Matches
    <3> QED BY <2>0, <2>2, <2>3, <3>2 DEF Coverage
  <2>4. CASE x # c
    <3>1. /\ pc'[x] = pc[x] /\ todo'[x] = todo[x] /\ project'[x] = project[x]
          /\ left'[x] = left[x] /\ cur'[x] = cur[x]
      BY <1>0, <1>2, <2>4, OwnStep
    <3>2. Covered(x, a)
      BY <2>0, <2>3, <3>1 DEF Begun
    <3> QED BY <2>0, <2>1, <3>1, <3>2 DEF Covered
  <2>5. CASE x = c
    <3>0. UNCHANGED <<alert, touched>> /\ Matches(a, req[c].tx) /\ pc[c] \notin Ended
      BY <1>0, <1>2, <2>0, <2>5, Steady, OwnStep DEF Matches
    <3>c. Begun(c) => Covered(c, a)
      BY <2>3, <2>5, <3>0 DEF Ended
    <3>p. ProjectOf[a] \in Projects /\ ProjectOf[a] \notin skipped'[c]
      BY <2>5, ProjectFacts
    <3>e. Entry(req[c].kind) \in {"begin", "select"}
          /\ (req[c].kind = "ingest" <=> Entry(req[c].kind) = "begin")
      BY <2>0, <2>5 DEF Evaluates, Entry
    <3> DEFINE Goal == \/ Fired(a, req[c].tx)'
                       \/ ProjectOf[a] \in todo'[c]
                       \/ pc'[c] = "select" /\ project'[c] = ProjectOf[a]
                       \/ a \in left'[c]
                       \/ pc'[c] \in {"exprs", "dests", "fire"} /\ cur'[c] = a
    <3> SUFFICES Goal
      BY <2>0, <2>5 DEF Covered
    <3>f. Fired(a, req[c].tx) => Goal
      BY <2>1, <2>0, <2>5
    <3>1. CASE Begin(c)
      <4>1. ProjectOf[a] \in todo'[c]
        BY <1>t, <3>0, <3>1 DEF Begin, Matches
      <4> QED BY <4>1
    <3>2. CASE NextProject(c)
      <4>1. PICK p \in todo[c] : /\ project' = [project EXCEPT ![c] = p]
                                 /\ todo' = [todo EXCEPT ![c] = @ \ {p}]
        BY <3>2 DEF NextProject
      <4>2. pc[c] = "alerts" /\ left[c] = {} /\ pc' = [pc EXCEPT ![c] = "select"]
        BY <3>2 DEF NextProject
      <4> QED BY <1>t, <3>c, <3>e, <3>f, <4>1, <4>2 DEF Covered, Begun
    <3>3. CASE SelectAlerts(c)
      <4>1. /\ pc[c] = "select" /\ UNCHANGED <<todo, project, cur>>
            /\ ProjectOf[a] = project[c] => a \in left'[c]
        BY <1>t, <3>0, <3>3 DEF SelectAlerts, Matches
      <4>2. CASE Begun(c)
        <5>1. a \in left[c] => ProjectOf[a] = project[c]
          BY <2>0, <2>5 DEF Course
        <5> QED BY <3>c, <3>f, <4>1, <4>2, <5>1 DEF Covered
      <4>3. CASE ~Begun(c)
        <5>1. project[c] = req[c].on /\ req[c].kind = "api"
          BY <2>0, <2>5, <3>e, <4>1, <4>3 DEF Course, Begun, Evaluates
        <5>2. ProjectOf[a] = req[c].on
          BY <2>0, <2>5, <5>1
        <5> QED BY <4>1, <5>1, <5>2
      <4> QED BY <4>2, <4>3
    <3>4. CASE LoadRow(c)
      <4>1. pc[c] = "alerts" /\ Begun(c)
        BY <3>4, <3>e DEF LoadRow, Begun
      <4>2. \/ pc'[c] = "failed"
            \/ /\ UNCHANGED todo
               /\ \E b \in left[c] : /\ left'[c] = left[c] \ {b}
                                     /\ b # a \/ (pc'[c] = "exprs" /\ cur'[c] = a)
        BY <1>t, <3>0, <3>4 DEF LoadRow, End, Matches
      <4> QED BY <2>5, <3>c, <3>f, <4>1, <4>2 DEF Covered
    <3>5. CASE LoadExprs(c)
      <4>1. /\ pc[c] = "exprs" /\ pc'[c] = "dests" /\ UNCHANGED <<todo, left, cur>>
        BY <1>t, <3>5 DEF LoadExprs
      <4> QED BY <3>c, <3>e, <3>f, <4>1 DEF Covered, Begun
    <3>6. CASE LoadDests(c)
      <4>1. pc[c] = "dests" /\ Begun(c)
        BY <3>6, <3>e DEF LoadDests, Begun
      <4>2. CASE aims[c] /\ conds[c] = "match"
        <5>1. pc'[c] = "fire" /\ UNCHANGED <<todo, left, cur>>
          BY <1>t, <3>6, <4>2 DEF LoadDests
        <5> QED BY <3>c, <3>f, <4>1, <5>1 DEF Covered
      <4>3. CASE ~(aims[c] /\ conds[c] = "match")
        <5>1. cur[c] # a
          BY <2>0, <2>2, <2>5, <3>0, <4>1, <4>3 DEF Course, Matches
        <5>2. pc'[c] = "failed" \/ UNCHANGED <<todo, left>>
          BY <1>t, <3>6, <4>3 DEF LoadDests, End, NextAlert
        <5> QED BY <2>5, <3>c, <3>f, <4>1, <5>1, <5>2 DEF Covered
      <4> QED BY <4>2, <4>3
    <3>b. ASSUME Broken(c), pc[c] \in {"select", "alerts", "exprs", "dests", "fire"},
                 pc[c] = "alerts" => left[c] # {}, req[c].kind = "ingest" \/ pc[c] = "fire"
          PROVE  Goal
      <4>1. req[c].kind = "ingest" /\ Begun(c)
        BY <1>t, <2>5, <3>b, <3>e DEF Broken, End, Begun
      <4>2. ProjectOf[a] # project[c] /\ UNCHANGED todo
        BY <1>t, <3>b, <3>p, <4>1 DEF Broken
      <4>3. /\ a \in left[c] => ProjectOf[a] = project[c]
            /\ pc[c] \in {"exprs", "dests", "fire"} => ProjectOf[cur[c]] = project[c]
        BY <2>0, <2>5 DEF Course
      <4> QED BY <3>c, <3>f, <4>1, <4>2, <4>3 DEF Covered
    <3>7. CASE Fire(c)
      <4>1. pc[c] = "fire" /\ Begun(c)
        BY <3>7, <3>e DEF Fire, Begun
      <4>2. CASE alert[cur[c]] = None
        BY <3>7, <3>b, <4>1, <4>2 DEF Fire
      <4>3. CASE alert[cur[c]] # None
        <5>1. UNCHANGED <<todo, left>>
          BY <3>7, <4>3 DEF Fire, NextAlert
        <5>2. cur[c] = a => Fired(a, req[c].tx)'
          <6>1. CASE Fired(cur[c], req[c].tx)
            BY <2>0, <2>1, <2>5, <6>1
          <6>2. CASE ~Fired(cur[c], req[c].tx)
            <7> DEFINE g == [alert |-> cur[c], tx |-> req[c].tx, by |-> c, dests |-> pending[c]]
            <7>1. g \in firings' /\ g.alert = cur[c] /\ g.tx = req[c].tx
              BY <3>7, <4>3, <6>2 DEF Fire
            <7> HIDE DEF g
            <7> QED BY <2>0, <7>1 DEF Fired
          <6> QED BY <6>1, <6>2
        <5> QED BY <3>c, <3>f, <4>1, <5>1, <5>2 DEF Covered
      <4> QED BY <4>2, <4>3
    <3>8. CASE Finish(c)
      <4>1. pc[c] = "alerts" /\ left[c] = {} /\ todo[c] = {} /\ Begun(c)
        BY <3>8, <3>e DEF Finish, Begun
      <4> QED BY <3>c, <3>f, <4>1 DEF Covered
    <3>9. CASE SkipProject(c)
      BY <3>9, <3>b DEF SkipProject
    <3>10. ASSUME pc[c] \in {"deliver", "send", "record"},
                  pc'[c] = "failed" \/ UNCHANGED <<todo, left>>
           PROVE  Goal
      <4>1. Begun(c)
        BY <3>10, <3>e DEF Begun
      <4> QED BY <2>5, <3>c, <3>f, <3>10, <4>1 DEF Covered
    <3>11. CASE Deliver(c) \/ AllDelivered(c) \/ LoseDelivery(c)
      BY <1>t, <3>10, <3>11 DEF Deliver, AllDelivered, NextAlert, LoseDelivery, End
    <3>12. CASE Delivery(c)
      <4>1. req[c].kind \in {"ingest", "api"} /\ ~OpenTest(c)
        BY <1>0, <2>0, <2>5 DEF Evaluates, OpenTest, Shape
      <4>2. CASE Send(c)
        BY <1>t, <3>10, <4>2 DEF Send, End
      <4>3. CASE Record(c)
        <5>1. req[c].kind = "api"
          BY <1>0, <4>1, <4>3 DEF Record, Shape
        <5> QED BY <3>10, <4>3, <5>1 DEF Record
      <4> QED BY <3>12, <4>1, <4>2, <4>3 DEF Delivery
    <3>13. ~Handler(c)
      BY <1>0, <2>0, <2>5 DEF Evaluates, Shape, Handler, Validate, CreateAlert, PatchAlert,
                              DeleteAlert, DropDestination
    <3>14. ~Fail(c)
      BY <1>t, <2>5 DEF Fail, End
    <3> QED
      BY <1>2, <3>1, <3>2, <3>3, <3>4, <3>5, <3>6, <3>7, <3>8, <3>9, <3>11, <3>12, <3>13, <3>14
      DEF Evaluation, Failure
  <2> QED BY <2>4, <2>5
<1> QED BY <1>1, <1>2 DEF Next

\* An evaluation that ended well has fired, or found fired, every alert that matched and
\* that nobody wrote meanwhile, in every project no statement failed in.
THEOREM NoneMissed == Spec => []NoMissedFiring
<1>1. Init => Courses /\ Coverage
  BY RequestFacts DEF Init, Courses, Course, Coverage, Begun, Evaluates, Entry, Ended
<1>2. Inv /\ Courses /\ Coverage => NoMissedFiring
  <2> SUFFICES ASSUME Inv, Courses, Coverage, NEW c \in Calls, Evaluates(c), pc[c] = "done",
                      NEW a \in Alerts, a \notin touched[c],
                      req[c].kind = "api" => ProjectOf[a] = req[c].on,
                      ProjectOf[a] \notin skipped[c], Matches(a, req[c].tx)
               PROVE  Fired(a, req[c].tx)
    BY DEF NoMissedFiring
  <2>1. Begun(c) /\ todo[c] = {} /\ left[c] = {}
    BY DEF Begun, Entry, Evaluates, Courses, Course, Ended
  <2>2. Covered(c, a)
    BY <2>1 DEF Coverage
  <2> QED BY <2>1, <2>2 DEF Covered
<1> QED BY Invariance, CoursesStep, CoverageStep, <1>1, <1>2, PTL DEF Spec
=============================================================================
