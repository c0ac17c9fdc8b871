------------------------ MODULE EnvironmentMirrorProofs ------------------------
(***************************************************************************)
(* Theorems about EnvironmentMirror, for any number of requests,           *)
(* environments, keys, slugs and failures.                                 *)
(***************************************************************************)
EXTENDS EnvironmentMirror, TLAPS

USE DEF forkCore, tables, locals, history

\* What the handler's place says about its locals.
Shape ==
  \A c \in Calls :
    /\ pc[c] \in {"ensure", "lookup", "configure", "secret", "record", "reread", "activity",
                  "target", "reply"} => req[c].kind \in Ops
    /\ pc[c] \in {"ensure", "target"} => req[c].kind = "derive"
    /\ pc[c] = "remove" => req[c].kind = "delete"
    /\ pc[c] = "store" => req[c].kind = "simulate"
    /\ pc[c] = "purge" => req[c].kind = "list"
    /\ pc[c] \in {"link", "configure", "secret", "activity", "target", "record"} => target[c] \in Envs
    /\ pc[c] = "enrich" /\ req[c].kind # "list" => target[c] \in Envs
    /\ pc[c] = "link" => origin[target[c]] \in Envs /\ remote[target[c]] # "none"
    /\ \A e \in todo[c] : remote[e] # "none"
    /\ pc[c] = "insert" /\ req[c].kind # "list" => todo[c] # {}
    /\ pc[c] \in {"activity", "target", "record", "reply"} => reply[c] \in Reply
    /\ pc[c] = "enrich" /\ req[c].kind \in Ops => reply[c] \in Reply
    /\ pc[c] = "done" /\ req[c].kind \in Ops => reply[c] \in Reply
    /\ pc[c] = "reread" => mutation[Slot(c)] # None

TypeInv == TypeOK /\ Shape

\* What a request's parameters are, by the handler it addresses.
LEMMA RequestFacts ==
  ASSUME NEW r \in Requests
  PROVE  /\ r.kind \in {"create", "derive", "get", "list", "delete", "simulate"}
         /\ r.kind \in Ops => r.key \in Keys /\ <<r.kind, r.key>> \in Slots
         /\ r.kind = "create" => r.arg \in Slugs \cup {None}
         /\ r.kind \in {"derive", "get", "delete", "simulate"} => r.arg \in Envs
         /\ r.arg \in Digests
  BY DEF Requests, Ops, Slots, Digests

LEMMA TypeInit == Init => TypeInv
<1> SUFFICES ASSUME Init PROVE TypeInv OBVIOUS
<1>1. TypeOK
  BY MirrorAssumption, RequestFacts DEF Init, TypeOK, Entry, FreshRow, Row, Secrets, Steps, Ended
<1>2. Shape
  BY RequestFacts DEF Init, Shape, Entry, Ops
<1> QED BY <1>1, <1>2 DEF TypeInv

LEMMA TypeStep == TypeInv /\ [Next]_vars => TypeInv'
<1> SUFFICES ASSUME TypeInv, [Next]_vars PROVE TypeInv' OBVIOUS
<1> USE DEF TypeInv, TypeOK, Steps, Ended, Goto, End
<1>0. \A c \in Calls : req[c] \in Requests
  OBVIOUS
<1>1. ASSUME NEW c \in Calls, Ensure(c) PROVE TypeInv'
  <2>1. TypeOK'
    BY <1>1 DEF Ensure
  <2>2. Shape'
    BY <1>1, <1>0, RequestFacts DEF Ensure, Shape, Slot, Ops
  <2> QED BY <2>1, <2>2
<1>2. ASSUME NEW c \in Calls, AnswerStored(c), pc[c] \in {"lookup", "reread"}, mutation[Slot(c)] # None,
             UNCHANGED <<remote, origin, made, row, sims, mutation, req, wiped, held, unlisted, faults>>
      PROVE TypeInv'
  <2>1. Slot(c) \in Slots
    BY <1>2, <1>0, RequestFacts DEF Shape, Slot
  <2>2. mutation[Slot(c)] \in Record
    BY <2>1, <1>2
  <2>3. [env |-> mutation[Slot(c)].env, secret |-> mutation[Slot(c)].secret] \in Reply
    BY <2>2 DEF Record, Reply
  <2>4. TypeOK'
    BY <1>2, <2>3 DEF AnswerStored
  <2>5. Shape'
    BY <1>2, <2>3 DEF AnswerStored, Shape, Slot
  <2> QED BY <2>4, <2>5
<1>3. ASSUME NEW c \in Calls, Lookup(c) PROVE TypeInv'
  <2>1. CASE mutation[Slot(c)] = None
    BY <1>3, <2>1 DEF Lookup, Shape, Slot, Ops
  <2>2. CASE mutation[Slot(c)] # None
    BY <1>3, <1>2, <2>2 DEF Lookup
  <2> QED BY <2>1, <2>2
<1>4. ASSUME NEW c \in Calls, Reread(c) PROVE TypeInv'
  BY <1>4, <1>2 DEF Reread, Shape
<1>5. ASSUME NEW c \in Calls, RecordCreate(c) \/ RecordDerive(c) PROVE TypeInv'
  <2>1. Slot(c) \in Slots /\ reply[c] \in Reply /\ target[c] \in Envs /\ req[c].arg \in Digests
    BY <1>5, <1>0, RequestFacts DEF Shape, Slot, RecordCreate, RecordDerive
  <2>2. Entered(c) \in Record
    BY <2>1 DEF Entered, Record, Reply
  <2>3. [mutation EXCEPT ![Slot(c)] = Entered(c)] \in [Slots -> Record \cup {None}]
    BY <2>1, <2>2
  <2>4. TypeOK'
    BY <1>5, <2>3 DEF RecordCreate, RecordDerive
  <2>5. \A d \in Calls : pc[d] = "reread" => Slot(d) \in Slots
    BY <1>0, RequestFacts DEF Shape, Slot
  <2>6. ASSUME mutation[Slot(c)] = None PROVE Entered(c) # None
    BY <2>2, NoneAssumption
  <2>7. \A d \in Calls : pc[d] = "reread" => mutation'[Slot(d)] # None
    BY <1>5, <2>1, <2>5, <2>6 DEF RecordCreate, RecordDerive, Shape
  <2>8. CASE RecordCreate(c)
    BY <2>8, <2>1, <2>4, <2>7 DEF RecordCreate, Shape, Slot
  <2>9. CASE RecordDerive(c)
    BY <2>9, <2>1, <2>4, <2>7 DEF RecordDerive, Shape, Slot
  <2> QED BY <1>5, <2>8, <2>9
<1>6. ASSUME NEW c \in Calls, Answer(c) PROVE TypeInv'
  <2>1. TypeOK'
    BY <1>6 DEF Answer
  <2>2. Shape'
    BY <1>6 DEF Answer, Shape, Slot, Ops
  <2> QED BY <2>1, <2>2
<1>7. ASSUME NEW c \in Calls, NEW e \in Envs, RemoteMake(c, e) PROVE TypeInv'
  <2>1. Slot(c) \in Slots /\ AskedOrigin(c) \in Envs \cup {None}
    BY <1>7, <1>0, RequestFacts DEF RemoteMake, Slot, AskedOrigin, Ops
  <2>2. TypeOK'
    BY <1>7, <2>1 DEF RemoteMake
  <2>3. Shape'
    BY <1>7, <2>1 DEF RemoteMake, Shape, Slot, Ops
  <2> QED BY <2>2, <2>3
<1>8. ASSUME NEW c \in Calls, RemoteReplay(c) PROVE TypeInv'
  <2>1. PICK e \in Envs : /\ remote[e] = "live" /\ req[c].kind \in Ops
                         /\ pc' = [pc EXCEPT ![c] = "insert"] /\ todo' = [todo EXCEPT ![c] = {e}]
                         /\ UNCHANGED <<forkCore, tables, req, listed, target, reply, history>>
    BY <1>8 DEF RemoteReplay, Live
  <2>2. TypeOK'
    BY <2>1
  <2>3. Shape'
    BY <2>1 DEF Shape, Slot, Ops
  <2> QED BY <2>2, <2>3
<1>9. ASSUME NEW c \in Calls, RemoteRefuse(c) PROVE TypeInv'
  <2>1. /\ pc' = [pc EXCEPT ![c] = "failed"] /\ todo' = [todo EXCEPT ![c] = {}]
        /\ listed' = [listed EXCEPT ![c] = {}] /\ target' = [target EXCEPT ![c] = None]
        /\ UNCHANGED <<forkCore, tables, req, reply, history>>
    BY <1>9 DEF RemoteRefuse
  <2>2. TypeOK'
    BY <2>1
  <2>3. Shape'
    BY <2>1 DEF Shape, Slot, Ops
  <2> QED BY <2>2, <2>3
<1>10. ASSUME NEW c \in Calls, RemoteRead(c) PROVE TypeInv'
  <2>1. CASE req[c].kind = "list"
    BY <1>10, <2>1 DEF RemoteRead, Shape, Slot, Ops, Live
  <2>2. CASE req[c].kind = "get"
    <3>1. req[c].arg \in Envs /\ {req[c].arg} # {}
      BY <2>2, <1>0, RequestFacts
    <3>2. TypeOK'
      BY <1>10, <2>2, <3>1 DEF RemoteRead
    <3>3. Shape'
      <4>1. /\ remote[req[c].arg] = "live"
            /\ pc' = [pc EXCEPT ![c] = "insert"] /\ todo' = [todo EXCEPT ![c] = {req[c].arg}]
            /\ UNCHANGED <<forkCore, tables, req, target, reply, history>>
        BY <1>10, <2>2, <3>1 DEF RemoteRead, Live
      <4> QED BY <2>2, <4>1 DEF Shape, Slot, Ops
    <3> QED BY <3>2, <3>3
  <2> QED BY <1>10, <2>1, <2>2 DEF RemoteRead
<1>11. ASSUME NEW c \in Calls, RemoteDelete(c) PROVE TypeInv'
  <2>1. req[c].arg \in Envs
    BY <1>11, <1>0, RequestFacts DEF RemoteDelete
  <2>2. TypeOK'
    BY <1>11, <2>1 DEF RemoteDelete
  <2>3. Shape'
    BY <1>11, <2>1 DEF RemoteDelete, Shape, Slot, Ops
  <2> QED BY <2>2, <2>3
<1>12. ASSUME NEW c \in Calls, RemoteSimulate(c) PROVE TypeInv'
  BY <1>12, <1>0, RequestFacts DEF RemoteSimulate, Shape, Slot, Ops
<1>13. ASSUME NEW c \in Calls, NEW e \in Envs, InsertRow(c, e) PROVE TypeInv'
  <2>1. FreshRow \in Row
    BY MirrorAssumption DEF FreshRow, Row, Secrets
  <2>2. Upserted(c, todo[c] \ {e}) \in {"insert", "configure", "purge", "enrich"}
    BY DEF Upserted
  <2>3. TypeOK'
    BY <1>13, <2>1, <2>2 DEF InsertRow
  <2>4. Shape'
    BY <1>13, <1>0, RequestFacts DEF InsertRow, Shape, Slot, Ops, Upserted
  <2> QED BY <2>3, <2>4
<1>14. ASSUME NEW c \in Calls, LinkRow(c) PROVE TypeInv'
  <2> DEFINE e == target[c]
  <2>1. e \in Envs /\ origin[e] \in Envs
    BY <1>14 DEF LinkRow, Shape
  <2>2. Upserted(c, todo[c]) \in {"insert", "configure", "purge", "enrich"}
    BY DEF Upserted
  <2>3. ASSUME row[e] # None PROVE [row[e] EXCEPT !.source = origin[e]] \in Row
    <3>1. row[e] \in Row
      BY <2>1, <2>3
    <3> QED BY <2>1, <3>1 DEF Row
  <2>4. row' \in [Envs -> Row \cup {None}]
    BY <1>14, <2>1, <2>3 DEF LinkRow
  <2>5. TypeOK'
    BY <1>14, <2>2, <2>4 DEF LinkRow
  <2>6. Shape'
    BY <1>14, <2>1, <1>0, RequestFacts DEF LinkRow, Shape, Slot, Ops, Upserted
  <2> QED BY <2>5, <2>6
<1>15. ASSUME NEW c \in Calls, ConfigureCreate(c) PROVE TypeInv'
  <2> DEFINE e == target[c]
  <2>1. e \in Envs /\ req[c].arg \in Slugs \cup {None}
    BY <1>15, <1>0, RequestFacts DEF ConfigureCreate, Shape
  <2>2. [env |-> e, secret |-> c] \in Reply
    BY <2>1 DEF Reply, Secrets
  <2>3. ASSUME row[e] # None
        PROVE [secret |-> c, slug |-> req[c].arg, source |-> row[e].source] \in Row
    <3>1. row[e] \in Row
      BY <2>1, <2>3
    <3> QED BY <2>1, <3>1 DEF Row, Secrets
  <2>4. row' \in [Envs -> Row \cup {None}]
    BY <1>15, <2>1, <2>3 DEF ConfigureCreate
  <2>5. TypeOK'
    BY <1>15, <2>2, <2>4 DEF ConfigureCreate
  <2>6. Shape'
    BY <1>15, <2>1, <2>2 DEF ConfigureCreate, Shape, Slot, Ops
  <2> QED BY <2>5, <2>6
<1>16. ASSUME NEW c \in Calls, ConfigureDerive(c) PROVE TypeInv'
  <2> DEFINE e == target[c]
  <2>1. e \in Envs
    BY <1>16 DEF ConfigureDerive, Shape
  <2>3. ASSUME row[e] # None
        PROVE [secret |-> c, slug |-> None, source |-> row[e].source] \in Row
    <3>1. row[e] \in Row
      BY <2>1, <2>3
    <3> QED BY <2>1, <3>1 DEF Row, Secrets
  <2>4. row' \in [Envs -> Row \cup {None}]
    BY <1>16, <2>1, <2>3 DEF ConfigureDerive
  <2>5. TypeOK'
    BY <1>16, <2>4 DEF ConfigureDerive
  <2>6. Shape'
    BY <1>16, <2>1 DEF ConfigureDerive, Shape, Slot, Ops
  <2> QED BY <2>5, <2>6
<1>17. ASSUME NEW c \in Calls, ReadSecret(c) PROVE TypeInv'
  <2> DEFINE e == target[c]
  <2>1. e \in Envs
    BY <1>17 DEF ReadSecret, Shape
  <2>2. ASSUME row[e] # None PROVE [env |-> e, secret |-> row[e].secret] \in Reply
    <3>1. row[e] \in Row
      BY <2>1, <2>2
    <3> QED BY <2>1, <3>1 DEF Row, Reply
  <2>3. TypeOK'
    <3>1. reply' \in [Calls -> Reply \cup {None}] /\ pc' \in [Calls -> Steps \cup Ended]
      BY <1>17, <2>2 DEF ReadSecret
    <3> QED BY <1>17, <3>1 DEF ReadSecret
  <2>4. Shape'
    BY <1>17, <2>1, <2>2 DEF ReadSecret, Shape, Slot, Ops
  <2> QED BY <2>3, <2>4
<1>18. ASSUME NEW c \in Calls, Enrich(c) PROVE TypeInv'
  <2>1. \A d \in Calls : req[d].kind \in {"create", "derive", "get", "list", "delete", "simulate"}
    BY <1>0, RequestFacts
  <2>2. TypeOK'
    BY <1>18 DEF Enrich
  <2>3. Shape'
    BY <1>18, <2>1 DEF Enrich, Shape, Slot, Ops
  <2> QED BY <2>2, <2>3
<1>19. ASSUME NEW c \in Calls, Activity(c) PROVE TypeInv'
  <2>1. TypeOK'
    BY <1>19 DEF Activity
  <2>2. Shape'
    BY <1>19, <1>0, RequestFacts DEF Activity, Shape, Slot, Ops
  <2> QED BY <2>1, <2>2
<1>20. ASSUME NEW c \in Calls, ActivityTarget(c) PROVE TypeInv'
  BY <1>20 DEF ActivityTarget, Shape, Slot, Ops
<1>21. ASSUME NEW c \in Calls, NEW D \in SUBSET Envs, NEW next \in {"enrich", "done"},
              DeleteRows(c, D, next),
              req[c].kind = "list" \/ (req[c].kind = "delete" /\ next = "done")
       PROVE TypeInv'
  <2>1. TypeOK'
    BY <1>21 DEF DeleteRows
  <2>2. Shape'
    BY <1>21 DEF DeleteRows, Shape, Slot, Ops
  <2> QED BY <2>1, <2>2
<1>22. ASSUME NEW c \in Calls, Purge(c) PROVE TypeInv'
  <2> DEFINE D == Mirrored \ listed[c]
  <2>1. D \in SUBSET Envs
    BY DEF Mirrored
  <2>2. req[c].kind = "list" /\ DeleteRows(c, D, "enrich")
    BY <1>22 DEF Purge, Shape
  <2> HIDE DEF D
  <2> QED BY <1>21, <2>1, <2>2
<1>23. ASSUME NEW c \in Calls, RemoveRow(c) PROVE TypeInv'
  <2>1. Mirrored \cap {req[c].arg} \in SUBSET Envs /\ req[c].kind = "delete"
    BY <1>23 DEF RemoveRow, Mirrored, Shape
  <2> QED BY <1>23, <1>21, <2>1 DEF RemoveRow
<1>24. ASSUME NEW c \in Calls, StoreRun(c) PROVE TypeInv'
  <2>1. req[c].arg \in Envs /\ req[c].kind = "simulate"
    BY <1>24, <1>0, RequestFacts DEF StoreRun, Shape
  <2>2. TypeOK'
    BY <1>24, <2>1 DEF StoreRun, Mirrored
  <2>3. UNCHANGED <<remote, origin, made, row, mutation, req, reply>> /\ \E how \in Ended : End(c, how)
    BY <1>24 DEF StoreRun
  <2>4. Shape'
    BY <2>1, <2>3 DEF Shape, Slot, Ops
  <2> QED BY <2>2, <2>4
<1>25. ASSUME NEW c \in Calls, Fail(c) PROVE TypeInv'
  BY <1>25, MirrorAssumption DEF Fail, Shape, Slot, Ops
<1>26. CASE UNCHANGED vars
  BY <1>26 DEF vars, Shape, Slot
<1> QED
  BY <1>1, <1>3, <1>4, <1>5, <1>6, <1>7, <1>8, <1>9, <1>10, <1>11, <1>12, <1>13, <1>14, <1>15,
     <1>16, <1>17, <1>18, <1>19, <1>20, <1>22, <1>23, <1>24, <1>25, <1>26
  DEF Next, Replay, Remote, Mirror

\* The worker's and the tables' values stay in their ranges, and a handler has
\* what its next statement binds.
THEOREM TypeCorrect == Spec => []TypeOK
<1>1. TypeInv => TypeOK
  BY DEF TypeInv
<1> QED BY <1>1, TypeInit, TypeStep, PTL DEF Spec

-----------------------------------------------------------------------------
(* Idempotency. *)

\* A call whose result is recorded, or was read from the record.
Settled(c) ==
  /\ req[c].kind \in Ops
  /\ pc[c] \in {"reply", "target", "done"} \/ (pc[c] = "activity" /\ req[c].kind = "derive")

\* The result of a settled call is the one on record.
Agree == \A c \in Calls : Settled(c) => mutation[Slot(c)] = Entered(c)

\* A step of call c that records nothing and answers no mutation.
QuietStep(c) ==
  \/ Ensure(c) \/ Lookup(c) \/ Reread(c) \/ Remote(c) \/ Mirror(c) \/ Fail(c)

\* Such a step leaves the record and the other calls alone, and its call
\* becomes settled only with the result on record.
LEMMA Quiet ==
  ASSUME TypeInv, NEW c \in Calls, QuietStep(c)
  PROVE  /\ UNCHANGED <<mutation, req>>
         /\ \A d \in Calls \ {c} : pc'[d] = pc[d] /\ reply'[d] = reply[d]
         /\ pc[c] # "done"
         /\ req[c].kind \in Ops => pc'[c] # "done"
         /\ Settled(c)' => \/ (Settled(c) /\ reply'[c] = reply[c])
                           \/ mutation[Slot(c)] = Entered(c)'
<1> DEFINE Goal ==
      /\ UNCHANGED <<mutation, req>>
      /\ \A d \in Calls \ {c} : pc'[d] = pc[d] /\ reply'[d] = reply[d]
      /\ pc[c] # "done"
      /\ req[c].kind \in Ops => pc'[c] # "done"
      /\ Settled(c)' => \/ (Settled(c) /\ reply'[c] = reply[c])
                        \/ mutation[Slot(c)] = Entered(c)'
<1> USE DEF TypeInv, TypeOK, Goto, End, Settled, Ended
<1>0. req[c] \in Requests /\ pc \in [Calls -> Steps \cup Ended] /\ reply \in [Calls -> Reply \cup {None}]
  OBVIOUS
<1>1. CASE Ensure(c)
  BY <1>0, <1>1 DEF Ensure, Ops
<1>2. ASSUME AnswerStored(c), mutation[Slot(c)] # None, pc[c] \in {"lookup", "reread"},
             UNCHANGED <<mutation, req>>
      PROVE  Goal
  <2>1. Slot(c) \in Slots
    BY <1>2, <1>0, RequestFacts DEF Shape, Slot
  <2>2. mutation[Slot(c)] \in Record
    BY <2>1, <1>2
  <2>3. mutation[Slot(c)].digest = req[c].arg => mutation[Slot(c)] = Entered(c)'
    BY <2>2, <1>2, <1>0 DEF Record, Entered, AnswerStored
  <2> QED BY <1>2, <1>0, <2>3 DEF AnswerStored, Slot
<1>3. CASE Lookup(c)
  <2>1. CASE mutation[Slot(c)] = None
    BY <1>0, <1>3, <2>1 DEF Lookup
  <2>2. CASE mutation[Slot(c)] # None
    BY <1>3, <1>2, <2>2 DEF Lookup
  <2> QED BY <2>1, <2>2
<1>4. CASE Reread(c)
  BY <1>4, <1>2 DEF Reread, Shape
<1>5. CASE Remote(c)
  BY <1>0, <1>5 DEF Remote, RemoteMake, RemoteReplay, RemoteRefuse, RemoteRead, RemoteDelete, RemoteSimulate
<1>6. ASSUME NEW e \in Envs, InsertRow(c, e) PROVE Goal
  <2>1. Upserted(c, todo[c] \ {e}) \in {"insert", "configure", "purge", "enrich"}
    BY DEF Upserted
  <2> QED BY <1>0, <1>6, <2>1 DEF InsertRow
<1>7. CASE LinkRow(c)
  <2>1. Upserted(c, todo[c]) \in {"insert", "configure", "purge", "enrich"}
    BY DEF Upserted
  <2> QED BY <1>0, <1>7, <2>1 DEF LinkRow
<1>8. CASE ConfigureCreate(c) \/ ConfigureDerive(c) \/ ReadSecret(c)
  BY <1>0, <1>8 DEF ConfigureCreate, ConfigureDerive, ReadSecret
<1>9. CASE Enrich(c)
  BY <1>0, <1>9 DEF Enrich, Ops
<1>10. CASE Activity(c)
  BY <1>0, <1>10, RequestFacts DEF Activity, Ops
<1>11. CASE ActivityTarget(c)
  BY <1>0, <1>11 DEF ActivityTarget, Shape
<1>12. CASE Purge(c)
  BY <1>0, <1>12 DEF Purge, DeleteRows
<1>13. CASE RemoveRow(c)
  BY <1>0, <1>13 DEF RemoveRow, DeleteRows, Shape, Ops
<1>14. CASE StoreRun(c)
  BY <1>0, <1>14 DEF StoreRun, Shape, Ops
<1>15. CASE Fail(c)
  BY <1>0, <1>15 DEF Fail
<1> QED
  BY <1>1, <1>3, <1>4, <1>5, <1>6, <1>7, <1>8, <1>9, <1>10, <1>11, <1>12, <1>13, <1>14, <1>15
  DEF QuietStep, Mirror

LEMMA AgreeInit == Init => Agree
  BY RequestFacts DEF Init, Agree, Settled, Entry, Ops

\* The steps of a call are the quiet ones and three more.
LEMMA StepCases ==
  ASSUME Next
  PROVE  \E c \in Calls : QuietStep(c) \/ RecordCreate(c) \/ RecordDerive(c) \/ Answer(c)
  BY DEF Next, Replay, QuietStep

LEMMA AgreeStep == TypeInv /\ Agree /\ [Next]_vars => Agree'
<1> SUFFICES ASSUME TypeInv, Agree, [Next]_vars PROVE Agree' OBVIOUS
<1> USE DEF TypeInv, TypeOK
<1>1. ASSUME NEW c \in Calls, QuietStep(c) PROVE Agree'
  <2>1. UNCHANGED <<mutation, req>>
    BY <1>1, Quiet
  <2>2. ASSUME NEW d \in Calls \ {c}, Settled(d)' PROVE mutation'[Slot(d)'] = Entered(d)'
    <3>1. pc'[d] = pc[d] /\ reply'[d] = reply[d]
      BY <1>1, Quiet
    <3> QED BY <2>1, <2>2, <3>1 DEF Agree, Settled, Entered, Slot
  <2>3. ASSUME Settled(c)' PROVE mutation'[Slot(c)'] = Entered(c)'
    <3>1. (Settled(c) /\ reply'[c] = reply[c]) \/ mutation[Slot(c)] = Entered(c)'
      BY <1>1, <2>3, Quiet
    <3> QED BY <2>1, <3>1 DEF Agree, Entered, Slot
  <2> QED BY <2>2, <2>3 DEF Agree
<1>2. ASSUME NEW c \in Calls, RecordCreate(c) \/ RecordDerive(c) PROVE Agree'
  <2>1. Slot(c) \in Slots
    BY <1>2, RequestFacts DEF Slot, RecordCreate, RecordDerive, Ops
  <2>2. ASSUME NEW d \in Calls \ {c}, Settled(d)' PROVE mutation'[Slot(d)] = Entered(d)'
    <3>1. Settled(d) /\ UNCHANGED <<req, reply>>
      BY <1>2, <2>2 DEF RecordCreate, RecordDerive, Goto, End, Settled
    <3>2. mutation[Slot(d)] = Entered(d) /\ reply[d] \in Reply /\ req[d].arg \in Digests /\ Slot(d) \in Slots
      BY <3>1, RequestFacts DEF Agree, Shape, Settled, Slot
    <3>3. mutation[Slot(d)] \in Record
      BY <3>2 DEF Entered, Record, Reply
    <3>4. mutation'[Slot(d)] = mutation[Slot(d)]
      BY <1>2, <2>1, <3>2, <3>3, NoneAssumption DEF RecordCreate, RecordDerive
    <3> QED BY <3>1, <3>2, <3>4 DEF Entered, Slot
  <2>3. Settled(c)' => mutation'[Slot(c)] = Entered(c)'
    BY <1>2, <2>1 DEF RecordCreate, RecordDerive, Goto, End, Settled, Entered
  <2> QED BY <1>2, <2>2, <2>3 DEF Agree, Slot, RecordCreate, RecordDerive
<1>3. ASSUME NEW c \in Calls, Answer(c) PROVE Agree'
  BY <1>3 DEF Answer, End, Agree, Settled, Entered, Slot, Shape
<1>4. CASE UNCHANGED vars
  BY <1>4 DEF vars, Agree, Settled, Entered, Slot
<1> QED BY <1>1, <1>2, <1>3, <1>4, StepCases

\* Nothing is given to a client by a step that answers no create, fork or clone.
LEMMA GivenFrame ==
  ASSUME NEW c \in Calls, UNCHANGED req,
         \A d \in Calls \ {c} : pc'[d] = pc[d] /\ reply'[d] = reply[d],
         req[c].kind \in Ops => pc[c] # "done" /\ pc'[c] # "done"
  PROVE  Given' = Given
<1> DEFINE Done(s) == {d \in Calls : pc[d] = "done" /\ req[d].kind \in Ops /\ Slot(d) = s}
<1>1. \A s \in Slots : Done(s)' = Done(s)
  BY DEF Slot
<1>2. \A s \in Slots : \A d \in Done(s) : reply'[d] = reply[d] /\ req'[d] = req[d]
  OBVIOUS
<1>3. \A s \in Slots : Given'[s] = Given[s]
  BY <1>1, <1>2 DEF Given
<1> QED BY <1>3 DEF Given

LEMMA PromiseInit == Init => Promise!Init
<1> SUFFICES ASSUME Init PROVE Promise!Init OBVIOUS
<1>1. \A d \in Calls : pc[d] # "done"
  BY DEF Init, Entry
<1>2. Given = [s \in Slots |-> {}]
  BY <1>1 DEF Given
<1> QED BY <1>2 DEF Init, Promise!Init

LEMMA PromiseStep ==
  TypeInv /\ Agree /\ Agree' /\ [Next]_vars => [Promise!Next]_(Promise!vars)
<1> SUFFICES ASSUME TypeInv, Agree, Agree', [Next]_vars PROVE [Promise!Next]_(Promise!vars)
  OBVIOUS
<1> USE DEF TypeInv, TypeOK
<1>1. ASSUME NEW c \in Calls, QuietStep(c) PROVE UNCHANGED Promise!vars
  BY <1>1, Quiet, GivenFrame DEF Promise!vars
<1>2. ASSUME NEW c \in Calls, RecordCreate(c) \/ RecordDerive(c) PROVE [Promise!Next]_(Promise!vars)
  <2>1. Slot(c) \in Slots /\ req[c].arg \in Digests /\ reply[c] \in Reply
    BY <1>2, RequestFacts DEF Slot, RecordCreate, RecordDerive, Ops, Shape
  <2>2. Entered(c) \in Results
    BY <2>1 DEF Entered, Results, Record, Reply
  <2>3. Given' = Given
    BY <1>2, GivenFrame DEF RecordCreate, RecordDerive, Goto, End
  <2>4. mutation' = mutation \/ Promise!Record(Slot(c), Entered(c))
    BY <1>2, <2>3 DEF RecordCreate, RecordDerive, Promise!Record
  <2> QED BY <2>1, <2>2, <2>3, <2>4 DEF Promise!Next, Promise!vars
<1>3. ASSUME NEW c \in Calls, Answer(c) PROVE [Promise!Next]_(Promise!vars)
  <2> DEFINE s == Slot(c)
  <2>1. s \in Slots /\ req[c].kind \in Ops
    BY <1>3, RequestFacts DEF Slot, Answer, Shape
  <2>2. /\ UNCHANGED <<mutation, req, reply>>
        /\ pc' = [pc EXCEPT ![c] = "done"] /\ pc[c] = "reply"
    BY <1>3 DEF Answer, End
  <2>3. mutation[s] = Entered(c) /\ req[c].arg \in Digests /\ reply[c] \in Reply
    BY <2>1, <2>2, RequestFacts DEF Agree, Settled, Shape
  <2>4. mutation[s] # None
    BY <2>3, NoneAssumption DEF Entered, Record, Reply
  <2>5. \A t \in Slots \ {s} : Given'[t] = Given[t]
    BY <2>1, <2>2 DEF Given, Slot
  <2>6. \A d \in Calls : pc'[d] = "done" /\ req[d].kind \in Ops /\ Slot(d) = s => Entered(d) = mutation[s]
    <3>1. \A d \in Calls : pc'[d] = "done" /\ req'[d].kind \in Ops => mutation'[Slot(d)'] = Entered(d)'
      BY DEF Agree, Settled
    <3> QED BY <2>2, <3>1 DEF Slot, Entered
  <2>7. Given'[s] = {mutation[s]}
    BY <2>1, <2>2, <2>3, <2>6 DEF Given, Slot, Entered
  <2>8. Given' = [Given EXCEPT ![s] = {mutation[s]}]
    BY <2>5, <2>7 DEF Given
  <2> QED BY <2>1, <2>2, <2>4, <2>8 DEF Promise!Next, Promise!Answer
<1>4. CASE UNCHANGED vars
  BY <1>4 DEF vars, Given, Slot, Promise!vars
<1> QED BY <1>1, <1>2, <1>3, <1>4, StepCases

\* The handlers keep what an idempotency key promises: all answers under a key
\* are the result that was recorded first, for the same input.
THEOREM KeysKeepPromise == Spec => PromiseSpec
<1>1. Init => TypeInv /\ Agree
  BY TypeInit, AgreeInit
<1>2. TypeInv /\ Agree /\ [Next]_vars => (TypeInv /\ Agree)'
  BY TypeStep, AgreeStep
<1> QED BY <1>1, <1>2, PromiseInit, PromiseStep, PTL DEF Spec, PromiseSpec, Promise!Spec

-----------------------------------------------------------------------------
(* Whose environment a call works on. *)

\* A create, fork or clone between its upsert and its record.
Working(c) ==
  /\ req[c].kind \in Ops
  /\ pc[c] \in {"link", "configure", "secret", "enrich", "activity", "target", "record"}

\* Two operations or keys never share an environment, and a call works on the
\* one made under its own.
Made ==
  /\ \A s, t \in Slots : made[s] # None /\ made[s] = made[t] => s = t
  /\ \A s \in Slots : made[s] # None => remote[made[s]] # "none"
  /\ \A s \in Slots : mutation[s] # None => mutation[s].env = made[s]
  /\ \A c \in Calls : req[c].kind \in Ops => todo[c] \subseteq {made[Slot(c)]}
  /\ \A c \in Calls : Working(c) => target[c] = made[Slot(c)]
  /\ \A c \in Calls : Working(c) /\ pc[c] \in {"enrich", "activity", "target", "record"}
                        => reply[c].env = made[Slot(c)]

\* What an action that Fork Core's and the record's tables do not see leaves to
\* show.
LEMMA MadeFrame ==
  ASSUME TypeInv, Made, NEW c \in Calls, UNCHANGED <<remote, made, mutation, req>>,
         \A d \in Calls \ {c} : pc'[d] = pc[d] /\ todo'[d] = todo[d]
                                  /\ target'[d] = target[d] /\ reply'[d] = reply[d],
         req[c].kind \in Ops => todo'[c] \subseteq {made[Slot(c)]},
         Working(c)' => target'[c] = made[Slot(c)],
         Working(c)' /\ pc'[c] \in {"enrich", "activity", "target", "record"}
            => reply'[c].env = made[Slot(c)]
  PROVE  Made'
<1>0. TypeOK /\ \A d \in Calls : Slot(d)' = Slot(d)
  BY DEF TypeInv, Slot
<1>1. \A d \in Calls \ {c} : Working(d)' = Working(d)
  BY DEF Working
<1>2. \A d \in Calls : req'[d].kind \in Ops => todo'[d] \subseteq {made'[Slot(d)']}
  BY <1>0 DEF Made
<1>3. \A d \in Calls : Working(d)' => target'[d] = made'[Slot(d)']
  BY <1>0, <1>1 DEF Made
<1>4. \A d \in Calls : Working(d)' /\ pc'[d] \in {"enrich", "activity", "target", "record"}
                           => reply'[d].env = made'[Slot(d)']
  BY <1>0, <1>1 DEF Made
<1> QED BY <1>2, <1>3, <1>4 DEF Made

LEMMA MadeInit == Init => Made
<1> SUFFICES ASSUME Init PROVE Made OBVIOUS
<1>1. \A c \in Calls : pc[c] \in {"lookup", "ensure", "remote"}
  BY DEF Init, Entry
<1> QED BY <1>1 DEF Init, Made, Working

LEMMA MadeStep == TypeInv /\ Made /\ [Next]_vars => Made'
<1> SUFFICES ASSUME TypeInv, Made, [Next]_vars PROVE Made' OBVIOUS
<1> USE DEF TypeOK, Goto, End, Working
<1>0. TypeOK /\ Shape
  BY DEF TypeInv
<1>1. ASSUME NEW c \in Calls,
             Ensure(c) \/ Answer(c) \/ RemoteRefuse(c) \/ RemoteSimulate(c) \/ Fail(c)
      PROVE Made'
  BY <1>0, <1>1, MadeFrame DEF Ensure, Answer, RemoteRefuse, RemoteSimulate, Fail, Made
<1>2. ASSUME NEW c \in Calls, Lookup(c) \/ Reread(c) PROVE Made'
  BY <1>0, <1>2, MadeFrame DEF Lookup, Reread, AnswerStored, Made
<1>3. ASSUME NEW c \in Calls, RecordCreate(c) \/ RecordDerive(c) PROVE Made'
  <2>1. Slot(c) \in Slots /\ reply[c].env = made[Slot(c)] /\ target[c] = made[Slot(c)]
    BY <1>0, <1>3, RequestFacts DEF RecordCreate, RecordDerive, Slot, Ops, Made
  <2>2. Entered(c).env = made[Slot(c)]
    BY <2>1 DEF Entered
  <2>3. \A s \in Slots : mutation'[s] # None => mutation'[s].env = made[s]
    BY <1>0, <1>3, <2>1, <2>2 DEF RecordCreate, RecordDerive, Made
  <2>4. UNCHANGED <<remote, made, req, reply>>
        /\ \A d \in Calls \ {c} : pc'[d] = pc[d] /\ todo'[d] = todo[d] /\ target'[d] = target[d]
    BY <1>0, <1>3 DEF RecordCreate, RecordDerive
  <2>5. todo'[c] \subseteq todo[c] /\ (pc'[c] # "failed" => target'[c] = target[c])
    BY <1>0, <1>3 DEF RecordCreate, RecordDerive
  <2>6. pc'[c] \in {"reply", "failed", "activity", "reread"}
    BY <1>0, <1>3 DEF RecordCreate, RecordDerive
  <2>7. req[c].kind \in Ops => todo'[c] \subseteq {made[Slot(c)]}
    BY <2>5 DEF Made
  <2>8. \A d \in Calls : Slot(d)' = Slot(d) /\ (d # c => Working(d)' = Working(d))
    BY <2>4 DEF Slot, Working
  <2>9. Working(c)' => target'[c] = made[Slot(c)] /\ reply'[c].env = made[Slot(c)]
    BY <2>1, <2>4, <2>5, <2>6
  <2> QED BY <1>0, <2>3, <2>4, <2>7, <2>8, <2>9 DEF Made
<1>4. ASSUME NEW c \in Calls, NEW e \in Envs, RemoteMake(c, e) PROVE Made'
  <2>1. Slot(c) \in Slots /\ e # None
    BY <1>0, <1>4, RequestFacts, MirrorAssumption DEF RemoteMake, Slot
  <2>2. \A s \in Slots : made[s] # e
    BY <1>0, <1>4, <2>1 DEF RemoteMake, Made
  <2>3. made' = [made EXCEPT ![Slot(c)] = e] /\ remote' = [remote EXCEPT ![e] = "live"]
        /\ UNCHANGED <<mutation, req, reply, target>>
        /\ todo' = [todo EXCEPT ![c] = {e}] /\ pc' = [pc EXCEPT ![c] = "insert"]
    BY <1>4 DEF RemoteMake
  <2>4. \A d \in Calls : req[d].kind \in Ops => Slot(d) \in Slots
    BY <1>0, RequestFacts DEF Slot
  <2>5. \A s \in Slots : mutation[s] # None => mutation[s].env \in Envs
    BY <1>0 DEF Record
  <2>6. \A s \in Slots : mutation[s] # None => s # Slot(c)
    BY <1>4, <2>5, <2>1, MirrorAssumption DEF RemoteMake, Made
  <2>7. \A d \in Calls : req[d].kind \in Ops /\ Slot(d) = Slot(c) => todo[d] \subseteq {None} /\ ~Working(d)
    <3>1. \A d \in Calls : Working(d) => target[d] \in Envs
      BY <1>0 DEF Shape, Ops
    <3> QED BY <3>1, <1>4, <2>1, MirrorAssumption DEF RemoteMake, Made
  <2>8. \A d \in Calls : None \notin todo[d]
    BY <1>0, MirrorAssumption
  <2>9. \A s, t \in Slots : made'[s] # None /\ made'[s] = made'[t] => s = t
    BY <1>0, <2>1, <2>2, <2>3 DEF Made
  <2>10. \A s \in Slots : made'[s] # None => remote'[made'[s]] # "none"
    BY <1>0, <2>1, <2>2, <2>3 DEF Made
  <2>11. \A s \in Slots : mutation'[s] # None => mutation'[s].env = made'[s]
    BY <1>0, <2>1, <2>3, <2>6 DEF Made
  <2>12. \A d \in Calls : req'[d].kind \in Ops => todo'[d] \subseteq {made'[Slot(d)']}
    <3>1. ASSUME NEW d \in Calls, req[d].kind \in Ops PROVE todo'[d] \subseteq {made'[Slot(d)]}
      <4>1. CASE Slot(d) = Slot(c)
        BY <1>0, <2>1, <2>3, <2>7, <2>8, <3>1, <4>1
      <4>2. CASE Slot(d) # Slot(c)
        BY <1>0, <2>1, <2>3, <2>4, <3>1, <4>2 DEF Made
      <4> QED BY <4>1, <4>2
    <3> QED BY <2>3, <3>1 DEF Slot
  <2>13. \A d \in Calls : Working(d)' => Working(d) /\ Slot(d)' = Slot(d) /\ Slot(d) # Slot(c) /\ d # c
                                          /\ made'[Slot(d)] = made[Slot(d)] /\ pc'[d] = pc[d]
    BY <1>0, <2>1, <2>3, <2>4, <2>7 DEF Slot
  <2> QED BY <2>3, <2>9, <2>10, <2>11, <2>12, <2>13 DEF Made
<1>5. ASSUME NEW c \in Calls, RemoteReplay(c) PROVE Made'
  BY <1>0, <1>5, MadeFrame DEF RemoteReplay
<1>6. ASSUME NEW c \in Calls, RemoteRead(c) PROVE Made'
  BY <1>0, <1>6, MadeFrame DEF RemoteRead, Ops
<1>7. ASSUME NEW c \in Calls, RemoteDelete(c) PROVE Made'
  <2>1. UNCHANGED <<made, mutation, req, reply, todo, target>> /\ pc' = [pc EXCEPT ![c] = "remove"]
        /\ remote' = [remote EXCEPT ![req[c].arg] = "gone"]
    BY <1>7 DEF RemoteDelete
  <2> QED BY <1>0, <2>1 DEF Made, Slot
<1>8. ASSUME NEW c \in Calls, NEW e \in Envs, InsertRow(c, e) PROVE Made'
  <2>1. Upserted(c, todo[c] \ {e}) \in {"insert", "configure", "purge", "enrich"}
        /\ (req[c].kind \in Ops => Upserted(c, todo[c] \ {e}) # "enrich")
    BY DEF Upserted
  <2>2. req[c].kind \in Ops => todo[c] \subseteq {made[Slot(c)]}
    BY DEF Made
  <2>3. UNCHANGED <<remote, made, mutation, req, reply>> /\ target' = [target EXCEPT ![c] = e]
        /\ todo' = [todo EXCEPT ![c] = todo[c] \ {e}] /\ e \in todo[c]
        /\ \E step \in {Upserted(c, todo[c] \ {e}), "link"} : pc' = [pc EXCEPT ![c] = step]
    BY <1>8 DEF InsertRow
  <2>4. pc'[c] \in {"insert", "configure", "purge", "enrich", "link"}
        /\ (req[c].kind \in Ops => pc'[c] # "enrich")
    BY <1>0, <2>1, <2>3
  <2> QED BY <1>0, <2>2, <2>3, <2>4, MadeFrame
<1>9. ASSUME NEW c \in Calls, LinkRow(c) PROVE Made'
  <2>1. Upserted(c, todo[c]) \in {"insert", "configure", "purge", "enrich"}
        /\ (req[c].kind \in Ops => Upserted(c, todo[c]) # "enrich")
    BY DEF Upserted
  <2> QED BY <1>0, <1>9, <2>1, MadeFrame DEF LinkRow, Made
<1>10. ASSUME NEW c \in Calls, ConfigureCreate(c) \/ ConfigureDerive(c) \/ ReadSecret(c) PROVE Made'
  <2>1. req[c].kind \in Ops
    BY <1>0, <1>10 DEF Shape, ConfigureCreate, ConfigureDerive, ReadSecret
  <2>2. target[c] = made[Slot(c)] /\ todo[c] \subseteq {made[Slot(c)]}
    BY <1>10, <2>1 DEF Made, ConfigureCreate, ConfigureDerive, ReadSecret
  <2> QED BY <1>0, <1>10, <2>1, <2>2, MadeFrame DEF ConfigureCreate, ConfigureDerive, ReadSecret
<1>11. ASSUME NEW c \in Calls, Enrich(c) PROVE Made'
  BY <1>0, <1>11, MadeFrame DEF Enrich, Made
<1>12. ASSUME NEW c \in Calls, Activity(c) \/ ActivityTarget(c) PROVE Made'
  BY <1>0, <1>12, MadeFrame DEF Activity, ActivityTarget, Made, Shape
<1>13. ASSUME NEW c \in Calls, Purge(c) \/ RemoveRow(c) \/ StoreRun(c) PROVE Made'
  <2>1. req[c].kind \notin Ops
    BY <1>0, <1>13 DEF Purge, RemoveRow, StoreRun, Shape, Ops
  <2>2. UNCHANGED <<remote, made, mutation, req, reply>>
        /\ \A d \in Calls \ {c} : pc'[d] = pc[d] /\ todo'[d] = todo[d] /\ target'[d] = target[d]
    BY <1>0, <1>13 DEF Purge, RemoveRow, StoreRun, DeleteRows
  <2> QED BY <2>1, <2>2, MadeFrame
<1>14. CASE UNCHANGED vars
  BY <1>14 DEF vars, Made, Slot
<1> QED
  BY <1>1, <1>2, <1>3, <1>4, <1>5, <1>6, <1>7, <1>8, <1>9, <1>10, <1>11, <1>12, <1>13, <1>14
  DEF Next, Replay, Remote, Mirror

-----------------------------------------------------------------------------
(* The secret of a derived environment. *)

\* The row of e has the secret x, which a call gave it, or was deleted once.
Works(e, x) == e \in wiped \/ (row[e] # None /\ row[e].secret = x /\ x # Generated)

\* A fork or clone between its configuration and its record sees the secret
\* that its answer has, and the record keeps it.
Derived ==
  /\ \A k \in Keys : mutation[<<"derive", k>>] # None
       => Works(mutation[<<"derive", k>>].env, mutation[<<"derive", k>>].secret)
  /\ \A c \in Calls : req[c].kind = "derive" =>
       /\ pc[c] \in {"link", "configure"} => target[c] \in wiped \/ row[target[c]] # None
       /\ pc[c] = "secret" => \/ target[c] \in wiped
                              \/ row[target[c]] # None /\ row[target[c]].secret # Generated
       /\ pc[c] \in {"enrich", "record"} => Works(target[c], reply[c].secret)

\* The call whose step this is: it alone moves.
Moves(c) ==
  /\ \A d \in Calls \ {c} : /\ pc'[d] = pc[d] /\ todo'[d] = todo[d] /\ listed'[d] = listed[d]
                            /\ target'[d] = target[d] /\ reply'[d] = reply[d]
  /\ req' = req

LEMMA OneMoves ==
  ASSUME TypeInv, NEW c \in Calls, Replay(c) \/ Remote(c) \/ Mirror(c) \/ Fail(c)
  PROVE  Moves(c)
<1> USE DEF TypeInv, TypeOK, Goto, End, Moves
<1>1. CASE Replay(c)
  BY <1>1 DEF Replay, Ensure, Lookup, Reread, AnswerStored, RecordCreate, RecordDerive, Answer
<1>2. CASE Remote(c)
  BY <1>2 DEF Remote, RemoteMake, RemoteReplay, RemoteRefuse, RemoteRead, RemoteDelete, RemoteSimulate
<1>3. CASE Mirror(c)
  <2>1. CASE \E e \in Envs : InsertRow(c, e)
    BY <2>1 DEF InsertRow
  <2>2. CASE LinkRow(c) \/ Enrich(c) \/ Activity(c) \/ ActivityTarget(c) \/ StoreRun(c)
    BY <2>2 DEF LinkRow, Enrich, Activity, ActivityTarget, StoreRun
  <2>3. CASE ConfigureCreate(c) \/ ConfigureDerive(c) \/ ReadSecret(c)
    BY <2>3 DEF ConfigureCreate, ConfigureDerive, ReadSecret
  <2>4. CASE Purge(c) \/ RemoveRow(c)
    BY <2>4 DEF Purge, RemoveRow, DeleteRows
  <2> QED BY <1>3, <2>1, <2>2, <2>3, <2>4 DEF Mirror
<1>4. CASE Fail(c)
  BY <1>4 DEF Fail
<1> QED BY <1>1, <1>2, <1>3, <1>4

\* Only a create writes over a secret that a call gave a row, and only over that
\* of an environment made by a create.
LEMMA RowsKept ==
  ASSUME TypeInv, Made, NEW c \in Calls, Replay(c) \/ Remote(c) \/ Mirror(c) \/ Fail(c)
  PROVE  /\ wiped \subseteq wiped'
         /\ \A e \in Envs : row[e] # None =>
              \/ e \in wiped'
              \/ /\ row'[e] # None
                 /\ \/ row[e].secret = Generated
                    \/ row'[e].secret = row[e].secret
                    \/ \E k \in Keys : e = made[<<"create", k>>]
<1> DEFINE Kept == \A e \in Envs : row[e] # None =>
              \/ e \in wiped'
              \/ /\ row'[e] # None
                 /\ \/ row[e].secret = Generated
                    \/ row'[e].secret = row[e].secret
                    \/ \E k \in Keys : e = made[<<"create", k>>]
<1>0. TypeOK /\ Shape
  BY DEF TypeInv
<1>1. CASE row' = row /\ wiped \subseteq wiped'
  BY <1>1
<1>2. CASE Replay(c) \/ Remote(c) \/ Fail(c)
  BY <1>1, <1>2 DEF Replay, Ensure, Lookup, Reread, RecordCreate, RecordDerive, Answer, Remote, RemoteMake,
     RemoteReplay, RemoteRefuse, RemoteRead, RemoteDelete, RemoteSimulate, Fail
<1>3. CASE ReadSecret(c) \/ Enrich(c) \/ Activity(c) \/ ActivityTarget(c) \/ StoreRun(c)
  BY <1>1, <1>3 DEF ReadSecret, Enrich, Activity, ActivityTarget, StoreRun
<1>4. ASSUME NEW e \in Envs, InsertRow(c, e) PROVE wiped \subseteq wiped' /\ Kept
  BY <1>0, <1>4 DEF InsertRow, TypeOK
<1>5. CASE LinkRow(c)
  <2>1. target[c] \in Envs
    BY <1>0, <1>5 DEF LinkRow, Shape
  <2>2. row[target[c]] # None => row[target[c]] \in Row
    BY <1>0, <2>1 DEF TypeOK
  <2>3. row[target[c]] # None => [row[target[c]] EXCEPT !.source = origin[target[c]]] # None
    BY <2>2, <1>0, <2>1, <1>5, NoneAssumption DEF Row, TypeOK, LinkRow, Shape
  <2>4. row[target[c]] # None
          => [row[target[c]] EXCEPT !.source = origin[target[c]]].secret = row[target[c]].secret
    BY <2>2 DEF Row
  <2> QED BY <1>0, <1>5, <2>1, <2>3, <2>4 DEF LinkRow, TypeOK
<1>6. CASE ConfigureCreate(c)
  <2> DEFINE e == target[c]
  <2>1. e \in Envs /\ e = made[<<"create", req[c].key>>] /\ req[c].key \in Keys
        /\ req[c].arg \in Slugs \cup {None}
    BY <1>0, <1>6, RequestFacts DEF ConfigureCreate, Shape, TypeOK, Made, Working, Slot, Ops
  <2>2. row[e] # None => [secret |-> c, slug |-> req[c].arg, source |-> row[e].source] \in Row
    BY <1>0, <2>1 DEF Row, Secrets, TypeOK
  <2> QED BY <1>0, <1>6, <2>1, <2>2, NoneAssumption DEF ConfigureCreate, TypeOK
<1>7. CASE ConfigureDerive(c)
  <2> DEFINE e == target[c]
  <2>1. e \in Envs
    BY <1>0, <1>7 DEF ConfigureDerive, Shape
  <2>2. row[e] # None => [secret |-> c, slug |-> None, source |-> row[e].source] \in Row
    BY <1>0, <2>1 DEF Row, Secrets, TypeOK
  <2> QED BY <1>0, <1>7, <2>1, <2>2, NoneAssumption DEF ConfigureDerive, TypeOK
<1>8. CASE Purge(c) \/ RemoveRow(c)
  <2>1. PICK D \in SUBSET Envs : DeleteRows(c, D, "enrich") \/ DeleteRows(c, D, "done")
    BY <1>8 DEF Purge, RemoveRow, Mirrored
  <2>2. \/ row' = row /\ wiped' = wiped
        \/ wiped' = wiped \cup D /\ \A e \in Envs : e \in D \/ row'[e] = row[e]
    BY <2>1 DEF DeleteRows
  <2> QED BY <2>2
<1> QED BY <1>2, <1>3, <1>4, <1>5, <1>6, <1>7, <1>8 DEF Mirror

LEMMA DerivedInit == Init => Derived
<1> SUFFICES ASSUME Init PROVE Derived OBVIOUS
<1>1. \A c \in Calls : pc[c] \in {"lookup", "ensure", "remote"}
  BY DEF Init, Entry
<1> QED BY <1>1 DEF Init, Derived, Slots, Ops

LEMMA DerivedStep == TypeInv /\ Made /\ Derived /\ [Next]_vars => Derived'
<1> SUFFICES ASSUME TypeInv, Made, Derived, [Next]_vars PROVE Derived' OBVIOUS
<1> USE DEF Goto, End
<1>0. TypeOK /\ Shape
  BY DEF TypeInv
<1>1. CASE UNCHANGED vars
  BY <1>1 DEF vars, Derived, Works
<1>2. ASSUME NEW c \in Calls, Replay(c) \/ Remote(c) \/ Mirror(c) \/ Fail(c) PROVE Derived'
  \* What other steps leave of a row made by a fork or clone.
  <2>1. ASSUME NEW e \in Envs, \A k \in Keys : e # made[<<"create", k>>]
        PROVE  /\ e \in wiped \/ row[e] # None => e \in wiped' \/ row'[e] # None
               /\ e \in wiped \/ (row[e] # None /\ row[e].secret # Generated)
                    => e \in wiped' \/ (row'[e] # None /\ row'[e].secret # Generated)
               /\ \A x : Works(e, x) => Works(e, x)'
    BY <1>2, <2>1, RowsKept DEF Works
  <2>2. \A k \in Keys : <<"derive", k>> \in Slots /\ <<"create", k>> \in Slots
    BY DEF Slots, Ops
  <2>3. ASSUME NEW k \in Keys, made[<<"derive", k>>] # None
        PROVE  \A j \in Keys : made[<<"derive", k>>] # made[<<"create", j>>]
    BY <2>2, <2>3 DEF Made
  <2>4. ASSUME NEW k \in Keys, mutation[<<"derive", k>>] # None
        PROVE  Works(mutation[<<"derive", k>>].env, mutation[<<"derive", k>>].secret)'
               \/ mutation'[<<"derive", k>>] # mutation[<<"derive", k>>]
    <3>1. mutation[<<"derive", k>>].env = made[<<"derive", k>>]
      BY <2>2, <2>4 DEF Made
    <3>2. mutation[<<"derive", k>>].env \in Envs
      BY <1>0, <2>2, <2>4 DEF TypeOK, Record
    <3>3. made[<<"derive", k>>] # None
      BY <3>1, <3>2, MirrorAssumption
    <3>4. Works(mutation[<<"derive", k>>].env, mutation[<<"derive", k>>].secret)
      BY <2>4 DEF Derived
    <3>5. \A j \in Keys : mutation[<<"derive", k>>].env # made[<<"create", j>>]
      BY <3>1, <3>3, <2>3
    <3> QED BY <2>1, <3>2, <3>4, <3>5 DEF Works
  <2>5. ASSUME NEW d \in Calls, req[d].kind = "derive", Working(d), target[d] \in Envs
        PROVE  \A j \in Keys : target[d] # made[<<"create", j>>]
    <3>1. req[d].key \in Keys /\ Slot(d) = <<"derive", req[d].key>> /\ target[d] = made[Slot(d)]
      BY <1>0, <2>5, RequestFacts DEF TypeOK, Slot, Made, Ops
    <3> QED BY <2>3, <2>5, <3>1, MirrorAssumption
  <2>6. Moves(c)
    BY <1>2, OneMoves
  <2> DEFINE Part(d) == req[d].kind = "derive" =>
       /\ pc[d] \in {"link", "configure"} => target[d] \in wiped \/ row[target[d]] # None
       /\ pc[d] = "secret" => \/ target[d] \in wiped
                              \/ row[target[d]] # None /\ row[target[d]].secret # Generated
       /\ pc[d] \in {"enrich", "record"} => Works(target[d], reply[d].secret)
  <2>7. \A d \in Calls : Part(d)
    BY DEF Derived
  <2>8. ASSUME NEW d \in Calls \ {c} PROVE Part(d)'
    <3> SUFFICES ASSUME req[d].kind = "derive",
                        pc[d] \in {"link", "configure", "secret", "enrich", "record"}
                 PROVE  Part(d)'
      BY <2>6 DEF Moves
    <3>1. Working(d) /\ target[d] \in Envs
      BY <1>0 DEF Working, Ops, Shape
    <3>2. \A j \in Keys : target[d] # made[<<"create", j>>]
      BY <2>5, <3>1
    <3>3. pc'[d] = pc[d] /\ target'[d] = target[d] /\ reply'[d] = reply[d] /\ req' = req
      BY <2>6 DEF Moves
    <3>4. pc[d] \in {"link", "configure"} => target[d] \in wiped' \/ row'[target[d]] # None
      BY <2>1, <2>7, <3>1, <3>2
    <3>5. pc[d] = "secret" => \/ target[d] \in wiped'
                              \/ row'[target[d]] # None /\ row'[target[d]].secret # Generated
      BY <2>1, <2>7, <3>1, <3>2
    <3>6. pc[d] \in {"enrich", "record"} => Works(target[d], reply[d].secret)'
      <4>1. \A x : Works(target[d], x) =>
              \/ target[d] \in wiped'
              \/ row'[target[d]] # None /\ row'[target[d]].secret = x /\ x # Generated
        BY <2>1, <3>1, <3>2 DEF Works
      <4> QED BY <2>7, <3>3, <4>1 DEF Works
    <3> QED BY <3>3, <3>4, <3>5, <3>6 DEF Works
  <2>9. ASSUME req[c].kind = "derive", pc'[c] \in {"link", "configure", "secret", "enrich", "record"}
        PROVE  Part(c)'
    <3>0. pc \in [Calls -> Steps \cup Ended] /\ target \in [Calls -> Envs \cup {None}] /\ req' = req
          /\ row \in [Envs -> Row \cup {None}] /\ reply \in [Calls -> Reply \cup {None}]
      BY <1>0, <2>6 DEF TypeOK, Moves
    <3>1. CASE Replay(c) \/ Fail(c)
      BY <3>0, <3>1, <2>9 DEF Replay, Ensure, Lookup, Reread, AnswerStored, RecordCreate, RecordDerive, Answer, Fail
    <3>2. CASE Remote(c)
      BY <3>0, <3>2, <2>9 DEF Remote, RemoteMake, RemoteReplay, RemoteRefuse, RemoteRead, RemoteDelete, RemoteSimulate
    <3>3. ASSUME NEW e \in Envs, InsertRow(c, e) PROVE Part(c)'
      <4>1. Upserted(c, todo[c] \ {e}) \in {"insert", "configure"}
        BY <2>9 DEF Upserted, Ops
      <4>2. FreshRow # None
        BY NoneAssumption, MirrorAssumption DEF FreshRow, Row, Secrets
      <4> QED BY <3>0, <3>3, <4>1, <4>2, <1>0 DEF InsertRow, TypeOK
    <3>4. CASE LinkRow(c)
      <4>1. Upserted(c, todo[c]) \in {"insert", "configure"}
        BY <2>9 DEF Upserted, Ops
      <4>2. target[c] \in Envs /\ origin[target[c]] \in Envs
        BY <1>0, <3>4 DEF LinkRow, Shape
      <4>3. row[target[c]] # None => [row[target[c]] EXCEPT !.source = origin[target[c]]] # None
        BY <3>0, <4>2, NoneAssumption DEF Row
      <4>4. target[c] \in wiped \/ row[target[c]] # None
        BY <2>7, <2>9, <3>4 DEF LinkRow
      <4> QED BY <3>0, <3>4, <4>1, <4>2, <4>3, <4>4 DEF LinkRow
    <3>5. CASE ConfigureDerive(c)
      <4> DEFINE e == target[c]
      <4>1. e \in Envs
        BY <1>0, <3>5 DEF ConfigureDerive, Shape
      <4>2. row[e] # None => [secret |-> c, slug |-> None, source |-> row[e].source] # None
        BY <3>0, <4>1, NoneAssumption DEF Row, Secrets
      <4>3. e \in wiped \/ row[e] # None
        BY <2>7, <2>9, <3>5 DEF ConfigureDerive
      <4>4. c # Generated
        BY MirrorAssumption
      <4> QED BY <3>0, <3>5, <4>1, <4>2, <4>3, <4>4 DEF ConfigureDerive
    <3>6. CASE ReadSecret(c)
      BY <3>0, <2>7, <2>9, <3>6 DEF ReadSecret, Works
    <3>7. CASE Enrich(c)
      BY <3>0, <2>7, <2>9, <3>7 DEF Enrich, Works
    <3>8. CASE ConfigureCreate(c) \/ Activity(c) \/ ActivityTarget(c)
      BY <3>0, <2>9, <3>8 DEF ConfigureCreate, Activity, ActivityTarget
    <3>9. CASE Purge(c) \/ RemoveRow(c) \/ StoreRun(c)
      BY <1>0, <2>9, <3>9 DEF Shape, Purge, RemoveRow, StoreRun
    <3> QED BY <1>2, <3>1, <3>2, <3>3, <3>4, <3>5, <3>6, <3>7, <3>8, <3>9 DEF Mirror
  <2>10. \A d \in Calls : Part(d)'
    BY <2>6, <2>8, <2>9 DEF Moves
  <2>11. ASSUME NEW k \in Keys, mutation'[<<"derive", k>>] # None
         PROVE  Works(mutation[<<"derive", k>>].env, mutation[<<"derive", k>>].secret)'
    <3>1. CASE mutation'[<<"derive", k>>] = mutation[<<"derive", k>>]
      BY <2>4, <2>11, <3>1
    <3>2. CASE mutation'[<<"derive", k>>] # mutation[<<"derive", k>>]
      <4>1. RecordCreate(c) \/ RecordDerive(c)
        <5>1. QuietStep(c) => UNCHANGED mutation
          BY Quiet
        <5>2. Answer(c) => UNCHANGED mutation
          BY DEF Answer
        <5> QED BY <1>2, <3>2, <5>1, <5>2 DEF Replay, QuietStep
      <4>2. Slot(c) \in Slots /\ mutation' = [mutation EXCEPT ![Slot(c)] = Entered(c)]
            /\ pc[c] = "record" /\ req[c].kind \in Ops /\ UNCHANGED <<row, wiped>>
        BY <1>0, <3>2, <4>1, RequestFacts DEF RecordCreate, RecordDerive, Slot, TypeOK, Ops
      <4>3. Slot(c) = <<"derive", k>> /\ mutation'[<<"derive", k>>] = Entered(c)
        BY <1>0, <2>2, <3>2, <4>2 DEF TypeOK
      <4>4. req[c].kind = "derive"
        BY <4>3 DEF Slot
      <4>5. reply[c].env = target[c] /\ Works(target[c], reply[c].secret)
        BY <2>7, <4>2, <4>4 DEF Made, Working
      <4> QED BY <4>2, <4>3, <4>5 DEF Works, Entered
    <3> QED BY <3>1, <3>2
  <2> QED BY <2>10, <2>11 DEF Derived
<1> QED BY <1>1, <1>2 DEF Next

\* An answered fork or clone had the secret on record, and it works.
LEMMA DerivedWorks == TypeInv /\ Agree /\ Derived => DerivedSecretWorks
<1> SUFFICES ASSUME TypeInv, Agree, Derived, NEW c \in Answered("derive"),
                    reply[c].env \in Mirrored, reply[c].env \notin wiped
             PROVE  row[reply[c].env].secret = reply[c].secret
  BY DEF DerivedSecretWorks
<1>1. c \in Calls /\ pc[c] = "done" /\ req[c].kind = "derive" /\ req[c] \in Requests
  BY DEF Answered, TypeInv, TypeOK
<1>2. Slot(c) = <<"derive", req[c].key>> /\ req[c].key \in Keys /\ req[c].arg \in Digests
  BY <1>1, RequestFacts DEF Slot, Ops
<1>3. mutation[Slot(c)] = Entered(c)
  BY <1>1 DEF Agree, Settled, Ops
<1>4. Entered(c) \in Record
  BY <1>1, <1>2 DEF TypeInv, Shape, Ops, Reply, Record, Entered
<1>5. Works(reply[c].env, reply[c].secret)
  BY <1>2, <1>3, <1>4, NoneAssumption DEF Derived, Entered
<1> QED BY <1>5 DEF Works

\* The secret a fork or clone answered opens its environment until the row is
\* deleted, whatever else runs.
THEOREM DerivedSecretsWork == Spec => []DerivedSecretWorks
<1> DEFINE Inv == TypeInv /\ Agree /\ Made /\ Derived
<1>1. Init => Inv
  BY TypeInit, AgreeInit, MadeInit, DerivedInit
<1>2. Inv /\ [Next]_vars => Inv'
  BY TypeStep, AgreeStep, MadeStep, DerivedStep
<1>3. Inv => DerivedSecretWorks
  BY DerivedWorks
<1> QED BY <1>1, <1>2, <1>3, PTL DEF Spec

-----------------------------------------------------------------------------
(* What lists and deletions take away, and what stays. *)

\* The place of a list call that has Fork Core's answer and has not applied it.
Listing(c) == req[c].kind = "list" /\ pc[c] \in {"insert", "link", "purge"}

\* Fork Core's environments only come to life and die, and one that comes to
\* life during a list call is noted as unlisted.
LEMMA ForkCoreMoves ==
  ASSUME TypeInv, NEW c \in Calls, Replay(c) \/ Remote(c) \/ Mirror(c) \/ Fail(c)
  PROVE  /\ unlisted \subseteq unlisted' /\ held \subseteq held'
         /\ \A e \in Envs :
              /\ \/ remote'[e] = remote[e]
                 \/ remote[e] # "gone" /\ remote'[e] # "none"
              /\ remote'[e] = "live" /\ remote[e] # "live" =>
                   /\ remote[e] = "none"
                   /\ (\E d \in Calls : Listing(d)) => e \in unlisted'
              /\ remote'[e] = "gone" /\ remote[e] # "gone" =>
                   /\ \A d \in Calls : todo'[d] = todo[d]
                   /\ (\E d \in Calls : e \in todo[d]) => e \in held'
<1> USE DEF TypeInv, TypeOK
<1>1. CASE UNCHANGED <<remote, unlisted, held>>
  BY <1>1
<1>2. ASSUME NEW e \in Envs, RemoteMake(c, e) PROVE TRUE /\ remote' = [remote EXCEPT ![e] = "live"]
             /\ remote[e] = "none" /\ held' = held
             /\ unlisted' = IF ListOutstanding THEN unlisted \cup {e} ELSE unlisted
  BY <1>2 DEF RemoteMake
<1>3. CASE \E e \in Envs : RemoteMake(c, e)
  BY <1>2, <1>3 DEF ListOutstanding, Listing
<1>4. CASE RemoteDelete(c)
  <2>1. req[c].arg \in Envs
    BY <1>4, RequestFacts DEF RemoteDelete
  <2> QED BY <1>4, <2>1 DEF RemoteDelete, Live, Goto
<1>5. CASE Replay(c) \/ Fail(c)
  BY <1>1, <1>5 DEF Replay, Ensure, Lookup, Reread, RecordCreate, RecordDerive, Answer, Fail
<1>6. CASE RemoteReplay(c) \/ RemoteRefuse(c) \/ RemoteRead(c) \/ RemoteSimulate(c)
  BY <1>1, <1>6 DEF RemoteReplay, RemoteRefuse, RemoteRead, RemoteSimulate
<1>7. CASE Mirror(c)
  BY <1>1, <1>7 DEF Mirror, InsertRow, LinkRow, ConfigureCreate, ConfigureDerive, ReadSecret, Enrich,
     Activity, ActivityTarget, Purge, RemoveRow, DeleteRows, StoreRun
<1> QED BY <1>3, <1>4, <1>5, <1>6, <1>7 DEF Remote

\* A row comes with an upsert, and goes with the purge of a list that did not
\* have it or with its own deletion.
LEMMA RowsMove ==
  ASSUME TypeInv, NEW c \in Calls, Replay(c) \/ Remote(c) \/ Mirror(c) \/ Fail(c)
  PROVE  \A e \in Envs :
           /\ row[e] = None /\ row'[e] # None => e \in todo[c]
           /\ row[e] # None /\ row'[e] = None =>
                \/ Listing(c) /\ e \notin listed[c]
                \/ req[c].kind = "delete" /\ pc[c] = "remove" /\ req[c].arg = e
<1> DEFINE Goal == \A e \in Envs :
           /\ row[e] = None /\ row'[e] # None => e \in todo[c]
           /\ row[e] # None /\ row'[e] = None =>
                \/ Listing(c) /\ e \notin listed[c]
                \/ req[c].kind = "delete" /\ pc[c] = "remove" /\ req[c].arg = e
<1>0. TypeOK /\ Shape
  BY DEF TypeInv
<1>1. CASE row' = row
  BY <1>1
<1>2. CASE Replay(c) \/ Remote(c) \/ Fail(c)
  BY <1>1, <1>2 DEF Replay, Ensure, Lookup, Reread, RecordCreate, RecordDerive, Answer, Remote, RemoteMake,
     RemoteReplay, RemoteRefuse, RemoteRead, RemoteDelete, RemoteSimulate, Fail
<1>3. CASE ReadSecret(c) \/ Enrich(c) \/ Activity(c) \/ ActivityTarget(c) \/ StoreRun(c)
  BY <1>1, <1>3 DEF ReadSecret, Enrich, Activity, ActivityTarget, StoreRun
<1>4. ASSUME NEW e \in Envs, InsertRow(c, e) PROVE Goal
  BY <1>0, <1>4 DEF InsertRow, TypeOK
<1>5. CASE LinkRow(c)
  <2>1. target[c] \in Envs /\ origin[target[c]] \in Envs
    BY <1>0, <1>5 DEF LinkRow, Shape
  <2>2. row[target[c]] # None => [row[target[c]] EXCEPT !.source = origin[target[c]]] # None
    BY <1>0, <2>1, NoneAssumption DEF Row, TypeOK
  <2> QED BY <1>0, <1>5, <2>1, <2>2 DEF LinkRow, TypeOK
<1>6. CASE ConfigureCreate(c)
  <2> DEFINE e == target[c]
  <2>1. e \in Envs /\ req[c].arg \in Slugs \cup {None}
    BY <1>0, <1>6, RequestFacts DEF ConfigureCreate, Shape, TypeOK
  <2>2. row[e] # None => [secret |-> c, slug |-> req[c].arg, source |-> row[e].source] \in Row
    BY <1>0, <2>1 DEF Row, Secrets, TypeOK
  <2> QED BY <1>0, <1>6, <2>1, <2>2, NoneAssumption DEF ConfigureCreate, TypeOK
<1>7. CASE ConfigureDerive(c)
  <2> DEFINE e == target[c]
  <2>1. e \in Envs
    BY <1>0, <1>7 DEF ConfigureDerive, Shape
  <2>2. row[e] # None => [secret |-> c, slug |-> None, source |-> row[e].source] \in Row
    BY <1>0, <2>1 DEF Row, Secrets, TypeOK
  <2> QED BY <1>0, <1>7, <2>1, <2>2, NoneAssumption DEF ConfigureDerive, TypeOK
<1>8. CASE Purge(c)
  BY <1>0, <1>8 DEF Purge, DeleteRows, Listing, Shape, Mirrored
<1>9. CASE RemoveRow(c)
  BY <1>0, <1>9 DEF RemoveRow, DeleteRows, Shape, Mirrored
<1> QED BY <1>2, <1>3, <1>4, <1>5, <1>6, <1>7, <1>8, <1>9 DEF Mirror

\* What a deletion leaves behind: Fork Core's environment stays gone, whoever
\* is still to upsert it is noted, and the row is away.
Buried ==
  /\ \A c \in Calls : req[c].kind = "delete" => pc[c] \in {"remote", "remove", "done", "failed"}
  /\ \A e \in Envs, d \in Calls : remote[e] = "gone" /\ e \in todo[d] => e \in held
  /\ \A c \in Calls : req[c].kind = "delete" /\ pc[c] \in {"remove", "done"} => remote[req[c].arg] = "gone"
  /\ NothingHaunts

LEMMA BuriedInit == Init => Buried
<1> SUFFICES ASSUME Init PROVE Buried OBVIOUS
<1>1. \A c \in Calls : /\ pc[c] \in {"lookup", "ensure", "remote"}
                       /\ req[c].kind = "delete" => pc[c] = "remote"
  BY DEF Init, Entry
<1> QED BY <1>1 DEF Init, Buried, NothingHaunts

\* A delete call asks Fork Core, removes the row and is done.
LEMMA DeleteSteps ==
  ASSUME NEW c \in Calls, req[c].kind = "delete", pc[c] \in {"remote", "remove", "done", "failed"},
         Replay(c) \/ Remote(c) \/ Mirror(c) \/ Fail(c)
  PROVE  RemoteRefuse(c) \/ RemoteDelete(c) \/ RemoveRow(c) \/ Fail(c)
<1>1. CASE Replay(c)
  BY <1>1 DEF Replay, Ensure, Lookup, Reread, RecordCreate, RecordDerive, Answer
<1>2. CASE Remote(c)
  <2>1. req[c].kind \notin Ops
    BY DEF Ops
  <2> QED BY <1>2, <2>1 DEF Remote, RemoteMake, RemoteReplay, RemoteRead, RemoteSimulate
<1>3. CASE Mirror(c)
  BY <1>3 DEF Mirror, InsertRow, LinkRow, ConfigureCreate, ConfigureDerive, ReadSecret, Enrich,
     Activity, ActivityTarget, Purge, StoreRun
<1> QED BY <1>1, <1>2, <1>3

LEMMA BuriedStep == TypeInv /\ Buried /\ [Next]_vars => Buried'
<1> SUFFICES ASSUME TypeInv, Buried, [Next]_vars PROVE Buried' OBVIOUS
<1>0. TypeOK /\ Shape
  BY DEF TypeInv
<1>1. CASE UNCHANGED vars
  BY <1>1 DEF vars, Buried, NothingHaunts, Mirrored
<1>2. ASSUME NEW c \in Calls, Replay(c) \/ Remote(c) \/ Mirror(c) \/ Fail(c) PROVE Buried'
  <2>0. Moves(c) /\ \A d \in Calls : req'[d] = req[d] /\ (req[d].kind = "delete" => req[d].arg \in Envs)
    BY <1>0, <1>2, OneMoves, RequestFacts DEF Moves, TypeOK
  \* What the call takes up of Fork Core is there.
  <2>1. \A e \in todo'[c] : e \in todo[c] \/ remote'[e] = "live"
    <3> USE <1>0 DEF TypeOK, Goto, End
    <3>1. CASE Replay(c) \/ Fail(c)
      BY <3>1 DEF Replay, Ensure, Lookup, Reread, AnswerStored, RecordCreate, RecordDerive, Answer, Fail
    <3>2. CASE Remote(c)
      BY <3>2 DEF Remote, RemoteMake, RemoteReplay, RemoteRefuse, RemoteRead, RemoteDelete, RemoteSimulate, Live
    <3>3. CASE \E e \in Envs : InsertRow(c, e)
      BY <3>3 DEF InsertRow
    <3>4. CASE LinkRow(c) \/ ConfigureCreate(c) \/ ConfigureDerive(c) \/ ReadSecret(c) \/ Enrich(c)
      BY <3>4 DEF LinkRow, ConfigureCreate, ConfigureDerive, ReadSecret, Enrich
    <3>5. CASE Activity(c) \/ ActivityTarget(c) \/ StoreRun(c)
      BY <3>5 DEF Activity, ActivityTarget, StoreRun
    <3>6. CASE Purge(c) \/ RemoveRow(c)
      BY <3>6 DEF Purge, RemoveRow, DeleteRows
    <3> QED BY <1>2, <3>1, <3>2, <3>3, <3>4, <3>5, <3>6 DEF Mirror
  <2>2. ASSUME NEW e \in Envs, NEW d \in Calls, remote'[e] = "gone", e \in todo'[d] PROVE e \in held'
    <3>1. e \in todo[d]
      BY <2>0, <2>1, <2>2 DEF Moves
    <3>2. CASE remote[e] = "gone"
      BY <1>2, <3>1, <3>2, ForkCoreMoves DEF Buried
    <3>3. CASE remote[e] # "gone"
      BY <1>2, <2>2, <3>1, <3>3, ForkCoreMoves
    <3> QED BY <3>2, <3>3
  \* Where a delete call goes from here.
  <2>3. ASSUME req[c].kind = "delete"
        PROVE  \/ pc'[c] = "failed"
               \/ RemoteDelete(c) /\ pc'[c] = "remove"
               \/ RemoveRow(c) /\ pc[c] = "remove" /\ pc'[c] \in {"done", "failed"}
    <3>1. RemoteRefuse(c) \/ RemoteDelete(c) \/ RemoveRow(c) \/ Fail(c)
      BY <1>2, <2>3, DeleteSteps DEF Buried
    <3>2. CASE RemoteRefuse(c) \/ Fail(c)
      BY <1>0, <3>2 DEF TypeOK, RemoteRefuse, Fail, End
    <3>3. CASE RemoteDelete(c)
      BY <1>0, <3>3 DEF TypeOK, RemoteDelete, Goto
    <3>4. CASE RemoveRow(c)
      BY <1>0, <3>4 DEF TypeOK, RemoveRow, DeleteRows, End
    <3> QED BY <3>1, <3>2, <3>3, <3>4
  <2>4. ASSUME NEW d \in Calls, req[d].kind = "delete", pc'[d] \in {"remove", "done"}
        PROVE  remote'[req[d].arg] = "gone"
    <3>1. CASE pc[d] \in {"remove", "done"}
      BY <1>2, <2>0, <2>4, <3>1, ForkCoreMoves DEF Buried
    <3>2. CASE pc[d] \notin {"remove", "done"}
      <4>1. d = c /\ RemoteDelete(c)
        BY <2>0, <2>3, <2>4, <3>2 DEF Moves
      <4> QED BY <1>0, <2>0, <2>4, <4>1 DEF RemoteDelete, TypeOK
    <3> QED BY <3>1, <3>2
  <2>5. ASSUME NEW d \in Calls, req[d].kind = "delete", pc'[d] = "done", row'[req[d].arg] # None
        PROVE  req[d].arg \in held'
    <3> DEFINE e == req[d].arg
    <3>1. e \in Envs
      BY <2>0, <2>5
    <3>2. CASE pc[d] = "done"
      <4>1. CASE row[e] # None
        BY <1>2, <2>5, <3>1, <3>2, <4>1, ForkCoreMoves DEF Buried, NothingHaunts, Mirrored
      <4>2. CASE row[e] = None
        <5>1. e \in todo[c] /\ remote[e] = "gone"
          BY <1>2, <2>5, <3>1, <3>2, <4>2, RowsMove DEF Buried
        <5> QED BY <1>2, <3>1, <5>1, ForkCoreMoves DEF Buried
      <4> QED BY <4>1, <4>2
    <3>3. CASE pc[d] # "done"
      <4>1. d = c /\ RemoveRow(c) /\ pc'[c] = "done"
        BY <2>0, <2>3, <2>5, <3>3 DEF Moves
      <4>2. row'[e] = IF e \in Mirrored \cap {e} THEN None ELSE row[e]
        BY <1>0, <3>1, <4>1 DEF RemoveRow, DeleteRows, End, TypeOK
      <4> QED BY <2>5, <3>1, <4>2 DEF Mirrored
    <3> QED BY <3>2, <3>3
  <2>6. ASSUME NEW d \in Calls, req[d].kind = "delete"
        PROVE  pc'[d] \in {"remote", "remove", "done", "failed"}
    BY <2>0, <2>3, <2>6 DEF Moves, Buried
  <2> QED BY <2>0, <2>2, <2>4, <2>5, <2>6 DEF Buried, NothingHaunts, Mirrored
<1> QED BY <1>1, <1>2 DEF Next

\* After a delete that succeeded the environment's row stays away, unless a call
\* that had read Fork Core before the deletion was still to upsert it.
THEOREM DeletedStaysAway == Spec => []NothingHaunts
<1> DEFINE Inv == TypeInv /\ Buried
<1>1. Init => Inv
  BY TypeInit, BuriedInit
<1>2. Inv /\ [Next]_vars => Inv'
  BY TypeStep, BuriedStep
<1>3. Inv => NothingHaunts
  BY DEF Buried
<1> QED BY <1>1, <1>2, <1>3, PTL DEF Spec

\* Fork Core had the environment, and if it still does there is a row, or the
\* environment came to life behind the back of a list.
Stays(e) == e \in unlisted \/ (remote[e] # "none" /\ (remote[e] = "live" => row[e] # None))

\* A list has what was there when it asked, and what is recorded or about to be
\* stays.
Kept ==
  /\ \A c \in Calls : Listing(c) => Live \subseteq listed[c] \cup unlisted
  /\ \A s \in Slots : mutation[s] # None => Stays(mutation[s].env)
  /\ \A c \in Calls : Working(c) => Stays(target[c])

LEMMA KeptInit == Init => Kept
<1> SUFFICES ASSUME Init PROVE Kept OBVIOUS
<1>1. \A c \in Calls : pc[c] \in {"lookup", "ensure", "remote"}
  BY DEF Init, Entry
<1> QED BY <1>1 DEF Init, Kept, Listing, Working

\* An environment that stays, stays after any step.
LEMMA StaysOn ==
  ASSUME TypeInv, Buried, Kept, NEW c \in Calls, Replay(c) \/ Remote(c) \/ Mirror(c) \/ Fail(c),
         NEW e \in Envs, Stays(e)
  PROVE  Stays(e)'
<1>1. unlisted \subseteq unlisted'
  BY ForkCoreMoves
<1>2. CASE e \in unlisted
  BY <1>1, <1>2 DEF Stays
<1>3. CASE e \notin unlisted
  <2>1. remote[e] # "none" /\ (remote[e] = "live" => row[e] # None)
    BY <1>3 DEF Stays
  <2>2. remote'[e] # "none" /\ (remote'[e] = "live" => remote[e] = "live")
    BY <2>1, ForkCoreMoves
  <2>3. CASE remote'[e] = "live" /\ row'[e] = None
    <3>1. \/ Listing(c) /\ e \notin listed[c]
          \/ req[c].kind = "delete" /\ pc[c] = "remove" /\ req[c].arg = e
      BY <2>1, <2>2, <2>3, RowsMove
    <3>2. CASE Listing(c) /\ e \notin listed[c]
      BY <1>3, <2>2, <2>3, <3>2 DEF Kept, Live
    <3>3. CASE req[c].kind = "delete" /\ pc[c] = "remove" /\ req[c].arg = e
      BY <2>2, <2>3, <3>3 DEF Buried
    <3> QED BY <3>1, <3>2, <3>3
  <2> QED BY <2>2, <2>3 DEF Stays
<1> QED BY <1>2, <1>3

\* A call comes to work on an environment by its upsert.
LEMMA WorkBegins ==
  ASSUME TypeInv, NEW c \in Calls, Replay(c) \/ Remote(c) \/ Mirror(c) \/ Fail(c), Working(c)'
  PROVE  \/ Working(c) /\ target'[c] = target[c]
         \/ \E e \in Envs : InsertRow(c, e) /\ target'[c] = e
<1>0. TypeOK /\ Shape
  BY DEF TypeInv
<1> USE <1>0 DEF TypeOK, Goto, End, Working
<1>1. CASE Replay(c) \/ Fail(c)
  BY <1>1 DEF Replay, Ensure, Lookup, Reread, AnswerStored, RecordCreate, RecordDerive, Answer, Fail
<1>2. CASE Remote(c)
  BY <1>2 DEF Remote, RemoteMake, RemoteReplay, RemoteRefuse, RemoteRead, RemoteDelete, RemoteSimulate, Ops
<1>3. CASE \E e \in Envs : InsertRow(c, e)
  <2>1. PICK e \in Envs : InsertRow(c, e)
    BY <1>3
  <2>2. target' = [target EXCEPT ![c] = e]
    BY <2>1 DEF InsertRow
  <2> QED BY <2>1, <2>2
<1>4. CASE LinkRow(c) \/ ConfigureCreate(c) \/ ConfigureDerive(c) \/ ReadSecret(c) \/ Enrich(c)
  BY <1>4 DEF LinkRow, ConfigureCreate, ConfigureDerive, ReadSecret, Enrich
<1>5. CASE Activity(c) \/ ActivityTarget(c) \/ StoreRun(c)
  BY <1>5 DEF Activity, ActivityTarget, StoreRun
<1>6. CASE Purge(c) \/ RemoveRow(c)
  BY <1>6 DEF Purge, RemoveRow, DeleteRows, Shape, Ops
<1> QED BY <1>1, <1>2, <1>3, <1>4, <1>5, <1>6 DEF Mirror

\* A list has Fork Core's answer from its read on.
LEMMA ListBegins ==
  ASSUME TypeInv, NEW c \in Calls, Replay(c) \/ Remote(c) \/ Mirror(c) \/ Fail(c), Listing(c)'
  PROVE  \/ Listing(c) /\ listed'[c] = listed[c]
         \/ listed'[c] = Live /\ remote' = remote
<1>0. TypeOK /\ Shape
  BY DEF TypeInv
<1> USE <1>0 DEF TypeOK, Goto, End, Listing
<1>1. CASE Replay(c) \/ Fail(c)
  BY <1>1 DEF Replay, Ensure, Lookup, Reread, AnswerStored, RecordCreate, RecordDerive, Answer, Fail
<1>2. CASE Remote(c)
  BY <1>2 DEF Remote, RemoteMake, RemoteReplay, RemoteRefuse, RemoteRead, RemoteDelete, RemoteSimulate, Ops
<1>3. CASE \E e \in Envs : InsertRow(c, e)
  BY <1>3 DEF InsertRow
<1>4. CASE LinkRow(c) \/ ConfigureCreate(c) \/ ConfigureDerive(c) \/ ReadSecret(c) \/ Enrich(c)
  BY <1>4 DEF LinkRow, ConfigureCreate, ConfigureDerive, ReadSecret, Enrich
<1>5. CASE Activity(c) \/ ActivityTarget(c) \/ StoreRun(c)
  BY <1>5 DEF Activity, ActivityTarget, StoreRun
<1>6. CASE Purge(c) \/ RemoveRow(c)
  BY <1>6 DEF Purge, RemoveRow, DeleteRows, Shape
<1> QED BY <1>1, <1>2, <1>3, <1>4, <1>5, <1>6 DEF Mirror

\* What is on record was there before, or is what the call worked on.
LEMMA RecordBegins ==
  ASSUME TypeInv, Made, NEW c \in Calls, Replay(c) \/ Remote(c) \/ Mirror(c) \/ Fail(c),
         NEW s \in Slots, mutation'[s] # None
  PROVE  \/ mutation[s] # None /\ mutation'[s] = mutation[s]
         \/ Working(c) /\ mutation'[s].env = target[c]
<1>0. TypeOK /\ Shape
  BY DEF TypeInv
<1>1. CASE QuietStep(c)
  BY <1>1, Quiet
<1>2. CASE Answer(c)
  BY <1>2 DEF Answer
<1>3. CASE RecordCreate(c) \/ RecordDerive(c)
  <2>1. Working(c) /\ Entered(c).env = target[c] /\ Slot(c) \in Slots
    BY <1>0, <1>3, RequestFacts DEF TypeOK, RecordCreate, RecordDerive, Working, Made, Entered, Slot, Ops
  <2>2. mutation' = mutation \/ mutation' = [mutation EXCEPT ![Slot(c)] = Entered(c)]
    BY <1>3 DEF RecordCreate, RecordDerive
  <2> QED BY <1>0, <2>1, <2>2 DEF TypeOK
<1> QED BY <1>1, <1>2, <1>3 DEF Replay, QuietStep

LEMMA KeptStep == TypeInv /\ Made /\ Buried /\ Kept /\ [Next]_vars => Kept'
<1> SUFFICES ASSUME TypeInv, Made, Buried, Kept, [Next]_vars PROVE Kept' OBVIOUS
<1>0. TypeOK /\ Shape
  BY DEF TypeInv
<1>1. CASE UNCHANGED vars
  BY <1>1 DEF vars, Kept, Stays, Listing, Working, Live
<1>2. ASSUME NEW c \in Calls, Replay(c) \/ Remote(c) \/ Mirror(c) \/ Fail(c) PROVE Kept'
  <2>0. Moves(c)
    BY <1>2, OneMoves
  <2>1. ASSUME NEW d \in Calls, Listing(d)', NEW e \in Envs, remote'[e] = "live"
        PROVE  e \in listed'[d] \cup unlisted'
    <3>1. CASE Listing(d) /\ listed'[d] = listed[d]
      <4>1. CASE remote[e] = "live"
        BY <1>2, <3>1, <4>1, ForkCoreMoves DEF Kept, Live
      <4>2. CASE remote[e] # "live"
        BY <1>2, <2>1, <3>1, <4>2, ForkCoreMoves
      <4> QED BY <4>1, <4>2
    <3>2. CASE listed'[d] = Live /\ remote' = remote
      BY <2>1, <3>2 DEF Live
    <3>3. d # c => Listing(d) /\ listed'[d] = listed[d]
      BY <2>0, <2>1 DEF Moves, Listing
    <3> QED BY <1>2, <2>1, <3>1, <3>2, <3>3, ListBegins
  <2>2. ASSUME NEW s \in Slots, mutation'[s] # None PROVE \E e \in Envs : mutation'[s].env = e /\ Stays(e)'
    <3>1. CASE mutation[s] # None /\ mutation'[s] = mutation[s]
      <4>1. mutation[s].env \in Envs /\ Stays(mutation[s].env)
        BY <1>0, <3>1 DEF TypeOK, Record, Kept
      <4> QED BY <1>2, <3>1, <4>1, StaysOn
    <3>2. CASE Working(c) /\ mutation'[s].env = target[c]
      <4>1. target[c] \in Envs /\ Stays(target[c])
        BY <1>0, <3>2 DEF Working, Shape, Ops, Kept
      <4> QED BY <1>2, <3>2, <4>1, StaysOn
    <3> QED BY <1>2, <2>2, <3>1, <3>2, RecordBegins
  <2>3. ASSUME NEW d \in Calls, Working(d)' PROVE \E e \in Envs : target'[d] = e /\ Stays(e)'
    <3>1. CASE Working(d) /\ target'[d] = target[d]
      <4>1. target[d] \in Envs /\ Stays(target[d])
        BY <1>0, <3>1 DEF Working, Shape, Ops, Kept
      <4> QED BY <1>2, <3>1, <4>1, StaysOn
    <3>2. ASSUME NEW e \in Envs, InsertRow(c, e), target'[d] = e PROVE Stays(e)'
      <4>1. row'[e] # None
        BY <1>0, <3>2, NoneAssumption, MirrorAssumption DEF InsertRow, TypeOK, FreshRow, Row, Secrets
      <4>2. remote'[e] = remote[e] /\ remote[e] # "none"
        BY <1>0, <3>2 DEF InsertRow, Shape
      <4> QED BY <3>2, <4>1, <4>2 DEF Stays
    <3>3. d # c => Working(d) /\ target'[d] = target[d]
      BY <2>0, <2>3 DEF Moves, Working
    <3> QED BY <1>2, <2>3, <3>1, <3>2, <3>3, WorkBegins
  <2> QED BY <2>1, <2>2, <2>3 DEF Kept, Live, Stays
<1> QED BY <1>1, <1>2 DEF Next

\* An environment whose creation was answered and that Fork Core still has is
\* mirrored, or it was made while a list call held an older answer.
THEOREM AnsweredStays == Spec => []NothingLost
<1> DEFINE Inv == TypeInv /\ Agree /\ Made /\ Buried /\ Kept
<1>1. Init => Inv
  BY TypeInit, AgreeInit, MadeInit, BuriedInit, KeptInit
<1>2. Inv /\ [Next]_vars => Inv'
  BY TypeStep, AgreeStep, MadeStep, BuriedStep, KeptStep
<1>3. Inv => NothingLost
  <2> SUFFICES ASSUME Inv, NEW c \in Calls, pc[c] = "done", req[c].kind \in Ops, remote[reply[c].env] = "live"
               PROVE  reply[c].env \in Mirrored \/ reply[c].env \in unlisted
    BY DEF NothingLost, Answered, Ops, Live
  <2>1. mutation[Slot(c)] = Entered(c) /\ Slot(c) \in Slots /\ reply[c] \in Reply /\ req[c].arg \in Digests
    BY RequestFacts DEF Agree, Settled, Slot, TypeInv, TypeOK, Shape
  <2>2. Entered(c) \in Record /\ Entered(c).env = reply[c].env /\ reply[c].env \in Envs
    BY <2>1 DEF Entered, Record, Reply
  <2>3. Stays(reply[c].env)
    BY <2>1, <2>2, NoneAssumption DEF Kept
  <2> QED BY <2>2, <2>3 DEF Stays, Mirrored
<1> QED BY <1>1, <1>2, <1>3, PTL DEF Spec
=============================================================================
