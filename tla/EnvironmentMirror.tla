--------------------------- MODULE EnvironmentMirror ---------------------------
(***************************************************************************)
(* The environment handlers of api/src/environments.rs.  Fork Core owns    *)
(* the environments; fork_environments mirrors them, project by project,   *)
(* and adds what only the API knows: the admin secret and the slug.  Each  *)
(* handler calls Fork Core and then writes the mirror, one autocommitted   *)
(* statement after the other, so handlers of concurrent requests may run   *)
(* between any two.  A statement may fail and a process may die there too. *)
(*                                                                         *)
(* A call is one HTTP request; its parameters are fixed in Init and it     *)
(* runs when it takes its first step.  One project is modelled.            *)
(***************************************************************************)
EXTENDS Naturals, FiniteSets

CONSTANTS
  Calls,      \* requests; a call also names the admin secret it generates
  Kinds,      \* the handlers the requests may address
  Envs,       \* environment ids Fork Core can hand out
  Existing,   \* environments made and mirrored before the calls
  Keys,       \* Idempotency-Key values
  Slugs,      \* rpc_slug values
  Taken,      \* the rpc_slug of the existing environments' rows, or None
  None,       \* SQL NULL, or no such thing
  Generated,  \* the gen_random_uuid() secret of a freshly mirrored row
  MaxFaults   \* bound: failed statements, lost answers and crashes

ASSUME MirrorAssumption ==
  /\ Kinds \subseteq {"create", "derive", "get", "list", "delete", "simulate"}
  /\ Existing \subseteq Envs
  /\ None \notin Envs \cup Slugs \cup Keys \cup Calls
  /\ Generated \notin Calls \cup {None}
  /\ Taken \in Slugs \cup {None}
  /\ MaxFaults \in Nat

VARIABLES
  remote,    \* Fork Core: the state of each environment
  origin,    \* Fork Core: the environment it was derived from
  made,      \* Fork Core: the environment made under an operation and key
  row,       \* fork_environments
  sims,      \* the environments simulation_runs rows refer to
  mutation,  \* environment_mutations, by operation and idempotency key
  req,       \* the parameters of each call
  pc,        \* where each call is in its handler
  todo,      \* environments of Fork Core's answer still to be upserted
  listed,    \* the environments a list call got from Fork Core
  target,    \* the environment the call is writing
  reply,     \* what a create, fork or clone answers: environment and secret
  wiped,     \* history: environments whose row was deleted at some time
  held,      \* history: deleted while a call still had it in todo
  unlisted,  \* history: made while a list call had its answer already
  faults     \* failures so far

forkCore == <<remote, origin, made>>
tables   == <<row, sims, mutation>>
locals   == <<todo, listed, target>>
history  == <<wiped, held, unlisted, faults>>
vars     == <<remote, origin, made, row, sims, mutation, req, pc, todo, listed,
              target, reply, wiped, held, unlisted, faults>>

Ops      == {"create", "derive"}   \* fork and clone are one handler with two names
Slots    == Ops \X Keys
Secrets  == Calls \cup {Generated}
Row      == [secret : Secrets, slug : Slugs \cup {None}, source : Envs \cup {None}]
Reply    == [env : Envs, secret : Secrets]
Digests  == Slugs \cup Envs \cup {None}
Record   == [digest : Digests, env : Envs, secret : Secrets]
Ended    == {"done", "failed"}     \* answered with a 2xx, or with an error or not at all
Steps    == {"ensure", "lookup", "remote", "insert", "link", "configure", "secret", "enrich",
             "activity", "target", "record", "reread", "reply", "purge", "remove", "store"}

\* None is none of the values it stands in for.
ASSUME NoneAssumption == None \notin Row \cup Reply \cup Record

Requests ==
  { r \in
      [kind : {"create"}, key : Keys, arg : Slugs \cup {None}]
      \cup [kind : {"derive"}, key : Keys, arg : Envs]
      \cup [kind : {"get", "delete", "simulate"}, key : {None}, arg : Envs]
      \cup [kind : {"list"}, key : {None}, arg : {None}]
    : r.kind \in Kinds }

\* The first thing a handler does.
Entry(kind) == CASE kind = "create" -> "lookup"
                 [] kind = "derive" -> "ensure"
                 [] OTHER           -> "remote"

\* A row as persist_environment first inserts it.
FreshRow == [secret |-> Generated, slug |-> None, source |-> None]

Init ==
  /\ remote = [e \in Envs |-> IF e \in Existing THEN "live" ELSE "none"]
  /\ origin = [e \in Envs |-> None]
  /\ made = [s \in Slots |-> None]
  /\ row = [e \in Envs |-> IF e \in Existing THEN [FreshRow EXCEPT !.slug = Taken] ELSE None]
  /\ sims = {}
  /\ mutation = [s \in Slots |-> None]
  /\ req \in [Calls -> Requests]
  /\ pc = [c \in Calls |-> Entry(req[c].kind)]
  /\ todo = [c \in Calls |-> {}]
  /\ listed = [c \in Calls |-> {}]
  /\ target = [c \in Calls |-> None]
  /\ reply = [c \in Calls |-> None]
  /\ wiped = {}
  /\ held = {}
  /\ unlisted = {}
  /\ faults = 0

Slot(c)   == <<req[c].kind, req[c].key>>
Mirrored  == {e \in Envs : row[e] # None}
Live      == {e \in Envs : remote[e] = "live"}

\* What keeps the rows of D from being deleted in one statement: a simulation
\* run (no ON DELETE), or a derived row that stays (ON DELETE RESTRICT).
Referenced(D) ==
  \/ D \cap sims # {}
  \/ \E f \in Mirrored \ D : row[f].source \in D

Goto(c, step) ==
  /\ pc' = [pc EXCEPT ![c] = step]
  /\ UNCHANGED locals

\* The handler returns; what it held is gone.
End(c, how) ==
  /\ pc' = [pc EXCEPT ![c] = how]
  /\ todo' = [todo EXCEPT ![c] = {}]
  /\ listed' = [listed EXCEPT ![c] = {}]
  /\ target' = [target EXCEPT ![c] = None]

-----------------------------------------------------------------------------
(* Idempotency: the environment_mutations table. *)

\* ensure_environment: the source of a fork or clone is mirrored.
Ensure(c) ==
  /\ pc[c] = "ensure"
  /\ IF req[c].arg \in Mirrored THEN Goto(c, "lookup") ELSE End(c, "failed")
  /\ UNCHANGED <<forkCore, tables, req, reply, history>>

\* The stored result answers a repeated request; other input is a conflict.
AnswerStored(c) ==
  LET m == mutation[Slot(c)] IN
  IF m.digest = req[c].arg
  THEN /\ reply' = [reply EXCEPT ![c] = [env |-> m.env, secret |-> m.secret]]
       /\ Goto(c, "reply")
  ELSE End(c, "failed") /\ UNCHANGED reply

Lookup(c) ==
  /\ pc[c] = "lookup"
  /\ IF mutation[Slot(c)] = None
     THEN Goto(c, "remote") /\ UNCHANGED reply
     ELSE AnswerStored(c)
  /\ UNCHANGED <<forkCore, tables, req, history>>

Entered(c) == [digest |-> req[c].arg, env |-> reply[c].env, secret |-> reply[c].secret]

\* Mutant: the INSERT of a create gets an ON CONFLICT DO NOTHING.
RecordCreateAnyway(c) ==
  /\ pc[c] = "record" /\ req[c].kind = "create"
  /\ mutation' = [mutation EXCEPT ![Slot(c)] = IF @ = None THEN Entered(c) ELSE @]
  /\ Goto(c, "reply")
  /\ UNCHANGED <<forkCore, row, sims, req, reply, history>>

\* create: a plain INSERT, which fails on the primary key.
RecordCreate(c) ==
  /\ pc[c] = "record" /\ req[c].kind = "create"
  /\ IF mutation[Slot(c)] = None
     THEN /\ mutation' = [mutation EXCEPT ![Slot(c)] = Entered(c)]
          /\ Goto(c, "reply")
     ELSE /\ End(c, "failed")
          /\ UNCHANGED mutation
  /\ UNCHANGED <<forkCore, row, sims, req, reply, history>>

\* fork and clone: ON CONFLICT DO NOTHING, and on a conflict look again.
RecordDerive(c) ==
  /\ pc[c] = "record" /\ req[c].kind = "derive"
  /\ IF mutation[Slot(c)] = None
     THEN /\ mutation' = [mutation EXCEPT ![Slot(c)] = Entered(c)]
          /\ Goto(c, "activity")
     ELSE /\ Goto(c, "reread")
          /\ UNCHANGED mutation
  /\ UNCHANGED <<forkCore, row, sims, req, reply, history>>

Reread(c) ==
  /\ pc[c] = "reread"
  /\ AnswerStored(c)
  /\ UNCHANGED <<forkCore, tables, req, history>>

\* The response reaches the client.
Answer(c) ==
  /\ pc[c] = "reply"
  /\ End(c, "done")
  /\ UNCHANGED <<forkCore, tables, req, reply, history>>

-----------------------------------------------------------------------------
(* Calls of Fork Core. *)

\* The environment a create or derive call asks to start from.
AskedOrigin(c) == IF req[c].kind = "derive" THEN req[c].arg ELSE None

\* A list call has Fork Core's answer and has not applied all of it.
ListOutstanding ==
  \E d \in Calls : req[d].kind = "list" /\ pc[d] \in {"insert", "link", "purge"}

RemoteMake(c, e) ==
  /\ pc[c] = "remote" /\ req[c].kind \in Ops
  /\ made[Slot(c)] = None
  /\ remote[e] = "none"
  /\ AskedOrigin(c) \in Live \cup {None}
  /\ remote' = [remote EXCEPT ![e] = "live"]
  /\ origin' = [origin EXCEPT ![e] = AskedOrigin(c)]
  /\ made' = [made EXCEPT ![Slot(c)] = e]
  /\ pc' = [pc EXCEPT ![c] = "insert"]
  /\ todo' = [todo EXCEPT ![c] = {e}]
  /\ unlisted' = IF ListOutstanding THEN unlisted \cup {e} ELSE unlisted
  /\ UNCHANGED <<tables, req, listed, target, reply, wiped, held, faults>>

\* Fork Core knows the key: it answers with the environment it made then.
RemoteReplay(c) ==
  LET e == made[Slot(c)] IN
  /\ pc[c] = "remote" /\ req[c].kind \in Ops
  /\ e \in Live
  /\ origin[e] = AskedOrigin(c)
  /\ pc' = [pc EXCEPT ![c] = "insert"]
  /\ todo' = [todo EXCEPT ![c] = {e}]
  /\ UNCHANGED <<forkCore, tables, req, listed, target, reply, history>>

\* An environment Fork Core does not have (any more), or a key it knows from
\* another request.
RemoteRefuse(c) ==
  /\ pc[c] = "remote"
  /\ \/ req[c].kind \in {"get", "delete", "simulate"} /\ req[c].arg \notin Live
     \/ /\ req[c].kind \in Ops
        /\ IF made[Slot(c)] = None
           THEN AskedOrigin(c) \notin Live \cup {None}
           ELSE \/ made[Slot(c)] \notin Live
                \/ origin[made[Slot(c)]] # AskedOrigin(c)
  /\ End(c, "failed")
  /\ UNCHANGED <<forkCore, tables, req, reply, history>>

\* Mutant: a list call reads one page of one environment.
RemoteReadPage(c) ==
  /\ pc[c] = "remote" /\ req[c].kind = "list"
  /\ \E e \in Live :
       /\ todo' = [todo EXCEPT ![c] = {e}]
       /\ listed' = [listed EXCEPT ![c] = {e}]
  /\ pc' = [pc EXCEPT ![c] = "insert"]
  /\ UNCHANGED <<forkCore, tables, req, target, reply, history>>

\* get_environment and list_environments: the answer is a copy.
RemoteRead(c) ==
  LET found == IF req[c].kind = "list" THEN Live ELSE {req[c].arg} IN
  /\ pc[c] = "remote" /\ req[c].kind \in {"get", "list"}
  /\ found \subseteq Live
  /\ todo' = [todo EXCEPT ![c] = found]
  /\ listed' = [listed EXCEPT ![c] = found]
  /\ pc' = [pc EXCEPT ![c] = IF found = {} THEN "purge" ELSE "insert"]
  /\ UNCHANGED <<forkCore, tables, req, target, reply, history>>

RemoteDelete(c) ==
  LET e == req[c].arg IN
  /\ pc[c] = "remote" /\ req[c].kind = "delete"
  /\ e \in Live
  /\ remote' = [remote EXCEPT ![e] = "gone"]
  /\ held' = IF \E d \in Calls : e \in todo[d] THEN held \cup {e} ELSE held
  /\ Goto(c, "remove")
  /\ UNCHANGED <<origin, made, tables, req, reply, wiped, unlisted, faults>>

RemoteSimulate(c) ==
  /\ pc[c] = "remote" /\ req[c].kind = "simulate"
  /\ req[c].arg \in Live
  /\ Goto(c, "store")
  /\ UNCHANGED <<forkCore, tables, req, reply, history>>

-----------------------------------------------------------------------------
(* The mirror: the fork_environments table. *)

\* What follows once the environments in rest are still to be upserted.
Upserted(c, rest) ==
  IF rest # {} THEN "insert"
  ELSE CASE req[c].kind \in Ops   -> "configure"
         [] req[c].kind = "list"  -> "purge"
         [] OTHER                 -> "enrich"

\* persist_environment, first statement: INSERT ... ON CONFLICT DO UPDATE; the
\* columns that only the API knows keep their values.
InsertRow(c, e) ==
  LET rest == todo[c] \ {e} IN
  /\ pc[c] = "insert"
  /\ e \in todo[c]
  /\ row' = [row EXCEPT ![e] = IF @ = None THEN FreshRow ELSE @]
  /\ todo' = [todo EXCEPT ![c] = rest]
  /\ target' = [target EXCEPT ![c] = e]
  /\ pc' = [pc EXCEPT ![c] = IF origin[e] = None THEN Upserted(c, rest) ELSE "link"]
  /\ UNCHANGED <<forkCore, sims, mutation, req, listed, reply, history>>

\* persist_environment, second statement: source_environment_id, a foreign key
\* to a row that may not be there; no row of its own, nothing to update.
LinkRow(c) ==
  LET e == target[c] IN
  /\ pc[c] = "link"
  /\ \/ /\ row[e] = None
        /\ Goto(c, Upserted(c, todo[c]))
        /\ UNCHANGED row
     \/ /\ row[e] # None
        /\ row[origin[e]] # None
        /\ row' = [row EXCEPT ![e].source = origin[e]]
        /\ Goto(c, Upserted(c, todo[c]))
     \/ /\ row[e] # None
        /\ row[origin[e]] = None
        /\ End(c, "failed")
        /\ UNCHANGED row
  /\ UNCHANGED <<forkCore, sims, mutation, req, reply, history>>

\* The slug is another row's: uq_fork_environments_rpc_slug.
SlugTaken(c) ==
  /\ req[c].arg # None
  /\ \E f \in Mirrored \ {target[c]} : row[f].slug = req[c].arg

\* create: the secret and the slug of this request, whatever the row had; an
\* UPDATE that finds no row is no error.
ConfigureCreate(c) ==
  LET e == target[c] IN
  /\ pc[c] = "configure" /\ req[c].kind = "create"
  /\ IF row[e] # None /\ SlugTaken(c)
     THEN End(c, "failed") /\ UNCHANGED <<row, reply>>
     ELSE /\ row' = [row EXCEPT ![e] =
               IF @ = None THEN @
               ELSE [secret |-> c, slug |-> req[c].arg, source |-> @.source]]
          /\ reply' = [reply EXCEPT ![c] = [env |-> e, secret |-> c]]
          /\ Goto(c, "enrich")
  /\ UNCHANGED <<forkCore, sims, mutation, req, history>>

\* Mutant: fork and clone write their secret whatever the row has.
ConfigureDeriveAnyway(c) ==
  LET e == target[c] IN
  /\ pc[c] = "configure" /\ req[c].kind = "derive"
  /\ row' = [row EXCEPT ![e] =
       IF @ = None THEN @ ELSE [secret |-> c, slug |-> None, source |-> @.source]]
  /\ Goto(c, "secret")
  /\ UNCHANGED <<forkCore, sims, mutation, req, reply, history>>

\* fork and clone: WHERE rpc_admin_secret_hash IS NULL, so only the first one
\* gives the row its secret.
ConfigureDerive(c) ==
  LET e == target[c] IN
  /\ pc[c] = "configure" /\ req[c].kind = "derive"
  /\ row' = [row EXCEPT ![e] =
       IF @ = None \/ @.secret # Generated THEN @
       ELSE [secret |-> c, slug |-> None, source |-> @.source]]
  /\ Goto(c, "secret")
  /\ UNCHANGED <<forkCore, sims, mutation, req, reply, history>>

\* Mutant: fetch_optional, and an answer without a secret.
ReadSecretOptional(c) ==
  LET e == target[c] IN
  /\ pc[c] = "secret"
  /\ reply' = [reply EXCEPT ![c] =
       [env |-> e, secret |-> IF row[e] = None THEN None ELSE row[e].secret]]
  /\ Goto(c, "enrich")
  /\ UNCHANGED <<forkCore, tables, req, history>>

\* fork and clone: SELECT rpc_admin_secret, fetch_one.
ReadSecret(c) ==
  LET e == target[c] IN
  /\ pc[c] = "secret"
  /\ IF row[e] = None
     THEN End(c, "failed") /\ UNCHANGED reply
     ELSE /\ reply' = [reply EXCEPT ![c] = [env |-> e, secret |-> row[e].secret]]
          /\ Goto(c, "enrich")
  /\ UNCHANGED <<forkCore, tables, req, history>>

\* enrich_environment of each environment of the answer: 404 without its row.
Enrich(c) ==
  LET answered == IF req[c].kind = "list" THEN listed[c] ELSE {target[c]} IN
  /\ pc[c] = "enrich"
  /\ IF answered \subseteq Mirrored
     THEN CASE req[c].kind = "create" -> Goto(c, "activity")
            [] req[c].kind = "derive" -> Goto(c, "record")
            [] OTHER                  -> End(c, "done")
     ELSE End(c, "failed")
  /\ UNCHANGED <<forkCore, tables, req, reply, history>>

\* record_activity: a foreign key to the environment's row.  create records its
\* target's activity, fork and clone first their source's.
Activity(c) ==
  LET e == IF req[c].kind = "create" THEN target[c] ELSE req[c].arg IN
  /\ pc[c] = "activity"
  /\ IF e \in Mirrored
     THEN Goto(c, IF req[c].kind = "create" THEN "record" ELSE "target")
     ELSE End(c, "failed")
  /\ UNCHANGED <<forkCore, tables, req, reply, history>>

ActivityTarget(c) ==
  /\ pc[c] = "target"
  /\ IF target[c] \in Mirrored THEN Goto(c, "reply") ELSE End(c, "failed")
  /\ UNCHANGED <<forkCore, tables, req, reply, history>>

\* Delete the rows of D, or fail and delete none.
DeleteRows(c, D, next) ==
  /\ IF Referenced(D)
     THEN End(c, "failed") /\ UNCHANGED <<row, wiped>>
     ELSE /\ row' = [e \in Envs |-> IF e \in D THEN None ELSE row[e]]
          /\ wiped' = wiped \cup D
          /\ IF next = "done" THEN End(c, "done") ELSE Goto(c, next)
  /\ UNCHANGED <<forkCore, sims, mutation, req, reply, held, unlisted, faults>>

\* persist_environment_list: rows that Fork Core's answer did not have.
Purge(c) ==
  /\ pc[c] = "purge"
  /\ DeleteRows(c, Mirrored \ listed[c], "enrich")

\* Mutant: a row that something refers to is left behind quietly.
RemoveRowQuietly(c) ==
  /\ pc[c] = "remove"
  /\ IF Referenced({req[c].arg})
     THEN End(c, "done") /\ UNCHANGED <<row, wiped>>
     ELSE /\ row' = [row EXCEPT ![req[c].arg] = None]
          /\ wiped' = wiped \cup {req[c].arg}
          /\ End(c, "done")
  /\ UNCHANGED <<forkCore, sims, mutation, req, reply, held, unlisted, faults>>

\* delete_environment, after Fork Core's answer.
RemoveRow(c) ==
  /\ pc[c] = "remove"
  /\ DeleteRows(c, Mirrored \cap {req[c].arg}, "done")

\* environment_simulate, after Fork Core's answer: simulation_runs refers to
\* the environment's row.
StoreRun(c) ==
  /\ pc[c] = "store"
  /\ IF req[c].arg \in Mirrored
     THEN sims' = sims \cup {req[c].arg} /\ End(c, "done")
     ELSE End(c, "failed") /\ UNCHANGED sims
  /\ UNCHANGED <<forkCore, row, mutation, req, reply, history>>

\* A statement fails, Fork Core's answer or the client's response is lost, or
\* the process dies: what was done stays.
Fail(c) ==
  /\ pc[c] \notin Ended
  /\ faults < MaxFaults
  /\ faults' = faults + 1
  /\ End(c, "failed")
  /\ UNCHANGED <<forkCore, tables, req, reply, wiped, held, unlisted>>

Replay(c) == Ensure(c) \/ Lookup(c) \/ RecordCreate(c) \/ RecordDerive(c) \/ Reread(c) \/ Answer(c)

Remote(c) ==
  \/ \E e \in Envs : RemoteMake(c, e)
  \/ RemoteReplay(c) \/ RemoteRefuse(c) \/ RemoteRead(c) \/ RemoteDelete(c) \/ RemoteSimulate(c)

Mirror(c) ==
  \/ \E e \in Envs : InsertRow(c, e)
  \/ LinkRow(c) \/ ConfigureCreate(c) \/ ConfigureDerive(c) \/ ReadSecret(c) \/ Enrich(c)
  \/ Activity(c) \/ ActivityTarget(c) \/ Purge(c) \/ RemoveRow(c) \/ StoreRun(c)

Next == \E c \in Calls : Replay(c) \/ Remote(c) \/ Mirror(c) \/ Fail(c)

Spec == Init /\ [][Next]_vars
-----------------------------------------------------------------------------
\* Every variable holds a value of its column, of Fork Core's or of a local of
\* a handler.
TypeOK ==
  /\ remote \in [Envs -> {"none", "live", "gone"}]
  /\ origin \in [Envs -> Envs \cup {None}]
  /\ made \in [Slots -> Envs \cup {None}]
  /\ row \in [Envs -> Row \cup {None}]
  /\ sims \in SUBSET Envs
  /\ mutation \in [Slots -> Record \cup {None}]
  /\ req \in [Calls -> Requests]
  /\ pc \in [Calls -> Steps \cup Ended]
  /\ todo \in [Calls -> SUBSET Envs]
  /\ listed \in [Calls -> SUBSET Envs]
  /\ target \in [Calls -> Envs \cup {None}]
  /\ reply \in [Calls -> Reply \cup {None}]
  /\ wiped \in SUBSET Envs
  /\ held \in SUBSET Envs
  /\ unlisted \in SUBSET Envs
  /\ faults \in 0..MaxFaults

\* The calls that were answered with an environment they made.
Answered(op) == {c \in Calls : pc[c] = "done" /\ req[c].kind = op}

\* The admin secret in the answer to a fork or clone is the row's, however
\* many requests under its key or others run, fail and repeat, as long as the
\* row was not deleted in between (then the next upsert makes up a secret).
DerivedSecretWorks ==
  \A c \in Answered("derive") :
    LET e == reply[c].env IN
    e \in Mirrored /\ e \notin wiped => row[e].secret = reply[c].secret

\* An environment whose creation was answered and that Fork Core still has is
\* mirrored, or it was made while a list call held an older answer: the purge
\* of a list never takes away an environment that was there when it asked.
NothingLost ==
  \A c \in Answered("create") \cup Answered("derive") :
    LET e == reply[c].env IN
    e \in Live => e \in Mirrored \/ e \in unlisted

\* After a delete that succeeded the environment's row is gone for good, unless
\* a call that had read Fork Core before the deletion was still to upsert it.
NothingHaunts ==
  \A c \in Calls :
    pc[c] = "done" /\ req[c].kind = "delete" /\ req[c].arg \in Mirrored => req[c].arg \in held

\* What an idempotency key promises (module MutationPromise).
Results == Record
Given == [s \in Slots |-> {[digest |-> req[c].arg, env |-> reply[c].env, secret |-> reply[c].secret]
                             : c \in {d \in Calls : pc[d] = "done" /\ req[d].kind \in Ops /\ Slot(d) = s}}]

Promise == INSTANCE MutationPromise WITH recorded <- mutation, answered <- Given

\* Every answer under an idempotency key is the one recorded first, for the
\* same input, whichever requests race to make and record it.
PromiseSpec == Promise!Spec
=============================================================================
