---------------------------- MODULE AlertBuilder ----------------------------
(***************************************************************************)
(* The builder of an alert rule (AlertBuilderView of project-pages.tsx) and *)
(* the builders of storage keys in it (storage-key-builder.tsx), one for    *)
(* every condition on a contract's state.  The four steps of the builder    *)
(* are all mounted at once, so that the step which is open tells nothing.   *)
(*                                                                         *)
(* A key builder resolves the target's verification, loads the schema of   *)
(* its storage keys, encodes the key that is described, and writes it into *)
(* the parameters of the condition: four effects, each with its own        *)
(* answers.  AlertsPage is the page around it.                             *)
(***************************************************************************)
EXTENDS PageHost

CONSTANTS
    Watched,        \* addresses of contracts
    Destinations,   \* where a project's alerts may be sent to
    MaxConditions   \* bound: conditions of one rule

ASSUME WatchedAssumption == None \notin Watched
ASSUME MaxConditionsAssumption == MaxConditions \in Nat /\ MaxConditions >= 2

\* The first variant of a key needs nothing to be filled in, the second does.
Variants == {"bare", "keyed"}
\* the fields, the comparison and the threshold of a key, taken together
Entries == {"empty", "v"}

\* The parameters of a condition: as they were saved, a key of a contract, or
\* typed by hand, which may not be JSON.
Params(by) == [by |-> by, of |-> None, variant |-> None, entry |-> None]
KeyParams(b) == [by |-> "key", of |-> b.of, variant |-> b.variant, entry |-> b.entry]
Condition(type, params) == [type |-> type, params |-> params]

\* One mounted key builder.  of: the contract whose verification it resolved;
\* schema: of it; moved: its condition took the place of another one
Unmounted == [on |-> FALSE, of |-> None, failed |-> FALSE, loading |-> FALSE, variant |-> None, entry |-> "empty",
              built |-> Params("default"), moved |-> FALSE]
Mounted == [Unmounted EXCEPT !.on = TRUE]

BuilderCall(op, row) == [op |-> op, row |-> row, of |-> None, key |-> Params("default"), live |-> TRUE]
OfRow(W, op, i) == {r \in W : r.op = op /\ r.row = i}
\* the newest of their kind no longer count, but are not forgotten
Superseded(W, op, I) == {IF r.op = op /\ r.row \in I THEN [r EXCEPT !.live = FALSE] ELSE r : r \in W}

-----------------------------------------------------------------------------
(* The effects of the key builders, with the page and the calls             *)

Stage(p, W) == [p |-> p, W |-> W]
Address(p) == IF p.target \in Watched THEN p.target ELSE None

\* [verificationId, contractAddress], of the builders of rows I: nothing
\* resolves a second contract
Resolve(s, I) ==
    LET on == {i \in I : s.p.keys[i].on}
        open == {i \in on : s.p.keys[i].of = None /\ Address(s.p) # None}
    IN Stage(s.p, Superseded(s.W, "lookup", on) \cup {[BuilderCall("lookup", i) EXCEPT !.of = Address(s.p)] : i \in open})

\* Mutant: the answer to an older description still counts
EncodeAll(s, i) ==
    LET b == s.p.keys[i]
        ready == b.of # None /\ b.variant # None /\ (b.variant = "keyed" => b.entry # "empty")
    IN IF ready THEN Stage(s.p, s.W \cup {[BuilderCall("encode", i) EXCEPT !.key = KeyParams(b)]})
       ELSE Stage([s.p EXCEPT !.keys[i].built = Params("default")], s.W)
\* [verificationId, variantName, buildFields, operator, threshold]
Encode(s, i) ==
    LET b == s.p.keys[i]
        ready == b.of # None /\ b.variant # None /\ (b.variant = "keyed" => b.entry # "empty")
        rest == s.W \ OfRow(s.W, "encode", i)
    IN IF ready THEN Stage(s.p, rest \cup {[BuilderCall("encode", i) EXCEPT !.key = KeyParams(b)]})
       ELSE Stage([s.p EXCEPT !.keys[i].built = Params("default")], rest)

\* The rows I are now of the given types: their key builders stay, go, or are
\* mounted.
Mounts(s, I) ==
    LET wanted == {i \in I \cap DOMAIN s.p.rows : s.p.rows[i].type = "state_change"}
        fresh == {i \in wanted : ~s.p.keys[i].on}
        keys == [i \in DOMAIN s.p.keys |-> IF i \in I \ wanted THEN Unmounted ELSE IF i \in fresh THEN Mounted ELSE s.p.keys[i]]
    IN Resolve(Stage([s.p EXCEPT !.keys = keys], {r \in s.W : r.row \notin I \ wanted}), fresh)

Turns(s) == page' = s.p /\ wire' = s.W /\ UNCHANGED db
\* every edit counts as a call
UserTurns(s) == page.calls < MaxCalls /\ Turns(Stage([s.p EXCEPT !.calls = @ + 1], s.W))
AllRows == 1..MaxConditions

\* resetBuilder: a new rule, or the one to edit
BuilderInit ==
    /\ db = [destinations |-> Destinations]
    /\ \E edited \in BOOLEAN, target \in Watched, types \in {<<"state_change">>, <<"function_call", "state_change">>, <<"state_change", "state_change">>} :
         LET rows == IF edited THEN [i \in DOMAIN types |-> Condition(types[i], Params("saved"))]
                     ELSE <<Condition("failed_transaction", Params("default"))>>
             fresh == [at |-> "builder", named |-> edited, target |-> IF edited THEN target ELSE "project",
                       rows |-> rows, keys |-> [i \in AllRows |-> Unmounted], chosen |-> {}, offered |-> {},
                       busy |-> FALSE, left |-> FALSE, calls |-> 0]
             s == Mounts(Stage(fresh, {BuilderCall("destinations", 0)}), AllRows)
         IN page = s.p /\ wire = s.W

OnBuilder == page.at = "builder" /\ ~page.left

-----------------------------------------------------------------------------
(* The fields of the rule *)

NameRule == OnBuilder /\ ~page.named /\ Show([page EXCEPT !.named = TRUE])

\* The type and the value of the target; only a contract's address is looked up.
SetTarget(t) ==
    /\ OnBuilder /\ t # page.target
    /\ LET moved == Stage([page EXCEPT !.target = t], wire)
       IN UserTurns(Resolve(moved, AllRows))

\* of the first step, or in the list of conditions; the parameters stay
SetType(i, type) ==
    /\ OnBuilder /\ i <= Len(page.rows) /\ page.rows[i].type # type
    /\ UserTurns(Mounts(Stage([page EXCEPT !.rows[i].type = type], wire), {i}))

EditParams(i, by) ==
    /\ OnBuilder /\ i <= Len(page.rows)
    /\ UserTurns(Stage([page EXCEPT !.rows[i].params = Params(by)], wire))

AddCondition ==
    /\ OnBuilder /\ Len(page.rows) < MaxConditions
    /\ UserTurns(Stage([page EXCEPT !.rows = Append(@, Condition("event_emitted", Params("default")))], wire))

\* The rows are told apart by their place, so the key builders stay where they
\* are, and the conditions behind the removed one move up under them.
RemoveCondition(i) ==
    /\ OnBuilder /\ i <= Len(page.rows) /\ Len(page.rows) > 1
    /\ LET rows == [j \in 1..(Len(page.rows) - 1) |-> page.rows[IF j < i THEN j ELSE j + 1]]
           moved == [page EXCEPT !.rows = rows, !.keys = [j \in AllRows |-> [page.keys[j] EXCEPT !.moved = @ \/ j >= i]]]
       IN UserTurns(Mounts(Stage(moved, wire), AllRows))

DestinationsArrive(r, heard) ==
    /\ r \in wire /\ r.op = "destinations"
    /\ Then(IF heard THEN [page EXCEPT !.offered = db.destinations] ELSE page, r, {})
RefreshDestinations == OnBuilder /\ ~InFlight({"destinations"}) /\ Call(page, BuilderCall("destinations", 0))
ToggleDestination(d) ==
    /\ OnBuilder /\ d \in page.offered /\ ~InFlight({"destinations"})
    /\ Show([page EXCEPT !.chosen = IF d \in @ THEN @ \ {d} ELSE @ \cup {d}])

LeaveAlertBuilder == OnBuilder /\ page' = [page EXCEPT !.left = TRUE] /\ wire' = {} /\ UNCHANGED db

\* Parameters that are not JSON keep the rule from being sent.  The rule may be
\* edited further until the answer closes the builder.
SaveAlert ==
    /\ OnBuilder /\ page.named /\ ~page.busy
    /\ \A i \in DOMAIN page.rows : page.rows[i].params.by # "broken"
    /\ Call([page EXCEPT !.busy = TRUE], BuilderCall("save", 0))
AlertSaved(r, heard) ==
    /\ r \in wire /\ r.op = "save"
    /\ IF heard THEN page' = [page EXCEPT !.left = TRUE] /\ wire' = {} /\ UNCHANGED db
       ELSE Then([page EXCEPT !.busy = FALSE], r, {})

-----------------------------------------------------------------------------
(* The key builder *)

\* A verification that is found counts even if the target is another by now,
\* and so does one that is missing; an error does not.
LookupArrives(r, outcome) ==
    /\ r \in wire /\ r.op = "lookup"
    /\ LET i == r.row
           b == page.keys[i]
           rest == wire \ {r}
       IN CASE outcome = "verified" /\ b.of # r.of ->
                 LET found == Stage([page EXCEPT !.keys[i].of = r.of, !.keys[i].loading = TRUE],
                                     (rest \ OfRow(rest, "schema", i)) \cup {[BuilderCall("schema", i) EXCEPT !.of = r.of]})
                 IN Turns(Encode(Resolve(found, {i}), i))
            [] outcome = "unverified" \/ (outcome = "error" /\ r.live) -> Turns(Stage([page EXCEPT !.keys[i].failed = TRUE], rest))
            [] OTHER -> Turns(Stage(page, rest))

\* The first variant is described already, and encoded if it needs nothing more.
SchemaArrives(r, heard, first) ==
    /\ r \in wire /\ r.op = "schema"
    /\ LET i == r.row
           idle == [page EXCEPT !.keys[i].loading = FALSE]
       IN IF heard THEN Turns(Encode(Stage([idle EXCEPT !.keys[i].variant = first, !.keys[i].entry = "empty"], wire \ {r}), i))
          ELSE Turns(Stage(idle, wire \ {r}))

Usable(b) == b.on /\ ~b.failed /\ b.of # None /\ ~b.loading /\ b.variant # None
ChooseVariant(i, v) ==
    /\ OnBuilder /\ Usable(page.keys[i]) /\ v # page.keys[i].variant
    /\ UserTurns(Encode(Stage([page EXCEPT !.keys[i].variant = v, !.keys[i].entry = "empty"], wire), i))
EnterKey(i, e) ==
    /\ OnBuilder /\ Usable(page.keys[i]) /\ e # page.keys[i].entry
    /\ UserTurns(Encode(Stage([page EXCEPT !.keys[i].entry = e], wire), i))

\* The key goes to the condition in that place.
KeyArrives(r, heard) ==
    /\ r \in wire /\ r.op = "encode"
    /\ Then(IF heard THEN [page EXCEPT !.keys[r.row].built = r.key, !.rows[r.row].params = r.key]
            ELSE [page EXCEPT !.keys[r.row].built = Params("default")], r, {})

BuilderNext ==
    /\ page.at = "builder"
    /\ \/ NameRule \/ AddCondition \/ LeaveAlertBuilder \/ SaveAlert \/ RefreshDestinations
       \/ \E t \in Sought \cup {"project"} : SetTarget(t)
       \/ \E d \in Destinations : ToggleDestination(d)
       \/ \E i \in AllRows :
            \/ \E type \in {"state_change", "function_call"} : SetType(i, type)
            \/ \E by \in {"typed", "broken"} : EditParams(i, by)
            \/ \E v \in Variants : ChooseVariant(i, v)
            \/ \E e \in Entries : EnterKey(i, e)
            \/ RemoveCondition(i)
       \/ \E r \in wire :
            \/ \E outcome \in {"verified", "unverified", "error"} : LookupArrives(r, outcome)
            \/ \E heard \in BOOLEAN :
                 \/ DestinationsArrive(r, heard) \/ AlertSaved(r, heard) \/ KeyArrives(r, heard)
                 \/ \E first \in Variants \cup {None} : SchemaArrives(r, heard, first)

-----------------------------------------------------------------------------
(* Properties *)

BuilderTypeOK == page.at = "builder" =>
    /\ Len(page.rows) \in 1..MaxConditions /\ page.target \in Watched \cup {"project"}
    /\ page.chosen \subseteq Destinations

\* The condition that is saved is the key its builder shows, whatever order the
\* encodings are answered in, once the last one is, unless it was typed over by
\* hand or moved up under another builder.
ConditionsAgree == page.at = "builder" =>
    \A i \in AllRows :
        LET b == page.keys[i]
        IN b.on /\ ~page.left /\ b.built.by = "key" /\ OfRow(wire, "encode", i) = {} =>
             b.moved \/ page.rows[i].params.by \in {"typed", "broken"} \/ page.rows[i].params = KeyParams(b)

\* A key builder waits for its verification or its schema only while the call
\* that will bring it is on its way.
KeysGoOn == page.at = "builder" =>
    \A i \in AllRows :
        LET b == page.keys[i]
        IN b.on /\ ~page.left =>
             /\ b.of = None /\ ~b.failed /\ Address(page) # None => OfRow(wire, "lookup", i) # {}
             /\ b.loading => OfRow(wire, "schema", i) # {}
=============================================================================
