--------------------------- MODULE SimulationForm ---------------------------
(***************************************************************************)
(* The inputs of a simulation (SimulatorPage of project-pages.tsx, its      *)
(* editor).  Much of the form is read from the server for what the rest of *)
(* it says: the targets that match, the sequence number of the source      *)
(* account, the entries and the functions of the contract.  Each of these  *)
(* readings is an effect: it begins again when an input it depends on      *)
(* changes, and its clean-up disowns the call that is on its way, whose     *)
(* answer then changes nothing.                                            *)
(*                                                                         *)
(* Nothing the server stores changes here, so an answer is one the page    *)
(* hears or does not.  What becomes of the simulation is in SimulationRuns.*)
(***************************************************************************)
EXTENDS PageHost

CONSTANTS
    Contracts,    \* addresses of contracts
    Networks,     \* the public networks
    Functions,    \* names of functions
    Filled        \* bound: what is filled in of the fields that nothing else depends on

\* the only virtual network of the project, a fork of a public one
Fork == "fork"

Reading == {"target", "sequence", "entries", "spec"}

\* net, env: the state that is read
FormCall(op, of, net, env) == [op |-> op, of |-> of, net |-> net, env |-> env, seq |-> {}, params |-> None]

Functionality(of, net, env, fns) == [of |-> of, net |-> net, env |-> env, functions |-> fns]
NoSpec == Functionality(None, None, None, {})

-----------------------------------------------------------------------------
(* What the inputs amount to *)

RequestNetwork(p) ==
    IF p.mode = "environment" /\ p.loaded THEN p.forked ELSE p.net

\* the virtual network that is read, if any
ReadEnvironment(p) == IF p.mode = "environment" THEN p.env ELSE None
Where(p) == [net |-> RequestNetwork(p), env |-> ReadEnvironment(p)]

\* The server has suggested what is in the target field as a contract.
ConfirmedTarget(p) == p.target # None /\ p.suggested = p.target

\* the functions in the menu: of the contract, and the one that is chosen
FunctionOptions(p) ==
    IF ConfirmedTarget(p) THEN p.spec.functions \cup ({p.fn} \ {None}) ELSE {}
SelectedFunction(p) == p.fn # None /\ p.fn \in p.spec.functions

\* Reading them has failed.
FunctionsUnknown(p) == ConfirmedTarget(p) /\ p.spec = NoSpec /\ ~p.specLoading

\* The loaded list of virtual networks is a set with Fork; the first of them
\* is chosen unless one is.
FormMounted(q) == [at |-> "form", mode |-> q.mode, net |-> q.net, forked |-> q.forked, loaded |-> FALSE,
    env |-> IF q.mode = "environment" THEN Fork ELSE None,
    target |-> q.target, fn |-> q.fn, source |-> FALSE, args |-> "decoded",
    suggested |-> None, seq |-> {}, seqLoading |-> FALSE, entries |-> {}, entry |-> None,
    spec |-> NoSpec, specLoading |-> FALSE, params |-> None, cache |-> {},
    loading |-> FALSE, calls |-> 0]

-----------------------------------------------------------------------------
(* The effects: what a change of the inputs, from page to p, sets off *)

\* Mutant: the clean-up of an effect is forgotten
DisownNothing(W, op) == W

Disown(W, op) == {r \in W : r.op # op}
FormRead(p, op, of) == FormCall(op, of, RequestNetwork(p), ReadEnvironment(p))

\* Whatever matched before is forgotten before what matches now is known.
LookupTarget(old, p, W) ==
    IF <<old.target, RequestNetwork(old)>> = <<p.target, RequestNetwork(p)>> THEN [page |-> p, wire |-> W]
    ELSE [page |-> [p EXCEPT !.suggested = None],
          wire |-> Disown(W, "target") \cup
                   (IF p.target = None THEN {} ELSE {FormCall("target", p.target, RequestNetwork(p), None)})]

SequenceInputs(p) == <<p.args, p.env, RequestNetwork(p), p.source, p.mode>>
ReadSequence(old, s) ==
    LET p == s.page
        none == p.args = "raw" \/ p.mode = "ledger" \/ ~p.source
    IN IF SequenceInputs(old) = SequenceInputs(p) THEN s
       ELSE [page |-> [p EXCEPT !.seq = {}, !.seqLoading = ~none],
             wire |-> Disown(s.wire, "sequence") \cup (IF none THEN {} ELSE {FormRead(p, "sequence", None)})]

\* What was read of another contract stays until the answer; that the notice
\* of the reading may stay for ever is left out.
EntriesInputs(p) == <<p.target, p.env, RequestNetwork(p), p.mode>>
ReadEntries(old, s) ==
    LET p == s.page
    IN IF EntriesInputs(old) = EntriesInputs(p) THEN s
       ELSE [page |-> IF p.target = None THEN [p EXCEPT !.entries = {}, !.entry = None] ELSE p,
             wire |-> Disown(s.wire, "entries") \cup
                      (IF p.target = None THEN {} ELSE {FormRead(p, "entries", p.target)})]

SpecForgotten(p) == [p EXCEPT !.spec = NoSpec, !.specLoading = FALSE, !.params = None]

\* A specification is cached by network and contract, whatever state it was
\* read from.
SpecCached(p) == {c \in p.cache : c.net = RequestNetwork(p) /\ c.of = p.target}

\* again: the reading is asked for though no input has changed
SpecInputs(p) == <<ConfirmedTarget(p), p.target, p.env, RequestNetwork(p), p.mode>>
ReadSpec(old, s, again) ==
    LET p == s.page
        others == Disown(s.wire, "spec")
    IN IF SpecInputs(old) = SpecInputs(p) /\ ~again THEN s
       ELSE IF ~ConfirmedTarget(p) THEN [page |-> SpecForgotten(p), wire |-> others]
       ELSE IF SpecCached(p) # {}
       THEN [page |-> [p EXCEPT !.spec = CHOOSE c \in SpecCached(p) : TRUE], wire |-> others]
       ELSE [page |-> [p EXCEPT !.specLoading = TRUE], wire |-> others \cup {FormRead(p, "spec", p.target)}]

\* The parameters of the function that is chosen have values as soon as it is
\* found in the specification.
DefaultParams(s) ==
    IF SelectedFunction(s.page) /\ s.page.params = None
    THEN [s EXCEPT !.page.params = s.page.spec.of] ELSE s

Effects(old, p, W, again) ==
    DefaultParams(ReadSpec(old, ReadEntries(old, ReadSequence(old, LookupTarget(old, p, W))), again))

Changed(p, W) ==
    LET s == Effects(page, p, W, FALSE)
    IN page' = s.page /\ wire' = s.wire /\ UNCHANGED db

\* The user changes an input.
Enter(p) ==
    /\ page.calls < MaxCalls
    /\ Changed([p EXCEPT !.calls = @ + 1], wire)

\* The link that leads here may name a state, a contract and a function; all
\* effects run once.  One network stands for the one that was forked: net takes
\* every value beside it.
FormInit ==
    \E mode \in {"latest", "ledger", "environment"}, net \in Networks,
       forked \in {CHOOSE n \in Networks : TRUE},
       target \in (Sought \cap Contracts) \cup {None}, fn \in Functions \cup {None} :
         LET p == FormMounted([mode |-> mode, net |-> net, forked |-> forked, target |-> target, fn |-> fn])
             s == Effects([p EXCEPT !.target = None, !.mode = "unmounted"], p,
                          {FormCall("load", None, net, None)}, FALSE)
         IN page = s.page /\ wire = s.wire /\ db = {}

-----------------------------------------------------------------------------
(* The inputs *)

InForm == page.at = "form"

ChooseMode(m) == InForm /\ m # page.mode /\ Enter([page EXCEPT !.mode = m])
ChooseNetwork(n) ==
    /\ InForm /\ page.mode # "environment" /\ n # page.net
    /\ Enter([page EXCEPT !.net = n])
ChooseArguments(a) == InForm /\ a # page.args /\ Enter([page EXCEPT !.args = a])

\* typed, or chosen from the suggestions
EnterSource == InForm /\ page.args = "decoded" /\ ~page.source /\ Enter([page EXCEPT !.source = TRUE])
EnterTarget(c) == InForm /\ c # page.target /\ Enter([page EXCEPT !.target = c])

\* the reset button of the step
ResetForm ==
    /\ InForm /\ page.target # None
    /\ Enter([page EXCEPT !.target = None, !.fn = None, !.params = None, !.spec = NoSpec])

\* Opening the menu of the functions reads them again, unless they are cached.
OpenFunctions ==
    /\ InForm /\ ConfirmedTarget(page)
    /\ IF SpecCached(page) # {} THEN Changed([page EXCEPT !.spec = CHOOSE c \in SpecCached(page) : TRUE], wire)
       ELSE LET s == Effects(page, [page EXCEPT !.spec = NoSpec, !.calls = @ + 1], wire, TRUE)
            IN page.calls < MaxCalls /\ page' = s.page /\ wire' = s.wire /\ UNCHANGED db

ChooseFunction(f) ==
    /\ InForm /\ ~page.specLoading /\ ~FunctionsUnknown(page) /\ f \in FunctionOptions(page)
    /\ Changed([page EXCEPT !.fn = f, !.params = None], wire)

\* an entry of the contract, for the override of its value
ChooseEntry ==
    /\ InForm /\ page.entries # {}
    /\ \E e \in page.entries : Show([page EXCEPT !.entry = e.of])

-----------------------------------------------------------------------------
(* The answers *)

Answered(r, ok) ==
    LET p == page
        at == [net |-> r.net, env |-> r.env]
    IN CASE r.op = "target" -> [p EXCEPT !.suggested = IF ok THEN r.of ELSE None]
         [] r.op = "sequence" -> [p EXCEPT !.seq = IF ok THEN {at} ELSE {}, !.seqLoading = FALSE]
         [] r.op = "entries" ->
              IF ok THEN [p EXCEPT !.entries = {[of |-> r.of, net |-> r.net, env |-> r.env]}, !.entry = r.of]
              ELSE [p EXCEPT !.entries = {}]

\* ok: it answers, and knows the account, or the contract
FormAnswers(r, ok) ==
    /\ r \in wire /\ r.op \in Reading \ {"spec"}
    /\ Changed(Answered(r, ok), wire \ {r})

SpecArrives(r, ok, fns) ==
    /\ r \in wire /\ r.op = "spec"
    /\ LET read == Functionality(r.of, r.net, r.env, fns)
           free == [page EXCEPT !.specLoading = FALSE]
       IN Changed(IF ok THEN [free EXCEPT !.spec = read, !.cache = @ \cup {read}]
                  ELSE [free EXCEPT !.spec = NoSpec], wire \ {r})

\* load: the virtual networks and the simulations of the project
FormLoaded(r, ok) ==
    /\ r \in wire /\ r.op = "load"
    /\ Changed(IF ok THEN [page EXCEPT !.loaded = TRUE, !.env = IF @ = None THEN Fork ELSE @] ELSE page, wire \ {r})

-----------------------------------------------------------------------------
(* The request *)

\* buildOverrides: half an override is refused, and so is a relative ledger
\* when the state is the latest.  The entry of the contract counts, whether
\* the user has chosen it or not.
Whole(a, b) == a <=> b
OverridesFit(p, given) ==
    /\ "increase" \in given => p.mode # "latest"
    /\ Whole("account" \in given, "amount" \in given)
    /\ p.entry # None \/ "value" \in given =>
         p.target # None /\ p.entry # None /\ "value" \in given
    /\ Whole("ttlKey" \in given, "until" \in given)

\* buildAuthoritativeRequest
RequestFits(p, given) ==
    /\ p.mode = "environment" => p.env # None
    /\ p.mode = "ledger" => "ledger" \in given
    /\ IF p.args = "raw" THEN "envelope" \in given
       ELSE p.target # None /\ p.fn # None /\ p.source /\ p.seq # {}
    /\ OverridesFit(p, given)

\* the button that simulates; the one that repairs only waits
CanSimulate(p) ==
    /\ ~p.loading
    /\ p.mode = "environment" => p.env # None
    /\ p.args = "decoded" => ~p.seqLoading /\ p.seq # {}
CanRepair(p) == ~p.loading /\ p.mode = "ledger"

Request(p, op) ==
    [FormRead(p, op, p.target) EXCEPT !.seq = p.seq, !.params = p.params]

Simulate(given) ==
    /\ InForm /\ CanSimulate(page) /\ RequestFits(page, given)
    /\ Call([page EXCEPT !.loading = TRUE], Request(page, "simulate"))

RepairCoverage(given) ==
    /\ InForm /\ CanRepair(page) /\ RequestFits(page, given)
    /\ Call([page EXCEPT !.loading = TRUE], Request(page, "repair"))

\* the polling that follows, and the new list of simulations, included
FormSettled(r) ==
    /\ r \in wire /\ r.op \in {"simulate", "repair"}
    /\ Then([page EXCEPT !.loading = FALSE], r, {})

FormNext ==
    /\ page.at = "form"
    /\ \/ \E m \in {"latest", "ledger", "environment"} : ChooseMode(m)
       \/ \E n \in Networks : ChooseNetwork(n)
       \/ \E a \in {"decoded", "raw"} : ChooseArguments(a)
       \/ \E c \in Contracts \cup {None} : EnterTarget(c)
       \/ EnterSource \/ ResetForm \/ OpenFunctions \/ ChooseEntry
       \/ \E f \in Functions : ChooseFunction(f)
       \/ \E given \in Filled : Simulate(given) \/ RepairCoverage(given)
       \/ \E r \in wire :
            \/ FormSettled(r)
            \/ \E ok \in BOOLEAN : FormAnswers(r, ok) \/ FormLoaded(r, ok)
            \/ \E ok \in BOOLEAN, fns \in {{}, Functions} : SpecArrives(r, ok, fns)

-----------------------------------------------------------------------------
(* Properties *)

FormTypeOK == page.at = "form" =>
    /\ page.target \in Contracts \cup {None} /\ page.entry \in Contracts \cup {None}
    /\ page.spec \in page.cache \cup {NoSpec}
    /\ \A r \in wire : r.op \in Reading \cup {"load", "simulate", "repair"}

\* Whatever the form was in when an answer was asked for, what it shows belongs
\* to what it says now: the sequence number to the source in the state that is
\* chosen, the functions to the contract on its network, the values of the
\* parameters to the contract, the entries to the contract and the state as soon
\* as nothing is awaited.
InputsAgree == page.at = "form" =>
    /\ page.seq # {} => page.seq = {Where(page)} /\ page.source /\ page.mode # "ledger"
    /\ page.spec # NoSpec => ConfirmedTarget(page)
         /\ page.spec.of = page.target /\ page.spec.net = RequestNetwork(page)
    /\ page.params # None => page.params = page.target
    /\ page.entries # {} /\ ~InFlight({"entries"}) =>
         page.entries = {[of |-> page.target, net |-> RequestNetwork(page), env |-> ReadEnvironment(page)]}

\* The form never waits for an answer nobody will give: a control that says it
\* is loading has a call on its way that will free it.
NobodyWaitsInVain == page.at = "form" =>
    /\ page.seqLoading <=> InFlight({"sequence"})
    /\ page.specLoading <=> InFlight({"spec"})
    /\ page.loading <=> InFlight({"simulate", "repair"})

\* A decoded invocation is sent with the sequence number its source has in the
\* very state it is to run on, and with values that were typed for its contract.
RequestsAgree == page.at = "form" =>
    \A r \in wire : r.op = "simulate" =>
        /\ r.seq # {} => r.seq = {[net |-> r.net, env |-> r.env]}
        /\ r.params # None => r.params = r.of
=============================================================================
