---------------------------- MODULE ContractsPage ----------------------------
(***************************************************************************)
(* The page of a project's contracts (ContractsPage of project-pages.tsx). *)
(* Its catalogue works like the one of accounts, with two differences that *)
(* matter: the network of a new contract is chosen and not looked up, and  *)
(* the handler that opens a contract is a new one at every render, so that *)
(* the effect following the URL runs while the navigation is under way.    *)
(***************************************************************************)
EXTENDS PagedList

CONSTANTS
    Contracts,        \* valid contract identifiers the user may meet
    ScopeNetwork,     \* the network chosen in the shell
    DeployedOn        \* DeployedOn[c]: where a contract tracked before the visit is deployed

ContractNetworks == {"mainnet", "testnet"}    \* futurenet behaves like these
ASSUME ScopeNetworkAssumption == ScopeNetwork \in ContractNetworks
ASSUME DeployedOnAssumption == DeployedOn \in [Contracts -> ContractNetworks]

ContractRow == [address : Contracts, net : ContractNetworks,
                name : {"Soroban contract", "renamed"}, tagged : BOOLEAN]
FirstContractReads == {"contracts", "refresh", "reload"}
ContractReads == FirstContractReads \cup {"turn"}
ContractWrites == {"track", "rename", "attach", "delete"}

ContractCall(op, who, net) == [op |-> op, who |-> who, net |-> net, out |-> "sent",
                               rows |-> {}, cursors |-> {}, old |-> FALSE]

\* "following" is openedQueryAddress, "going" the navigation under way, "network"
\* the one of the detail view, "address" None also if it is not valid
ContractsMounted(url) == [at |-> "contracts", url |-> url, going |-> None, following |-> None,
    detail |-> None, network |-> ScopeNetwork, rows |-> {}, cursors |-> {},
    whole |-> FALSE, stale |-> TRUE, query |-> None, ticked |-> {}, dialog |-> None, targets |-> {}, address |-> None, adding |-> ScopeNetwork,
    loading |-> FALSE, refreshing |-> FALSE, calls |-> 0]

ContractsInit ==
    /\ \E known \in {Contracts, Contracts \ Sought} :
         db = {r \in ContractRow : /\ r.name = "Soroban contract" /\ ~r.tagged
                                  /\ r.address \in known /\ r.net = DeployedOn[r.address]}
    /\ \E url \in (Sought \cap Contracts) \cup {None} : page = ContractsMounted(url)
    /\ wire = {ContractCall("contracts", {}, None)}

-----------------------------------------------------------------------------
(* What is on the screen *)

ContractScreen == IF page.detail # None THEN "detail"
                  ELSE IF page.url # None THEN "opening" ELSE "list"
OnContracts == page.at = "contracts" /\ ContractScreen = "list"
BrowsingContracts == OnContracts /\ page.dialog = None

VisibleContracts == {r \in page.rows : page.query \in {None, r.address}}
ShownContracts == {r.address : r \in VisibleContracts}
SelectedVisibleContracts == ShownContracts \cap page.ticked

\* The buttons above the list; tagging does not wait for the other handlers.
ContractToolbar(button) ==
    /\ BrowsingContracts
    /\ button = "refresh" => ~page.loading /\ ~page.refreshing
    /\ button \in {"tag", "delete"} => SelectedVisibleContracts # {}
    /\ button = "delete" => ~page.loading

\* A row opens its contract; its box and its menu do not.
ContractRowOffers(r) == BrowsingContracts /\ r \in VisibleContracts

CanAddContract == page.dialog = "add" /\ ~page.loading /\ page.address \in Contracts
CanTagContract == page.dialog = "tag" /\ ~page.loading
CanRenameContract == page.dialog = "rename" /\ ~page.loading
CanDeleteContract == page.dialog = "delete" /\ ~page.loading

-----------------------------------------------------------------------------
(* The list *)

SearchContracts(q) == BrowsingContracts /\ Show([page EXCEPT !.query = q])

ToggleContract(r) ==
    /\ ContractRowOffers(r)
    /\ Show([page EXCEPT !.ticked = IF r.address \in @ THEN @ \ {r.address} ELSE @ \cup {r.address}])

ToggleAllContracts ==
    /\ BrowsingContracts /\ ShownContracts # {}
    /\ Show([page EXCEPT !.ticked = IF ShownContracts \subseteq @ THEN @ \ ShownContracts
                                    ELSE @ \cup ShownContracts])

\* Bound: no dialog is opened that no call could follow.
OpenContractDialog(kind, who) ==
    /\ page.calls < MaxCalls
    /\ \/ kind \in {"tag", "rename", "delete"} /\ \E r \in page.rows : ContractRowOffers(r) /\ who = {r.address}
       \/ kind \in {"tag", "delete"} /\ ContractToolbar(kind) /\ who = {}
    /\ Show([page EXCEPT !.dialog = kind, !.targets = who])

CloseContractDialog ==
    /\ OnContracts /\ page.dialog # None
    /\ Show([page EXCEPT !.dialog = None, !.targets = {}, !.address = None, !.adding = ScopeNetwork])

ContractTargets == IF page.targets # {} THEN page.targets ELSE SelectedVisibleContracts

RefreshContracts ==
    /\ ContractToolbar("refresh")
    /\ Call([page EXCEPT !.refreshing = TRUE], ContractCall("refresh", {}, None))

\* with the cursor of the button below the list
TurnContractsPage ==
    /\ BrowsingContracts /\ page.cursors # {}
    /\ Call(page, ContractCall("turn", {}, None))

ContractsArrive(r) ==
    /\ r \in UNION {Answers(op) : op \in ContractReads}
    /\ Then([PageRead(page, r) EXCEPT !.loading = @ /\ r.op # "reload"], r, {})

ContractsSettle ==
    /\ page.refreshing /\ ~InFlight({"refresh"})
    /\ Show([page EXCEPT !.refreshing = FALSE, !.ticked = {}])

-----------------------------------------------------------------------------
(* Adding a contract *)

ShowAddContract ==
    /\ BrowsingContracts /\ page.calls < MaxCalls
    /\ Show([page EXCEPT !.dialog = "add", !.address = None, !.adding = ScopeNetwork])

TypeContract(a) ==
    /\ OnContracts /\ page.dialog = "add" /\ a # page.address
    /\ Show([page EXCEPT !.address = a])

ChooseContractNetwork(n) ==
    /\ OnContracts /\ page.dialog = "add"
    /\ Show([page EXCEPT !.adding = n])

TrackContract ==
    /\ OnContracts /\ CanAddContract
    /\ Call([page EXCEPT !.loading = TRUE], ContractCall("track", {page.address}, page.adding))

\* The new row comes with the list, which is loaded again.
ContractTracked(r) ==
    /\ r \in Answers("track")
    /\ IF r.out = "ok"
       THEN Then([page EXCEPT !.address = None, !.adding = ScopeNetwork, !.stale = TRUE,
                              !.dialog = IF @ = "add" THEN None ELSE @],
                 r, {ContractCall("reload", {}, None)})
       ELSE Then([page EXCEPT !.loading = FALSE], r, {})

-----------------------------------------------------------------------------
(* Rename, tag, delete *)

\* An answer closes the dialog of its kind, whatever that was opened for since.
ContractDialogDone(p, kind) ==
    IF p.dialog = kind THEN [p EXCEPT !.loading = FALSE, !.dialog = None, !.targets = {}]
    ELSE [p EXCEPT !.loading = FALSE]

RenameContract ==
    /\ OnContracts /\ CanRenameContract
    /\ Call([page EXCEPT !.loading = TRUE], ContractCall("rename", page.targets, None))

ContractRenamed(r) ==
    /\ r \in Answers("rename")
    /\ Then(IF r.out # "ok" THEN [page EXCEPT !.loading = FALSE]
            ELSE [ContractDialogDone(page, "rename") EXCEPT !.rows = {IF c.address \in r.who THEN [c EXCEPT !.name = "renamed"]
                                        ELSE c : c \in @}, !.stale = @ \/ r.old], r, {})

SaveContractTag ==
    /\ OnContracts /\ CanTagContract /\ ContractTargets # {}
    /\ Call([page EXCEPT !.loading = TRUE], ContractCall("tag", ContractTargets, None))

\* A tag that exists already (409) is looked up among the first hundred.
ContractTagReady(r) ==
    /\ r \in Answers("tag")
    /\ \/ r.out = "ok" /\ Then(page, r, {ContractCall("attach", r.who, None)})
       \/ Then([page EXCEPT !.loading = FALSE], r, {})

ContractsTagged(r) ==
    /\ r \in Answers("attach")
    /\ Then(IF r.out # "ok" THEN [page EXCEPT !.loading = FALSE]
            ELSE [ContractDialogDone(page, "tag") EXCEPT !.rows = {IF c.address \in r.who THEN [c EXCEPT !.tagged = TRUE]
                                        ELSE c : c \in @}, !.stale = @ \/ r.old], r, {})

DeleteSelectedContracts ==
    /\ OnContracts /\ CanDeleteContract /\ ContractTargets # {}
    /\ Call([page EXCEPT !.loading = TRUE], ContractCall("delete", ContractTargets, None))

ContractsDeleted(r) ==
    /\ r \in Answers("delete")
    /\ Then(IF r.out # "ok" THEN [page EXCEPT !.loading = FALSE]
            ELSE [ContractDialogDone(page, "delete") EXCEPT !.rows = {c \in @ : c.address \notin r.who},
                              !.ticked = @ \ r.who, !.stale = @ \/ r.old], r, {})

-----------------------------------------------------------------------------
(* The detail view and the URL *)

Opening(p, a, net) ==
    Call([p EXCEPT !.following = a, !.going = IF page.url = a THEN @ ELSE a, !.loading = TRUE],
         ContractCall("open", {a}, net))

OpenContract(r) == ContractRowOffers(r) /\ Opening(page, r.address, r.net)

Navigated ==
    /\ page.at = "contracts" /\ page.going # None
    /\ Show([page EXCEPT !.url = IF page.going = "list" THEN None ELSE page.going, !.going = None])

\* The effect runs at every render: while the navigation to a contract is under
\* way there is none in the URL, so it is forgotten and then opened a second
\* time, on the network of the shell.
FollowContractUrl ==
    /\ page.at = "contracts"
    /\ \/ page.url = None /\ page.following # None /\ Show([page EXCEPT !.following = None])
       \/ page.url # None /\ page.following # page.url /\ Opening(page, page.url, ScopeNetwork)

ContractOpened(r) ==
    /\ r \in Answers("open")
    /\ \E a \in r.who :
         Then(IF r.out = "ok" THEN [page EXCEPT !.loading = FALSE, !.detail = a, !.network = r.net]
              ELSE [page EXCEPT !.loading = FALSE], r, {})

\* The Back button of the detail view, and the browser's.
BackToContracts ==
    /\ page.at = "contracts" /\ ContractScreen = "detail"
    /\ Show([page EXCEPT !.detail = None, !.network = ScopeNetwork,
                         !.following = page.detail, !.going = "list"])

BrowserBack ==
    /\ page.at = "contracts" /\ page.url # None
    /\ Show([page EXCEPT !.url = None, !.going = None])

-----------------------------------------------------------------------------
(* The server *)

ContractsOutdated(W) ==
    {IF q.op \in ContractReads \cup ContractWrites /\ q.out = "ok" THEN [q EXCEPT !.old = TRUE] ELSE q : q \in W}

KnownContracts == {c.address : c \in db}

\* One contract per address and project, whatever its network: one that is tracked
\* already moves to the network of the form, gets its name and keeps its tags.
EnteredContract(a, net) == [address |-> a, net |-> net, name |-> "Soroban contract",
                            tagged |-> \E c \in db : c.address = a /\ c.tagged]

ContractWritten(r, part) ==
    CASE r.op = "track"  -> {c \in db : c.address \notin part} \cup {EnteredContract(a, r.net) : a \in part}
      [] r.op = "rename" -> {IF c.address \in part THEN [c EXCEPT !.name = "renamed"] ELSE c : c \in db}
      [] r.op = "attach" -> {IF c.address \in part THEN [c EXCEPT !.tagged = TRUE] ELSE c : c \in db}
      [] r.op = "delete" -> {c \in db : c.address \notin part}

ContractsUntagged(who) == {IF c.address \in who THEN [c EXCEPT !.tagged = FALSE] ELSE c : c \in db}

\* As for accounts, but that a contract that is not tracked cannot be renamed.
ContractEffects(r) ==
    {[db |-> ContractWritten(r, r.who), done |-> r.op \in {"rename", "attach"} => r.who \subseteq KnownContracts],
     [db |-> db, done |-> FALSE]}
    \cup {[db |-> ContractWritten(r, part), done |-> FALSE] :
             part \in IF r.op = "attach" THEN SUBSET r.who ELSE {}}
    \cup {[db |-> d, done |-> FALSE] : d \in IF r.op = "delete" THEN {ContractsUntagged(r.who)} ELSE {}}

ServeContractWrite(r) ==
    /\ r.out = "sent" /\ r.op \in ContractWrites
    /\ \E e \in ContractEffects(r), heard \in BOOLEAN :
         /\ db' = e.db
         /\ wire' = (IF e.db = db THEN wire \ {r} ELSE ContractsOutdated(wire \ {r}))
                      \cup {[r EXCEPT !.out = IF heard /\ e.done THEN "ok" ELSE "fail"]}
         /\ page' = [page EXCEPT !.stale = @ \/ (e.db # db /\ ~(heard /\ e.done))]

ServeContractRead(r) ==
    /\ r.out = "sent" /\ r.op \notin ContractWrites
    /\ \E out \in {"ok", "fail"} : \E p \in Readings(r, FirstContractReads, out) :
         wire' = (wire \ {r}) \cup {[r EXCEPT !.out = out, !.rows = p.rows, !.cursors = p.cursors]}
    /\ UNCHANGED <<page, db>>

ContractsNext ==
    /\ page.at = "contracts"
    /\ \/ \E q \in Sought \cup {None} : SearchContracts(q)
       \/ \E a \in (Sought \cap Contracts) \cup {None} : TypeContract(a)
       \/ \E r \in page.rows : ToggleContract(r) \/ OpenContract(r)
       \/ \E kind \in {"tag", "rename", "delete"}, who \in SUBSET Contracts : OpenContractDialog(kind, who)
       \/ ToggleAllContracts \/ CloseContractDialog \/ RefreshContracts \/ TurnContractsPage
       \/ ContractsSettle \/ ShowAddContract \/ \E n \in ContractNetworks : ChooseContractNetwork(n)
       \/ TrackContract \/ RenameContract \/ SaveContractTag \/ DeleteSelectedContracts
       \/ Navigated \/ FollowContractUrl \/ BackToContracts \/ BrowserBack
       \/ \E r \in wire :
            \/ ContractsArrive(r) \/ ContractTracked(r) \/ ContractRenamed(r) \/ ContractTagReady(r)
            \/ ContractsTagged(r) \/ ContractsDeleted(r) \/ ContractOpened(r)
            \/ ServeContractWrite(r) \/ ServeContractRead(r)

-----------------------------------------------------------------------------
(* Properties *)

ContractsTypeOK == page.at = "contracts" =>
    /\ page.url \in Contracts \cup {None} /\ page.detail \in Contracts \cup {None}
    /\ page.going \in Contracts \cup {None, "list"}
    /\ page.rows \subseteq ContractRow /\ page.cursors \subseteq {"prev", "next"} /\ page.ticked \subseteq Contracts
    /\ page.dialog \in {None, "add", "tag", "rename", "delete"}
    /\ db \subseteq ContractRow

\* As for accounts: the rows on display are the server's, and all of them when the
\* list was read from the start and nothing came next, unless its last reading or
\* the answer to a change crossed another one, or such an answer never came.
ContractsListAgrees == page.at = "contracts" =>
    page.stale \/ InFlight(ContractWrites) \/ ShowsTable

\* One address is in the list once, so that renaming, tagging or deleting by
\* address never touches a row the user did not mean.
ContractsAreDistinct == page.at = "contracts" =>
    \A r, s \in page.rows : r.address = s.address => r = s
==============================================================================
