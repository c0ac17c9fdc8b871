---------------------------- MODULE WorkspaceTabs ----------------------------
(***************************************************************************)
(* The tabs of the workspace of one virtual network (EnvironmentWorkspace   *)
(* of environment-workspace.tsx): the URL that names a tab and an account,  *)
(* the linked accounts, the dialogs that link, rename and fund them, and    *)
(* the two buttons of the configuration that do not wait for the others.    *)
(* What becomes of the network itself is in VirtualEnvPage.                 *)
(***************************************************************************)
EXTENDS PageHost

CONSTANT
    Addresses     \* addresses of Stellar accounts

ASSUME AddressesAssumption == None \notin Addresses

\* the tabs that differ in what they offer; "wallets" is an old name
Tabs == {"overview", "accounts", "contracts", "fund", "configure"}
Urls == [tab : Tabs \cup {"wallets"}, addr : Addresses \cup {None}]

Typed == {u \in Urls : u.addr \in Sought \cup {None}}

\* a linked account, labelled or not
Linked == [address : Addresses, label : BOOLEAN]
At(L, a) == {w \in L : w.address = a}

Waiting == {"link", "label", "fund"}       \* not offered while busy
Unwaiting == {"rotate", "remove"}          \* "Rotate credential" and "Delete environment"
TabWrites == Waiting \cup Unwaiting
TabCall(op, who, after) == [op |-> op, who |-> who, after |-> after, out |-> "sent", rows |-> {}, old |-> FALSE]

\* a call of a change, or the reading that follows it
PartOf(r, ops) == r.op \in ops \/ r.after \in ops

\* link: the dialog that links an account, its step and the address in it
\* freed: a change that waits for nothing ended while another was under way
NoLink == [open |-> FALSE, step |-> "form", address |-> None]

-----------------------------------------------------------------------------
(* The URL *)

RouteTab(u) == IF u.tab = "wallets" THEN "accounts" ELSE u.tab

\* The effects that follow every change of the URL and of the accounts: the
\* tab is the one of the URL, the account too, if it is linked; an address that
\* no tab uses, or of an account that is not linked, leaves the URL.
Settled(p) ==
    LET t == RouteTab(p.url)
        a == IF t \in {"accounts", "contracts"} THEN p.url.addr ELSE None
        unknown == t = "accounts" /\ p.linked # {} /\ At(p.linked, a) = {}
    IN [p EXCEPT !.tab = t, !.url = [tab |-> t, addr |-> IF unknown THEN None ELSE a],
                 !.selected = IF t = "accounts" THEN At(p.linked, a) ELSE {}]

TabsMounted(u) == [at |-> "tabs", url |-> u, tab |-> RouteTab(u), linked |-> {}, stale |-> TRUE,
    selected |-> {}, link |-> NoLink, renaming |-> {}, funding |-> {}, busy |-> FALSE, freed |-> FALSE, loading |-> TRUE,
    calls |-> 0]

TabsInit ==
    /\ \E u \in Typed : page = TabsMounted([tab |-> RouteTab(u), addr |-> u.addr])
    /\ wire = {TabCall("data", None, None)}
    /\ \E known \in SUBSET Addresses : db = [address : known, label : {FALSE}]

-----------------------------------------------------------------------------
(* What is on the screen *)

\* The dialogs of the accounts show on their tab only.
InLink == page.at = "tabs" /\ page.tab = "accounts" /\ page.link.open
InRename == page.at = "tabs" /\ page.tab = "accounts" /\ page.renaming # {}
InFund == page.at = "tabs" /\ page.funding # {}
NoDialog == ~InLink /\ ~InRename /\ ~InFund
OnTab(t) == page.at = "tabs" /\ page.tab = t /\ page.selected = {} /\ NoDialog /\ ~page.loading
OnAccount == page.at = "tabs" /\ page.selected # {} /\ NoDialog

\* selectTab: the tabs are there whatever is shown below them
SelectTab(t) ==
    /\ page.at = "tabs" /\ NoDialog
    /\ Show(Settled([page EXCEPT !.url = [tab |-> t, addr |-> None], !.renaming = {}, !.link.open = FALSE]))

\* back, forward, or an address typed in
NavigateTabs(u) ==
    /\ page.at = "tabs" /\ u # page.url
    /\ Show(Settled([page EXCEPT !.url = u]))

OpenAccount(w) ==
    /\ OnTab("accounts") /\ w \in page.linked
    /\ Show(Settled([page EXCEPT !.url = [tab |-> "accounts", addr |-> w.address]]))

BackToAccounts ==
    /\ OnAccount
    /\ Show(Settled([page EXCEPT !.url = [tab |-> "accounts", addr |-> None]]))

\* setBusy(false), at the end of whatever change r is of
Released(p, r) == [p EXCEPT !.busy = FALSE,
    !.freed = (@ \/ PartOf(r, Unwaiting)) /\ \E q \in wire \ {r} : PartOf(q, Waiting)]

-----------------------------------------------------------------------------
(* The data *)

\* Whatever load answers last is shown; the one that follows a change frees
\* the buttons, and only then is the dialog closed.  A link and a funding
\* close whatever dialog of theirs is open by then.
TabDataArrives(r) ==
    /\ r \in wire /\ r.op = "data"
    /\ LET read == IF r.out = "ok" THEN [page EXCEPT !.linked = r.rows, !.stale = r.old] ELSE page
           done == [read EXCEPT !.loading = FALSE]
           free == IF r.after = None THEN done ELSE Released(done, r)
           \* linkWallet and fundWallet do not learn that load failed
           closed == CASE r.after = "link" -> [free EXCEPT !.link = NoLink]
                       [] r.after = "fund" -> [free EXCEPT !.funding = {}]
                       [] OTHER -> free
       IN Then(Settled(closed), r, {})

\* the refresh button of the contracts
ReloadData ==
    /\ OnTab("contracts")
    /\ Call([page EXCEPT !.loading = TRUE], TabCall("data", None, None))

ReadDataAgain(p, r) == Then([p EXCEPT !.loading = TRUE, !.stale = TRUE], r, {TabCall("data", None, r.op)})

-----------------------------------------------------------------------------
(* The dialogs *)

OpenLink == OnTab("accounts") /\ ~page.busy /\ Show([page EXCEPT !.link.open = TRUE])
TypeLinkAddress(a) ==
    /\ InLink /\ page.link.step = "form" /\ a # page.link.address
    /\ Show([page EXCEPT !.link.address = a])
LinkStepBack ==
    /\ InLink /\ page.link.step = "virtual"
    /\ Show([page EXCEPT !.link.step = "form"])
CloseLink == InLink /\ Show([page EXCEPT !.link.open = FALSE, !.link.step = "form"])

\* Mutant: the submit button is not disabled while busy
LinkWalletTwice ==
    /\ InLink /\ page.link.address # None
    /\ Call([page EXCEPT !.busy = TRUE], TabCall("link", page.link.address, page.link.step))

\* linkWallet: in the second step the user confirms that the account is to
\* exist in this network only.
LinkWallet ==
    /\ InLink /\ page.link.address # None /\ ~page.busy
    /\ Call([page EXCEPT !.busy = TRUE], TabCall("link", page.link.address, page.link.step))

\* The server asks for the confirmation, if it was not given.
LinkAnswered(r, heard) ==
    /\ r \in wire /\ r.op = "link"
    /\ heard => r.out # "sent"
    /\ CASE heard /\ r.out = "virtual" -> Then([Released(page, r) EXCEPT !.link.step = "virtual"], r, {})
         [] heard /\ r.out = "ok" -> ReadDataAgain(page, r)
         [] OTHER -> Then([Released(page, r) EXCEPT !.stale = @ \/ r.out = "ok"], r, {})

OpenRename(w) == OnTab("accounts") /\ w \in page.linked /\ Show([page EXCEPT !.renaming = {w}])
CloseRename == InRename /\ Show([page EXCEPT !.renaming = {}])
RenameAccount ==
    /\ InRename /\ ~page.busy
    /\ \E w \in page.renaming : Call([page EXCEPT !.busy = TRUE], TabCall("label", w.address, None))

\* from the tab, or from the account that is open, which is then preselected
OpenFund ==
    /\ \/ OnTab("fund") /\ page.linked # {} /\ ~page.busy
       \/ OnAccount
    /\ \E a \in {w.address : w \in IF page.selected # {} THEN page.selected ELSE page.linked} :
         Show([page EXCEPT !.funding = {a}])
CloseFund == InFund /\ Show([page EXCEPT !.funding = {}])
FundAccount ==
    /\ InFund /\ ~page.busy
    /\ \E a \in page.funding : Call([page EXCEPT !.busy = TRUE], TabCall("fund", a, None))

\* The buttons of the configuration are there while another change is under way.
Configure(op) ==
    /\ OnTab("configure") /\ op \in Unwaiting
    /\ Call([page EXCEPT !.busy = TRUE], TabCall(op, None, None))

\* mutate; a label closes its dialog at once.  A deletion that succeeds leaves the
\* workspace, see VirtualEnvPage: here it is one that fails.
AccountChanged(r, heard) ==
    /\ r \in wire /\ r.op \in TabWrites \ {"link"}
    /\ heard => r.out = "ok"
    /\ IF heard THEN ReadDataAgain(IF r.op = "label" THEN [page EXCEPT !.renaming = {}] ELSE page, r)
       ELSE Then([Released(page, r) EXCEPT !.stale = @ \/ r.out = "ok"], r, {})

-----------------------------------------------------------------------------
(* The server.  What is lost or refused is not heard. *)

TabsOutdated(W) == {IF r.op = "data" /\ r.out = "ok" THEN [r EXCEPT !.old = TRUE] ELSE r : r \in W}

ServeTabWrite(r) ==
    /\ r.out = "sent" /\ r.op \in TabWrites
    /\ \/ /\ r.op = "link" /\ r.after = "form"
          /\ wire' = (wire \ {r}) \cup {[r EXCEPT !.out = "virtual"]}
          /\ UNCHANGED <<page, db>>
       \/ /\ r.op \in {"label", "fund"} => At(db, r.who) # {}
          /\ db' = CASE r.op = "link" /\ At(db, r.who) = {} -> db \cup {[address |-> r.who, label |-> FALSE]}
                     [] r.op = "label" -> (db \ At(db, r.who)) \cup {[address |-> r.who, label |-> TRUE]}
                     [] OTHER -> db
          /\ wire' = TabsOutdated(wire \ {r}) \cup {[r EXCEPT !.out = "ok"]}
          /\ r.op # "remove" /\ UNCHANGED page

ServeTabRead(r) ==
    /\ r.out = "sent" /\ r.op = "data"
    /\ wire' = (wire \ {r}) \cup {[r EXCEPT !.out = "ok", !.rows = db]}
    /\ UNCHANGED <<page, db>>

TabsNext ==
    /\ page.at = "tabs"
    /\ \/ \E t \in Tabs : SelectTab(t)
       \/ \E u \in Typed : NavigateTabs(u)
       \/ \E w \in page.linked : OpenAccount(w) \/ OpenRename(w)
       \/ BackToAccounts \/ ReloadData
       \/ OpenLink \/ LinkStepBack \/ CloseLink \/ LinkWallet
       \/ \E a \in Sought \cap Addresses : TypeLinkAddress(a)
       \/ \E op \in Unwaiting : Configure(op)
       \/ CloseRename \/ RenameAccount \/ OpenFund \/ CloseFund \/ FundAccount
       \/ \E r \in wire :
            \/ TabDataArrives(r) \/ ServeTabWrite(r) \/ ServeTabRead(r)
            \/ \E heard \in BOOLEAN : LinkAnswered(r, heard) \/ AccountChanged(r, heard)

-----------------------------------------------------------------------------
(* Properties *)

TabsTypeOK == page.at = "tabs" =>
    /\ page.url \in Urls /\ page.tab \in Tabs
    /\ page.linked \subseteq Linked /\ db \subseteq Linked
    /\ page.link \in [open : BOOLEAN, step : {"form", "virtual"}, address : Addresses \cup {None}]

\* The accounts on display are those the server has linked, unless they were
\* read across a change or the answer to a change never came.
LinkedAgree == page.at = "tabs" =>
    page.stale \/ InFlight(TabWrites \cup {"data"}) \/ page.linked = db

\* A link, back and forward are obeyed: the account of the URL is open with
\* what is known of it, and no other; and an address stays in the URL of the
\* accounts only while it may still prove to be linked.
AccountFollowsUrl == page.at = "tabs" =>
    /\ page.selected = IF RouteTab(page.url) = "accounts" THEN At(page.linked, page.url.addr) ELSE {}
    /\ page.tab = "accounts" /\ page.url.addr # None =>
         page.linked = {} \/ page.selected # {}

\* The forms wait for one another and for nothing else: busy means that some change,
\* or the reading that follows it, is under way; and no second of the forms that
\* wait is sent during a first one, unless a rotation or a deletion, which do not
\* wait, ended in the meantime and freed the buttons for it.
FormsWait == page.at = "tabs" =>
    /\ page.busy => \E r \in wire : PartOf(r, TabWrites)
    /\ ~page.freed =>
         /\ Cardinality({r \in wire : PartOf(r, Waiting)}) <= 1
         /\ (\E r \in wire : PartOf(r, Waiting)) => page.busy
=============================================================================
