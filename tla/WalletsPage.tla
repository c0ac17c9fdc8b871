----------------------------- MODULE WalletsPage -----------------------------
(***************************************************************************)
(* The page of a project's accounts (WalletsPage of project-pages.tsx):    *)
(* the catalogue with its search and selection, the dialogs that add, tag, *)
(* rename and delete accounts, and the detail view of one of them.         *)
(***************************************************************************)
EXTENDS PagedList

CONSTANTS
    Accounts,   \* addresses the user may meet
    FoundOn     \* FoundOn[a]: the networks on which account a exists

Networks == {"mainnet", "testnet"}
ASSUME FoundOnAssumption == FoundOn \in [Accounts -> SUBSET Networks]

Row == [address: Accounts, name: {"Account", "renamed"}, tagged: BOOLEAN]
FirstReads == {"accounts", "refresh", "reload"}
Reads == FirstReads \cup {"turn"}
Writes == {"track", "rename", "attach", "delete"}

\* a call: whom it is about, the network it names, the rows and the cursors its
\* answer holds, and whether another change has been made since it was answered
WalletCall(op, who, net) == [op |-> op, who |-> who, net |-> net, out |-> "sent",
                             rows |-> {}, cursors |-> {}, old |-> FALSE]

WalletsMounted(url) == [at |-> "wallets", url |-> url, opened |-> None, detail |-> None,
    rows |-> {}, cursors |-> {}, whole |-> FALSE, stale |-> TRUE, query |-> None, ticked |-> {}, dialog |-> None,
    targets |-> {}, address |-> None, timer |-> FALSE, checking |-> FALSE,
    found |-> {}, network |-> None, verified |-> FALSE, loading |-> FALSE, refreshing |-> FALSE, calls |-> 0]

WalletsInit ==
    /\ \E known \in {Accounts, Accounts \ Sought} :
         db = {r \in Row : r.name = "Account" /\ ~r.tagged /\ r.address \in known}
    /\ \E url \in (Sought \cap Accounts) \cup {None} : page = WalletsMounted(url)
    /\ wire = {WalletCall("accounts", {}, None)}

-----------------------------------------------------------------------------
(* What is on the screen *)

\* the detail view hides the list, and so does an account that is being opened
WalletScreen == IF page.detail # None THEN "detail"
                ELSE IF page.url # None THEN "opening" ELSE "list"
OnWallets == page.at = "wallets" /\ WalletScreen = "list"
Browsing == OnWallets /\ page.dialog = None

Visible == {r \in page.rows : page.query \in {None, r.address}}
SelectedVisible == {r.address : r \in {v \in Visible : v.address \in page.ticked}}
AllVisibleSelected == Visible # {} /\ \A r \in Visible : r.address \in page.ticked

\* The buttons above the list.
CanRefresh == Browsing /\ ~page.loading /\ ~page.refreshing
CanTagSelected == Browsing /\ SelectedVisible # {}
CanDeleteSelected == Browsing /\ SelectedVisible # {} /\ ~page.loading

\* Each row opens its account, is ticked, and has a menu with the dialogs; the
\* "Add tag" of the row itself is only there while the row has no tag.
RowOffers(a) == Browsing /\ \E r \in Visible : r.address = a

\* The submit button of each dialog.
CanAdd == /\ page.dialog = "add" /\ page.address # None
          /\ ~page.loading /\ ~page.checking /\ page.verified /\ page.network # None
CanSaveTag == page.dialog = "tag" /\ ~page.loading
CanRename == page.dialog = "rename" /\ ~page.loading
CanDelete == page.dialog = "delete" /\ ~page.loading

-----------------------------------------------------------------------------
(* The list: search, selection, dialogs *)

Search(q) == Browsing /\ Show([page EXCEPT !.query = q])

ToggleWallet(a) ==
    /\ RowOffers(a)
    /\ Show([page EXCEPT !.ticked = IF a \in @ THEN @ \ {a} ELSE @ \cup {a}])

ToggleAllWallets ==
    LET shown == {r.address : r \in Visible} IN
    /\ Browsing /\ shown # {}
    /\ Show([page EXCEPT !.ticked = IF AllVisibleSelected THEN @ \ shown ELSE @ \cup shown])

\* Bound: no dialog is opened that no call could follow.
OpenDialog(kind, who) ==
    /\ page.calls < MaxCalls
    /\ \/ kind \in {"tag", "rename", "delete"} /\ \E a \in Accounts : RowOffers(a) /\ who = {a}
       \/ kind = "tag" /\ CanTagSelected /\ who = {}
       \/ kind = "delete" /\ CanDeleteSelected /\ who = {}
    /\ Show([page EXCEPT !.dialog = kind, !.targets = who])

\* What the form held is reset when it is shown again.
CloseDialog ==
    /\ OnWallets /\ page.dialog # None
    /\ page' = [page EXCEPT !.dialog = None, !.targets = {}, !.timer = FALSE, !.address = None,
                            !.network = None, !.verified = FALSE, !.found = {}, !.checking = FALSE]
    /\ wire' = {r \in wire : r.op # "lookup"}
    /\ UNCHANGED db

\* no target of its own: the dialog is about the ticked rows on display
DialogTargets == IF page.targets # {} THEN page.targets ELSE SelectedVisible

-----------------------------------------------------------------------------
(* load and refreshList *)

RefreshList ==
    /\ CanRefresh
    /\ Call([page EXCEPT !.refreshing = TRUE], WalletCall("refresh", {}, None))

\* The buttons below the list, each with the cursor the last answer gave for it;
\* nothing keeps the user from pressing one while a page is on its way.
TurnPage ==
    /\ Browsing /\ page.cursors # {}
    /\ Call(page, WalletCall("turn", {}, None))

\* A failed load leaves the rows as they were.  The reload at the end of track,
\* which alone brings the new row, also ends its loading.
ListArrives(r) ==
    /\ r \in UNION {Answers(op) : op \in Reads}
    /\ Then([PageRead(page, r) EXCEPT !.loading = @ /\ r.op # "reload"], r, {})

\* refreshSpinDelay is over too: the selection is cleared
RefreshSettles ==
    /\ page.refreshing /\ ~InFlight({"refresh"})
    /\ Show([page EXCEPT !.refreshing = FALSE, !.ticked = {}])

-----------------------------------------------------------------------------
(* Adding an account *)

ShowAdd ==
    /\ Browsing /\ page.calls < MaxCalls
    /\ Show([page EXCEPT !.dialog = "add", !.address = None, !.network = None,
                         !.verified = FALSE, !.found = {}, !.checking = FALSE])

\* Mutant: the lookups of an earlier address are not aborted
TypeAddressKeepingLookups(a) ==
    /\ OnWallets /\ page.dialog = "add" /\ a # page.address
    /\ Show([page EXCEPT !.address = a, !.network = None, !.verified = FALSE,
                         !.timer = a # None, !.checking = @ /\ a # None, !.found = IF a = None THEN {} ELSE @])

\* Every change of the address forgets what was verified, stops the timer and
\* aborts the lookups under way.
TypeAddress(a) ==
    /\ OnWallets /\ page.dialog = "add" /\ a # page.address
    /\ page' = [page EXCEPT !.address = a, !.network = None, !.verified = FALSE,
                            !.timer = a # None, !.checking = @ /\ a # None, !.found = IF a = None THEN {} ELSE @]
    /\ wire' = {r \in wire : r.op # "lookup"}
    /\ UNCHANGED db

\* 300 ms without a change
StartCheck ==
    /\ OnWallets /\ page.dialog = "add" /\ page.timer
    /\ Call([page EXCEPT !.timer = FALSE, !.checking = TRUE, !.found = {}],
            WalletCall("lookup", {page.address}, None))

\* the first network of walletCheckNetworks that knows the account
Detected(nets) == IF "mainnet" \in nets THEN "mainnet"
                  ELSE IF "testnet" \in nets THEN "testnet" ELSE None

Checked(r) ==
    /\ r \in Answers("lookup")
    /\ \E nets \in SUBSET UNION {FoundOn[a] : a \in r.who} :   \* a lookup that failed found nothing
         Then([page EXCEPT !.found = nets, !.network = Detected(nets),
                         !.verified = nets # {}, !.checking = FALSE], r, {})

ChooseNetwork(n) ==
    /\ OnWallets /\ page.dialog = "add" /\ n \in page.found
    /\ Show([page EXCEPT !.network = n])

Track ==
    /\ OnWallets /\ CanAdd
    /\ Call([page EXCEPT !.loading = TRUE], WalletCall("track", {page.address}, page.network))

Tracked(r) ==
    /\ r \in Answers("track")
    /\ IF r.out = "ok"
       THEN /\ page' = [page EXCEPT !.address = None, !.network = None, !.verified = FALSE,
                                    !.timer = FALSE, !.found = {}, !.checking = FALSE, !.stale = TRUE,
                                    !.dialog = IF @ = "add" THEN None ELSE @]
            /\ wire' = {q \in wire \ {r} : q.op # "lookup"} \cup {WalletCall("reload", {}, None)}
            /\ UNCHANGED db
       ELSE Then([page EXCEPT !.loading = FALSE], r, {})

-----------------------------------------------------------------------------
(* Rename, tag, delete *)

\* An answer closes the dialog of its kind, whatever that was opened for since.
DialogDone(p, kind) ==
    IF p.dialog = kind THEN [p EXCEPT !.loading = FALSE, !.dialog = None, !.targets = {}]
    ELSE [p EXCEPT !.loading = FALSE]

RenameWallet ==
    /\ OnWallets /\ CanRename
    /\ Call([page EXCEPT !.loading = TRUE], WalletCall("rename", page.targets, None))

Renamed(r) ==
    /\ r \in Answers("rename")
    /\ Then(IF r.out # "ok" THEN [page EXCEPT !.loading = FALSE]
            ELSE [DialogDone(page, "rename") EXCEPT !.rows = {IF w.address \in r.who THEN [w EXCEPT !.name = "renamed"]
                                        ELSE w : w \in @}, !.stale = @ \/ r.old], r, {})

\* The tag is created first; a 409 says that it exists and the list of tags
\* gives it, unless it is not among the first hundred.
SaveTag ==
    /\ OnWallets /\ CanSaveTag /\ DialogTargets # {}
    /\ Call([page EXCEPT !.loading = TRUE], WalletCall("tag", DialogTargets, None))

TagCreated(r) ==
    /\ r \in Answers("tag")
    /\ \/ r.out = "ok" /\ Then(page, r, {WalletCall("attach", r.who, None)})
       \/ Then([page EXCEPT !.loading = FALSE], r, {})

Attached(r) ==
    /\ r \in Answers("attach")
    /\ Then(IF r.out # "ok" THEN [page EXCEPT !.loading = FALSE]
            ELSE [DialogDone(page, "tag") EXCEPT !.rows = {IF w.address \in r.who THEN [w EXCEPT !.tagged = TRUE]
                                        ELSE w : w \in @}, !.stale = @ \/ r.old], r, {})

DeleteSelectedWallets ==
    /\ OnWallets /\ CanDelete /\ DialogTargets # {}
    /\ Call([page EXCEPT !.loading = TRUE], WalletCall("delete", DialogTargets, None))

\* Mutant: the deleted rows stay in the list until it is loaded again
DeletedKeepsRows(r) ==
    /\ r \in Answers("delete")
    /\ Then([DialogDone(page, "delete") EXCEPT !.ticked = @ \ r.who, !.stale = @ \/ r.old], r, {})

Deleted(r) ==
    /\ r \in Answers("delete")
    /\ Then(IF r.out # "ok" THEN [page EXCEPT !.loading = FALSE]
            ELSE [DialogDone(page, "delete") EXCEPT !.rows = {w \in @ : w.address \notin r.who},
                              !.ticked = @ \ r.who, !.stale = @ \/ r.old], r, {})

-----------------------------------------------------------------------------
(* The detail view *)

OpenWallet(a) ==
    /\ RowOffers(a)
    /\ Call([page EXCEPT !.url = a, !.opened = a, !.loading = TRUE],
            WalletCall("open", {a}, None))

\* the effect that opens the address in the URL unless it was opened already
FollowUrl ==
    /\ page.at = "wallets"
    /\ IF page.url = None THEN page.opened # None /\ Show([page EXCEPT !.opened = None])
       ELSE /\ page.opened # page.url
            /\ Call([page EXCEPT !.opened = page.url, !.loading = TRUE],
                    WalletCall("open", {page.url}, None))

Opened(r) ==
    /\ r \in Answers("open")
    /\ \E a \in r.who :
         Then([page EXCEPT !.loading = FALSE, !.detail = IF r.out = "ok" THEN a ELSE @], r, {})

\* the Back button of the detail view, and the browser's
BackToList ==
    /\ page.at = "wallets" /\ WalletScreen = "detail"
    /\ Show([page EXCEPT !.detail = None, !.url = None, !.opened = page.detail])

HistoryBack ==
    /\ page.at = "wallets" /\ page.url # None
    /\ Show([page EXCEPT !.url = None])

-----------------------------------------------------------------------------
(* The server *)

\* A change outdates what was answered before it and is still on its way.
Outdated(W) == {IF q.op \in Reads \cup Writes /\ q.out = "ok" THEN [q EXCEPT !.old = TRUE] ELSE q : q \in W}

Known == {w.address : w \in db}

\* an account that is tracked already gets the name of the form and keeps its tags
Entered(a) == [address |-> a, name |-> "Account",
               tagged |-> \E w \in db : w.address = a /\ w.tagged]

\* What a write makes of the catalogue for part of the accounts it names.
Written(r, part) ==
    CASE r.op = "track"  -> {w \in db : w.address \notin part} \cup {Entered(a) : a \in part}
      [] r.op = "rename" -> {IF w.address \in part THEN [w EXCEPT !.name = "renamed"] ELSE w : w \in db}
      [] r.op = "attach" -> {IF w.address \in part THEN [w EXCEPT !.tagged = TRUE] ELSE w : w \in db}
      [] r.op = "delete" -> {w \in db : w.address \notin part}

\* the attachments are removed first, and the rows by a statement of its own
Untagged(who) == {IF w.address \in who THEN [w EXCEPT !.tagged = FALSE] ELSE w : w \in db}

\* How far a write may get.  A tag is attached to one account by each of several
\* requests, and to none that is not tracked; renaming one that is not changes
\* nothing and is answered all the same.
Effects(r) ==
    {[db |-> Written(r, r.who), done |-> r.op = "attach" => r.who \subseteq Known], [db |-> db, done |-> FALSE]}
    \cup {[db |-> Written(r, part), done |-> FALSE] : part \in IF r.op = "attach" THEN SUBSET r.who ELSE {}}
    \cup {[db |-> d, done |-> FALSE] : d \in IF r.op = "delete" THEN {Untagged(r.who)} ELSE {}}

\* a change that the page will not hear of makes its list stale
ServeWrite(r) ==
    /\ r.out = "sent" /\ r.op \in Writes
    /\ \E e \in Effects(r), heard \in BOOLEAN :
         /\ db' = e.db
         /\ wire' = (IF e.db = db THEN wire \ {r} ELSE Outdated(wire \ {r}))
                      \cup {[r EXCEPT !.out = IF heard /\ e.done THEN "ok" ELSE "fail"]}
         /\ page' = [page EXCEPT !.stale = @ \/ (e.db # db /\ ~(heard /\ e.done))]

\* The list is read a page at a time; an account may be opened untracked.
ServeRead(r) ==
    /\ r.out = "sent" /\ r.op \notin Writes
    /\ \E out \in {"ok", "fail"} : \E p \in Readings(r, FirstReads, out) :
         wire' = (wire \ {r}) \cup {[r EXCEPT !.out = out, !.rows = p.rows, !.cursors = p.cursors]}
    /\ UNCHANGED <<page, db>>

WalletsNext ==
    /\ page.at = "wallets"
    /\ \/ \E q \in Sought \cup {None} : Search(q)
       \/ \E a \in Accounts \cup {None} : TypeAddress(a)
       \/ \E a \in Accounts : ToggleWallet(a) \/ OpenWallet(a)
       \/ \E kind \in {"tag", "rename", "delete"}, who \in SUBSET Accounts : OpenDialog(kind, who)
       \/ ToggleAllWallets \/ CloseDialog \/ RefreshList \/ TurnPage \/ RefreshSettles \/ ShowAdd
       \/ StartCheck \/ \E n \in Networks : ChooseNetwork(n)
       \/ Track \/ RenameWallet \/ SaveTag \/ DeleteSelectedWallets
       \/ FollowUrl \/ BackToList \/ HistoryBack
       \/ \E r \in wire :
            \/ ListArrives(r) \/ Checked(r) \/ Tracked(r) \/ Renamed(r) \/ TagCreated(r)
            \/ Attached(r) \/ Deleted(r) \/ Opened(r)
            \/ ServeWrite(r) \/ ServeRead(r)

-----------------------------------------------------------------------------
(* Properties *)

WalletsTypeOK == page.at = "wallets" =>
    /\ page.url \in Accounts \cup {None} /\ page.detail \in Accounts \cup {None}
    /\ page.rows \subseteq Row /\ page.cursors \subseteq {"prev", "next"} /\ page.ticked \subseteq Accounts
    /\ page.dialog \in {None, "add", "tag", "rename", "delete"}
    /\ page.network \in Networks \cup {None} /\ db \subseteq Row

\* Whatever the user types while lookups are under way, the account that is
\* sent to the catalogue was found on the network it is sent with.
TrackedWasFound == page.at = "wallets" =>
    \A r \in wire : r.op = "track" => \A a \in r.who : r.net \in FoundOn[a]

\* Once the answers to its own changes are in, the page of the list on display has
\* rows the server holds, as it holds them, and all of them when it was read from
\* the start and nothing came next; unless its last reading or one of these
\* answers crossed another change, or an answer never came.
WalletsListAgrees == page.at = "wallets" =>
    (page.stale \/ InFlight(Writes) \/ ShowsTable)
==============================================================================
