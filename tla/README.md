# releeve-platform in TLA+

TLA+ modules, TLC configurations and TLAPS proofs for the Releeve platform: a
block explorer that ingests Stellar ledgers, and a workspace product in which
organisations create virtual networks, simulate, debug and replay transactions,
and are alerted about contracts they watch.

Every definition was translated from the source: the Rust code and SQL
migrations of `src/backend`, the React components of `src/frontend`. A
definition's comment names the function it stands for, and `PROJECT.json` maps
it to its lines.

## 1. The system

Two backend processes share one Postgres and one Redis. `api` (several replicas)
serves HTTP and drains the e-mail outbox. `ingest` (daemons, one or more per
network) follows Horizon and a Soroban RPC node. Environments, simulations and
replays live in a separate service, Fork Core, traces in another, SourceLens; the
API calls them over HTTP and keeps rows that refer to them. The frontend is one
client-side application: pages that load, poll and change rows of the API.

    pages  --> api --(HTTP)--> Fork Core, SourceLens, Cloudflare mail, OAuth
    (tabs       |  \
    of one      |   +--> Redis   sessions cache, feed cache, rate limits
    browser)    v        ^
             Postgres    |        watermark and lock of the ingestion
                ^        |
                +----- ingest --(HTTP)--> Horizon, Soroban RPC, price feeds

Two kinds of difficulty run through this code, and the modules are about them.

* In the backend hardly any handler uses a database transaction over more than one
  statement, and none spans a remote call. The unit of interleaving is the SQL
  statement, the Redis command and the remote call, and a process can die between
  any two of them.
* In the frontend every page is a state machine over what the user does and the answers
  that come in. An answer belongs to the state the page was in when it was asked
  for. Between the two the user types, navigates, changes and leaves; answers
  overtake each other, fail, or never come. Cancelled flags, generation counters,
  abort controllers and `busy` flags are what the code has against that, each page in
  its own way, and some loads have none.

### The backend (`src/backend/crates`)

| Component | Source | State | Operations | Where it is hard |
|---|---|---|---|---|
| E-mail outbox | `api/src/email_queue.rs`, `mailer.rs` | `email_outbox` rows | enqueue, recover stale claims, claim a batch, send, record | several drain loops, claims that outlive their statement, crash between send and record, late results |
| Ledger ingestion | `ingest/src/worker.rs`, `sync.rs`, `state.rs`, `daemon.rs` | Redis watermark and lock, `ledgers`, `transactions` | lock, start, tail jump, page, store, move the watermark | a lock that lapses, get-then-set of the watermark, one unpaged request for the transactions, refused or dropped ones, loss of Redis |
| Environment mirror | `api/src/environments.rs` | `fork_environments`, `environment_mutations`, `simulation_runs` | create, fork, clone, get, list, delete, simulate | idempotency across a remote call, rows written from a stale answer, foreign keys |
| Alert evaluation, alerts API | `ingest/src/alerts_eval.rs`, `api/src/monitoring.rs` | `alerts`, `alert_firings`, `destination_deliveries` | evaluate, fire, deliver, edit, delete | firing and deliveries are separate statements under a dedupe key |
| Sessions | `api/src/auth/sessions.rs`, `tokens.rs` | `refresh_tokens` | issue, rotate with a 30 s grace, revoke | rotation racing rotation, reuse |
| Accounts, OAuth, organisations | `api/src/auth/*.rs`, `oauth.rs`, `orgs.rs` | users, members, invitations, projects, tokens | sign-up, sign-in, invite, claim, accept, revoke, patch, transfer | an account and its invitations are written in separate statements |
| Simulations and replays | `api/src/simulations.rs`, `replays.rs` | `simulation_runs`, `historical_replay_*` | create, poll, cancel, analyse | late poll overwrites a final status |
| Upstream policy | `ingest/src/upstream.rs`, `ratelimit.rs` | breaker counters, Redis window | back-off, circuit breaker, sliding window | half-open probe |
| Explorer reads, decoding, shared types, clients, HTTP surface | `api/src/explorer*.rs`, `ingest/src/decode.rs`, ... | caches | queries and conversions | none over time |

### The frontend (`src/frontend/src`)

| Component | Source | State | Where it is hard |
|---|---|---|---|
| API client and session | `lib/api.ts`, `lib/auth-context.tsx` | one refresh promise per tab, the cookies of the browser | two tabs refresh one token, lost answers |
| Sign-in, invitation | `components/auth`, `layout/conditional-shell.tsx`, `organizations/invite-accept.tsx` | what the tab knows of its session | the claim of an invitation, what 409 means |
| Organisation pages | `components/organizations` | projects, members, invitations, tokens, name | lists read across changes, confirmations that outlive their row |
| Project shell | `app/releeve-app.tsx`, `settings-pages.tsx` | organization, project, network, memory, URL | four loads that all set the scope |
| Accounts, contracts | `app/project-pages.tsx` | a page of the catalogue, selection, dialogs, look-ups | cursors, look-ups after a pause, partial success |
| Alerts | `app/project-pages.tsx`, `storage-key-builder.tsx` | rules, histories, the rule builder | a key builder per condition, each with three loads |
| Virtual networks | `app/project-pages.tsx`, `environment-workspace.tsx` | list, URL, workspace, cache | list and URL both select, polls, shared `busy` |
| Simulator, debugger | `app/project-pages.tsx` | form, typed arguments, runs, timeline | seven effects that depend on each other, overlapping polls |
| Historical replay | `app/replay-pages.tsx` | period, targets, replay, timeline | chains of timers |
| RPC workbench | `app/rpc-builder.tsx` | documents | answers for a document that is closed or dropped |
| Explorer | `explorer/*.tsx`, `releeve-app.tsx` | feed, search, pages of rows, graph | polls, events and network changes feed one list |
| Display, marketing, documents | the rest | none or one load | none |

What makes each correct, and where it is stated:

* Outbox: a mail marked sent was delivered, finished rows stay finished, every mail
  finishes, and no two drain loops work on one row (`EmailOutbox`).
* Ingestion: neither the watermark nor max(sequence) covers a ledger that lacks a served
  transaction for no recorded reason; the watermark never goes back, has one writer, and
  catches up (`IngestSync`).
* Mirror: all answers under one idempotency key are the same result, a list takes
  away only what is gone, a deleted environment does not come back (`EnvironmentMirror`).
* Alerts: one firing for an alert and a transaction, one delivery per destination, no
  matching alert missed (`AlertDelivery`).
* Sessions: one live successor of a sign-in, no alarm for what the tabs themselves
  do, nobody told by a 401 that he is signed out without cause (`BrowserSession`).
* Pages: what is on display is what the server has, or had when asked, for what
  the page names; what is sent is what is on display; what waits is waited
  for by something that comes (the other modules).

## 2. Modules

| Module | What it is |
|---|---|
| `MailPromise`, `MutationPromise` | abstract: what queueing a mail, and what an idempotency key promises |
| `EmailOutbox`, `IngestSync`, `EnvironmentMirror`, `AlertDelivery` | the four backend components, statement by statement |
| `EmailOutboxProofs`, `IngestSyncProofs`, `EnvironmentMirrorProofs`, `AlertDeliveryProofs`, `BrowserSessionProofs` | 27 theorems about them and about `BrowserSession` |
| `MCEmailOutbox`, `MCIngestSync`, `MCEnvironmentMirror`, `MCAlertDelivery` | their instances |
| `BrowserSession` | the tabs of one browser, their calls and refreshes, and the rotation of tokens by the server |
| `PageHost` | what all pages share: a page, the calls on their way, the rows of the server |
| `PagedList` | a list that is read one page at a time, with cursors |
| `SignInPages` | the forms, the guard of the routes, the page of an invitation, and the server behind it |
| `OrgProjects`, `OrgSettings`, `MembersPage` | the pages of an organisation |
| `ProjectShell` | the scope of the project pages, its memory and its URL, and the project's settings |
| `WalletsPage`, `ContractsPage` | the two catalogues |
| `AlertsPage`, `AlertBuilder` | the alert rules, and the builder of one with its storage keys |
| `VirtualEnvPage`, `WorkspaceTabs` | the list of virtual networks with the workspace, and the workspace's tabs and linked accounts |
| `SimulationForm`, `ArgumentForm`, `SimulationRuns`, `DebuggerPage` | the inputs of a simulation, its typed arguments, the runs that are polled, the debugger |
| `ReplayPages` | the four pages of historical replay |
| `RpcBuilder` | the JSON-RPC workbench |
| `ExplorerFeed`, `EntityPages`, `TransferSums` | the explorer: live feed, home figures and search; pages of rows, events and the graph; the netting of transfers |
| `MCWorkspacePages` | the pages of an organisation, the shell and the catalogues composed, and their instance |
| `ProjectPages`, `MCProjectPages` | the other pages of a project and the explorer composed; sample values for their instance |
| `WorkspacePagesProofs` | an inductive invariant for each page of `MCWorkspacePages`, and 6 theorems about all of them |
| `ProjectPagesProofs` | the same for `ProjectPages`, the sums of transfers, and 8 theorems |
| `ArgumentFormProofs` | induction on numbers and on types, and 3 theorems about the arguments of every type |

A definition whose comment begins with "Mutant:" is not part of the
specification. It is a plausible bug of the definition that follows it, and
substituting it must break the property that `PROJECT.json` names with it.

### EmailOutbox

A worker is the drain loop of one API replica; its `pc` is the next statement of
`process_outbox_once`. `RecoverStale` and `Claim` are the two UPDATEs that open a
pass, `Send` is the call of the mail provider, `RecordSent`, `RecordBounce` and
`RecordFailure` are the three UPDATEs by row id that follow it. `Abandon` is a
failed statement (the `?` ends the pass) or the death of the process: claimed rows
stay in `sending`. Timestamps are relative to `now()`, so `Tick` is the only clock.

An error of the provider says nothing about delivery, so `Send` chooses the
result and the delivery independently wherever the provider may (a timeout after
the mail was accepted).

`Overrun` says whether a pass may outlast `STALE_CLAIM_SECS` (600 s). The rows of
a batch are claimed together and sent one after the other by a client without a
time-out, so nothing in the code excludes it. Both values are checked, because
the strong properties need `Overrun = FALSE`: with it TRUE another replica takes
over rows a live pass is still sending, and the late results then hit the row by
id. What holds in spite of that is `SentMeansDelivered` and `RetryHasBudget`.

### IngestSync

A worker is an ingest daemon, its `pc` the next await of `sync_network`. `ttl` is
the Redis lock, taken by SET NX EX, never renewed and never released: `Tick`
lets it lapse. `TailStart` is the jump to the last `max_ledgers_per_pass` ledgers of a
long backlog; `skipped` records which ledgers it left out. `FetchTxs` is
the one request for a ledger's transactions, without limit or cursor: of `TxCount` it brings the
first `TxPage` (ten in Horizon), and the pass never hears of the rest. `ReadMark` and
`WriteMark` are the GET and the SET of `set_watermark`, two commands. `RefuseTxs`,
`FallBack` and `DropTx` are the error branches of the transaction loop which go on
with the ledger (`RefuseTxs` also stands for an answer without records, which counts as an
empty list); `EndPass` is any error that leaves the pass, and a crash. `cut` records the ledgers
whose header is stored and within which a pass ended. `Flush` is the loss of the Redis data,
after which `ReadMaxSequence` starts behind the last header of the network in Postgres. That
is no reason of its own for a gap: of a ledger that is cut it decides only whether it is
begun again or passed over. The fields of Horizon's records are trusted.

### EnvironmentMirror

A call is one HTTP request; its kind and parameters are chosen in `Init` and its
`pc` is the next statement of its handler. `fork` and `clone` run the same
function, `derive_environment`, and are one kind. Fork Core is external and
modelled by what the handlers rely on: it makes one environment per operation and
key, answers a repeated key with it, and refuses what it does not have.

`persist_environment` is two statements: `InsertRow` (upsert) and `LinkRow` (the
lineage columns, with the foreign key to the source's row). `ConfigureCreate` and
`ConfigureDerive` are the UPDATEs that give the row its secret: the first writes
whatever the row has, the second only while no secret was set. `Lookup`,
`RecordCreate`, `RecordDerive` and `Reread` are the statements on
`environment_mutations`; the first of the two INSERTs fails on a conflict, the
second looks again. `Referenced` is the effect of the foreign keys on a DELETE.
`Fail` ends a call at any point: a failed statement, a lost answer, a crash.

`wiped`, `held` and `unlisted` are history: they record the circumstances under which a
property is not claimed (a row deleted and made up again, a deletion overtaken
by an older answer, an environment younger than a list's answer).

### AlertDelivery

A call is an evaluation the ingester spawned (`evaluate_for_tx`), one the API was
asked for (`evaluate_transaction_alerts`), or a request that creates, patches
or deletes an alert, deletes a destination or tests one. Its `pc` is the next
statement. An evaluation walks the projects (`todo`), the enabled alerts of a
project (`left`), and for each alert the three SELECTs of `load_alert` (`LoadRow`,
`LoadExprs`, `LoadDests`), between which any other call may write the alert. `Fire`
is the INSERT with ON CONFLICT DO NOTHING: who loses the race gets no id and goes on
with the next alert. `Deliver` inserts one delivery after the other; the API then
sends each (`Send`, `Record`), the ingester leaves it pending.

The two evaluations differ where a statement fails, and so do the branches of
`Broken`: the ingester logs the error and goes on with the next project, the API
returns it. `LoseDelivery` is the ignored error of the ingester's INSERT. What a
target and a list of expressions mean is abstracted to the set of transactions
they cover, an alert to a record of its row and its two child tables, which one
transaction writes. An alert of a deleted project or organisation is not modelled.

`by` and `tx` of a row are history: the call that inserted it and the transaction it is
about (the table names the alert but no transaction). `touched`, `skipped` and `lost` record under which circumstances a property
is not claimed: the alert was written while the evaluation ran, a statement
failed in its project, the INSERT of that very delivery failed.

### BrowserSession

A tab has two kinds of calls, the `me` of its start and the calls of its pages, and one
refresh promise they share (`api.ts:4`). A call is sent with the cookies of its
moment; a 401 makes it await the promise or start it, then pause 250 ms and try once
more. `ServeRefresh` is the whole of `rotate`: grace, reuse, alarm, successor. The
cookie jar belongs to the browser, so an answer that sets it reaches all tabs,
and an answer that is lost (`RefreshLost`, `Reload`) leaves a token in it that was
rotated. `Forgiven` is the grace of 30 s. `GraceEnds` ends it at any moment, whatever is on its
way, as the server compares two times and no request has a time-out. `CallFails` is any error
that is no 401, or none at all from a broken connection: the call is over without a refresh, and
the `catch` of `loadUser` leaves the tab without its user (`auth` is "failed"). `broken` is
history: what was lost, refused by the server, or slower than the grace.

### The pages

`PageHost` fixes how a page is modelled. `page` is the state of the mounted component, its
fields named after its `useState` and `useRef` variables; `wire` is the set of calls on
their way, each a record of what it was asked with and, once the server has acted,
what it answers; `db` is what the server has. A handler or effect is an action: it
changes `page` and may add calls (`Call`). An answer is an action of its own (`Then`),
which changes what the code changes after the `await`, under the guards that stand
there (`cancelled`, a generation, an aborted signal), and adds the calls that
follow. An effect runs in the same action as the change that triggers it. The server
serves each call in one step, at any time between, and may refuse; the answer
may get lost. Timers are calls without a server, so that they too can be late.

`MaxCalls` bounds the calls of a visit, the only counter of most pages; the lists
also open no dialog that no call could follow. A page is
visited from its own initial state and never left for another one: two
pages share no state but the memory of the workspace, which `OrgProjects` and
`ProjectShell` each have from both sides. So the composition is a disjunction. A visit
starts as the page mounts; `AlertsPage` starts also, and `VirtualEnvPage`
only, with its list read, which leaves both calls of the visit to the user.

Where a page is exposed to a race it does nothing about, the model has the race, and
the property says under which circumstance it is not claimed. The circumstances are
history fields of the page: `stale` (a list was read across a change, or the answer
to a change never came), `crossed` (an answer came after the user moved on), `cut`, `torn`
and `late` (three fates of the shell's look-ups), `moved` (a condition moved up under
another key builder), `freed` (a rotation or deletion ended while a form was under way). Each was put there because TLC refuted the property without
it; section 5 lists what it showed. A hazard that is wholly excused so is not counted as
covered in `PROJECT.json`: its note says so.

Per page:

* `SignInPages`. `asking` and `claiming` are the two points between statements of the server:
  `invite_member` has looked for the account, a sign-up has not claimed its
  invitations. `Accepts409` is the order of the refusals in `accept_invitation`.
* `OrgProjects` is three pages: the projects of an organisation, the list of
  organisations, the creation of one. `memory` is the workspace in local storage.
* `OrgSettings` has the name at three places (the form, the header, the cache the shell
  starts from) and the tokens; `MembersPage` has members and invitations, read together,
  and a confirmation (`confirm`, with `asked`, the member it was pressed for).
* `ProjectShell`. `url`, `memory`, `org`, `project`, `pid`, `list` are the scope;
  `AdoptEffect`/`AdoptArrives`/`AdoptProjectsArrive` the look-up of the URL,
  `ProjectsEffect` the list, `ShellInit` the remembered start.
* `WalletsPage`, `ContractsPage`: list, selection, four dialogs, the check of an address after
  a pause on two networks, and tags, created first and attached after. `PagedList` is what they and
  the rules have in common: a request without a cursor is answered with first rows, one with a cursor with rows
  after it, and the buttons are the cursors of the answer. The order of the rows and the size of
  a page (20) are left open, so any rows may be a page. The lists of members,
  tokens, projects and tags are asked for once with `limit=100` (`organization-settings-pages.tsx:42`, `:219`,
  `organization-workspace.tsx:293`) and assumed to fit. The rows of an answer and their tags are
  read by two statements, which the model takes as one. `Effects` is what a write may leave behind: all, nothing, some
  of the rows tagged (one request each), or the tags gone and the rows not (`delete_wallet_rows`).
* `AlertsPage`: rules and the histories of all rules (`Round` is one reading).
  `AlertBuilder`: a list of conditions, each of which may hold a key builder with its
  verification, schema and encoding.
* `VirtualEnvPage`: URL, list, selected network, workspace data with their cache, and one kind
  of change, which reads again. `WorkspaceTabs`: the tab in the URL, the account it
  names, linking, renaming, funding, which wait for one `busy` flag, and rotation and deletion
  (`Configure`), which do not, but free it. Polls are bounded to one list on its way.
* `SimulationForm`: mode, network, source, contract, and the five loads that depend on them; what is
  sent is a record of what it was made of. `ArgumentForm`: default, edit, validation and
  canonical form of a value, by the type that the contract declares: the editor of a type is made of the
  editors of its parts (`EditorOf`), as `TypeEditor` renders itself. `Inhabits` is the reference definition
  of what a type's canonical form looks like. `SimulationRuns`: loops that poll under a generation.
  `DebuggerPage`: a timeline read in pages, and stepping.
* `ReplayPages`: period and targets (`when`), which begin with the contract the URL names
  (`FromUrl`), exact replay, one replay, a timeline being indexed while it is read.
* `RpcBuilder`: documents, of which `MaxDocuments` are kept (14 in the code).
* `ExplorerFeed`: three pages: the feed of a network, the figures of the home page, the search.
  `EntityPages`: rows in pages of a chosen size, with a stack for Back; and the graph, whose
  layout is asynchronous. `TransferSums`: sums as the code makes them (`Decimal`, `Add`,
  `Apply`, transfer by transfer: `Balances`, `Grouped`) against the sums over the sets of a holder's transfers
  (`Exact`).

## 3. Runs

| Run | Instance | What it shows |
|---|---|---|
| `EmailOutboxPrompt` | 2 replicas, 2 mails, 2 attempts, 1 crash, passes in time, fair | claims exclusive, budget kept, final rows final, `MailPromise` implemented, every mail settles |
| `EmailOutboxOverrun` | 2 replicas, 2 mails, passes may outlast the stale limit | a mail marked sent was delivered; a row to retry has attempts left |
| `IngestSyncInTime` | 2 daemons of one network and 1 of another, 2 ledgers of 1 transaction, 1 failure, passes in time | one writer, watermark monotone, what max(sequence) covers lacks no served transaction without a reason |
| `IngestSyncOverlap` | 2 daemons, 2 ledgers of 2 transactions of which 1 is served, 1 failure, 1 loss of Redis, overlap, fair | no unexplained gap; every closed ledger accounted for, but for those jumped or passed over |
| `EnvironmentRaces` | any 3 requests of any kind over 3 environments and 1 key, 1 failure | answers agree (`MutationPromise`), answered secrets of forks work, lists and deletes take and keep away what they should |
| `AlertRaces` | any 3 evaluations or requests, 3 alerts in 2 projects, 2 destinations, 1 failure | one delivery each, no matching alert missed, fired as configured, no delivery dropped, history kept |
| `BrowserTabs` | 2 tabs, 3 tokens, failing calls, a grace that ends at any moment, fair | one live successor, an alarm only after a loss or a late refresh, signed out by a 401 for cause, no call waits for ever |
| `WorkspacePages` | the nine pages of an organisation, the shell and the catalogues; 2 calls a visit | `ListsAgree`, `CatalogHolds`, `ScopeHolds`, `AccountHolds`, `ViewsHold` |
| `ProjectPages` | the networks, simulator, debugger, replay, workbench and explorer; 2 calls a visit | `ListsAgree`, `UrlsAreFollowed`, `WorkspaceHolds`, `InputsHold`, `ResultsHold`, `ArgumentsHold` |
| `IngestSyncRefused` | 1 daemon, 1 failure | **violated**: a 4xx on a ledger's transactions moves the watermark over it |
| `InviteAccept` | 1 account, 1 invitation | **violated**: who is not a member cannot accept an invitation |
| `ProjectUrl` | 2 organisations, 2 projects | **violated**: a project URL is open and the scope is another project's |

The properties of the two page runs are conjunctions of one named part per page;
`MCWorkspacePages` and `ProjectPages` say what the conjunction means, the
page's module what each part does. Two are about what is computed and not about
an order of events: the arguments of a simulation (`ArgumentsHold`) and the sums of a
transaction's transfers (`NetsAreExact`, a part of `ResultsHold`).

Bounds, and why they are enough. Two workers show every pairwise interleaving; the
symmetric third adds overlap of the same kind. Two mails and a batch of two
make the order inside a batch and the wait of the second row matter; two attempts
reach the retry and the dead letter. Two ledgers with a page of two reach a full and a short
page, and with a window of one (`MaxLedgers`) a tail jump and a page boundary; two networks share the key of
each, and of two transactions a page of one leaves one out. Three
calls are two that race and one that disturbs them (a list, a delete or a
simulation); three environments are a source, a derived one and one more. One
failure meets every statement of every handler. For the alerts, three calls
are two evaluations that race and one that edits under them; the three alerts are
one that watches with two destinations, one that is still to be created and one
without destinations in the other project, so that each of the three loops turns twice.

Three tokens are a sign-in, its successor and either another successor or another
sign-in, which is what two tabs can disagree about. On a page, two of the user's calls
beside those the page makes by itself are an older and a newer one; two rows
are the one that is meant and another, and a page with one of them has a next page; two networks, organisations, projects and
queries are what one can be mistaken for. Two documents and three made reach the
document that is dropped. Four rows in pages of one and two have a first, a middle
and a last page, and a size that changes half way. Three interactions are indexed while the
pages that hold them are read, and a debugger has one event to a page. The types of the arguments name every kind, each of the
composite ones with one composed into it, and values up to two items long. Amounts of one and of
two places, and one that cannot be read, are what sums of two transfers can confuse.
The failure, send and flush counters are bounds of the instances only: the theorems
hold for all values.

Requests and visits end, so the runs of the mirror, the alerts and the pages do not
check for deadlock.

Fairness. `run_worker` is an endless loop around `process_outbox_once`, and the
daemon an endless interval around `sync_network`. Both continue after an error, so
weak fairness of each loop's own steps is what the runtime's scheduling gives;
time passes (`WF(Tick)`). `BrowserSession` assumes that the server answers a call that
is sent and that the browser's timers and promises run; a lost answer is an
answer, however late, and nothing is assumed of the user, of failing calls or of the grace. No fairness is assumed of crashes,
failures or of the arrival of work. On the pages, "nothing waits in vain" is stated as an
invariant instead: what waits has a call on its way that will end the wait. That
needs no fairness, and it fails where the code forgets to reset a flag.

## 4. Proofs

The theorems hold for every value of the constants: any number of replicas, rows,
daemons, networks, ledgers, requests, environments, tabs, tokens, calls of a visit, rows, transfers, types of
arguments, and failures. Assumptions are
the named ASSUMEs of the modules (ranges, and that `None` is no other value) and,
where a theorem says so, `Overrun = FALSE` or no loss of Redis.

* `EmailOutboxProofs`. The inductive invariant of exclusive claims says for each row in
  a batch that it is `sending`, younger than the stale limit, in no other batch, and has
  the attempts the pass read; without the age the stale rule breaks it, without the
  attempts the late result does. Finality, the retry budget and the refinement of
  `MailPromise` follow from it; `SentWasDelivered` and `RetriesHaveBudget` hold
  without it, so they cover overlapping passes.
* `IngestSyncProofs`. `NoGapIsUnexplained` and `RebuildIsExplained` rest on what each pass knows at its
  `pc`: of the ledgers before `next` each is explained (its served transactions are stored or given
  up, it was jumped over, cut or is under way in some pass), and so is the current one but for `todo`. As
  a pass begins after the watermark or after max(sequence), what they cover has to be explained
  by the invariant as well (`GapInv`). It needs no assumption on overlap,
  as transactions are only ever added, nor on networks, as a row counts for the network that stored it
  alone (`StoredKeeps`). `OneWriter` counts lock ticks: a running
  pass has ticks left. `WatermarkNeverRegresses` adds that the one writer's `next` is
  above the watermark.
* `EnvironmentMirrorProofs`. `KeysKeepPromise` uses `Agree`: a call past its record has the
  recorded result; a record never changes. `DerivedSecretsWork` needs in addition
  `Made` (two keys never share an environment, so no create writes a fork's row) and
  `Derived` (what a fork saw of its row since its upsert, and that the record's
  secret is the row's). This is exactly what fails for create: see section 5.
  `DeletedStaysAway` needs `Buried`: an environment that is gone and that some call still has to upsert is
  `held`, and a delete past its request to Fork Core has an environment that is gone. `AnsweredStays` needs in
  addition `Kept`: what a list got, with the `unlisted`, contains every live environment, so its purge takes
  none of them, and what is recorded or being worked on is mirrored while it lives.
* `AlertDeliveryProofs`. `Fresh` says that a delivery a call has still to write is not
  there yet and that the one it is sending is as it was inserted; `Books` ties each
  delivery to a firing by the same call, and two firings never share an alert and
  a transaction. So `DeliveredOnce` follows although nothing in the schema makes a
  delivery unique. `Ledger` accounts for each destination of a firing (written,
  lost, still pending in its call, or the call failed). `Courses` says that what an
  evaluation loaded by three SELECTs is what the tables hold of any alert nobody wrote
  since it began, and `Coverage` where in its loops a matching alert waits that has
  not fired; they give `FiredAsAsked` and `NoneMissed`.
* `BrowserSessionProofs`. `SessionIsSingle` needs that a login is named by a given token, so
  that no new sign-in shares one (`Given`). `NoFalseAlarm` rests on `OnItsWay` and `Replaced`: the successor
  in an answer is known to that answer alone, and while no answer is lost a consumed
  token in the jar is carried by the tab whose answer will replace it. So while no request has
  outlasted its grace, a token without grace is neither in the jar nor on its way, and nobody
  presents it. `NobodySignedOutForNothing` adds `Overtaken`: a tab that pauses after a
  refused refresh finds a new cookie, a dead token or another tab's answer on its way.
  It uses that the access cookie does not expire within the pause (`AccessExpires`), and says
  nothing of calls that fail otherwise.

* `WorkspacePagesProofs`, `ProjectPagesProofs`. Each page has an inductive
  invariant of its own (`MembersInv`, `ShellInv`, `RunsInv`, ...), always of four kinds of parts: the shape of
  the page's record; what a call on the wire may be and carry; what is known of an answer by then (a list that
  was read before a change is marked, a call of an older generation will be dropped); and, for each thing the run
  asks of the page, the call that is on its way whenever it does not hold yet. The properties say nothing
  of calls under way and are not inductive without these parts: that a list agrees once nothing is awaited, say, needs
  that an unmarked answer still on its way agrees already. TLC checked
  both `PagesInv` within the bounds of the runs, and most pages' invariants with three calls a visit, before they
  were proved.
  A page is never left, so `PagesInv`, the invariant of all, is the
  disjunction: a step is of the mounted page (`OnePageSteps`, `StepsAreGuarded`), which keeps
  its own (`...Keeps`). The properties of each run follow (`PagesHold`). The
  theorems of `ProjectPagesProofs` are about `PagesSpec`, the specification that the run checks.

  What the pages' proofs rest on beyond the operators' definitions:
  + wallets and contracts: the edits of rows by address commute and repeat without effect (`RowEdits` and the lemmas after
    it), so that an answer that repeats a change which the list has, or comes before one, does no harm. They leave
    rows of the table rows of it, and the whole of it whole (`AfterShown`), so nothing need be known of
    how a table is divided into pages;
  + the builder of a rule: every row has its own generation, so that a row that moves is the only one to be confused;
  + the form of a simulation: each of the five effects re-establishes one part of the invariant or leaves
    its inputs alone (`EffectsAgree`), so a handler is right if what it made of the page is right but for
    what the effects read again (`ChangedAgrees`);
  + runs: of the calls under one generation at most one may still change the display (`OneIsCurrent`);
  + the debugger: at most one page of its timeline is under way unless two loads crossed (`OnePageIsRead`);
  + the pages of rows: the cursors of the history grow (`WayGrows`), as every page has a row.

* Induction. The library's theorems on induction take an operator, which no installed prover can
  instantiate. Here what is to be shown of every number is a set of numbers, and that a set which
  holds 0 and the successor of each of its numbers holds them all follows from the well-foundedness of `<`,
  which the library states of a set (`LeastNatural`, `Induction`, `InductionTo`). With it every function that
  recurs over numbers, finite sets or types is first shown to exist (`SumsExist`, `ValuesExist`, `EditorExists`, ...)
  and then to satisfy its equation.
* The sums of transfers (`GroupedIsExact`). `SumsTake`: whichever member of a set is taken first, its sum is the same,
  by induction on how many there are. Adding two decimals adds what they stand for in units of the
  smallest place (`10^(m + n) = 10^m * 10^n`), so `Apply` changes the net of one key by the amount,
  whatever the places (`TransferMoves`). By induction on the transfers applied, a balance is the sum over
  what came in so far less the sum over what went out; and that an asset's changes add up to nothing follows from the
  same steps, each of which takes from one holder what it gives to another, who may be the same.
* `ArgumentFormProofs`. A type nests deeper than its parts, so what holds of a type whenever it holds of its
  parts holds of every type (`TypeInduction`). Three such inductions, with one lemma for each kind of type:
  + `AllFit`: the controls of a type keep every level of values that is deep enough for it. What an option, a result
    or a field shows while it is missing is the default of its part, and nests as deep as that;
  + `AllSound`: what is fine is sent in a form of the type, one level of forms above those of its parts;
  + `AllSurvive`: a type in which no result can be turned round has a set of values (`Safely`) that its controls start in and keep
    and of which none is read that is undefined: a list, a tuple or a struct of such sets, and a union whose
    field is that of its variant. `Values` itself will not do, as it holds a struct without its fields;
    nor will the reachable values as such, as those of a whole are not made of those of its parts alone: a list of texts is edited
    as one text. So each set is built from the sets of the parts, and what a simple type reads is every text.

  `ArgumentsInv` says that the value is one, and of the safe set of its type unless a result may have been turned
  round. It is inductive by `AllFit` and `AllSurvive`, and implies `ArgumentsHold` by `AllSound`.

The assumptions of the pages are such as their code makes: a value that stands for
"nothing", or for one that stands apart, is no other value (`OrgsAssumption`, `WatchedAssumption`,
`AddressesAssumption`, `RunsAssumption`, `FounderAssumption`), and the page sizes, which are positive, have a
smallest one, with which the page begins (`SizesAssumption`). There are finitely many holders, and no amount has more than `MostPlaces`
places, as a transaction is finite (`TransferSumsAssumption`). Of the types of arguments it is assumed that the parts of one
are types and nest less deep (`Depth`, up to any `Nesting`), that an enum or a union has a variant, and that no two fields or
variants of a declaration share a name, which the compiler of the contract sees to (`ArgumentFormAssumption`). A declaration that
names itself again inside a list or an option has no depth and is not covered: a type stands for its declaration here.

The proofs corrected the models where these could not be reasoned about or were wrong:

* In the catalogues, a list is marked `stale` also when the answers of two changes cross, and an answer also by
  another change than a reading (`Outdated`): with four calls a visit TLC refuted `WalletsListAgrees` without it.
* The look-up of a URL is also `late` when an earlier one has been adopted meanwhile: with three calls TLC
  refuted `ScopeFollowsUrl` without it.
* The refusals of `Accepts409` overlapped; the code decides them in order, which an IF says.
* The conditions of a rule are numbered by as many rows as there may be, not by two.
* `RpcBuilder!Update` says field by field what a patched document is.
* The validation of an argument stops at the first error, so an undefined value after one is not read. The
  model took the worst verdict of all, and found the page lost where it is not. A value that is undefined where
  the type is void is not read either.
* `FetchTxs` handed over the whole ledger and a start from Postgres skipped what it went past; the grace
  waited for the requests on their way, and `/me` never failed; the lists were read whole; the forms of a workspace had
  `busy` to themselves, and no contract came with the URL of a timeline. The models have all of these now. The properties say
  what is left of them, and section 5 what is not.
* Of the values that may crash the page it counted only those with a result at the top; a result
  inside a struct, an enum or a union can be turned round as well (`turns`).
* The canonical form of a struct begins with its name, and `bytes_n` is sent as `bytes`.
* The sums of transfers were compared with a sum made by the same fold, in the same order. They are compared with sums over sets of
  transfers now, and each asset with nothing.

Model-checked only: the liveness properties (`EveryMailSettles`, `CatchesUp`, `CallsEnd`), which
need fairness, for which the proof system has no rules (nor for ENABLED). Every other property of a passing run is a
theorem.

## 5. What the code does that its documents do not say

The three violated runs are findings in `PROJECT.json`. The following was shown by
runs of these modules, or by a property refuted on the way; no run singles it out.

Backend

* A live pass of the outbox can hold a stale claim (`email_queue.rs:28` calls such
  a claim orphaned), and its late result, written by row id (`email_queue.rs:130`),
  sets a dead-lettered row back to pending, though `email_queue.rs:8` says that
  bounces dead-letter immediately without retrying. Sends whose result was lost are not counted as attempts
  (`email_queue.rs:7` says ten); the wait is `30 s * 2^(attempts-1)`, where
  `email_queue.rs:7` has `2^attempts`.
* With passes that outlast the lock, two daemons write, though `sync.rs:7` says that the lock
  guarantees one, and the watermark can go back.
* A ledger is stored by its header, and max(sequence) is that of headers. If a pass ends between a header and its
  transactions and there is no watermark at the next start (the first ledger of all, or Redis was lost), the start is beyond
  that ledger, and its transactions are never fetched, though `state.rs:5` says that a worker can
  resume after a crash without gaps, and `sync.rs:6` that the watermark is rebuildable from Postgres and a Redis flush
  only pauses the coordination.
  `ledgers.sequence` is unique over networks (`state.rs:31`), so a ledger may have no row of its network, and
  max(sequence) may then be behind the watermark that was lost: the ledgers between are ingested again.
* The transactions of a ledger are one request without limit or cursor (`worker.rs:85`). Horizon answers with ten, and
  the rest of the ledger is never ingested, though `sync.rs:21` has the ledger fully ingested.
* Two creates under one key: the loser overwrites the secret the winner is about to
  answer (`environments.rs:848`), though `docs/troubleshooting.mdx:14` promises the same
  operation for the same key. A simulation run keeps a list from purging an
  environment that is gone, and the list then fails for ever (`environments.rs:723`,
  `0008_simulation.sql:37`).
* The ingester writes deliveries as pending (`alerts_eval.rs:204`) and no loop takes pending
  or retry rows up, though `landing-page.tsx:246` says that Releeve delivers when it happens and
  `settings-pages.tsx:554` speaks of retry policies; `max_retries` steers nothing.
* An alert with a delivery cannot be deleted (the deliveries' foreign key), though
  the confirmation in `project-pages.tsx:8326` says that deleting will stop future
  deliveries. An alert edited during its evaluation can fire in a form it never had.
* When the RPC node is down, re-ingesting an invocation replaces its richer
  detail by the Horizon record; when both are down it is dropped for good.
* Accepting an old pending invitation as a member overwrites the member's permissions
  (`orgs.rs:588`).

Sign-in, organisations, shell

* Any error of `/me` shows the tab as signed out, also a 5xx or a broken connection under a session that lives
  (`auth-context.tsx:67`); nothing tries again. A refresh that takes longer than the grace of 30 s (no request has a
  time-out, `api.ts:26`) while another tab's succeeds revokes every session of the account as a theft.
* `/signin?next=` is written by the guard and read by nobody. A sign-in whose `loadUser`
  fails shows an error although the session exists. Sign-out ignores errors.
* A member list read before a removal brings the row back; an invitee who accepts while the
  two lists are read is in both or in neither; of invitations sent one by one, those
  before a failure are not displayed; a saved edit closes whatever dialog is open by
  then; `viewerIsOwner` stays after a transfer.
* The shared `busy` flag of the settings lets a second token be created; its secret replaces the
  first on display. A project created after its dialog was closed takes the user
  along; closing and reopening the dialog allows a second creation.
* The project list remembers the first project when it arrives, also after another was
  chosen, against `releeve-app.tsx:2241`. A late list of organisations overrides the adopted
  scope or tears organisation from project; a project selected from an old list mixes two
  organisations; deleting a project goes on to the URL of the deleted one.

Catalogues and alerts

* "Back" of a list asks with a cursor for the rows after the first one shown, as "Next" does after the last
  (`explorer_detail.rs:455`, `monitoring.rs:130`): it never goes back. The page of a cursor whose rows are gone is empty and
  has no buttons, with no way to the start but a reload.
* Opening a row is not guarded: the later answer wins. A tag may be attached to some
  rows only. The history of one rule can appear under another; enabling a rule sends
  the whole row as it was read.
* Conditions are keyed by index (`project-pages.tsx:7462`), so removing one moves the next under another's
  key builder. Opening a saved rule whose first key variant has no fields overwrites its
  condition (`storage-key-builder.tsx:219`). A verification is not resolved again for
  another target (`:98`), so a key of the old contract is saved.

Networks, simulator, replay, workbench

* Back in the browser, from a network to the list, leaves its workspace open: `load` keeps the selection when the
  URL names none (`project-pages.tsx:4082`), and `4138` shows it.
* "Rotate credential" and "Delete environment" are not disabled by `busy` and free it when they end
  (`environment-workspace.tsx:802`, `:1109`): a form that is under way can then be sent a second time.
* The workspace is not keyed by network: settings typed for one can be saved to another.
  Older data can overwrite newer. A creation that is retried has a new
  `Idempotency-Key`, so the server cannot know it again.
* A decoded simulation on a historical ledger can never run (`project-pages.tsx:5142` clears the
  sequence number that `:6020` asks for). Opening a run does not bump the generation,
  and a failed cancellation leaves the run unpolled. Pressing "Load more" twice
  duplicates events; a refresh of the debugger starts its timeline over, and two overlapping ones
  start the debugger twice.
* In an argument, turning a result round keeps the value of the other side, which may crash
  the page on validation; a vector of booleans is never valid; an empty option and
  an option of nothing are sent alike.
* A contract that the URL names is selected for a timeline without having been looked for in the period, and is sent
  with it (`replay-pages.tsx:274`, `:360`), though the page lists contracts active inside the chosen period.
* Choosing the same period again empties the targets. An older poll undoes "cancelled" on the
  page. A failed poll ends polling.
* An answer of the workbench may stand in a document whose body was edited meanwhile.

Explorer

* Enter within the pause of 250 ms opens a suggestion of the query before
  (`global-explorer-search.tsx:138`). The page number is the length of the history plus
  one, which a change of the page size makes wrong. A page that fails has no retry. The
  refresh interval only sets a label. A stream that broke is not opened again. A sync
  error is overwritten by the load that follows it. Of two feeds, one may fail and leave the other
  newer. Failed requests count as zero in the home figures.
* In the graph an edge that the filter hides stays selected; with a search typed every choice
  of an edge lays out again and selects the match. An amount that cannot be read
  counts as zero (`asset-transfers.tsx:18`), and the value in dollars is that of the first transfer.

## 6. Not modelled, and the plan

Modelled partly or not at all, and why, is in `PROJECT.json` under "components".

* Backend: the e-mail senders are their three possible answers. Authorisation, validation
  and wording are left out of the environment handlers, as are the columns no
  other handler depends on; one project is modelled. Password resets, the linking of
  provider identities, permissions under concurrent demotion, the rows of
  simulations and replays, the upstream breaker and the rollups are not modelled.
* Pages: markup, wording, formatting, icons, layout, and pages that only display (trace, resource usage,
  details, account settings, billing, marketing, documents). The server behind a page is as
  coarse as the page can see it: one step per call. React batches the updates of a handler, so one handler is
  one step; an effect belongs to the step that triggers it. A cancelled simulation is cancelled at once, where
  `simulations.rs:700` answers 202 and the run may be "cancelling" for a while, which the page polls like a running one.
  The polls of a workspace that is being prepared may overlap (`environment-workspace.tsx:799`); the model has one list on its way. The development mode that runs
  effects twice is not modelled. `OrganizationSettingsPage` (`settings-pages.tsx:286`) and `ExplorerHome`
  (`explorer-home.tsx`) are used by no route.

What is left, in order of importance:

1. The rotation of refresh tokens by its two statements, with revocation and reset of
   the password.
2. The rows of simulations against late polls; the upstream breaker.
3. Destinations: their forms, their secret and their test.
