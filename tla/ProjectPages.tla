---------------------------- MODULE ProjectPages ----------------------------
(***************************************************************************)
(* The pages of a project that follow what runs elsewhere -- the virtual   *)
(* networks, the simulator, the debugger, historical replay and the        *)
(* workbench -- and the explorer: one page is mounted at a time.           *)
(***************************************************************************)
EXTENDS
    VirtualEnvPage, WorkspaceTabs, SimulationForm, ArgumentForm, SimulationRuns,
    DebuggerPage, ReplayPages, RpcBuilder, ExplorerFeed, EntityPages, TransferSums

PagesInit ==
    \/ EnvsInit \/ TabsInit
    \/ FormInit \/ ArgumentsInit \/ RunsInit \/ DebugInit \/ ReplaysInit
    \/ FeedInit \/ HomeInit \/ SearchInit \/ EntityInit \/ GraphInit \/ SumsInit \/ RpcInit
PagesNext ==
    \/ EnvsNext \/ TabsNext
    \/ FormNext \/ ArgumentsNext \/ RunsNext \/ DebugNext \/ ReplaysNext
    \/ FeedNext \/ HomeNext \/ SearchNext \/ EntityNext \/ GraphNext \/ SumsNext \/ RpcNext
PagesSpec == PagesInit /\ [][PagesNext]_hostVars

\* A list on display is the server's, whatever was created, changed and removed
\* on the page, while nothing is on its way and every answer was heard; and one
\* that is read in pages, or read again, is of the page and the network it names.
ListsAgree == EnvsListAgrees /\ LinkedAgree /\ PagesAgree /\ FeedIsOfTheNetwork

\* A URL that names a network has no other one open, and the account that is open
\* is the one of the URL.
UrlsAreFollowed == LinksAreFollowed /\ AccountFollowsUrl

\* The workspace of a virtual network shows its latest data, and its forms wait
\* for one another and for nothing else.
WorkspaceHolds == WorkspaceIsCurrent /\ FormsWait

\* What is sent belongs to what the inputs say at that time, and no input waits
\* for an answer that will not come.
InputsHold ==
    /\ InputsAgree /\ NobodyWaitsInVain /\ RequestsAgree
    /\ WatchesWhatWasFound /\ SearchComesToRest

\* However what runs is polled, paged, refreshed and cancelled, the page shows
\* the one thing it polls, all of it, and stops waiting when it is over; an answer
\* is where it was asked for, a graph is of what it is drawn from, and the balance
\* changes of a transaction are the sums of its transfers.
ResultsHold ==
    /\ OneLoopPolls /\ CancelledStaysSo /\ BusyForACause
    /\ TimelineIsAPrefix /\ StartingEnds
    /\ ActiveIsPolled /\ ReadyIsComplete
    /\ AnswersFindTheirDocument /\ GraphIsOfTheFilter /\ NetsAreExact
=============================================================================
