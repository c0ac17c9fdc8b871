-------------------------- MODULE MCWorkspacePages --------------------------
(***************************************************************************)
(* The way into the application, the pages of an organization, the frame   *)
(* around a project, its two catalogues and its alert rules, each visited  *)
(* from its own initial states: one page is mounted at a time.             *)
(***************************************************************************)
EXTENDS
    SignInPages, OrgProjects, OrgSettings, MembersPage, ProjectShell,
    WalletsPage, ContractsPage, AlertsPage, AlertBuilder, TLC

FoundOnValue == "1" :> {"mainnet", "testnet"} @@ "2" :> {"testnet"}
DeployedOnValue == "1" :> "mainnet" @@ "2" :> "testnet"
AddressedValue == {<<"1", "2">>}

Init ==
    \/ SignInInit \/ OrgProjectsInit \/ OrgSettingsInit \/ MembersInit
    \/ ShellInit \/ WalletsInit \/ ContractsInit \/ AlertsInit \/ BuilderInit
Next ==
    \/ SignInNext \/ OrgProjectsNext \/ OrgSettingsNext \/ MembersNext
    \/ ShellNext \/ WalletsNext \/ ContractsNext \/ AlertsNext \/ BuilderNext
Spec == Init /\ [][Next]_hostVars

\* A list on display is the server's, whatever was created, changed and removed
\* on the page, while nothing is on its way and every answer was heard; and one
\* that is read in pages, or read again, is of the page and the network it names.
ListsAgree ==
    /\ WalletsListAgrees /\ ContractsListAgrees /\ RulesListAgrees
    /\ MembersAgree /\ TokensAgree /\ ProjectsAgree

\* Nothing enters a catalogue that was not found on the chain, and nothing twice.
CatalogHolds == TrackedWasFound /\ ContractsAreDistinct

\* Where the user ends up is where the user meant to go, and may go: the
\* organization, the project, the memory and the URL belong together.
ScopeHolds ==
    /\ ScopeCoherent /\ ScopeFollowsUrl /\ OpensWhatItRemembers
    /\ EntersAsMember

\* An invitation is claimed by the account it is for, and an organization is
\* created once.
AccountHolds == NothingUnclaimed /\ OneOrganization

\* What is announced, confirmed or saved belongs to what the page shows by then.
ViewsHold ==
    /\ HeaderAgrees /\ AskedForThisOne
    /\ HistoryIsOfTheList /\ ConditionsAgree /\ KeysGoOn
=============================================================================
