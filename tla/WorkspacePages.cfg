SPECIFICATION Spec
CONSTANTS
    Accounts = {"1", "2"}
    Contracts = {"1", "2"}
    FoundOn <- FoundOnValue
    DeployedOn <- DeployedOnValue
    ScopeNetwork = "testnet"
    People = {"1", "2"}
    Registered = {"1"}
    Addressed <- AddressedValue
    Rules = {"1", "2"}
    Watched = {"1", "2"}
    Destinations = {"d"}
    MaxConditions = 2
    Projects = {"1", "2"}
    Names = {"n1", "n2"}
    Tokens = {"1", "2"}
    Orgs = {"o1", "o2"}
    ProjectIds = {"1", "2"}
    Sought = {"1"}
    MaxCalls = 2
INVARIANTS
    ListsAgree
    CatalogHolds
    ScopeHolds
    AccountHolds
    ViewsHold
CHECK_DEADLOCK FALSE
