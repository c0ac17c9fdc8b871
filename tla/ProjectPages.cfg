SPECIFICATION PagesSpec
CONSTANTS
    Envs = {"1", "2"}
    Addresses = {"1", "2"}
    Contracts = {"1", "2"}
    Networks = {"mainnet", "testnet"}
    Functions = {"f"}
    Filled = {{}, {"value"}, {"envelope", "ledger", "increase", "value"}}
    Runs = {"1", "2"}
    Events = 2
    Periods = {"5", "60"}
    Targets = {"1", "2"}
    Interactions = 3
    Names = {"S", "U", "x", "y"}
    Types <- SampleTypes
    Depth <- SampleDepth
    Nesting = 3
    ArgumentTypes <- SampleArguments
    MaxItems = 2
    Queries = {"q1", "q2"}
    MaxFound = 2
    Total = 4
    Sizes = {1, 2}
    Transfers <- SampleTransfers
    Holders = {"A", "B", "Mint"}
    Assets = {"XLM", "USDC"}
    MostPlaces = 2
    Amounts <- SampleAmounts
    MaxFlow = 2
    Methods = {"getHealth", "getFeeStats"}
    MaxDocuments = 2
    Sought = {"1"}
    MaxCalls = 2
INVARIANTS
    ListsAgree
    UrlsAreFollowed
    WorkspaceHolds
    InputsHold
    ResultsHold
    ArgumentsHold
CHECK_DEADLOCK FALSE
