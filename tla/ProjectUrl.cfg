SPECIFICATION ShellSpec
CONSTANTS
    Orgs = {"o1", "o2"}
    ProjectIds = {"1", "2"}
    Sought = {"1"}
    MaxCalls = 2
INVARIANT UrlWins
CHECK_DEADLOCK FALSE
