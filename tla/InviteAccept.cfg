SPECIFICATION SignInSpec
CONSTANTS
    Sought = {"1"}
    MaxCalls = 2
INVARIANT InvitedMayAccept
CHECK_DEADLOCK FALSE
