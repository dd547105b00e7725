SPECIFICATION FairSpec
CONSTANTS
    p1 = p1
    p2 = p2
    p3 = p3
    r1 = r1
    r2 = r2
    Providers <- MCProviders
    Kind <- MCKind
    IdRank <- MCIdRank
    Policy = "cost"
    RouteHints <- NoHints
    Requests <- MCRequests
    RetryBudget = 1
    Threshold = 2
    Cooldown = 1
    MaxClock = 1
INVARIANTS OpenIffEarned ExhaustedBeforeFailing
PROPERTIES LeftAloneAfterFailures EveryRequestSettles
CHECK_DEADLOCK FALSE
