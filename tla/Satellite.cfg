SPECIFICATION FairSpec
CONSTANTS
    r1 = r1
    Requests <- MCRequests
    Retries = 2
INVARIANTS RepeatedOnlyForLost OutcomeIsEarned
PROPERTIES RequestsSettle
CHECK_DEADLOCK FALSE
