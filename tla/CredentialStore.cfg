SPECIFICATION CredentialSpec
CONSTANTS
    c1 = c1
    c2 = c2
    p1 = p1
    p2 = p2
    Callers <- MCCallers
    Providers <- MCProviders
    MaxMade = 3
INVARIANTS AloneIsExact TimestampVouches
CHECK_DEADLOCK FALSE
