SPECIFICATION ObservabilitySpec
CONSTANTS
    r1 = r1
    r2 = r2
    MaxChunks = 8
    Size <- MCSize
    MaxBytes = 3
    MaxFiles = 3
    MaxRestarts = 2
    Requests <- MCRequests
    Rate = 250
    Burst = 1500
    Grain = 5
    Cap = 2
    MaxClock = 4
    MaxRoutes = 4
    MaxBack = 1
INVARIANTS ReadsInOrder AdmissionBounded WindowIsNewest
PROPERTIES ImplementsLog WritesSettle WaitAndOneMoreSuffices
CHECK_DEADLOCK FALSE
