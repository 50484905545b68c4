SPECIFICATION FairSpec
CONSTANTS
    Calls = {c1}
    MaxAttempts = 4
    Requests <- MCRequests
    MaxConcurrent = 1
    PoolSize = 2
    LoadAttempts = 2
    Faults = {"crash"}
CHECK_DEADLOCK FALSE
INVARIANT PermitsConserved
INVARIANT NoLostWakeup
INVARIANT ModelCallsExplained
PROPERTY WaitersServed
