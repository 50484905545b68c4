SPECIFICATION Spec
CONSTANTS
    Calls = {c1, c2}
    MaxAttempts = 2
    Requests <- MCRequests
    MaxConcurrent = 1
    PoolSize = 2
    LoadAttempts = 2
    Faults = {"crash"}
CHECK_DEADLOCK FALSE
INVARIANT OutagesRetried
