SPECIFICATION Spec
CONSTANTS
    Calls = {c1, c2}
    MaxAttempts = 2
    Requests <- MCRequests
    MaxConcurrent = 1
    PoolSize = 2
    LoadAttempts = 2
    Faults = {}
CHECK_DEADLOCK FALSE
INVARIANT InferenceSerialized
