SPECIFICATION Spec
CONSTANTS
    Jobs = {j1, j2}
    Workers = {w1, w2}
    Commits = {c1, c2}
    Branches = {main}
    NoWorker = NoWorker
    NoJob = NoJob
    NoCommit = NoCommit
    NoBranch = NoBranch
    MaxAttempts = 2
    MaxVersion = 2
    Batches = {1, 2}
    Requests = {"push"}
    Faults = {"crash", "service", "wakeup"}
CHECK_DEADLOCK FALSE
SYMMETRY Symmetry
INVARIANT TypeOK
INVARIANT OneWorkerPerRepository
INVARIANT AttemptsBounded
INVARIANT DeliveryEndsWithJob
INVARIANT BusyStatusExplained
PROPERTY ServesReaders
