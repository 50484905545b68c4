SPECIFICATION Spec
CONSTANTS
    Jobs = {j1}
    Workers = {w1, w2, w3}
    Commits = {c1}
    Branches = {main}
    NoWorker = NoWorker
    NoJob = NoJob
    NoCommit = NoCommit
    NoBranch = NoBranch
    MaxAttempts = 2
    MaxVersion = 1
    Batches = {1}
    Requests = {"reindex"}
    Faults = {"crash","overlap"}
CHECK_DEADLOCK FALSE
INVARIANT AttemptsBounded
