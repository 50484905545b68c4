SPECIFICATION MCFairSpec
CONSTANTS
    Jobs = {j1, j2}
    Workers = {w1}
    Commits = {c1}
    Branches = {main}
    NoWorker = NoWorker
    NoJob = NoJob
    NoCommit = NoCommit
    NoBranch = NoBranch
    MaxAttempts = 2
    MaxVersion = 2
    Batches = {1}
    Requests = {"reindex"}
    Faults = {"crash", "queue", "service"}
CHECK_DEADLOCK FALSE
PROPERTY JobsSettle
