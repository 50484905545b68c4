SPECIFICATION Spec
CONSTANTS
    Jobs = {j1}
    Workers = {w1, w2}
    Commits = {c1}
    Branches = {main}
    NoWorker = NoWorker
    NoJob = NoJob
    NoCommit = NoCommit
    NoBranch = NoBranch
    MaxAttempts = 2
    MaxVersion = 1
    Batches = {1}
    Requests = {"reindex"}
    Faults = {"lease"}
CHECK_DEADLOCK FALSE
PROPERTY DeletesOnlyInactiveScopes
