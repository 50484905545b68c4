SPECIFICATION Spec
CONSTANTS
    Jobs = {j1, j2}
    Workers = {w1, w2}
    Commits = {c1, c2}
    Branches = {main}
    NoWorker = NoWorker
    NoJob = NoJob
    NoCommit = NoCommit
    NoBranch = NoBranch
    MaxAttempts = 2
    MaxVersion = 2
    Batches = {1}
    Requests = {"push"}
    Faults = {"lease", "overlap"}
CHECK_DEADLOCK FALSE
SYMMETRY Symmetry
INVARIANT ActiveIndexConsistent
PROPERTY PublishesLikeActiveIndex
