SPECIFICATION Spec
CONSTANTS
    Jobs = {j1, j2}
    Workers = {w1}
    Commits = {c1}
    Branches = {main, dev}
    NoWorker = NoWorker
    NoJob = NoJob
    NoCommit = NoCommit
    NoBranch = NoBranch
    MaxAttempts = 2
    MaxVersion = 2
    Batches = {1}
    Requests = {"select", "metadata", "push"}
    Faults = {"access", "listing", "public", "queue"}
CHECK_DEADLOCK FALSE
SYMMETRY Symmetry
PROPERTY NoStaleActivation
