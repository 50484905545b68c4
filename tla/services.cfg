SPECIFICATION MCSpec
CONSTANTS
    GithubAccounts = {h1, h2}
    GoogleAccounts = {g1, g2}
    NoAccount = NoAccount
    Email <- SameEmail
    Legacy = {h1}
    Installations = {i1}
    MaxStates = 2
    MaxCallbacks = 3
    EventKinds = {"push", "topic_push", "branch_deleted", "edited", "deleted", "removed", "added",
                  "suspend", "unsuspend", "unsupported"}
    MaxEvents = 3
    MaxDeliveries = 2
    Users = {u1, u2}
    Names = {n1}
    MaxIds = 2
    MaxCommits = 2
    Branch <- DefaultBranch
    MaxAsks = 3
    AttachLimit = 1
    ActiveLimit = 2
    MaxQuestions = 2
    MaxWindows = 2
    PerMinute = 1
    PerDay = 1
    ChatFaults = {"redis", "database"}
    Repositories = {r1, r2, r3}
    Listings = {l1}
    PageSize = 1
    MaxPages = 2
    MaxChanges = 2
    Files = {f1, f2}
    MaxContent = 2
    MaxListed = 1
    MaxChangedFiles = 2
    MaxChangedBytes = 1
CHECK_DEADLOCK FALSE
SYMMETRY Symmetry
INVARIANT ServicesTypeOK
INVARIANT StateOpensOnce
INVARIANT GithubColumnAgrees
INVARIANT SharedGenerationsRaced
INVARIANT OpenJobsReported
INVARIANT OneOpenRun
INVARIANT OvershootExplained
INVARIANT RestorationExplained
INVARIANT QuotasHold
INVARIANT HistoryExplained
INVARIANT RevokedSteadyExplained
INVARIANT UsableExplained
INVARIANT BranchHasJob
INVARIANT BuiltFromHead
INVARIANT ModeTruthful
PROPERTY RevocationHolds
