SPECIFICATION MCFairSpec
CONSTANTS
    Questions = {q1}
    Jobs = {j1, j2}
    Commits = {c1}
    MaxCalls = 2
    Faults = {"github", "tool", "provider", "transport", "timeout"}
    ModelCalls = {m1, m2}
    ModelSlots = 1
    ModelAttempts = 3
    Tabs = {t1, t2}
    MaxRequests = 2
    NoTab = NoTab
    MaxLoads = 2
    SessionFaults = {"network", "api", "clock"}
    Entries = {e1, e2}
    MaxFileCount = 1
    AnalysisFaults = {"git", "kill", "cleanup", "lease"}
CHECK_DEADLOCK FALSE
INVARIANT RequestsTypeOK
INVARIANT EvidenceFromActiveIndex
INVARIANT CheckedSinceLastCall
INVARIANT CallsSettled
INVARIANT OneLivePerFamily
INVARIANT RevocationReachesOlder
INVARIANT ReuseExplained
INVARIANT ReadersHaveWorkspace
INVARIANT ParsingReported
PROPERTY RequestsEnd
