----------------------- MODULE IndexingTypes_proofs -----------------------
(***************************************************************************)
(* Type correctness of the indexing specification, for any number of       *)
(* jobs, workers, commits, branches and batches.  Each transaction of the  *)
(* store keeps its rows well formed, each change of a worker keeps its     *)
(* row well formed, and every action is a combination of the two.          *)
(***************************************************************************)
EXTENDS IndexingProperties, TLAPS

-----------------------------------------------------------------------------
(* The transactions of the store.                                          *)

(* Ending or releasing a lease writes a well-formed job row.               *)
LEMMA ReleaseType ==
    ASSUME job \in [Jobs -> JobRow], NEW j \in Jobs, NEW status \in Unfinished \cup Terminal
    PROVE  Release(j, status) \in [Jobs -> JobRow]
  <1> DEFINE row == [job[j] EXCEPT !.status = status, !.lockedBy = NoWorker, !.fresh = FALSE]
  <1>1. row \in JobRow
    <2>1. PICK old \in JobRow : old = job[j]
      OBVIOUS
    <2>2. PICK nobody \in Workers \cup {NoWorker} : nobody = NoWorker
      OBVIOUS
    <2>3. [old EXCEPT !.status = status, !.lockedBy = nobody, !.fresh = FALSE] \in JobRow
      BY DEF JobRow
    <2> QED
      BY <2>1, <2>2, <2>3
  <1>2. Release(j, status) = [job EXCEPT ![j] = row]
    BY DEF Release, JobRow
  <1> QED
    BY <1>1, <1>2

(* So does setting what the clock decides.                                 *)
LEMMA ClockType ==
    ASSUME NEW rows \in [Jobs -> JobRow], NEW j \in Jobs, NEW b \in BOOLEAN
    PROVE  /\ [rows EXCEPT ![j].fresh = b] \in [Jobs -> JobRow]
           /\ [rows EXCEPT ![j].due = b] \in [Jobs -> JobRow]
  <1> DEFINE freshened == [rows[j] EXCEPT !.fresh = b]
             timed == [rows[j] EXCEPT !.due = b]
  <1>1. freshened \in JobRow
    BY DEF JobRow
  <1>2. timed \in JobRow
    BY DEF JobRow
  <1>3. /\ [rows EXCEPT ![j].fresh = b] = [rows EXCEPT ![j] = freshened]
        /\ [rows EXCEPT ![j].due = b] = [rows EXCEPT ![j] = timed]
    OBVIOUS
  <1> QED
    BY <1>1, <1>2, <1>3

(* Updating the linked delivery keeps it well formed.                      *)
LEMMA DeliverType ==
    ASSUME delivery \in [Jobs -> DeliveryStatus], NEW j \in Jobs, NEW status \in DeliveryStatus
    PROVE  Deliver(j, status) \in [Jobs -> DeliveryStatus]
  BY DEF Deliver

(* claim writes well-formed rows.                                          *)
LEMMA ClaimType ==
    ASSUME ConstantsAssumption, StoreTypeOK, NEW j \in Jobs, NEW w \in Workers, Claim(j, w)
    PROVE  StoreTypeOK'
  <1>1. job' \in [Jobs -> JobRow]
    BY DEF Claim, StoreTypeOK, JobRow, Unfinished
  <1>2. repo' \in RepositoryRow
    BY DEF Claim, StoreTypeOK, RepositoryRow, RepositoryStatus
  <1>3. delivery' \in [Jobs -> DeliveryStatus]
    BY DeliverType DEF Claim, StoreTypeOK, DeliveryStatus
  <1> QED
    BY <1>1, <1>2, <1>3 DEF Claim, StoreTypeOK

(* authorized_context assigns a version that exists.                       *)
LEMMA AuthorizedContextType ==
    ASSUME ConstantsAssumption, StoreTypeOK, NEW j \in Jobs, AuthorizedContext(j)
    PROVE  StoreTypeOK' /\ ContextOf(j) \in Context
  <1>1. TargetOf(j) \in Versions \cup {0}
    BY DEF TargetOf, AuthorizedContext, StoreTypeOK, JobRow, RepositoryRow, Versions,
           ConstantsAssumption
  <1>2. job' \in [Jobs -> JobRow]
    BY <1>1 DEF AuthorizedContext, StoreTypeOK, JobRow
  <1>3. ContextOf(j) \in Context
    BY <1>1 DEF ContextOf, Context, StoreTypeOK, RepositoryRow
  <1> QED
    BY <1>2, <1>3 DEF AuthorizedContext, StoreTypeOK

(* heartbeat and stage.                                                    *)
LEMMA HeartbeatType ==
    ASSUME StoreTypeOK, NEW j \in Jobs, NEW w \in Workers, Heartbeat(j, w)
    PROVE  StoreTypeOK'
  <1>1. job' \in [Jobs -> JobRow]
    <2>1. job \in [Jobs -> JobRow]
      BY DEF StoreTypeOK
    <2>2. job' = [job EXCEPT ![j].fresh = TRUE]
      BY DEF Heartbeat
    <2> QED
      BY <2>1, <2>2, ClockType
  <1> QED
    BY <1>1 DEF Heartbeat, StoreTypeOK

LEMMA StageType ==
    ASSUME StoreTypeOK, NEW j \in Jobs, NEW w \in Workers, Stage(j, w)
    PROVE  StoreTypeOK'
  <1>1. CASE ~Leased(j, w)
    BY <1>1 DEF Stage, StoreTypeOK, store
  <1>2. CASE Leased(j, w)
    <2>0. job' = [job EXCEPT ![j].fresh = TRUE]
      BY <1>2 DEF Stage
    <2>1. job' \in [Jobs -> JobRow]
      BY <2>0, ClockType DEF StoreTypeOK
    <2>2. repo' \in RepositoryRow
      BY <1>2 DEF Stage, StoreTypeOK, RepositoryRow, RepositoryStatus
    <2> QED
      BY <1>2, <2>1, <2>2 DEF Stage, StoreTypeOK
  <1> QED
    BY <1>1, <1>2

-----------------------------------------------------------------------------
(* The builds: their CHECK constraints are part of the type.               *)

BuildsOK(rows) ==
    /\ rows \in [Versions -> BuildRow]
    /\ \A v \in Versions : ReadyCountsMatch(rows[v]) /\ ActiveCleanupNotRequired(rows[v])

(* Replacing one row by one that satisfies the constraints keeps them.     *)
LEMMA BuildRowReplaced ==
    ASSUME BuildsOK(build), NEW v \in Versions, NEW row \in BuildRow,
           ReadyCountsMatch(row), ActiveCleanupNotRequired(row)
    PROVE  BuildsOK([build EXCEPT ![v] = row])
  BY DEF BuildsOK

(* prepare_build.                                                          *)
LEMMA PrepareBuildType ==
    ASSUME ConstantsAssumption, StoreTypeOK, NEW j \in Jobs, NEW w \in Workers,
           NEW c \in Commits, PrepareBuild(j, w, c)
    PROVE  StoreTypeOK'
  <1> DEFINE row == [state |-> "building", job |-> j, commit |-> c, counted |-> FALSE,
                     graph |-> FALSE, cleanup |-> "pending"]
  <1>1. job[j].target \in Versions
    BY DEF PrepareBuild, CanPrepare, StoreTypeOK, JobRow, RepositoryRow, Versions
  <1>2. row \in BuildRow /\ ReadyCountsMatch(row) /\ ActiveCleanupNotRequired(row)
    BY DEF BuildRow, ReadyCountsMatch, ActiveCleanupNotRequired
  <1>3. BuildsOK([build EXCEPT ![job[j].target] = row])
    BY <1>1, <1>2, BuildRowReplaced DEF StoreTypeOK, BuildsOK
  <1>4. BuildsOK(build')
    BY <1>3 DEF PrepareBuild
  <1>5. symbols' \in [Versions -> Commits \cup {NoCommit}]
    BY DEF PrepareBuild, StoreTypeOK
  <1> QED
    BY <1>4, <1>5 DEF PrepareBuild, StoreTypeOK, BuildsOK, ReadyCountsMatch,
                      ActiveCleanupNotRequired

(* A transaction that changes nothing but one build row, to a good one.    *)
LEMMA OneBuildType ==
    ASSUME StoreTypeOK, UNCHANGED <<job, repo, symbols, delivery>>,
           NEW v \in Versions, NEW row \in BuildRow,
           ReadyCountsMatch(row), ActiveCleanupNotRequired(row),
           build' = [build EXCEPT ![v] = row]
    PROVE  StoreTypeOK'
  <1>1. BuildsOK([build EXCEPT ![v] = row])
    BY BuildRowReplaced DEF StoreTypeOK, BuildsOK
  <1>2. BuildsOK(build')
    BY <1>1
  <1> QED
    BY <1>2 DEF StoreTypeOK, BuildsOK, ReadyCountsMatch, ActiveCleanupNotRequired

(* The job's own build exists.                                             *)
LEMMA OwnBuildExists ==
    ASSUME StoreTypeOK, NEW j \in Jobs, NEW w, NEW state, OwnBuild(j, w, state)
    PROVE  job[j].target \in Versions
  BY DEF OwnBuild, StoreTypeOK, JobRow

(* record_vector_counts, validate_graph and mark_build_ready.              *)
LEMMA RecordVectorCountsType ==
    ASSUME StoreTypeOK, NEW j \in Jobs, NEW w \in Workers, RecordVectorCounts(j, w)
    PROVE  StoreTypeOK'
  <1> DEFINE v == job[j].target
             row == [build[v] EXCEPT !.counted = TRUE]
  <1>1. v \in Versions
    BY OwnBuildExists DEF RecordVectorCounts
  <1>a. build[v] \in BuildRow /\ ReadyCountsMatch(build[v]) /\ ActiveCleanupNotRequired(build[v])
    BY <1>1 DEF StoreTypeOK
  <1>2. row \in BuildRow /\ ReadyCountsMatch(row) /\ ActiveCleanupNotRequired(row)
    BY <1>a DEF BuildRow, ReadyCountsMatch, ActiveCleanupNotRequired
  <1>3. build' = [build EXCEPT ![v] = row]
    BY <1>1 DEF RecordVectorCounts, StoreTypeOK, BuildRow
  <1> QED
    BY <1>1, <1>2, <1>3, OneBuildType DEF RecordVectorCounts

LEMMA ValidateGraphType ==
    ASSUME StoreTypeOK, NEW j \in Jobs, NEW w \in Workers, ValidateGraph(j, w)
    PROVE  StoreTypeOK'
  <1> DEFINE v == job[j].target
             row == [build[v] EXCEPT !.graph = TRUE]
  <1>1. v \in Versions
    BY OwnBuildExists DEF ValidateGraph, GraphMatches
  <1>a. build[v] \in BuildRow /\ ReadyCountsMatch(build[v]) /\ ActiveCleanupNotRequired(build[v])
    BY <1>1 DEF StoreTypeOK
  <1>2. row \in BuildRow /\ ReadyCountsMatch(row) /\ ActiveCleanupNotRequired(row)
    BY <1>a DEF BuildRow, ReadyCountsMatch, ActiveCleanupNotRequired
  <1>3. build' = [build EXCEPT ![v] = row]
    BY <1>1 DEF ValidateGraph, StoreTypeOK, BuildRow
  <1> QED
    BY <1>1, <1>2, <1>3, OneBuildType DEF ValidateGraph

LEMMA MarkBuildReadyType ==
    ASSUME StoreTypeOK, NEW j \in Jobs, NEW w \in Workers, MarkBuildReady(j, w)
    PROVE  StoreTypeOK'
  <1> DEFINE v == job[j].target
             row == [build[v] EXCEPT !.state = "ready"]
  <1>1. v \in Versions
    BY OwnBuildExists DEF MarkBuildReady, CanMarkReady
  <1>2. row \in BuildRow /\ ReadyCountsMatch(row) /\ ActiveCleanupNotRequired(row)
    BY <1>1 DEF MarkBuildReady, CanMarkReady, StoreTypeOK, BuildRow, ReadyCountsMatch,
                ActiveCleanupNotRequired
  <1>3. build' = [build EXCEPT ![v] = row]
    BY <1>1 DEF MarkBuildReady, StoreTypeOK, BuildRow
  <1> QED
    BY <1>1, <1>2, <1>3, OneBuildType DEF MarkBuildReady

(* activate: the new row is ready, hence counted, and needs no cleanup;    *)
(* the previous one is no longer constrained.                              *)
LEMMA ActivateType ==
    ASSUME ConstantsAssumption, StoreTypeOK, NEW j \in Jobs, NEW w \in Workers,
           NEW c \in Commits, Activate(j, w, c)
    PROVE  StoreTypeOK'
  <1>1. job[j].target \in Versions /\ build[job[j].target].state = "ready"
    BY OwnBuildExists DEF Activate, CanActivate, OwnBuild
  <1>a. job[j].target # repo.version
    BY <1>1 DEF Activate, CanActivate, StoreTypeOK, RepositoryRow, Versions
  <1>2. BuildsOK(Activated(job[j].target))
    <2> SUFFICES ASSUME NEW v \in Versions
                 PROVE  LET row == Activated(job[j].target)[v] IN
                        row \in BuildRow /\ ReadyCountsMatch(row) /\ ActiveCleanupNotRequired(row)
      BY DEF BuildsOK, Activated
    <2> DEFINE row == Activated(job[j].target)[v]
    <2>1. build[v] \in BuildRow /\ ReadyCountsMatch(build[v]) /\ ActiveCleanupNotRequired(build[v])
      BY DEF StoreTypeOK
    <2>2. CASE v = job[j].target
      <3>1. row = [build[v] EXCEPT !.state = "active", !.cleanup = "not_required"]
        BY <1>a, <2>2 DEF Activated
      <3>2. build[v].counted
        BY <1>1, <2>1, <2>2 DEF ReadyCountsMatch
      <3>3. row \in BuildRow
        BY <2>1, <3>1 DEF BuildRow
      <3>4. row.counted = build[v].counted /\ row.cleanup = "not_required"
        BY <2>1, <3>1 DEF BuildRow
      <3> QED
        BY <3>2, <3>3, <3>4 DEF ReadyCountsMatch, ActiveCleanupNotRequired
    <2>3. CASE v # job[j].target /\ v = repo.version
      <3>1. row = [build[v] EXCEPT !.state = "superseded", !.cleanup = "pending"]
        BY <2>3 DEF Activated
      <3> QED
        BY <2>1, <3>1 DEF BuildRow, ReadyCountsMatch, ActiveCleanupNotRequired
    <2>4. CASE v # job[j].target /\ v # repo.version
      <3>1. row = build[v]
        BY <2>4 DEF Activated
      <3> QED
        BY <2>1, <3>1
    <2> QED
      BY <2>2, <2>3, <2>4
  <1>3. job' \in [Jobs -> JobRow]
    <2>1. Release(j, "complete") \in [Jobs -> JobRow]
      BY ReleaseType DEF StoreTypeOK, Terminal
    <2> QED
      BY <2>1 DEF Activate, JobRow
  <1>4. repo' \in RepositoryRow
    BY <1>1 DEF Activate, StoreTypeOK, RepositoryRow, RepositoryStatus
  <1>5. delivery' \in [Jobs -> DeliveryStatus]
    BY DeliverType DEF Activate, StoreTypeOK, DeliveryStatus
  <1>6. BuildsOK(build')
    BY <1>2 DEF Activate
  <1> QED
    BY <1>3, <1>4, <1>5, <1>6 DEF Activate, StoreTypeOK, BuildsOK, ReadyCountsMatch,
                                  ActiveCleanupNotRequired

(* record_failed_build_cleanup.                                            *)
LEMMA RecordFailedBuildCleanupType ==
    ASSUME StoreTypeOK, NEW v \in Versions, NEW complete \in BOOLEAN,
           RecordFailedBuildCleanup(v, complete)
    PROVE  StoreTypeOK'
  <1>1. CASE ~MayFailBuild(v)
    BY <1>1 DEF RecordFailedBuildCleanup, StoreTypeOK, store
  <1>2. CASE MayFailBuild(v)
    <2> DEFINE row == [build[v] EXCEPT !.state = "failed",
                                       !.cleanup = IF complete THEN "complete" ELSE "pending"]
    <2>1. build[v] \in BuildRow
      BY DEF StoreTypeOK
    <2>2. row \in BuildRow /\ ReadyCountsMatch(row) /\ ActiveCleanupNotRequired(row)
      BY <2>1 DEF BuildRow, ReadyCountsMatch, ActiveCleanupNotRequired
    <2>3. build' = [build EXCEPT ![v] = row]
      BY <1>2, <2>1 DEF RecordFailedBuildCleanup, StoreTypeOK, BuildRow
    <2>4. BuildsOK([build EXCEPT ![v] = row])
      BY <2>2, BuildRowReplaced DEF StoreTypeOK, BuildsOK
    <2>5. BuildsOK(build')
      BY <2>3, <2>4
    <2>6. symbols' \in [Versions -> Commits \cup {NoCommit}]
      BY <1>2 DEF RecordFailedBuildCleanup, StoreTypeOK
    <2>7. UNCHANGED <<job, repo, delivery>>
      BY <1>2 DEF RecordFailedBuildCleanup
    <2> QED
      BY <2>5, <2>6, <2>7 DEF StoreTypeOK, BuildsOK, ReadyCountsMatch,
                              ActiveCleanupNotRequired
  <1> QED
    BY <1>1, <1>2

(* complete_superseded_cleanup.                                            *)
LEMMA CompleteSupersededCleanupType ==
    ASSUME StoreTypeOK, NEW v \in Versions, CompleteSupersededCleanup(v)
    PROVE  StoreTypeOK'
  <1> DEFINE row == [build[v] EXCEPT !.cleanup = "complete"]
  <1>1. build[v] \in BuildRow
    BY DEF StoreTypeOK
  <1>2. ASSUME build[v].state \in {"superseded", "failed"} PROVE BuildsOK(build')
    <2>1. row \in BuildRow /\ ReadyCountsMatch(row) /\ ActiveCleanupNotRequired(row)
      BY <1>1, <1>2 DEF BuildRow, ReadyCountsMatch, ActiveCleanupNotRequired
    <2>2. build' = [build EXCEPT ![v] = row]
      BY <1>1, <1>2 DEF CompleteSupersededCleanup, StoreTypeOK, BuildRow
    <2>3. BuildsOK([build EXCEPT ![v] = row])
      BY <2>1, BuildRowReplaced DEF StoreTypeOK, BuildsOK
    <2>4. BuildsOK(build')
      BY <2>2, <2>3
    <2> QED
      BY <2>4
  <1>3. ASSUME build[v].state \notin {"superseded", "failed"} PROVE BuildsOK(build')
    <2>1. build' = build
      BY <1>3 DEF CompleteSupersededCleanup
    <2> QED
      BY <2>1 DEF StoreTypeOK, BuildsOK, ReadyCountsMatch, ActiveCleanupNotRequired
  <1>4. BuildsOK(build')
    BY <1>2, <1>3
  <1>5. symbols' \in [Versions -> Commits \cup {NoCommit}]
    BY DEF CompleteSupersededCleanup, StoreTypeOK
  <1> QED
    BY <1>4, <1>5 DEF CompleteSupersededCleanup, StoreTypeOK, BuildsOK, ReadyCountsMatch,
                      ActiveCleanupNotRequired

-----------------------------------------------------------------------------
(* The ends of a run and the requests: no build is touched.                *)

(* Such a transaction keeps the type if it writes well-formed rows.        *)
LEMMA RowsType ==
    ASSUME StoreTypeOK, UNCHANGED <<build, symbols>>,
           job' \in [Jobs -> JobRow], repo' \in RepositoryRow,
           delivery' \in [Jobs -> DeliveryStatus]
    PROVE  StoreTypeOK'
  BY DEF StoreTypeOK, ReadyCountsMatch, ActiveCleanupNotRequired

LEMMA MarkStaleType ==
    ASSUME StoreTypeOK, NEW j \in Jobs, NEW w, NEW status \in DeliveryStatus,
           MarkStale(j, w, status)
    PROVE  StoreTypeOK'
  <1>1. CASE ~Leased(j, w)
    BY <1>1 DEF MarkStale, StoreTypeOK, store
  <1>2. CASE Leased(j, w)
    <2>1. job' \in [Jobs -> JobRow]
      BY <1>2, ReleaseType DEF MarkStale, StoreTypeOK, Terminal
    <2>2. delivery' \in [Jobs -> DeliveryStatus]
      BY <1>2, DeliverType DEF MarkStale, StoreTypeOK
    <2> QED
      BY <1>2, <2>1, <2>2, RowsType DEF MarkStale, StoreTypeOK
  <1> QED
    BY <1>1, <1>2

LEMMA CancelRevokedType ==
    ASSUME StoreTypeOK, NEW j \in Jobs, NEW w, CancelRevoked(j, w)
    PROVE  StoreTypeOK'
  <1>1. CASE ~Leased(j, w)
    BY <1>1 DEF CancelRevoked, StoreTypeOK, store
  <1>2. CASE Leased(j, w)
    <2>1. job' \in [Jobs -> JobRow]
      BY <1>2, ReleaseType DEF CancelRevoked, StoreTypeOK, Terminal
    <2>2. delivery' \in [Jobs -> DeliveryStatus]
      BY <1>2, DeliverType DEF CancelRevoked, StoreTypeOK, DeliveryStatus
    <2>3. repo' \in RepositoryRow
      BY <1>2 DEF CancelRevoked, StoreTypeOK, RepositoryRow, RepositoryStatus
    <2> QED
      BY <1>2, <2>1, <2>2, <2>3, RowsType DEF CancelRevoked
  <1> QED
    BY <1>1, <1>2

LEMMA FailType ==
    ASSUME StoreTypeOK, NEW j \in Jobs, NEW w, NEW attempt, NEW retryable,
           Fail(j, w, attempt, retryable)
    PROVE  StoreTypeOK'
  <1> DEFINE retry == ShouldRetry(attempt, retryable)
             released == Release(j, IF retry THEN "retrying" ELSE "failed")
  <1>1. CASE ~Leased(j, w)
    BY <1>1 DEF Fail, StoreTypeOK, store
  <1>2. CASE Leased(j, w)
    <2>1. released \in [Jobs -> JobRow]
      BY ReleaseType DEF StoreTypeOK, Unfinished, Terminal
    <2>2. PICK due \in BOOLEAN : job' = [released EXCEPT ![j].due = due]
      <3>1. (~retry) \in BOOLEAN /\ job' = [released EXCEPT ![j].due = ~retry]
        BY <1>2 DEF Fail
      <3> HIDE DEF released, retry
      <3> QED
        BY <3>1
    <2>3. job' \in [Jobs -> JobRow]
      <3> HIDE DEF released
      <3> QED
        BY <2>1, <2>2, ClockType
    <2>4. delivery' \in [Jobs -> DeliveryStatus]
      BY <1>2, DeliverType DEF Fail, FailDelivery, StoreTypeOK, DeliveryStatus
    <2>5. repo' \in RepositoryRow
      BY <1>2 DEF Fail, FailedStatus, StoreTypeOK, RepositoryRow, RepositoryStatus
    <2> QED
      BY <1>2, <2>3, <2>4, <2>5, RowsType DEF Fail
  <1> QED
    BY <1>1, <1>2

LEMMA RecoverAbandonedType ==
    ASSUME StoreTypeOK, NEW j \in Jobs, NEW attempt, RecoverAbandoned(j, attempt)
    PROVE  StoreTypeOK'
  <1> DEFINE retry == attempt < MaxAttempts
             released == Release(j, IF retry THEN "retrying" ELSE "failed")
  <1>1. released \in [Jobs -> JobRow]
    BY ReleaseType DEF StoreTypeOK, Unfinished, Terminal
  <1>2. job' = [released EXCEPT ![j].due = TRUE]
    BY DEF RecoverAbandoned
  <1>3. job' \in [Jobs -> JobRow]
    <2> HIDE DEF released
    <2> QED
      BY <1>1, <1>2, ClockType
  <1>4. delivery' \in [Jobs -> DeliveryStatus]
    BY DeliverType DEF RecoverAbandoned, FailDelivery, StoreTypeOK, DeliveryStatus
  <1>5. repo' \in RepositoryRow
    BY DEF RecoverAbandoned, FailedStatus, StoreTypeOK, RepositoryRow, RepositoryStatus
  <1> QED
    BY <1>3, <1>4, <1>5, RowsType DEF RecoverAbandoned

(* A new job is a well-formed row.                                         *)
LEMMA NewJobType ==
    ASSUME NEW mode \in Modes, NEW generation \in Nat,
           NEW commit \in Commits \cup {NoCommit}, NEW branch \in Branches \cup {NoBranch}
    PROVE  NewJob(mode, generation, commit, branch) \in JobRow
  BY DEF NewJob, AbsentJob, JobRow, Unfinished, Modes

LEMMA RequestType ==
    ASSUME StoreTypeOK, NEW j \in Jobs,
           \/ SelectRepository(j)
           \/ \E c \in Commits \cup {NoCommit} : Reindex(j, c)
           \/ \E before, after \in Commits, forced \in BOOLEAN : ApplyPush(j, before, after, forced)
           \/ \E b \in Branches : ApplyRepositoryMetadata(j, b)
    PROVE  StoreTypeOK'
  <1> repo \in RepositoryRow /\ job \in [Jobs -> JobRow] /\ delivery \in [Jobs -> DeliveryStatus]
    BY DEF StoreTypeOK
  <1> repo.generation \in Nat /\ repo.generation + 1 \in Nat /\ repo.branch \in Branches
    BY DEF RepositoryRow
  <1>1. CASE SelectRepository(j)
    <2>1. job' \in [Jobs -> JobRow]
      BY <1>1, NewJobType DEF SelectRepository, Modes
    <2>2. repo' \in RepositoryRow
      BY <1>1 DEF SelectRepository, RepositoryRow, RepositoryStatus
    <2> QED
      BY <1>1, <2>1, <2>2, RowsType DEF SelectRepository
  <1>2. ASSUME NEW c \in Commits \cup {NoCommit}, Reindex(j, c)
        PROVE  StoreTypeOK'
    <2>1. job' \in [Jobs -> JobRow]
      BY <1>2, NewJobType DEF Reindex, Modes
    <2>2. repo' \in RepositoryRow
      BY <1>2 DEF Reindex, RepositoryRow, RepositoryStatus
    <2> QED
      BY <1>2, <2>1, <2>2, RowsType DEF Reindex
  <1>3. ASSUME NEW before \in Commits, NEW after \in Commits, NEW forced \in BOOLEAN,
               ApplyPush(j, before, after, forced)
        PROVE  StoreTypeOK'
    <2>1. job' \in [Jobs -> JobRow]
      BY <1>3, NewJobType DEF ApplyPush, PushMode, Modes
    <2>2. repo' \in RepositoryRow
      BY <1>3 DEF ApplyPush, RepositoryRow, RepositoryStatus
    <2>3. delivery' \in [Jobs -> DeliveryStatus]
      BY <1>3 DEF ApplyPush, DeliveryStatus
    <2> QED
      BY <1>3, <2>1, <2>2, <2>3, RowsType DEF ApplyPush
  <1>4. ASSUME NEW b \in Branches, ApplyRepositoryMetadata(j, b)
        PROVE  StoreTypeOK'
    <2>1. job' \in [Jobs -> JobRow]
      BY <1>4, NewJobType DEF ApplyRepositoryMetadata, Modes
    <2>2. repo' \in RepositoryRow
      BY <1>4 DEF ApplyRepositoryMetadata, RepositoryRow, RepositoryStatus
    <2>3. delivery' \in [Jobs -> DeliveryStatus]
      BY <1>4 DEF ApplyRepositoryMetadata, DeliveryStatus
    <2> QED
      BY <1>4, <2>1, <2>2, <2>3, RowsType DEF ApplyRepositoryMetadata
  <1> QED
    BY <1>1, <1>2, <1>3, <1>4

LEMMA AccessType ==
    ASSUME StoreTypeOK,
           \/ RevokeAccess \/ RevokePublicAccess \/ MembershipChanges
           \/ \E b \in Branches : SynchronizeRepository(b)
    PROVE  StoreTypeOK'
  <1>1. repo' \in RepositoryRow
    <2>1. repo \in RepositoryRow
      BY DEF StoreTypeOK
    <2>2. CASE RevokeAccess
      BY <2>1, <2>2 DEF RevokeAccess, RepositoryRow, RepositoryStatus
    <2>3. CASE RevokePublicAccess
      BY <2>1, <2>3 DEF RevokePublicAccess, RepositoryRow, RepositoryStatus
    <2>4. CASE MembershipChanges
      BY <2>1, <2>4 DEF MembershipChanges, RepositoryRow
    <2>5. ASSUME NEW b \in Branches, SynchronizeRepository(b)
          PROVE  repo' \in RepositoryRow
      BY <2>1, <2>5 DEF SynchronizeRepository, RepositoryRow, RepositoryStatus
    <2> QED
      BY <2>2, <2>3, <2>4, <2>5
  <1>2. UNCHANGED <<job, build, symbols, delivery>>
    BY DEF RevokeAccess, RevokePublicAccess, MembershipChanges, SynchronizeRepository
  <1> QED
    BY <1>1, <1>2, RowsType DEF StoreTypeOK

-----------------------------------------------------------------------------
(* The workers.  TypeOK alone is not inductive: that a worker writes the   *)
(* row of a job, a version or a commit that exists follows from its step.  *)

PinnedSteps == {"analyze", "prepare", "embed", "check", "delete", "upsert", "count",
                "validate", "graph", "ready", "recheck", "reauthorize", "activating",
                "activate"}
CleanSteps == {"cleanCheck", "cleanDelete", "cleanRecord"}
AuthorizedSteps == {"current", "clone"} \cup PinnedSteps \cup CleanSteps

RowKnows(row) ==
    /\ row.pc # "idle" => row.job \in Jobs
    /\ row.pc \in AuthorizedSteps => row.context.target \in Versions
    /\ row.pc \in PinnedSteps => row.commit \in Commits
    /\ row.pc \in {"drop", "dropRows"} => row.previous \in Versions

WorkersOK ==
    /\ worker \in [Workers -> WorkerRow]
    /\ \A w \in Workers : RowKnows(worker[w])

Steps == IdleSteps \cup RunSteps \cup ExitSteps

(* Replacing one worker's row by one that knows enough.                    *)
LEMMA RowReplaced ==
    ASSUME WorkersOK, NEW w \in Workers, NEW row \in WorkerRow, RowKnows(row),
           worker' = [worker EXCEPT ![w] = row]
    PROVE  WorkersOK'
  BY DEF WorkersOK, RowKnows

LEMMA IdleType == Idle \in WorkerRow /\ RowKnows(Idle)
  BY DEF Idle, NoContext, WorkerRow, Context, RowKnows, IdleSteps, AuthorizedSteps,
         PinnedSteps, CleanSteps

(* A worker's next step may rely on what its present step knows.           *)
LEMMA GotoType ==
    ASSUME WorkersOK, NEW w \in Workers, NEW step \in Steps, Goto(w, step),
           worker[w].pc # "idle",
           step \in AuthorizedSteps => worker[w].pc \in AuthorizedSteps,
           step \in PinnedSteps => worker[w].pc \in PinnedSteps,
           step \in {"drop", "dropRows"} => worker[w].pc \in {"drop", "dropRows"}
    PROVE  WorkersOK'
  <1> DEFINE row == [worker[w] EXCEPT !.pc = step]
  <1>1. worker[w] \in WorkerRow /\ RowKnows(worker[w])
    BY DEF WorkersOK
  <1>2. row \in WorkerRow
    BY <1>1 DEF WorkerRow, Steps
  <1>3. RowKnows(row)
    BY <1>1 DEF RowKnows, WorkerRow
  <1>4. worker' = [worker EXCEPT ![w] = row]
    BY <1>1 DEF Goto, WorkersOK
  <1> QED
    BY <1>2, <1>3, <1>4, RowReplaced

LEMMA PinnedStepType ==
    ASSUME WorkersOK, NEW w \in Workers, worker[w].pc \in PinnedSteps,
           NEW step \in PinnedSteps, Goto(w, step)
    PROVE  WorkersOK'
  <1>1. step \in Steps /\ step \notin {"drop", "dropRows"} /\ worker[w].pc # "idle"
    BY DEF PinnedSteps, Steps, RunSteps
  <1> QED
    BY <1>1, GotoType DEF AuthorizedSteps

LEMMA LeavingType ==
    ASSUME WorkersOK, NEW w \in Workers, worker[w].pc # "idle",
           NEW step \in ExitSteps \cup {"drop"},
           step \in CleanSteps => worker[w].pc \in AuthorizedSteps
    PROVE  /\ Leaving(w, step) \in WorkerRow
           /\ step # "drop" => RowKnows(Leaving(w, step))
           /\ Leaving(w, step).job \in Jobs /\ Leaving(w, step).pc = step
  <1> DEFINE context == [NoContext EXCEPT !.target = Target(w)]
             left == Leaving(w, step)
  <1>1. worker[w] \in WorkerRow /\ RowKnows(worker[w])
    BY DEF WorkersOK
  <1>2. Target(w) \in {0} \cup Versions
    BY <1>1 DEF WorkerRow, Target, Context
  <1>3. context \in Context /\ context.target = Target(w)
    BY <1>2 DEF Context, NoContext
  <1>4. left = [Idle EXCEPT !.pc = step, !.job = worker[w].job, !.attempt = worker[w].attempt,
                            !.context = context]
    BY DEF Leaving, JobOf
  <1>5. /\ left \in WorkerRow
        /\ left.pc = step /\ left.job = worker[w].job /\ left.context = context
    <2> step \in IdleSteps \cup RunSteps \cup ExitSteps
      BY DEF RunSteps
    <2> HIDE DEF context, left
    <2> QED
      BY <1>1, <1>3, <1>4, IdleType DEF WorkerRow
  <1>6. worker[w].job \in Jobs /\ (step \in CleanSteps => Target(w) \in Versions)
    BY <1>1 DEF RowKnows, Target, AuthorizedSteps
  <1>7. step # "drop" => RowKnows(left)
    <2> HIDE DEF context, left
    <2> QED
      BY <1>3, <1>5, <1>6 DEF RowKnows, ExitSteps, AuthorizedSteps, PinnedSteps, CleanSteps
  <1> QED
    BY <1>5, <1>6, <1>7

LEMMA FinishType ==
    ASSUME WorkersOK, NEW w \in Workers, worker[w].pc # "idle", Finish(w)
    PROVE  WorkersOK'
  <1> DEFINE row == [Idle EXCEPT !.pc = "ack", !.job = JobOf(w)]
  <1>1. worker[w].job \in Jobs
    BY DEF WorkersOK, RowKnows
  <1>2. row \in WorkerRow /\ row.pc = "ack" /\ row.job \in Jobs
    BY <1>1, IdleType DEF WorkerRow, ExitSteps, JobOf, Idle
  <1>3. RowKnows(row)
    BY <1>2 DEF RowKnows, AuthorizedSteps, PinnedSteps, CleanSteps
  <1> QED
    BY <1>2, <1>3, RowReplaced DEF Finish

LEMMA FailFromType ==
    ASSUME WorkersOK, NEW w \in Workers, worker[w].pc \in AuthorizedSteps,
           NEW retryable \in BOOLEAN, FailFrom(w, retryable)
    PROVE  WorkersOK'
  <1> DEFINE step == IF worker[w].prepared THEN "cleanCheck" ELSE "fail"
             left == Leaving(w, step)
             row == [left EXCEPT !.retryable = retryable]
  <1>1. left \in WorkerRow /\ RowKnows(left)
    BY LeavingType DEF ExitSteps, AuthorizedSteps, PinnedSteps, CleanSteps
  <1>2. row \in WorkerRow /\ RowKnows(row)
    <2> HIDE DEF left
    <2> QED
      BY <1>1 DEF WorkerRow, RowKnows
  <1> QED
    BY <1>2, RowReplaced DEF FailFrom

LEMMA CleanThenType ==
    ASSUME WorkersOK, NEW w \in Workers, worker[w].pc \in AuthorizedSteps,
           NEW exit \in {"fail", "cancel", "supersede"}, CleanThen(w, exit)
    PROVE  WorkersOK'
  <1> DEFINE left == Leaving(w, "cleanCheck")
             row == [left EXCEPT !.exit = exit]
  <1>1. left \in WorkerRow /\ RowKnows(left)
    BY LeavingType DEF ExitSteps, AuthorizedSteps, PinnedSteps, CleanSteps
  <1>2. row \in WorkerRow /\ RowKnows(row)
    <2> HIDE DEF left
    <2> QED
      BY <1>1 DEF WorkerRow, RowKnows
  <1> QED
    BY <1>2, RowReplaced DEF CleanThen

(* Leaving for one of the exit steps without the cleanup.                  *)
LEMMA LeaveType ==
    ASSUME WorkersOK, NEW w \in Workers, worker[w].pc # "idle",
           NEW step \in ExitSteps \ CleanSteps,
           worker' = [worker EXCEPT ![w] = Leaving(w, step)]
    PROVE  WorkersOK'
  <1>1. Leaving(w, step) \in WorkerRow /\ RowKnows(Leaving(w, step))
    BY LeavingType DEF ExitSteps, CleanSteps
  <1> QED
    BY <1>1, RowReplaced

-----------------------------------------------------------------------------
(* The actions.                                                            *)

QueuesOK ==
    /\ vectors \in [Versions -> SUBSET (Commits \X Batches)]
    /\ wakeups \subseteq Jobs
    /\ posting \subseteq Jobs

(* The inductive invariant.                                                *)
TypeInv == StoreTypeOK /\ WorkersOK /\ QueuesOK

(* What each step of a worker may take for granted.                        *)
LEMMA AtWork ==
    ASSUME WorkersOK, NEW w \in Workers, worker[w].pc # "idle"
    PROVE  JobOf(w) \in Jobs
  BY DEF WorkersOK, RowKnows, JobOf

LEMMA StoreUnchanged == ASSUME StoreTypeOK, UNCHANGED store PROVE StoreTypeOK'
  BY DEF StoreTypeOK, store, ReadyCountsMatch, ActiveCleanupNotRequired

LEMMA WorkersUnchanged == ASSUME WorkersOK, UNCHANGED worker PROVE WorkersOK'
  BY DEF WorkersOK, RowKnows

LEMMA QueuesUnchanged == ASSUME QueuesOK, UNCHANGED <<vectors, wakeups, posting>> PROVE QueuesOK'
  BY DEF QueuesOK

LEMMA DeleteScopeType ==
    ASSUME QueuesOK, NEW v, DeleteScope(v), UNCHANGED <<wakeups, posting>>
    PROVE  QueuesOK'
  BY DEF QueuesOK, DeleteScope

LEMMA DeliveriesType ==
    ASSUME ConstantsAssumption, TypeInv, NEW w \in Workers, Deliveries(w)
    PROVE  TypeInv'
  <1> USE DEF TypeInv
  <1>1. ASSUME NEW j \in Jobs, ClaimDelivery(w, j) PROVE TypeInv'
    <2> DEFINE row == [Idle EXCEPT !.pc = "authorize", !.job = j, !.attempt = job[j].attempt + 1]
    <2>1. job[j].attempt + 1 \in Nat
      BY DEF StoreTypeOK, JobRow
    <2>2. row \in WorkerRow /\ row.pc = "authorize" /\ row.job = j
      BY <2>1, IdleType DEF WorkerRow, RunSteps
    <2>3. RowKnows(row)
      BY <2>2 DEF RowKnows, AuthorizedSteps, PinnedSteps, CleanSteps
    <2>4. WorkersOK'
      BY <1>1, <2>2, <2>3, RowReplaced DEF ClaimDelivery
    <2> QED
      BY <1>1, <2>4, ClaimType, QueuesUnchanged DEF ClaimDelivery
  <1>2. ASSUME NEW j \in Jobs, DropDelivery(w, j) PROVE TypeInv'
    BY <1>2, StoreUnchanged, WorkersUnchanged DEF DropDelivery, QueuesOK
  <1>3. ASSUME NEW j \in Jobs, RecoverAtOnce(w, j) PROVE TypeInv'
    BY <1>3, RecoverAbandonedType, WorkersUnchanged, QueuesUnchanged DEF RecoverAtOnce
  <1>4. ASSUME NEW j \in Jobs, RecoverSelect(w, j) PROVE TypeInv'
    <2> DEFINE row == [Idle EXCEPT !.pc = "recovering", !.job = j, !.attempt = job[j].attempt]
    <2>1. job[j].attempt \in Nat
      BY DEF StoreTypeOK, JobRow
    <2>2. row \in WorkerRow /\ row.pc = "recovering" /\ row.job = j
      BY <2>1, IdleType DEF WorkerRow, IdleSteps
    <2>3. RowKnows(row)
      BY <2>2 DEF RowKnows, AuthorizedSteps, PinnedSteps, CleanSteps
    <2>4. WorkersOK'
      BY <1>4, <2>2, <2>3, RowReplaced DEF RecoverSelect
    <2> QED
      BY <1>4, <2>4, StoreUnchanged, QueuesUnchanged DEF RecoverSelect
  <1>5. ASSUME NEW j \in Jobs, EnqueueDue(w, j) PROVE TypeInv'
    BY <1>5, StoreUnchanged, WorkersUnchanged DEF EnqueueDue, QueuesOK
  <1>6. CASE RecoverCommit(w)
    <2>1. JobOf(w) \in Jobs
      BY <1>6, AtWork DEF RecoverCommit, At
    <2>2. WorkersOK'
      BY <1>6, IdleType, RowReplaced DEF RecoverCommit
    <2> QED
      BY <1>6, <2>1, <2>2, RecoverAbandonedType, QueuesUnchanged DEF RecoverCommit
  <1>7. CASE Acknowledge(w)
    <2>1. WorkersOK'
      BY <1>7, IdleType, RowReplaced DEF Acknowledge
    <2> QED
      BY <1>7, <2>1, StoreUnchanged DEF Acknowledge, QueuesOK
  <1> QED
    BY <1>1, <1>2, <1>3, <1>4, <1>5, <1>6, <1>7 DEF Deliveries

LEMMA ApiType ==
    ASSUME TypeInv, NEW j \in Jobs, Api(j)
    PROVE  TypeInv'
  <1> USE DEF TypeInv
  <1>1. CASE Request(j)
    <2>1. StoreTypeOK'
      BY <1>1, RequestType DEF Request
    <2> QED
      BY <1>1, <2>1, WorkersUnchanged DEF Request, QueuesOK
  <1>2. CASE SelectAgain(j)
    BY <1>2, StoreUnchanged, WorkersUnchanged DEF SelectAgain, QueuesOK
  <1>3. CASE PostEnqueue(j)
    BY <1>3, StoreUnchanged, WorkersUnchanged DEF PostEnqueue, QueuesOK
  <1>4. CASE PostEnqueueFails(j)
    <2>1. delivery' \in [Jobs -> DeliveryStatus]
      BY <1>4, DeliverType DEF PostEnqueueFails, StoreTypeOK, DeliveryStatus
    <2>2. StoreTypeOK'
      BY <1>4, <2>1, RowsType DEF PostEnqueueFails, StoreTypeOK
    <2> QED
      BY <1>4, <2>2, WorkersUnchanged DEF PostEnqueueFails, QueuesOK
  <1>5. CASE PostCrashes(j)
    BY <1>5, StoreUnchanged, WorkersUnchanged DEF PostCrashes, QueuesOK
  <1> QED
    BY <1>1, <1>2, <1>3, <1>4, <1>5 DEF Api

LEMMA EnvironmentType ==
    ASSUME TypeInv, Environment
    PROVE  TypeInv'
  <1> USE DEF TypeInv
  <1>1. ASSUME NEW w \in Workers, Beat(w) PROVE TypeInv'
    <2>1. JobOf(w) \in Jobs
      BY <1>1, AtWork DEF Beat, IdleSteps
    <2> QED
      BY <1>1, <2>1, HeartbeatType, WorkersUnchanged, QueuesUnchanged DEF Beat
  <1>2. ASSUME NEW w \in Workers, Crash(w) PROVE TypeInv'
    <2>1. WorkersOK'
      BY <1>2, IdleType, RowReplaced DEF Crash
    <2> QED
      BY <1>2, <2>1, StoreUnchanged, QueuesUnchanged DEF Crash
  <1>3. ASSUME NEW j \in Jobs, HeartbeatExpires(j) \/ BackoffEnds(j) PROVE TypeInv'
    <2>a. \/ job' = [job EXCEPT ![j].fresh = FALSE]
          \/ job' = [job EXCEPT ![j].due = TRUE]
      BY <1>3 DEF HeartbeatExpires, BackoffEnds
    <2>1. job' \in [Jobs -> JobRow]
      <3>1. job \in [Jobs -> JobRow]
        BY DEF StoreTypeOK
      <3>2. CASE job' = [job EXCEPT ![j].fresh = FALSE]
        BY <3>1, <3>2, ClockType
      <3>3. CASE job' = [job EXCEPT ![j].due = TRUE]
        BY <3>1, <3>3, ClockType
      <3> QED
        BY <2>a, <3>2, <3>3
    <2>2. UNCHANGED <<repo, build, symbols, delivery, worker, vectors, wakeups, posting>>
      BY <1>3 DEF HeartbeatExpires, BackoffEnds
    <2>3. StoreTypeOK'
      BY <2>1, <2>2, RowsType DEF StoreTypeOK
    <2> QED
      BY <2>2, <2>3, WorkersUnchanged, QueuesUnchanged
  <1>4. ASSUME NEW j \in Jobs, LoseWakeup(j) PROVE TypeInv'
    BY <1>4, StoreUnchanged, WorkersUnchanged DEF LoseWakeup, QueuesOK
  <1>5. CASE AccessChanges
    BY <1>5, AccessType, WorkersUnchanged, QueuesUnchanged DEF AccessChanges
  <1> QED
    BY <1>1, <1>2, <1>3, <1>4, <1>5 DEF Environment

(* The steps of a run.                                                     *)
LEMMA BuildType ==
    ASSUME ConstantsAssumption, TypeInv, NEW w \in Workers, Build(w)
    PROVE  TypeInv'
  <1> DEFINE j == JobOf(w)
  <1> USE DEF TypeInv
  <1>z. /\ worker[w].pc # "idle" => j \in Jobs
        /\ worker[w].pc \in AuthorizedSteps => Target(w) \in Versions
        /\ worker[w].pc \in PinnedSteps => worker[w].commit \in Commits
    BY DEF WorkersOK, RowKnows, JobOf, Target
  <1>1. CASE Authorize(w)
    <2>1. worker[w].pc = "authorize" /\ j \in Jobs
      BY <1>1, AtWork DEF Authorize, At
    <2>2. CASE Authorized(j)
      <3> DEFINE row == [worker[w] EXCEPT !.pc = "current", !.context = ContextOf(j)]
      <3>1. StoreTypeOK' /\ ContextOf(j) \in Context
        BY <1>1, <2>1, <2>2, AuthorizedContextType DEF Authorize
      <3>2. ContextOf(j).target \in Versions
        BY <2>1, <2>2, <1>1 DEF ContextOf, TargetOf, Authorize, AuthorizedContext, StoreTypeOK,
                                JobRow, RepositoryRow, Versions, ConstantsAssumption
      <3>3. worker[w] \in WorkerRow /\ RowKnows(worker[w])
        BY DEF WorkersOK
      <3>4. row \in WorkerRow /\ row.pc = "current" /\ row.job = j /\ row.context = ContextOf(j)
        <4>1. worker[w] \in WorkerRow /\ ContextOf(j) \in Context /\ worker[w].job = j
          BY <3>1, <3>3 DEF JobOf
        <4> QED
          BY <4>1 DEF WorkerRow, RunSteps
      <3>5. RowKnows(row)
        BY <2>1, <3>2, <3>4 DEF RowKnows, PinnedSteps
      <3>6. worker' = [worker EXCEPT ![w] = row]
        BY <1>1, <2>2 DEF Authorize, WorkersOK
      <3> QED
        BY <1>1, <3>1, <3>4, <3>5, <3>6, RowReplaced, QueuesUnchanged DEF Authorize
    <2>3. CASE ~Authorized(j)
      BY <1>1, <2>1, <2>3, LeaveType, StoreUnchanged, QueuesUnchanged
      DEF Authorize, ExitSteps, CleanSteps
    <2> QED
      BY <2>2, <2>3
  <1>2. CASE CheckCurrent(w)
    <2>1. CASE IsCurrent(j, w)
      <3>1. WorkersOK'
        BY <1>2, <2>1, GotoType DEF CheckCurrent, At, Steps, RunSteps, AuthorizedSteps,
                                      PinnedSteps, CleanSteps
      <3> QED
        BY <1>2, <3>1, StoreUnchanged, QueuesUnchanged DEF CheckCurrent
    <2>2. CASE ~IsCurrent(j, w)
      <3>1. WorkersOK'
        BY <1>2, <2>2, LeaveType DEF CheckCurrent, At, ExitSteps, CleanSteps
      <3> QED
        BY <1>2, <3>1, StoreUnchanged, QueuesUnchanged DEF CheckCurrent
    <2> QED
      BY <2>1, <2>2
  <1>3. CASE PublicRepositoryGone(w)
    BY <1>3, AccessType, FailFromType, QueuesUnchanged
    DEF PublicRepositoryGone, At, AuthorizedSteps
  <1>4. ASSUME NEW c \in Commits, Clone(w, c) PROVE TypeInv'
    <2>1. CASE AlreadyActive(w, c)
      <3>1. WorkersOK'
        BY <1>4, <2>1, LeaveType DEF Clone, At, ExitSteps, CleanSteps
      <3> QED
        BY <1>4, <3>1, StoreUnchanged, QueuesUnchanged DEF Clone
    <2>2. CASE ~AlreadyActive(w, c)
      <3> DEFINE row == [worker[w] EXCEPT !.commit = c, !.pc = "analyze"]
      <3>1. worker[w] \in WorkerRow /\ RowKnows(worker[w]) /\ worker[w].pc = "clone"
        BY <1>4 DEF WorkersOK, Clone, At
      <3>2. row \in WorkerRow
        BY <3>1 DEF WorkerRow, RunSteps
      <3>3. RowKnows(row)
        BY <3>1, <3>2 DEF RowKnows, WorkerRow, AuthorizedSteps
      <3>4. worker' = [worker EXCEPT ![w] = row]
        BY <1>4, <2>2 DEF Clone, WorkersOK
      <3>5. WorkersOK'
        BY <3>2, <3>3, <3>4, RowReplaced
      <3> QED
        BY <1>4, <3>5, StoreUnchanged, QueuesUnchanged DEF Clone
    <2> QED
      BY <2>1, <2>2
  <1>5. CASE Analyze(w)
    BY <1>5, <1>z, StageType, PinnedStepType, QueuesUnchanged DEF Analyze, At, PinnedSteps
  <1>6. CASE Prepare(w)
    <2>1. CASE CanPrepare(j, w)
      <3> DEFINE row == [worker[w] EXCEPT !.pc = "embed", !.prepared = TRUE]
      <3>1. worker[w] \in WorkerRow /\ RowKnows(worker[w]) /\ worker[w].pc = "prepare"
        BY <1>6 DEF WorkersOK, Prepare, At
      <3>2. row \in WorkerRow
        BY <3>1 DEF WorkerRow, RunSteps
      <3>3. RowKnows(row)
        BY <3>1, <3>2 DEF RowKnows, WorkerRow, AuthorizedSteps, PinnedSteps
      <3>4. worker' = [worker EXCEPT ![w] = row]
        BY <1>6, <2>1 DEF Prepare, WorkersOK
      <3>5. WorkersOK'
        BY <3>2, <3>3, <3>4, RowReplaced
      <3>6. j \in Jobs /\ worker[w].commit \in Commits
        BY <1>z, <3>1 DEF PinnedSteps
      <3> QED
        BY <1>6, <2>1, <3>5, <3>6, PrepareBuildType, QueuesUnchanged DEF Prepare
    <2>2. CASE ~CanPrepare(j, w)
      BY <1>6, <2>2, FailFromType, StoreUnchanged, QueuesUnchanged
      DEF Prepare, At, AuthorizedSteps, PinnedSteps
    <2> QED
      BY <2>1, <2>2
  <1>7. CASE Embed(w)
    BY <1>7, <1>z, StageType, PinnedStepType, QueuesUnchanged DEF Embed, At, PinnedSteps
  <1>8. CASE CheckInactive(w)
    <2>1. WorkersOK'
      BY <1>8, PinnedStepType, FailFromType DEF CheckInactive, At, AuthorizedSteps, PinnedSteps
    <2> QED
      BY <1>8, <2>1, StoreUnchanged, QueuesUnchanged DEF CheckInactive
  <1>9. CASE ClearScope(w)
    <2>1. WorkersOK'
      BY <1>9, PinnedStepType DEF ClearScope, At, Goto, PinnedSteps
    <2> QED
      BY <1>9, <2>1, StoreUnchanged, DeleteScopeType DEF ClearScope
  <1>10. ASSUME NEW b \in Batches, Upsert(w, b) PROVE TypeInv'
    <2>1. worker[w] \in WorkerRow /\ RowKnows(worker[w]) /\ worker[w].pc = "upsert"
      BY <1>10 DEF WorkersOK, Upsert, At
    <2>2. worker[w].commit \in Commits
      BY <1>z, <2>1 DEF PinnedSteps
    <2>3. QueuesOK'
      <3> DEFINE point == <<worker[w].commit, b>>
      <3>1. point \in Commits \X Batches
        BY <2>2
      <3>2. vectors' = [vectors EXCEPT ![Target(w)] = @ \cup {point}]
        BY <1>10 DEF Upsert
      <3>3. vectors' \in [Versions -> SUBSET (Commits \X Batches)]
        <4> HIDE DEF point
        <4> QED
          BY <3>1, <3>2 DEF QueuesOK
      <3> QED
        BY <1>10, <3>3 DEF Upsert, QueuesOK
    <2>4. CASE worker[w].sent \cup {b} = Batches
      <3> DEFINE row == [worker[w] EXCEPT !.sent = {}, !.pc = "count"]
      <3>1. row \in WorkerRow
        BY <2>1 DEF WorkerRow, RunSteps
      <3>2. RowKnows(row)
        BY <2>1, <3>1 DEF RowKnows, WorkerRow, AuthorizedSteps, PinnedSteps
      <3>3. worker' = [worker EXCEPT ![w] = row]
        BY <1>10, <2>4 DEF Upsert, WorkersOK
      <3> QED
        BY <1>10, <2>3, <3>1, <3>2, <3>3, RowReplaced, StoreUnchanged DEF Upsert
    <2>5. CASE worker[w].sent \cup {b} # Batches
      <3> DEFINE row == [worker[w] EXCEPT !.sent = @ \cup {b}]
      <3>1. row \in WorkerRow
        BY <2>1 DEF WorkerRow
      <3>2. RowKnows(row)
        BY <2>1, <3>1 DEF RowKnows, WorkerRow
      <3>3. worker' = [worker EXCEPT ![w] = row]
        BY <1>10, <2>5 DEF Upsert, WorkersOK
      <3> QED
        BY <1>10, <2>3, <3>1, <3>2, <3>3, RowReplaced, StoreUnchanged DEF Upsert
    <2> QED
      BY <2>4, <2>5
  <1>11. CASE Count(w)
    <2>1. WorkersOK'
      BY <1>11, PinnedStepType, FailFromType DEF Count, At, AuthorizedSteps, PinnedSteps
    <2>2. StoreTypeOK'
      BY <1>11, <1>z, RecordVectorCountsType, StoreUnchanged DEF Count, At
    <2> QED
      BY <1>11, <2>1, <2>2, QueuesUnchanged DEF Count
  <1>12. CASE ValidateScope(w)
    <2>1. WorkersOK'
      BY <1>12, PinnedStepType, FailFromType DEF ValidateScope, At, AuthorizedSteps, PinnedSteps
    <2>2. StoreTypeOK'
      BY <1>12, <1>z, StageType DEF ValidateScope, At
    <2> QED
      BY <1>12, <2>1, <2>2, QueuesUnchanged DEF ValidateScope
  <1>13. CASE CheckGraph(w)
    <2>1. WorkersOK'
      BY <1>13, PinnedStepType, FailFromType DEF CheckGraph, At, AuthorizedSteps, PinnedSteps
    <2>2. StoreTypeOK'
      BY <1>13, <1>z, ValidateGraphType, StoreUnchanged DEF CheckGraph, At
    <2> QED
      BY <1>13, <2>1, <2>2, QueuesUnchanged DEF CheckGraph
  <1>14. CASE MarkReady(w)
    <2>1. WorkersOK'
      BY <1>14, PinnedStepType, FailFromType DEF MarkReady, At, AuthorizedSteps, PinnedSteps
    <2>2. StoreTypeOK'
      BY <1>14, <1>z, MarkBuildReadyType, StoreUnchanged DEF MarkReady, At
    <2> QED
      BY <1>14, <2>1, <2>2, QueuesUnchanged DEF MarkReady
  <1>15. CASE Recheck(w)
    <2>1. WorkersOK'
      BY <1>15, PinnedStepType, CleanThenType DEF Recheck, At, AuthorizedSteps, PinnedSteps
    <2> QED
      BY <1>15, <2>1, StoreUnchanged, QueuesUnchanged DEF Recheck
  <1>16. CASE Reauthorize(w)
    <2>1. WorkersOK'
      BY <1>16, PinnedStepType, FailFromType, CleanThenType
      DEF Reauthorize, At, AuthorizedSteps, PinnedSteps
    <2>2. StoreTypeOK'
      BY <1>16, <1>z, AuthorizedContextType, StoreUnchanged DEF Reauthorize, At
    <2> QED
      BY <1>16, <2>1, <2>2, QueuesUnchanged DEF Reauthorize
  <1>17. CASE Activating(w)
    BY <1>17, <1>z, StageType, PinnedStepType, QueuesUnchanged DEF Activating, At, PinnedSteps
  <1>18. CASE ActivateIndex(w)
    <2>1. worker[w].pc = "activate" /\ j \in Jobs /\ worker[w].commit \in Commits
      BY <1>18, <1>z DEF ActivateIndex, At, PinnedSteps
    <2>2. StoreTypeOK'
      BY <1>18, <2>1, ActivateType, StoreUnchanged DEF ActivateIndex
    <2>3. CASE CanActivate(j, w, worker[w].commit) /\ repo.version > 0
      <3> DEFINE left == Leaving(w, "drop")
                 row == [left EXCEPT !.previous = repo.version]
      <3>1. left \in WorkerRow /\ left.job \in Jobs /\ left.pc = "drop"
        BY <2>1, LeavingType DEF CleanSteps
      <3>2. repo.version \in Versions
        BY <2>3 DEF StoreTypeOK, RepositoryRow
      <3>3. row \in WorkerRow /\ row.pc = "drop" /\ row.job \in Jobs /\ row.previous \in Versions
        <4> HIDE DEF left
        <4> QED
          BY <3>1, <3>2 DEF WorkerRow
      <3>4. RowKnows(row)
        <4> HIDE DEF row
        <4> QED
          BY <3>3 DEF RowKnows, AuthorizedSteps, PinnedSteps, CleanSteps
      <3>5. worker' = [worker EXCEPT ![w] = row]
        BY <1>18, <2>3 DEF ActivateIndex
      <3>6. WorkersOK'
        <4> HIDE DEF row
        <4> QED
          BY <3>3, <3>4, <3>5, RowReplaced
      <3> QED
        BY <1>18, <2>2, <3>6, QueuesUnchanged DEF ActivateIndex
    <2>4. CASE CanActivate(j, w, worker[w].commit) /\ ~(repo.version > 0)
      BY <1>18, <2>1, <2>2, <2>4, FinishType, QueuesUnchanged DEF ActivateIndex
    <2>5. CASE ~CanActivate(j, w, worker[w].commit)
      BY <1>18, <2>1, <2>2, <2>5, FailFromType, QueuesUnchanged
      DEF ActivateIndex, AuthorizedSteps, PinnedSteps
    <2> QED
      BY <2>3, <2>4, <2>5
  <1>19. CASE DropSuperseded(w)
    <2>1. WorkersOK'
      BY <1>19, GotoType DEF DropSuperseded, At, Steps, RunSteps, AuthorizedSteps, PinnedSteps,
                             CleanSteps
    <2> QED
      BY <1>19, <2>1, StoreUnchanged, DeleteScopeType DEF DropSuperseded
  <1>20. CASE DropSupersededFails(w)
    BY <1>20, FinishType, StoreUnchanged, QueuesUnchanged DEF DropSupersededFails, At
  <1>21. CASE DropSupersededRows(w)
    <2>1. worker[w].previous \in Versions
      BY <1>21 DEF DropSupersededRows, At, WorkersOK, RowKnows
    <2>2. WorkersOK'
      BY <1>21, FinishType DEF DropSupersededRows, At
    <2> QED
      BY <1>21, <2>1, <2>2, CompleteSupersededCleanupType, QueuesUnchanged DEF DropSupersededRows
  <1> QED
    BY <1>1, <1>2, <1>3, <1>4, <1>5, <1>6, <1>7, <1>8, <1>9, <1>10, <1>11, <1>12, <1>13,
       <1>14, <1>15, <1>16, <1>17, <1>18, <1>19, <1>20, <1>21 DEF Build

(* Failure, staleness and revocation.                                      *)
LEMMA LeaveRunType ==
    ASSUME ConstantsAssumption, TypeInv, NEW w \in Workers, Leave(w)
    PROVE  TypeInv'
  <1> DEFINE j == JobOf(w)
  <1> USE DEF TypeInv
  <1>z. /\ worker[w] \in WorkerRow /\ RowKnows(worker[w])
        /\ worker[w].pc # "idle" => j \in Jobs
        /\ worker[w].pc \in AuthorizedSteps => Target(w) \in Versions
    BY DEF WorkersOK, RowKnows, JobOf, Target
  <1>1. ASSUME NEW retryable \in BOOLEAN, StepFails(w, retryable) PROVE TypeInv'
    <2>1. worker[w].pc \in AuthorizedSteps
      BY <1>1 DEF StepFails, FallibleSteps, AuthorizedSteps, PinnedSteps
    <2> QED
      BY <1>1, <2>1, FailFromType, StoreUnchanged, QueuesUnchanged DEF StepFails
  <1> DEFINE kept(step) == [worker[w] EXCEPT !.pc = step, !.retryable = TRUE]
  <1>y. ASSUME worker[w].pc \in CleanSteps, worker' = [worker EXCEPT ![w] = kept(worker[w].exit)]
        PROVE  WorkersOK'
    <2>1. worker[w].exit \in {"fail", "cancel", "supersede"}
      BY <1>z DEF WorkerRow
    <2>2. kept(worker[w].exit) \in WorkerRow
      BY <1>z, <2>1 DEF WorkerRow, ExitSteps
    <2>3. /\ kept(worker[w].exit).pc = worker[w].exit
          /\ kept(worker[w].exit).job = j /\ j \in Jobs
      BY <1>z, <1>y DEF WorkerRow, JobOf, CleanSteps
    <2>4. RowKnows(kept(worker[w].exit))
      <3> HIDE DEF kept
      <3> QED
        BY <2>1, <2>3 DEF RowKnows, AuthorizedSteps, PinnedSteps, CleanSteps
    <2> HIDE DEF kept
    <2> QED
      BY <1>y, <2>2, <2>4, RowReplaced
  <1>2. CASE CleanCheck(w)
    <2>1. CASE CanCleanupInactive(Target(w))
      <3>1. Goto(w, "cleanDelete") /\ worker[w].pc = "cleanCheck"
        BY <1>2, <2>1 DEF CleanCheck, Goto, At
      <3>2. WorkersOK'
        BY <3>1, GotoType DEF Steps, ExitSteps, AuthorizedSteps, PinnedSteps, CleanSteps
      <3> QED
        BY <1>2, <3>2, StoreUnchanged, QueuesUnchanged DEF CleanCheck
    <2>2. CASE ~CanCleanupInactive(Target(w))
      <3>1. worker' = [worker EXCEPT ![w] = kept(worker[w].exit)] /\ worker[w].pc \in CleanSteps
        BY <1>2, <2>2 DEF CleanCheck, At, CleanSteps, WorkersOK
      <3> QED
        BY <1>2, <1>y, <3>1, StoreUnchanged, QueuesUnchanged DEF CleanCheck
    <2> QED
      BY <2>1, <2>2
  <1>3. CASE CleanDelete(w)
    <2>1. WorkersOK'
      BY <1>3, GotoType DEF CleanDelete, At, Steps, ExitSteps, AuthorizedSteps, PinnedSteps,
                            CleanSteps
    <2> QED
      BY <1>3, <2>1, StoreUnchanged, DeleteScopeType DEF CleanDelete
  <1>4. CASE CleanDeleteFails(w)
    <2>1. worker' = [worker EXCEPT ![w] = kept(worker[w].exit)] /\ worker[w].pc \in CleanSteps
      BY <1>4 DEF CleanDeleteFails, At, CleanSteps, WorkersOK
    <2>2. Target(w) \in Versions
      BY <1>z, <2>1 DEF AuthorizedSteps
    <2> QED
      BY <1>4, <1>y, <2>1, <2>2, RecordFailedBuildCleanupType, QueuesUnchanged
      DEF CleanDeleteFails
  <1>5. CASE CleanRecord(w)
    <2>1. worker[w].exit \in {"fail", "cancel", "supersede"} /\ worker[w].pc = "cleanRecord"
      BY <1>5, <1>z DEF WorkerRow, CleanRecord, At
    <2>2. WorkersOK'
      BY <1>5, <2>1, GotoType DEF CleanRecord, Steps, ExitSteps, AuthorizedSteps, PinnedSteps,
                                  CleanSteps
    <2>3. Target(w) \in Versions
      BY <1>z, <2>1 DEF AuthorizedSteps, CleanSteps
    <2> QED
      BY <1>5, <2>2, <2>3, RecordFailedBuildCleanupType, QueuesUnchanged DEF CleanRecord
  <1>6. CASE FailJob(w)
    BY <1>6, <1>z, FailType, FinishType, QueuesUnchanged DEF FailJob, At
  <1>7. CASE CancelJob(w)
    BY <1>7, <1>z, CancelRevokedType, FinishType, QueuesUnchanged DEF CancelJob, At
  <1>8. CASE SupersedeJob(w)
    BY <1>8, <1>z, MarkStaleType, FinishType, QueuesUnchanged
    DEF SupersedeJob, At, DeliveryStatus
  <1>9. CASE AlreadyActiveJob(w)
    BY <1>9, <1>z, MarkStaleType, FinishType, QueuesUnchanged
    DEF AlreadyActiveJob, At, DeliveryStatus
  <1> QED
    BY <1>1, <1>2, <1>3, <1>4, <1>5, <1>6, <1>7, <1>8, <1>9 DEF Leave

-----------------------------------------------------------------------------
LEMMA InitTypeInv == ASSUME ConstantsAssumption, Init PROVE TypeInv
  <1>1. StoreTypeOK
    <2>1. AbsentJob \in JobRow
      BY DEF AbsentJob, JobRow, Modes
    <2>2. NoBuild \in BuildRow /\ ReadyCountsMatch(NoBuild) /\ ActiveCleanupNotRequired(NoBuild)
      BY DEF NoBuild, BuildRow, ReadyCountsMatch, ActiveCleanupNotRequired
    <2>3. repo \in RepositoryRow
      BY DEF Init, StoreInit, RepositoryRow, RepositoryStatus
    <2> QED
      BY <2>1, <2>2, <2>3 DEF Init, StoreInit, StoreTypeOK, DeliveryStatus
  <1>2. WorkersOK
    BY IdleType DEF Init, WorkersOK
  <1>3. QueuesOK
    BY DEF Init, QueuesOK
  <1> QED
    BY <1>1, <1>2, <1>3 DEF TypeInv

LEMMA NextTypeInv == ASSUME ConstantsAssumption, TypeInv, [Next]_vars PROVE TypeInv'
  <1>1. CASE Next
    BY <1>1, DeliveriesType, BuildType, LeaveRunType, ApiType, EnvironmentType DEF Next
  <1>2. CASE UNCHANGED vars
    BY <1>2, StoreUnchanged, WorkersUnchanged, QueuesUnchanged DEF TypeInv, vars, store
  <1> QED
    BY <1>1, <1>2

(* Every row a transaction or a worker writes is well formed and meets the *)
(* CHECK constraints of repository_index_builds: ready and active builds   *)
(* are fully counted, an active build needs no cleanup.                    *)
THEOREM TypeCorrect == Spec => []TypeOK
  <1>1. TypeInv => TypeOK
    BY DEF TypeInv, TypeOK, WorkersOK, QueuesOK
  <1> QED
    BY <1>1, InitTypeInv, NextTypeInv, ConstantsAssumption, PTL DEF Spec
=============================================================================
