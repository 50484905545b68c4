----------------------- MODULE IndexingSafety_proofs -----------------------
(***************************************************************************)
(* The active index is consistent, moves only by activation of a current   *)
(* job, and readers see a log of versions: the safety of the indexing      *)
(* specification, for any number of jobs, workers, commits and batches and *)
(* under every combination of faults.                                      *)
(*                                                                         *)
(* Every step is first classified by what it does to the store             *)
(* (StoreChange); the invariant is then proved one kind of change at a     *)
(* time.                                                                   *)
(***************************************************************************)
EXTENDS IndexingTypes_proofs, Sequences

(* A step after which the builds, the active version and the target of     *)
(* every job are what they were.                                           *)
Quiet ==
    /\ UNCHANGED <<build, symbols>>
    /\ repo'.version = repo.version /\ repo'.commit = repo.commit
    /\ \A j \in Jobs : /\ job'[j].target = job[j].target
                       /\ job'[j].status = "absent" => job[j].status = "absent"

StoreChange ==
    \/ Quiet
    \/ \E j \in Jobs : AuthorizedContext(j)
    \/ \E j \in Jobs, w \in Workers, c \in Commits : PrepareBuild(j, w, c)
    \/ \E j \in Jobs, w \in Workers : RecordVectorCounts(j, w)
    \/ \E j \in Jobs, w \in Workers : ValidateGraph(j, w)
    \/ \E j \in Jobs, w \in Workers : MarkBuildReady(j, w)
    \/ \E j \in Jobs, w \in Workers, c \in Commits : Activate(j, w, c)
    \/ \E v \in Versions, complete \in BOOLEAN : RecordFailedBuildCleanup(v, complete)
    \/ \E v \in Versions : v < repo.version /\ CompleteSupersededCleanup(v)

-----------------------------------------------------------------------------
(* The transactions that leave the builds alone.                           *)

LEMMA StoreUnchangedQuiet == ASSUME UNCHANGED store PROVE Quiet
  BY DEF Quiet, store

LEMMA ClaimQuiet ==
    ASSUME StoreTypeOK, NEW j \in Jobs, NEW w \in Workers, Claim(j, w)
    PROVE  Quiet
  BY DEF Claim, Quiet, StoreTypeOK, JobRow, RepositoryRow

LEMMA HeartbeatQuiet ==
    ASSUME StoreTypeOK, NEW j \in Jobs, NEW w \in Workers, Heartbeat(j, w)
    PROVE  Quiet
  BY DEF Heartbeat, Quiet, StoreTypeOK, JobRow

LEMMA StageQuiet ==
    ASSUME StoreTypeOK, NEW j \in Jobs, NEW w \in Workers, Stage(j, w)
    PROVE  Quiet
  BY StoreUnchangedQuiet DEF Stage, Quiet, StoreTypeOK, JobRow, RepositoryRow

(* Ending a lease changes no target.                                       *)
LEMMA ReleaseQuiet ==
    ASSUME job \in [Jobs -> JobRow], NEW j \in Jobs, NEW status \in Unfinished \cup Terminal
    PROVE  \A k \in Jobs : /\ Release(j, status)[k].target = job[k].target
                           /\ Release(j, status)[k].status = "absent" => job[k].status = "absent"
  BY DEF Release, JobRow, Unfinished, Terminal

LEMMA MarkStaleQuiet ==
    ASSUME StoreTypeOK, NEW j \in Jobs, NEW w, NEW status, MarkStale(j, w, status)
    PROVE  Quiet
  BY ReleaseQuiet, StoreUnchangedQuiet DEF MarkStale, Quiet, StoreTypeOK, Terminal

LEMMA CancelRevokedQuiet ==
    ASSUME StoreTypeOK, NEW j \in Jobs, NEW w, CancelRevoked(j, w)
    PROVE  Quiet
  BY ReleaseQuiet, StoreUnchangedQuiet
  DEF CancelRevoked, Quiet, StoreTypeOK, Terminal, RepositoryRow

LEMMA FailQuiet ==
    ASSUME StoreTypeOK, NEW j \in Jobs, NEW w, NEW attempt, NEW retryable,
           Fail(j, w, attempt, retryable)
    PROVE  Quiet
  <1> DEFINE status == IF ShouldRetry(attempt, retryable) THEN "retrying" ELSE "failed"
  <1>1. CASE ~Leased(j, w)
    BY <1>1, StoreUnchangedQuiet DEF Fail
  <1>2. CASE Leased(j, w)
    <2>1. status \in Unfinished \cup Terminal
      BY DEF Unfinished, Terminal
    <2>2. Release(j, status) \in [Jobs -> JobRow]
      BY <2>1, ReleaseType DEF StoreTypeOK
    <2>3. PICK due : job' = [Release(j, status) EXCEPT ![j].due = due]
      BY <1>2 DEF Fail
    <2>4. \A k \in Jobs : /\ job'[k].target = Release(j, status)[k].target
                          /\ job'[k].status = Release(j, status)[k].status
      BY <2>2, <2>3 DEF JobRow
    <2>5. UNCHANGED <<build, symbols>> /\ repo'.version = repo.version /\ repo'.commit = repo.commit
      BY <1>2 DEF Fail, FailedStatus, StoreTypeOK, RepositoryRow
    <2> QED
      BY <2>1, <2>4, <2>5, ReleaseQuiet DEF Quiet, StoreTypeOK
  <1> QED
    BY <1>1, <1>2

LEMMA RecoverAbandonedQuiet ==
    ASSUME StoreTypeOK, NEW j \in Jobs, NEW attempt, RecoverAbandoned(j, attempt)
    PROVE  Quiet
  <1> DEFINE status == IF attempt < MaxAttempts THEN "retrying" ELSE "failed"
  <1>1. status \in Unfinished \cup Terminal
    BY DEF Unfinished, Terminal
  <1>2. Release(j, status) \in [Jobs -> JobRow]
    BY <1>1, ReleaseType DEF StoreTypeOK
  <1>3. job' = [Release(j, status) EXCEPT ![j].due = TRUE]
    BY DEF RecoverAbandoned
  <1>4. \A k \in Jobs : /\ job'[k].target = Release(j, status)[k].target
                        /\ job'[k].status = Release(j, status)[k].status
    BY <1>2, <1>3 DEF JobRow
  <1>5. UNCHANGED <<build, symbols>> /\ repo'.version = repo.version /\ repo'.commit = repo.commit
    BY DEF RecoverAbandoned, FailedStatus, StoreTypeOK, RepositoryRow
  <1> QED
    BY <1>1, <1>4, <1>5, ReleaseQuiet DEF Quiet, StoreTypeOK

(* A new job has no target, like the absent job it replaces.               *)
LEMMA NewJobQuiet ==
    ASSUME StoreTypeOK, StoreInv, NEW j \in Jobs, job[j].status = "absent",
           NEW mode, NEW generation, NEW commit, NEW branch,
           job' = [job EXCEPT ![j] = NewJob(mode, generation, commit, branch)]
    PROVE  \A k \in Jobs : /\ job'[k].target = job[k].target
                           /\ job'[k].status = "absent" => job[k].status = "absent"
  <1>1. NewJob(mode, generation, commit, branch).target = 0
    BY DEF NewJob, AbsentJob
  <1>2. job[j].target = 0
    BY DEF StoreInv
  <1> QED
    BY <1>1, <1>2 DEF StoreTypeOK

LEMMA RequestQuiet ==
    ASSUME StoreTypeOK, StoreInv, NEW j \in Jobs,
           \/ SelectRepository(j)
           \/ \E c \in Commits \cup {NoCommit} : Reindex(j, c)
           \/ \E before, after \in Commits, forced \in BOOLEAN : ApplyPush(j, before, after, forced)
           \/ \E b \in Branches : ApplyRepositoryMetadata(j, b)
    PROVE  Quiet
  <1>1. CASE SelectRepository(j)
    BY <1>1, NewJobQuiet DEF SelectRepository, Quiet, StoreTypeOK, RepositoryRow
  <1>2. ASSUME NEW c \in Commits \cup {NoCommit}, Reindex(j, c) PROVE Quiet
    BY <1>2, NewJobQuiet DEF Reindex, Quiet, StoreTypeOK, RepositoryRow
  <1>3. ASSUME NEW before, NEW after, NEW forced, ApplyPush(j, before, after, forced) PROVE Quiet
    BY <1>3, NewJobQuiet DEF ApplyPush, Quiet, StoreTypeOK, RepositoryRow
  <1>4. ASSUME NEW b \in Branches, ApplyRepositoryMetadata(j, b) PROVE Quiet
    BY <1>4, NewJobQuiet DEF ApplyRepositoryMetadata, Quiet, StoreTypeOK, RepositoryRow
  <1> QED
    BY <1>1, <1>2, <1>3, <1>4

LEMMA AccessQuiet ==
    ASSUME StoreTypeOK,
           \/ RevokeAccess \/ RevokePublicAccess \/ MembershipChanges
           \/ \E b \in Branches : SynchronizeRepository(b)
    PROVE  Quiet
  BY DEF RevokeAccess, RevokePublicAccess, MembershipChanges, SynchronizeRepository, Quiet,
         StoreTypeOK, RepositoryRow

-----------------------------------------------------------------------------
(* What each action does to the store.                                     *)

LEMMA NextChanges ==
    ASSUME ConstantsAssumption, TypeInv, BuildInv, [Next]_vars
    PROVE  StoreChange
  <1> USE DEF TypeInv, BuildInv
  <1>z. ASSUME NEW w \in Workers
        PROVE  /\ worker[w].pc # "idle" => JobOf(w) \in Jobs
               /\ worker[w].pc \in AuthorizedSteps => Target(w) \in Versions
               /\ worker[w].pc \in PinnedSteps => worker[w].commit \in Commits
    BY DEF WorkersOK, RowKnows, JobOf, Target
  <1>1. ASSUME NEW w \in Workers, Deliveries(w) PROVE StoreChange
    <2>1. ASSUME NEW j \in Jobs, ClaimDelivery(w, j) PROVE Quiet
      BY <2>1, ClaimQuiet DEF ClaimDelivery
    <2>2. ASSUME NEW j \in Jobs, DropDelivery(w, j) \/ RecoverSelect(w, j) \/ EnqueueDue(w, j)
          PROVE  Quiet
      BY <2>2, StoreUnchangedQuiet DEF DropDelivery, RecoverSelect, EnqueueDue
    <2>3. ASSUME NEW j \in Jobs, RecoverAtOnce(w, j) PROVE Quiet
      BY <2>3, RecoverAbandonedQuiet DEF RecoverAtOnce
    <2>4. CASE RecoverCommit(w)
      BY <2>4, <1>z, RecoverAbandonedQuiet DEF RecoverCommit, At, StoreChange
    <2>5. CASE Acknowledge(w)
      BY <2>5, StoreUnchangedQuiet DEF Acknowledge, StoreChange
    <2> QED
      BY <1>1, <2>1, <2>2, <2>3, <2>4, <2>5 DEF Deliveries, StoreChange
  <1>2. ASSUME NEW w \in Workers, Build(w) PROVE StoreChange
    <2> DEFINE j == JobOf(w)
    <2>1. CASE Authorize(w)
      BY <2>1, <1>z, StoreUnchangedQuiet DEF Authorize, At, StoreChange
    <2>2. CASE PublicRepositoryGone(w)
      BY <2>2, AccessQuiet DEF PublicRepositoryGone, StoreChange
    <2>3. CASE \/ CheckCurrent(w) \/ (\E c \in Commits : Clone(w, c)) \/ CheckInactive(w)
               \/ ClearScope(w) \/ (\E b \in Batches : Upsert(w, b)) \/ Recheck(w)
               \/ DropSuperseded(w) \/ DropSupersededFails(w)
      BY <2>3, StoreUnchangedQuiet
      DEF CheckCurrent, Clone, CheckInactive, ClearScope, Upsert, Recheck, DropSuperseded,
          DropSupersededFails, StoreChange
    <2>4. CASE Analyze(w) \/ Embed(w) \/ ValidateScope(w) \/ Activating(w)
      BY <2>4, <1>z, StageQuiet DEF Analyze, Embed, ValidateScope, Activating, At, StoreChange
    <2>5. CASE Prepare(w)
      <3>1. j \in Jobs /\ worker[w].commit \in Commits
        BY <2>5, <1>z DEF Prepare, At, PinnedSteps
      <3> QED
        BY <2>5, <3>1, StoreUnchangedQuiet DEF Prepare, StoreChange
    <2>6. CASE Count(w)
      BY <2>6, <1>z, StoreUnchangedQuiet DEF Count, At, StoreChange
    <2>7. CASE CheckGraph(w)
      BY <2>7, <1>z, StoreUnchangedQuiet DEF CheckGraph, At, StoreChange
    <2>8. CASE MarkReady(w)
      BY <2>8, <1>z, StoreUnchangedQuiet DEF MarkReady, At, StoreChange
    <2>9. CASE Reauthorize(w)
      BY <2>9, <1>z, StoreUnchangedQuiet DEF Reauthorize, At, StoreChange
    <2>10. CASE ActivateIndex(w)
      <3>1. j \in Jobs /\ worker[w].commit \in Commits
        BY <2>10, <1>z DEF ActivateIndex, At, PinnedSteps
      <3> QED
        BY <2>10, <3>1, StoreUnchangedQuiet DEF ActivateIndex, StoreChange
    <2>11. CASE DropSupersededRows(w)
      <3>1. worker[w].previous \in Versions /\ worker[w].previous < repo.version
        BY <2>11 DEF DropSupersededRows, At, WorkersOK, RowKnows, PreviousInv
      <3> QED
        BY <2>11, <3>1 DEF DropSupersededRows, StoreChange
    <2> QED
      BY <1>2, <2>1, <2>2, <2>3, <2>4, <2>5, <2>6, <2>7, <2>8, <2>9, <2>10, <2>11 DEF Build
  <1>3. ASSUME NEW w \in Workers, Leave(w) PROVE StoreChange
    <2>1. CASE (\E retryable \in BOOLEAN : StepFails(w, retryable)) \/ CleanCheck(w) \/ CleanDelete(w)
      BY <2>1, StoreUnchangedQuiet DEF StepFails, CleanCheck, CleanDelete, StoreChange
    <2>2. CASE CleanDeleteFails(w) \/ CleanRecord(w)
      <3>1. Target(w) \in Versions
        BY <2>2, <1>z DEF CleanDeleteFails, CleanRecord, At, AuthorizedSteps, CleanSteps
      <3> QED
        BY <2>2, <3>1 DEF CleanDeleteFails, CleanRecord, StoreChange
    <2>3. CASE FailJob(w)
      BY <2>3, <1>z, FailQuiet DEF FailJob, At, StoreChange
    <2>4. CASE CancelJob(w)
      BY <2>4, <1>z, CancelRevokedQuiet DEF CancelJob, At, StoreChange
    <2>5. CASE SupersedeJob(w) \/ AlreadyActiveJob(w)
      BY <2>5, <1>z, MarkStaleQuiet DEF SupersedeJob, AlreadyActiveJob, At, StoreChange
    <2> QED
      BY <1>3, <2>1, <2>2, <2>3, <2>4, <2>5 DEF Leave
  <1>4. ASSUME NEW j \in Jobs, Api(j) PROVE StoreChange
    <2>1. CASE Request(j)
      BY <2>1, RequestQuiet DEF Request, StoreChange
    <2>2. CASE SelectAgain(j) \/ PostEnqueue(j) \/ PostCrashes(j)
      BY <2>2, StoreUnchangedQuiet DEF SelectAgain, PostEnqueue, PostCrashes, StoreChange
    <2>3. CASE PostEnqueueFails(j)
      BY <2>3 DEF PostEnqueueFails, StoreChange, Quiet
    <2> QED
      BY <1>4, <2>1, <2>2, <2>3 DEF Api
  <1>5. CASE Environment
    <2>1. ASSUME NEW w \in Workers, Beat(w) PROVE Quiet
      BY <2>1, <1>z, HeartbeatQuiet DEF Beat, IdleSteps
    <2>2. ASSUME NEW w \in Workers, Crash(w) PROVE Quiet
      BY <2>2, StoreUnchangedQuiet DEF Crash
    <2>3. ASSUME NEW j \in Jobs, HeartbeatExpires(j) \/ BackoffEnds(j) PROVE Quiet
      BY <2>3 DEF HeartbeatExpires, BackoffEnds, Quiet, StoreTypeOK, JobRow
    <2>4. ASSUME NEW j \in Jobs, LoseWakeup(j) PROVE Quiet
      BY <2>4, StoreUnchangedQuiet DEF LoseWakeup
    <2>5. CASE AccessChanges
      BY <2>5, AccessQuiet DEF AccessChanges, StoreChange
    <2> QED
      BY <1>5, <2>1, <2>2, <2>3, <2>4, <2>5 DEF Environment, StoreChange
  <1>6. CASE UNCHANGED vars
    BY <1>6, StoreUnchangedQuiet DEF vars, store, StoreChange
  <1> QED
    BY <1>1, <1>2, <1>3, <1>4, <1>5, <1>6 DEF Next

-----------------------------------------------------------------------------
(* StoreInv, one kind of change at a time.                                 *)

LEMMA QuietKeeps == ASSUME StoreInv, Quiet PROVE StoreInv'
  BY DEF StoreInv, BuildRowOK, Quiet

(* The job had no target, hence no build, or keeps the target it has.      *)
LEMMA AuthorizedContextKeeps ==
    ASSUME StoreTypeOK, StoreInv, NEW j \in Jobs, AuthorizedContext(j)
    PROVE  StoreInv'
  <1>1. job' = [job EXCEPT ![j].target = TargetOf(j)] /\ UNCHANGED <<repo, build, symbols>>
    BY DEF AuthorizedContext
  <1>2. \A k \in Jobs : /\ job'[k].status = job[k].status
                        /\ job[k].target # 0 => job'[k].target = job[k].target
                        /\ k # j => job'[k].target = job[k].target
    BY <1>1 DEF TargetOf, StoreTypeOK, JobRow
  <1>3. job[j].status = "running"
    BY DEF AuthorizedContext, Authorized
  <1>4. ASSUME NEW v \in Versions PROVE BuildRowOK(v)'
    BY <1>1, <1>2 DEF StoreInv, BuildRowOK, Versions
  <1>5. \A k \in Jobs : job'[k].status = "absent" => job'[k].target = 0
    BY <1>2, <1>3 DEF StoreInv
  <1> QED
    BY <1>1, <1>4, <1>5 DEF StoreInv

LEMMA PrepareBuildKeeps ==
    ASSUME StoreTypeOK, StoreInv, NEW j \in Jobs, NEW w \in Workers, NEW c \in Commits,
           PrepareBuild(j, w, c)
    PROVE  StoreInv'
  <1> DEFINE target == job[j].target
  <1>1. target \in Versions /\ target = repo.version + 1 /\ repo.version \in Nat
    BY DEF PrepareBuild, CanPrepare, StoreTypeOK, JobRow, RepositoryRow, Versions
  <1>2. UNCHANGED <<job, repo>>
    BY DEF PrepareBuild
  <1>3. /\ build'[target] = [state |-> "building", job |-> j, commit |-> c, counted |-> FALSE,
                             graph |-> FALSE, cleanup |-> "pending"]
        /\ symbols'[target] = c
    BY <1>1 DEF PrepareBuild, StoreTypeOK
  <1>4. \A v \in Versions : v # target => build'[v] = build[v] /\ symbols'[v] = symbols[v]
    BY DEF PrepareBuild, StoreTypeOK
  <1>5. BuildRowOK(target)'
    BY <1>1, <1>2, <1>3 DEF BuildRowOK
  <1>6. ASSUME NEW v \in Versions, v # target PROVE BuildRowOK(v)'
    BY <1>2, <1>4, <1>6 DEF StoreInv, BuildRowOK
  <1>7. repo.version > 0 => build'[repo.version].commit = repo.commit
    BY <1>1, <1>4 DEF StoreInv, StoreTypeOK, RepositoryRow
  <1> QED
    BY <1>2, <1>5, <1>6, <1>7 DEF StoreInv

(* Recording a count, the graph or readiness keeps the identity of a build.*)
LEMMA BuildProgressKeeps ==
    ASSUME StoreTypeOK, StoreInv, NEW v \in Versions, UNCHANGED <<job, repo, symbols>>,
           NEW row \in BuildRow, build' = [build EXCEPT ![v] = row],
           build[v].state = "building", row.state \in {"building", "ready"},
           row.job = build[v].job, row.commit = build[v].commit,
           row.state = "ready" => row.counted /\ row.graph
    PROVE  StoreInv'
  <1>1. build'[v] = row /\ \A x \in Versions : x # v => build'[x] = build[x]
    BY DEF StoreTypeOK
  <1>2. BuildRowOK(v)'
    BY <1>1 DEF StoreInv, BuildRowOK
  <1>3. ASSUME NEW x \in Versions, x # v PROVE BuildRowOK(x)'
    BY <1>1, <1>3 DEF StoreInv, BuildRowOK
  <1>4. repo.version > 0 => build'[repo.version].commit = repo.commit
    BY <1>1 DEF StoreInv, StoreTypeOK, RepositoryRow
  <1> QED
    BY <1>2, <1>3, <1>4 DEF StoreInv

LEMMA RecordVectorCountsKeeps ==
    ASSUME StoreTypeOK, StoreInv, NEW j \in Jobs, NEW w \in Workers, RecordVectorCounts(j, w)
    PROVE  StoreInv'
  <1> DEFINE v == job[j].target
             row == [build[v] EXCEPT !.counted = TRUE]
  <1>1. v \in Versions /\ build[v].state = "building" /\ build[v] \in BuildRow
    BY OwnBuildExists DEF RecordVectorCounts, OwnBuild, StoreTypeOK
  <1>2. /\ row \in BuildRow /\ row.state = "building"
        /\ row.job = build[v].job /\ row.commit = build[v].commit
    BY <1>1 DEF BuildRow
  <1>3. build' = [build EXCEPT ![v] = row]
    BY <1>1 DEF RecordVectorCounts, StoreTypeOK, BuildRow
  <1> QED
    BY <1>1, <1>2, <1>3, BuildProgressKeeps DEF RecordVectorCounts

LEMMA ValidateGraphKeeps ==
    ASSUME StoreTypeOK, StoreInv, NEW j \in Jobs, NEW w \in Workers, ValidateGraph(j, w)
    PROVE  StoreInv'
  <1> DEFINE v == job[j].target
             row == [build[v] EXCEPT !.graph = TRUE]
  <1>1. v \in Versions /\ build[v].state = "building" /\ build[v] \in BuildRow
    BY OwnBuildExists DEF ValidateGraph, GraphMatches, OwnBuild, StoreTypeOK
  <1>2. /\ row \in BuildRow /\ row.state = "building"
        /\ row.job = build[v].job /\ row.commit = build[v].commit
    BY <1>1 DEF BuildRow
  <1>3. build' = [build EXCEPT ![v] = row]
    BY <1>1 DEF ValidateGraph, StoreTypeOK, BuildRow
  <1> QED
    BY <1>1, <1>2, <1>3, BuildProgressKeeps DEF ValidateGraph

LEMMA MarkBuildReadyKeeps ==
    ASSUME StoreTypeOK, StoreInv, NEW j \in Jobs, NEW w \in Workers, MarkBuildReady(j, w)
    PROVE  StoreInv'
  <1> DEFINE v == job[j].target
             row == [build[v] EXCEPT !.state = "ready"]
  <1>1. v \in Versions /\ build[v].state = "building" /\ build[v] \in BuildRow
    BY OwnBuildExists DEF MarkBuildReady, CanMarkReady, OwnBuild, StoreTypeOK
  <1>2. /\ row \in BuildRow /\ row.state = "ready"
        /\ row.job = build[v].job /\ row.commit = build[v].commit
        /\ row.counted = build[v].counted /\ row.graph = build[v].graph
    BY <1>1 DEF BuildRow
  <1>3. build[v].counted /\ build[v].graph
    BY DEF MarkBuildReady, CanMarkReady
  <1>4. build' = [build EXCEPT ![v] = row]
    BY <1>1 DEF MarkBuildReady, StoreTypeOK, BuildRow
  <1> QED
    BY <1>1, <1>2, <1>3, <1>4, BuildProgressKeeps DEF MarkBuildReady

(* The job row that activate writes keeps its target.                      *)
LEMMA ActivatedJobs ==
    ASSUME StoreTypeOK, NEW j \in Jobs, NEW w, NEW c, Activate(j, w, c)
    PROVE  \A k \in Jobs : /\ job'[k].target = job[k].target
                           /\ job'[k].status = "absent" => job[k].status = "absent"
                           /\ job'[j].status = "complete"
  <1>1. "complete" \in Unfinished \cup Terminal
    BY DEF Terminal
  <1>2. Release(j, "complete") \in [Jobs -> JobRow]
    BY <1>1, ReleaseType DEF StoreTypeOK
  <1>2a. Release(j, "complete")[j].status = "complete"
    BY DEF StoreTypeOK, Release, JobRow
  <1>3. job' = [Release(j, "complete") EXCEPT ![j].commit = c]
    BY DEF Activate
  <1>4. \A k \in Jobs : /\ job'[k].target = Release(j, "complete")[k].target
                        /\ job'[k].status = Release(j, "complete")[k].status
    BY <1>2, <1>3 DEF JobRow
  <1> QED
    BY <1>1, <1>2a, <1>4, ReleaseQuiet DEF StoreTypeOK

(* Only the target and the version that was active change; the first was   *)
(* ready, the second is not the target.                                    *)
LEMMA ActivateKeeps ==
    ASSUME StoreTypeOK, StoreInv, NEW j \in Jobs, NEW w \in Workers, NEW c \in Commits,
           Activate(j, w, c)
    PROVE  StoreInv'
  <1>0. PICK target \in Versions : target = job[j].target
    BY OwnBuildExists DEF Activate, CanActivate
  <1>1. /\ target = repo.version + 1 /\ repo.version \in Nat
        /\ build[target].state = "ready" /\ build[target].job = j /\ build[target].commit = c
    BY <1>0 DEF Activate, CanActivate, OwnBuild, StoreTypeOK, RepositoryRow, Versions
  <1>2. repo'.version = target /\ repo'.commit = c /\ symbols' = symbols
    BY <1>0 DEF Activate, StoreTypeOK, RepositoryRow
  <1>3. \A k \in Jobs : /\ job'[k].target = job[k].target
                        /\ job'[k].status = "absent" => job[k].status = "absent"
    BY ActivatedJobs
  <1>a. target # repo.version
    BY <1>1
  <1>b. build' = Activated(target)
    BY <1>0 DEF Activate
  <1>4. /\ build'[target] = [build[target] EXCEPT !.state = "active", !.cleanup = "not_required"]
        /\ \A v \in Versions : v # target /\ v # repo.version => build'[v] = build[v]
    BY <1>1, <1>a, <1>b DEF Activated
  <1>5. ASSUME repo.version \in Versions
        PROVE  build'[repo.version] = [build[repo.version] EXCEPT !.state = "superseded",
                                                                  !.cleanup = "pending"]
    BY <1>5, <1>a, <1>b DEF Activated
  <1>6. build[target] \in BuildRow
    BY <1>1 DEF StoreTypeOK
  <1>7. BuildRowOK(target)'
    <2>1. /\ build'[target].state = "active" /\ build'[target].job = j
          /\ build'[target].commit = c
          /\ build'[target].counted = build[target].counted
          /\ build'[target].graph = build[target].graph
      BY <1>1, <1>4, <1>6 DEF BuildRow
    <2>2. BuildRowOK(target)
      BY <1>1 DEF StoreInv
    <2> QED
      BY <1>0, <1>1, <1>2, <1>3, <2>1, <2>2 DEF BuildRowOK
  <1>8. ASSUME NEW v \in Versions, v # target, v = repo.version PROVE BuildRowOK(v)'
    <2>1. build[v] \in BuildRow
      BY DEF StoreTypeOK
    <2>2. /\ build'[v].state = "superseded" /\ build'[v].job = build[v].job
          /\ build'[v].commit = build[v].commit
      BY <1>5, <1>8, <2>1 DEF BuildRow
    <2>3. BuildRowOK(v) /\ build[v].state = "active"
      BY <1>8 DEF StoreInv, BuildRowOK
    <2> QED
      BY <1>1, <1>2, <1>3, <1>8, <2>2, <2>3 DEF BuildRowOK
  <1>9. ASSUME NEW v \in Versions, v # target, v # repo.version PROVE BuildRowOK(v)'
    <2>1. build'[v] = build[v] /\ symbols'[v] = symbols[v]
      BY <1>2, <1>4, <1>9
    <2>2. BuildRowOK(v) /\ v \in Nat
      BY DEF StoreInv, Versions
    <2> QED
      BY <1>1, <1>2, <1>3, <1>9, <2>1, <2>2 DEF BuildRowOK
  <1>10. build'[repo'.version].commit = repo'.commit
    BY <1>1, <1>2, <1>4, <1>6 DEF BuildRow
  <1>11. \A k \in Jobs : job'[k].status = "absent" => job'[k].target = 0
    BY <1>3 DEF StoreInv
  <1>12. ASSUME NEW v \in Versions PROVE BuildRowOK(v)'
    <2>1. CASE v = target
      BY <1>7, <2>1
    <2>2. CASE v # target /\ v = repo.version
      BY <1>8, <2>2
    <2>3. CASE v # target /\ v # repo.version
      BY <1>9, <2>3
    <2> QED
      BY <2>1, <2>2, <2>3
  <1> QED
    BY <1>10, <1>11, <1>12 DEF StoreInv

(* Failing a build that is not active removes it from the builds that      *)
(* count.                                                                  *)
LEMMA RecordFailedBuildCleanupKeeps ==
    ASSUME StoreTypeOK, StoreInv, NEW v \in Versions, NEW complete \in BOOLEAN,
           RecordFailedBuildCleanup(v, complete)
    PROVE  StoreInv'
  <1>1. CASE ~MayFailBuild(v)
    BY <1>1, StoreUnchangedQuiet, QuietKeeps DEF RecordFailedBuildCleanup
  <1>2. CASE MayFailBuild(v)
    <2>1. UNCHANGED <<job, repo>>
      BY <1>2 DEF RecordFailedBuildCleanup
    <2>2. PICK cleanup : build' = [build EXCEPT ![v].state = "failed", ![v].cleanup = cleanup]
      BY <1>2 DEF RecordFailedBuildCleanup
    <2>3. \A x \in Versions : x # v => symbols'[x] = symbols[x] /\ build'[x] = build[x]
      BY <1>2, <2>2 DEF RecordFailedBuildCleanup, StoreTypeOK
    <2>4. /\ build'[v].state = "failed" /\ build'[v].job = build[v].job
          /\ build'[v].commit = build[v].commit
      BY <2>2 DEF StoreTypeOK, BuildRow
    <2>5. BuildRowOK(v) /\ build[v].state # "none" /\ v # repo.version
      BY <1>2 DEF StoreInv, BuildRowOK, MayFailBuild
    <2>6. BuildRowOK(v)'
      BY <2>1, <2>4, <2>5 DEF BuildRowOK
    <2>7. ASSUME NEW x \in Versions, x # v PROVE BuildRowOK(x)'
      BY <2>1, <2>3, <2>7 DEF StoreInv, BuildRowOK
    <2>8. repo.version > 0 => build'[repo.version].commit = repo.commit
      BY <2>3, <2>5 DEF StoreInv, StoreTypeOK, RepositoryRow
    <2> QED
      BY <2>1, <2>6, <2>7, <2>8 DEF StoreInv
  <1> QED
    BY <1>1, <1>2

(* Below the active version no build needs its symbols any more.           *)
LEMMA CompleteSupersededCleanupKeeps ==
    ASSUME StoreTypeOK, StoreInv, NEW v \in Versions, v < repo.version,
           CompleteSupersededCleanup(v)
    PROVE  StoreInv'
  <1>1. UNCHANGED <<job, repo>>
    BY DEF CompleteSupersededCleanup
  <1>2. \A x \in Versions : x # v => symbols'[x] = symbols[x] /\ build'[x] = build[x]
    BY DEF CompleteSupersededCleanup, StoreTypeOK
  <1>3. /\ build'[v].state = build[v].state /\ build'[v].job = build[v].job
        /\ build'[v].commit = build[v].commit
    BY DEF CompleteSupersededCleanup, StoreTypeOK, BuildRow
  <1>4. v \in Nat /\ repo.version \in Nat
    BY DEF StoreTypeOK, RepositoryRow, Versions
  <1>5. BuildRowOK(v)
    BY DEF StoreInv
  <1>6. BuildRowOK(v)'
    BY <1>1, <1>3, <1>4, <1>5 DEF BuildRowOK
  <1>7. ASSUME NEW x \in Versions, x # v PROVE BuildRowOK(x)'
    BY <1>1, <1>2, <1>7 DEF StoreInv, BuildRowOK
  <1>8. repo.version > 0 => build'[repo.version].commit = repo.commit
    BY <1>2, <1>4 DEF StoreInv, StoreTypeOK, RepositoryRow
  <1> QED
    BY <1>1, <1>6, <1>7, <1>8 DEF StoreInv

LEMMA StoreChangeKeeps == ASSUME StoreTypeOK, StoreInv, StoreChange PROVE StoreInv'
  BY QuietKeeps, AuthorizedContextKeeps, PrepareBuildKeeps, RecordVectorCountsKeeps,
     ValidateGraphKeeps, MarkBuildReadyKeeps, ActivateKeeps, RecordFailedBuildCleanupKeeps,
     CompleteSupersededCleanupKeeps
  DEF StoreChange

(* Only activation moves the active version, and it moves it by one.       *)
LEMMA VersionMoves ==
    ASSUME StoreTypeOK, StoreChange, repo'.version # repo.version
    PROVE  \E j \in Jobs, w \in Workers, c \in Commits :
              Activate(j, w, c) /\ repo'.version = repo.version + 1
  <1>1. PICK j \in Jobs, w \in Workers, c \in Commits : Activate(j, w, c)
    BY DEF StoreChange, Quiet, AuthorizedContext, PrepareBuild, RecordVectorCounts,
           ValidateGraph, MarkBuildReady, RecordFailedBuildCleanup, store,
           CompleteSupersededCleanup
  <1>2. repo'.version = job[j].target /\ job[j].target = repo.version + 1
    BY <1>1 DEF Activate, CanActivate, StoreTypeOK, RepositoryRow
  <1> QED
    BY <1>1, <1>2

-----------------------------------------------------------------------------
(* PreviousInv: a worker drops the version it has just replaced.           *)

(* The steps a worker enters at one place only: ActivateIndex leads to the *)
(* first two, RecoverSelect to the last.                                   *)
GatedSteps == {"drop", "dropRows", "recovering"}

(* No worker enters them, or drops another version.                        *)
Gated(before, after) ==
    after.pc \in GatedSteps =>
        /\ before.pc \in GatedSteps /\ after.previous = before.previous
        /\ after.pc = "recovering" <=> before.pc = "recovering"

GatesKept == \A w \in Workers : Gated(worker[w], worker'[w])

LEMMA RowKept ==
    ASSUME WorkersOK, NEW w \in Workers, NEW row, Gated(worker[w], row),
           worker' = [worker EXCEPT ![w] = row]
    PROVE  GatesKept
  BY DEF WorkersOK, GatesKept, Gated

LEMMA FreeRow ==
    ASSUME WorkersOK, NEW w \in Workers, NEW row, row.pc \notin GatedSteps,
           worker' = [worker EXCEPT ![w] = row]
    PROVE  GatesKept
  BY RowKept DEF Gated

LEMMA GotoKept ==
    ASSUME WorkersOK, NEW w \in Workers, NEW step, Goto(w, step),
           step \in GatedSteps => step = "dropRows" /\ worker[w].pc = "drop"
    PROVE  GatesKept
  <1> DEFINE row == [worker[w] EXCEPT !.pc = step]
  <1>1. row.pc = step /\ row.previous = worker[w].previous
    BY DEF WorkersOK, WorkerRow
  <1>2. worker' = [worker EXCEPT ![w] = row]
    BY DEF Goto, WorkersOK
  <1>3. Gated(worker[w], row)
    BY <1>1 DEF Gated, GatedSteps
  <1> QED
    BY <1>2, <1>3, RowKept

LEMMA LeavingStep ==
    ASSUME NEW w, NEW step
    PROVE  /\ Leaving(w, step).pc = step
           /\ \A b : [Leaving(w, step) EXCEPT !.retryable = b].pc = step
           /\ \A exit : [Leaving(w, step) EXCEPT !.exit = exit].pc = step
  BY DEF Leaving, Idle

LEMMA LeavingKept ==
    ASSUME WorkersOK, NEW w \in Workers,
           \/ \E b : FailFrom(w, b)
           \/ \E exit : CleanThen(w, exit)
           \/ Finish(w)
           \/ worker' = [worker EXCEPT ![w] = Idle]
           \/ \E step \in ExitSteps : worker' = [worker EXCEPT ![w] = Leaving(w, step)]
    PROVE  GatesKept
  <1>1. ASSUME NEW b, FailFrom(w, b) PROVE GatesKept
    <2> DEFINE step == IF worker[w].prepared THEN "cleanCheck" ELSE "fail"
               row == [Leaving(w, step) EXCEPT !.retryable = b]
    <2>1. row.pc \notin GatedSteps
      BY LeavingStep DEF GatedSteps
    <2>2. worker' = [worker EXCEPT ![w] = row]
      BY <1>1 DEF FailFrom
    <2> HIDE DEF step, row
    <2> QED
      BY <2>1, <2>2, FreeRow
  <1>2. ASSUME NEW exit, CleanThen(w, exit) PROVE GatesKept
    <2> DEFINE row == [Leaving(w, "cleanCheck") EXCEPT !.exit = exit]
    <2>1. row.pc = "cleanCheck" /\ worker' = [worker EXCEPT ![w] = row]
      BY <1>2, LeavingStep DEF CleanThen
    <2> HIDE DEF row
    <2> QED
      BY <2>1, FreeRow DEF GatedSteps
  <1>3. CASE Finish(w)
    <2>1. [Idle EXCEPT !.pc = "ack", !.job = JobOf(w)].pc = "ack"
      BY DEF Idle
    <2> QED
      BY <1>3, <2>1, FreeRow DEF Finish, GatedSteps
  <1>4. CASE worker' = [worker EXCEPT ![w] = Idle]
    BY <1>4, FreeRow DEF Idle, GatedSteps
  <1>5. ASSUME NEW step \in ExitSteps, worker' = [worker EXCEPT ![w] = Leaving(w, step)]
        PROVE  GatesKept
    BY <1>5, LeavingStep, FreeRow DEF GatedSteps, ExitSteps
  <1> QED
    BY <1>1, <1>2, <1>3, <1>4, <1>5

LEMMA UnchangedKept == ASSUME UNCHANGED worker PROVE GatesKept
  BY DEF GatesKept, Gated

LEMMA DeliveriesKept ==
    ASSUME WorkersOK, NEW w \in Workers, Deliveries(w),
           ~ \E j \in Jobs : RecoverSelect(w, j)
    PROVE  GatesKept
  <1>1. ASSUME NEW j \in Jobs, ClaimDelivery(w, j) PROVE GatesKept
    <2>1. [Idle EXCEPT !.pc = "authorize", !.job = j, !.attempt = job[j].attempt + 1].pc
            = "authorize"
      BY DEF Idle
    <2> QED
      BY <1>1, <2>1, FreeRow DEF ClaimDelivery, GatedSteps
  <1>2. ASSUME NEW j \in Jobs, DropDelivery(w, j) \/ RecoverAtOnce(w, j) \/ EnqueueDue(w, j)
        PROVE  GatesKept
    BY <1>2, UnchangedKept DEF DropDelivery, RecoverAtOnce, EnqueueDue
  <1>3. CASE RecoverCommit(w) \/ Acknowledge(w)
    BY <1>3, LeavingKept DEF RecoverCommit, Acknowledge
  <1> QED
    BY <1>1, <1>2, <1>3 DEF Deliveries

LEMMA RecoverRow ==
    ASSUME WorkersOK, NEW w \in Workers, NEW j \in Jobs, RecoverSelect(w, j)
    PROVE  /\ worker'[w].pc = "recovering"
           /\ \A x \in Workers : x # w => worker'[x] = worker[x]
  <1>1. [Idle EXCEPT !.pc = "recovering", !.job = j, !.attempt = job[j].attempt].pc = "recovering"
    BY DEF Idle
  <1> QED
    BY <1>1 DEF RecoverSelect, WorkersOK

LEMMA BuildKept ==
    ASSUME WorkersOK, NEW w \in Workers, Build(w), ~ActivateIndex(w)
    PROVE  GatesKept
  <1>1. CASE Authorize(w)
    <2>1. CASE Authorized(JobOf(w))
      <3>1. [worker[w] EXCEPT !.pc = "current", !.context = ContextOf(JobOf(w))].pc = "current"
        BY DEF WorkersOK, WorkerRow
      <3>2. worker' = [worker EXCEPT ![w] = [worker[w] EXCEPT !.pc = "current",
                                                        !.context = ContextOf(JobOf(w))]]
        BY <1>1, <2>1 DEF Authorize, WorkersOK
      <3> QED
        BY <3>1, <3>2, FreeRow DEF GatedSteps
    <2> QED
      BY <1>1, <2>1, LeavingKept DEF Authorize, ExitSteps
  <1>2. CASE CheckCurrent(w)
    BY <1>2, GotoKept, LeavingKept DEF CheckCurrent, GatedSteps, ExitSteps
  <1>3. CASE PublicRepositoryGone(w)
    BY <1>3, LeavingKept DEF PublicRepositoryGone
  <1>4. ASSUME NEW c \in Commits, Clone(w, c) PROVE GatesKept
    <2>1. CASE AlreadyActive(w, c)
      BY <1>4, <2>1, LeavingKept DEF Clone, ExitSteps
    <2>2. CASE ~AlreadyActive(w, c)
      <3>1. [worker[w] EXCEPT !.commit = c, !.pc = "analyze"].pc = "analyze"
        BY DEF WorkersOK, WorkerRow
      <3>2. worker' = [worker EXCEPT ![w] = [worker[w] EXCEPT !.commit = c, !.pc = "analyze"]]
        BY <1>4, <2>2 DEF Clone, WorkersOK
      <3> QED
        BY <3>1, <3>2, FreeRow DEF GatedSteps
    <2> QED
      BY <2>1, <2>2
  <1>5. CASE Analyze(w) \/ Embed(w) \/ Activating(w) \/ DropSuperseded(w)
    BY <1>5, GotoKept DEF Analyze, Embed, Activating, DropSuperseded, GatedSteps, At
  <1>6. CASE Prepare(w)
    <2>1. CASE CanPrepare(JobOf(w), w)
      <3>1. [worker[w] EXCEPT !.pc = "embed", !.prepared = TRUE].pc = "embed"
        BY DEF WorkersOK, WorkerRow
      <3>2. worker' = [worker EXCEPT ![w] = [worker[w] EXCEPT !.pc = "embed", !.prepared = TRUE]]
        BY <1>6, <2>1 DEF Prepare, WorkersOK
      <3> QED
        BY <3>1, <3>2, FreeRow DEF GatedSteps
    <2> QED
      BY <1>6, <2>1, LeavingKept DEF Prepare
  <1>7. CASE CheckInactive(w) \/ Count(w) \/ ValidateScope(w) \/ CheckGraph(w) \/ MarkReady(w)
    BY <1>7, GotoKept, LeavingKept
    DEF CheckInactive, Count, ValidateScope, CheckGraph, MarkReady, GatedSteps
  <1>8. CASE ClearScope(w)
    <2>1. Goto(w, "upsert")
      BY <1>8 DEF ClearScope, Goto
    <2> QED
      BY <2>1, GotoKept DEF GatedSteps
  <1>9. ASSUME NEW b \in Batches, Upsert(w, b) PROVE GatesKept
    <2>1. worker[w].pc = "upsert" /\ worker[w] \in WorkerRow /\ worker \in [Workers -> WorkerRow]
      BY <1>9 DEF Upsert, At, WorkersOK
    <2>2. CASE worker[w].sent \cup {b} = Batches
      <3>1. worker' = [worker EXCEPT ![w] = [worker[w] EXCEPT !.sent = {}, !.pc = "count"]]
        BY <1>9, <2>1, <2>2 DEF Upsert
      <3>2. [worker[w] EXCEPT !.sent = {}, !.pc = "count"].pc = "count"
        BY <2>1 DEF WorkerRow
      <3> QED
        BY <3>1, <3>2, FreeRow DEF GatedSteps
    <2>3. CASE worker[w].sent \cup {b} # Batches
      <3> DEFINE row == [worker[w] EXCEPT !.sent = worker[w].sent \cup {b}]
      <3>1. worker' = [worker EXCEPT ![w] = row]
        BY <1>9, <2>1, <2>3 DEF Upsert
      <3>2. row.pc = "upsert"
        BY <2>1 DEF WorkerRow
      <3> HIDE DEF row
      <3> QED
        BY <3>1, <3>2, FreeRow DEF GatedSteps
    <2> QED
      BY <2>2, <2>3
  <1>10. CASE Recheck(w)
    BY <1>10, GotoKept, LeavingKept DEF Recheck, GatedSteps
  <1>11. CASE Reauthorize(w)
    BY <1>11, GotoKept, LeavingKept DEF Reauthorize, GatedSteps
  <1>12. CASE DropSupersededFails(w) \/ DropSupersededRows(w)
    BY <1>12, LeavingKept DEF DropSupersededFails, DropSupersededRows
  <1> QED
    BY <1>1, <1>2, <1>3, <1>4, <1>5, <1>6, <1>7, <1>8, <1>9, <1>10, <1>11, <1>12 DEF Build

LEMMA LeaveKept ==
    ASSUME WorkersOK, NEW w \in Workers, Leave(w)
    PROVE  GatesKept
  <1>1. worker[w].exit \notin GatedSteps /\ worker[w] \in WorkerRow
    BY DEF WorkersOK, WorkerRow, GatedSteps
  <1>2. ASSUME NEW b, StepFails(w, b) PROVE GatesKept
    BY <1>2, LeavingKept DEF StepFails
  <1>3. CASE CleanCheck(w) \/ CleanDeleteFails(w)
    <2> DEFINE row == [worker[w] EXCEPT !.pc = worker[w].exit, !.retryable = TRUE]
    <2>1. row.pc = worker[w].exit
      BY <1>1 DEF WorkerRow
    <2>2. worker' = [worker EXCEPT ![w] = row] \/ Goto(w, "cleanDelete")
      BY <1>3 DEF CleanCheck, CleanDeleteFails, Goto, WorkersOK
    <2> HIDE DEF row
    <2> QED
      BY <1>1, <2>1, <2>2, FreeRow, GotoKept DEF GatedSteps
  <1>4. CASE CleanDelete(w) \/ CleanRecord(w)
    BY <1>1, <1>4, GotoKept DEF CleanDelete, CleanRecord, GatedSteps
  <1>5. CASE FailJob(w) \/ CancelJob(w) \/ SupersedeJob(w) \/ AlreadyActiveJob(w)
    BY <1>5, LeavingKept DEF FailJob, CancelJob, SupersedeJob, AlreadyActiveJob
  <1> QED
    BY <1>2, <1>3, <1>4, <1>5 DEF Leave

LEMMA OthersKept ==
    ASSUME WorkersOK, (\E j \in Jobs : Api(j)) \/ Environment \/ UNCHANGED vars
    PROVE  GatesKept
  <1>1. ASSUME NEW j \in Jobs, Api(j) PROVE GatesKept
    BY <1>1, UnchangedKept
    DEF Api, Request, SelectAgain, PostEnqueue, PostEnqueueFails, PostCrashes
  <1>2. CASE Environment
    BY <1>2, UnchangedKept, LeavingKept
    DEF Environment, Beat, Crash, HeartbeatExpires, BackoffEnds, LoseWakeup, AccessChanges
  <1>3. CASE UNCHANGED vars
    BY <1>3, UnchangedKept DEF vars
  <1> QED
    BY <1>1, <1>2, <1>3

LEMMA NextPreviousInv ==
    ASSUME ConstantsAssumption, TypeInv, BuildInv, [Next]_vars
    PROVE  PreviousInv'
  <1>1. StoreChange /\ StoreTypeOK /\ StoreTypeOK' /\ WorkersOK /\ PreviousInv
    BY NextChanges, NextTypeInv DEF TypeInv, BuildInv
  <1>2. repo.version \in Nat /\ repo'.version \in Nat /\ repo'.version >= repo.version
    BY <1>1, VersionMoves DEF StoreTypeOK, RepositoryRow, Versions
  <1>3. CASE GatesKept
    BY <1>1, <1>2, <1>3 DEF PreviousInv, GatesKept, Gated, GatedSteps, WorkersOK, WorkerRow, Versions
  <1>5. ASSUME NEW w \in Workers, NEW j \in Jobs, RecoverSelect(w, j) PROVE PreviousInv'
    BY <1>1, <1>2, <1>5, RecoverRow DEF PreviousInv, RecoverSelect, store
  <1>4. ASSUME NEW w \in Workers, ActivateIndex(w) PROVE PreviousInv'
    <2>1. CASE ~CanActivate(JobOf(w), w, worker[w].commit) \/ ~(repo.version > 0)
      BY <1>1, <1>3, <1>4, <2>1, LeavingKept DEF ActivateIndex
    <2>2. CASE CanActivate(JobOf(w), w, worker[w].commit) /\ repo.version > 0
      <3> DEFINE row == [Leaving(w, "drop") EXCEPT !.previous = repo.version]
      <3>1. row.previous = repo.version /\ worker' = [worker EXCEPT ![w] = row]
        BY <1>4, <2>2 DEF ActivateIndex, Leaving, Idle
      <3>2. repo'.version > repo.version
        <4>1. Activate(JobOf(w), w, worker[w].commit)
          BY <1>4, <2>2 DEF ActivateIndex
        <4>2. repo'.version = job[JobOf(w)].target /\ job[JobOf(w)].target = repo.version + 1
          BY <1>1, <4>1 DEF Activate, CanActivate, StoreTypeOK, RepositoryRow
        <4> QED
          BY <1>2, <4>2
      <3> HIDE DEF row
      <3> QED
        BY <1>1, <1>2, <3>1, <3>2 DEF PreviousInv, WorkersOK, WorkerRow, Versions
    <2> QED
      BY <2>1, <2>2
  <1> QED
    BY <1>1, <1>3, <1>4, <1>5, DeliveriesKept, BuildKept, LeaveKept, OthersKept DEF Next

-----------------------------------------------------------------------------
(* The inductive invariant.                                                *)

SafetyInv == TypeInv /\ BuildInv

LEMMA InitSafetyInv == ASSUME ConstantsAssumption, Init PROVE SafetyInv
  <1>1. TypeInv
    BY InitTypeInv
  <1>2. StoreInv
    BY DEF Init, StoreInit, StoreInv, BuildRowOK, NoBuild, AbsentJob, Versions
  <1>3. PreviousInv
    BY DEF Init, PreviousInv, Idle
  <1> QED
    BY <1>1, <1>2, <1>3 DEF SafetyInv, BuildInv

LEMMA NextSafetyInv == ASSUME ConstantsAssumption, SafetyInv, [Next]_vars PROVE SafetyInv'
  <1>1. TypeInv' /\ PreviousInv'
    BY NextTypeInv, NextPreviousInv DEF SafetyInv
  <1>2. StoreInv'
    BY NextChanges, StoreChangeKeeps DEF SafetyInv, TypeInv, BuildInv
  <1> QED
    BY <1>1, <1>2 DEF SafetyInv, BuildInv

LEMMA SafetyCorrect == Spec => []SafetyInv
  <1>1. Init => SafetyInv
    BY InitSafetyInv, ConstantsAssumption
  <1>2. SafetyInv /\ [Next]_vars => SafetyInv'
    BY NextSafetyInv, ConstantsAssumption
  <1> QED
    BY <1>1, <1>2, PTL DEF Spec

(* ActiveIndexConsistent: the repository row, the active build and the     *)
(* stored symbols always agree (prepare_build, activate and the cleanups), *)
(* for any jobs and workers and under every fault.                         *)
THEOREM ActiveIndexCorrect == Spec => []ActiveIndexConsistent
  <1>1. SafetyInv => ActiveIndexConsistent
    <2> SUFFICES ASSUME SafetyInv PROVE ActiveIndexConsistent
      OBVIOUS
    <2>1. \A v \in Versions : BuildRowOK(v)
      BY DEF SafetyInv, BuildInv, StoreInv
    <2>2. ASSUME repo.version > 0
          PROVE  /\ build[repo.version].commit = repo.commit
                 /\ symbols[repo.version] = repo.commit
                 /\ build[repo.version].counted /\ build[repo.version].graph
      <3>1. repo.version \in Versions
        BY <2>2 DEF SafetyInv, TypeInv, StoreTypeOK, RepositoryRow
      <3>2. build[repo.version].commit = repo.commit
        BY <2>2 DEF SafetyInv, BuildInv, StoreInv
      <3> QED
        BY <2>1, <3>1, <3>2 DEF BuildRowOK
    <2> QED
      BY <2>1, <2>2 DEF BuildRowOK, ActiveIndexConsistent
  <1> QED
    BY <1>1, SafetyCorrect, PTL

(* NoStaleActivation: only a running job of the newest generation and of   *)
(* the present default branch publishes a version, the next one, and the   *)
(* previous build is superseded by the same transaction (activate).        *)
THEOREM ActivationNeverStale == Spec => NoStaleActivation
  <1> DEFINE Moved == LET target == repo'.version
                          j == build'[target].job
                      IN /\ target = repo.version + 1
                         /\ job[j].status = "running" /\ job'[j].status = "complete"
                         /\ job[j].generation = repo.generation
                         /\ job[j].branch \in {NoBranch, repo.branch}
                         /\ repo.version > 0 => build'[repo.version].state = "superseded"
  <1>1. SafetyInv /\ [Next]_vars => (repo'.version # repo.version => Moved)
    <2> SUFFICES ASSUME SafetyInv, [Next]_vars, repo'.version # repo.version PROVE Moved
      OBVIOUS
    <2>1. StoreTypeOK /\ StoreChange
      BY NextChanges, ConstantsAssumption DEF SafetyInv, TypeInv
    <2>2. PICK j \in Jobs, w \in Workers, c \in Commits :
            Activate(j, w, c) /\ repo'.version = repo.version + 1
      BY <2>1, VersionMoves
    <2>3. PICK target \in Versions : target = job[j].target
      BY <2>1, <2>2, OwnBuildExists DEF Activate, CanActivate
    <2>4. /\ job[j].status = "running" /\ job[j].generation = repo.generation
          /\ job[j].branch \in {NoBranch, repo.branch} /\ build[target].job = j
          /\ target = repo.version + 1
      BY <2>2, <2>3 DEF Activate, CanActivate, OwnBuild, Leased, BranchMatches
    <2>5. job'[j].status = "complete"
      BY <2>1, <2>2, ActivatedJobs
    <2>6. build' = Activated(target)
      BY <2>2, <2>3 DEF Activate
    <2>7. build'[target].job = j
      <3>0. target # repo.version
        BY <2>1, <2>4 DEF StoreTypeOK, RepositoryRow, Versions
      <3>1. build'[target] = [build[target] EXCEPT !.state = "active", !.cleanup = "not_required"]
        BY <2>6, <3>0 DEF Activated
      <3> QED
        BY <2>1, <2>4, <3>1 DEF StoreTypeOK, BuildRow
    <2>8. ASSUME repo.version > 0 PROVE build'[repo.version].state = "superseded"
      <3>1. repo.version \in Versions /\ repo.version # target
        BY <2>1, <2>4, <2>8 DEF StoreTypeOK, RepositoryRow, Versions
      <3>2. build'[repo.version] = [build[repo.version] EXCEPT !.state = "superseded",
                                                               !.cleanup = "pending"]
        BY <2>6, <3>1 DEF Activated
      <3> QED
        BY <2>1, <3>1, <3>2 DEF StoreTypeOK, BuildRow
    <2> QED
      BY <2>2, <2>4, <2>5, <2>7, <2>8
  <1>2. SafetyInv /\ [Next]_vars => [repo'.version # repo.version => Moved]_vars
    BY <1>1
  <1> QED
    BY <1>2, SafetyCorrect, PTL DEF Spec, NoStaleActivation

-----------------------------------------------------------------------------
(* Refinement: the versions readers are shown form the log of ActiveIndex. *)

(* No transaction rewrites the job or the commit of a published version.   *)
LEMMA HistoryKept ==
    ASSUME StoreTypeOK, StoreInv, StoreChange
    PROVE  \A v \in Versions : v <= repo.version =>
              build'[v].job = build[v].job /\ build'[v].commit = build[v].commit
  <1>1. CASE Quiet \/ \E j \in Jobs : AuthorizedContext(j)
    BY <1>1 DEF Quiet, AuthorizedContext
  <1>2. ASSUME NEW j \in Jobs, NEW w \in Workers, NEW c \in Commits, PrepareBuild(j, w, c),
               NEW v \in Versions, v <= repo.version
        PROVE  build'[v] = build[v]
    BY <1>2 DEF PrepareBuild, CanPrepare, StoreTypeOK, RepositoryRow, Versions
  <1>3. ASSUME NEW j \in Jobs, NEW w \in Workers,
               RecordVectorCounts(j, w) \/ ValidateGraph(j, w) \/ MarkBuildReady(j, w),
               NEW v \in Versions
        PROVE  build'[v].job = build[v].job /\ build'[v].commit = build[v].commit
    BY <1>3 DEF RecordVectorCounts, ValidateGraph, MarkBuildReady, StoreTypeOK, BuildRow
  <1>4. ASSUME NEW j \in Jobs, NEW w \in Workers, NEW c \in Commits, Activate(j, w, c),
               NEW v \in Versions
        PROVE  build'[v].job = build[v].job /\ build'[v].commit = build[v].commit
    <2>1. PICK target \in Versions : target = job[j].target
      BY <1>4, OwnBuildExists DEF Activate, CanActivate
    <2>2. target # repo.version /\ build' = Activated(target) /\ build[v] \in BuildRow
      BY <1>4, <2>1 DEF Activate, CanActivate, StoreTypeOK, RepositoryRow, Versions
    <2>3. \/ build'[v] = [build[v] EXCEPT !.state = "active", !.cleanup = "not_required"]
          \/ build'[v] = [build[v] EXCEPT !.state = "superseded", !.cleanup = "pending"]
          \/ build'[v] = build[v]
      BY <2>2 DEF Activated
    <2> QED
      BY <2>2, <2>3 DEF BuildRow
  <1>5. ASSUME NEW x \in Versions, NEW complete, NEW v \in Versions,
               RecordFailedBuildCleanup(x, complete) \/ CompleteSupersededCleanup(x)
        PROVE  build'[v].job = build[v].job /\ build'[v].commit = build[v].commit
    <2>1. PICK row \in {build[x], build'[x]} : build' = [build EXCEPT ![x] = row]
      BY <1>5 DEF RecordFailedBuildCleanup, CompleteSupersededCleanup, StoreTypeOK, store
    <2>2. build'[x].job = build[x].job /\ build'[x].commit = build[x].commit
      BY <1>5 DEF RecordFailedBuildCleanup, CompleteSupersededCleanup, StoreTypeOK, BuildRow, store
    <2> QED
      BY <2>1, <2>2 DEF StoreTypeOK
  <1> QED
    BY <1>1, <1>2, <1>3, <1>4, <1>5 DEF StoreChange

LEMMA FunctionIsSeq ==
    ASSUME NEW S, NEW n \in Nat, NEW f \in [1..n -> S]
    PROVE  f \in Seq(S) /\ Len(f) = n
  OBVIOUS

LEMMA PublishedEntries ==
    ASSUME StoreTypeOK, StoreInv
    PROVE  /\ repo.version \in Nat
           /\ \A v \in 1..repo.version : /\ v \in Versions
                                         /\ build[v].job \in Jobs /\ build[v].commit \in Commits
                                         /\ job[build[v].job].target = v
           /\ Published \in Seq([job : Jobs, commit : Commits]) /\ Len(Published) = repo.version
  <1>1. repo.version \in Nat /\ 1..repo.version \subseteq Versions
    BY ConstantsAssumption DEF StoreTypeOK, RepositoryRow, Versions, ConstantsAssumption
  <1>2. \A v \in 1..repo.version : /\ build[v].job \in Jobs /\ build[v].commit \in Commits
                                   /\ job[build[v].job].target = v
    BY <1>1 DEF StoreInv, BuildRowOK
  <1>3. Published \in [1..repo.version -> [job : Jobs, commit : Commits]]
    BY <1>2 DEF Published
  <1>4. Published \in Seq([job : Jobs, commit : Commits]) /\ Len(Published) = repo.version
    BY <1>1, <1>3, FunctionIsSeq
  <1> QED
    BY <1>1, <1>2, <1>4

(* A step that does not publish is a stutter of the log.                   *)
LEMMA PublishedUnchanged ==
    ASSUME StoreTypeOK, StoreInv, StoreChange, repo'.version = repo.version
    PROVE  Published' = Published
  <1>1. \A v \in 1..repo.version : build'[v].job = build[v].job /\ build'[v].commit = build[v].commit
    BY PublishedEntries, HistoryKept
  <1> QED
    BY <1>1 DEF Published

(* An activation appends the build of the target version, whose job, with  *)
(* that target, is the job of no earlier entry.                            *)
LEMMA ActivatePublishes ==
    ASSUME StoreTypeOK, StoreInv, StoreInv', StoreTypeOK', StoreChange,
           NEW j \in Jobs, NEW w \in Workers, NEW c \in Commits, Activate(j, w, c),
           repo'.version = repo.version + 1
    PROVE  Index!Publish(j, c)
  <1> DEFINE entry == [job |-> j, commit |-> c]
  <1>1. PICK target \in Versions : target = job[j].target
    BY OwnBuildExists DEF Activate, CanActivate
  <1>2. /\ target = repo.version + 1 /\ repo.version \in Nat
        /\ build[target].job = j /\ build[target].commit = c
    BY <1>1 DEF Activate, CanActivate, OwnBuild, StoreTypeOK, RepositoryRow, Versions
  <1>3. build'[target].job = j /\ build'[target].commit = c
    <2>0. target # repo.version /\ build' = Activated(target)
      BY <1>1, <1>2 DEF Activate
    <2>1. build'[target] = [build[target] EXCEPT !.state = "active", !.cleanup = "not_required"]
      BY <2>0 DEF Activated
    <2> QED
      BY <1>2, <2>1 DEF StoreTypeOK, BuildRow
  <1>4. \A v \in 1..repo.version : build[v].job # j
    <2>1. ASSUME NEW v \in 1..repo.version PROVE job[build[v].job].target # job[j].target
      BY <1>1, <1>2, <2>1, PublishedEntries
    <2> QED
      BY <2>1
  <1>5. ~Index!HasPublished(j)
    <2>1. \A v \in DOMAIN Published : Published[v].job # j
      BY <1>4 DEF Published
    <2> QED
      BY <2>1 DEF Index!HasPublished, Index!ToSet
  <1>6. Published' = Append(Published, entry)
    <2>1. Published' = [v \in 1..(repo.version + 1) |->
                          IF v = repo.version + 1 THEN entry ELSE Published[v]]
      <3>1. \A v \in 1..repo.version :
              build'[v].job = build[v].job /\ build'[v].commit = build[v].commit
        BY PublishedEntries, HistoryKept
      <3> QED
        BY <1>1, <1>2, <1>3, <3>1 DEF Published
    <2> QED
      BY <2>1, <1>2, PublishedEntries
  <1> QED
    BY <1>5, <1>6 DEF Index!Publish

(* PublishesLikeActiveIndex: the job store and its workers implement       *)
(* ActiveIndex, whatever the jobs, workers and faults: a version is        *)
(* published once, after the last one, by a job that has published nothing *)
(* before, and no entry is ever rewritten (activate, prepare_build).       *)
THEOREM Refinement == Spec => PublishesLikeActiveIndex
  <1>1. Init => Index!Init
    <2> SUFFICES ASSUME Init PROVE Published = << >>
      BY DEF Index!Init
    <2>1. repo.version = 0
      BY DEF Init, StoreInit
    <2> QED
      BY <2>1 DEF Published
  <1>2. SafetyInv /\ SafetyInv' /\ [Next]_vars => [Index!Next]_Published
    <2> SUFFICES ASSUME SafetyInv, SafetyInv', [Next]_vars PROVE [Index!Next]_Published
      OBVIOUS
    <2>1. StoreTypeOK /\ StoreInv /\ StoreTypeOK' /\ StoreInv' /\ StoreChange
      BY NextChanges, ConstantsAssumption DEF SafetyInv, TypeInv, BuildInv
    <2>2. CASE repo'.version = repo.version
      BY <2>1, <2>2, PublishedUnchanged
    <2>3. CASE repo'.version # repo.version
      BY <2>1, <2>3, VersionMoves, ActivatePublishes DEF Index!Next
    <2> QED
      BY <2>2, <2>3
  <1> QED
    BY <1>1, <1>2, SafetyCorrect, PTL DEF Spec, PublishesLikeActiveIndex, Index!Spec

-----------------------------------------------------------------------------
(* The repository's status.  A step leaves it idle, or an unfinished or    *)
(* cancelled job next to it, or changes neither.                           *)
Busy == {"queued", "indexing"}
Explaining == Unfinished \cup {"cancelled"}

StatusMoves ==
    \/ repo'.status \notin Busy
    \/ \E j \in Jobs : job'[j].status \in Explaining
    \/ /\ repo'.status = repo.status
       /\ \A j \in Jobs : job[j].status \in Explaining => job'[j].status \in Explaining

LEMMA StatusRests == ASSUME UNCHANGED <<job, repo>> PROVE StatusMoves
  BY DEF StatusMoves

LEMMA StoreRests == ASSUME UNCHANGED store PROVE StatusMoves
  BY StatusRests DEF store

LEMMA ReleasedStatus ==
  ASSUME StoreTypeOK, NEW j \in Jobs, NEW status
  PROVE  Release(j, status)[j].status = status
  BY DEF Release, StoreTypeOK, JobRow

(* Transactions that begin or continue a job's work.                       *)
LEMMA WorkMoves ==
  ASSUME StoreTypeOK, NEW j \in Jobs, NEW w \in Workers,
         Claim(j, w) \/ AuthorizedContext(j) \/ Heartbeat(j, w) \/ Stage(j, w)
  PROVE  StatusMoves
  <1>0. ASSUME NEW b \in BOOLEAN, job' = [job EXCEPT ![j].fresh = b], Leased(j, w)
        PROVE  job'[j].status = "running"
    BY <1>0 DEF Leased, StoreTypeOK, JobRow
  <1>1. CASE Claim(j, w)
    <2>1. job'[j].status = "running"
      BY <1>1 DEF Claim, StoreTypeOK, JobRow
    <2> QED
      BY <2>1 DEF StatusMoves, Explaining, Unfinished
  <1>2. CASE AuthorizedContext(j)
    <2>1. repo' = repo /\ \A k \in Jobs : job'[k].status = job[k].status
      BY <1>2 DEF AuthorizedContext, StoreTypeOK, JobRow
    <2> QED
      BY <2>1 DEF StatusMoves
  <1>3. CASE Heartbeat(j, w)
    BY <1>0, <1>3 DEF Heartbeat, StatusMoves, Explaining, Unfinished
  <1>4. CASE Stage(j, w)
    BY <1>0, <1>4, StoreRests DEF Stage, StatusMoves, Explaining, Unfinished
  <1> QED
    BY <1>1, <1>2, <1>3, <1>4

(* Transactions that end it.                                               *)
LEMMA EndMoves ==
  ASSUME StoreTypeOK, NEW j \in Jobs, NEW w, NEW c, NEW attempt, NEW retryable, NEW status,
         Activate(j, w, c) \/ MarkStale(j, w, status) \/ CancelRevoked(j, w)
         \/ Fail(j, w, attempt, retryable) \/ RecoverAbandoned(j, attempt)
  PROVE  StatusMoves
  <1>0. ASSUME NEW s, repo' = [repo EXCEPT !.status = s] PROVE repo'.status = s
    BY <1>0 DEF StoreTypeOK, RepositoryRow
  <1>1. CASE Activate(j, w, c)
    <2>1. repo'.status = "complete"
      BY <1>1 DEF Activate, StoreTypeOK, RepositoryRow
    <2> QED
      BY <2>1 DEF StatusMoves, Busy
  <1>2. CASE MarkStale(j, w, status)
    BY <1>2, StoreRests, ReleasedStatus DEF MarkStale, StatusMoves, Explaining
  <1>3. CASE CancelRevoked(j, w)
    BY <1>0, <1>3, StoreRests DEF CancelRevoked, StatusMoves, Busy
  <1>4. ASSUME NEW retry \in BOOLEAN, NEW due,
               job' = [Release(j, IF retry THEN "retrying" ELSE "failed") EXCEPT ![j].due = due],
               repo' = [repo EXCEPT !.status = FailedStatus(retry)]
        PROVE  StatusMoves
    <2>1. CASE ~retry
      BY <1>0, <1>4, <2>1 DEF FailedStatus, StatusMoves, Busy
    <2>2. CASE retry
      <3>1. Release(j, "retrying") \in [Jobs -> JobRow]
        BY ReleaseType DEF StoreTypeOK, Unfinished
      <3>2. job' = [Release(j, "retrying") EXCEPT ![j].due = due]
        BY <1>4, <2>2
      <3>3. job'[j].status = "retrying"
        BY <3>1, <3>2, ReleasedStatus DEF JobRow
      <3> QED
        BY <3>3 DEF StatusMoves, Explaining, Unfinished
    <2> QED
      BY <2>1, <2>2
  <1>5. CASE Fail(j, w, attempt, retryable)
    <2>1. PICK retry \in BOOLEAN : retry <=> ShouldRetry(attempt, retryable)
      OBVIOUS
    <2> QED
      BY <1>4, <1>5, <2>1, StoreRests DEF Fail, FailedStatus
  <1>6. CASE RecoverAbandoned(j, attempt)
    <2>1. PICK retry \in BOOLEAN : retry <=> attempt < MaxAttempts
      OBVIOUS
    <2> QED
      BY <1>4, <1>6, <2>1 DEF RecoverAbandoned, FailedStatus
  <1> QED
    BY <1>1, <1>2, <1>3, <1>5, <1>6

(* Requests, and changes of access.                                        *)
LEMMA RequestMoves ==
  ASSUME StoreTypeOK, NEW j \in Jobs,
         \/ SelectRepository(j)
         \/ \E c \in Commits \cup {NoCommit} : Reindex(j, c)
         \/ \E before, after \in Commits, forced \in BOOLEAN : ApplyPush(j, before, after, forced)
         \/ \E b \in Branches : ApplyRepositoryMetadata(j, b)
  PROVE  StatusMoves
  <1>1. ASSUME NEW mode, NEW generation, NEW commit, NEW branch,
               job' = [job EXCEPT ![j] = NewJob(mode, generation, commit, branch)]
        PROVE  StatusMoves
    <2>1. NewJob(mode, generation, commit, branch).status = "queued"
      BY DEF NewJob, AbsentJob
    <2>2. job'[j].status = "queued"
      BY <1>1, <2>1 DEF StoreTypeOK
    <2> QED
      BY <2>2 DEF StatusMoves, Explaining, Unfinished
  <1>2. CASE SelectRepository(j)
    BY <1>1, <1>2 DEF SelectRepository
  <1>3. ASSUME NEW c, Reindex(j, c) PROVE StatusMoves
    BY <1>1, <1>3 DEF Reindex
  <1>4. ASSUME NEW before, NEW after, NEW forced, ApplyPush(j, before, after, forced)
        PROVE  StatusMoves
    <2>1. PICK mode : mode = PushMode(before, forced)
      OBVIOUS
    <2> QED
      BY <1>1, <1>4, <2>1 DEF ApplyPush
  <1>5. ASSUME NEW b, ApplyRepositoryMetadata(j, b) PROVE StatusMoves
    BY <1>1, <1>5 DEF ApplyRepositoryMetadata
  <1> QED
    BY <1>2, <1>3, <1>4, <1>5

LEMMA AccessMoves ==
  ASSUME StoreTypeOK,
         \/ RevokeAccess \/ RevokePublicAccess \/ MembershipChanges
         \/ \E b \in Branches : SynchronizeRepository(b)
  PROVE  StatusMoves
  <1>1. job' = job /\ repo'.status \in {repo.status, "access_revoked", "not_indexed"}
    BY DEF RevokeAccess, RevokePublicAccess, MembershipChanges, SynchronizeRepository,
           StoreTypeOK, RepositoryRow
  <1> QED
    BY <1>1 DEF StatusMoves, Busy

LEMMA NextMoves ==
  ASSUME TypeInv, [Next]_vars
  PROVE  StatusMoves
  <1> USE DEF TypeInv
  <1>z. ASSUME NEW w \in Workers, worker[w].pc # "idle" PROVE JobOf(w) \in Jobs
    BY <1>z, AtWork
  <1>1. ASSUME NEW w \in Workers, Deliveries(w) PROVE StatusMoves
    <2>1. ASSUME NEW j \in Jobs,
                 \/ ClaimDelivery(w, j) \/ DropDelivery(w, j) \/ RecoverAtOnce(w, j)
                 \/ RecoverSelect(w, j) \/ EnqueueDue(w, j)
          PROVE  StatusMoves
      BY <2>1, WorkMoves, EndMoves, StoreRests
      DEF ClaimDelivery, DropDelivery, RecoverAtOnce, RecoverSelect, EnqueueDue
    <2>2. CASE RecoverCommit(w) \/ Acknowledge(w)
      BY <2>2, <1>z, EndMoves, StoreRests DEF RecoverCommit, Acknowledge, At
    <2> QED
      BY <1>1, <2>1, <2>2 DEF Deliveries
  <1>2. ASSUME NEW w \in Workers, Build(w) PROVE StatusMoves
    <2>1. CASE Authorize(w) \/ Reauthorize(w)
      BY <2>1, <1>z, WorkMoves, StoreRests DEF Authorize, Reauthorize, At
    <2>2. CASE PublicRepositoryGone(w)
      BY <2>2, AccessMoves DEF PublicRepositoryGone
    <2>3. CASE \/ CheckCurrent(w) \/ (\E c \in Commits : Clone(w, c)) \/ CheckInactive(w)
               \/ ClearScope(w) \/ (\E b \in Batches : Upsert(w, b)) \/ Recheck(w)
               \/ DropSuperseded(w) \/ DropSupersededFails(w)
      BY <2>3, StoreRests
      DEF CheckCurrent, Clone, CheckInactive, ClearScope, Upsert, Recheck, DropSuperseded,
          DropSupersededFails
    <2>4. CASE Analyze(w) \/ Embed(w) \/ ValidateScope(w) \/ Activating(w)
      BY <2>4, <1>z, WorkMoves DEF Analyze, Embed, ValidateScope, Activating, At
    <2>5. CASE Prepare(w) \/ Count(w) \/ CheckGraph(w) \/ MarkReady(w) \/ DropSupersededRows(w)
      BY <2>5, StatusRests, StoreRests
      DEF Prepare, PrepareBuild, Count, RecordVectorCounts, CheckGraph, ValidateGraph, MarkReady,
          MarkBuildReady, DropSupersededRows, CompleteSupersededCleanup
    <2>6. CASE ActivateIndex(w)
      BY <2>6, <1>z, EndMoves, StoreRests DEF ActivateIndex, At
    <2> QED
      BY <1>2, <2>1, <2>2, <2>3, <2>4, <2>5, <2>6 DEF Build
  <1>3. ASSUME NEW w \in Workers, Leave(w) PROVE StatusMoves
    <2>1. CASE (\E retryable \in BOOLEAN : StepFails(w, retryable)) \/ CleanCheck(w) \/ CleanDelete(w)
      BY <2>1, StoreRests DEF StepFails, CleanCheck, CleanDelete
    <2>2. CASE CleanDeleteFails(w) \/ CleanRecord(w)
      BY <2>2, StatusRests, StoreRests DEF CleanDeleteFails, CleanRecord, RecordFailedBuildCleanup
    <2>3. CASE FailJob(w) \/ CancelJob(w) \/ SupersedeJob(w) \/ AlreadyActiveJob(w)
      BY <2>3, <1>z, EndMoves DEF FailJob, CancelJob, SupersedeJob, AlreadyActiveJob, At
    <2> QED
      BY <1>3, <2>1, <2>2, <2>3 DEF Leave
  <1>4. ASSUME NEW j \in Jobs, Api(j) PROVE StatusMoves
    BY <1>4, RequestMoves, StoreRests, StatusRests
    DEF Api, Request, SelectAgain, PostEnqueue, PostEnqueueFails, PostCrashes
  <1>5. CASE Environment
    <2>1. ASSUME NEW w \in Workers, Beat(w) PROVE StatusMoves
      BY <2>1, <1>z, WorkMoves DEF Beat, IdleSteps
    <2>2. ASSUME NEW j \in Jobs, HeartbeatExpires(j) \/ BackoffEnds(j) PROVE StatusMoves
      <3>1. repo' = repo /\ \A k \in Jobs : job'[k].status = job[k].status
        BY <2>2 DEF HeartbeatExpires, BackoffEnds, StoreTypeOK, JobRow
      <3> QED
        BY <3>1 DEF StatusMoves
    <2>3. CASE (\E w \in Workers : Crash(w)) \/ (\E j \in Jobs : LoseWakeup(j))
      BY <2>3, StoreRests DEF Crash, LoseWakeup
    <2>4. CASE AccessChanges
      BY <2>4, AccessMoves DEF AccessChanges
    <2> QED
      BY <1>5, <2>1, <2>2, <2>3, <2>4 DEF Environment
  <1>6. CASE UNCHANGED vars
    BY <1>6, StoreRests DEF vars, store
  <1> QED
    BY <1>1, <1>2, <1>3, <1>4, <1>5, <1>6 DEF Next

(* The repository shows work under way only while a job is unfinished, or  *)
(* after one that mark_stale cancelled, whichever of claim, stage, fail,   *)
(* recover_abandoned and the requests of the API wrote its status last,    *)
(* and under every fault.                                                  *)
THEOREM BusyExplained == Spec => []BusyStatusExplained
  <1>1. Init => BusyStatusExplained
    BY DEF Init, StoreInit, BusyStatusExplained
  <1>2. TypeInv /\ BusyStatusExplained /\ [Next]_vars => BusyStatusExplained'
    <2> SUFFICES ASSUME TypeInv, BusyStatusExplained, [Next]_vars PROVE BusyStatusExplained'
      OBVIOUS
    <2>1. StatusMoves
      BY NextMoves
    <2> QED
      BY <2>1 DEF StatusMoves, BusyStatusExplained, Busy, Explaining
  <1>3. SafetyInv => TypeInv
    BY DEF SafetyInv
  <1> QED
    BY <1>1, <1>2, <1>3, SafetyCorrect, PTL DEF Spec

-----------------------------------------------------------------------------
(* An ended job stays as it is.                                            *)

EndStays(j) ==
    job[j].status \in Terminal =>
        /\ job'[j].status = job[j].status /\ job'[j].attempt = job[j].attempt
        /\ job'[j].commit = job[j].commit

EndsStay == \A j \in Jobs : EndStays(j)

LEMMA JobsRest == ASSUME job' = job PROVE EndsStay
  BY DEF EndsStay, EndStays

LEMMA JobRowsRest == ASSUME UNCHANGED store PROVE EndsStay
  BY JobsRest DEF store

(* A job that has not ended may change, alone.                             *)
LEMMA OneMoves ==
  ASSUME NEW j \in Jobs, job[j].status \notin Terminal,
         \A k \in Jobs : k # j => job'[k] = job[k]
  PROVE  EndsStay
  BY DEF EndsStay, EndStays

LEMMA RunningRests ==
  ASSUME NEW j \in Jobs, job[j].status = "running", \A k \in Jobs : k # j => job'[k] = job[k]
  PROVE  EndsStay
  BY OneMoves DEF Terminal

LEMMA ReleaseOthers ==
  ASSUME StoreTypeOK, NEW j \in Jobs, NEW status, NEW k \in Jobs, k # j
  PROVE  /\ Release(j, status)[k] = job[k]
         /\ \A due : [Release(j, status) EXCEPT ![j].due = due][k] = job[k]
         /\ \A c : [Release(j, status) EXCEPT ![j].commit = c][k] = job[k]
  BY DEF Release, StoreTypeOK

LEMMA WorkRests ==
  ASSUME StoreTypeOK, NEW j \in Jobs, NEW w \in Workers,
         Claim(j, w) \/ AuthorizedContext(j) \/ Heartbeat(j, w) \/ Stage(j, w)
  PROVE  EndsStay
  <1>1. CASE Claim(j, w)
    BY <1>1, OneMoves DEF Claim, Claimable, Terminal, StoreTypeOK
  <1>2. CASE AuthorizedContext(j)
    BY <1>2, RunningRests DEF AuthorizedContext, Authorized, StoreTypeOK
  <1>3. CASE Heartbeat(j, w)
    BY <1>3, RunningRests DEF Heartbeat, Leased, StoreTypeOK
  <1>4. CASE Stage(j, w)
    BY <1>4, RunningRests, JobRowsRest DEF Stage, Leased, StoreTypeOK
  <1> QED
    BY <1>1, <1>2, <1>3, <1>4

LEMMA EndRests ==
  ASSUME StoreTypeOK, NEW j \in Jobs, NEW w, NEW c, NEW attempt, NEW retryable, NEW status,
         \/ Activate(j, w, c) \/ MarkStale(j, w, status) \/ CancelRevoked(j, w)
         \/ Fail(j, w, attempt, retryable)
         \/ job[j].status = "running" /\ RecoverAbandoned(j, attempt)
  PROVE  EndsStay
  <1>1. ASSUME job[j].status = "running", NEW s,
               \/ job' = Release(j, s)
               \/ \E due : job' = [Release(j, s) EXCEPT ![j].due = due]
               \/ \E d : job' = [Release(j, s) EXCEPT ![j].commit = d]
        PROVE  EndsStay
    <2>1. CASE job' = Release(j, s)
      BY <1>1, <2>1, ReleaseOthers, RunningRests
    <2>2. ASSUME NEW due, job' = [Release(j, s) EXCEPT ![j].due = due] PROVE EndsStay
      BY <1>1, <2>2, ReleaseOthers, RunningRests
    <2>3. ASSUME NEW d, job' = [Release(j, s) EXCEPT ![j].commit = d] PROVE EndsStay
      BY <1>1, <2>3, ReleaseOthers, RunningRests
    <2> QED
      BY <1>1, <2>1, <2>2, <2>3
  <1>2. CASE Activate(j, w, c)
    BY <1>1, <1>2 DEF Activate, CanActivate, OwnBuild, Leased
  <1>3. CASE MarkStale(j, w, status)
    BY <1>1, <1>3, JobRowsRest DEF MarkStale, Leased
  <1>4. CASE CancelRevoked(j, w)
    BY <1>1, <1>4, JobRowsRest DEF CancelRevoked, Leased
  <1>5. CASE Fail(j, w, attempt, retryable)
    <2>1. PICK retry : retry = ShouldRetry(attempt, retryable)
      OBVIOUS
    <2>2. PICK s : s = IF retry THEN "retrying" ELSE "failed"
      OBVIOUS
    <2> QED
      BY <1>1, <1>5, <2>1, <2>2, JobRowsRest DEF Fail, Leased
  <1>6. CASE job[j].status = "running" /\ RecoverAbandoned(j, attempt)
    <2>1. PICK s : s = IF attempt < MaxAttempts THEN "retrying" ELSE "failed"
      OBVIOUS
    <2> QED
      BY <1>1, <1>6, <2>1 DEF RecoverAbandoned
  <1> QED
    BY <1>2, <1>3, <1>4, <1>5, <1>6

LEMMA RequestRests ==
  ASSUME StoreTypeOK, NEW j \in Jobs,
         \/ SelectRepository(j)
         \/ \E c \in Commits \cup {NoCommit} : Reindex(j, c)
         \/ \E before, after \in Commits, forced \in BOOLEAN : ApplyPush(j, before, after, forced)
         \/ \E b \in Branches : ApplyRepositoryMetadata(j, b)
  PROVE  EndsStay
  <1>1. job[j].status = "absent" /\ \A k \in Jobs : k # j => job'[k] = job[k]
    BY DEF SelectRepository, Reindex, ApplyPush, ApplyRepositoryMetadata, StoreTypeOK
  <1> QED
    BY <1>1, OneMoves DEF Terminal

(* Without an overlap no worker is between the SELECT and the COMMIT of    *)
(* recover_abandoned.                                                      *)
NoRecovery == \A w \in Workers : ~At(w, "recovering")

LEMMA NextNoRecovery ==
  ASSUME "overlap" \notin Faults, TypeInv, NoRecovery, [Next]_vars
  PROVE  NoRecovery'
  <1>1. WorkersOK
    BY DEF TypeInv
  <1>2. CASE GatesKept
    BY <1>2 DEF GatesKept, Gated, GatedSteps, NoRecovery, At
  <1>3. ASSUME NEW w \in Workers, ActivateIndex(w) PROVE NoRecovery'
    <2>1. CASE ~CanActivate(JobOf(w), w, worker[w].commit) \/ ~(repo.version > 0)
      BY <1>1, <1>2, <1>3, <2>1, LeavingKept DEF ActivateIndex
    <2>2. CASE CanActivate(JobOf(w), w, worker[w].commit) /\ repo.version > 0
      <3> DEFINE row == [Leaving(w, "drop") EXCEPT !.previous = repo.version]
      <3>1. row.pc = "drop" /\ worker' = [worker EXCEPT ![w] = row]
        BY <1>3, <2>2 DEF ActivateIndex, Leaving, Idle
      <3> HIDE DEF row
      <3> QED
        BY <1>1, <3>1 DEF NoRecovery, At, WorkersOK
    <2> QED
      BY <2>1, <2>2
  <1>4. ASSUME NEW w \in Workers, Deliveries(w) PROVE GatesKept
    BY <1>1, <1>4, DeliveriesKept DEF RecoverSelect
  <1> QED
    BY <1>1, <1>2, <1>3, <1>4, BuildKept, LeaveKept, OthersKept DEF Next

LEMMA NextEndsStay ==
  ASSUME TypeInv, NoRecovery, [Next]_vars
  PROVE  EndsStay
  <1> USE DEF TypeInv
  <1>z. ASSUME NEW w \in Workers, worker[w].pc # "idle" PROVE JobOf(w) \in Jobs
    BY <1>z, AtWork
  <1>1. ASSUME NEW w \in Workers, Deliveries(w) PROVE EndsStay
    <2>1. ASSUME NEW j \in Jobs,
                 \/ ClaimDelivery(w, j) \/ DropDelivery(w, j) \/ RecoverAtOnce(w, j)
                 \/ RecoverSelect(w, j) \/ EnqueueDue(w, j)
          PROVE  EndsStay
      BY <2>1, WorkRests, EndRests, JobRowsRest
      DEF ClaimDelivery, DropDelivery, RecoverAtOnce, RecoverSelect, EnqueueDue, Abandoned
    <2>2. CASE Acknowledge(w)
      BY <2>2, JobRowsRest DEF Acknowledge
    <2> QED
      BY <1>1, <2>1, <2>2 DEF Deliveries, RecoverCommit, NoRecovery
  <1>2. ASSUME NEW w \in Workers, Build(w) PROVE EndsStay
    <2>1. CASE Authorize(w) \/ Reauthorize(w)
      BY <2>1, <1>z, WorkRests, JobRowsRest DEF Authorize, Reauthorize, At
    <2>2. CASE PublicRepositoryGone(w)
      BY <2>2, JobsRest DEF PublicRepositoryGone, RevokePublicAccess
    <2>3. CASE \/ CheckCurrent(w) \/ (\E c \in Commits : Clone(w, c)) \/ CheckInactive(w)
               \/ ClearScope(w) \/ (\E b \in Batches : Upsert(w, b)) \/ Recheck(w)
               \/ DropSuperseded(w) \/ DropSupersededFails(w)
      BY <2>3, JobRowsRest
      DEF CheckCurrent, Clone, CheckInactive, ClearScope, Upsert, Recheck, DropSuperseded,
          DropSupersededFails
    <2>4. CASE Analyze(w) \/ Embed(w) \/ ValidateScope(w) \/ Activating(w)
      BY <2>4, <1>z, WorkRests DEF Analyze, Embed, ValidateScope, Activating, At
    <2>5. CASE Prepare(w) \/ Count(w) \/ CheckGraph(w) \/ MarkReady(w) \/ DropSupersededRows(w)
      BY <2>5, JobsRest, JobRowsRest
      DEF Prepare, PrepareBuild, Count, RecordVectorCounts, CheckGraph, ValidateGraph, MarkReady,
          MarkBuildReady, DropSupersededRows, CompleteSupersededCleanup
    <2>6. CASE ActivateIndex(w)
      BY <2>6, <1>z, EndRests, JobRowsRest DEF ActivateIndex, At
    <2> QED
      BY <1>2, <2>1, <2>2, <2>3, <2>4, <2>5, <2>6 DEF Build
  <1>3. ASSUME NEW w \in Workers, Leave(w) PROVE EndsStay
    <2>1. CASE (\E retryable \in BOOLEAN : StepFails(w, retryable)) \/ CleanCheck(w) \/ CleanDelete(w)
      BY <2>1, JobRowsRest DEF StepFails, CleanCheck, CleanDelete
    <2>2. CASE CleanDeleteFails(w) \/ CleanRecord(w)
      BY <2>2, JobsRest, JobRowsRest DEF CleanDeleteFails, CleanRecord, RecordFailedBuildCleanup
    <2>3. CASE FailJob(w) \/ CancelJob(w) \/ SupersedeJob(w) \/ AlreadyActiveJob(w)
      BY <2>3, <1>z, EndRests DEF FailJob, CancelJob, SupersedeJob, AlreadyActiveJob, At
    <2> QED
      BY <1>3, <2>1, <2>2, <2>3 DEF Leave
  <1>4. ASSUME NEW j \in Jobs, Api(j) PROVE EndsStay
    BY <1>4, RequestRests, JobRowsRest, JobsRest
    DEF Api, Request, SelectAgain, PostEnqueue, PostEnqueueFails, PostCrashes
  <1>5. CASE Environment
    <2>1. ASSUME NEW w \in Workers, Beat(w) PROVE EndsStay
      BY <2>1, <1>z, WorkRests DEF Beat, IdleSteps
    <2>2. ASSUME NEW j \in Jobs, HeartbeatExpires(j) \/ BackoffEnds(j) PROVE EndsStay
      BY <2>2 DEF HeartbeatExpires, BackoffEnds, StoreTypeOK, JobRow, EndsStay, EndStays
    <2>3. CASE (\E w \in Workers : Crash(w)) \/ (\E j \in Jobs : LoseWakeup(j))
      BY <2>3, JobRowsRest DEF Crash, LoseWakeup
    <2>4. CASE AccessChanges
      BY <2>4, JobsRest
      DEF AccessChanges, RevokeAccess, MembershipChanges, SynchronizeRepository
    <2> QED
      BY <1>5, <2>1, <2>2, <2>3, <2>4 DEF Environment
  <1>6. CASE UNCHANGED vars
    BY <1>6, JobsRest DEF vars
  <1> QED
    BY <1>1, <1>2, <1>3, <1>4, <1>5, <1>6 DEF Next

(* EndedJobsStay: however workers lose their leases, die or fail, an ended *)
(* job is never claimed, retried or ended again, if only nothing commits   *)
(* between the SELECT and the COMMIT of recover_abandoned: that overlap is *)
(* the one step that can raise a job from its end.                         *)
THEOREM EndedJobsRest == ASSUME "overlap" \notin Faults PROVE Spec => EndedJobsStay
  <1>1. Init => NoRecovery
    BY DEF Init, NoRecovery, At, Idle
  <1>2. TypeInv /\ NoRecovery /\ [Next]_vars => NoRecovery'
    BY NextNoRecovery
  <1>3. SafetyInv => TypeInv
    BY DEF SafetyInv
  <1>4. TypeInv /\ NoRecovery /\ [Next]_vars =>
          [\A j \in Jobs : job[j].status \in Terminal =>
              /\ job'[j].status = job[j].status /\ job'[j].attempt = job[j].attempt
              /\ job'[j].commit = job[j].commit]_vars
    BY NextEndsStay DEF EndsStay, EndStays
  <1> QED
    BY <1>1, <1>2, <1>3, <1>4, SafetyCorrect, PTL DEF Spec, EndedJobsStay
=============================================================================
