---------------------------- MODULE IndexingJobs ----------------------------
(***************************************************************************)
(* The PostgreSQL side of indexing: the job rows, the repository row, the  *)
(* index builds, the persisted symbols and the webhook delivery linked to  *)
(* each job, with one operator per transaction of IndexingJobStore         *)
(* (backend/app/services/indexing_jobs.py).                                *)
(*                                                                         *)
(* One repository is modelled: every row, lock, unique index and vector    *)
(* scope of the code is keyed by the repository.  A transaction is one     *)
(* step, except recover_abandoned, whose SELECT takes no lock.             *)
(***************************************************************************)
EXTENDS Naturals, FiniteSets

CONSTANTS
    Jobs,         \* identifiers of indexing jobs that may be created
    Workers,      \* worker processes
    Commits,      \* commit SHAs of the repository
    Branches,     \* names the default branch may have
    NoWorker,     \* locked_by IS NULL
    NoJob,        \* job_id IS NULL
    NoCommit,     \* a NULL commit SHA
    NoBranch,     \* a NULL branch name
    MaxAttempts,  \* WORKER_MAX_ATTEMPTS
    MaxVersion    \* bound on index versions, at least the number of jobs

ASSUME ConstantsAssumption ==
    /\ NoWorker \notin Workers
    /\ NoJob \notin Jobs
    /\ NoCommit \notin Commits
    /\ NoBranch \notin Branches
    /\ MaxAttempts \in Nat \ {0}
    /\ MaxVersion \in Nat

VARIABLES
    job,          \* indexing_jobs
    repo,         \* the repositories row
    build,        \* repository_index_builds, by index version
    symbols,      \* commit whose symbols and call edges are stored per version
    delivery      \* status of the webhook delivery that created each job

store == <<job, repo, build, symbols, delivery>>

-----------------------------------------------------------------------------
(* Row types.                                                              *)

Versions == 1..MaxVersion

Unfinished == {"queued", "retrying", "running"}
Terminal == {"complete", "failed", "cancelled"}

(* IndexingMode, with the INITIAL_INDEX job type, whose requested_mode is  *)
(* NULL and is read as FULL, kept apart.                                   *)
Modes == {"initial", "full", "incremental"}

(* fresh: the job runs and its heartbeat_at is younger than                *)
(* abandoned_after.  due: next_attempt is NULL or past.  A target of 0 is  *)
(* a NULL target_index_version.  last_enqueued_at, which only delays the   *)
(* next enqueue by the duplicate cutoff, is left out.                      *)
JobRow == [status : {"absent"} \cup Unfinished \cup Terminal,
           attempt : Nat, lockedBy : Workers \cup {NoWorker},
           fresh : BOOLEAN, due : BOOLEAN,
           generation : Nat, target : {0} \cup Versions,
           mode : Modes, branch : Branches \cup {NoBranch},
           commit : Commits \cup {NoCommit}]

(* "indexing" stands for the progress statuses cloning ... finalizing.     *)
RepositoryStatus ==
    {"not_indexed", "queued", "indexing", "complete", "failed", "access_revoked"}

(* access: "revoked" is a set access_revoked_at (suspending or deleting    *)
(* the installation sets it too); "unverified" is a requester membership   *)
(* that is missing or no longer fresh.                                     *)
RepositoryRow == [version : {0} \cup Versions, generation : Nat,
                  status : RepositoryStatus,
                  access : {"granted", "unverified", "revoked"},
                  commit : Commits \cup {NoCommit},
                  indexedBranch : Branches \cup {NoBranch},
                  branch : Branches]

(* counted: embedded_chunk_count and vector_count equal the expected count *)
(* (a build is assumed to have at least one chunk).                        *)
BuildRow == [state : {"none", "building", "ready", "active", "superseded", "failed"},
             job : Jobs \cup {NoJob}, commit : Commits \cup {NoCommit},
             counted : BOOLEAN, graph : BOOLEAN,
             cleanup : {"not_required", "pending", "complete"}]

DeliveryStatus == {"none", "queued", "processing", "retryable", "completed",
                   "stale", "superseded", "unauthorized", "failed"}
DeliveryEnded == {"completed", "stale", "superseded", "unauthorized", "failed"}

(* CHECK constraints and unique indexes of the two tables.                 *)
ReadyCountsMatch(b) == b.state \in {"ready", "active"} => b.counted
ActiveCleanupNotRequired(b) == b.state = "active" => b.cleanup = "not_required"

StoreTypeOK ==
    /\ job \in [Jobs -> JobRow]
    /\ repo \in RepositoryRow
    /\ build \in [Versions -> BuildRow]
    /\ \A v \in Versions : ReadyCountsMatch(build[v]) /\ ActiveCleanupNotRequired(build[v])
    /\ symbols \in [Versions -> Commits \cup {NoCommit}]
    /\ delivery \in [Jobs -> DeliveryStatus]

AbsentJob == [status |-> "absent", attempt |-> 0, lockedBy |-> NoWorker,
              fresh |-> FALSE, due |-> TRUE,
              generation |-> 0, target |-> 0, mode |-> "full",
              branch |-> NoBranch, commit |-> NoCommit]

NoBuild == [state |-> "none", job |-> NoJob, commit |-> NoCommit,
            counted |-> FALSE, graph |-> FALSE, cleanup |-> "not_required"]

StoreInit ==
    /\ job = [j \in Jobs |-> AbsentJob]
    /\ \E b \in Branches :
          repo = [version |-> 0, generation |-> 0, status |-> "not_indexed",
                  access |-> "granted", commit |-> NoCommit,
                  indexedBranch |-> NoBranch, branch |-> b]
    /\ build = [v \in Versions |-> NoBuild]
    /\ symbols = [v \in Versions |-> NoCommit]
    /\ delivery = [j \in Jobs |-> "none"]

-----------------------------------------------------------------------------
(* Conditions the transactions share.                                      *)

Running == {j \in Jobs : job[j].status = "running"}

(* WHERE status = 'running' AND locked_by = :worker_id.                    *)
Leased(j, w) == job[j].status = "running" /\ job[j].lockedBy = w

(* The job row's change that ends or releases a lease.                     *)
Release(j, status) ==
    [job EXCEPT ![j].status = status, ![j].lockedBy = NoWorker, ![j].fresh = FALSE]

(* Only a job created by a webhook has a linked delivery row to update.    *)
Deliver(j, status) ==
    IF delivery[j] = "none" THEN delivery ELSE [delivery EXCEPT ![j] = status]

-----------------------------------------------------------------------------
(* claim: the conditional UPDATE, refused by the partial unique index when *)
(* another job of the repository is running.                               *)
Claimable(j) ==
    /\ job[j].status \in {"queued", "retrying"}
    /\ job[j].due
    /\ Running = {}

Claim(j, w) ==
    /\ Claimable(j)
    /\ job' = [job EXCEPT ![j].status = "running", ![j].lockedBy = w,
                          ![j].attempt = @ + 1, ![j].fresh = TRUE, ![j].due = TRUE]
    /\ repo' = [repo EXCEPT !.status = "indexing"]
    /\ delivery' = Deliver(j, "processing")
    /\ UNCHANGED <<build, symbols>>

(* authorized_context asks for a running job, whoever holds the lease.     *)
Authorized(j) == job[j].status = "running" /\ repo.access = "granted"

TargetOf(j) == IF job[j].target = 0 THEN repo.version + 1 ELSE job[j].target

(* The fields of JobContext that can change while the job runs.            *)
ContextOf(j) == [target |-> TargetOf(j), version |-> repo.version,
                 commit |-> repo.commit, indexedBranch |-> repo.indexedBranch,
                 branch |-> repo.branch]

AuthorizedContext(j) ==
    /\ Authorized(j)
    /\ TargetOf(j) <= MaxVersion
    /\ job' = [job EXCEPT ![j].target = TargetOf(j)]
    /\ UNCHANGED <<repo, build, symbols, delivery>>

BranchMatches_Any(j) == TRUE
BranchMatches(j) == job[j].branch \in {NoBranch, repo.branch}

(* is_current.                                                             *)
IsCurrent(j, w) ==
    Leased(j, w) /\ job[j].generation = repo.generation /\ BranchMatches(j)

(* heartbeat, a no-op for a worker whose lease is gone.                    *)
Heartbeat(j, w) ==
    /\ Leased(j, w)
    /\ job' = [job EXCEPT ![j].fresh = TRUE]
    /\ UNCHANGED <<repo, build, symbols, delivery>>

(* stage: progress is written only under the lease; a worker that lost it  *)
(* is not told.                                                            *)
Stage(j, w) ==
    IF Leased(j, w)
    THEN /\ job' = [job EXCEPT ![j].fresh = TRUE]
         /\ repo' = [repo EXCEPT !.status = "indexing"]
         /\ UNCHANGED <<build, symbols, delivery>>
    ELSE UNCHANGED store

(* revoke_public_access.                                                   *)
RevokePublicAccess ==
    /\ repo' = [repo EXCEPT !.access = "revoked", !.status = "access_revoked"]
    /\ UNCHANGED <<job, build, symbols, delivery>>

-----------------------------------------------------------------------------
(* The inactive build of the target version.                               *)

(* prepare_build runs for the lease holder, for exactly the next version,  *)
(* and on no build row that belongs to another job.                        *)
CanPrepare_LeaseOnly(j, w) == Leased(j, w)
CanPrepare(j, w) ==
    /\ Leased(j, w)
    /\ job[j].target = repo.version + 1
    /\ build[job[j].target].job \in {NoJob, j}

PrepareBuild(j, w, c) ==
    /\ CanPrepare(j, w)
    /\ build' = [build EXCEPT ![job[j].target] =
                    [state |-> "building", job |-> j, commit |-> c, counted |-> FALSE,
                     graph |-> FALSE, cleanup |-> "pending"]]
    /\ symbols' = [symbols EXCEPT ![job[j].target] = c]
    /\ UNCHANGED <<job, repo, delivery>>

(* The job's own build of its target version, in a given state.            *)
OwnBuild(j, w, state) ==
    /\ Leased(j, w)
    /\ job[j].target # 0
    /\ build[job[j].target].job = j
    /\ build[job[j].target].state = state

RecordVectorCounts(j, w) ==
    /\ OwnBuild(j, w, "building")
    /\ build' = [build EXCEPT ![job[j].target].counted = TRUE]
    /\ UNCHANGED <<job, repo, symbols, delivery>>

(* validate_graph recomputes counts and fingerprint from the stored edges  *)
(* of the build's commit.                                                  *)
GraphMatches(j, w) ==
    OwnBuild(j, w, "building") /\ symbols[job[j].target] = build[job[j].target].commit

ValidateGraph(j, w) ==
    /\ GraphMatches(j, w)
    /\ build' = [build EXCEPT ![job[j].target].graph = TRUE]
    /\ UNCHANGED <<job, repo, symbols, delivery>>

CanMarkReady(j, w) ==
    /\ OwnBuild(j, w, "building")
    /\ build[job[j].target].counted
    /\ build[job[j].target].graph

MarkBuildReady(j, w) ==
    /\ CanMarkReady(j, w)
    /\ build' = [build EXCEPT ![job[j].target].state = "ready"]
    /\ UNCHANGED <<job, repo, symbols, delivery>>

-----------------------------------------------------------------------------
(* activate: the compare-and-swap of the active version.                   *)

CanActivate(j, w, c) ==
    /\ OwnBuild(j, w, "ready")
    /\ repo.version + 1 = job[j].target
    /\ job[j].generation = repo.generation
    /\ BranchMatches(j)
    /\ build[job[j].target].commit = c
    /\ build[job[j].target].counted /\ build[job[j].target].graph
    /\ repo.version > 0 => build[repo.version].state = "active"

(* The previous active build is superseded in the same transaction.        *)
Activated_CleanupPending(target) ==
    [v \in Versions |->
        CASE v = target -> [build[v] EXCEPT !.state = "active"]
          [] v = repo.version -> [build[v] EXCEPT !.state = "superseded", !.cleanup = "pending"]
          [] OTHER -> build[v]]
Activated(target) ==
    [v \in Versions |->
        CASE v = target -> [build[v] EXCEPT !.state = "active", !.cleanup = "not_required"]
          [] v = repo.version -> [build[v] EXCEPT !.state = "superseded", !.cleanup = "pending"]
          [] OTHER -> build[v]]

Activate(j, w, c) ==
    /\ CanActivate(j, w, c)
    /\ build' = Activated(job[j].target)
    /\ repo' = [repo EXCEPT !.version = job[j].target, !.commit = c,
                            !.indexedBranch = repo.branch, !.status = "complete"]
    /\ job' = [Release(j, "complete") EXCEPT ![j].commit = c]
    /\ delivery' = Deliver(j, "completed")
    /\ UNCHANGED symbols

-----------------------------------------------------------------------------
(* Cleanup of inactive and of superseded builds.                           *)

(* can_cleanup_inactive reads the version and releases the row: the answer *)
(* may be stale when the caller deletes the Qdrant scope.                  *)
CanCleanupInactive(v) == repo.version # v

(* record_failed_build_cleanup asks only that the build is not active; it  *)
(* knows neither the job nor the lease.                                    *)
MayFailBuild_Any(v) == build[v].state # "none"
MayFailBuild(v) == build[v].state \notin {"none", "active"}

RecordFailedBuildCleanup(v, complete) ==
    IF MayFailBuild(v)
    THEN /\ build' = [build EXCEPT ![v].state = "failed",
                                   ![v].cleanup = IF complete THEN "complete" ELSE "pending"]
         /\ symbols' = IF complete THEN [symbols EXCEPT ![v] = NoCommit] ELSE symbols
         /\ UNCHANGED <<job, repo, delivery>>
    ELSE UNCHANGED store

CompleteSupersededCleanup(v) ==
    /\ repo.version # v
    /\ build' = IF build[v].state \in {"superseded", "failed"}
                THEN [build EXCEPT ![v].cleanup = "complete"] ELSE build
    /\ symbols' = [symbols EXCEPT ![v] = NoCommit]
    /\ UNCHANGED <<job, repo, delivery>>

-----------------------------------------------------------------------------
(* The ends of a run.  Each is conditional on the lease: a worker that     *)
(* lost it changes nothing.                                                *)

(* mark_stale leaves the repository row as claim and stage wrote it.       *)
MarkStale(j, w, deliveryStatus) ==
    IF Leased(j, w)
    THEN /\ job' = Release(j, "cancelled")
         /\ delivery' = Deliver(j, deliveryStatus)
         /\ UNCHANGED <<repo, build, symbols>>
    ELSE UNCHANGED store

CancelRevoked(j, w) ==
    IF Leased(j, w)
    THEN /\ job' = Release(j, "cancelled")
         /\ repo' = [repo EXCEPT !.status = "access_revoked"]
         /\ delivery' = Deliver(j, "unauthorized")
         /\ UNCHANGED <<build, symbols>>
    ELSE UNCHANGED store

(* fail decides on the attempt number the worker claimed.                  *)
ShouldRetry_OneMore(attempt, retryable) == retryable /\ attempt <= MaxAttempts
ShouldRetry(attempt, retryable) == retryable /\ attempt < MaxAttempts

FailDelivery_Ended(retry) == "failed"
FailDelivery(retry) == IF retry THEN "retryable" ELSE "failed"

(* indexing_status.                                                        *)
FailedStatus_Queued(retry) == "queued"
FailedStatus(retry) == IF retry THEN "queued" ELSE "failed"

Fail(j, w, attempt, retryable) ==
    LET retry == ShouldRetry(attempt, retryable) IN
    IF Leased(j, w)
    THEN /\ job' = [Release(j, IF retry THEN "retrying" ELSE "failed")
                       EXCEPT ![j].due = ~retry]
         /\ repo' = [repo EXCEPT !.status = FailedStatus(retry)]
         /\ delivery' = Deliver(j, FailDelivery(retry))
         /\ UNCHANGED <<build, symbols>>
    ELSE UNCHANGED store

(* recover_abandoned selects running jobs with an old heartbeat ...        *)
Abandoned_AnyHeartbeat(j) == job[j].status = "running"
Abandoned(j) == job[j].status = "running" /\ ~job[j].fresh

(* ... and later writes the rows by primary key, with the attempt number   *)
(* it had read: nothing checks that the row is still the one selected.     *)
RecoverAbandoned(j, attempt) ==
    LET retry == attempt < MaxAttempts IN
    /\ job' = [Release(j, IF retry THEN "retrying" ELSE "failed") EXCEPT ![j].due = TRUE]
    /\ repo' = [repo EXCEPT !.status = FailedStatus(retry)]
    /\ delivery' = Deliver(j, FailDelivery(retry))
    /\ UNCHANGED <<build, symbols>>

(* due_jobs.                                                               *)
IsDue_Queued(j) == job[j].status = "queued" /\ job[j].due
IsDue(j) == job[j].status \in {"queued", "retrying"} /\ job[j].due

-----------------------------------------------------------------------------
(* Requests that create jobs: services/repositories.py and webhooks.py.    *)

NewJob(mode, generation, commit, branch) ==
    [AbsentJob EXCEPT !.status = "queued", !.mode = mode, !.generation = generation,
                      !.commit = commit, !.branch = branch]

(* select_repository creates the first INITIAL_INDEX job, at the current   *)
(* generation.                                                             *)
InitialJobs == {k \in Jobs : job[k].status # "absent" /\ job[k].mode = "initial"}

SelectRepository(j) ==
    /\ job[j].status = "absent"
    /\ repo.access = "granted"
    /\ InitialJobs = {}
    /\ job' = [job EXCEPT ![j] = NewJob("initial", repo.generation, NoCommit, repo.branch)]
    /\ repo' = [repo EXCEPT !.status = "queued"]
    /\ UNCHANGED <<build, symbols, delivery>>

(* reindex; target_commit_sha is the last remote SHA seen, any commit.     *)
Reindex(j, c) ==
    /\ job[j].status = "absent"
    /\ repo.access = "granted"
    /\ job' = [job EXCEPT ![j] = NewJob("full", repo.generation + 1, c, repo.branch)]
    /\ repo' = [repo EXCEPT !.generation = @ + 1, !.status = "queued"]
    /\ UNCHANGED <<build, symbols, delivery>>

(* _apply_push for the default branch.  Membership is not consulted: the   *)
(* repository must only be unrevoked.                                      *)
PushMode(before, forced) ==
    IF forced \/ repo.version = 0 \/ before # repo.commit THEN "full" ELSE "incremental"

SameTargetPending(after) ==
    \E k \in Jobs : job[k].status \in Unfinished /\ job[k].commit = after

ApplyPush(j, before, after, forced) ==
    /\ job[j].status = "absent"
    /\ repo.access # "revoked"
    /\ after # repo.commit
    /\ ~SameTargetPending(after)
    /\ job' = [job EXCEPT ![j] =
                  NewJob(PushMode(before, forced), repo.generation + 1, after, repo.branch)]
    /\ repo' = [repo EXCEPT !.generation = @ + 1, !.status = "queued"]
    /\ delivery' = [delivery EXCEPT ![j] = "queued"]
    /\ UNCHANGED <<build, symbols>>

(* _apply_repository_metadata when the default branch has changed.  It     *)
(* reads the row without a lock: the generation this may lose to another   *)
(* webhook is in WebhookDeliveries, where it is read and written apart.    *)
ApplyRepositoryMetadata(j, b) ==
    /\ job[j].status = "absent"
    /\ repo.access # "revoked"
    /\ b # repo.branch
    /\ job' = [job EXCEPT ![j] = NewJob("full", repo.generation + 1, NoCommit, b)]
    /\ repo' = [repo EXCEPT !.generation = @ + 1, !.status = "queued", !.branch = b]
    /\ delivery' = [delivery EXCEPT ![j] = "queued"]
    /\ UNCHANGED <<build, symbols>>

(* A revoking webhook or a listing without the repository.                 *)
RevokeAccess ==
    /\ repo' = [repo EXCEPT !.access = "revoked", !.status = "access_revoked"]
    /\ UNCHANGED <<job, build, symbols, delivery>>

(* _upsert_repository of a listing: access is restored, and the default    *)
(* branch is overwritten without a new generation or job.                  *)
SynchronizeRepository(b) ==
    /\ repo' = [repo EXCEPT !.access = "granted", !.branch = b,
                  !.status = IF @ = "access_revoked" THEN "not_indexed" ELSE @]
    /\ UNCHANGED <<job, build, symbols, delivery>>

(* A membership leaves its freshness window, or is verified again.         *)
MembershipChanges ==
    /\ repo.access # "revoked"
    /\ repo' = [repo EXCEPT !.access = IF @ = "granted" THEN "unverified" ELSE "granted"]
    /\ UNCHANGED <<job, build, symbols, delivery>>
=============================================================================
