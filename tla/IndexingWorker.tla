--------------------------- MODULE IndexingWorker ---------------------------
(***************************************************************************)
(* Indexing workers (backend/app/indexing/worker.py) running jobs of the   *)
(* store in IndexingJobs, with the Redis wake-ups, the Qdrant scopes they  *)
(* write, the API calls that create jobs, crashes and lost leases.         *)
(*                                                                         *)
(* worker[w].pc names the next call of the run.  Between two steps of a    *)
(* worker any other process may act, as between two awaits of the code.    *)
(***************************************************************************)
EXTENDS IndexingJobs

CONSTANTS
    Batches,      \* the upsert batches of one build's vectors
    Requests,     \* the requests and webhooks that create jobs
    Faults        \* what may go wrong

RequestKinds == {"select", "reindex", "push", "metadata"}

(* crash: a process dies.  wakeup: Redis loses an entry.  queue: enqueueing *)
(* fails or its caller dies.  service: a call to GitHub, git, Qdrant, ...   *)
(* fails.  access: it is revoked, or a membership goes stale.  public: the  *)
(* public repository disappears.  listing: a listing changes the default    *)
(* branch.  lease: a live worker misses heartbeats for abandoned_after.     *)
(* overlap: other transactions commit between the SELECT and the COMMIT of  *)
(* recover_abandoned.                                                       *)
FaultKinds == {"crash", "wakeup", "queue", "service", "access", "public", "listing",
               "lease", "overlap"}

ASSUME WorkerAssumption == Requests \subseteq RequestKinds /\ Faults \subseteq FaultKinds

VARIABLES
    worker,       \* one run per process
    vectors,      \* Qdrant points by version scope: <<commit, batch>>
    wakeups,      \* job ids with an unacknowledged entry in the stream
    posting       \* jobs committed by the API whose enqueue call is pending

vars == <<job, repo, build, symbols, delivery, worker, vectors, wakeups, posting>>

-----------------------------------------------------------------------------
(* The run of a worker.                                                    *)

IdleSteps == {"idle", "recovering"}
RunSteps == {"authorize", "current", "clone", "analyze", "prepare", "embed", "check",
             "delete", "upsert", "count", "validate", "graph", "ready", "recheck",
             "reauthorize", "activating", "activate", "drop", "dropRows"}
ExitSteps == {"cleanCheck", "cleanDelete", "cleanRecord", "fail", "cancel",
              "supersede", "stale", "ack"}

NoContext == [target |-> 0, version |-> 0, commit |-> NoCommit,
              indexedBranch |-> NoBranch, branch |-> NoBranch]

Context == [target : {0} \cup Versions, version : {0} \cup Versions, commit : Commits \cup {NoCommit},
            indexedBranch : Branches \cup {NoBranch}, branch : Branches \cup {NoBranch}]

(* attempt: ClaimedJob.attempt, or the attempt a recovering worker read.   *)
(* exit, retryable: where the failure path leads after the cleanup.        *)
WorkerRow == [pc : IdleSteps \cup RunSteps \cup ExitSteps,
              job : Jobs \cup {NoJob}, attempt : Nat, context : Context,
              commit : Commits \cup {NoCommit}, prepared : BOOLEAN,
              sent : SUBSET Batches, exit : {"fail", "cancel", "supersede"},
              retryable : BOOLEAN, previous : {0} \cup Versions]

Idle == [pc |-> "idle", job |-> NoJob, attempt |-> 0, context |-> NoContext,
         commit |-> NoCommit, prepared |-> FALSE, sent |-> {}, exit |-> "fail",
         retryable |-> FALSE, previous |-> 0]

TypeOK ==
    /\ StoreTypeOK
    /\ worker \in [Workers -> WorkerRow]
    /\ vectors \in [Versions -> SUBSET (Commits \X Batches)]
    /\ wakeups \subseteq Jobs
    /\ posting \subseteq Jobs

Init ==
    /\ StoreInit
    /\ worker = [w \in Workers |-> Idle]
    /\ vectors = [v \in Versions |-> {}]
    /\ wakeups = {}
    /\ posting = {}

At(w, step) == worker[w].pc = step
JobOf(w) == worker[w].job
Target(w) == worker[w].context.target
Goto(w, step) == worker' = [worker EXCEPT ![w].pc = step]

(* A run that leaves its steps keeps only what its last steps read.        *)
Leaving(w, step) ==
    [Idle EXCEPT !.pc = step, !.job = JobOf(w), !.attempt = worker[w].attempt,
                 !.context = [NoContext EXCEPT !.target = Target(w)]]

Finish(w) == worker' = [worker EXCEPT ![w] = [Idle EXCEPT !.pc = "ack", !.job = JobOf(w)]]

(* The failure path of _run_claimed: clean the inactive scope if the build *)
(* was prepared, then fail.                                                *)
FailFrom(w, retryable) ==
    LET step == IF worker[w].prepared THEN "cleanCheck" ELSE "fail" IN
    worker' = [worker EXCEPT ![w] = [Leaving(w, step) EXCEPT !.retryable = retryable]]

(* _cleanup_inactive before mark_stale or cancel_revoked.                  *)
CleanThen(w, exit) ==
    worker' = [worker EXCEPT ![w] = [Leaving(w, "cleanCheck") EXCEPT !.exit = exit]]

(* A job in the hands of a process that still heartbeats.                  *)
Live(j) == \E w \in Workers : worker[w].pc \notin IdleSteps /\ JobOf(w) = j /\ Leased(j, w)

-----------------------------------------------------------------------------
(* Redis deliveries and reconciliation.                                    *)

(* process_delivery: claim, or acknowledge a wake-up that cannot be        *)
(* claimed, whatever the reason.                                           *)
ClaimDelivery(w, j) ==
    /\ At(w, "idle") /\ j \in wakeups
    /\ Claim(j, w)
    /\ worker' = [worker EXCEPT ![w] = [Idle EXCEPT !.pc = "authorize", !.job = j,
                                                    !.attempt = job[j].attempt + 1]]
    /\ UNCHANGED <<vectors, wakeups, posting>>

DropDelivery(w, j) ==
    /\ At(w, "idle") /\ j \in wakeups
    /\ ~Claimable(j)
    /\ wakeups' = wakeups \ {j}
    /\ UNCHANGED <<store, worker, vectors, posting>>

(* The acknowledgement in the finally clause.                              *)
Acknowledge(w) ==
    /\ At(w, "ack")
    /\ wakeups' = wakeups \ {JobOf(w)}
    /\ worker' = [worker EXCEPT ![w] = Idle]
    /\ UNCHANGED <<store, vectors, posting>>

(* recover_abandoned when nothing is written between its SELECT and its    *)
(* COMMIT ...                                                              *)
RecoverAtOnce(w, j) ==
    /\ "overlap" \notin Faults
    /\ At(w, "idle") /\ Abandoned(j)
    /\ RecoverAbandoned(j, job[j].attempt)
    /\ UNCHANGED <<worker, vectors, wakeups, posting>>

(* ... and when other transactions commit in between.                      *)
RecoverSelect(w, j) ==
    /\ "overlap" \in Faults
    /\ At(w, "idle") /\ Abandoned(j)
    /\ worker' = [worker EXCEPT ![w] = [Idle EXCEPT !.pc = "recovering", !.job = j,
                                                    !.attempt = job[j].attempt]]
    /\ UNCHANGED <<store, vectors, wakeups, posting>>

RecoverCommit(w) ==
    /\ At(w, "recovering")
    /\ RecoverAbandoned(JobOf(w), worker[w].attempt)
    /\ worker' = [worker EXCEPT ![w] = Idle]
    /\ UNCHANGED <<vectors, wakeups, posting>>

(* The due-jobs half of reconcile.                                         *)
EnqueueDue(w, j) ==
    /\ At(w, "idle") /\ IsDue(j)
    /\ j \notin wakeups
    /\ wakeups' = wakeups \cup {j}
    /\ UNCHANGED <<store, worker, vectors, posting>>

-----------------------------------------------------------------------------
(* _run_claimed up to the clone.                                           *)

Authorize(w) ==
    /\ At(w, "authorize")
    /\ IF Authorized(JobOf(w))
       THEN /\ AuthorizedContext(JobOf(w))
            /\ worker' = [worker EXCEPT ![w].pc = "current",
                                        ![w].context = ContextOf(JobOf(w))]
       ELSE worker' = [worker EXCEPT ![w] = Leaving(w, "cancel")] /\ UNCHANGED store
    /\ UNCHANGED <<vectors, wakeups, posting>>

CheckCurrent(w) ==
    /\ At(w, "current")
    /\ IF IsCurrent(JobOf(w), w)
       THEN Goto(w, "clone")
       ELSE worker' = [worker EXCEPT ![w] = Leaving(w, "supersede")]
    /\ UNCHANGED <<store, vectors, wakeups, posting>>

(* The clone pins whatever commit the default branch has at that moment.   *)
AlreadyActive(w, c) ==
    LET context == worker[w].context IN
    /\ context.commit = c
    /\ context.indexedBranch = context.branch
    /\ job[JobOf(w)].mode = "incremental"

Clone(w, c) ==
    /\ At(w, "clone")
    /\ worker' = IF AlreadyActive(w, c)
                  THEN [worker EXCEPT ![w] = Leaving(w, "stale")]
                  ELSE [worker EXCEPT ![w].commit = c, ![w].pc = "analyze"]
    /\ UNCHANGED <<store, vectors, wakeups, posting>>

(* _clone_token of a public repository that is gone, private or renamed.   *)
PublicRepositoryGone(w) ==
    /\ "public" \in Faults /\ At(w, "clone")
    /\ RevokePublicAccess
    /\ FailFrom(w, FALSE)
    /\ UNCHANGED <<vectors, wakeups, posting>>

(* _analyze: the discovering, parsing, chunking and graph stages, then the *)
(* freshness plan.                                                         *)
Analyze(w) ==
    /\ At(w, "analyze")
    /\ Stage(JobOf(w), w)
    /\ Goto(w, "prepare")
    /\ UNCHANGED <<vectors, wakeups, posting>>

Prepare(w) ==
    /\ At(w, "prepare")
    /\ IF CanPrepare(JobOf(w), w)
       THEN /\ PrepareBuild(JobOf(w), w, worker[w].commit)
            /\ worker' = [worker EXCEPT ![w].pc = "embed", ![w].prepared = TRUE]
       ELSE FailFrom(w, FALSE) /\ UNCHANGED store
    /\ UNCHANGED <<vectors, wakeups, posting>>

-----------------------------------------------------------------------------
(* _embed_and_store: the embedding and storing_vectors stages with the call *)
(* to the embedding service between them, the scope, the counts.           *)

Embed(w) ==
    /\ At(w, "embed")
    /\ Stage(JobOf(w), w)
    /\ Goto(w, "check")
    /\ UNCHANGED <<vectors, wakeups, posting>>

CheckInactive(w) ==
    /\ At(w, "check")
    /\ IF CanCleanupInactive(Target(w)) THEN Goto(w, "delete") ELSE FailFrom(w, FALSE)
    /\ UNCHANGED <<store, vectors, wakeups, posting>>

(* delete_scope filters on the repository and the version only.            *)
DeleteScope_AllVersions(v) == vectors' = [x \in DOMAIN vectors |-> {}]
DeleteScope(v) == vectors' = [vectors EXCEPT ![v] = {}]

ClearScope(w) ==
    /\ At(w, "delete")
    /\ DeleteScope(Target(w))
    /\ worker' = [worker EXCEPT ![w].pc = "upsert"]
    /\ UNCHANGED <<store, wakeups, posting>>

Upsert(w, b) ==
    /\ At(w, "upsert") /\ b \in Batches \ worker[w].sent
    /\ vectors' = [vectors EXCEPT ![Target(w)] = @ \cup {<<worker[w].commit, b>>}]
    /\ worker' = IF worker[w].sent \cup {b} = Batches
                  THEN [worker EXCEPT ![w].sent = {}, ![w].pc = "count"]
                  ELSE [worker EXCEPT ![w].sent = @ \cup {b}]
    /\ UNCHANGED <<store, wakeups, posting>>

Count(w) ==
    /\ At(w, "count")
    /\ IF OwnBuild(JobOf(w), w, "building")
       THEN RecordVectorCounts(JobOf(w), w) /\ Goto(w, "validate")
       ELSE FailFrom(w, FALSE) /\ UNCHANGED store
    /\ UNCHANGED <<vectors, wakeups, posting>>

-----------------------------------------------------------------------------
(* _validate_and_activate.                                                 *)

(* validate_scope: the exact count, and the commit of every point.         *)
ScopeComplete(v, c) == vectors[v] = {c} \X Batches

ValidateScope(w) ==
    /\ At(w, "validate")
    /\ Stage(JobOf(w), w)
    /\ IF ScopeComplete(Target(w), worker[w].commit) THEN Goto(w, "graph") ELSE FailFrom(w, FALSE)
    /\ UNCHANGED <<vectors, wakeups, posting>>

CheckGraph(w) ==
    /\ At(w, "graph")
    /\ IF GraphMatches(JobOf(w), w)
       THEN ValidateGraph(JobOf(w), w) /\ Goto(w, "ready")
       ELSE FailFrom(w, FALSE) /\ UNCHANGED store
    /\ UNCHANGED <<vectors, wakeups, posting>>

MarkReady(w) ==
    /\ At(w, "ready")
    /\ IF CanMarkReady(JobOf(w), w)
       THEN MarkBuildReady(JobOf(w), w) /\ Goto(w, "recheck")
       ELSE FailFrom(w, FALSE) /\ UNCHANGED store
    /\ UNCHANGED <<vectors, wakeups, posting>>

Recheck(w) ==
    /\ At(w, "recheck")
    /\ IF IsCurrent(JobOf(w), w) THEN Goto(w, "reauthorize") ELSE CleanThen(w, "supersede")
    /\ UNCHANGED <<store, vectors, wakeups, posting>>

Reauthorize(w) ==
    /\ At(w, "reauthorize")
    /\ IF Authorized(JobOf(w))
       THEN /\ AuthorizedContext(JobOf(w))
            /\ IF ContextOf(JobOf(w)) = worker[w].context
               THEN Goto(w, "activating") ELSE FailFrom(w, FALSE)
       ELSE CleanThen(w, "cancel") /\ UNCHANGED store
    /\ UNCHANGED <<vectors, wakeups, posting>>

Activating(w) ==
    /\ At(w, "activating")
    /\ Stage(JobOf(w), w)
    /\ Goto(w, "activate")
    /\ UNCHANGED <<vectors, wakeups, posting>>

ActivateIndex(w) ==
    /\ At(w, "activate")
    /\ IF CanActivate(JobOf(w), w, worker[w].commit)
       THEN /\ Activate(JobOf(w), w, worker[w].commit)
            /\ IF repo.version > 0
               THEN worker' = [worker EXCEPT
                        ![w] = [Leaving(w, "drop") EXCEPT !.previous = repo.version]]
               ELSE Finish(w)
       ELSE FailFrom(w, FALSE) /\ UNCHANGED store
    /\ UNCHANGED <<vectors, wakeups, posting>>

(* _cleanup_superseded: a failed delete only logs, and is not retried.     *)
DropSuperseded(w) ==
    /\ At(w, "drop")
    /\ DeleteScope(worker[w].previous)
    /\ Goto(w, "dropRows")
    /\ UNCHANGED <<store, wakeups, posting>>

DropSupersededFails(w) ==
    /\ "service" \in Faults /\ At(w, "drop")
    /\ Finish(w)
    /\ UNCHANGED <<store, vectors, wakeups, posting>>

DropSupersededRows(w) ==
    /\ At(w, "dropRows")
    /\ CompleteSupersededCleanup(worker[w].previous)
    /\ Finish(w)
    /\ UNCHANGED <<vectors, wakeups, posting>>

-----------------------------------------------------------------------------
(* Failure, staleness and revocation.                                      *)

(* An exception of a call to GitHub, git, the parser child, the embedding  *)
(* service, Qdrant or PostgreSQL, classified retryable or not.             *)
FallibleSteps == {"clone", "analyze", "embed", "delete", "upsert", "validate"}

StepFails(w, retryable) ==
    /\ "service" \in Faults /\ worker[w].pc \in FallibleSteps
    /\ FailFrom(w, retryable)
    /\ UNCHANGED <<store, vectors, wakeups, posting>>

(* _cleanup_inactive, when the version has become active meanwhile: not    *)
(* cleaned, which makes the failure retryable.                             *)
CleanCheck(w) ==
    /\ At(w, "cleanCheck")
    /\ worker' =
          IF CanCleanupInactive(Target(w))
          THEN [worker EXCEPT ![w].pc = "cleanDelete"]
          ELSE [worker EXCEPT ![w].pc = worker[w].exit, ![w].retryable = TRUE]
    /\ UNCHANGED <<store, vectors, wakeups, posting>>

CleanDelete(w) ==
    /\ At(w, "cleanDelete")
    /\ DeleteScope(Target(w))
    /\ Goto(w, "cleanRecord")
    /\ UNCHANGED <<store, wakeups, posting>>

CleanDeleteFails(w) ==
    /\ "service" \in Faults /\ At(w, "cleanDelete")
    /\ RecordFailedBuildCleanup(Target(w), FALSE)
    /\ worker' = [worker EXCEPT ![w].pc = worker[w].exit, ![w].retryable = TRUE]
    /\ UNCHANGED <<vectors, wakeups, posting>>

CleanRecord(w) ==
    /\ At(w, "cleanRecord")
    /\ RecordFailedBuildCleanup(Target(w), TRUE)
    /\ Goto(w, worker[w].exit)
    /\ UNCHANGED <<vectors, wakeups, posting>>

FailJob(w) ==
    /\ At(w, "fail")
    /\ Fail(JobOf(w), w, worker[w].attempt, worker[w].retryable)
    /\ Finish(w)
    /\ UNCHANGED <<vectors, wakeups, posting>>

CancelJob(w) ==
    /\ At(w, "cancel")
    /\ CancelRevoked(JobOf(w), w)
    /\ Finish(w)
    /\ UNCHANGED <<vectors, wakeups, posting>>

SupersedeJob(w) ==
    /\ At(w, "supersede")
    /\ MarkStale(JobOf(w), w, "superseded")
    /\ Finish(w)
    /\ UNCHANGED <<vectors, wakeups, posting>>

AlreadyActiveJob(w) ==
    /\ At(w, "stale")
    /\ MarkStale(JobOf(w), w, "stale")
    /\ Finish(w)
    /\ UNCHANGED <<vectors, wakeups, posting>>

-----------------------------------------------------------------------------
(* Requests: the API commits the job, then enqueues its id.                *)

Request(j) ==
    /\ \/ "select" \in Requests /\ SelectRepository(j)
       \/ "reindex" \in Requests /\ \E c \in Commits \cup {NoCommit} : Reindex(j, c)
       \/ "push" \in Requests /\ \E before, after \in Commits, forced \in BOOLEAN :
                                   ApplyPush(j, before, after, forced)
       \/ "metadata" \in Requests /\ \E b \in Branches : ApplyRepositoryMetadata(j, b)
    /\ posting' = posting \cup {j}
    /\ UNCHANGED <<worker, vectors, wakeups>>

(* select_repository again: the newest initial job is enqueued, whatever   *)
(* its status.                                                             *)
SelectAgain(j) ==
    /\ "select" \in Requests
    /\ repo.access = "granted"
    /\ j \in InitialJobs /\ j \notin posting
    /\ posting' = posting \cup {j}
    /\ UNCHANGED <<store, worker, vectors, wakeups>>

PostEnqueue(j) ==
    /\ j \in posting
    /\ wakeups' = wakeups \cup {j}
    /\ posting' = posting \ {j}
    /\ UNCHANGED <<store, worker, vectors>>

(* The queue is unavailable: the webhook handler marks its delivery row    *)
(* retryable, whatever has become of the job since.                        *)
PostEnqueueFails(j) ==
    /\ "queue" \in Faults /\ j \in posting
    /\ delivery' = Deliver(j, "retryable")
    /\ posting' = posting \ {j}
    /\ UNCHANGED <<job, repo, build, symbols, worker, vectors, wakeups>>

PostCrashes(j) ==
    /\ "queue" \in Faults /\ j \in posting
    /\ posting' = posting \ {j}
    /\ UNCHANGED <<store, worker, vectors, wakeups>>

-----------------------------------------------------------------------------
(* The environment.                                                        *)

(* The heartbeat task of a run.                                            *)
Beat(w) ==
    /\ worker[w].pc \notin IdleSteps
    /\ ~job[JobOf(w)].fresh
    /\ Heartbeat(JobOf(w), w)
    /\ UNCHANGED <<worker, vectors, wakeups, posting>>

(* abandoned_after passes without a heartbeat.                             *)
HeartbeatExpires(j) ==
    /\ job[j].status = "running" /\ job[j].fresh
    /\ "lease" \in Faults \/ ~Live(j)
    /\ job' = [job EXCEPT ![j].fresh = FALSE]
    /\ UNCHANGED <<repo, build, symbols, delivery, worker, vectors, wakeups, posting>>

(* The retry delay passes.                                                 *)
BackoffEnds(j) ==
    /\ ~job[j].due
    /\ job' = [job EXCEPT ![j].due = TRUE]
    /\ UNCHANGED <<repo, build, symbols, delivery, worker, vectors, wakeups, posting>>

(* The process dies in any step and restarts under a new worker id; its    *)
(* unacknowledged wake-up stays in the stream.                             *)
Crash(w) ==
    /\ "crash" \in Faults /\ ~At(w, "idle")
    /\ worker' = [worker EXCEPT ![w] = Idle]
    /\ UNCHANGED <<store, vectors, wakeups, posting>>

(* Redis restarts empty, or MAXLEN trims an entry.                         *)
LoseWakeup(j) ==
    /\ "wakeup" \in Faults /\ j \in wakeups
    /\ wakeups' = wakeups \ {j}
    /\ UNCHANGED <<store, worker, vectors, posting>>

AccessChanges ==
    /\ \/ "access" \in Faults /\ (RevokeAccess \/ MembershipChanges)
       \/ "listing" \in Faults /\ \E b \in Branches : SynchronizeRepository(b)
    /\ UNCHANGED <<worker, vectors, wakeups, posting>>

-----------------------------------------------------------------------------
Deliveries(w) ==
    \/ \E j \in Jobs : ClaimDelivery(w, j) \/ DropDelivery(w, j)
    \/ \E j \in Jobs : RecoverAtOnce(w, j) \/ RecoverSelect(w, j) \/ EnqueueDue(w, j)
    \/ RecoverCommit(w) \/ Acknowledge(w)

Build(w) ==
    \/ Authorize(w) \/ CheckCurrent(w) \/ PublicRepositoryGone(w)
    \/ \E c \in Commits : Clone(w, c)
    \/ Analyze(w) \/ Prepare(w) \/ Embed(w) \/ CheckInactive(w) \/ ClearScope(w)
    \/ \E b \in Batches : Upsert(w, b)
    \/ Count(w) \/ ValidateScope(w) \/ CheckGraph(w) \/ MarkReady(w)
    \/ Recheck(w) \/ Reauthorize(w) \/ Activating(w) \/ ActivateIndex(w)
    \/ DropSuperseded(w) \/ DropSupersededFails(w) \/ DropSupersededRows(w)

Leave(w) ==
    \/ \E retryable \in BOOLEAN : StepFails(w, retryable)
    \/ CleanCheck(w) \/ CleanDelete(w) \/ CleanDeleteFails(w) \/ CleanRecord(w)
    \/ FailJob(w) \/ CancelJob(w) \/ SupersedeJob(w) \/ AlreadyActiveJob(w)

Api(j) == Request(j) \/ SelectAgain(j) \/ PostEnqueue(j) \/ PostEnqueueFails(j) \/ PostCrashes(j)

Environment ==
    \/ \E w \in Workers : Beat(w) \/ Crash(w)
    \/ \E j \in Jobs : HeartbeatExpires(j) \/ BackoffEnds(j) \/ LoseWakeup(j)
    \/ AccessChanges

Next ==
    \/ \E w \in Workers : Deliveries(w) \/ Build(w) \/ Leave(w)
    \/ \E j \in Jobs : Api(j)
    \/ Environment

Spec == Init /\ [][Next]_vars
=============================================================================
