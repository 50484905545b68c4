------------------------- MODULE IndexingProperties -------------------------
(***************************************************************************)
(* What the job store and the workers promise together.                    *)
(***************************************************************************)
EXTENDS IndexingWorker

(* The build the repository row names is the only active one, and the row, *)
(* the build and the stored symbols agree on its commit; it was counted    *)
(* and its graph validated by a job that is complete.  Questions are       *)
(* answered from this join (agent/service.py _load_active_index).          *)
ActiveIndexConsistent ==
    /\ \A v \in Versions : build[v].state = "active" <=> v = repo.version
    /\ repo.version > 0 =>
          LET active == build[repo.version] IN
          /\ active.commit = repo.commit /\ symbols[repo.version] = repo.commit
          /\ active.counted /\ active.graph

(* Vectors are complete for the active version: Qdrant is not written in   *)
(* the activating transaction, and scopes are deleted before an upsert,    *)
(* after a failure and after an activation (vector/qdrant.py).             *)
ActiveVectorsComplete ==
    repo.version > 0 => ScopeComplete(repo.version, repo.commit)

(* The active version moves by activation only: to its successor, for a    *)
(* running job of the newest generation and of the present default branch, *)
(* which completes in the same transaction while the previous build is     *)
(* superseded (activate's compare-and-swap against webhooks and reindex).  *)
NoStaleActivation ==
    [][repo'.version # repo.version =>
          LET target == repo'.version
              j == build'[target].job
          IN /\ target = repo.version + 1
             /\ job[j].status = "running" /\ job'[j].status = "complete"
             /\ job[j].generation = repo.generation
             /\ job[j].branch \in {NoBranch, repo.branch}
             /\ repo.version > 0 => build'[repo.version].state = "superseded"]_vars

(* While access lasts, the repository shows work under way (indexing_status *)
(* of claim, stage and fail) only while a job is unfinished, or after one  *)
(* that mark_stale cancelled: that one leaves the status as it was, and    *)
(* the frontend polls on (see the README).                                 *)
BusyStatusExplained ==
    repo.status \in {"queued", "indexing"} =>
        \E j \in Jobs : job[j].status \in Unfinished \cup {"cancelled"}

(* A process that is at work on a job, to the last step before it gives    *)
(* the job up, holds the lease, and is the only one.  The partial unique   *)
(* index allows one running row, and reconciliation re-queues a row only   *)
(* once its worker no longer heartbeats.                                   *)
Working(w) == worker[w].pc \notin IdleSteps \cup {"drop", "dropRows", "ack"}

OneWorkerPerRepository ==
    /\ \A w \in Workers : Working(w) => Leased(JobOf(w), w)
    /\ \A w, x \in Workers : Working(w) /\ Working(x) => w = x

(* A job is claimed at most WORKER_MAX_ATTEMPTS times, crashes included.   *)
AttemptsBounded == \A j \in Jobs : job[j].attempt <= MaxAttempts

(* A webhook delivery is reported as ended only when its job has ended:    *)
(* the two rows are updated by six transactions.                           *)
DeliveryEndsWithJob ==
    \A j \in Jobs : delivery[j] \in DeliveryEnded => job[j].status \in Terminal

(* An ended job is never run, retried or ended again, and keeps the commit *)
(* it published: claim takes waiting rows only, fail, mark_stale,          *)
(* cancel_revoked and activate ask for the lease, and recover_abandoned    *)
(* writes the rows it found running.                                       *)
EndedJobsStay ==
    [][\A j \in Jobs : job[j].status \in Terminal =>
          /\ job'[j].status = job[j].status /\ job'[j].attempt = job[j].attempt
          /\ job'[j].commit = job[j].commit]_vars

(* Readers see a log of published versions: ActiveIndex.                   *)
Published ==
    [v \in 1..repo.version |-> [job |-> build[v].job, commit |-> build[v].commit]]

Index == INSTANCE ActiveIndex WITH published <- Published

PublishesLikeActiveIndex == Index!Spec

(* More than that: they see what the agent that answers questions takes    *)
(* for granted of its repository (QuestionAgent), with nothing asked yet.  *)
(* A version is published whole, with every vector and symbol of its       *)
(* commit; it loses them only once it is superseded, never to have them    *)
(* again; access and the status that closes an index to questions change   *)
(* only as the agent expects.                                              *)
Whole(v) == ScopeComplete(v, build[v].commit) /\ symbols[v] = build[v].commit

Kept == {v \in 1..repo.version : Whole(v)}

Access == IF repo.access = "granted" THEN "granted" ELSE "denied"

Open == repo.status \notin {"not_indexed", "access_revoked"}

NoRuns == [q \in {} |-> q]

Readers == INSTANCE QuestionAgent WITH
    Questions <- {}, MaxCalls <- 1, Faults <- {},
    published <- Published, kept <- Kept, access <- Access, open <- Open,
    mode <- "installation", visible <- TRUE, run <- NoRuns, held <- NoRuns

ServesReaders == Readers!Spec

(* The inductive invariant behind ActiveIndexConsistent and                *)
(* PublishesLikeActiveIndex: how far each build has come depends on where  *)
(* its version lies from the active one, and a build row belongs for ever  *)
(* to the job it was prepared for.                                         *)
BuildRowOK(v) ==
    /\ build[v].state = "active" <=> v = repo.version
    /\ build[v].state \in {"building", "ready"} => v = repo.version + 1
    /\ v <= repo.version => build[v].state # "none"
    /\ build[v].state # "none" =>
          /\ build[v].job \in Jobs /\ build[v].commit \in Commits
          /\ job[build[v].job].target = v
    /\ build[v].state \in {"building", "ready", "active"} => symbols[v] = build[v].commit
    /\ build[v].state \in {"ready", "active"} => build[v].counted /\ build[v].graph

StoreInv ==
    /\ \A v \in Versions : BuildRowOK(v)
    /\ repo.version > 0 => build[repo.version].commit = repo.commit
    /\ \A j \in Jobs : job[j].status = "absent" => job[j].target = 0

(* A worker only ever drops the rows of a version that was superseded.     *)
PreviousInv ==
    \A w \in Workers :
        worker[w].pc \in {"drop", "dropRows"} => worker[w].previous < repo.version

BuildInv == StoreInv /\ PreviousInv

-----------------------------------------------------------------------------
(* Liveness.                                                               *)

(* The worker loop alternates between reading the stream and reconciling,  *)
(* a claimed run goes on to its end, and timers pass.  Nothing is assumed  *)
(* of requests, faults or the API's enqueue.                               *)
Fairness ==
    /\ \A w \in Workers :
          /\ WF_vars(\E j \in Jobs : ClaimDelivery(w, j))
          /\ WF_vars(Acknowledge(w))
          /\ WF_vars(Build(w) \/ Leave(w))
          /\ \A j \in Jobs : WF_vars(RecoverAtOnce(w, j)) /\ WF_vars(EnqueueDue(w, j))
    /\ \A j \in Jobs : WF_vars(HeartbeatExpires(j) /\ ~Live(j)) /\ WF_vars(BackoffEnds(j))

FairSpec == Spec /\ Fairness

(* Every job that is created ends, although its wake-up may never be       *)
(* posted, may be acknowledged while another job runs or while it backs    *)
(* off, and workers may die (reconcile, worker.py).                        *)
JobsSettle == \A j \in Jobs : (job[j].status = "queued") ~> (job[j].status \in Terminal)

-----------------------------------------------------------------------------
(* What the documents say and the code does not do.                        *)

(* docs/DECISIONS.md: a newer push or manual refresh supersedes older      *)
(* work.  The newest request, running for the next version, is not refused *)
(* because of a build an older job left behind (prepare_build).            *)
NewestRefreshNotRefused ==
    \A w \in Workers :
        /\ At(w, "prepare") /\ IsCurrent(JobOf(w), w)
        /\ Target(w) = repo.version + 1
        => CanPrepare(JobOf(w), w)

(* docs/DECISIONS.md: stale workers delete only their own inactive scope.  *)
DeletesOnlyInactiveScopes ==
    [][\A v \in Versions : vectors'[v] = {} /\ vectors[v] # {} => v # repo.version]_vars
=============================================================================
