--------------------------- MODULE WebhookDeliveries ---------------------------
(***************************************************************************)
(* GitHub's webhooks about one repository: GitHub changes, tells in any    *)
(* order, late and more than once, and the handler keeps one row per       *)
(* delivery id next to what the event does to the installation, the        *)
(* repository and its jobs.  A push locks the repository's row; a          *)
(* repository event reads it without a lock and writes it later.  What a   *)
(* job does between its creation and its end is IndexingJobs.              *)
(***************************************************************************)
EXTENDS Naturals, Sequences

CONSTANTS
    EventKinds,      \* subset of Kinds that GitHub sends
    MaxEvents,       \* bound on events
    MaxDeliveries      \* bound on deliveries of one event

Kinds == {"push", "topic_push", "branch_deleted", "edited", "deleted", "removed", "added", "suspend",
          "unsuspend", "unsupported"}

ASSUME EventKindsKnown == EventKinds \subseteq Kinds
ASSUME EventBounds == MaxEvents \in Nat /\ MaxDeliveries \in Nat

VARIABLES
    remote,          \* GitHub: the default branch and the number of its commits
    event,           \* the events, in the order in which they happened
    attempts,        \* how often each has been delivered
    delivery,        \* webhook_deliveries: one row per event, once it is committed
    reading,         \* handlers of repository events between their read and their commit
    installation,    \* status of the installation
    repo,            \* the repository's row
    jobs,            \* the jobs of webhooks, in the order of their commits
    posting          \* deliveries committed with a job that is not enqueued yet

webhooks == <<remote, event, attempts, delivery, reading, installation, repo, jobs, posting>>

Branches == {"main", "dev"}

EventRow == [kind : Kinds, after : Nat, branch : Branches]

Statuses == {"absent", "ignored", "unauthorized", "stale", "processed", "queued", "retryable"}

DeliveryRow == [status : Statuses, job : Nat]

RepoRow ==
    [revoked : BOOLEAN, deleted : BOOLEAN, branch : Branches, generation : Nat, indexed : Nat]

(* by is the event a job comes from; known is auxiliary: how many jobs     *)
(* there were when the repository was read for it.                         *)
JobRow == [commit : Nat, branch : Branches, generation : Nat, open : BOOLEAN, by : Nat, known : Nat]

NewRepository ==
    [revoked |-> FALSE, deleted |-> FALSE, branch |-> "main", generation |-> 0, indexed |-> 0]

NotReading == [active |-> FALSE, repo |-> NewRepository, known |-> 0]

Events == 1 .. Len(event)
JobIds == 1 .. Len(jobs)

WebhooksTypeOK ==
    /\ remote \in [branch : Branches, head : Nat]
    /\ event \in Seq(EventRow) /\ Len(event) <= MaxEvents
    /\ attempts \in [Events -> 0 .. MaxDeliveries]
    /\ delivery \in [Events -> DeliveryRow]
    /\ reading \in [Events -> [active : BOOLEAN, repo : RepoRow, known : Nat]]
    /\ installation \in {"active", "suspended"}
    /\ repo \in RepoRow
    /\ jobs \in Seq(JobRow)
    /\ posting \subseteq Events
    /\ \A e \in Events :
        /\ delivery[e].job \in {0} \cup JobIds
        /\ delivery[e].status \in {"queued", "retryable"} => delivery[e].job # 0
        /\ delivery[e].status # "absent" => attempts[e] > 0

WebhooksInit ==
    /\ remote = [branch |-> "main", head |-> 1]
    /\ event = <<>> /\ attempts = <<>> /\ delivery = <<>> /\ reading = <<>>
    /\ installation = "active"
    /\ repo = NewRepository
    /\ jobs = <<>> /\ posting = {}

-----------------------------------------------------------------------------
(* GitHub.                                                                 *)

Other(branch) == CHOOSE b \in Branches : b # branch

RemoteAfter(kind) ==
    CASE kind = "push" -> [remote EXCEPT !.head = @ + 1]
      [] kind = "edited" -> [remote EXCEPT !.branch = Other(@)]
      [] OTHER -> remote

Happens(kind) ==
    /\ Len(event) < MaxEvents
    /\ remote' = RemoteAfter(kind)
    /\ event' = Append(event, [kind |-> kind, after |-> remote'.head, branch |-> remote'.branch])
    /\ attempts' = Append(attempts, 0)
    /\ delivery' = Append(delivery, [status |-> "absent", job |-> 0])
    /\ reading' = Append(reading, NotReading)
    /\ UNCHANGED <<installation, repo, jobs, posting>>

-----------------------------------------------------------------------------
(* The handler.  The delivery is inserted first; ON CONFLICT DO NOTHING    *)
(* waits for another transaction that has inserted the same id.            *)

Arrives(e, kinds) ==
    /\ event[e].kind \in kinds
    /\ attempts[e] < MaxDeliveries /\ ~reading[e].active
    /\ attempts' = [attempts EXCEPT ![e] = @ + 1]

IsNew(e) == delivery[e].status = "absent"

Recorded(e, status, j) == delivery' = [delivery EXCEPT ![e] = [status |-> status, job |-> j]]

Duplicate(e) ==
    /\ Arrives(e, Kinds) /\ ~IsNew(e)
    /\ UNCHANGED <<remote, event, delivery, reading, installation, repo, jobs, posting>>

Unsupported(e) ==
    /\ Arrives(e, {"unsupported"}) /\ IsNew(e)
    /\ Recorded(e, "ignored", 0)
    /\ UNCHANGED <<remote, event, reading, installation, repo, jobs, posting>>

(* Suspending (or deleting) the installation revokes every repository,     *)
(* unsuspending (or creating) it restores none.                            *)
ApplyInstallation(e) ==
    /\ Arrives(e, {"suspend", "unsuspend"}) /\ IsNew(e)
    /\ installation' = IF event[e].kind = "suspend" THEN "suspended" ELSE "active"
    /\ repo' = IF event[e].kind = "suspend" THEN [repo EXCEPT !.revoked = TRUE] ELSE repo
    /\ Recorded(e, "processed", 0)
    /\ UNCHANGED <<remote, event, reading, jobs, posting>>

ApplyRepositoryAccess(e) ==
    /\ Arrives(e, {"removed", "added"}) /\ IsNew(e)
    /\ repo' = IF event[e].kind = "removed" THEN [repo EXCEPT !.revoked = TRUE]
               ELSE [repo EXCEPT !.revoked = FALSE, !.deleted = FALSE]
    /\ Recorded(e, "processed", 0)
    /\ UNCHANGED <<remote, event, reading, installation, jobs, posting>>

RepositoryDeleted(e) ==
    /\ Arrives(e, {"deleted"}) /\ IsNew(e)
    /\ repo' = [repo EXCEPT !.revoked = TRUE, !.deleted = TRUE]
    /\ Recorded(e, "processed", 0)
    /\ UNCHANGED <<remote, event, reading, installation, jobs, posting>>

Authorized == installation = "active" /\ ~repo.revoked /\ ~repo.deleted

Pushes == {"push", "topic_push", "branch_deleted"}

SameTarget(e) == {j \in JobIds : jobs[j].open /\ jobs[j].commit = event[e].after}

(* What a push that creates no job leaves in its delivery.                 *)
PushOutcome_NotLinked(e) ==
    IF SameTarget(e) # {} THEN [status |-> "queued", job |-> 0] ELSE [status |-> "absent", job |-> 0]
PushOutcome_Processed(e) ==
    IF SameTarget(e) # {} THEN [status |-> "processed", job |-> CHOOSE j \in SameTarget(e) : TRUE]
    ELSE [status |-> "absent", job |-> 0]
PushOutcome(e) ==
    CASE ~Authorized -> [status |-> "unauthorized", job |-> 0]
      [] event[e].kind = "topic_push" \/ event[e].branch # repo.branch
           -> [status |-> "ignored", job |-> 0]
      [] event[e].kind = "branch_deleted" -> [status |-> "ignored", job |-> 0]
      [] event[e].after = repo.indexed -> [status |-> "stale", job |-> 0]
      [] SameTarget(e) # {} -> [status |-> "queued", job |-> CHOOSE j \in SameTarget(e) : TRUE]
      [] OTHER -> [status |-> "absent", job |-> 0]

PushIgnored(e) ==
    /\ Arrives(e, Pushes) /\ IsNew(e)
    /\ PushOutcome(e).status # "absent"
    /\ delivery' = [delivery EXCEPT ![e] = PushOutcome(e)]
    /\ UNCHANGED <<remote, event, reading, installation, repo, jobs, posting>>

NextGeneration_Same(row) == row.generation
NextGeneration(row) == row.generation + 1

WebhookJob(e, commit, branch, generation, known) ==
    [commit |-> commit, branch |-> branch, generation |-> generation, open |-> TRUE, by |-> e,
     known |-> known]

PushQueued(e) ==
    /\ Arrives(e, Pushes) /\ IsNew(e)
    /\ PushOutcome(e).status = "absent"
    /\ repo' = [repo EXCEPT !.generation = NextGeneration(repo)]
    /\ jobs' = Append(jobs, WebhookJob(e, event[e].after, repo.branch, NextGeneration(repo),
                                       Len(jobs)))
    /\ Recorded(e, "queued", Len(jobs'))
    /\ posting' = posting \cup {e}
    /\ UNCHANGED <<remote, event, reading, installation>>

(* _apply_repository_metadata up to its read.                              *)
ReadRepository(e) ==
    /\ Arrives(e, {"edited"}) /\ IsNew(e)
    /\ IF Authorized
       THEN /\ reading' = [reading EXCEPT ![e] = [active |-> TRUE, repo |-> repo,
                                                  known |-> Len(jobs)]]
            /\ UNCHANGED delivery
       ELSE Recorded(e, "unauthorized", 0) /\ UNCHANGED reading
    /\ UNCHANGED <<remote, event, installation, repo, jobs, posting>>

(* Its commit writes what it has changed in the row it had read.           *)
CommitMetadata(e) ==
    LET row == reading[e].repo IN
    /\ reading[e].active
    /\ reading' = [reading EXCEPT ![e] = NotReading]
    /\ IF row.branch = event[e].branch
       THEN Recorded(e, "processed", 0) /\ UNCHANGED <<repo, jobs, posting>>
       ELSE /\ repo' = [repo EXCEPT !.branch = event[e].branch, !.generation = NextGeneration(row)]
            /\ jobs' = Append(jobs, WebhookJob(e, 0, event[e].branch, NextGeneration(row),
                                               reading[e].known))
            /\ Recorded(e, "queued", Len(jobs'))
            /\ posting' = posting \cup {e}
    /\ UNCHANGED <<remote, event, attempts, installation>>

(* The process dies in between: PostgreSQL rolls the delivery back.        *)
HandlerDies(e) ==
    /\ reading[e].active
    /\ reading' = [reading EXCEPT ![e] = NotReading]
    /\ UNCHANGED <<remote, event, attempts, delivery, installation, repo, jobs, posting>>

(* After the commit: the job is enqueued, or its delivery is marked.       *)
Enqueued(e) ==
    /\ e \in posting
    /\ posting' = posting \ {e}
    /\ UNCHANGED <<remote, event, attempts, delivery, reading, installation, repo, jobs>>

QueueUnavailable(e) ==
    /\ e \in posting
    /\ posting' = posting \ {e}
    /\ delivery' = [delivery EXCEPT ![e].status = "retryable"]
    /\ UNCHANGED <<remote, event, attempts, reading, installation, repo, jobs>>

(* A job ends, with one of the deliveries linked to it; one that completes *)
(* leaves its commit, or the head, as the indexed one.                     *)
Linked(j) == {e \in Events : delivery[e].job = j}

JobEnds(j, completes) ==
    /\ jobs[j].open
    /\ jobs' = [jobs EXCEPT ![j].open = FALSE]
    /\ \E e \in Linked(j) : delivery' = [delivery EXCEPT ![e].status = "processed"]
    /\ completes => jobs[j].generation = repo.generation /\ jobs[j].branch = repo.branch
    /\ repo' = IF completes
               THEN [repo EXCEPT !.indexed = IF jobs[j].commit = 0 THEN remote.head ELSE jobs[j].commit]
               ELSE repo
    /\ UNCHANGED <<remote, event, attempts, reading, installation, posting>>

-----------------------------------------------------------------------------
HandleEvent(e) ==
    \/ Duplicate(e) \/ Unsupported(e) \/ ApplyInstallation(e) \/ ApplyRepositoryAccess(e)
    \/ RepositoryDeleted(e) \/ PushIgnored(e) \/ PushQueued(e) \/ ReadRepository(e)
    \/ CommitMetadata(e) \/ HandlerDies(e) \/ Enqueued(e) \/ QueueUnavailable(e)

WebhooksNext ==
    \/ \E kind \in EventKinds : Happens(kind)
    \/ \E e \in Events : HandleEvent(e)
    \/ \E j \in JobIds, completes \in BOOLEAN : JobEnds(j, completes)

WebhooksSpec == WebhooksInit /\ [][WebhooksNext]_webhooks

-----------------------------------------------------------------------------
(* However often GitHub delivers an event, and whatever dies in between,   *)
(* it makes one job at most (the unique delivery id of handle).            *)
EventsApplyOnce == \A j, k \in JobIds : jobs[j].by = jobs[k].by => j = k

(* Two jobs share a generation only when a repository event had read the   *)
(* row before the other job was committed (_apply_repository_metadata      *)
(* takes no lock): pushes by themselves never do.                          *)
SharedGenerationsRaced ==
    \A j, k \in JobIds :
        j < k /\ jobs[j].generation = jobs[k].generation
            => \E l \in (j + 1) .. k : event[jobs[l].by].kind = "edited" /\ jobs[l].known < l - 1

(* While a job is open, each delivery linked to it says so: none of the    *)
(* coalesced pushes reports an end before there is one.                    *)
OpenJobsReported ==
    \A e \in Events :
        delivery[e].job # 0 /\ jobs[delivery[e].job].open
            => delivery[e].status \in {"queued", "retryable"}
=============================================================================
