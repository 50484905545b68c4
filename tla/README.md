# A verification of CodeNaut: indexing, repositories, accounts and questions

CodeNaut (the code calls itself RepoLume in places) lets a user select a GitHub
repository, indexes its Python source into PostgreSQL and Qdrant, and answers
questions about it with a bounded agent. This directory holds TLA+
specifications translated from the source under `src/`, the TLC configurations
that check them on small instances, and TLAPS proofs of what matters most. Paths
below are relative to `src/backend/app` unless they start with another directory
of `src/`.

## 1. The system

| Part | Code | State | Operations | Interacts with |
|---|---|---|---|---|
| Indexing job store | `services/indexing_jobs.py`, `db/models/` | job rows, repository row, index builds, symbols and call edges, linked webhook delivery | one transaction per method: claim ... activate, fail, recover | called by the worker; rows shared with webhooks, API, listings |
| Indexing worker | `indexing/worker.py`, `worker.py` | one run in memory (context, build prepared) | claim, clone, analyse, embed, store, validate, activate, clean up, reconcile, heartbeat | store, Redis, GitHub, git, embedding service, Qdrant |
| Job queue | `queue.py` | a Redis stream with a consumer group | enqueue, receive, reclaim, acknowledge | API and workers |
| Webhooks | `services/webhooks.py` | webhook deliveries | deduplicate, push, repository metadata, installation and repository access | creates jobs, revokes access |
| Repository service | `services/repositories.py` | - | select, reindex, status | creates jobs |
| Installations | `services/installations.py` | installations, memberships, repository rows | synchronise listings, authorize, re-check public visibility | GitHub, repository rows |
| Public import | `services/public_repositories.py` | shared public repository rows, user links | import, refresh, limits | creates jobs |
| Vector store | `vector/qdrant.py` | points by repository and version | upsert, validate, search, delete scope | worker, retrieval |
| Freshness | `indexing/freshness.py` | none | full or incremental, changed paths | worker |
| Static analysis | `indexing/{analyzer,discovery,python_parser,chunking,call_graph}.py` | none | files to symbols, chunks, edges | worker |
| Clone workspace | `indexing/clone.py` | temporary directories, git processes | clone, monitor limits, clean up | worker |
| Sessions | `services/auth.py`, `auth/` | OAuth states, refresh token families | login, callback, rotate, logout | frontend |
| Model clients | `llm/` | one semaphore per process | generate and decide with retries, count tokens | agent, retrieval |
| Question agent | `agent/`, `api/questions.py` | one run: calls, evidence | bounded tool loop, finalize | retrieval, LLM, rate limiter, chat |
| Rate limit | `services/rate_limit.py` | two counters per user in Redis | check a question | questions |
| Chat and usage | `services/chat.py`, `services/usage.py` | messages, usage rows | record, list, clear | questions |
| Embedding service | `src/embedding_service/app` | the model, an admission semaphore | warm up, embed, readiness | worker, retrieval |
| Frontend | `src/frontend/src` | access token, refresh in flight, polling | refresh once, poll status | API |

What makes each of them correct, and what is hard about it:

- **Job store and worker.** Many processes act on one repository; PostgreSQL,
  Redis and Qdrant are not updated together; workers die or stall at any step.
  Readers must always see one consistent, complete index; only the newest
  refresh may replace it; every job must end within a bounded number of
  attempts.
- **Queue.** Deliveries repeat, are lost or come late; nothing may depend on
  one.
- **Webhooks.** Events come late, twice and in any order; a commit is followed
  by an enqueue that may fail or never happen; deliveries are reported by what
  becomes of their job.
- **Installations.** A listing is many requests and one commit, while GitHub
  goes on changing; listings and webhooks write the same row.
- **Public import.** Users share a row; GitHub's answer is old by the time it is
  acted on; limits are counted without a lock on the user.
- **Freshness.** What is not embedded again must still be what the commit holds.
- **Workspace and parser.** Two kinds of child process may hang, die or be
  killed; whatever happens they end and the checkout goes.
- **Sign-in.** A state opens one login; accounts, identities and users agree
  although two callbacks read before either writes.
- **Sessions.** A refresh token is used once; a second use ends the family, and
  tabs that share the cookie must not look like thieves.
- **Agent.** The active version may be replaced between two of its awaits.
- **Model clients.** A cancelled call gives its slot back, and what it has used
  is counted.
- **Quotas and chat.** Two counters expire between two increments; a transcript
  is cleared while an answer is under way.
- **Embedding service.** Limits hold under concurrency, deadlines and crashes.

## 2. Modules

| Module | What it is |
|---|---|
| `IndexingJobs` | The database: row types with their CHECK constraints and unique indexes, and one operator per transaction of the store and per request that creates a job. No worker. |
| `IndexingWorker` | Composes the store with worker processes, Redis, Qdrant, the API's enqueue and the faults. Defines `Init`, one action per step between two awaits, `Next`, `Spec`. |
| `ActiveIndex` | Abstract specification: readers see an append-only log of published versions, each published once and by another job. |
| `IndexingProperties` | Invariants, action properties, liveness with its fairness, the refinement mapping into `ActiveIndex`, the inductive invariant, and the statements of the documentation that do not hold. |
| `EmbeddingService` | The embedding service: its process, loader, admission semaphore, thread pool and requests. |
| `EmbeddingClient` | Composes the service with the calls of its clients (worker and API) and their retries; `Spec`, `FairSpec`, properties, the inductive invariant. |
| `QuestionAgent` | The runs of the agent over a repository that goes on changing, with `ActiveIndex` for what indexing publishes; properties and the inductive invariant. |
| `ProviderCalls` | Calls of the language model: slots, retries, cancellation, metering. |
| `StaticAnalysis` | A job's checkout: git, discovery, the parser process and its pipe. |
| `IncrementalRefresh` | Comparison, plan and reuse of vectors of one refresh. |
| `WebhookDeliveries` | GitHub's events about one repository, their deliveries and the jobs they create. |
| `RepositoryListing` | The repositories of an installation: listings page by page, next to webhooks. |
| `PublicImport` | Public repositories shared by the users who import and refresh them, and the workers' looks at and writes to their rows. |
| `SignIn` | OAuth states and callbacks, users, identities, memberships. |
| `RefreshTokens` | Token families, the cookie, the tabs of a browser and their requests. |
| `ChatRequests` | Quotas before a question, usage and transcript after it. |
| `MCIndexing`, `MCEmbedding` | Symmetry and requests of the instances of indexing and embedding. |
| `MCRequests` | Side by side, the components whose requests must end: `QuestionAgent`, `ProviderCalls`, `RefreshTokens`, `StaticAnalysis`. |
| `MCServices` | Side by side, the services only safety is asked of: `SignIn`, `WebhookDeliveries`, `PublicImport`, `ChatRequests`, `RepositoryListing`, `IncrementalRefresh`. |
| `IndexingTypes_proofs`, `IndexingSafety_proofs`, `IndexingLeases_proofs` | Types; consistency, activation, refinement; leases, attempts, vectors. |
| `EmbeddingClient_proofs`, `RefreshTokens_proofs` | The invariants of these modules. |
| `Repositories_proofs` | Those of `PublicImport`, `RepositoryListing`, `IncrementalRefresh`. |
| `Requests_proofs` | Those of `QuestionAgent`, `ProviderCalls`, `StaticAnalysis`, and `MCRequests` of its four components together. |
| `Services_proofs` | Those of `SignIn`, `WebhookDeliveries`, `ChatRequests`, and `MCServices` of its six components together. |

### How they meet

Indexing and embedding share no state: to the worker, a call that failed is the
step `StepFails`, retryable or not, and the errors a call may end with are what
`EmbeddingClient` describes. `StaticAnalysis` and `IncrementalRefresh` are, in
the same way, what the worker's steps from the clone to the vectors do inside;
their failures are again `StepFails`. Indexing and questions meet in
`ActiveIndex`: the theorem `Refinement` says that the job store and its workers
publish like it, and `QuestionAgent` reads the versions it publishes. What a job
does between its creation and its end is `IndexingJobs`; `WebhookDeliveries`
keeps of a job what its requests decide on, and lets it end at any time;
`PublicImport` keeps the transactions in which a run looks at the repository's
row or writes it. The commit of a callback in `SignIn` is the action
`SignInCompletes` of `RefreshTokens`, where a family begins. The quota check and
the recording of `ChatRequests` come before and after a run of `QuestionAgent`,
whose calls of the provider are `ProviderCalls`. Neither of these pairs shares a
variable, so each is checked for every behaviour of the other.

### How the models correspond to the code

**Indexing.** One repository is modelled: every row, lock, index and vector
scope of the code is keyed by the repository, so two repositories meet only in a
worker's loop. The variables are `job` (indexing_jobs), `repo` (the repositories
row), `build` (repository_index_builds), `symbols` (the commit whose symbols and
call edges are stored for a version), `delivery` (the webhook delivery linked to
a job), `worker` (the run of each process), `vectors` (Qdrant points as commit
and batch), `wakeups` (jobs with an unacknowledged stream entry) and `posting`
(jobs committed by the API whose enqueue is still to come).

A transaction is a step, with its row locks; `recover_abandoned` is two when the
fault `overlap` is on, since its SELECT takes no lock. A worker's `pc` names the
next call of its run, and any other process may act between two steps, as
between two awaits. Control is kept: each guard, early return and error path of
the run appears, in the code's order. Data is abstracted: a commit is a value, a
build's chunks are `Batches`, a call to another service succeeds or raises a
retryable or a final error, stage names of a running job are one status
("indexing"), time is `fresh` (heartbeat younger than `abandoned_after`) and
`due` (`next_attempt_at` past). `last_enqueued_at` only delays an enqueue and is
left out. `repo.access` is "revoked" (`access_revoked_at`), "unverified" (no
fresh membership) or "granted". A build has at least one chunk. The several
`stage` calls inside analysis and inside embedding, which have the same effect,
are one. A worker that restarts takes the model's slot of the one that died;
nothing in the code asks for the id of an earlier process. The `.cfg` files
choose `Requests` (what creates jobs) and `Faults` (what may go wrong); the
proofs hold for every choice.

`EmbeddingService` is `src/embedding_service/app`. Its variables are `process`,
`status` (`ModelRuntime.status`), `loader` (the call the task `_load_and_warm`
awaits, and its attempt), `loaded` (the model object is there), `request` (where
each HTTP request is, or its answer), `waiters` and `free` (the semaphore) and
`thread` (the pool's work item of a request). The handler's code between two
awaits is a step: the checks in their order up to the semaphore (`Refuse`,
`Admit`), and what follows the model call or its deadline (`EndThread`,
`Deadline`), each of which leaves the semaphore and thereby admits the first
waiter. That hand-over (`asyncio.Semaphore`) and the pool (a work item that has
started cannot be cancelled) are library code, modelled as documented by Python
and marked external. Loading and requests never compete for the pool, since
requests are refused until loading has ended. `EmbeddingClient` is
`_request_with_retry` of `embeddings/client.py`: a request is a call and the
number of its attempt, and each status or transport error leads to the outcome
the code gives it. Left out: the body limit of the middleware, the arithmetic of
validating vectors (either of its outcomes may occur), the loop of
`embed_documents` over batches (a call is one batch) and `is_ready`.

`QuestionAgent` is `agent/service.py` and `agent/tools.py` with the
authorization of `services/installations.py` that they call. The state of a run
is its `pc`, what asked for the check under way (`why`), the `Repository` object
it was returned (`row`), its `ActiveIndex` (`active`; the commit and the
fingerprint go with the version), the evidence, the length of the trace
(`calls`) and whether a failure code of `unavailable_codes` was recorded
(`outage`). Each transaction and each call of another service is a step. A check
is `get_authorized_repository` (for a public repository three steps: the user's
link, GitHub, the row again) and `_load_active_index` on the row returned. The
repository is reduced to what a run can see of it: `published` and `kept` (the
versions whose vectors and rows have not been dropped), `access` (one state for
installation, membership and revocation), `visible`, and `open` (an
`indexing_status` that allows questions). These variables move as indexing moves
them, which is not left to belief: `ServesReaders` maps the store, the workers
and the vectors to them and says that indexing implements this environment
(finding 3 is what happens to it when leases are lost). Evidence read from a
version that has been dropped is "torn". A search that finds nothing, or an
answer that cites nothing, is always possible. `held` is a history variable: the
facts that have held at some moment since the run began or its last call ended.
The rate limit, usage and chat rows are `ChatRequests`. Left out: prompts and
ranking, and the sizes of results (a result that is too large is a failure of
the tool). A repository does not change its installation or its access mode
during a run.

`ProviderCalls` is `llm/client.py`: the retry loop that the OpenAI and the
Gemini client share, their semaphore, and the accumulator of token counts. A
call waits for the semaphore (`asyncio`, its queue is external), posts, pauses
between attempts while it keeps its slot, and takes the answer apart. The
agent's timeouts may cancel it at any await. `billed` counts what the provider
has worked on, which the code cannot see.

`StaticAnalysis` is `indexing/clone.py`, `indexing/discovery.py` and
`ProcessIsolatedAnalyzer` of `indexing/analyzer.py`. The variable `worker` says
where the job is, `git` and `child` are the processes, `pipe` the messages the
child has sent and nobody has received, `late` that the deadline of the process
waited for has passed. Each entry of the checkout has a kind, which decides what
discovery does with it and what the parser counts it as. The worker's loop is
kept poll by poll: a message, a quiet pipe and `is_alive` are steps, and the
child may end between any two. Discovery may always fail, as the file system may
and the files' bytes be too many; without that it refuses a path that escapes
and too many files. What is parsed out of a file is left out.

`IncrementalRefresh` is `indexing/freshness.py`, the comparison of
`github/client.py`, the worker's part between them and `reusable_vectors` of
`vector/qdrant.py`. A file stands for its one chunk, a content for the chunk's
hash and position and for its size. GitHub's comparison may be truncated,
diverged, unusable or fail; the active version may lose points while it is
scrolled, or contain none whose fingerprints match.

`WebhookDeliveries` is `services/webhooks.py` with the endpoint that enqueues
afterwards. GitHub (`remote`, `event`) changes and delivers each event several
times and in any order. A push locks its repository's row and is one step; a
repository event reads it without a lock (`reading`) and commits later (in
`IndexingJobs` the same event is one step, `ApplyRepositoryMetadata`; what its
race costs, a generation given twice, is asked here); two deliveries of one
event meet in the unique delivery id. `posting` is the gap between the commit
and the enqueue, which may fail or never be reached.

`RepositoryListing` is the synchronisation of `services/installations.py` with
the paging of `github/client.py` and the webhooks about the same rows. Pages are
positions in `granted`, so a repository that leaves moves the ones behind it.
The commit of a listing restores, creates and revokes in one transaction.

`PublicImport` is `services/public_repositories.py`. GitHub is asked in one step
and acted on in another; the attachment is a read and a commit under the
advisory lock of the repository's GitHub id, so requests for different
repositories interleave between the two. A name may come to stand for another
repository, which may become private and public again. A run of the worker looks
at the row in some transactions and writes it in later ones, and access may
change between any two: it is claimed (`Claim`), found authorized and current
(`Check`), asks GitHub and clones (`Clone`), revokes if the repository is gone
or another one (`RunRevokes`), writes a stage (`Stage`), checks again, and is
activated (`Activate`, which looks at the generation and the branch but not at
the access), cancelled (`CancelRevoked`, which does not look again), retried or
failed (`Fail`, which also stands for `recover_abandoned`). `authorized_context`
and `is_current` are two reads in a row and one step here: nothing is written
between them, and what either finds stands in the outcomes of the step. One
`Stage` stands for all, since each writes the same kind of status; the ones
after the second check are overwritten by whatever ends the run.

GitHub is asked for the repository and then for its branch; the second answer
stands for both. A replaced name shares the bound of commits and begins with a
public repository. A request that is over forgets what it was told, except what
the properties speak of.

`SignIn` is the OAuth part of `services/auth.py` with its endpoints. The state
is consumed in a transaction of its own; the login reads in one step and writes
in another, and only the unique constraints of the tables stand between two
logins. `RefreshTokens` is the other part, with the cookie of `auth/cookies.py`
and `src/frontend/src/auth` and `api/client.ts` of the frontend: a rotation or
logout takes the row lock in one step and commits in another, and an UPDATE that
revokes a family sees the rows committed when it began and waits for the locked
ones (READ COMMITTED). Two UPDATEs of one family, of which one at least detected
a reuse and holds a row of its own, may deadlock; PostgreSQL aborts one of them,
whichever it is (`DeadlockVictim`). Answers may be lost or late, a tab may load
at any time, and all tabs share the cookie.

`ChatRequests` is `services/rate_limit.py`, `services/chat.py`,
`services/usage.py` and the part of `api/questions.py` around a run. The minute
and the day counter are two increments of two keys, each with its own expiry:
either window may end between them, the day's also while the minute's counts,
and Redis or the database may fail at each call. An exchange stands for the two
rows of its transaction; `at` is the transaction's `now()`. A listing is any
order of the exchanges that agrees with `at`, with the two rows of some of them
swapped (`Rows`), and the endpoint pairs them by one pass over the rows
(`Pairing`).

## 3. Runs

| Run | Checks | What it shows |
|---|---|---|
| `two_workers` | `TypeOK`, `OneWorkerPerRepository`, `AttemptsBounded`, `DeliveryEndsWithJob`, `BusyStatusExplained`, `ServesReaders` | through crashes, failing services and lost wake-ups, as long as live workers heartbeat and recovery does not overlap, leases exclude, attempts are bounded, deliveries end with their jobs, and a busy status has a job behind it or was left by one that `mark_stale` cancelled; indexing implements the repository `QuestionAgent` reads: a version is published with every vector and symbol, and loses them only once it is superseded |
| `lost_leases` | `ActiveIndexConsistent`, `PublishesLikeActiveIndex` | when they do not, the database is still consistent and implements the log |
| `revocation` | `NoStaleActivation` | beside selections and pushes, revocation, expired memberships, listings, branch changes, a vanished public repository and failing enqueues |
| `jobs_settle` | `JobsSettle` | every queued job ends, under `FairSpec` |
| `stuck_refresh` | `NewestRefreshNotRefused` (violated) | finding 1 |
| `extra_attempt` | `AttemptsBounded` (violated) | finding 2 |
| `stale_worker` | `DeletesOnlyInactiveScopes` (violated) | finding 3 |
| `embedding_calls` | `PermitsConserved`, `NoLostWakeup`, `ModelCallsExplained`, `WaitersServed` | loading failures, deadlines, clients that gave up, stops and crashes lose no permit and no wake-up, and never let a request reach a model that is not ready; under `FairSpec` whoever waits for a permit is answered, even if no model call ever ends |
| `serialized_inference` | `InferenceSerialized` (violated) | finding 4 |
| `escaped_outage` | `OutagesRetried` (violated) | finding 5 |
| `requests_settle` | `RequestsTypeOK`; of questions `EvidenceFromActiveIndex`, `CheckedSinceLastCall`; of model calls `CallsSettled`; of sessions `OneLivePerFamily`, `RevocationReachesOlder`, `ReuseExplained`; of the checkout `ReadersHaveWorkspace`, `ParsingReported`; of all `RequestsEnd` | what the provider and the user are given was read from a complete active version and follows a complete check; slots come back and answers are counted; families do not fork and reuse is not found where there is none; no process works in a removed directory; and question, call, page load and job all end |
| `services` | `ServicesTypeOK`; of sign-in `StateOpensOnce`, `GithubColumnAgrees`; of webhooks `SharedGenerationsRaced`, `OpenJobsReported`; of imports `OneOpenRun`, `OvershootExplained`, `RestorationExplained`, `RevocationHolds`; of chat `QuotasHold`, `HistoryExplained`; of listings `RevokedSteadyExplained`, `UsableExplained`, `BranchHasJob`; of refreshes `BuiltFromHead`, `ModeTruthful` | what races cannot break, and for what they can, exactly which race it takes |

A property whose name ends in "Explained" or "Raced" allows an outcome that one
would rather not see, and says which interleaving it takes: anything else that
led there would violate it. The README describes the outcome in section 5.

**Side by side.** The components of `MCRequests` and those of `MCServices` share
no state, so their product would multiply the states and add no behaviour worth
having. A variable `part`, fixed in the initial state, says which of them moves;
the others stay at one initial state, where none of their fair actions is
enabled.

**Bounds.** In the runs of indexing, two jobs are enough for one to supersede,
precede or fail beside another, and for a second index version, hence for the
supersession and cleanup of the first; `MaxVersion` is the number of jobs, so it
never blocks (a job activates at most one version). Two attempts give one retry
and one exhaustion. Two workers give every race of a pair; `extra_attempt` needs
three (two reconcilers and one claimant). Two commits distinguish what was
cloned from what is active; two batches make a half-written scope; two branches
a branch change. Deadlock is not checked: the system rests when no job is left
and nobody asks for one. Jobs, workers and commits are interchangeable, so the
safety runs use their symmetry. TLC cannot use it for liveness: there, one job
is always the first to be created (`jobs_settle`) or to publish
(`requests_settle`), which leaves out nothing but renamings (`FirstJobFirst`).

In `embedding_calls` the four attempts of a call are four requests on one permit
and two threads: a client that has given up leaves its request with the service,
so one may hold the permit while another waits and the model calls of two that
timed out fill the pool. The two violations have two calls of two attempts. Two
load attempts give one retry and one final failure. Calls are never begun twice,
so the system comes to rest and deadlock is not checked.

In `requests_settle` two jobs publish two versions: one to begin with and one
that replaces it, after which the first may be dropped. Two calls allow a call
to return evidence that is carried into the next decision, and into an answer or
the check of another tool; a call that fails before one that returns, or after;
and the end of the loop at its bound. One question suffices, since runs share
nothing but the repository; the proofs are for any number. Commits make no
difference to a run. Two model calls on one slot make one wait while the other
retries; three attempts give a retry that is not the last. Two tabs, two
requests at once and two page loads make every race of a pair of requests with
one cookie. Two entries with a limit of one file are a checkout within the
limit, and one above it.

In `services`, two accounts of each provider, both Google ones with one verified
address and one GitHub user older than identities, make each way to find a user;
three callbacks on two states repeat one of them beside another. Three events of
any kind, delivered twice each, make two pushes around a repository event. Two
users, one name, two GitHub ids behind it, two commits and three requests, with
room for one attachment, make an overshoot, a withdrawal with a restoration, and
a restoration under a job that is open; the second commit comes with another
default branch. Two questions with quotas of one, and two changes of each
window, make a refusal, and an expiry of either window before, between and after
the increments of a question. Three repositories on pages of one, two of which a
listing reads, and two changes make a shifted and a truncated listing. Two files
with three contents (none, and two sizes), one path listed, and limits of two
files and one byte reach each fallback. Users are interchangeable. All these
systems come to rest, so deadlock is not checked.

**Fairness** (`jobs_settle`). The worker loop alternates between the stream and
`reconcile`, so claiming, acknowledging, recovering and enqueueing of a due job
are weakly fair for each worker, and a run that started goes on (`Build` or
`Leave`, whichever is enabled). A dead worker's heartbeat grows old and a retry
delay passes. Nothing is assumed of requests, of faults or of the API's enqueue,
which may never happen. Crashes need no bound of their own: each one costs an
attempt. Weak fairness of a claim is enough because a due job stays due, and its
wake-up is put back by `EnqueueDue` whenever it was acknowledged in vain.

**Fairness** (`embedding_calls`). The deadline of `wait_for` is a timer of the
event loop, so `Deadline` is weakly fair for each request; the transport of the
client answers or times out, and its pause ends, so `ClientStep` is weakly fair
for each call. The model's threads, the loader and the process are free to do
nothing.

**Fairness** (`requests_settle`). Each step of a run is an await of a client,
the provider or the database, all of which have timeouts of their own, so `Step`
is weakly fair for each question. The total timeout, failures and the
repository's changes are not assumed to happen. A page that loads sends its
request, the API serves the requests it has received (a lock is held for one
transaction and released with it) and the browser receives the answer or an
error, so `Refresh`, `Serve` and `Receive` are weakly fair. A model call's HTTP
request ends, a pause ends and a free slot is handed on, so `CallStep` is weakly
fair; that the provider ever succeeds is not assumed. The worker's event loop
goes on, deadlines pass, and a process that has been sent SIGKILL ends; git and
the parser themselves are free to hang.

## 4. What is proved

`TypeCorrect`: `Spec => []TypeOK`. `TypeInv` strengthens `TypeOK` with what a
worker's step may take for granted: a run has a job, an authorized run a target
version, a run past its clone a commit, a dropping run a previous version.

`ActiveIndexCorrect`, `ActivationNeverStale` and `Refinement`: the properties
`ActiveIndexConsistent`, `NoStaleActivation` and `PublishesLikeActiveIndex` for
every value of the constants and every combination of faults, lost leases and
overlapping recoveries included. `ActiveIndexConsistent` is not inductive: it
says nothing of a build that is about to be activated. `BuildInv` adds how far a
build may have come by where its version lies (below the active version nothing
is building or ready; above its successor nothing exists), that a ready build is
counted and validated and its symbols are of its commit, that a build row keeps
the job whose target it is (hence no job publishes twice), and that a worker
drops only versions below the active one. `NextChanges` classifies each action
of `Next` by what it does to the store (`StoreChange`); the invariant is then
proved for one kind of change at a time, and the refinement from the fact that
no change touches job or commit of a published version (`HistoryKept`). The
proofs use `ConstantsAssumption` (null values are not members, `MaxAttempts` is
positive) and nothing else.

`ClientTyped`, `PermitsCorrect`, `WakeupsCorrect`, `ModelCallsCorrect` and
`RetriesCorrect`: the safety properties of `EmbeddingClient` for any finite set
of requests, any limits and any faults. They hold together as one invariant,
`IInv`. The permits are conserved only because a released permit goes to a
request that still waits, so `PermitsConserved` needs `NoLostWakeup`; that the
model is there when a request reaches it needs `ReadyIsWarm` and, for the
loader, `LoaderRetries`; that a retry finds a request nobody has sent needs
`FreshAttempts`. The change of the number of permit holders is counted by lemmas
over constant sets (`Counting`, `HandOver`), then applied to each step of the
semaphore. The assumptions are `LimitsPositive` and `AttemptsPositive`, which
the validators of the two configurations enforce, and `RequestsFinite` and
`RequestsOfCalls`, which say what a request is.

`RunsTyped`, `EvidenceCorrect` and `ChecksCorrect`: `TypeOK`,
`EvidenceFromActiveIndex` and `CheckedSinceLastCall` for any number of
questions, jobs and calls and any faults. The invariant is `RunInv`. Torn
evidence by itself is harmless as long as it is seen to be old, so it says that
a run which holds torn evidence has a version below the active one; this is kept
because only superseded versions are dropped and the active version only grows,
and a check that finds the run's version active therefore finds whole evidence
only. It also says what each step of a check has seen so far, which a change of
the repository cannot take back (`SeeingMore`), and that a run in its loop has
room for one more step in its trace. A step of a run is proved from `RunOK` of
the record it writes (`RunStep`), a step of the repository from the growth of
`published` (`RepositoryStep`). The assumption is `MaxCallsPositive`.

`OneWorkerAtATime`, `AttemptsAreBounded`, `DeliveriesEndWithJobs` and
`ActiveVectorsAreComplete`: what holds of leases, attempts, deliveries and
vectors under `LeasesAreKept`, which says that the faults `lease` and `overlap`
do not occur (findings 2 and 3 are what happens when they do); crashes, lost
wake-ups, failing services, revocations and listings may. The invariant
`WorkInv` adds to `SafetyInv` that at most one job is running and that a process
at work holds its lease, fresh, and knows its attempt (`LeaseInv`): that it is
fresh is what keeps a recovery from taking the job away, and that the attempt
agrees is what lets a failure be charged to it. `RunOK` says what a run has seen
to by each of its steps: once it has prepared a build it works on the next
version, once it has validated the vectors its scope is complete, and the scope
it cleans up after a failure is not active. Completeness of the active vectors
follows since nobody else writes or drops its scope meanwhile.

`SessionsTyped`, `FamiliesDoNotFork`, `RevocationComplete` and `NoFalseReuse`:
for any numbers of tabs, requests and loads. `SessionsInv` says that every row
but the last one of a family has been rotated (`FamiliesOK`), that a token under
rotation is live and one request's, and that an UPDATE under way sees its family
from the first row on (`LocksOK`), that the requests which carry a token are
counted in `presented` (`CarriersOK`), and that a family revoked for reuse has a
token that was carried twice (`RevocationsOK`). The row lock is what makes
`LocksOK` inductive: without it two rotations of one token could both commit.

`RefreshBuildsHead`: whatever the comparison left out and whatever points were
lost, the new version is made of the commit, since vectors are read back only
for contents that it has. `LeaversUnusable`, `RevocationsExplained` and
`BranchesHaveJobs`, of listings: the invariants say that a repository that has
left and is still usable has a webhook pending or was restored too late
(`LeaversKnown`), and that a page read is missing only what had moved in front
of it (`PagesOK`), which is shown by following the position of a repository from
page to page. `SharedWork`, `RestorationsExplained` and `WithdrawalHolds`, of
public imports: `SingleRuns` uses the advisory lock (one attachment at a time
commits for a repository, `AttachmentsOK`) and says that an open run is the last
one of its repository; `ShownOK` says that what a request acts on was shown to
it. For a restoration, an attachment under the lock has either noted the open
run as awaited or found none and creates one; since the restored row says
"revoked" only while that run is the last (`Awaited`), and a run about to write
"revoked" began on a row that was withdrawn (`CancelsOK`), each step of a worker
keeps what `RestorationExplained` says (`RowStep`).

`OneLoginPerState`, `LinksKeepUsers`, `ColumnsAgree` and
`IdentitiesAttachedOnce`, of sign-in: a callback that has gone on has used its
state up and, once resolved, knows the user the identity belongs to
(`CallbacksOK`); GitHub accounts stand for one user each (`ColumnsOK`).
`EventsOnce`, `JobsReported` and `GenerationsRaced`, of webhooks: a delivery
that has done something is recorded (`DeliveriesOK`), what a handler that has
read the repository may still find (`ReadingOK`), and that generations only grow
along the jobs unless one was read early (`GenerationsOK`). `LinkKeepsUser`,
`IdentitiesStay` and `EventsApplyOnce` are stated for their proofs and checked
by no run.

`ReadersServed`: `ServesReaders` under `LeasesAreKept`, the refinement that
joins the proofs of indexing to those of questions. `WorkInv` gives what is
published: an activation finds every vector (`ActiveVectorsAreComplete`) and
every symbol (`ActiveIndexCorrect`) of the commit in place. That what was
dropped is not whole again needs more than an invariant: `NextScopes` says of
each action which scope it writes and why that scope is not an active one,
`SymbolsMove` the same of the rows, and `KeptMoves` and `RowMoves` turn both
into steps of `QuestionAgent`. The proof attempt corrected the model of
questions: a revocation closes an index to questions without a change of access
being seen first, a step `QuestionAgent` did not have and now does
(`CloseIndex`). The run `two_workers` checks the refinement while access stays;
the theorem needs no such limit.

`EndedJobsRest`: `EndedJobsStay` whenever recoveries do not overlap, so also
when leases are lost: an ended job is never claimed, retried or ended again and
keeps its commit. Each transaction that writes a job asks for its lease, for a
running row or for a waiting one (`WorkRests`, `EndRests`, `RequestRests`),
except the COMMIT of `recover_abandoned`, and a worker reaches that one only
through an overlapping SELECT (`NoRecovery`). With the overlap it fails: a job
that has ended meanwhile is queued again, with the consequence of finding 2. No
run lists it.

`BusyExplained`: under every fault, with `TypeInv`. A step ends with an idle
status, with a job behind it, or with neither moved (`StatusMoves`); `NextMoves`
shows that of every action. It matters that the status and the job are always
written by one transaction.

`DeletionsInactive`: `DeletesOnlyInactiveScopes` under `LeasesAreKept`, the
statement of `docs/DECISIONS.md` that finding 3 refutes without this assumption.
By `NextScopes` a step that changes the vectors leaves the store alone and
touches one scope: it writes that of the next version or deletes one that is not
active.

`ProviderTyped` and `CallsCorrect`, of calls to the language model.
`SlotsConserved` alone is not inductive: that a slot which comes back may be
handed to the head of the queue needs that the queue names each waiting call
once and no other (`QueueOK`), also after a cancellation has taken one out of
its middle. `CallOK` relates a call's attempts to the requests the provider has
worked on and to what was metered of them, by the step the call is in.

`AnalysisTyped`, `WorkspaceCorrect`, `NothingLeft` and `ParsingCorrect`, of a
job's checkout. `ProcessesAwaited` says at which steps of the worker git and the
child may run: the workspace outlives both since every way out of those steps
waits. `PipeOK` bounds what is in the pipe by how far the child has come,
`CountsOK` adds the files still to do to those counted, and `QuietOK` says what
may have happened between the poll and `is_alive`, which is what
`ParserFailureExplained` rests on.

`QuotasCorrect`, `TranscriptCleared` and `ChatTyped`, of a user's questions. A
counter is the number of questions counted in its window (`MinutesOK`,
`DaysOK`), and the n-th of a window got the answer n; so at most the quota's
number came through, and one that was refused has the quota's number before it.
`TranscriptOK` keeps to each exchange its session, which is why nothing that was
under way reappears after the transcript was cleared.

`HistoryCorrect`: `HistoryExplained`, for any number of questions and whatever
order the rows of an exchange come back in. The pairs are computed by a
recursive function over the rows, whose values are obtained from the library's
theorem on well-founded relations, in a form that speaks of sets instead of
predicates (`Induction`): `PairingExists` shows that the function has the values
its equation asks for, and `PairingSteps` that each is the step before it with
one row more. `PairedOK` is then kept by each row: every pair was made of two
neighbours, a question and then an answer, so no message is in two of them. In
the rows of a listing the two messages of an exchange are neighbours too
(`RowsOf`), so a question followed by a foreign answer is the second of its
exchange, which was swapped (`Neighbours`). `ListingExists` shows that there is
a listing to speak of.

`RefreshTyped` and `ModesTruthful`, of a refresh. `ModeInv` follows the plan
from the comparison to the row: an incremental plan is within the limits when it
is made and again once sizes are known (`PlanOK`), and a row that still says
incremental has had every vector of an unchanged file read back (`RecordedOK`);
so what is left to embed is of changed files. `ListingTyped` follows from
`ListingInv`, once the granted repositories are counted (`GrantsCounted`).
`ImportTyped` and `OvershootOnlyBeside`: `LimitsOK` says of a user none of whose
attachments began beside another that at most one is under way, and that there
is room for it if it is new; the locks are not of the user, so without that
hypothesis it fails.

`SignInTyped` and `WebhooksTyped` are the type invariants of these two.
`RequestsTyped` and `ServicesTyped` are those of the compositions that the runs
`requests_settle` and `services` check: a step of `MCNext` is one of one
component while the others rest, so a behaviour of the composition is one of
each of them, and each theorem above holds of it.

The assumptions are the named ones of the modules: bounds are natural numbers,
limits that the code validates are positive, null values are no members, sets of
files, entries and repositories are finite.

Every safety property that a passing run checks is stated by a theorem. Liveness
(`JobsSettle`, `WaitersServed`, `RequestsEnd`) is model-checked only, since
TLAPS handles neither ENABLED nor fairness here. No module with a theorem needs
a RECURSIVE operator.

## 5. Findings

1. `stuck_refresh` (`services/indexing_jobs.py:416`). A build row keeps the job
   that prepared it. When that job fails or is superseded after preparing, every
   later job has the same target version and `prepare_build` refuses it with a
   final error. `docs/DECISIONS.md:394`: "A newer push or manual refresh
   deterministically supersedes older work."
2. `extra_attempt` (`services/indexing_jobs.py:971`). Two overlapping
   `recover_abandoned` transactions give a job one attempt too many, against
   `docs/OPERATIONS.md:80`.
3. `stale_worker` (`indexing/worker.py:600`). A worker that lost its lease after
   `can_cleanup_inactive` deletes a scope that is active by then, against
   `docs/DECISIONS.md:401`.
4. `serialized_inference` (`src/embedding_service/app/application.py:281`). The
   semaphore is left at the deadline while the thread of the model call goes on:
   with `max_concurrent_requests = 1` two calls run at once, against the comment
   at `src/embedding_service/app/config.py:51`.
5. `escaped_outage` (`embeddings/client.py:193`). A connection that breaks while
   the answer is awaited ends the first attempt with an exception that is
   neither retried nor translated, against `docs/OPERATIONS.md:92`.

### Other outcomes the models contain

No doc contradicts these as directly, or their property says which race it
takes; a maintainer should know of them.

- A withdrawn repository gets `indexing_status = access_revoked`; `_attach`
  restores its access but leaves that status when it creates no job, so
  questions go on being refused (`rag/service.py:241`, `agent/service.py:417`)
  until a later import or refresh creates a job. It creates none when the index
  is already current, which `RestorationExplained` leaves aside, and when a job
  is still open. That job may have found the repository withdrawn before
  (`authorized_context`): `cancel_revoked` then writes the status without
  looking again (`services/indexing_jobs.py:862`) and nothing is left that would
  build an index. Or it is cancelled by `mark_stale`, which leaves the status
  alone. `RestorationExplained` says that these are the only ways.
- A child of the parser that ends between a poll and `is_alive`
  (`indexing/analyzer.py:420`) is reported as the final
  `internal_parser_failure` with its result still in the pipe
  (`ParserFailureExplained`). `recv` and the walk that sums sizes of the
  workspace run on the event loop, which the model does not time.
- `mark_stale` cancels a job and leaves `indexing_status` busy
  (`services/indexing_jobs.py:284`), so the frontend polls on
  (`BusyStatusExplained`).
- A delivery left retryable after its job has ended is never looked at again
  (`docs/OPERATIONS.md:339`); what `OpenJobsReported` excludes is the opposite.
- Both messages of an exchange share their transaction's `now()`, and
  `services/chat.py:57` orders by it alone, against the pairs of
  `docs/DECISIONS.md:549`: a listing may show a question with the answer of
  another one (`HistoryExplained` says when).
- A rotation that commits while an UPDATE revoking its family is under way
  leaves its new token live (`docs/DECISIONS.md:153`; `RevocationReachesOlder`
  is what remains true). Two tabs that load at once with one cookie look like
  reuse (`ReuseExplained`).
- Two imports of one user may exceed the limit by each seeing room
  (`OvershootExplained`); a repository event may give a generation twice
  (`SharedGenerationsRaced`); a listing may revoke a repository that was there
  all along (`RevokedSteadyExplained`), restore one that has left
  (`UsableExplained`), or write a branch for which no job is then created
  (`BranchHasJob`).
- A refresh requested while a job for an older commit is open is joined to that
  job.

## 6. Not modelled, and the plan

Not modelled: ranking, prompts and citations of retrieval (transformations of
data without state), what is parsed out of a file, its chunks and its call edges
(the same), the pending list of the Redis consumer group and its idle times (the
worker relies on none of their detail: wake-ups may be lost, repeated and late),
access tokens (signed, without a row), encryption, signatures and validation of
payloads, the frontend's rendering and polling, configuration, logging, error
texts, migrations and deployment. One hazard is covered by no property: a
superseded scope whose deletion failed is left pending and nothing retries it
(`indexing/worker.py:641`); it costs space and is never read.

What could come next:

1. `JobQueue`: the consumer group behind `wakeups`, refining a set of wake-ups.
2. `CallGraph` and `ChunkWindows`: the pure functions against a reference
   definition.
3. A composition of `WebhookDeliveries` with `IndexingJobs`, to carry a push to
   the version it publishes.
