-------------------------- MODULE EmbeddingService --------------------------
(***************************************************************************)
(* The private embedding service: one process with one event loop, one     *)
(* model loaded and warmed in the background, an asyncio semaphore that    *)
(* admits MaxConcurrent requests, and the event loop's thread pool, where  *)
(* the model runs.  A thread cannot be cancelled: when the deadline of a   *)
(* request passes, its permit is returned and its thread goes on.          *)
(*                                                                         *)
(* A request is received once and ends with one answer; which documents it *)
(* carries is abstracted to the answer the validation gives.               *)
(***************************************************************************)
EXTENDS Naturals, Sequences, FiniteSets

CONSTANTS
    Requests,        \* HTTP requests to /v1/embeddings
    MaxConcurrent,   \* max_concurrent_requests
    PoolSize,        \* threads of the event loop's default executor
    LoadAttempts,    \* model_load_max_attempts
    Faults           \* the faults that occur: {} or {"crash"}

ASSUME RequestsFinite == IsFiniteSet(Requests)
ASSUME LimitsPositive ==
    /\ MaxConcurrent \in Nat \ {0}
    /\ PoolSize \in Nat \ {0}
    /\ LoadAttempts \in Nat \ {0}

VARIABLES
    process,   \* "up" or "stopped"
    status,    \* ModelRuntime.status
    loader,    \* the task _load_and_warm: what it awaits and its attempt
    loaded,    \* FastEmbedModel._model is not None
    request,   \* where each request is, or how it was answered
    waiters,   \* the semaphore's queue
    free,      \* the semaphore's value
    thread     \* the pool's work item of each request

serviceVars == <<process, status, loader, loaded, request, waiters, free, thread>>
loading == <<status, loader, loaded>>

(* 200; 503; 413 or 422; 401; 504; 500; and no answer: the process died.   *)
Answers == {"ok", "not_ready", "rejected", "unauthorized", "timed_out", "failed", "lost"}

ServiceTypeOK ==
    /\ process \in {"up", "stopped"}
    /\ status \in {"loading", "ready", "failed"}
    /\ loader \in [phase : {"load", "warm", "backoff", "done"}, attempt : 1..LoadAttempts]
    /\ loaded \in BOOLEAN
    /\ request \in [Requests -> {"unsent", "sent", "waiting", "embedding"} \cup Answers]
    /\ waiters \in Seq(Requests)
    /\ free \in 0..MaxConcurrent
    /\ thread \in [Requests -> {"none", "queued", "running"}]

(* A fresh process: lifespan has created the loader.                       *)
Started ==
    /\ process' = "up"
    /\ status' = "loading"
    /\ loader' = [phase |-> "load", attempt |-> 1]
    /\ loaded' = FALSE

ServiceInit ==
    /\ process = "up"
    /\ status = "loading"
    /\ loader = [phase |-> "load", attempt |-> 1]
    /\ loaded = FALSE
    /\ request = [r \in Requests |-> "unsent"]
    /\ waiters = << >>
    /\ free = MaxConcurrent
    /\ thread = [r \in Requests |-> "none"]

-----------------------------------------------------------------------------
(* Loading and warming.  Requests are refused until the status is "ready", *)
(* so the loader never competes with them for the pool.                    *)

LoadModel_Ready ==
    /\ loader.phase = "load" /\ process = "up"
    /\ loaded' = TRUE /\ status' = "ready"
    /\ loader' = [loader EXCEPT !.phase = "warm"]
    /\ UNCHANGED <<process, request, waiters, free, thread>>
LoadModel ==
    /\ loader.phase = "load" /\ process = "up"
    /\ loaded' = TRUE
    /\ loader' = [loader EXCEPT !.phase = "warm"]
    /\ UNCHANGED <<process, status, request, waiters, free, thread>>

WarmModel ==
    /\ loader.phase = "warm" /\ process = "up"
    /\ status' = "ready"
    /\ loader' = [loader EXCEPT !.phase = "done"]
    /\ UNCHANGED <<process, loaded, request, waiters, free, thread>>

(* Downloading, loading or the warm-up raises: the last attempt gives up.  *)
LoadFails ==
    /\ loader.phase \in {"load", "warm"} /\ process = "up"
    /\ \/ /\ loader.attempt = LoadAttempts
          /\ status' = "failed"
          /\ loader' = [loader EXCEPT !.phase = "done"]
       \/ /\ loader.attempt < LoadAttempts
          /\ loader' = [loader EXCEPT !.phase = "backoff"]
          /\ UNCHANGED status
    /\ UNCHANGED <<process, loaded, request, waiters, free, thread>>

LoadAgain ==
    /\ loader.phase = "backoff" /\ process = "up"
    /\ loader' = [phase |-> "load", attempt |-> loader.attempt + 1]
    /\ UNCHANGED <<process, status, loaded, request, waiters, free, thread>>

-----------------------------------------------------------------------------
(* Requests                                                                *)

(* The handler's checks, in its order: the credential, the model's         *)
(* readiness, the limits of the payload.                                   *)
Refusal(verdict) ==
    CASE verdict = "unauthorized" -> "unauthorized"
      [] verdict # "unauthorized" /\ status # "ready" -> "not_ready"
      [] OTHER -> "rejected"

Refuse(r, verdict) ==
    /\ process = "up" /\ request[r] = "sent"
    /\ verdict # "valid" \/ status # "ready"
    /\ request' = [request EXCEPT ![r] = Refusal(verdict)]
    /\ UNCHANGED <<process, loading, waiters, free, thread>>

(* asyncio.Semaphore.acquire: at once if a permit is free and nobody waits, *)
(* otherwise at the end of the queue.  Holding the permit, the handler     *)
(* submits the model call to the pool.                                     *)
Admit(r) ==
    /\ process = "up" /\ request[r] = "sent" /\ status = "ready"
    /\ \/ /\ free > 0 /\ waiters = << >>
          /\ free' = free - 1
          /\ request' = [request EXCEPT ![r] = "embedding"]
          /\ thread' = [thread EXCEPT ![r] = "queued"]
          /\ UNCHANGED waiters
       \/ /\ free = 0 \/ waiters # << >>
          /\ waiters' = Append(waiters, r)
          /\ request' = [request EXCEPT ![r] = "waiting"]
          /\ UNCHANGED <<free, thread>>
    /\ UNCHANGED <<process, loading>>

(* Leaving "async with semaphore" with an answer: release hands the permit  *)
(* to the first waiter, or returns it.                                     *)
ReleaseTo(next, r, answer, item) ==
    /\ request' = [request EXCEPT ![r] = answer, ![next] = "embedding"]
    /\ thread' = [thread EXCEPT ![r] = item, ![next] = "queued"]
    /\ waiters' = Tail(waiters)
    /\ UNCHANGED free

Release_NoHandOver(r, answer, item) ==
    /\ free' = free + 1
    /\ request' = [request EXCEPT ![r] = answer]
    /\ thread' = [thread EXCEPT ![r] = item]
    /\ UNCHANGED waiters
Release(r, answer, item) ==
    \/ waiters # << >> /\ ReleaseTo(Head(waiters), r, answer, item)
    \/ /\ waiters = << >>
       /\ free' = free + 1
       /\ request' = [request EXCEPT ![r] = answer]
       /\ thread' = [thread EXCEPT ![r] = item]
       /\ UNCHANGED waiters

Running == {r \in Requests : thread[r] = "running"}

StartThread(r) ==
    /\ process = "up" /\ thread[r] = "queued"
    /\ Cardinality(Running) < PoolSize
    /\ thread' = [thread EXCEPT ![r] = "running"]
    /\ UNCHANGED <<process, loading, request, waiters, free>>

(* _validated_embed returns vectors, finds a text too long, or raises.     *)
EndThread(r, answer) ==
    /\ process = "up" /\ thread[r] = "running"
    /\ request[r] = "embedding"
    /\ Release(r, answer, "none")
    /\ UNCHANGED <<process, loading>>

(* The call of a request that has timed out ends; nobody awaits it.        *)
EndAbandonedThread(r) ==
    /\ thread[r] = "running" /\ request[r] # "embedding"
    /\ thread' = [thread EXCEPT ![r] = "none"]
    /\ UNCHANGED <<process, loading, request, waiters, free>>

(* wait_for cancels the work item: one that has not started never does,    *)
(* one that has started goes on.                                           *)
Deadline_KeepsPermit(r) ==
    /\ process = "up" /\ request[r] = "embedding"
    /\ request' = [request EXCEPT ![r] = "timed_out"]
    /\ UNCHANGED <<process, loading, waiters, free, thread>>
Deadline_Running(r) ==
    /\ process = "up" /\ request[r] = "embedding" /\ thread[r] = "running"
    /\ Release(r, "timed_out", "running")
    /\ UNCHANGED <<process, loading>>
Deadline(r) ==
    /\ process = "up" /\ request[r] = "embedding"
    /\ Release(r, "timed_out", IF thread[r] = "running" THEN "running" ELSE "none")
    /\ UNCHANGED <<process, loading>>

-----------------------------------------------------------------------------
(* The process                                                             *)

InHandler == {r \in Requests : request[r] \in {"waiting", "embedding"}}

(* The server lets its handlers finish; lifespan then cancels the loader   *)
(* and closes the model.                                                   *)
Stop ==
    /\ process = "up" /\ InHandler = {}
    /\ process' = "stopped"
    /\ loaded' = FALSE
    /\ UNCHANGED <<status, loader, request, waiters, free, thread>>

(* The interpreter joins the pool's threads before it exits.               *)
Restart ==
    /\ process = "stopped" /\ Running = {}
    /\ Started
    /\ UNCHANGED <<request, waiters, free, thread>>

(* The process is killed (memory, the ONNX runtime, the platform) and      *)
(* started again.                                                          *)
Crash ==
    /\ "crash" \in Faults
    /\ Started
    /\ request' = [r \in Requests |-> IF r \in InHandler THEN "lost" ELSE request[r]]
    /\ waiters' = << >>
    /\ free' = MaxConcurrent
    /\ thread' = [r \in Requests |-> "none"]

ServiceNext ==
    \/ LoadModel \/ WarmModel \/ LoadFails \/ LoadAgain
    \/ \E r \in Requests, verdict \in {"valid", "invalid", "unauthorized"} : Refuse(r, verdict)
    \/ \E r \in Requests : Admit(r)
    \/ \E r \in Requests : StartThread(r)
    \/ \E r \in Requests, answer \in {"ok", "rejected", "failed"} : EndThread(r, answer)
    \/ \E r \in Requests : EndAbandonedThread(r)
    \/ \E r \in Requests : Deadline(r)
    \/ Stop \/ Restart \/ Crash

=============================================================================
