--------------------------- MODULE EmbeddingClient ---------------------------
(***************************************************************************)
(* EmbeddingServiceClient in the worker and the API, and the service it    *)
(* calls.  A call embeds one batch: up to MaxAttempts requests, each with  *)
(* a read timeout of the same length as the service's own deadline, so     *)
(* that a client may give up on a request the service goes on with.        *)
(*                                                                         *)
(* A request is a pair of its call and the number of the attempt.          *)
(***************************************************************************)
EXTENDS EmbeddingService

CONSTANTS
    Calls,           \* _request_with_retry, once per batch
    MaxAttempts      \* embedding_max_attempts

ASSUME AttemptsPositive == MaxAttempts \in Nat \ {0}
ASSUME RequestsOfCalls == Requests = Calls \X (1..MaxAttempts)

VARIABLE call        \* what each call does, and its attempt

vars == <<serviceVars, call>>

(* How a call ends: with vectors, with one of the errors of the client, or  *)
(* with an exception of the transport that the client does not catch.      *)
RetryableErrors == {"unavailable", "not_ready", "failure"}
Outcomes == {"vectors", "auth_failed", "input_rejected", "invalid_response", "escaped"}
            \cup RetryableErrors

TypeOK ==
    /\ ServiceTypeOK
    /\ call \in [Calls -> [at : {"idle", "posted", "backoff"} \cup Outcomes,
                           attempt : 1..MaxAttempts]]

Init ==
    /\ ServiceInit
    /\ call = [c \in Calls |-> [at |-> "idle", attempt |-> 1]]

-----------------------------------------------------------------------------

Sent(c) == <<c, call[c].attempt>>

Post(c, attempt) ==
    /\ call' = [call EXCEPT ![c] = [at |-> "posted", attempt |-> attempt]]
    /\ request' = [request EXCEPT ![<<c, attempt>>] = "sent"]
    /\ UNCHANGED <<process, loading, waiters, free, thread>>

Begin(c) == call[c].at = "idle" /\ Post(c, 1)

PostAgain(c) == call[c].at = "backoff" /\ Post(c, call[c].attempt + 1)

Ends(c, outcome) ==
    /\ call' = [call EXCEPT ![c].at = outcome]
    /\ UNCHANGED serviceVars

(* Another attempt after a pause, or the error the last one stands for.    *)
RetryOr(c, outcome) ==
    \/ call[c].attempt < MaxAttempts /\ Ends(c, "backoff")
    \/ call[c].attempt = MaxAttempts /\ Ends(c, outcome)

(* ConnectError and TimeoutException are caught: the service does not      *)
(* answer in time, or its process is not there.                            *)
NoAnswer(c) ==
    /\ call[c].at = "posted"
    /\ request[Sent(c)] \notin Answers
    /\ RetryOr(c, "unavailable")

(* The connection breaks while the answer is awaited: ReadError and        *)
(* RemoteProtocolError are neither.                                        *)
ConnectionBroken(c) ==
    /\ call[c].at = "posted"
    /\ request[Sent(c)] = "lost"
    /\ Ends(c, "escaped")

ErrorOf(answer) ==
    CASE answer = "not_ready" -> "not_ready"
      [] answer \in {"timed_out", "failed"} -> "failure"
      [] answer = "unauthorized" -> "auth_failed"
      [] answer = "rejected" -> "input_rejected"

RetryableAnswers == {"not_ready", "timed_out", "failed"}

(* 200: the body is validated against the batch and the model's identity.  *)
TakeVectors(c) ==
    /\ call[c].at = "posted"
    /\ request[Sent(c)] = "ok"
    /\ Ends(c, "vectors") \/ Ends(c, "invalid_response")

TakeError(c) ==
    /\ call[c].at = "posted"
    /\ LET answer == request[Sent(c)] IN
        \/ answer \in RetryableAnswers /\ RetryOr(c, ErrorOf(answer))
        \/ answer \in {"unauthorized", "rejected"} /\ Ends(c, ErrorOf(answer))

ClientStep(c) ==
    \/ PostAgain(c) \/ NoAnswer(c) \/ ConnectionBroken(c)
    \/ TakeVectors(c) \/ TakeError(c)

Next ==
    \/ ServiceNext /\ UNCHANGED call
    \/ \E c \in Calls : Begin(c) \/ ClientStep(c)

Spec == Init /\ [][Next]_vars

(* wait_for's timer fires, and the client's transport always answers or     *)
(* times out.  Nothing is assumed of the model's threads or of the loader. *)
FairSpec ==
    /\ Spec
    /\ \A r \in Requests : WF_vars(Deadline(r) /\ UNCHANGED call)
    /\ \A c \in Calls : WF_vars(ClientStep(c))

-----------------------------------------------------------------------------
(* Properties                                                              *)

(* Every permit is free or held by one request in the body of the          *)
(* semaphore, through deadlines, hand-overs and crashes.                   *)
PermitsConserved ==
    free + Cardinality({r \in Requests : request[r] = "embedding"}) = MaxConcurrent

(* A request never waits while a permit is free, the queue holds exactly   *)
(* the waiting requests, each once: no wake-up of release is lost.         *)
NoLostWakeup ==
    /\ waiters # << >> => free = 0
    /\ \A r \in Requests : request[r] = "waiting" <=> \E i \in DOMAIN waiters : waiters[i] = r
    /\ \A i, j \in DOMAIN waiters : waiters[i] = waiters[j] => i = j

(* The model is only ever called by a request while it is loaded and has   *)
(* passed the warm-up, and only a request in the handler waits for a slot  *)
(* of the pool; the calls still running after their request are those of   *)
(* requests that timed out.                                                *)
ModelCallsExplained ==
    \A r \in Requests :
        /\ request[r] \in {"waiting", "embedding"} => 
               process = "up" /\ status = "ready" /\ loaded /\ loader.phase = "done"
        /\ thread[r] = "queued" => request[r] = "embedding"
        /\ thread[r] = "running" => request[r] \in {"embedding", "timed_out"}

(* A call that reports an error worth retrying has used all its attempts,  *)
(* and one that reports vectors read them from its newest request.         *)
RetriesExhausted ==
    \A c \in Calls :
        /\ call[c].at \in RetryableErrors => call[c].attempt = MaxAttempts
        /\ call[c].at = "vectors" => request[Sent(c)] = "ok"

(* Waiting for the semaphore has no deadline of its own; every request     *)
(* that waits is answered all the same, even if no model call ever ends.   *)
WaitersServed ==
    \A r \in Requests : request[r] = "waiting" ~> request[r] \in Answers

(* src/embedding_service/app/config.py:51: one ONNX session backs the       *)
(* process, two batches at once have crashed it, so that inference is      *)
(* fully serialized by default: no more calls run than max_concurrent.     *)
InferenceSerialized == Cardinality(Running) <= MaxConcurrent

(* src/docs/OPERATIONS.md:92: embedding transport outages follow the       *)
(* bounded retry policy, so that no exception of the transport escapes     *)
(* while attempts are left.                                                *)
OutagesRetried ==
    \A c \in Calls : call[c].at = "escaped" => call[c].attempt = MaxAttempts
=============================================================================
