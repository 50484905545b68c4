----------------------------- MODULE ProviderCalls -----------------------------
(***************************************************************************)
(* Calls of the hosted language model: the OpenAI and the Gemini client    *)
(* share their retry loop, their semaphore and the order in which they     *)
(* take an answer apart.  A call holds its slot through its retries and    *)
(* the pauses between them, its task may be cancelled at any await by the  *)
(* timeouts of the agent, and the tokens it has used are reported only     *)
(* from an answer that could be read.                                      *)
(***************************************************************************)
EXTENDS Naturals, Sequences, FiniteSets

CONSTANTS
    ModelCalls,          \* calls of generate or decide
    ModelSlots,          \* llm_max_concurrent_requests
    ModelAttempts        \* llm_max_attempts

ASSUME ModelLimitsPositive == ModelSlots \in Nat \ {0} /\ ModelAttempts \in Nat \ {0}

VARIABLES
    call,        \* each call's task
    queue,       \* tasks that wait for a slot, in order
    slots,       \* the semaphore's value
    metered,     \* answers whose tokens each accumulator has counted
    billed       \* auxiliary: requests of each call that the provider has worked on

provider == <<call, queue, slots, metered, billed>>

Failures == {"none", "connect", "timeout", "transient", "denied", "rejected", "transport", "malformed",
             "unusable"}

CallRow ==
    [pc : {"idle", "waiting", "posting", "pausing", "received", "decided", "failed", "cancelled"},
     attempt : 0 .. ModelAttempts, failure : Failures, retryable : BOOLEAN]

ProviderTypeOK ==
    /\ call \in [ModelCalls -> CallRow]
    /\ queue \in Seq(ModelCalls) /\ slots \in 0 .. ModelSlots
    /\ metered \in [ModelCalls -> 0 .. 1]
    /\ billed \in [ModelCalls -> 0 .. ModelAttempts]
    /\ \A c \in ModelCalls : call[c].pc = "waiting" <=> \E i \in DOMAIN queue : queue[i] = c

ProviderInit ==
    /\ call = [c \in ModelCalls |-> [pc |-> "idle", attempt |-> 0, failure |-> "none",
                                     retryable |-> FALSE]]
    /\ queue = <<>> /\ slots = ModelSlots
    /\ metered = [c \in ModelCalls |-> 0] /\ billed = [c \in ModelCalls |-> 0]

-----------------------------------------------------------------------------
Turns(c, pc) == call' = [call EXCEPT ![c].pc = pc]

Fails(c, failure, retryable) ==
    call' = [call EXCEPT ![c].pc = "failed", ![c].failure = failure, ![c].retryable = retryable]

Decision(c) ==
    /\ call[c].pc = "idle"
    /\ Turns(c, "waiting") /\ queue' = Append(queue, c)
    /\ UNCHANGED <<slots, metered, billed>>

Acquire(c) ==
    /\ slots > 0 /\ queue # <<>> /\ c = Head(queue)
    /\ queue' = Tail(queue) /\ slots' = slots - 1
    /\ call' = [call EXCEPT ![c].pc = "posting", ![c].attempt = 1]
    /\ UNCHANGED <<metered, billed>>

(* The provider may have worked on a request whose answer never arrives.   *)
Worked(c, maybe) ==
    \/ "yes" \in maybe /\ billed' = [billed EXCEPT ![c] = @ + 1]
    \/ "no" \in maybe /\ UNCHANGED billed

Answered(c) ==
    /\ call[c].pc = "posting"
    /\ Turns(c, "received") /\ slots' = slots + 1
    /\ Worked(c, {"yes"})
    /\ UNCHANGED <<queue, metered>>

(* ConnectError, TimeoutException and the retryable status codes.          *)
RetriedFailures == {"connect", "timeout", "transient"}

LastAttempt(c) == call[c].attempt = ModelAttempts

Pause(c, failure) ==
    /\ call[c].pc = "posting" /\ failure \in RetriedFailures
    /\ ~LastAttempt(c)
    /\ call' = [call EXCEPT ![c].pc = "pausing", ![c].failure = failure]
    /\ Worked(c, IF failure = "timeout" THEN {"yes", "no"} ELSE {"no"})
    /\ UNCHANGED <<queue, slots, metered>>

Retry(c) ==
    /\ call[c].pc = "pausing"
    /\ call' = [call EXCEPT ![c].pc = "posting", ![c].attempt = @ + 1]
    /\ UNCHANGED <<queue, slots, metered, billed>>

(* The last attempt fails, or the first that is not worth another: other   *)
(* status codes and, escaping as it is, any other transport error.         *)
GivesUp(c, failure) ==
    /\ call[c].pc = "posting"
    /\ \/ failure \in RetriedFailures /\ LastAttempt(c)
       \/ failure \in {"denied", "rejected", "transport"}
    /\ Fails(c, failure, failure \in RetriedFailures) /\ slots' = slots + 1
    /\ Worked(c, IF failure \in {"timeout", "transport"} THEN {"yes", "no"} ELSE {"no"})
    /\ UNCHANGED <<queue, metered>>

(* Without the slot: the envelope is read, its tokens are reported, and    *)
(* then what the model said is validated.                                  *)
Malformed(c) ==
    /\ call[c].pc = "received"
    /\ Fails(c, "malformed", FALSE)
    /\ UNCHANGED <<queue, slots, metered, billed>>

Report(c) == metered' = [metered EXCEPT ![c] = @ + 1]

Decided(c) ==
    /\ call[c].pc = "received" /\ Report(c)
    /\ call' = [call EXCEPT ![c].pc = "decided", ![c].failure = "none"]
    /\ UNCHANGED <<queue, slots, billed>>

Unusable(c) ==
    /\ call[c].pc = "received" /\ Report(c)
    /\ Fails(c, "unusable", FALSE)
    /\ UNCHANGED <<queue, slots, billed>>

(* agent_provider_timeout_seconds, or the timeout of the whole run.        *)
Holds_Posting(c) == call[c].pc = "posting"
Holds(c) == call[c].pc \in {"posting", "pausing"}

Without(i) == [k \in 1 .. Len(queue) - 1 |-> queue[IF k < i THEN k ELSE k + 1]]

Cancel(c) ==
    /\ call[c].pc \in {"waiting", "posting", "pausing"}
    /\ Turns(c, "cancelled")
    /\ \/ call[c].pc # "waiting" /\ UNCHANGED queue
       \/ \E i \in DOMAIN queue : queue[i] = c /\ queue' = Without(i)
    /\ slots' = IF Holds(c) THEN slots + 1 ELSE slots
    /\ Worked(c, IF call[c].pc = "posting" THEN {"yes", "no"} ELSE {"no"})
    /\ UNCHANGED metered

-----------------------------------------------------------------------------
CallStep(c) ==
    \/ Acquire(c) \/ Answered(c) \/ Retry(c)
    \/ \E failure \in Failures : Pause(c, failure) \/ GivesUp(c, failure)
    \/ Malformed(c) \/ Decided(c) \/ Unusable(c)

ProviderNext == \E c \in ModelCalls : Decision(c) \/ CallStep(c) \/ Cancel(c)

(* httpx ends every request, and the event loop runs what is ready.        *)
ProviderFairness == \A c \in ModelCalls : WF_provider(CallStep(c))

ProviderSpec == ProviderInit /\ [][ProviderNext]_provider
ProviderFairSpec == ProviderSpec /\ ProviderFairness

-----------------------------------------------------------------------------
(* Every path out of a call gives its slot back, a cancellation in a pause *)
(* included, so that the calls that hold one are at most ModelSlots.       *)
SlotsConserved ==
    slots + Cardinality({c \in ModelCalls : call[c].pc \in {"posting", "pausing"}}) = ModelSlots

(* Work that the provider has done and that no accumulator counts belongs  *)
(* to a request that timed out, was cancelled or broke, or to an answer    *)
(* that could not be read: a call that decided or was refused its answer   *)
(* has counted it, and has counted no more than one.                       *)
MeteringExplained ==
    \A c \in ModelCalls :
        /\ metered[c] <= billed[c]
        /\ call[c].pc = "decided" \/ call[c].failure = "unusable" => metered[c] = 1

(* A failure is called retryable only when it was one that may pass, and   *)
(* every attempt has been used on it.                                      *)
RetryableExhausted ==
    \A c \in ModelCalls :
        call[c].pc = "failed" /\ call[c].retryable
            => call[c].failure \in RetriedFailures /\ call[c].attempt = ModelAttempts

(* However a call ends, a caller can rely on what it leaves: the slot is   *)
(* back, the tokens are counted, and a failure it may report as retryable  *)
(* has been retried.                                                       *)
CallsSettled == SlotsConserved /\ MeteringExplained /\ RetryableExhausted

(* A call that waits while others retry gets its slot and ends.            *)
ModelCallsEnd ==
    \A c \in ModelCalls :
        call[c].pc = "waiting" ~> call[c].pc \in {"decided", "failed", "cancelled"}
=============================================================================
