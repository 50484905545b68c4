----------------------- MODULE EmbeddingClient_proofs -----------------------
(***************************************************************************)
(* The safety of the embedding client and service for any number of calls, *)
(* attempts, permits and threads.                                          *)
(*                                                                         *)
(* The permits need the queue: a permit handed over goes to the head of    *)
(* the queue, which must be a waiting request that the queue names once.   *)
(* The client needs its unused attempts to be untouched requests, or a     *)
(* second post could overwrite a request that holds a permit.              *)
(***************************************************************************)
EXTENDS EmbeddingClient, FiniteSetTheorems, TLAPS

Holders == {r \in Requests : request[r] = "embedding"}

(* The attempts a call has not made are requests nobody has sent.          *)
FreshAttempts ==
    \A c \in Calls :
        /\ call[c].at = "idle" => call[c].attempt = 1 /\ request[<<c, 1>>] = "unsent"
        /\ call[c].at = "backoff" => call[c].attempt < MaxAttempts
        /\ \A k \in 1..MaxAttempts : k > call[c].attempt => request[<<c, k>>] = "unsent"

(* The loader pauses only between attempts.                                *)
LoaderRetries == loader.phase = "backoff" => loader.attempt < LoadAttempts

(* A running process that says it is ready has loaded and warmed its model. *)
ReadyIsWarm ==
    process = "up" => /\ loader.phase = "warm" => loaded
                      /\ status = "ready" => loaded /\ loader.phase = "done"

(* The semaphore: what its permits and its queue say of the requests.      *)
Semaphore ==
    /\ request \in [Requests -> {"unsent", "sent", "waiting", "embedding"} \cup Answers]
    /\ waiters \in Seq(Requests)
    /\ free \in 0..MaxConcurrent
    /\ PermitsConserved
    /\ NoLostWakeup

IInv == TypeOK /\ PermitsConserved /\ NoLostWakeup /\ ModelCallsExplained
        /\ FreshAttempts /\ LoaderRetries /\ ReadyIsWarm /\ RetriesExhausted

-----------------------------------------------------------------------------
(* Counting the permits                                                    *)

LEMMA HoldersFinite == IsFiniteSet(Holders) /\ Cardinality(Holders) \in Nat
  <1>1. Holders \subseteq Requests
    BY DEF Holders
  <1>2. IsFiniteSet(Holders)
    BY <1>1, RequestsFinite, FS_Subset
  <1> QED
    BY <1>2, FS_CardinalityType

(* One holder more, one less, and one in the place of another.             *)
LEMMA Counting ==
  ASSUME NEW H, IsFiniteSet(H)
  PROVE  /\ Cardinality(H) \in Nat
         /\ \A r : r \notin H => Cardinality(H \cup {r}) = Cardinality(H) + 1
         /\ \A r \in H : /\ Cardinality(H) > 0
                        /\ Cardinality(H \ {r}) = Cardinality(H) - 1
  <1>1. Cardinality(H) \in Nat
    BY FS_CardinalityType
  <1>2. ASSUME NEW r, r \notin H
        PROVE  Cardinality(H \cup {r}) = Cardinality(H) + 1
    BY <1>2, FS_AddElement
  <1>3. ASSUME NEW r \in H
        PROVE  Cardinality(H) > 0 /\ Cardinality(H \ {r}) = Cardinality(H) - 1
    <2>1. Cardinality(H \ {r}) = Cardinality(H) - 1
      BY FS_RemoveElement
    <2>2. Cardinality(H) # 0
      BY FS_EmptySet
    <2> QED
      BY <1>1, <2>1, <2>2
  <1> QED
    BY <1>1, <1>2, <1>3

LEMMA HandOver ==
  ASSUME NEW H, IsFiniteSet(H), NEW r \in H, NEW next, next \notin H
  PROVE  Cardinality((H \ {r}) \cup {next}) = Cardinality(H)
  <1> DEFINE rest == H \ {r}
  <1>1. IsFiniteSet(rest) /\ next \notin rest
    BY FS_RemoveElement
  <1>2. Cardinality(rest) = Cardinality(H) - 1 /\ Cardinality(H) \in Nat
    BY Counting
  <1> HIDE DEF rest
  <1>3. Cardinality(rest \cup {next}) = Cardinality(rest) + 1
    BY <1>1, Counting
  <1>4. Cardinality(rest \cup {next}) = Cardinality(H)
    BY <1>2, <1>3
  <1> QED
    BY <1>4 DEF rest

(* What the invariant says, in terms of the holders.                       *)
LEMMA PermitsOfHolders ==
  /\ PermitsConserved <=> free + Cardinality(Holders) = MaxConcurrent
  /\ PermitsConserved' <=> free' + Cardinality(Holders') = MaxConcurrent
  BY DEF PermitsConserved, Holders

-----------------------------------------------------------------------------
(* The semaphore                                                           *)

(* The queue after a request is appended.                                  *)
LEMMA QueueAppend ==
  ASSUME NEW S, NEW q \in Seq(S), NEW r \in S
  PROVE  /\ Append(q, r) \in Seq(S) /\ Append(q, r) # << >>
         /\ DOMAIN Append(q, r) = 1..(Len(q) + 1) /\ DOMAIN q = 1..Len(q)
         /\ Append(q, r)[Len(q) + 1] = r
         /\ \A i \in 1..Len(q) : Append(q, r)[i] = q[i]
  OBVIOUS

(* The queue after its head is taken.                                      *)
LEMMA QueueTail ==
  ASSUME NEW S, NEW q \in Seq(S), q # << >>
  PROVE  /\ Tail(q) \in Seq(S) /\ Head(q) \in S
         /\ DOMAIN q = 1..Len(q) /\ Len(q) \in Nat \ {0} /\ Head(q) = q[1]
         /\ DOMAIN Tail(q) = 1..(Len(q) - 1)
         /\ \A i \in 1..(Len(q) - 1) : Tail(q)[i] = q[i + 1]
  OBVIOUS

(* Admission keeps the semaphore right.                                    *)
LEMMA AdmitKeepsSemaphore ==
  ASSUME Semaphore, NEW r \in Requests, Admit(r)
  PROVE  Semaphore'
  <1>1. request[r] = "sent" /\ r \notin Holders
    BY DEF Admit, Holders
  <1>2. CASE /\ free > 0 /\ waiters = << >>
             /\ free' = free - 1
             /\ request' = [request EXCEPT ![r] = "embedding"]
             /\ UNCHANGED waiters
    <2>1. Holders' = Holders \cup {r}
      BY <1>1, <1>2 DEF Semaphore, Holders
    <2>2. Cardinality(Holders') = Cardinality(Holders) + 1
      BY <1>1, <2>1, HoldersFinite, Counting
    <2>3. PermitsConserved' /\ free' \in 0..MaxConcurrent
      BY <1>2, <2>2, PermitsOfHolders, HoldersFinite, LimitsPositive DEF Semaphore
    <2>4. NoLostWakeup'
      BY <1>1, <1>2 DEF Semaphore, NoLostWakeup
    <2> QED
      BY <1>1, <1>2, <2>3, <2>4 DEF Semaphore
  <1>3. CASE /\ free = 0 \/ waiters # << >>
             /\ waiters' = Append(waiters, r)
             /\ request' = [request EXCEPT ![r] = "waiting"]
             /\ UNCHANGED free
    <2>1. free = 0
      BY <1>3 DEF Semaphore, NoLostWakeup
    <2>2. Holders' = Holders
      BY <1>1, <1>3 DEF Semaphore, Holders
    <2>3. PermitsConserved'
      BY <1>3, <2>2, PermitsOfHolders DEF Semaphore
    <2> DEFINE n == Len(waiters)
    <2>4. /\ waiters' \in Seq(Requests) /\ n \in Nat
          /\ DOMAIN waiters' = 1..(n + 1) /\ DOMAIN waiters = 1..n
          /\ waiters'[n + 1] = r
          /\ \A i \in 1..n : waiters'[i] = waiters[i]
      BY <1>3, QueueAppend DEF Semaphore
    <2> HIDE DEF n
    <2>5. \A i \in 1..n : waiters[i] # r
      BY <1>1, <2>4 DEF Semaphore, NoLostWakeup
    <2>6. \A x \in Requests : request'[x] = "waiting" <=> \E i \in DOMAIN waiters' : waiters'[i] = x
      <3> TAKE x \in Requests
      <3>1. request[x] = "waiting" <=> \E i \in 1..n : waiters[i] = x
        BY <2>4 DEF Semaphore, NoLostWakeup
      <3>2. (\E i \in DOMAIN waiters' : waiters'[i] = x)
            <=> x = r \/ \E i \in 1..n : waiters[i] = x
        BY <2>4
      <3> QED
        BY <1>3, <3>1, <3>2 DEF Semaphore
    <2>7. \A i, j \in DOMAIN waiters' : waiters'[i] = waiters'[j] => i = j
      <3>1. \A i, j \in 1..n : waiters[i] = waiters[j] => i = j
        BY <2>4 DEF Semaphore, NoLostWakeup
      <3> QED
        BY <2>4, <2>5, <3>1
    <2>8. NoLostWakeup'
      BY <1>3, <2>1, <2>6, <2>7 DEF NoLostWakeup
    <2> QED
      BY <1>3, <2>3, <2>4, <2>8 DEF Semaphore
  <1> QED
    BY <1>2, <1>3 DEF Admit

(* So does every way out of it.                                            *)
LEMMA ReleaseKeepsSemaphore ==
  ASSUME Semaphore, NEW r \in Requests, NEW answer \in Answers, NEW item,
         request[r] = "embedding", Release(r, answer, item)
  PROVE  Semaphore'
  <1>1. r \in Holders /\ answer \notin {"unsent", "sent", "waiting", "embedding"}
    BY DEF Holders, Answers
  <1>2. CASE waiters # << >> /\ ReleaseTo(Head(waiters), r, answer, item)
    <2> DEFINE next == Head(waiters)  n == Len(waiters)
    <2>1. /\ waiters' \in Seq(Requests) /\ next \in Requests
          /\ DOMAIN waiters = 1..n /\ n \in Nat \ {0} /\ next = waiters[1]
          /\ DOMAIN waiters' = 1..(n - 1)
          /\ \A i \in 1..(n - 1) : waiters'[i] = waiters[i + 1]
      BY <1>2, QueueTail DEF Semaphore, ReleaseTo
    <2>2. /\ request' = [request EXCEPT ![r] = answer, ![next] = "embedding"]
          /\ UNCHANGED free /\ free = 0
      BY <1>2 DEF ReleaseTo, Semaphore, NoLostWakeup
    <2> HIDE DEF next, n
    <2>3. request[next] = "waiting" /\ next # r
      BY <2>1 DEF Semaphore, NoLostWakeup
    <2>4. Holders' = (Holders \ {r}) \cup {next} /\ next \notin Holders
      BY <1>1, <2>1, <2>2, <2>3 DEF Semaphore, Holders
    <2>5. PermitsConserved'
      <3>1. Cardinality(Holders') = Cardinality(Holders)
        BY <1>1, <2>4, HoldersFinite, HandOver
      <3> QED
        BY <2>2, <3>1, PermitsOfHolders DEF Semaphore
    <2>6. \A x \in Requests : request'[x] = "waiting" <=> \E i \in DOMAIN waiters' : waiters'[i] = x
      <3> TAKE x \in Requests
      <3>1. request[x] = "waiting" <=> \E i \in 1..n : waiters[i] = x
        BY <2>1 DEF Semaphore, NoLostWakeup
      <3>2. \A i \in 1..n : waiters[i] = next => i = 1
        <4>1. \A i, k \in 1..n : waiters[i] = waiters[k] => i = k
          BY <2>1 DEF Semaphore, NoLostWakeup
        <4>2. 1 \in 1..n /\ next = waiters[1]
          BY <2>1
        <4> QED
          BY <4>1, <4>2
      <3>3. (\E i \in 1..(n - 1) : waiters[i + 1] = x) <=> (\E i \in 2..n : waiters[i] = x)
        <4>1. ASSUME NEW i \in 2..n, waiters[i] = x
              PROVE  \E k \in 1..(n - 1) : waiters[k + 1] = x
          <5>1. i - 1 \in 1..(n - 1) /\ (i - 1) + 1 = i
            BY <2>1
          <5> QED
            BY <4>1, <5>1
        <4>2. ASSUME NEW i \in 1..(n - 1), waiters[i + 1] = x
              PROVE  \E k \in 2..n : waiters[k] = x
          <5>1. i + 1 \in 2..n
            BY <2>1
          <5> QED
            BY <4>2, <5>1
        <4> QED
          BY <4>1, <4>2
      <3>4. (\E i \in 2..n : waiters[i] = x) <=> (x # next /\ \E i \in 1..n : waiters[i] = x)
        BY <2>1, <3>2
      <3>5. request'[x] = "waiting" <=> (x # next /\ request[x] = "waiting")
        BY <1>1, <2>1, <2>2, <2>3 DEF Semaphore
      <3> QED
        BY <2>1, <3>1, <3>3, <3>4, <3>5
    <2>7. \A i, j \in DOMAIN waiters' : waiters'[i] = waiters'[j] => i = j
      <3>1. \A i, j \in 1..n : waiters[i] = waiters[j] => i = j
        BY <2>1 DEF Semaphore, NoLostWakeup
      <3>2. \A i \in 1..(n - 1) : i + 1 \in 1..n
        BY <2>1
      <3> QED
        BY <2>1, <3>1, <3>2
    <2>8. NoLostWakeup'
      BY <2>2, <2>6, <2>7 DEF NoLostWakeup
    <2>9. request' \in [Requests -> {"unsent", "sent", "waiting", "embedding"} \cup Answers]
      BY <2>1, <2>2 DEF Semaphore
    <2> QED
      BY <2>1, <2>2, <2>5, <2>8, <2>9 DEF Semaphore
  <1>3. CASE /\ waiters = << >>
             /\ free' = free + 1
             /\ request' = [request EXCEPT ![r] = answer]
             /\ UNCHANGED waiters
    <2>1. Holders' = Holders \ {r}
      BY <1>1, <1>3 DEF Semaphore, Holders
    <2>2. Cardinality(Holders') = Cardinality(Holders) - 1 /\ Cardinality(Holders) > 0
      BY <1>1, <2>1, HoldersFinite, Counting
    <2>3. PermitsConserved' /\ free' \in 0..MaxConcurrent
      BY <1>3, <2>2, PermitsOfHolders, HoldersFinite, LimitsPositive DEF Semaphore
    <2>4. NoLostWakeup'
      BY <1>1, <1>3 DEF Semaphore, NoLostWakeup
    <2> QED
      BY <1>1, <1>3, <2>3, <2>4 DEF Semaphore
  <1> QED
    BY <1>2, <1>3 DEF Release

(* A request that neither enters nor leaves the handler does not touch it. *)
LEMMA OtherRequestsKeepSemaphore ==
  ASSUME Semaphore, NEW r \in Requests, UNCHANGED <<waiters, free>>,
         request[r] \notin {"waiting", "embedding"},
         NEW a \in {"sent"} \cup Answers, request' = [request EXCEPT ![r] = a]
  PROVE  Semaphore'
  <1>1. a \notin {"waiting", "embedding"}
    BY DEF Answers
  <1>2. Holders' = Holders
    BY <1>1 DEF Semaphore, Holders
  <1>3. PermitsConserved'
    BY <1>2, PermitsOfHolders DEF Semaphore
  <1>4. NoLostWakeup'
    BY <1>1 DEF Semaphore, NoLostWakeup
  <1> QED
    BY <1>3, <1>4 DEF Semaphore

-----------------------------------------------------------------------------
(* The service's steps                                                     *)

(* A step of the service sends no request and takes no answer back.        *)
Settled == \A r \in Requests : request[r] \in {"unsent", "ok"} => request'[r] = request[r]

LEMMA PairsAreRequests ==
  \A c \in Calls, k \in 1..MaxAttempts : <<c, k>> \in Requests
  BY RequestsOfCalls

LEMMA ServiceKeepsClient ==
  ASSUME IInv, Settled, UNCHANGED call
  PROVE  FreshAttempts' /\ RetriesExhausted'
  <1>1. \A c \in Calls : call[c].attempt \in 1..MaxAttempts /\ Sent(c) \in Requests
    BY PairsAreRequests DEF IInv, TypeOK, Sent
  <1>2. 1 \in 1..MaxAttempts
    BY AttemptsPositive
  <1>3. FreshAttempts'
    BY <1>2, PairsAreRequests DEF IInv, FreshAttempts, Settled
  <1>4. RetriesExhausted'
    BY <1>1 DEF IInv, RetriesExhausted, Settled, Sent
  <1> QED
    BY <1>3, <1>4

LEMMA InvSemaphore == IInv => Semaphore
  BY DEF IInv, TypeOK, ServiceTypeOK, Semaphore

(* The loader works only while no request has come through.                *)
LEMMA LoaderStep ==
  ASSUME IInv, LoadModel \/ WarmModel \/ LoadFails \/ LoadAgain, UNCHANGED call
  PROVE  IInv'
  <1>1. UNCHANGED <<process, request, waiters, free, thread, call>> /\ loader.phase # "done"
    BY DEF LoadModel, WarmModel, LoadFails, LoadAgain
  <1>2. \A r \in Requests : request[r] \notin {"waiting", "embedding"}
    BY <1>1 DEF IInv, ModelCallsExplained
  <1>3. status' \in {"loading", "ready", "failed"} /\ loaded' \in BOOLEAN
    BY DEF IInv, TypeOK, ServiceTypeOK, LoadModel, WarmModel, LoadFails, LoadAgain
  <1>4. loader' \in [phase : {"load", "warm", "backoff", "done"}, attempt : 1..LoadAttempts]
    <2>1. loader \in [phase : {"load", "warm", "backoff", "done"}, attempt : 1..LoadAttempts]
      BY DEF IInv, TypeOK, ServiceTypeOK
    <2>2. CASE LoadModel
      BY <2>1, <2>2 DEF LoadModel
    <2>3. CASE WarmModel
      BY <2>1, <2>3 DEF WarmModel
    <2>4. CASE LoadFails
      BY <2>1, <2>4 DEF LoadFails
    <2>5. CASE LoadAgain
      <3>1. loader.attempt + 1 \in 1..LoadAttempts
        BY <2>1, <2>5, LimitsPositive DEF LoadAgain, IInv, LoaderRetries
      <3> QED
        BY <2>5, <3>1 DEF LoadAgain
    <2> QED
      BY <2>2, <2>3, <2>4, <2>5
  <1>5. TypeOK'
    BY <1>1, <1>3, <1>4 DEF IInv, TypeOK, ServiceTypeOK
  <1>6. PermitsConserved' /\ NoLostWakeup'
    BY <1>1 DEF IInv, PermitsConserved, NoLostWakeup
  <1>7. ModelCallsExplained'
    BY <1>1, <1>2 DEF IInv, ModelCallsExplained
  <1>8. FreshAttempts' /\ RetriesExhausted'
    BY <1>1, ServiceKeepsClient DEF Settled
  <1>9. ReadyIsWarm'
    <2>1. loader \in [phase : {"load", "warm", "backoff", "done"}, attempt : 1..LoadAttempts]
      BY DEF IInv, TypeOK, ServiceTypeOK
    <2>2. status # "ready"
      BY <1>1 DEF IInv, ReadyIsWarm, LoadModel, WarmModel, LoadFails, LoadAgain
    <2> QED
      BY <2>1, <2>2 DEF IInv, ReadyIsWarm, LoadModel, WarmModel, LoadFails, LoadAgain
  <1>10. LoaderRetries'
    <2>1. loader.attempt \in 1..LoadAttempts
      BY DEF IInv, TypeOK, ServiceTypeOK
    <2>2. \/ loader'.phase # "backoff"
          \/ loader'.attempt = loader.attempt /\ loader.attempt < LoadAttempts
      BY DEF IInv, TypeOK, ServiceTypeOK, LoadModel, WarmModel, LoadFails, LoadAgain
    <2> QED
      BY <2>1, <2>2 DEF LoaderRetries
  <1> QED
    BY <1>5, <1>6, <1>7, <1>8, <1>9, <1>10 DEF IInv

LEMMA RefuseStep ==
  ASSUME IInv, NEW r \in Requests, NEW verdict \in {"valid", "invalid", "unauthorized"},
         Refuse(r, verdict), UNCHANGED call
  PROVE  IInv'
  <1> DEFINE answer == Refusal(verdict)
  <1>1. answer \in {"unauthorized", "not_ready", "rejected"}
    BY DEF Refusal
  <1> HIDE DEF answer
  <1>2. /\ request[r] = "sent" /\ request' = [request EXCEPT ![r] = answer]
        /\ UNCHANGED <<process, status, loader, loaded, waiters, free, thread>>
    BY DEF Refuse, loading, answer
  <1>3. Semaphore'
    BY <1>1, <1>2, InvSemaphore, OtherRequestsKeepSemaphore DEF Answers
  <1>4. TypeOK'
    BY <1>2, <1>3 DEF IInv, TypeOK, ServiceTypeOK, Semaphore
  <1>5. ModelCallsExplained'
    BY <1>1, <1>2 DEF IInv, TypeOK, ServiceTypeOK, ModelCallsExplained
  <1>6. FreshAttempts' /\ RetriesExhausted'
    <2>1. Settled
      BY <1>2 DEF IInv, TypeOK, ServiceTypeOK, Settled
    <2> QED
      BY <2>1, ServiceKeepsClient
  <1>7. LoaderRetries' /\ ReadyIsWarm'
    BY <1>2 DEF IInv, LoaderRetries, ReadyIsWarm
  <1> QED
    BY <1>3, <1>4, <1>5, <1>6, <1>7 DEF IInv, Semaphore

LEMMA AdmitStep ==
  ASSUME IInv, NEW r \in Requests, Admit(r), UNCHANGED call
  PROVE  IInv'
  <1>1. /\ request[r] = "sent" /\ process = "up" /\ status = "ready"
        /\ UNCHANGED <<process, status, loader, loaded>>
    BY DEF Admit, loading
  <1>2. \/ /\ request' = [request EXCEPT ![r] = "embedding"]
           /\ thread' = [thread EXCEPT ![r] = "queued"]
        \/ /\ request' = [request EXCEPT ![r] = "waiting"]
           /\ UNCHANGED thread
    BY DEF Admit
  <1>3. Semaphore'
    BY InvSemaphore, AdmitKeepsSemaphore
  <1>4. TypeOK'
    BY <1>1, <1>2, <1>3 DEF IInv, TypeOK, ServiceTypeOK, Semaphore
  <1>5. ModelCallsExplained'
    <2>1. loaded /\ loader.phase = "done"
      BY <1>1 DEF IInv, ReadyIsWarm
    <2> QED
      BY <1>1, <1>2, <2>1 DEF IInv, TypeOK, ServiceTypeOK, ModelCallsExplained, Answers
  <1>6. FreshAttempts' /\ RetriesExhausted'
    <2>1. Settled
      BY <1>1, <1>2 DEF IInv, TypeOK, ServiceTypeOK, Settled
    <2> QED
      BY <2>1, ServiceKeepsClient
  <1>7. LoaderRetries' /\ ReadyIsWarm'
    BY <1>1 DEF IInv, LoaderRetries, ReadyIsWarm
  <1> QED
    BY <1>3, <1>4, <1>5, <1>6, <1>7 DEF IInv, Semaphore

(* EndThread and Deadline: a request leaves the handler with its answer.   *)
LEMMA ReleaseStep ==
  ASSUME IInv, NEW r \in Requests, NEW answer \in Answers, NEW item \in {"none", "running"},
         request[r] = "embedding", Release(r, answer, item),
         item = "running" => answer = "timed_out",
         UNCHANGED <<process, status, loader, loaded, call>>
  PROVE  IInv'
  <1>1. PICK woken \in SUBSET Requests :
            /\ \A x \in woken : request[x] = "waiting"
            /\ request' = [x \in Requests |-> IF x = r THEN answer
                                             ELSE IF x \in woken THEN "embedding" ELSE request[x]]
            /\ thread' = [x \in Requests |-> IF x = r THEN item
                                            ELSE IF x \in woken THEN "queued" ELSE thread[x]]
    <2>1. request \in [Requests -> {"unsent", "sent", "waiting", "embedding"} \cup Answers]
          /\ thread \in [Requests -> {"none", "queued", "running"}]
      BY DEF IInv, TypeOK, ServiceTypeOK
    <2>2. CASE waiters = << >>
      <3>1. /\ request' = [request EXCEPT ![r] = answer]
            /\ thread' = [thread EXCEPT ![r] = item]
        BY <2>2 DEF Release
      <3> DEFINE none == {x \in Requests : FALSE}
      <3>2. none \in SUBSET Requests /\ \A x : x \notin none
        OBVIOUS
      <3> HIDE DEF none
      <3>3. /\ \A x \in none : request[x] = "waiting"
            /\ request' = [x \in Requests |-> IF x = r THEN answer
                               ELSE IF x \in none THEN "embedding" ELSE request[x]]
            /\ thread' = [x \in Requests |-> IF x = r THEN item
                               ELSE IF x \in none THEN "queued" ELSE thread[x]]
        BY <2>1, <3>1, <3>2
      <3> QED
        BY <3>2, <3>3
    <2>3. CASE waiters # << >> /\ ReleaseTo(Head(waiters), r, answer, item)
      <3> DEFINE next == Head(waiters)
      <3>1. waiters \in Seq(Requests)
        BY DEF IInv, TypeOK, ServiceTypeOK
      <3>2. next \in Requests /\ 1 \in DOMAIN waiters /\ next = waiters[1]
        BY <2>3, <3>1, QueueTail
      <3>3. request[next] = "waiting"
        BY <3>2 DEF IInv, NoLostWakeup
      <3>4. /\ request' = [request EXCEPT ![r] = answer, ![next] = "embedding"]
            /\ thread' = [thread EXCEPT ![r] = item, ![next] = "queued"]
        BY <2>3 DEF ReleaseTo
      <3> HIDE DEF next
      <3>5. /\ \A x \in {next} : request[x] = "waiting"
            /\ request' = [x \in Requests |-> IF x = r THEN answer
                               ELSE IF x \in {next} THEN "embedding" ELSE request[x]]
            /\ thread' = [x \in Requests |-> IF x = r THEN item
                               ELSE IF x \in {next} THEN "queued" ELSE thread[x]]
        BY <2>1, <3>2, <3>3, <3>4
      <3> QED
        BY <3>2, <3>5
    <2> QED
      BY <2>2, <2>3 DEF Release
  <1>2. Semaphore'
    BY InvSemaphore, ReleaseKeepsSemaphore
  <1>3. TypeOK'
    <2>1. thread' \in [Requests -> {"none", "queued", "running"}]
      BY <1>1 DEF IInv, TypeOK, ServiceTypeOK
    <2> QED
      BY <1>2, <2>1 DEF IInv, TypeOK, ServiceTypeOK, Semaphore
  <1>4. ModelCallsExplained'
    BY <1>1 DEF IInv, TypeOK, ServiceTypeOK, ModelCallsExplained, Answers
  <1>5. FreshAttempts' /\ RetriesExhausted'
    <2>1. Settled
      BY <1>1 DEF Settled
    <2> QED
      BY <2>1, ServiceKeepsClient
  <1>6. LoaderRetries' /\ ReadyIsWarm'
    BY DEF IInv, LoaderRetries, ReadyIsWarm
  <1> QED
    BY <1>2, <1>3, <1>4, <1>5, <1>6 DEF IInv, Semaphore

LEMMA ThreadStep ==
  ASSUME IInv, NEW r \in Requests, StartThread(r) \/ EndAbandonedThread(r), UNCHANGED call
  PROVE  IInv'
  <1>1. UNCHANGED <<process, status, loader, loaded, request, waiters, free, call>>
    BY DEF StartThread, EndAbandonedThread, loading
  <1>2. \/ thread[r] = "queued" /\ thread' = [thread EXCEPT ![r] = "running"]
        \/ thread' = [thread EXCEPT ![r] = "none"]
    BY DEF StartThread, EndAbandonedThread
  <1>3. TypeOK' /\ ModelCallsExplained'
    BY <1>1, <1>2 DEF IInv, TypeOK, ServiceTypeOK, ModelCallsExplained
  <1>4. PermitsConserved' /\ NoLostWakeup' /\ LoaderRetries' /\ ReadyIsWarm'
    BY <1>1 DEF IInv, PermitsConserved, NoLostWakeup, LoaderRetries, ReadyIsWarm
  <1>5. FreshAttempts' /\ RetriesExhausted'
    BY <1>1, ServiceKeepsClient DEF Settled
  <1> QED
    BY <1>3, <1>4, <1>5 DEF IInv

(* Stopping waits for the handlers, so that no permit is out.              *)
LEMMA StopStep ==
  ASSUME IInv, Stop, UNCHANGED call
  PROVE  IInv'
  <1>1. UNCHANGED <<status, loader, request, waiters, free, thread, call>>
        /\ process' = "stopped" /\ loaded' = FALSE
    BY DEF Stop
  <1>2. \A r \in Requests : request[r] \notin {"waiting", "embedding"}
    BY DEF Stop, InHandler
  <1>3. TypeOK' /\ ModelCallsExplained' /\ ReadyIsWarm'
    BY <1>1, <1>2 DEF IInv, TypeOK, ServiceTypeOK, ModelCallsExplained, ReadyIsWarm
  <1>4. PermitsConserved' /\ NoLostWakeup' /\ LoaderRetries'
    BY <1>1 DEF IInv, PermitsConserved, NoLostWakeup, LoaderRetries
  <1>5. FreshAttempts' /\ RetriesExhausted'
    BY <1>1, ServiceKeepsClient DEF Settled
  <1> QED
    BY <1>3, <1>4, <1>5 DEF IInv

LEMMA StartedFacts ==
  ASSUME Started
  PROVE  /\ process' = "up" /\ status' = "loading" /\ loaded' = FALSE
         /\ loader' \in [phase : {"load", "warm", "backoff", "done"}, attempt : 1..LoadAttempts]
         /\ LoaderRetries' /\ ReadyIsWarm'
  <1>1. 1 \in 1..LoadAttempts
    BY LimitsPositive
  <1> QED
    BY <1>1 DEF Started, LoaderRetries, ReadyIsWarm

LEMMA RestartStep ==
  ASSUME IInv, Restart, UNCHANGED call
  PROVE  IInv'
  <1>1. UNCHANGED <<request, waiters, free, thread, call>> /\ process = "stopped" /\ Started
    BY DEF Restart
  <1>2. \A r \in Requests : request[r] \notin {"waiting", "embedding"}
    BY <1>1 DEF IInv, ModelCallsExplained
  <1>3. TypeOK' /\ ModelCallsExplained'
    BY <1>1, <1>2, StartedFacts DEF IInv, TypeOK, ServiceTypeOK, ModelCallsExplained
  <1>4. PermitsConserved' /\ NoLostWakeup'
    BY <1>1 DEF IInv, PermitsConserved, NoLostWakeup
  <1>5. FreshAttempts' /\ RetriesExhausted'
    BY <1>1, ServiceKeepsClient DEF Settled
  <1> QED
    BY <1>1, <1>3, <1>4, <1>5, StartedFacts DEF IInv

(* A crash takes the requests, the queue and the permits together.         *)
LEMMA CrashStep ==
  ASSUME IInv, Crash, UNCHANGED call
  PROVE  IInv'
  <1>1. /\ Started /\ waiters' = << >> /\ free' = MaxConcurrent
        /\ request' = [r \in Requests |-> IF r \in InHandler THEN "lost" ELSE request[r]]
        /\ thread' = [r \in Requests |-> "none"]
    BY DEF Crash
  <1>2. request' \in [Requests -> {"unsent", "sent", "waiting", "embedding"} \cup Answers]
        /\ \A r \in Requests : request'[r] \notin {"waiting", "embedding"}
    BY <1>1 DEF IInv, TypeOK, ServiceTypeOK, InHandler, Answers
  <1>3. TypeOK'
    BY <1>1, <1>2, StartedFacts, LimitsPositive DEF IInv, TypeOK, ServiceTypeOK
  <1>4. ModelCallsExplained'
    BY <1>1, <1>2 DEF ModelCallsExplained
  <1>5. PermitsConserved'
    <2>1. Holders' = {}
      BY <1>2 DEF Holders
    <2>2. Cardinality(Holders') = 0
      BY <2>1, FS_EmptySet
    <2> QED
      BY <1>1, <2>2, PermitsOfHolders, LimitsPositive
  <1>6. NoLostWakeup'
    BY <1>1, <1>2 DEF NoLostWakeup
  <1>7. FreshAttempts' /\ RetriesExhausted'
    <2>1. Settled
      BY <1>1 DEF Settled, InHandler
    <2> QED
      BY <2>1, ServiceKeepsClient
  <1> QED
    BY <1>1, <1>3, <1>4, <1>5, <1>6, <1>7, StartedFacts DEF IInv

LEMMA ServiceStep ==
  ASSUME IInv, ServiceNext, UNCHANGED call
  PROVE  IInv'
  <1>1. ASSUME NEW r \in Requests, NEW answer \in {"ok", "rejected", "failed"},
               EndThread(r, answer)
        PROVE  IInv'
    BY <1>1, ReleaseStep DEF EndThread, loading, Answers
  <1>2. ASSUME NEW r \in Requests, Deadline(r)
        PROVE  IInv'
    <2>1. (IF thread[r] = "running" THEN "running" ELSE "none") \in {"none", "running"}
      OBVIOUS
    <2> QED
      BY <1>2, <2>1, ReleaseStep DEF Deadline, loading, Answers
  <1> QED
    BY <1>1, <1>2, LoaderStep, RefuseStep, AdmitStep, ThreadStep, StopStep, RestartStep, CrashStep
    DEF ServiceNext

-----------------------------------------------------------------------------
(* The client's steps                                                      *)

LEMMA PostStep ==
  ASSUME IInv, NEW c \in Calls, NEW k \in 1..MaxAttempts, Post(c, k),
         request[<<c, k>>] = "unsent",
         \A n \in 1..MaxAttempts : n > k => request[<<c, n>>] = "unsent"
  PROVE  IInv'
  <1>1. <<c, k>> \in Requests
    BY PairsAreRequests
  <1>2. /\ call' = [call EXCEPT ![c] = [at |-> "posted", attempt |-> k]]
        /\ request' = [request EXCEPT ![<<c, k>>] = "sent"]
        /\ UNCHANGED <<process, status, loader, loaded, waiters, free, thread>>
    BY DEF Post, loading
  <1>3. Semaphore'
    BY <1>1, <1>2, InvSemaphore, OtherRequestsKeepSemaphore
  <1>4. TypeOK'
    BY <1>2, <1>3 DEF IInv, TypeOK, ServiceTypeOK, Semaphore
  <1>5. ModelCallsExplained'
    BY <1>1, <1>2 DEF IInv, TypeOK, ServiceTypeOK, ModelCallsExplained
  <1>6. FreshAttempts'
    <2> SUFFICES ASSUME NEW d \in Calls
                 PROVE  /\ call'[d].at = "idle" => call'[d].attempt = 1 /\ request'[<<d, 1>>] = "unsent"
                        /\ call'[d].at = "backoff" => call'[d].attempt < MaxAttempts
                        /\ \A n \in 1..MaxAttempts : n > call'[d].attempt => request'[<<d, n>>] = "unsent"
      BY DEF FreshAttempts
    <2>1. CASE d = c
      <3>1. call'[d] = [at |-> "posted", attempt |-> k]
        BY <1>2, <2>1 DEF IInv, TypeOK
      <3>2. \A n \in 1..MaxAttempts : n > k => request'[<<c, n>>] = request[<<c, n>>]
        BY <1>1, <1>2, PairsAreRequests DEF IInv, TypeOK, ServiceTypeOK
      <3> QED
        BY <2>1, <3>1, <3>2
    <2>2. CASE d # c
      <3>1. call'[d] = call[d]
        BY <1>2, <2>2 DEF IInv, TypeOK
      <3>2. \A n \in 1..MaxAttempts : request'[<<d, n>>] = request[<<d, n>>]
        BY <1>1, <1>2, <2>2, PairsAreRequests DEF IInv, TypeOK, ServiceTypeOK
      <3>3. 1 \in 1..MaxAttempts
        BY AttemptsPositive
      <3> QED
        BY <3>1, <3>2, <3>3 DEF IInv, FreshAttempts
    <2> QED
      BY <2>1, <2>2
  <1>7. RetriesExhausted'
    <2> SUFFICES ASSUME NEW d \in Calls
                 PROVE  /\ call'[d].at \in RetryableErrors => call'[d].attempt = MaxAttempts
                        /\ call'[d].at = "vectors" => request'[<<d, call'[d].attempt>>] = "ok"
      BY DEF RetriesExhausted, Sent
    <2>1. CASE d = c
      BY <1>2, <2>1 DEF IInv, TypeOK, RetryableErrors
    <2>2. CASE d # c
      <3>1. call'[d] = call[d] /\ call[d].attempt \in 1..MaxAttempts
        BY <1>2, <2>2 DEF IInv, TypeOK
      <3>2. request'[<<d, call[d].attempt>>] = request[<<d, call[d].attempt>>]
        BY <1>1, <1>2, <2>2, <3>1, PairsAreRequests DEF IInv, TypeOK, ServiceTypeOK
      <3> QED
        BY <3>1, <3>2 DEF IInv, RetriesExhausted, Sent
    <2> QED
      BY <2>1, <2>2
  <1>8. LoaderRetries' /\ ReadyIsWarm'
    BY <1>2 DEF IInv, LoaderRetries, ReadyIsWarm
  <1> QED
    BY <1>3, <1>4, <1>5, <1>6, <1>7, <1>8 DEF IInv, Semaphore

(* A call moves on, or ends, without touching the service.                 *)
LEMMA EndsStep ==
  ASSUME IInv, NEW c \in Calls, NEW outcome \in {"backoff"} \cup Outcomes, Ends(c, outcome),
         outcome = "backoff" => call[c].attempt < MaxAttempts,
         outcome \in RetryableErrors => call[c].attempt = MaxAttempts,
         outcome = "vectors" => request[Sent(c)] = "ok"
  PROVE  IInv'
  <1>1. /\ UNCHANGED <<process, status, loader, loaded, request, waiters, free, thread>>
        /\ call' = [call EXCEPT ![c].at = outcome]
    BY DEF Ends, serviceVars
  <1>2. /\ call' \in [Calls -> [at : {"idle", "posted", "backoff"} \cup Outcomes,
                               attempt : 1..MaxAttempts]]
        /\ call'[c].at = outcome /\ call'[c].attempt = call[c].attempt
        /\ \A d \in Calls : d # c => call'[d] = call[d]
    BY <1>1 DEF IInv, TypeOK
  <1>3. TypeOK' /\ ModelCallsExplained'
    BY <1>1, <1>2 DEF IInv, TypeOK, ServiceTypeOK, ModelCallsExplained
  <1>4. PermitsConserved' /\ NoLostWakeup' /\ LoaderRetries' /\ ReadyIsWarm'
    BY <1>1 DEF IInv, PermitsConserved, NoLostWakeup, LoaderRetries, ReadyIsWarm
  <1>5. outcome # "idle"
    BY DEF Outcomes, RetryableErrors
  <1>6. FreshAttempts'
    BY <1>1, <1>2, <1>5 DEF IInv, FreshAttempts
  <1>7. RetriesExhausted'
    BY <1>1, <1>2 DEF IInv, RetriesExhausted, Sent
  <1> QED
    BY <1>3, <1>4, <1>6, <1>7 DEF IInv

LEMMA RetryOrStep ==
  ASSUME IInv, NEW c \in Calls, NEW outcome \in RetryableErrors, RetryOr(c, outcome)
  PROVE  IInv'
  <1>1. outcome # "vectors" /\ outcome # "backoff" /\ outcome \in Outcomes
        /\ "backoff" \notin RetryableErrors
    BY DEF RetryableErrors, Outcomes
  <1> QED
    BY <1>1, EndsStep DEF RetryOr

LEMMA CallStep ==
  ASSUME IInv, NEW c \in Calls, Begin(c) \/ ClientStep(c)
  PROVE  IInv'
  <1>1. call[c].attempt \in 1..MaxAttempts /\ MaxAttempts \in Nat \ {0}
    BY AttemptsPositive DEF IInv, TypeOK
  <1>2. CASE Begin(c)
    <2>1. call[c].at = "idle" /\ call[c].attempt = 1 /\ Post(c, 1)
          /\ request[<<c, 1>>] = "unsent"
      BY <1>2 DEF Begin, IInv, FreshAttempts
    <2> QED
      BY <1>1, <2>1, PostStep DEF IInv, FreshAttempts
  <1>3. CASE PostAgain(c)
    <2>1. call[c].at = "backoff" /\ call[c].attempt < MaxAttempts /\ Post(c, call[c].attempt + 1)
      BY <1>3 DEF PostAgain, IInv, FreshAttempts
    <2> DEFINE k == call[c].attempt + 1
    <2>2. k \in 1..MaxAttempts /\ k > call[c].attempt
          /\ \A n \in 1..MaxAttempts : n > k => n > call[c].attempt
      BY <1>1, <2>1
    <2>3. Post(c, k)
      BY <2>1
    <2> HIDE DEF k
    <2> QED
      BY <2>2, <2>3, PostStep DEF IInv, FreshAttempts
  <1>4. CASE NoAnswer(c)
    BY <1>4, RetryOrStep DEF NoAnswer, RetryableErrors
  <1>5. CASE ConnectionBroken(c)
    BY <1>5, EndsStep DEF ConnectionBroken, Outcomes, RetryableErrors
  <1>6. CASE TakeVectors(c)
    BY <1>6, EndsStep DEF TakeVectors, Outcomes, RetryableErrors
  <1>7. CASE TakeError(c)
    <2> DEFINE answer == request[Sent(c)]
    <2>1. CASE answer \in RetryableAnswers /\ RetryOr(c, ErrorOf(answer))
      <3>1. ErrorOf(answer) \in RetryableErrors
        BY <2>1 DEF ErrorOf, RetryableAnswers, RetryableErrors
      <3> QED
        BY <2>1, <3>1, RetryOrStep
    <2>2. CASE answer \in {"unauthorized", "rejected"} /\ Ends(c, ErrorOf(answer))
      <3>1. ErrorOf(answer) \in {"auth_failed", "input_rejected"}
        BY <2>2 DEF ErrorOf
      <3> QED
        BY <2>2, <3>1, EndsStep DEF Outcomes, RetryableErrors
    <2> QED
      BY <1>7, <2>1, <2>2 DEF TakeError
  <1> QED
    BY <1>2, <1>3, <1>4, <1>5, <1>6, <1>7 DEF ClientStep

-----------------------------------------------------------------------------
LEMMA InitInv == Init => IInv
  <1> SUFFICES ASSUME Init PROVE IInv
    OBVIOUS
  <1> USE DEF Init, ServiceInit
  <1>1. 1 \in 1..MaxAttempts /\ 1 \in 1..LoadAttempts /\ MaxConcurrent \in 0..MaxConcurrent
    BY AttemptsPositive, LimitsPositive
  <1>2. TypeOK
    <2>1. call \in [Calls -> [at : {"idle", "posted", "backoff"} \cup Outcomes,
                             attempt : 1..MaxAttempts]]
      BY <1>1
    <2>2. loader \in [phase : {"load", "warm", "backoff", "done"}, attempt : 1..LoadAttempts]
      BY <1>1
    <2>3. waiters \in Seq(Requests) /\ free \in 0..MaxConcurrent
      BY <1>1
    <2>5. loaded \in BOOLEAN
      BY Zenon
    <2>4. /\ request \in [Requests -> {"unsent", "sent", "waiting", "embedding"} \cup Answers]
          /\ thread \in [Requests -> {"none", "queued", "running"}]
          /\ process \in {"up", "stopped"} /\ status \in {"loading", "ready", "failed"}
      OBVIOUS
    <2> QED
      BY <2>1, <2>2, <2>3, <2>4, <2>5 DEF TypeOK, ServiceTypeOK
  <1>3. PermitsConserved
    <2>1. Holders = {}
      BY DEF Holders
    <2>2. Cardinality(Holders) = 0
      BY <2>1, FS_EmptySet
    <2> QED
      BY <2>2, PermitsOfHolders, LimitsPositive
  <1>4. NoLostWakeup /\ ModelCallsExplained
    BY DEF NoLostWakeup, ModelCallsExplained
  <1>5. FreshAttempts /\ RetriesExhausted
    BY <1>1, PairsAreRequests DEF FreshAttempts, RetriesExhausted, RetryableErrors
  <1>6. LoaderRetries /\ ReadyIsWarm
    BY DEF LoaderRetries, ReadyIsWarm
  <1> QED
    BY <1>2, <1>3, <1>4, <1>5, <1>6 DEF IInv

LEMMA NextInv == IInv /\ [Next]_vars => IInv'
  <1> SUFFICES ASSUME IInv, [Next]_vars PROVE IInv'
    OBVIOUS
  <1>1. CASE ServiceNext /\ UNCHANGED call
    BY <1>1, ServiceStep
  <1>2. CASE \E c \in Calls : Begin(c) \/ ClientStep(c)
    BY <1>2, CallStep
  <1>3. CASE UNCHANGED vars
    BY <1>3 DEF vars, serviceVars, IInv, TypeOK, ServiceTypeOK, PermitsConserved, NoLostWakeup,
        ModelCallsExplained, FreshAttempts, LoaderRetries, ReadyIsWarm, RetriesExhausted, Sent
  <1> QED
    BY <1>1, <1>2, <1>3 DEF Next

LEMMA Inductive == Spec => []IInv
  BY InitInv, NextInv, PTL DEF Spec

(* async with semaphore (application.py:280): however requests wait, time   *)
(* out, crash and retry, each permit is free or held by one request.       *)
THEOREM PermitsCorrect == Spec => []PermitsConserved
  BY Inductive, PTL DEF IInv

(* No request waits while a permit is free, and the queue names each        *)
(* waiting request once (application.py:280).                              *)
THEOREM WakeupsCorrect == Spec => []NoLostWakeup
  BY Inductive, PTL DEF IInv

(* The model is called through the API only after _load_and_warm has        *)
(* finished, and a call outlives only a request that timed out.            *)
THEOREM ModelCallsCorrect == Spec => []ModelCallsExplained
  BY Inductive, PTL DEF IInv

(* _request_with_retry (embeddings/client.py:162) gives up on a retryable   *)
(* error only after its last attempt.                                      *)
THEOREM RetriesCorrect == Spec => []RetriesExhausted
  BY Inductive, PTL DEF IInv

(* Permits, waiters, threads, loader and calls keep their shapes, so that   *)
(* free stays a number of permits and an attempt is never past the last.   *)
THEOREM ClientTyped == Spec => []TypeOK
  BY Inductive, PTL DEF IInv
=============================================================================
