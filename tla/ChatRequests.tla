----------------------------- MODULE ChatRequests -----------------------------
(***************************************************************************)
(* What surrounds a question of one user about one repository: the minute  *)
(* and day quotas in Redis before it, the usage record after it, and the   *)
(* transcript in PostgreSQL, which the user may clear meanwhile.  How the  *)
(* question is answered, and who may ask, is QuestionAgent.                *)
(***************************************************************************)
EXTENDS Naturals, Sequences, FiniteSets

CONSTANTS
    MaxQuestions,    \* bound on requests
    MaxWindows,      \* bound on minutes and days
    PerMinute, PerDay,
    ChatFaults       \* subset of {"redis", "database"}

ASSUME QuotasPositive == PerMinute \in Nat \ {0} /\ PerDay \in Nat \ {0}
ASSUME ChatBounds == MaxQuestions \in Nat /\ MaxWindows \in Nat

VARIABLES
    minute, day,     \* Redis: the counters and, auxiliary, how many have expired
    question,        \* the requests, in order
    session,         \* chat_sessions: the number of the row, 0 without one
    opened,        \* rows created so far
    exchanges,       \* chat_messages: each stands for the two rows of one transaction
    begun            \* auxiliary: transactions that began to record, for their now()

chat == <<minute, day, question, session, opened, exchanges, begun>>

Counter == [count : Nat, window : 0 .. MaxWindows]

Scopes == {"none", "minute", "day", "unavailable", "allowed"}

(* Auxiliary: inMinute and inDay are the windows that counted a question,  *)
(* -1 is written as MaxWindows + 1.                                        *)
Uncounted == MaxWindows + 1

QuestionRow ==
    [pc : {"arrived", "counted", "refused", "asking", "failed", "answered", "creating", "raced",
           "in_session", "recording", "saved", "unsaved"},
     scope : Scopes, inMinute : 0 .. Uncounted, inDay : 0 .. Uncounted, session : Nat, at : Nat,
     usage : {"none", "success", "failure", "lost"}]

Numbers == DOMAIN question

ExchangeRow == [of : Numbers, session : Nat, at : Nat]

ChatTypeOK ==
    /\ minute \in Counter /\ day \in Counter
    /\ question \in Seq(QuestionRow) /\ Len(question) <= MaxQuestions
    /\ session \in 0 .. opened
    /\ exchanges \subseteq ExchangeRow
    /\ \A e, f \in exchanges : e.at = f.at => e = f
    /\ \A e \in exchanges : e.at \in 1 .. begun
    /\ \A q \in Numbers :
        /\ question[q].pc \in {"in_session", "recording", "saved"} => question[q].session # 0
        /\ question[q].pc \in {"arrived", "refused", "asking"} => question[q].usage = "none"

ChatInit ==
    /\ minute = [count |-> 0, window |-> 0] /\ day = [count |-> 0, window |-> 0]
    /\ question = <<>>
    /\ session = 0 /\ opened = 0 /\ exchanges = {} /\ begun = 0

-----------------------------------------------------------------------------
(* check_question: one INCR and EXPIRE NX after the other.                 *)

Turn(q, pc) == question' = [question EXCEPT ![q].pc = pc]

ArriveQuestion ==
    /\ Len(question) < MaxQuestions
    /\ question' = Append(question, [pc |-> "arrived", scope |-> "none", inMinute |-> Uncounted,
                                     inDay |-> Uncounted, session |-> 0, at |-> 0,
                                     usage |-> "none"])
    /\ UNCHANGED <<minute, day, session, opened, exchanges, begun>>

Increment(counter) == [counter EXCEPT !.count = @ + 1]

OverQuota_OffByOne(count, limit) == count > limit + 1
OverQuota(count, limit) == count > limit

CountMinute(q) ==
    /\ question[q].pc = "arrived"
    /\ minute' = Increment(minute)
    /\ question' = [question EXCEPT
                      ![q].inMinute = minute.window,
                      ![q].pc = IF OverQuota(minute'.count, PerMinute) THEN "refused" ELSE "counted",
                      ![q].scope = IF OverQuota(minute'.count, PerMinute) THEN "minute" ELSE "none"]
    /\ UNCHANGED <<day, session, opened, exchanges, begun>>

CountDay(q) ==
    /\ question[q].pc = "counted"
    /\ day' = Increment(day)
    /\ question' = [question EXCEPT
                      ![q].inDay = day.window,
                      ![q].pc = IF OverQuota(day'.count, PerDay) THEN "refused" ELSE "asking",
                      ![q].scope = IF OverQuota(day'.count, PerDay) THEN "day" ELSE "allowed"]
    /\ UNCHANGED <<minute, session, opened, exchanges, begun>>

(* Redis fails before it counts or before it answers: the question goes    *)
(* through, whatever has been counted.                                     *)
RedisFails(q) ==
    /\ "redis" \in ChatFaults
    /\ question[q].pc \in {"arrived", "counted"}
    /\ \/ /\ question' = [question EXCEPT ![q].pc = "asking", ![q].scope = "unavailable"]
          /\ UNCHANGED <<minute, day>>
       \/ /\ question[q].pc = "arrived"
          /\ question' = [question EXCEPT ![q].pc = "asking", ![q].scope = "unavailable",
                                          ![q].inMinute = minute.window]
          /\ minute' = Increment(minute) /\ UNCHANGED day
       \/ /\ question[q].pc = "counted"
          /\ question' = [question EXCEPT ![q].pc = "asking", ![q].scope = "unavailable",
                                          ![q].inDay = day.window]
          /\ day' = Increment(day) /\ UNCHANGED minute
    /\ UNCHANGED <<session, opened, exchanges, begun>>

NextWindow(counter) == [count |-> 0, window |-> counter.window + 1]

MinutePasses ==
    /\ minute.count > 0 /\ minute.window < MaxWindows
    /\ minute' = NextWindow(minute)
    /\ UNCHANGED <<day, question, session, opened, exchanges, begun>>

DayPasses ==
    /\ day.count > 0 /\ day.window < MaxWindows
    /\ day' = NextWindow(day)
    /\ UNCHANGED <<minute, question, session, opened, exchanges, begun>>

-----------------------------------------------------------------------------
(* The answer, or its failure; either is metered, unless that fails.       *)
AnswerEnds(q, pc, usage) ==
    /\ question[q].pc = "asking"
    /\ \/ <<pc, usage>> \in {<<"answered", "success">>, <<"failed", "failure">>}
       \/ "database" \in ChatFaults /\ pc \in {"answered", "failed"} /\ usage = "lost"
    /\ question' = [question EXCEPT ![q].pc = pc, ![q].usage = usage]
    /\ UNCHANGED <<minute, day, session, opened, exchanges, begun>>

(* record_exchange: _get_or_create_session_id in a transaction of its own. *)
InSession(q, s) == question' = [question EXCEPT ![q].pc = "in_session", ![q].session = s]

SelectSession(q) ==
    /\ question[q].pc \in {"answered", "raced"}
    /\ IF session # 0 THEN InSession(q, session)
       ELSE Turn(q, IF question[q].pc = "answered" THEN "creating" ELSE "unsaved")
    /\ UNCHANGED <<minute, day, session, opened, exchanges, begun>>

CreateSession(q) ==
    /\ question[q].pc = "creating"
    /\ IF session = 0
       THEN /\ session' = opened + 1 /\ opened' = opened + 1
            /\ InSession(q, session')
       ELSE Turn(q, "raced") /\ UNCHANGED <<session, opened>>
    /\ UNCHANGED <<minute, day, exchanges, begun>>

(* The transaction that inserts both messages: now() is the time at which  *)
(* it begins, the foreign key is checked when it commits.                  *)
BeginRecord(q) ==
    /\ question[q].pc = "in_session"
    /\ begun' = begun + 1
    /\ question' = [question EXCEPT ![q].pc = "recording", ![q].at = begun']
    /\ UNCHANGED <<minute, day, session, opened, exchanges>>

SessionExists(q) == question[q].session = session

CommitRecord(q) ==
    /\ question[q].pc = "recording"
    /\ IF SessionExists(q)
       THEN /\ exchanges' = exchanges \cup {[of |-> q, session |-> question[q].session,
                                             at |-> question[q].at]}
            /\ Turn(q, "saved")
       ELSE Turn(q, "unsaved") /\ UNCHANGED exchanges
    /\ UNCHANGED <<minute, day, session, opened, begun>>

RecordFails(q) ==
    /\ "database" \in ChatFaults
    /\ question[q].pc \in {"answered", "creating", "raced", "in_session", "recording"}
    /\ Turn(q, "unsaved")
    /\ UNCHANGED <<minute, day, session, opened, exchanges, begun>>

ClearHistory ==
    /\ session # 0
    /\ session' = 0
    /\ exchanges' = {e \in exchanges : e.session # session}
    /\ UNCHANGED <<minute, day, question, opened, begun>>

-----------------------------------------------------------------------------
(* list_messages orders by created_at alone, which the two messages of an  *)
(* exchange share: of some exchanges, swapped, the answer may come first.  *)
Listed == {e \in exchanges : e.session = session}

ByCreatedAt ==
    {listing \in [1 .. Cardinality(Listed) -> Listed] :
        \A i, k \in DOMAIN listing : i < k => listing[i].at < listing[k].at}

Rows(listing, swapped) ==
    [n \in 1 .. 2 * Len(listing) |->
        LET e == listing[(n + 1) \div 2]
            first == n % 2 = 1
        IN [role |-> IF first = (e \notin swapped) THEN "user" ELSE "assistant",
            of |-> e.of]]

(* _pair_messages: a question waits for the next answer or question.       *)
NextPair_KeepsPending(before, message) ==
    IF message.role = "user" THEN [before EXCEPT !.pending = message.of]
    ELSE IF before.pending = 0 THEN before
    ELSE [before EXCEPT !.pairs = Append(@, <<before.pending, message.of>>)]
NextPair(before, message) ==
    IF message.role = "user" THEN [before EXCEPT !.pending = message.of]
    ELSE IF before.pending = 0 THEN before
    ELSE [pairs |-> Append(before.pairs, <<before.pending, message.of>>), pending |-> 0]

Pairing(rows) ==
    LET after[n \in 0 .. Len(rows)] ==
        IF n = 0 THEN [pairs |-> <<>>, pending |-> 0] ELSE NextPair(after[n - 1], rows[n])
    IN after

Pairs(rows) == Pairing(rows)[Len(rows)].pairs

-----------------------------------------------------------------------------
HandleQuestion(q) ==
    \/ CountMinute(q) \/ CountDay(q) \/ RedisFails(q)
    \/ \E pc \in {"answered", "failed"}, usage \in {"success", "failure", "lost"} :
          AnswerEnds(q, pc, usage)
    \/ SelectSession(q) \/ CreateSession(q) \/ BeginRecord(q) \/ CommitRecord(q) \/ RecordFails(q)

ChatNext ==
    \/ ArriveQuestion \/ MinutePasses \/ DayPasses
    \/ \E q \in Numbers : HandleQuestion(q)
    \/ ClearHistory

ChatSpec == ChatInit /\ [][ChatNext]_chat

-----------------------------------------------------------------------------
(* However the requests of a user overlap, and whenever the counters       *)
(* expire between the two increments: while Redis works, a minute and a    *)
(* day let no more questions through than their quotas, and nobody is      *)
(* refused before the quota of the window in question is used up, by       *)
(* questions that were refused by the other one too (check_question).      *)
Through(scope) == {q \in Numbers : question[q].scope = scope}

QuotasHold ==
    /\ \A w \in 0 .. MaxWindows :
        /\ Cardinality({q \in Through("allowed") : question[q].inMinute = w}) <= PerMinute
        /\ Cardinality({q \in Through("allowed") : question[q].inDay = w}) <= PerDay
    /\ \A q \in Through("minute") :
        Cardinality({r \in Numbers : question[r].inMinute = question[q].inMinute}) > PerMinute
    /\ \A q \in Through("day") :
        Cardinality({r \in Numbers : question[r].inDay = question[q].inDay}) > PerDay

(* What was under way when the user cleared the transcript is saved in no  *)
(* session, or in one created since: nothing listed is older than the      *)
(* session it is listed in (record_exchange, clear_messages).              *)
ClearedStaysCleared == \A e \in exchanges : e.session = session

(* In whatever order PostgreSQL returns the rows, a listing shows each     *)
(* question and each answer at most once, and a question with the answer   *)
(* of another one only if its own answer came first (see the README); and  *)
(* it shows nothing that the user has cleared.                             *)
HistoryExplained ==
    /\ ClearedStaysCleared
    /\ \A listing \in ByCreatedAt, swapped \in SUBSET Listed :
        LET pairs == Pairs(Rows(listing, swapped)) IN
        \A i \in DOMAIN pairs :
            /\ pairs[i][1] # pairs[i][2] => \E e \in swapped : e.of = pairs[i][1]
            /\ \A j \in DOMAIN pairs : pairs[i][1] = pairs[j][1] \/ pairs[i][2] = pairs[j][2] => i = j
=============================================================================
