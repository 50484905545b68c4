---------------------------- MODULE QuestionAgent ----------------------------
(***************************************************************************)
(* The agent that answers a question about a repository while the          *)
(* repository goes on changing: versions are published and superseded ones *)
(* dropped, access is revoked and restored, a public repository becomes    *)
(* private.  A run is a bounded loop of decisions of a language model and  *)
(* calls of three tools; it holds no lock, and between two of its awaits   *)
(* everything else may happen.                                             *)
(*                                                                         *)
(* Of the indexing it sees ActiveIndex: the log of published versions,     *)
(* which the job store and its workers implement (IndexingProperties).     *)
(***************************************************************************)
EXTENDS Naturals, Sequences

CONSTANTS
    Questions,   \* runs of the agent, one per question asked
    Jobs,        \* indexing jobs, each of which may publish a version
    Commits,
    MaxCalls,    \* agent_max_tool_calls
    Faults       \* subset of {"github", "tool", "provider", "transport", "timeout"}

ASSUME MaxCallsPositive == MaxCalls \in Nat \ {0}

VARIABLES
    published,   \* the versions indexing has published, the last one active
    kept,        \* versions whose vectors, symbols and edges are all there
    mode,        \* access_mode of the repository
    access,      \* the user's authorization as the rows show it
    visible,     \* GitHub still shows the public repository
    open,        \* indexing_status is not not_indexed, access_revoked, deleting
    run,         \* the state of each run
    held         \* what has held at some moment since a run's last tool call

vars == <<published, kept, mode, access, visible, open, run, held>>
repository == <<published, kept, mode, access, visible, open>>

Index == INSTANCE ActiveIndex

Active == Len(published)

Tools == {"search", "history", "callers"}

(* An answer with citations; an answer or refusal without; HTTP 404; 500.  *)
Outcomes == {"answered", "insufficient", "unsupported", "unavailable", "not_found", "error"}

Authorizing == {"member", "visibility", "row", "index"}
Executing == Tools \cup {"build", "edges"}
Steps == Authorizing \cup {"decide"} \cup Executing

(* Evidence from an index version that was complete when it was read, from *)
(* one that was being dropped, and from GitHub's history.                  *)
Evidence == {"whole", "torn", "history"}

Facts == {"granted", "visible", "active"}

RunState ==
    [pc : {"idle"} \cup Steps \cup Outcomes,
     why : {"start", "loop", "final", "graph"} \cup Tools,  \* what asked for the check
     row : [version : Nat, open : BOOLEAN],                 \* the Repository object
     active : Nat,                                          \* ActiveIndex of the run
     evidence : SUBSET Evidence,
     calls : 0..MaxCalls,                                   \* length of the trace
     outage : BOOLEAN]                                      \* a failure code of an outage

TypeOK ==
    /\ published \in Seq(Index!Entry)
    /\ kept \in SUBSET (1..Active)
    /\ mode \in {"installation", "public"}
    /\ access \in {"granted", "denied"}
    /\ visible \in BOOLEAN
    /\ open \in BOOLEAN
    /\ run \in [Questions -> RunState]
    /\ held \in [Questions -> SUBSET Facts]

(* The facts about a run that hold now.                                    *)
Holding(q) ==
    {f \in Facts : \/ f = "granted" /\ access = "granted"
                   \/ f = "visible" /\ (visible \/ mode = "installation")
                   \/ f = "active" /\ Active > 0 /\ run[q].active = Active}

Init ==
    /\ published = << >>
    /\ kept = {}
    /\ mode \in {"installation", "public"}
    /\ access = "granted" /\ visible = TRUE
    /\ open = FALSE
    /\ run = [q \in Questions |->
                [pc |-> "idle", why |-> "start", row |-> [version |-> 0, open |-> FALSE],
                 active |-> 0, evidence |-> {}, calls |-> 0, outage |-> FALSE]]
    /\ held = [q \in Questions |-> Holding(q)]

-----------------------------------------------------------------------------
(* What every check does: get_authorized_repository, with a fresh look at  *)
(* GitHub if the repository is public, then, in a transaction of its own,  *)
(* _load_active_index on the row that was returned.                        *)

At(q, pc) == run[q].pc = pc

Becomes(q, r) == run' = [run EXCEPT ![q] = r]

Goes(q, pc) == Becomes(q, [run[q] EXCEPT !.pc = pc])

Checking(r, why) ==
    [r EXCEPT !.pc = IF mode = "public" THEN "member" ELSE "row", !.why = why]

(* The head of the loop: the bound, then a check if evidence would be sent. *)
Exhausted(r) == [r EXCEPT !.pc = IF r.outage THEN "unavailable" ELSE "insufficient"]

Iterate_NoCheck(r) ==
    CASE r.calls = MaxCalls -> Exhausted(r)
      [] OTHER -> [r EXCEPT !.pc = "decide"]
Iterate(r) ==
    CASE r.calls = MaxCalls -> Exhausted(r)
      [] r.calls # MaxCalls /\ r.evidence # {} -> Checking(r, "loop")
      [] OTHER -> [r EXCEPT !.pc = "decide"]

(* A call ends with a step in the trace: completed, failed or timed out.   *)
CallFails(q, outage) ==
    Becomes(q, Iterate([run[q] EXCEPT !.calls = @ + 1, !.outage = @ \/ outage]))

CallReturns(q, found) ==
    Becomes(q, Iterate([run[q] EXCEPT !.calls = @ + 1, !.evidence = @ \cup found]))

(* InstallationAccessError ends the run, except in find_callers, which     *)
(* reports caller_scope_revoked.                                           *)
AccessError(q) ==
    \/ run[q].why = "graph" /\ CallFails(q, TRUE)
    \/ run[q].why # "graph" /\ Goes(q, "not_found")

ReadMembership(q) ==
    /\ At(q, "member")
    /\ \/ access = "granted" /\ Goes(q, "visibility")
       \/ access = "denied" /\ AccessError(q)
    /\ UNCHANGED repository

(* get_public_repository: a repository that is gone or private is revoked. *)
CheckVisibility(q) ==
    /\ At(q, "visibility")
    /\ \/ visible /\ Goes(q, "row") /\ UNCHANGED <<access, open>>
       \/ "github" \in Faults /\ AccessError(q) /\ UNCHANGED <<access, open>>
       \/ ~visible /\ AccessError(q) /\ access' = "denied" /\ open' = FALSE
    /\ UNCHANGED <<published, kept, mode, visible>>

(* find_callers compares the row itself and reads no active index.         *)
ReadRow(q) ==
    /\ At(q, "row")
    /\ \/ access = "denied" /\ AccessError(q)
       \/ /\ access = "granted" /\ run[q].why # "graph"
          /\ Becomes(q, [run[q] EXCEPT !.pc = "index",
                                       !.row = [version |-> Active, open |-> open]])
       \/ /\ access = "granted" /\ run[q].why = "graph"
          /\ \/ Active = run[q].active /\ Goes(q, "build")
             \/ Active # run[q].active /\ CallFails(q, TRUE)
    /\ UNCHANGED repository

(* _load_active_index: the version of the row, if its status allows        *)
(* questions and its build is still the active one; 0 stands for None.     *)
Loaded(q) ==
    IF run[q].row.open /\ run[q].row.version = Active THEN Active ELSE 0

BeginLoop(q) ==
    /\ run[q].why = "start"
    /\ \/ Loaded(q) = 0 /\ Goes(q, "insufficient")
       \/ Loaded(q) # 0 /\ Goes(q, "unsupported")
       \/ /\ Loaded(q) # 0
          /\ Becomes(q, [run[q] EXCEPT !.pc = "decide", !.active = Loaded(q)])

(* _finalize: an answer must cite evidence of the run by known ids.        *)
Conclude(q) ==
    \/ run[q].evidence # {} /\ Goes(q, "answered")
    \/ Goes(q, "insufficient") \/ Goes(q, "unsupported") \/ Goes(q, "unavailable")

SameIndex_Any(q) == Loaded(q) # 0
SameIndex(q) == Loaded(q) = run[q].active

(* What follows a check whose index is still the run's.                    *)
Proceed(q) ==
    \/ run[q].why = "loop" /\ Goes(q, "decide")
    \/ run[q].why \in Tools /\ Goes(q, run[q].why)
    \/ run[q].why = "final" /\ Conclude(q)

LoadIndex(q) ==
    /\ At(q, "index")
    /\ \/ BeginLoop(q)
       \/ /\ run[q].why # "start"
          /\ \/ SameIndex(q) /\ Proceed(q)
             \/ ~SameIndex(q) /\ Goes(q, "unavailable")
    /\ UNCHANGED repository

-----------------------------------------------------------------------------
(* The run                                                                 *)

Ask(q) ==
    /\ At(q, "idle")
    /\ Becomes(q, Checking(run[q], "start"))
    /\ UNCHANGED repository

(* The model asks for a tool, repeats a call, gives its final answer, or   *)
(* fails; the evidence so far is part of what it is sent.                  *)
Decide(q) ==
    /\ At(q, "decide")
    /\ \/ \E tool \in Tools : Becomes(q, Checking(run[q], tool))
       \/ /\ run[q].calls > 0
          /\ Becomes(q, Exhausted([run[q] EXCEPT !.calls = @ + 1]))
       \/ Becomes(q, Checking(run[q], "final"))
       \/ "provider" \in Faults /\ Goes(q, "unavailable")
    /\ UNCHANGED repository

(* What a read of a version finds: nothing, or items that are all there    *)
(* only as long as the version has not been dropped.                       *)
Read(q) == {{}, {IF run[q].active \in kept THEN "whole" ELSE "torn"}}

SearchCode(q) ==
    /\ At(q, "search")
    /\ \E found \in Read(q) : CallReturns(q, found)
    /\ UNCHANGED repository

(* get_history authorizes the installation again; a repository that was    *)
(* removed from it fails at GitHub.                                        *)
GetHistory(q) ==
    /\ At(q, "history")
    /\ \/ mode = "installation" /\ access = "denied" /\ Goes(q, "not_found")
       \/ \E found \in {{}, {"history"}} : CallReturns(q, found)
    /\ UNCHANGED repository

FindCallers(q) ==
    /\ At(q, "callers")
    /\ Becomes(q, Checking(run[q], "graph"))
    /\ UNCHANGED repository

ReadBuild(q) ==
    /\ At(q, "build")
    /\ \/ Active = run[q].active /\ Goes(q, "edges")
       \/ Active # run[q].active /\ CallFails(q, TRUE)
    /\ UNCHANGED repository

ReadEdges(q) ==
    /\ At(q, "edges")
    /\ \E found \in Read(q) : CallReturns(q, found)
    /\ UNCHANGED repository

InTool(q) == run[q].pc \in Executing \/ (run[q].pc \in Authorizing /\ run[q].why = "graph")

(* A tool rejects its arguments, its result is too large, its service      *)
(* fails, or its time is over; the check before it can only run out of     *)
(* time, which counts as the tool's.                                       *)
ToolFails(q) ==
    /\ "tool" \in Faults
    /\ \/ InTool(q) /\ \E outage \in BOOLEAN : CallFails(q, outage)
       \/ run[q].pc \in Authorizing /\ run[q].why \in Tools /\ CallFails(q, TRUE)
    /\ UNCHANGED repository

(* Any other exception: of the database, or a client's transport error.    *)
RunRaises(q) ==
    /\ "transport" \in Faults /\ run[q].pc \in Steps
    /\ Goes(q, "error")
    /\ UNCHANGED repository

(* agent_total_timeout_seconds.                                            *)
RunTimesOut(q) ==
    /\ "timeout" \in Faults /\ run[q].pc \in Steps
    /\ Goes(q, "unavailable")
    /\ UNCHANGED repository

Step(q) ==
    \/ ReadMembership(q) \/ CheckVisibility(q) \/ ReadRow(q) \/ LoadIndex(q)
    \/ Decide(q) \/ SearchCode(q) \/ GetHistory(q)
    \/ FindCallers(q) \/ ReadBuild(q) \/ ReadEdges(q)

-----------------------------------------------------------------------------
(* The repository                                                          *)

(* activate: a complete version becomes the active one.                    *)
Publish(j, c) ==
    /\ Index!Publish(j, c)
    /\ kept' = kept \cup {Active + 1}
    /\ open' = TRUE
    /\ UNCHANGED <<mode, access, visible, run>>

(* The worker drops the points and rows of a superseded version.           *)
DropSuperseded(v) ==
    /\ v \in kept /\ v # Active
    /\ kept' = kept \ {v}
    /\ UNCHANGED <<published, mode, access, visible, open, run>>

(* The repository is removed or the installation suspended, or only the    *)
(* user's membership ends.                                                 *)
Revoke ==
    /\ access = "granted"
    /\ access' = "denied"
    /\ open' = FALSE \/ UNCHANGED open
    /\ UNCHANGED <<published, kept, mode, visible, run>>

Restore ==
    /\ access = "denied"
    /\ access' = "granted"
    /\ UNCHANGED <<published, kept, mode, visible, open, run>>

(* The status is set to access_revoked while access stays as it is:        *)
(* cancel_revoked acts on an authorization its worker read earlier, and    *)
(* access already lost in one way is lost in another.                      *)
CloseIndex ==
    /\ open /\ open' = FALSE
    /\ UNCHANGED <<published, kept, mode, access, visible, run>>

(* A job is queued or claimed: the status is no longer not_indexed.        *)
Reopen ==
    /\ ~open /\ open' = TRUE
    /\ UNCHANGED <<published, kept, mode, access, visible, run>>

VisibilityChanges ==
    /\ visible' = ~visible
    /\ UNCHANGED <<published, kept, mode, access, open, run>>

-----------------------------------------------------------------------------

(* History: the facts seen since the run began or its last call ended.     *)
Observe ==
    held' = [q \in Questions |->
               (IF run[q].pc # "idle" /\ run'[q].calls = run[q].calls THEN held[q] ELSE {})
               \cup Holding(q)']

Change ==
    \/ \E q \in Questions : Ask(q) \/ Step(q) \/ ToolFails(q) \/ RunRaises(q) \/ RunTimesOut(q)
    \/ \E j \in Jobs, c \in Commits : Publish(j, c)
    \/ \E v \in kept : DropSuperseded(v)
    \/ Revoke \/ Restore \/ CloseIndex \/ Reopen \/ VisibilityChanges

Next == Change /\ Observe

Spec == Init /\ [][Next]_vars

(* Every await of a run returns or raises: the clients, the provider and   *)
(* the database have timeouts of their own.                                *)
FairSpec == Spec /\ \A q \in Questions : WF_vars(Step(q) /\ Observe)

-----------------------------------------------------------------------------
(* Properties                                                              *)

(* The language model and the user are given evidence of the active index  *)
(* only, complete when it was read, although versions are published and    *)
(* dropped between the search and the answer (docs/BUILD_STATUS.md:51:     *)
(* old and new evidence are never mixed).                                  *)
EvidenceFromActiveIndex ==
    \A q \in Questions : run[q].pc \in {"decide", "answered"} => "torn" \notin run[q].evidence

(* Since its last tool call ended, a run that sends evidence to the        *)
(* provider, calls a tool or answers has seen the user authorized, the     *)
(* public repository visible and its version active: a change that came    *)
(* before and lasts stops it (docs/ARCHITECTURE.md:181).                   *)
CheckedSinceLastCall ==
    \A q \in Questions :
        \/ run[q].pc = "decide" /\ run[q].evidence # {}
        \/ run[q].pc \in Tools \cup {"answered"}
        => held[q] = Facts

(* The inductive invariant behind both.  A run that has begun its loop has *)
(* a version; versions are only ever dropped behind the active one; torn   *)
(* evidence betrays a version that is active no more; and each step of a   *)
(* check has seen what it asked for.                                       *)
Fresh(r) == r.pc = "idle" \/ (r.pc \in Authorizing /\ r.why = "start")

RunOK(r, seen) ==
    /\ Fresh(r) => r.active = 0 /\ r.evidence = {}
    /\ r.pc \in Steps /\ ~Fresh(r) => r.active > 0
    /\ r.pc \in Steps \cup {"idle"} => r.calls < MaxCalls
    /\ r.active <= Active
    /\ "torn" \in r.evidence => r.active < Active
    /\ r.pc \in {"decide", "answered"} => "torn" \notin r.evidence
    /\ r.pc \in {"row", "index"} => "visible" \in seen
    /\ r.pc = "index" => "granted" \in seen
    /\ \/ r.pc = "decide" /\ r.evidence # {}
       \/ r.pc \in Tools \cup {"answered"}
       => seen = Facts

RunInv ==
    /\ Active > 0 => Active \in kept
    /\ \A q \in Questions : Holding(q) \subseteq held[q] /\ RunOK(run[q], held[q])

(* The loop ends by itself, without the total timeout: whatever fails or   *)
(* repeats, every iteration leaves a step in the bounded trace.            *)
LoopEnds == \A q \in Questions : run[q].pc \in Steps ~> run[q].pc \in Outcomes
=============================================================================
