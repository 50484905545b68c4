---------------------------- MODULE StaticAnalysis ----------------------------
(***************************************************************************)
(* One job's private checkout: git clones it into a workspace, discovery   *)
(* lists its files, and a child process parses them, whose progress and    *)
(* result come back through a pipe that the worker polls.  Each of the     *)
(* processes may fail, hang or be killed; whatever happens, they end and   *)
(* the workspace goes.  A process that has been sent SIGKILL is taken to   *)
(* end.                                                                    *)
(***************************************************************************)
EXTENDS Naturals, Sequences, FiniteSets

CONSTANTS
    Entries,         \* what the checkout may contain
    MaxFileCount,    \* clone_max_file_count
    AnalysisFaults   \* subset of {"git", "kill", "cleanup", "lease"}

ASSUME EntriesFinite == IsFiniteSet(Entries)

VARIABLES
    worker,      \* where the job is
    outcome,     \* what it ends with
    workspace,   \* its temporary directory
    tree,        \* what each entry is, once git has written it
    git,         \* the git process
    child,       \* the parser process
    pipe,        \* messages sent and not received
    stages,      \* stages the job row has shown, in order
    late,        \* the deadline of the process waited for has passed
    raced        \* auxiliary: the child has ended between a poll and is_alive

analysis == <<worker, outcome, workspace, tree, git, child, pipe, stages, late, raced>>

(* Source code and documentation are discovered; data files are, and then  *)
(* skipped; "ignored" are large and binary files and unsupported types,     *)
(* "passed" other directories and links, but "escape", a link out of the   *)
(* checkout.                                                               *)
EntryKinds == {"absent", "source", "document", "data", "ignored", "passed", "escape"}

JobOutcomes == {"none", "current", "analyzed", "clone_timeout", "clone_failed", "rejected",
              "lease_lost", "internal_parser_failure", "parser_timeout", "clone_cleanup_failed"}

ChildRow ==
    [pc : {"none", "scanning", "chunking", "graphing", "sent", "closed"}, todo : SUBSET Entries,
     parsed : Nat, partial : Nat, skipped : Nat, large : BOOLEAN]

NoChild == [pc |-> "none", todo |-> {}, parsed |-> 0, partial |-> 0, skipped |-> 0, large |-> FALSE]

Messages == {"chunking", "graphing", "result", "error"}

AnalysisTypeOK ==
    /\ worker \in {"idle", "cloning", "terminating", "reading_commit", "checked_out", "discovered",
                   "polling", "quiet", "callback", "closing", "joining", "leaving", "ended"}
    /\ outcome \in JobOutcomes
    /\ workspace \in {"none", "present", "removed"}
    /\ tree \in [Entries -> EntryKinds]
    /\ git \in {"none", "running", "failed", "exited", "killed"}
    /\ child \in ChildRow
    /\ pipe \in Seq(Messages) /\ Len(pipe) <= 3
    /\ stages \in Seq({"discovering", "parsing", "chunking", "building_graph"})
    /\ late \in BOOLEAN /\ raced \in BOOLEAN
    /\ worker = "ended" => outcome # "none"

AnalysisInit ==
    /\ worker = "idle" /\ outcome = "none" /\ workspace = "none"
    /\ tree = [e \in Entries |-> "absent"]
    /\ git = "none" /\ child = NoChild /\ pipe = <<>> /\ stages = <<>>
    /\ late = FALSE /\ raced = FALSE

-----------------------------------------------------------------------------
(* Cloning.                                                                *)

StartClone ==
    /\ worker = "idle"
    /\ worker' = "cloning" /\ workspace' = "present" /\ git' = "running"
    /\ UNCHANGED <<outcome, tree, child, pipe, stages, late, raced>>

(* git fails, or leaves a checkout; rev-parse, too, may fail or print      *)
(* something else.                                                         *)
GitExits ==
    /\ git = "running"
    /\ \/ /\ git' = "exited"
          /\ tree' \in IF worker = "cloning" THEN [Entries -> EntryKinds] ELSE {tree}
       \/ "git" \in AnalysisFaults /\ git' = "failed" /\ UNCHANGED tree
    /\ UNCHANGED <<worker, outcome, workspace, child, pipe, stages, late, raced>>

HasDeadline_OnlyGit == worker \in {"cloning", "reading_commit"}
HasDeadline == worker \in {"cloning", "reading_commit", "polling", "quiet", "callback"}

DeadlinePasses ==
    /\ HasDeadline /\ ~late /\ late' = TRUE
    /\ UNCHANGED <<worker, outcome, workspace, tree, git, child, pipe, stages, raced>>

(* _remove_workspace, which may fail and then is what the job fails with.  *)
(* (The job itself tries twice: the second time may succeed.)              *)
Removed(result) ==
    \/ workspace' = "removed" /\ outcome' = result
    \/ /\ "cleanup" \in AnalysisFaults /\ outcome' = "clone_cleanup_failed"
       /\ workspace' \in {workspace} \cup IF result \in {"current", "analyzed"} THEN {"removed"} ELSE {}

TerminateGit ==
    /\ worker \in {"cloning", "reading_commit"}
    /\ git = "running" /\ late
    /\ worker' = "terminating" /\ git' = "killed"
    /\ UNCHANGED <<outcome, workspace, tree, child, pipe, stages, late, raced>>

CloneTimesOut ==
    /\ worker = "terminating"
    /\ Removed("clone_timeout") /\ worker' = "ended"
    /\ UNCHANGED <<tree, git, child, pipe, stages, late, raced>>

(* A checkout that is too large is rejected, before its commit is read.    *)
CloneFails ==
    /\ worker \in {"cloning", "reading_commit"} /\ git = "failed"
    /\ Removed(IF worker = "cloning" THEN "clone_failed" ELSE "rejected") /\ worker' = "ended"
    /\ UNCHANGED <<tree, git, child, pipe, stages, late, raced>>

TooLarge ==
    /\ worker = "cloning" /\ git = "exited"
    /\ Removed("rejected") /\ worker' = "ended"
    /\ UNCHANGED <<tree, git, child, pipe, stages, late, raced>>

ReadCommit ==
    /\ worker = "cloning" /\ git = "exited"
    /\ worker' = "reading_commit" /\ git' = "running" /\ late' = FALSE
    /\ UNCHANGED <<outcome, workspace, tree, child, pipe, stages, raced>>

CheckedOut ==
    /\ worker = "reading_commit" /\ git = "exited"
    /\ worker' = "checked_out" /\ late' = FALSE
    /\ UNCHANGED <<outcome, workspace, tree, git, child, pipe, stages, raced>>

-----------------------------------------------------------------------------
(* _process_authorized and _analyze, up to the child's start.              *)

Leave(result) == worker' = "leaving" /\ outcome' = result

TargetActive ==
    /\ worker = "checked_out" /\ Leave("current")
    /\ UNCHANGED <<workspace, tree, git, child, pipe, stages, late, raced>>

Stage(stage) == stages' = Append(stages, stage)

(* stage raises once the lease is lost; so do the callbacks below.         *)
LeaseLost ==
    /\ "lease" \in AnalysisFaults
    /\ worker \in {"checked_out", "discovered"} /\ Leave("lease_lost")
    /\ UNCHANGED <<workspace, tree, git, child, pipe, stages, late, raced>>

Of(kinds) == {e \in Entries : tree[e] \in kinds}

Rejected ==
    Of({"escape"}) # {}
    \/ Cardinality(Of({"source", "document", "data", "ignored"})) > MaxFileCount

(* Whatever the tree, the file system may fail, or the files' bytes be too *)
(* many.                                                                   *)
Discover ==
    /\ worker = "checked_out" /\ Stage("discovering")
    /\ \/ Leave("rejected")
       \/ ~Rejected /\ worker' = "discovered" /\ UNCHANGED outcome
    /\ UNCHANGED <<workspace, tree, git, child, pipe, late, raced>>

StartChild ==
    /\ worker = "discovered" /\ Stage("parsing")
    /\ worker' = "polling"
    /\ child' = [NoChild EXCEPT !.pc = "scanning", !.todo = Of({"source", "document", "data"})]
    /\ UNCHANGED <<outcome, workspace, tree, git, pipe, late, raced>>

-----------------------------------------------------------------------------
(* The child: RepositoryAnalyzer.analyze in _analyzer_process.             *)

Working == child.pc \in {"scanning", "chunking", "graphing"}
Alive == Working \/ child.pc = "sent"

PipeClosed == worker \notin {"polling", "quiet", "callback"}

Close == child' = [child EXCEPT !.pc = "closed"]

(* send, which fails once the worker has closed its end.                   *)
Emit(message, next) ==
    \/ PipeClosed /\ Close /\ UNCHANGED pipe
    \/ ~PipeClosed /\ pipe' = Append(pipe, message) /\ child' = next

Counts(f) ==
    CASE tree[f] = "source" -> {"parsed", "partial", "skipped"}
      [] tree[f] = "document" -> {"parsed", "skipped"}
      [] OTHER -> {"skipped"}

Count(f, count) == [child EXCEPT !.todo = @ \ {f}, ![count] = @ + 1]

ScanFile(f) ==
    /\ child.pc = "scanning" /\ f \in child.todo
    /\ \E count \in Counts(f) : child' = Count(f, count)
    /\ UNCHANGED <<worker, outcome, workspace, tree, git, pipe, stages, late, raced>>

EndScan ==
    /\ child.pc = "scanning" /\ child.todo = {}
    /\ Emit("chunking", [child EXCEPT !.pc = "chunking"])
    /\ UNCHANGED <<worker, outcome, workspace, tree, git, stages, late, raced>>

EndChunks ==
    /\ child.pc = "chunking"
    /\ Emit("graphing", [child EXCEPT !.pc = "graphing"])
    /\ UNCHANGED <<worker, outcome, workspace, tree, git, stages, late, raced>>

(* A result that is larger than the pipe's buffer stays with the child     *)
(* until the worker receives it.                                           *)
SendResult ==
    /\ child.pc = "graphing"
    /\ \E large \in BOOLEAN : Emit("result", [child EXCEPT !.pc = "sent", !.large = large])
    /\ UNCHANGED <<worker, outcome, workspace, tree, git, stages, late, raced>>

(* An unsafe path, a limit, or any other exception.                        *)
SendError ==
    /\ Working
    /\ Emit("error", [child EXCEPT !.pc = "sent", !.large = FALSE])
    /\ UNCHANGED <<worker, outcome, workspace, tree, git, stages, late, raced>>

Ends == raced' = (raced \/ (worker = "quiet" /\ pipe' # <<>>))

ChildExits ==
    /\ child.pc = "sent" /\ (child.large => pipe = <<>> \/ PipeClosed)
    /\ Close /\ UNCHANGED pipe /\ Ends
    /\ UNCHANGED <<worker, outcome, workspace, tree, git, stages, late>>

(* The kernel ends it at its CPU limit, with what it has not sent yet.     *)
ChildKilled ==
    /\ "kill" \in AnalysisFaults
    /\ Working \/ (child.pc = "sent" /\ child.large /\ pipe # <<>>)
    /\ Close /\ pipe' = IF Working THEN pipe ELSE SubSeq(pipe, 1, Len(pipe) - 1)
    /\ Ends
    /\ UNCHANGED <<worker, outcome, workspace, tree, git, stages, late>>

-----------------------------------------------------------------------------
(* ProcessIsolatedAnalyzer.analyze: the deadline, a poll, what was         *)
(* received, is_alive, a sleep.                                            *)

Concludes(result) == worker' = "closing" /\ outcome' = result

ParserTimesOut ==
    /\ worker = "polling" /\ late /\ Concludes("parser_timeout")
    /\ UNCHANGED <<workspace, tree, git, child, pipe, stages, late, raced>>

EndOfFile_Exited == child.pc = "closed"
EndOfFile == pipe = <<>> /\ child.pc = "closed"

Received(result) ==
    CASE result = "result" -> Concludes("analyzed")
      [] result = "error" -> Concludes("rejected")
      [] OTHER -> worker' = "callback" /\ UNCHANGED outcome

PollFinds ==
    /\ worker = "polling" /\ ~late
    /\ \/ pipe # <<>> /\ Received(Head(pipe))
       \/ EndOfFile /\ Concludes("internal_parser_failure")
    /\ UNCHANGED <<workspace, tree, git, child, pipe, stages, late, raced>>

PollFindsNothing ==
    /\ worker = "polling" /\ ~late /\ pipe = <<>> /\ ~EndOfFile
    /\ worker' = "quiet"
    /\ UNCHANGED <<outcome, workspace, tree, git, child, pipe, stages, late, raced>>

(* The callback, of the message that is still at the head of pipe here.    *)
CallBack ==
    /\ worker = "callback"
    /\ pipe' = Tail(pipe)
    /\ \/ /\ Stage(IF Head(pipe) = "chunking" THEN "chunking" ELSE "building_graph")
          /\ worker' = "polling" /\ UNCHANGED outcome
       \/ "lease" \in AnalysisFaults /\ Concludes("lease_lost") /\ UNCHANGED stages
    /\ UNCHANGED <<workspace, tree, git, child, late, raced>>

CheckAlive ==
    /\ worker = "quiet"
    /\ IF Alive THEN worker' = "polling" /\ UNCHANGED outcome
       ELSE Concludes("internal_parser_failure")
    /\ UNCHANGED <<workspace, tree, git, child, pipe, stages, late, raced>>

(* The finally block: close, terminate what is alive, join, kill.          *)
Terminate ==
    /\ worker = "closing" /\ worker' = "joining"
    /\ UNCHANGED <<outcome, workspace, tree, git, child, pipe, stages, late, raced>>

SignalEnds ==
    /\ worker = "joining" /\ Alive
    /\ Close
    /\ UNCHANGED <<worker, outcome, workspace, tree, git, pipe, stages, late, raced>>

HasEnded_TimedOut == TRUE
HasEnded == ~Alive

Join ==
    /\ worker = "joining" /\ HasEnded
    /\ worker' = "leaving"
    /\ UNCHANGED <<outcome, workspace, tree, git, child, pipe, stages, late, raced>>

(* The rest of the job, or what it raised, ends with cleanup.              *)
Cleanup ==
    /\ worker = "leaving"
    /\ Removed(outcome) /\ worker' = "ended"
    /\ UNCHANGED <<tree, git, child, pipe, stages, late, raced>>

-----------------------------------------------------------------------------
WorkerStep ==
    \/ TerminateGit \/ CloneTimesOut \/ CloneFails \/ TooLarge \/ ReadCommit
    \/ CheckedOut \/ TargetActive \/ LeaseLost \/ Discover \/ StartChild
    \/ ParserTimesOut \/ PollFinds \/ PollFindsNothing \/ CallBack \/ CheckAlive
    \/ Terminate \/ Join \/ Cleanup

ChildStep ==
    \/ \E f \in Entries : ScanFile(f)
    \/ EndScan \/ EndChunks \/ SendResult \/ SendError \/ ChildExits \/ ChildKilled

AnalysisNext == StartClone \/ WorkerStep \/ GitExits \/ DeadlinePasses \/ ChildStep \/ SignalEnds

(* git and the child may hang; the worker, the clock and a signal do not.  *)
AnalysisFairness ==
    WF_analysis(WorkerStep) /\ WF_analysis(DeadlinePasses) /\ WF_analysis(SignalEnds)

AnalysisSpec == AnalysisInit /\ [][AnalysisNext]_analysis
AnalysisFairSpec == AnalysisSpec /\ AnalysisFairness

-----------------------------------------------------------------------------
(* No process works in a directory that has been removed: every path that  *)
(* removes it has waited for git and for the child (the finally blocks of  *)
(* clone, analyze and _process_authorized nest).                           *)
ReadersHaveWorkspace == git = "running" \/ Alive => workspace = "present"

(* However the job ends, it leaves no process behind, and a workspace only *)
(* with the error that says so.                                            *)
JobLeavesNothing ==
    worker = "ended" =>
        /\ git # "running" /\ ~Alive
        /\ workspace = "removed" \/ outcome = "clone_cleanup_failed"

(* Each file that was discovered is parsed, partly parsed or skipped once  *)
(* in a result that is accepted.                                           *)
EveryFileCounted ==
    outcome = "analyzed" =>
        child.parsed + child.partial + child.skipped
            = Cardinality(Of({"source", "document", "data"}))

(* A parser is reported failed only if it ended without a message that is  *)
(* still to be received, or in the moment between a poll that found none   *)
(* and is_alive (ProcessIsolatedAnalyzer.analyze does not poll again).     *)
ParserFailureExplained == outcome = "internal_parser_failure" => pipe = <<>> \/ raced

(* What the worker is told of the parsing is what the child came to.       *)
ParsingReported == ParserFailureExplained /\ EveryFileCounted

(* Every job leaves its checkout, though git and the parser may hang, and  *)
(* leaves nothing else behind.                                             *)
AnalysisEnds == worker = "cloning" ~> worker = "ended" /\ JobLeavesNothing
=============================================================================
