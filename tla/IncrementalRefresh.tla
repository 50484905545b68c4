--------------------------- MODULE IncrementalRefresh ---------------------------
(***************************************************************************)
(* How a refresh decides what to embed again: the comparison that GitHub   *)
(* makes of the indexed commit and the new one, the plan drawn from it,    *)
(* and the vectors of the active version that are read back, point by      *)
(* point, while that version may be dropped.  A file stands for its one    *)
(* chunk, a content for a chunk's hash and position.                       *)
(***************************************************************************)
EXTENDS Naturals, FiniteSets, FiniteSetsExt

CONSTANTS
    Files,
    MaxContent,          \* bound on the contents a file may have; 0 is no file
    MaxListed,           \* paths that GitHub's comparison lists of any larger number
    MaxChangedFiles,     \* freshness_max_changed_files
    MaxChangedBytes      \* freshness_max_changed_bytes; a file's content is its size

ASSUME RefreshLimits ==
    /\ MaxListed \in Nat /\ MaxChangedFiles \in Nat \ {0} /\ MaxChangedBytes \in Nat
    /\ IsFiniteSet(Files) /\ MaxContent \in Nat

VARIABLES
    base, head,      \* the commits: the content of every file
    ancestry,        \* what GitHub says of head, compared with base
    asked,           \* the job's requested_mode
    points,          \* points of the active version that search with its fingerprints
    phase,           \* where the refresh is
    plan,            \* actual_mode, fallback_reason and the classified changes
    unread,          \* points the scroll has not returned yet
    reused,          \* files whose vectors have been read, with their contents
    recorded,        \* the mode that the job row shows
    built            \* the vectors of the new version: the content each was made from

refresh == <<base, head, ancestry, asked, points, phase, plan, unread, reused, recorded, built>>

Contents == 0 .. MaxContent
CommitTrees == [Files -> Contents]
Point == Files \X Contents
Modes == {"incremental", "full"}

PlanRow ==
    [mode : Modes,
     reason : {"none", "missing_active_index", "requested_full_rebuild", "comparison_unavailable",
               "non_fast_forward", "unsafe_comparison", "comparison_file_limit",
               "changed_bytes_limit", "previous_artifact_missing"},
     targets : SUBSET Files, removed : SUBSET Files]

NoPlan == [mode |-> "full", reason |-> "none", targets |-> {}, removed |-> {}]

RefreshTypeOK ==
    /\ base \in CommitTrees /\ head \in CommitTrees
    /\ ancestry \in {"ahead", "diverged", "unsafe", "unavailable", "no_index"}
    /\ asked \in Modes
    /\ points \subseteq Point /\ unread \subseteq Point /\ reused \subseteq Point
    /\ phase \in {"cloned", "compared", "planned", "reusing", "embedding", "built", "failed"}
    /\ plan \in PlanRow
    /\ recorded \in Modes \cup {"none"}
    /\ built \subseteq Point
    /\ phase # "cloned" /\ plan.mode = "full" => plan.reason # "none"

(* Some chunks of the base may have been stored under fingerprints that    *)
(* are no longer the configured ones: their points do not count.           *)
RefreshInit ==
    /\ base \in CommitTrees /\ head \in CommitTrees
    /\ ancestry \in {"ahead", "diverged", "unsafe", "unavailable", "no_index"}
    /\ asked \in Modes
    /\ points \in IF ancestry = "no_index" THEN {{}}
                  ELSE {{}, {<<f, base[f]>> : f \in {f \in Files : base[f] # 0}}}
    /\ phase = "cloned" /\ plan = NoPlan
    /\ unread = {} /\ reused = {} /\ recorded = "none" /\ built = {}

-----------------------------------------------------------------------------
(* classify_comparison.  A rename, one entry of the comparison, removes the *)
(* one name and sets the other.                                            *)
Targets == {f \in Files : head[f] # 0 /\ head[f] # base[f]}
RemovedPaths == {f \in Files : head[f] = 0 /\ base[f] # 0}

(* What GitHub lists: every path, or some of very many.                    *)
Compared ==
    {paths \in SUBSET (Targets \cup RemovedPaths) :
        paths = Targets \cup RemovedPaths \/ Cardinality(paths) >= MaxListed}

EntryCounts(paths) ==
    {n \in 0 .. Cardinality(paths) :
        n >= Cardinality(paths \cap Targets) /\ n >= Cardinality(paths \cap RemovedPaths)}

Changed(paths) == [mode |-> "incremental", reason |-> "none", targets |-> paths \cap Targets,
                   removed |-> paths \cap RemovedPaths]

Fallback(classified, reason) == [classified EXCEPT !.mode = "full", !.reason = reason]

(* plan_refresh, in its order.                                             *)
PlanRefresh(paths, entries) ==
    CASE ancestry = "no_index" -> Fallback(NoPlan, "missing_active_index")
      [] ancestry # "no_index" /\ asked = "full" -> Fallback(NoPlan, "requested_full_rebuild")
      [] asked = "incremental" /\ ancestry = "unavailable" -> Fallback(NoPlan, "comparison_unavailable")
      [] asked = "incremental" /\ ancestry = "diverged" -> Fallback(NoPlan, "non_fast_forward")
      [] asked = "incremental" /\ ancestry = "unsafe" -> Fallback(NoPlan, "unsafe_comparison")
      [] OTHER -> IF entries >= MaxChangedFiles
                  THEN Fallback(Changed(paths), "comparison_file_limit") ELSE Changed(paths)

Compare ==
    /\ phase = "cloned" /\ phase' = "compared"
    /\ \E paths \in Compared : \E entries \in EntryCounts(paths) : plan' = PlanRefresh(paths, entries)
    /\ UNCHANGED <<base, head, ancestry, asked, points, unread, reused, recorded, built>>

Size(tree, files) == MapThenSumSet(LAMBDA f : tree[f], files)
OverBytes(files) == Size(head, files) > MaxChangedBytes

(* After the analysis: the sizes of the changed files that were found.     *)
RecordPlan ==
    LET final == IF plan.mode = "incremental" /\ OverBytes(plan.targets)
                 THEN Fallback(plan, "changed_bytes_limit") ELSE plan
    IN
    /\ phase = "compared"
    /\ plan' = final /\ recorded' = final.mode
    /\ phase' = "planned"
    /\ UNCHANGED <<base, head, ancestry, asked, points, unread, reused, built>>

-----------------------------------------------------------------------------
(* _embed_and_store.                                                       *)
Prepared == {<<f, head[f]>> : f \in {f \in Files : head[f] # 0}}

Reusable == {p \in Prepared : p[1] \notin plan.targets}

BeginReuse ==
    /\ phase = "planned"
    /\ phase' = IF plan.mode = "incremental" THEN "reusing" ELSE "embedding"
    /\ unread' = IF plan.mode = "incremental" THEN points ELSE {}
    /\ UNCHANGED <<base, head, ancestry, asked, points, plan, reused, recorded, built>>

(* reusable_vectors keeps what matches a prepared chunk in every respect.  *)
Wanted_ByPath(p) == \E q \in Reusable : q[1] = p[1]
Wanted(p) == p \in Reusable

Scroll(p) ==
    /\ phase = "reusing" /\ p \in unread \cap points
    /\ unread' = unread \ {p}
    /\ reused' = IF Wanted(p) THEN reused \cup {p} ELSE reused
    /\ UNCHANGED <<base, head, ancestry, asked, points, phase, plan, recorded, built>>

Complete_Any == reused # {} \/ Reusable = {}
Complete == Cardinality(reused) = Cardinality(Reusable)

EndScroll ==
    /\ phase = "reusing" /\ unread \cap points = {}
    /\ phase' = "embedding"
    /\ IF Complete THEN UNCHANGED <<plan, reused, recorded>>
       ELSE /\ reused' = {} /\ recorded' = "full"
            /\ plan' = [plan EXCEPT !.reason = "previous_artifact_missing"]
    /\ UNCHANGED <<base, head, ancestry, asked, points, unread, built>>

ToEmbed == {p \in Prepared : p[1] \notin {q[1] : q \in reused}}

Embed ==
    /\ phase = "embedding" /\ phase' = "built"
    /\ built' = reused \cup ToEmbed
    /\ UNCHANGED <<base, head, ancestry, asked, points, plan, unread, reused, recorded>>

(* Qdrant or the embedding service fails, or a vector is not a unit vector.*)
RefreshFails ==
    /\ phase \in {"reusing", "embedding"} /\ phase' = "failed"
    /\ UNCHANGED <<base, head, ancestry, asked, points, plan, unread, reused, recorded, built>>

(* Another worker activates a version of its own and drops this one.       *)
DropPoint(p) ==
    /\ p \in points /\ points' = points \ {p}
    /\ UNCHANGED <<base, head, ancestry, asked, phase, plan, unread, reused, recorded, built>>

RefreshNext ==
    \/ Compare \/ RecordPlan \/ BeginReuse \/ EndScroll \/ Embed \/ RefreshFails
    \/ \E p \in points : Scroll(p) \/ DropPoint(p)

RefreshSpec == RefreshInit /\ [][RefreshNext]_refresh

-----------------------------------------------------------------------------
(* However little is embedded again, the new version is made of what the   *)
(* commit contains: one vector per chunk, each from its present content    *)
(* (reusable_vectors matches contents, whatever the comparison left out).  *)
BuiltFromHead == phase = "built" => built = Prepared

(* The job row says incremental only of a refresh that has embedded none   *)
(* but changed files, in numbers and sizes within the limits; a version    *)
(* that lost points meanwhile is embedded from scratch and says so.        *)
ModeTruthful ==
    phase = "built" =>
        IF recorded = "incremental"
        THEN /\ ToEmbed \subseteq {p \in Prepared : base[p[1]] # p[2]}
             /\ Cardinality(Targets) < MaxChangedFiles
             /\ ~OverBytes(Targets)
        ELSE reused = {}
=============================================================================
