-------------------------- MODULE Repositories_proofs --------------------------
(***************************************************************************)
(* What is proved of the rows of repositories: of imports and refreshes of *)
(* public ones, of the listings of an installation next to its webhooks,   *)
(* and of the vectors that a refresh reads back; for any numbers of users, *)
(* repositories, requests, pages, files and changes.                       *)
(***************************************************************************)
EXTENDS PublicImport, RepositoryListing, IncrementalRefresh, FiniteSetTheorems, TLAPS

(* What is read back are chunks of the new commit.                         *)
RefreshInv ==
    /\ reused \subseteq Prepared
    /\ BuiltFromHead

LEMMA InitRefresh == RefreshInit => RefreshInv
  BY DEF RefreshInit, RefreshInv, BuiltFromHead

(* The vectors that are read back and the chunks that are embedded make up *)
(* the commit: a path has one chunk.                                       *)
LEMMA ReusedAndEmbedded ==
  ASSUME reused \subseteq Prepared
  PROVE  reused \cup ToEmbed = Prepared
  <1>1. ASSUME NEW p \in Prepared, NEW q \in Prepared, p[1] = q[1]
        PROVE  p = q
    BY <1>1 DEF Prepared
  <1> QED
    BY <1>1 DEF ToEmbed

LEMMA RefreshInductive == RefreshInv /\ [RefreshNext]_refresh => RefreshInv'
  <1> SUFFICES ASSUME RefreshInv, [RefreshNext]_refresh PROVE RefreshInv'
    OBVIOUS
  <1> USE DEF RefreshInv, BuiltFromHead
  <1>1. CASE Compare
    BY <1>1 DEF Compare, Prepared
  <1>2. CASE RecordPlan
    BY <1>2 DEF RecordPlan, Prepared
  <1>3. CASE BeginReuse
    BY <1>3 DEF BeginReuse, Prepared
  <1>4. CASE EndScroll
    BY <1>4 DEF EndScroll, Prepared
  <1>5. CASE Embed
    BY <1>5, ReusedAndEmbedded DEF Embed, Prepared
  <1>6. CASE RefreshFails
    BY <1>6 DEF RefreshFails, Prepared
  <1>7. ASSUME NEW p \in points, Scroll(p) PROVE RefreshInv'
    BY <1>7 DEF Scroll, Wanted, Reusable, Prepared
  <1>8. ASSUME NEW p \in points, DropPoint(p) PROVE RefreshInv'
    BY <1>8 DEF DropPoint, Prepared
  <1>9. CASE UNCHANGED refresh
    BY <1>9 DEF refresh, Prepared
  <1> QED
    BY <1>1, <1>2, <1>3, <1>4, <1>5, <1>6, <1>7, <1>8, <1>9 DEF RefreshNext

(* Whatever a refresh reuses, and whatever is dropped meanwhile, the new   *)
(* version has one vector per chunk of its commit, made from that chunk    *)
(* (_embed_and_store).                                                     *)
THEOREM RefreshBuildsHead == RefreshSpec => []BuiltFromHead
  <1>1. RefreshInv => BuiltFromHead
    BY DEF RefreshInv
  <1> QED
    BY <1>1, InitRefresh, RefreshInductive, PTL DEF RefreshSpec

-----------------------------------------------------------------------------
(* The plan of a refresh, and the mode that the row shows.                 *)
(* The points there have been: one per file of the base.                   *)
BasePoints == {<<f, base[f]>> : f \in {f \in Files : base[f] # 0}}

PlanOK ==
    /\ plan.targets \subseteq Targets
    /\ phase # "cloned" /\ plan.mode = "incremental" => Cardinality(plan.targets) < MaxChangedFiles
    /\ phase \notin {"cloned", "compared"} /\ plan.mode = "incremental" => ~OverBytes(plan.targets)
    /\ phase # "cloned" /\ plan.mode = "full" => plan.reason # "none"

(* What the row shows is the plan's mode, unless vectors were missing.     *)
RecordedOK ==
    /\ phase \in {"cloned", "compared"} => recorded = "none"
    /\ phase \notin {"cloned", "compared"} => recorded \in Modes
    /\ phase = "planned" => recorded = plan.mode
    /\ recorded = "incremental" => plan.mode = "incremental"
    /\ phase = "reusing" => recorded = "incremental"
    /\ phase \in {"embedding", "built"} =>
          IF recorded = "incremental" THEN reused = Reusable ELSE reused = {}

ReusedOK ==
    /\ points \subseteq BasePoints /\ unread \subseteq BasePoints
    /\ reused \subseteq Reusable \cap BasePoints
    /\ phase \in {"cloned", "compared", "planned"} => reused = {}

ModeInv == RefreshTypeOK /\ PlanOK /\ RecordedOK /\ ReusedOK

LEMMA FilesFinite ==
  /\ IsFiniteSet(Targets) /\ Cardinality(Targets) \in Nat
  /\ \A S \in SUBSET Targets : Cardinality(S) \in Nat /\ Cardinality(S) <= Cardinality(Targets)
  <1>1. IsFiniteSet(Targets)
    BY RefreshLimits, FS_Subset DEF Targets
  <1> QED
    BY <1>1, FS_Subset, FS_CardinalityType

LEMMA PreparedFinite ==
  /\ IsFiniteSet(Reusable)
  /\ \A S \in SUBSET Reusable : Cardinality(S) = Cardinality(Reusable) => S = Reusable
  <1>1. IsFiniteSet(Prepared)
    <2>1. IsFiniteSet({f \in Files : head[f] # 0})
      BY RefreshLimits, FS_Subset
    <2> DEFINE of == {f \in Files : head[f] # 0}
    <2>2. IsFiniteSet({<<f, head[f]>> : f \in of})
      <3> DEFINE chunk == [f \in of |-> <<f, head[f]>>]
      <3>1. chunk \in Surjection(of, Prepared)
        BY DEF Surjection, Prepared
      <3> QED
        BY <2>1, <3>1, FS_Surjection DEF Prepared
    <2> QED
      BY <2>2 DEF Prepared
  <1>2. IsFiniteSet(Reusable)
    BY <1>1, FS_Subset DEF Reusable
  <1> QED
    BY <1>2, FS_Subset

(* The plan that is drawn from a comparison (plan_refresh): it is          *)
(* incremental only if fewer entries than the limit have been listed.      *)
LEMMA PlanDrawn ==
  ASSUME RefreshTypeOK, NEW paths \in Compared, NEW entries \in EntryCounts(paths)
  PROVE  LET p == PlanRefresh(paths, entries) IN
         /\ p \in PlanRow
         /\ p.targets \subseteq Targets
         /\ p.mode = "incremental" => Cardinality(p.targets) < MaxChangedFiles
         /\ p.mode = "full" => p.reason # "none"
  <1> DEFINE p == PlanRefresh(paths, entries)
  <1>1. PICK set \in SUBSET Files, gone \in SUBSET Files :
            set = paths \cap Targets /\ gone = paths \cap RemovedPaths /\ set \subseteq Targets
    <2>1. paths \cap Targets \in SUBSET Files /\ paths \cap RemovedPaths \in SUBSET Files
      BY DEF Targets, RemovedPaths
    <2> QED
      BY <2>1
  <1>2. /\ entries \in Nat /\ entries >= Cardinality(set)
        /\ Cardinality(set) \in Nat
    <2>1. Cardinality(paths) \in Nat
      <3>1. paths \subseteq Files
        BY DEF Compared, Targets, RemovedPaths
      <3> QED
        BY <3>1, RefreshLimits, FS_Subset, FS_CardinalityType
    <2> QED
      BY <1>1, <2>1, FilesFinite DEF EntryCounts
  <1>3. \/ p = [mode |-> "full", reason |-> "missing_active_index", targets |-> {}, removed |-> {}]
        \/ p = [mode |-> "full", reason |-> "requested_full_rebuild", targets |-> {},
                removed |-> {}]
        \/ p = [mode |-> "full", reason |-> "comparison_unavailable", targets |-> {},
                removed |-> {}]
        \/ p = [mode |-> "full", reason |-> "non_fast_forward", targets |-> {}, removed |-> {}]
        \/ p = [mode |-> "full", reason |-> "unsafe_comparison", targets |-> {}, removed |-> {}]
        \/ p = [mode |-> "full", reason |-> "comparison_file_limit", targets |-> set,
                removed |-> gone]
        \/ /\ p = [mode |-> "incremental", reason |-> "none", targets |-> set, removed |-> gone]
           /\ ~(entries >= MaxChangedFiles)
    BY <1>1 DEF PlanRefresh, Fallback, NoPlan, Changed
  <1>4. PICK q : q = p
    OBVIOUS
  <1> HIDE DEF p
  <1>5. \A mode \in Modes : \A t, g \in SUBSET Files :
          \A reason \in {"none", "missing_active_index", "requested_full_rebuild",
                         "comparison_unavailable", "non_fast_forward", "unsafe_comparison",
                         "comparison_file_limit"} :
            q = [mode |-> mode, reason |-> reason, targets |-> t, removed |-> g]
              => q \in PlanRow /\ q.targets = t /\ q.mode = mode /\ q.reason = reason
    BY DEF Modes, PlanRow
  <1>6. CASE q = [mode |-> "incremental", reason |-> "none", targets |-> set, removed |-> gone]
             /\ ~(entries >= MaxChangedFiles)
    <2>1. q \in PlanRow /\ q.targets = set /\ q.mode = "incremental"
      BY <1>1, <1>5, <1>6 DEF Modes
    <2>2. Cardinality(set) < MaxChangedFiles
      BY <1>2, <1>6, RefreshLimits
    <2> QED
      BY <1>1, <1>4, <2>1, <2>2 DEF p
  <1>7. CASE \E t \in {set, {}}, g \in {gone, {}} :
             \E reason \in {"missing_active_index", "requested_full_rebuild",
                         "comparison_unavailable", "non_fast_forward", "unsafe_comparison",
                         "comparison_file_limit"} :
                q = [mode |-> "full", reason |-> reason, targets |-> t, removed |-> g]
    <2>1. PICK t \in {set, {}}, g \in {gone, {}},
               reason \in {"missing_active_index", "requested_full_rebuild",
                         "comparison_unavailable", "non_fast_forward", "unsafe_comparison",
                         "comparison_file_limit"} :
                q = [mode |-> "full", reason |-> reason, targets |-> t, removed |-> g]
      BY <1>7
    <2>2. t \in SUBSET Files /\ g \in SUBSET Files /\ t \subseteq Targets
      BY <1>1
    <2>3. q \in PlanRow /\ q.targets = t /\ q.mode = "full" /\ q.reason = reason
      BY <1>5, <2>1, <2>2 DEF Modes
    <2> QED
      BY <1>4, <2>2, <2>3 DEF p
  <1> QED
    BY <1>3, <1>4, <1>6, <1>7

LEMMA CompareStep == ASSUME ModeInv, Compare PROVE ModeInv'
  <1>0. PICK paths \in Compared :
            \E entries \in EntryCounts(paths) : plan' = PlanRefresh(paths, entries)
    BY DEF Compare
  <1>1. PICK entries \in EntryCounts(paths) : plan' = PlanRefresh(paths, entries)
    BY <1>0
  <1>2. /\ phase = "cloned" /\ phase' = "compared"
        /\ UNCHANGED <<base, head, ancestry, asked, points, unread, reused, recorded, built>>
    BY DEF Compare
  <1>3. /\ plan' \in PlanRow /\ plan'.targets \subseteq Targets
        /\ plan'.mode = "incremental" => Cardinality(plan'.targets) < MaxChangedFiles
        /\ plan'.mode = "full" => plan'.reason # "none"
    BY <1>1, PlanDrawn DEF ModeInv
  <1>4. Targets' = Targets /\ BasePoints' = BasePoints /\ reused = {}
    BY <1>2 DEF Targets, BasePoints, ModeInv, ReusedOK
  <1>5. RefreshTypeOK'
    BY <1>2, <1>3 DEF ModeInv, RefreshTypeOK
  <1>6. PlanOK'
    BY <1>2, <1>3, <1>4 DEF PlanOK
  <1>7. RecordedOK'
    BY <1>2 DEF ModeInv, RecordedOK
  <1>8. ReusedOK'
    BY <1>2, <1>4 DEF ModeInv, ReusedOK
  <1> QED
    BY <1>5, <1>6, <1>7, <1>8 DEF ModeInv

LEMMA RecordPlanStep == ASSUME ModeInv, RecordPlan PROVE ModeInv'
  <1>1. /\ phase = "compared" /\ phase' = "planned" /\ recorded' = plan'.mode
        /\ UNCHANGED <<base, head, ancestry, asked, points, unread, reused, built>>
        /\ plan' = IF plan.mode = "incremental" /\ OverBytes(plan.targets)
                   THEN [plan EXCEPT !.mode = "full", !.reason = "changed_bytes_limit"] ELSE plan
    BY DEF RecordPlan, Fallback
  <1>2. PICK old \in PlanRow : old = plan
    BY DEF ModeInv, RefreshTypeOK
  <1>3. PICK full : full = [old EXCEPT !.mode = "full", !.reason = "changed_bytes_limit"]
    OBVIOUS
  <1>4. /\ full \in PlanRow /\ full.mode = "full" /\ full.targets = old.targets
        /\ full.reason = "changed_bytes_limit"
    BY <1>2, <1>3 DEF PlanRow, Modes
  <1>5. /\ plan' \in PlanRow /\ plan'.targets = plan.targets
        /\ plan'.mode = "incremental" => plan.mode = "incremental" /\ ~OverBytes(plan.targets)
        /\ plan'.mode = "full" => plan'.reason # "none"
    BY <1>1, <1>2, <1>3, <1>4 DEF ModeInv, RefreshTypeOK
  <1>6. Targets' = Targets /\ BasePoints' = BasePoints /\ reused = {}
    BY <1>1 DEF Targets, BasePoints, ModeInv, ReusedOK
  <1>7. RefreshTypeOK'
    BY <1>1, <1>5 DEF ModeInv, RefreshTypeOK, PlanRow
  <1>8. PlanOK'
    <2>1. head' = head
      BY <1>1
    <2>2. PICK t \in SUBSET Files : t = plan.targets /\ t = plan'.targets
      BY <1>2, <1>5 DEF PlanRow
    <2>4. t \subseteq Targets
      BY <2>2 DEF ModeInv, PlanOK
    <2>5. plan'.mode = "incremental" => Cardinality(t) < MaxChangedFiles /\ ~OverBytes(t)
      BY <1>1, <1>5, <2>2 DEF ModeInv, PlanOK
    <2>6. plan'.mode = "incremental" => ~(OverBytes(plan.targets)')
      BY <2>1, <2>2, <2>5 DEF OverBytes
    <2> QED
      BY <1>5, <1>6, <2>2, <2>4, <2>5, <2>6 DEF PlanOK
  <1>9. RecordedOK'
    BY <1>1, <1>5 DEF RecordedOK, PlanRow
  <1>10. ReusedOK'
    BY <1>1, <1>6 DEF ModeInv, ReusedOK
  <1> QED
    BY <1>7, <1>8, <1>9, <1>10 DEF ModeInv

(* The commits, the plan and what it may reuse stay as they are.           *)
LEMMA PlanStays ==
  ASSUME ModeInv, UNCHANGED <<base, head, plan>>
  PROVE  /\ Targets' = Targets /\ BasePoints' = BasePoints /\ Reusable' = Reusable
         /\ phase \notin {"cloned", "compared"} /\ phase' \notin {"cloned", "compared"} => PlanOK'
         /\ phase' = phase => PlanOK'
  <1>1. Targets' = Targets /\ BasePoints' = BasePoints /\ Reusable' = Reusable
    BY DEF Targets, BasePoints, Reusable, Prepared
  <1>2. OverBytes(plan.targets)' = OverBytes(plan.targets)
    BY DEF OverBytes
  <1> QED
    BY <1>1, <1>2 DEF ModeInv, PlanOK

LEMMA BeginReuseStep == ASSUME ModeInv, BeginReuse PROVE ModeInv'
  <1>1. /\ phase = "planned"
        /\ phase' = IF plan.mode = "incremental" THEN "reusing" ELSE "embedding"
        /\ unread' = IF plan.mode = "incremental" THEN points ELSE {}
        /\ UNCHANGED <<base, head, ancestry, asked, points, plan, reused, recorded, built>>
    BY DEF BeginReuse
  <1>2. Reusable' = Reusable /\ BasePoints' = BasePoints /\ PlanOK'
    BY <1>1, PlanStays
  <1>3. RefreshTypeOK'
    BY <1>1 DEF ModeInv, RefreshTypeOK
  <1>4. recorded = plan.mode /\ reused = {}
    BY <1>1 DEF ModeInv, RecordedOK, ReusedOK
  <1>5. RecordedOK'
    BY <1>1, <1>2, <1>4 DEF ModeInv, RecordedOK
  <1>6. ReusedOK'
    BY <1>1, <1>2 DEF ModeInv, ReusedOK
  <1> QED
    BY <1>2, <1>3, <1>5, <1>6 DEF ModeInv

LEMMA ScrollStep == ASSUME ModeInv, NEW p \in points, Scroll(p) PROVE ModeInv'
  <1>1. /\ phase = "reusing" /\ unread' = unread \ {p}
        /\ reused' = IF p \in Reusable THEN reused \cup {p} ELSE reused
        /\ UNCHANGED <<base, head, ancestry, asked, points, phase, plan, recorded, built>>
    BY DEF Scroll, Wanted
  <1>2. Reusable' = Reusable /\ BasePoints' = BasePoints /\ PlanOK'
    BY <1>1, PlanStays
  <1>3. RefreshTypeOK'
    BY <1>1 DEF ModeInv, RefreshTypeOK
  <1>4. RecordedOK' /\ ReusedOK'
    BY <1>1, <1>2 DEF ModeInv, RecordedOK, ReusedOK
  <1> QED
    BY <1>2, <1>3, <1>4 DEF ModeInv

LEMMA EndScrollStep == ASSUME ModeInv, EndScroll PROVE ModeInv'
  <1>1. /\ phase = "reusing" /\ phase' = "embedding" /\ recorded = "incremental"
        /\ UNCHANGED <<base, head, ancestry, asked, points, unread, built>>
    BY DEF EndScroll, ModeInv, RecordedOK
  <1>2. CASE Complete
    <2>1. UNCHANGED <<plan, reused, recorded>>
      BY <1>2 DEF EndScroll
    <2>2. reused = Reusable
      BY <1>2, PreparedFinite DEF Complete, ModeInv, ReusedOK
    <2>3. Reusable' = Reusable /\ BasePoints' = BasePoints /\ PlanOK'
      BY <1>1, <2>1, PlanStays
    <2>4. RefreshTypeOK'
      BY <1>1, <2>1 DEF ModeInv, RefreshTypeOK
    <2>5. RecordedOK' /\ ReusedOK'
      BY <1>1, <2>1, <2>2, <2>3 DEF ModeInv, RecordedOK, ReusedOK
    <2> QED
      BY <2>3, <2>4, <2>5 DEF ModeInv
  <1>3. CASE ~Complete
    <2>1. /\ reused' = {} /\ recorded' = "full"
          /\ plan' = [plan EXCEPT !.reason = "previous_artifact_missing"]
      BY <1>3 DEF EndScroll
    <2>2. /\ plan' \in PlanRow /\ plan'.mode = plan.mode /\ plan'.targets = plan.targets
          /\ plan'.reason # "none"
      BY <2>1 DEF ModeInv, RefreshTypeOK, PlanRow
    <2>3. Targets' = Targets /\ BasePoints' = BasePoints
      BY <1>1 DEF Targets, BasePoints
    <2>4. OverBytes(plan.targets)' = OverBytes(plan.targets)
      BY <1>1, <2>2 DEF OverBytes
    <2>5. PlanOK'
      BY <1>1, <2>2, <2>3, <2>4 DEF ModeInv, PlanOK
    <2>6. RefreshTypeOK'
      BY <1>1, <2>1, <2>2 DEF ModeInv, RefreshTypeOK, Modes
    <2>7. RecordedOK' /\ ReusedOK'
      BY <1>1, <2>1, <2>3 DEF ModeInv, RecordedOK, ReusedOK, Modes
    <2> QED
      BY <2>5, <2>6, <2>7 DEF ModeInv
  <1> QED
    BY <1>2, <1>3

(* The version is made, the refresh fails, or a point is dropped.          *)
LEMMA RefreshOtherSteps ==
  ASSUME ModeInv, Embed \/ RefreshFails \/ (\E p \in points : DropPoint(p)) \/ UNCHANGED refresh
  PROVE  ModeInv'
  <1>1. /\ UNCHANGED <<base, head, ancestry, asked, plan, unread, reused, recorded>>
        /\ points' \subseteq points
        /\ \/ phase' = phase
           \/ phase = "embedding" /\ phase' = "built"
           \/ phase \in {"reusing", "embedding"} /\ phase' = "failed"
    BY DEF Embed, RefreshFails, DropPoint, refresh
  <1>2. built' \subseteq Point
    <2>1. Prepared \subseteq Point /\ reused \subseteq Point /\ built \subseteq Point
      BY DEF Prepared, Point, ModeInv, RefreshTypeOK, CommitTrees
    <2> QED
      BY <2>1 DEF Embed, RefreshFails, DropPoint, refresh, ToEmbed
  <1>3. Reusable' = Reusable /\ BasePoints' = BasePoints /\ PlanOK'
    BY <1>1, PlanStays
  <1>4. RefreshTypeOK'
    BY <1>1, <1>2 DEF ModeInv, RefreshTypeOK
  <1>5. RecordedOK' /\ ReusedOK'
    BY <1>1, <1>3 DEF ModeInv, RecordedOK, ReusedOK
  <1> QED
    BY <1>3, <1>4, <1>5 DEF ModeInv

LEMMA ModeStarts == RefreshInit => ModeInv
  <1> SUFFICES ASSUME RefreshInit PROVE ModeInv
    OBVIOUS
  <1>1. points \subseteq BasePoints
    BY DEF RefreshInit, BasePoints
  <1>2. BasePoints \subseteq Point
    BY DEF RefreshInit, BasePoints, Point, CommitTrees
  <1>3. NoPlan \in PlanRow /\ NoPlan.targets = {} /\ NoPlan.mode = "full"
    BY DEF NoPlan, PlanRow, Modes
  <1> QED
    BY <1>1, <1>2, <1>3 DEF RefreshInit, ModeInv, RefreshTypeOK, PlanOK, RecordedOK, ReusedOK

LEMMA ModeSteps == ModeInv /\ [RefreshNext]_refresh => ModeInv'
  BY CompareStep, RecordPlanStep, BeginReuseStep, ScrollStep, EndScrollStep, RefreshOtherSteps
  DEF RefreshNext

(* The type invariant of a refresh.                                        *)
THEOREM RefreshTyped == RefreshSpec => []RefreshTypeOK
  <1>1. ModeInv => RefreshTypeOK
    BY DEF ModeInv
  <1> QED
    BY <1>1, ModeStarts, ModeSteps, PTL DEF RefreshSpec

(* The row says incremental only of a refresh that embedded none but       *)
(* changed files, within the limits, although the comparison may have left *)
(* files out: all that is not embedded has been read back, with the        *)
(* contents of both commits (plan_refresh, _embed_and_store).              *)
THEOREM ModesTruthful == RefreshSpec => []ModeTruthful
  <1>1. ASSUME ModeInv, phase = "built" PROVE ModeTruthful
    <2>1. CASE recorded # "incremental"
      BY <1>1, <2>1 DEF ModeInv, RecordedOK, ModeTruthful
    <2>2. CASE recorded = "incremental"
      <3>1. /\ reused = Reusable /\ reused \subseteq BasePoints /\ plan.mode = "incremental"
            /\ plan.targets \subseteq Targets
            /\ Cardinality(plan.targets) < MaxChangedFiles /\ ~OverBytes(plan.targets)
        BY <1>1, <2>2 DEF ModeInv, RecordedOK, ReusedOK, PlanOK
      <3>2. \A f \in Files : head[f] # 0 /\ f \notin plan.targets => base[f] = head[f]
        <4> TAKE f \in Files
        <4> HAVE head[f] # 0 /\ f \notin plan.targets
        <4>1. <<f, head[f]>> \in Reusable
          BY DEF Reusable, Prepared
        <4>2. PICK g \in Files : <<f, head[f]>> = <<g, base[g]>>
          BY <3>1, <4>1 DEF BasePoints
        <4> QED
          BY <4>2
      <3>3. plan.targets = Targets
        BY <3>1, <3>2 DEF Targets
      <3>4. ToEmbed \subseteq {p \in Prepared : base[p[1]] # p[2]}
        <4>1. ASSUME NEW p \in ToEmbed PROVE p \in Prepared /\ base[p[1]] # p[2]
          <5>1. PICK f \in Files : p = <<f, head[f]>> /\ head[f] # 0 /\ p \in Prepared
            BY DEF ToEmbed, Prepared
          <5>2. p \notin Reusable
            BY <3>1 DEF ToEmbed
          <5>3. f \in Targets
            BY <3>3, <5>1, <5>2 DEF Reusable
          <5> QED
            BY <5>1, <5>3 DEF Targets
        <4> QED
          BY <4>1
      <3> QED
        BY <2>2, <3>1, <3>3, <3>4 DEF ModeTruthful
    <2> QED
      BY <2>1, <2>2
  <1>2. ModeInv => ModeTruthful
    BY <1>1 DEF ModeTruthful
  <1> QED
    BY <1>2, ModeStarts, ModeSteps, PTL DEF RefreshSpec

-----------------------------------------------------------------------------
(* The rows of an installation.                                            *)
RowsOK == row \in [Repositories -> RepositoryRow] /\ pending \subseteq Webhooks
          /\ default \in [Repositories -> BranchNames]

(* A row whose repository has left is about to be told so, or its restorer *)
(* came too late.                                                          *)
LeaversKnown ==
    \A r \in Repositories :
        row[r].access = "granted" /\ r \notin Granted
            => row[r].stale \/ \E w \in pending : w.of = r /\ w.kind = "removed"

RowsInv == RowsOK /\ LeaversKnown /\ BranchHasJob

LEMMA InitRows == ListingInit => RowsInv
  BY DEF ListingInit, RowsInv, RowsOK, LeaversKnown, BranchHasJob, RepositoryRow, BranchNames

(* What is written to a row, as a relation of the row before and after.    *)
Kept(r) == row'[r] = row[r]
Lost(r) ==
    /\ row[r].access # "none" /\ row'[r].access = "revoked" /\ row'[r].branch = row[r].branch
    /\ row'[r].job = row[r].job /\ row'[r].listed = row[r].listed
Given(r) ==
    /\ row'[r].access = "granted" /\ row'[r].stale = (r \notin Granted)
    /\ row'[r].branch # row'[r].job =>
          row'[r].listed \/ (row[r].access # "none" /\ row'[r].branch = row[r].branch
                             /\ row'[r].job = row[r].job)
    /\ row[r].listed => row'[r].listed
Edited(r) ==
    /\ row'[r].access = row[r].access /\ row'[r].stale = row[r].stale
    /\ row'[r].branch = row'[r].job

(* One of these for every row, and the webhooks of removals are handled.   *)
LEMMA RowsStep ==
  ASSUME RowsInv, RowsOK', Granted' = Granted,
         \A r \in Repositories : Kept(r) \/ Lost(r) \/ Given(r) \/ Edited(r),
         \A w \in pending : w \in pending' \/ w.kind # "removed" \/ row'[w.of].access # "granted"
  PROVE  RowsInv'
  <1> USE DEF RowsInv
  <1>1. LeaversKnown'
    <2> SUFFICES ASSUME NEW r \in Repositories, row'[r].access = "granted", r \notin Granted,
                        ~row'[r].stale
                 PROVE  \E w \in pending' : w.of = r /\ w.kind = "removed"
      BY DEF LeaversKnown
    <2>1. Kept(r) \/ Edited(r)
      BY DEF Lost, Given
    <2>2. row[r].access = "granted" /\ ~row[r].stale
      BY <2>1 DEF Kept, Edited
    <2> QED
      BY <2>2 DEF LeaversKnown
  <1>2. BranchHasJob'
    BY DEF BranchHasJob, Kept, Lost, Given, Edited
  <1> QED
    BY <1>1, <1>2

LEMMA RestoredRow ==
  ASSUME RowsOK, NEW r \in Repositories, NEW branch \in BranchNames
  PROVE  /\ Restored(r, branch) \in RepositoryRow
         /\ Restored(r, branch).access = "granted" /\ Restored(r, branch).stale = (r \notin Granted)
         /\ Restored(r, branch).branch = row[r].branch /\ Restored(r, branch).listed = row[r].listed
         /\ Restored(r, branch).job = IF row[r].access = "none" THEN branch ELSE row[r].job
  <1>1. row[r] \in RepositoryRow
    BY DEF RowsOK
  <1>2. PICK stale \in BOOLEAN : stale = (r \notin Granted)
    OBVIOUS
  <1>3. PICK job \in BranchNames : job = IF row[r].access = "none" THEN branch ELSE row[r].job
    BY <1>1 DEF RepositoryRow
  <1>4. Restored(r, branch) = [row[r] EXCEPT !.access = "granted", !.stale = stale, !.job = job]
    BY <1>1, <1>2, <1>3 DEF Restored, RepositoryRow
  <1> QED
    BY <1>1, <1>2, <1>3, <1>4 DEF RepositoryRow

LEMMA RemovedRow ==
  ASSUME RowsOK, NEW r \in Repositories
  PROVE  /\ Removal(r) \in RepositoryRow
         /\ Removal(r).access = "revoked" /\ Removal(r).branch = row[r].branch
         /\ Removal(r).listed = row[r].listed /\ Removal(r).job = row[r].job
  BY DEF Removal, RepositoryRow, RowsOK

LEMMA AnnouncedRow ==
  ASSUME RowsOK, NEW w \in Webhooks
  PROVE  /\ Announced(w) \in RepositoryRow
         /\ Announced(w).access = "granted" /\ Announced(w).stale = (w.of \notin Granted)
         /\ Announced(w).branch = Created(w.of, w.branch) /\ Announced(w).listed = row[w.of].listed
         /\ Announced(w).job = IF row[w.of].access = "none" THEN w.branch ELSE row[w.of].job
  <1>1. w.of \in Repositories /\ w.branch \in BranchNames
    BY DEF Webhooks
  <1>2. PICK branch \in BranchNames : branch = Created(w.of, w.branch)
    BY <1>1 DEF Created, RowsOK, RepositoryRow
  <1>3. PICK base0 : base0 = Restored(w.of, w.branch)
    OBVIOUS
  <1>4. Announced(w) = [base0 EXCEPT !.branch = branch]
    BY <1>2, <1>3 DEF Announced
  <1>5. /\ base0 \in RepositoryRow
        /\ base0.access = "granted" /\ base0.stale = (w.of \notin Granted)
        /\ base0.listed = row[w.of].listed
        /\ base0.job = IF row[w.of].access = "none" THEN w.branch ELSE row[w.of].job
    BY <1>1, <1>3, RestoredRow
  <1> QED
    BY <1>2, <1>4, <1>5 DEF RepositoryRow

LEMMA RenamedRow ==
  ASSUME RowsOK, NEW w \in Webhooks
  PROVE  /\ Renamed(w) \in RepositoryRow
         /\ Renamed(w).access = row[w.of].access /\ Renamed(w).stale = row[w.of].stale
         /\ Renamed(w).branch = Renamed(w).job
  <1>1. row[w.of] \in RepositoryRow /\ w.branch \in BranchNames
    BY DEF Webhooks, RowsOK
  <1>2. PICK base0 : base0 = row[w.of]
    OBVIOUS
  <1>3. Renamed(w) = [base0 EXCEPT !.branch = w.branch, !.job = w.branch, !.listed = FALSE]
    BY <1>2 DEF Renamed
  <1> QED
    BY <1>1, <1>2, <1>3 DEF RepositoryRow

LEMMA UpsertedRow ==
  ASSUME RowsOK, NEW r \in Repositories, NEW branch \in BranchNames
  PROVE  /\ Upserted(r, branch) \in RepositoryRow
         /\ Upserted(r, branch).access = "granted" /\ Upserted(r, branch).stale = (r \notin Granted)
         /\ Upserted(r, branch).branch = branch
         /\ Upserted(r, branch).listed = (row[r].listed \/ branch # Created(r, branch))
         /\ Upserted(r, branch).job = IF row[r].access = "none" THEN branch ELSE row[r].job
  <1>1. PICK base0 : base0 = Restored(r, branch)
    OBVIOUS
  <1>2. /\ base0 \in RepositoryRow
        /\ base0.access = "granted" /\ base0.stale = (r \notin Granted)
        /\ base0.listed = row[r].listed
        /\ base0.job = IF row[r].access = "none" THEN branch ELSE row[r].job
    BY <1>1, RestoredRow
  <1>3. PICK listed \in BOOLEAN : listed = (row[r].listed \/ branch # Created(r, branch))
    BY <1>2 DEF RepositoryRow
  <1>4. Upserted(r, branch) = [base0 EXCEPT !.branch = branch, !.listed = listed]
    BY <1>1, <1>2, <1>3 DEF Upserted, RepositoryRow
  <1> QED
    BY <1>2, <1>3, <1>4 DEF RepositoryRow

(* The steps of the rows.                                                  *)
LEMMA WebhookStep == ASSUME RowsInv, NEW w \in pending, ApplyWebhook(w) PROVE RowsInv'
  <1>0. /\ RowsOK /\ w \in Webhooks /\ w.of \in Repositories /\ w.branch \in BranchNames
        /\ row \in [Repositories -> RepositoryRow]
    BY DEF RowsInv, RowsOK, Webhooks
  <1>1. row' = [row EXCEPT ![w.of] = Handled(w)] /\ pending' = pending \ {w}
        /\ granted' = granted /\ default' = default
    BY DEF ApplyWebhook
  <1>2. \A r \in Repositories : r # w.of => Kept(r)
    BY <1>0, <1>1 DEF Kept
  <1>3. row'[w.of] = Handled(w)
    BY <1>0, <1>1
  <1>4. CASE w.kind = "removed" /\ row[w.of].access # "none"
    <2>1. Handled(w) = Removal(w.of)
      BY <1>4 DEF Handled
    <2>2. RowsOK'
      BY <1>0, <1>1, <2>1, RemovedRow DEF RowsOK
    <2>3. Lost(w.of) /\ row'[w.of].access # "granted"
      BY <1>0, <1>3, <1>4, <2>1, RemovedRow DEF Lost
    <2> QED
      BY <1>1, <1>2, <2>2, <2>3, RowsStep DEF Granted
  <1>5. CASE w.kind = "added"
    <2>1. Handled(w) = Announced(w)
      BY <1>5 DEF Handled
    <2>2. RowsOK'
      BY <1>0, <1>1, <2>1, AnnouncedRow DEF RowsOK
    <2>3. Given(w.of)
      BY <1>0, <1>3, <2>1, AnnouncedRow DEF Given, Created
    <2> QED
      BY <1>1, <1>2, <1>5, <2>2, <2>3, RowsStep DEF Granted
  <1>6. CASE w.kind = "edited" /\ row[w.of].access = "granted" /\ status = "active"
             /\ row[w.of].branch # w.branch
    <2>1. Handled(w) = Renamed(w)
      BY <1>6 DEF Handled
    <2>2. RowsOK'
      BY <1>0, <1>1, <2>1, RenamedRow DEF RowsOK
    <2>3. Edited(w.of)
      BY <1>0, <1>3, <2>1, RenamedRow DEF Edited
    <2> QED
      BY <1>1, <1>2, <1>6, <2>2, <2>3, RowsStep DEF Granted
  <1>7. CASE Handled(w) = row[w.of] /\ (w.kind = "removed" => row[w.of].access = "none")
    <2>1. RowsOK' /\ \A r \in Repositories : Kept(r)
      BY <1>0, <1>1, <1>2, <1>3, <1>7 DEF RowsOK, Kept
    <2> QED
      BY <1>0, <1>1, <1>3, <1>7, <2>1, RowsStep DEF Granted
  <1>8. \/ w.kind = "removed" /\ row[w.of].access # "none"
        \/ w.kind = "added"
        \/ /\ w.kind = "edited" /\ row[w.of].access = "granted" /\ status = "active"
           /\ row[w.of].branch # w.branch
        \/ Handled(w) = row[w.of] /\ (w.kind = "removed" => row[w.of].access = "none")
    BY DEF Handled
  <1> QED
    BY <1>4, <1>5, <1>6, <1>7, <1>8

(* What GitHub has granted, and how it tells of a change.                  *)
GrantsOK ==
    /\ granted \in Seq(Repositories)
    /\ \A i, j \in DOMAIN granted : granted[i] = granted[j] => i = j

LEMMA ToldOf ==
  ASSUME RowsOK, NEW r \in Repositories, NEW kind \in {"added", "removed", "edited"},
         Tell(kind, r), default' \in [Repositories -> BranchNames]
  PROVE  /\ pending' \subseteq Webhooks /\ pending \subseteq pending'
         /\ \E w \in pending' : w.of = r /\ w.kind = kind
  <1>1. PICK w : w = [kind |-> kind, of |-> r, branch |-> default'[r]]
    OBVIOUS
  <1>2. w \in Webhooks /\ w.of = r /\ w.kind = kind
    BY <1>1 DEF Webhooks
  <1> QED
    BY <1>1, <1>2 DEF Tell, RowsOK

LEMMA GrantStep ==
  ASSUME RowsInv, GrantsOK, NEW r \in Repositories, Grant(r)
  PROVE  RowsInv' /\ GrantsOK'
  <1>1. /\ granted' = Append(granted, r) /\ r \notin Granted /\ row' = row /\ default' = default
        /\ Tell("added", r)
    BY DEF Grant
  <1>2. /\ granted' \in Seq(Repositories) /\ Len(granted') = Len(granted) + 1
        /\ \A i \in 1 .. Len(granted) : granted'[i] = granted[i]
        /\ granted'[Len(granted) + 1] = r
    BY <1>1 DEF GrantsOK
  <1>3. Granted \subseteq Granted'
    BY <1>2 DEF Granted, GrantsOK
  <1>4. GrantsOK'
    BY <1>1, <1>2 DEF GrantsOK, Granted
  <1>5. pending' \subseteq Webhooks /\ pending \subseteq pending'
    BY <1>1, ToldOf DEF RowsInv, RowsOK
  <1> QED
    BY <1>1, <1>3, <1>4, <1>5 DEF RowsInv, RowsOK, LeaversKnown, BranchHasJob

(* The repositories behind the one that leaves move up.                    *)
LEMMA Removed ==
  ASSUME GrantsOK, NEW at \in DOMAIN granted,
         granted' = [i \in 1 .. Len(granted) - 1 |-> granted[IF i < at THEN i ELSE i + 1]]
  PROVE  GrantsOK' /\ Granted \ {granted[at]} \subseteq Granted'
  <1>1. Len(granted) \in Nat /\ at \in 1 .. Len(granted) /\ DOMAIN granted = 1 .. Len(granted)
        /\ Len(granted) - 1 \in Nat
    BY DEF GrantsOK
  <1>2. granted' \in [1 .. Len(granted) - 1 -> Repositories]
    BY <1>1 DEF GrantsOK
  <1>3. granted' \in Seq(Repositories) /\ DOMAIN granted' = 1 .. Len(granted) - 1
    <2>1. PICK n \in Nat : n = Len(granted) - 1
      BY <1>1
    <2>2. PICK s \in [1 .. n -> Repositories] : s = granted'
      BY <1>2, <2>1
    <2>3. s \in Seq(Repositories) /\ DOMAIN s = 1 .. n
      OBVIOUS
    <2> QED
      BY <2>1, <2>2, <2>3
  <1>4. GrantsOK'
    <2>1. ASSUME NEW i \in DOMAIN granted'
          PROVE  \E k \in DOMAIN granted : /\ k = (IF i < at THEN i ELSE i + 1)
                                           /\ granted'[i] = granted[k]
      BY <1>1, <1>3
    <2>2. ASSUME NEW i \in DOMAIN granted', NEW j \in DOMAIN granted', granted'[i] = granted'[j]
          PROVE  i = j
      <3>1. PICK k \in DOMAIN granted :
              k = (IF i < at THEN i ELSE i + 1) /\ granted'[i] = granted[k]
        BY <2>1
      <3>2. PICK m \in DOMAIN granted :
              m = (IF j < at THEN j ELSE j + 1) /\ granted'[j] = granted[m]
        BY <2>1
      <3>3. k = m
        BY <2>2, <3>1, <3>2 DEF GrantsOK
      <3> QED
        BY <1>1, <1>3, <3>1, <3>2, <3>3
    <2> QED
      BY <1>3, <2>2 DEF GrantsOK
  <1>5. ASSUME NEW q \in Granted, q # granted[at] PROVE q \in Granted'
    <2>1. PICK i \in 1 .. Len(granted) : granted[i] = q
      BY <1>1 DEF Granted
    <2>2. CASE i < at
      BY <1>1, <1>3, <2>1, <2>2 DEF Granted
    <2>3. CASE i > at
      <3>1. i - 1 \in 1 .. Len(granted) - 1 /\ granted'[i - 1] = granted[i]
        BY <1>1, <2>3
      <3> QED
        BY <1>3, <2>1, <3>1 DEF Granted
    <2> QED
      BY <1>1, <1>5, <2>1, <2>2, <2>3
  <1> QED
    BY <1>4, <1>5

LEMMA WithdrawStep ==
  ASSUME RowsInv, GrantsOK, NEW r \in Repositories, Withdraw(r)
  PROVE  RowsInv' /\ GrantsOK'
  <1>1. row' = row /\ default' = default /\ Tell("removed", r)
    BY DEF Withdraw
  <1>2. GrantsOK' /\ Granted \ {r} \subseteq Granted'
    BY Removed DEF Withdraw
  <1>3. /\ pending' \subseteq Webhooks /\ pending \subseteq pending'
        /\ \E w \in pending' : w.of = r /\ w.kind = "removed"
    BY <1>1, ToldOf DEF RowsInv, RowsOK
  <1> QED
    BY <1>1, <1>2, <1>3 DEF RowsInv, RowsOK, LeaversKnown, BranchHasJob

LEMMA RenameStep ==
  ASSUME RowsInv, NEW r \in Repositories, RenameDefault(r)
  PROVE  RowsInv'
  <1>1. row' = row /\ granted' = granted /\ Tell("edited", r)
    BY DEF RenameDefault
  <1>2. default' \in [Repositories -> BranchNames]
    BY DEF RenameDefault, RowsInv, RowsOK, BranchNames
  <1>3. pending' \subseteq Webhooks /\ pending \subseteq pending'
    BY <1>1, <1>2, ToldOf DEF RowsInv
  <1> QED
    BY <1>1, <1>2, <1>3 DEF RowsInv, RowsOK, LeaversKnown, BranchHasJob, Granted

LEMMA SuspendStep ==
  ASSUME RowsInv, Suspend
  PROVE  RowsInv'
  <1>1. /\ row' = [r \in Repositories |->
                    IF row[r].access = "none" THEN row[r] ELSE [row[r] EXCEPT !.access = "revoked"]]
        /\ granted' = granted /\ default' = default /\ pending' = pending
    BY DEF Suspend
  <1>2. ASSUME NEW r \in Repositories
        PROVE  row'[r] \in RepositoryRow /\ (Kept(r) \/ Lost(r))
    <2>1. PICK old \in RepositoryRow : old = row[r]
      BY DEF RowsInv, RowsOK
    <2>2. PICK new : new = [old EXCEPT !.access = "revoked"]
      OBVIOUS
    <2>3. row'[r] = IF old.access = "none" THEN old ELSE new
      BY <1>1, <2>1, <2>2
    <2> QED
      BY <2>1, <2>2, <2>3 DEF RepositoryRow, Kept, Lost
  <1>3. RowsOK'
    BY <1>1, <1>2 DEF RowsInv, RowsOK
  <1> QED
    BY <1>1, <1>2, <1>3, RowsStep DEF Granted

LEMMA CommitStep ==
  ASSUME RowsInv, NEW l \in Listings, CommitListing(l), listing \in [Listings -> ListingRow]
  PROVE  RowsInv'
  <1>1. /\ row' = [r \in Repositories |->
                    IF r \in Found(l) THEN Upserted(r, listing[l].found[r])
                    ELSE IF r \in ToRevoke(l)
                         THEN [row[r] EXCEPT !.access = "revoked", !.stale = FALSE] ELSE row[r]]
        /\ granted' = granted /\ default' = default /\ pending' = pending
    BY DEF CommitListing
  <1>2. RowsOK
    BY DEF RowsInv
  <1>3. ASSUME NEW r \in Repositories
        PROVE  row'[r] \in RepositoryRow /\ (Kept(r) \/ Lost(r) \/ Given(r))
    <2>1. PICK old \in RepositoryRow : old = row[r]
      BY <1>2 DEF RowsOK
    <2>2. PICK new : new = [old EXCEPT !.access = "revoked", !.stale = FALSE]
      OBVIOUS
    <2>3. row'[r] = IF r \in Found(l) THEN Upserted(r, listing[l].found[r])
                    ELSE IF r \in ToRevoke(l) THEN new ELSE old
      BY <1>1, <2>1, <2>2
    <2>4. CASE r \in Found(l)
      <3>1. listing[l].found[r] \in BranchNames
        BY <2>4 DEF Found, ListingRow
      <3>2. PICK branch \in BranchNames : branch = listing[l].found[r]
        BY <3>1
      <3>3. PICK up : up = Upserted(r, branch)
        OBVIOUS
      <3>4. row'[r] = up
        BY <2>3, <2>4, <3>2, <3>3
      <3>5. /\ up \in RepositoryRow /\ up.access = "granted" /\ up.stale = (r \notin Granted)
            /\ up.branch = branch /\ up.listed = (row[r].listed \/ branch # Created(r, branch))
            /\ up.job = IF row[r].access = "none" THEN branch ELSE row[r].job
        BY <1>2, <3>3, UpsertedRow
      <3> QED
        BY <3>4, <3>5 DEF Given, Created
    <2>5. CASE r \notin Found(l) /\ r \in ToRevoke(l)
      <3>1. /\ new \in RepositoryRow /\ new.access = "revoked" /\ new.stale = FALSE
            /\ new.branch = old.branch /\ new.listed = old.listed /\ new.job = old.job
        BY <2>1, <2>2 DEF RepositoryRow
      <3> QED
        BY <2>1, <2>3, <2>5, <3>1 DEF Lost, ToRevoke
    <2>6. CASE r \notin Found(l) /\ r \notin ToRevoke(l)
      BY <2>1, <2>3, <2>6 DEF Kept
    <2> QED
      BY <2>4, <2>5, <2>6
  <1>4. RowsOK'
    BY <1>1, <1>2, <1>3 DEF RowsOK
  <1> QED
    BY <1>1, <1>3, <1>4, RowsStep DEF Granted

-----------------------------------------------------------------------------
(* Pages.  While nobody leaves, a listing has found whom it has passed.    *)
PagesOK(l) ==
    /\ listing[l].pc = "idle" => listing[l].page = 1
    /\ listing[l].pc = "reading" => listing[l].page <= MaxPages
    /\ listing[l].pc = "reading" /\ ~listing[l].shifted =>
        \A i \in DOMAIN granted :
            granted[i] \in listing[l].steady /\ i <= (listing[l].page - 1) * PageSize
                => granted[i] \in Found(l)
    /\ listing[l].pc = "reading" => listing[l].steady \subseteq Granted
    /\ listing[l].pc = "read" /\ ~listing[l].shifted /\ ~listing[l].truncated
        => listing[l].steady \subseteq Found(l)

ListingInv ==
    /\ RowsInv /\ GrantsOK
    /\ listing \in [Listings -> ListingRow]
    /\ \A l \in Listings : PagesOK(l)
    /\ RevokedSteadyExplained

LEMMA InitListings == ListingInit => ListingInv
  <1> SUFFICES ASSUME ListingInit PROVE ListingInv
    OBVIOUS
  <1>1. RowsInv
    BY InitRows
  <1>2. GrantsOK
    <2>1. Cardinality(Repositories) \in Nat
      BY ListingBounds, FS_CardinalityType DEF ListingBounds
    <2>2. PICK n \in 0 .. Cardinality(Repositories) : granted \in [1 .. n -> Repositories]
      <3>1. granted \in UNION {[1 .. n -> Repositories] : n \in 0 .. Cardinality(Repositories)}
        BY DEF ListingInit
      <3> QED
        BY <3>1
    <2>3. n \in Nat
      BY <2>1
    <2> QED
      BY <2>2, <2>3 DEF ListingInit, GrantsOK
  <1>3. listing \in [Listings -> ListingRow] /\ \A l \in Listings : listing[l].pc = "idle" /\ listing[l].page = 1
    BY PagesPositive DEF ListingInit, ListingRow
  <1> QED
    BY <1>1, <1>2, <1>3 DEF ListingInv, PagesOK, RevokedSteadyExplained

(* A page of distinct repositories is full if there are enough of them.    *)
LEMMA FullPage ==
  ASSUME GrantsOK, NEW page \in Nat \ {0}, Len(granted) >= page * PageSize
  PROVE  Cardinality(PageItems(page)) = PageSize
  <1> DEFINE first == (page - 1) * PageSize
             places == first + 1 .. first + PageSize
             f == [i \in places |-> granted[i]]
  <1>1. first \in Nat /\ first + PageSize = page * PageSize /\ PageSize \in Nat \ {0}
    BY PagesPositive
  <1>2. DOMAIN granted = 1 .. Len(granted) /\ Len(granted) \in Nat
    BY DEF GrantsOK
  <1>3. PageItems(page) = {granted[i] : i \in places}
    <2>1. {i \in DOMAIN granted : first < i /\ i <= first + PageSize} = places
      BY <1>1, <1>2
    <2> QED
      BY <2>1 DEF PageItems
  <1>4. places \subseteq DOMAIN granted
    BY <1>1, <1>2
  <1>5. f \in Bijection(places, PageItems(page))
    BY <1>3, <1>4 DEF Bijection, Injection, Surjection, GrantsOK, IsInjective
  <1>6. IsFiniteSet(places) /\ Cardinality(places) = PageSize
    BY <1>1, FS_Interval
  <1>7. ExistsBijection(places, PageItems(page))
    BY <1>5 DEF ExistsBijection
  <1> QED
    BY <1>6, <1>7, FS_Bijection

(* Nothing changes for the listings and for what GitHub has granted.       *)
LEMMA SameListings ==
  ASSUME ListingInv, UNCHANGED <<granted, listing>>, RowsInv'
  PROVE  ListingInv'
  BY DEF ListingInv, GrantsOK, PagesOK, Granted, Found, RevokedSteadyExplained

(* One listing goes on, the others do not move.                            *)
LEMMA OneListing ==
  ASSUME ListingInv, NEW l \in Listings, NEW new \in ListingRow,
         listing' = [listing EXCEPT ![l] = new], granted' = granted, RowsInv', PagesOK(l)',
         new.pc = "done" /\ new.revoked \cap new.steady # {} => new.shifted \/ new.truncated
  PROVE  ListingInv'
  <1>1. listing' \in [Listings -> ListingRow] /\ listing'[l] = new
        /\ \A k \in Listings : k # l => listing'[k] = listing[k]
    BY DEF ListingInv
  <1>2. ASSUME NEW k \in Listings, k # l PROVE PagesOK(k)'
    BY <1>1, <1>2 DEF ListingInv, PagesOK, Granted, Found
  <1>3. RevokedSteadyExplained'
    BY <1>1 DEF ListingInv, RevokedSteadyExplained
  <1> QED
    BY <1>1, <1>2, <1>3 DEF ListingInv, GrantsOK

LEMMA BeginListingStep ==
  ASSUME ListingInv, NEW l \in Listings, BeginListing(l)
  PROVE  ListingInv'
  <1>0. /\ listing[l] \in ListingRow /\ listing \in [Listings -> ListingRow]
        /\ granted \in Seq(Repositories) /\ UNCHANGED <<granted, default, pending, row, status>>
    BY DEF ListingInv, GrantsOK, BeginListing
  <1>1. PICK old : old = listing[l]
    OBVIOUS
  <1>2. PICK pc \in {"reading", "refused"} : pc = IF status = "active" THEN "reading" ELSE "refused"
    OBVIOUS
  <1>3. PICK steady \in SUBSET Repositories : steady = Granted
    <2>1. \A i \in DOMAIN granted : granted[i] \in Repositories
      BY <1>0
    <2> QED
      BY <2>1 DEF Granted
  <1>4. PICK new : new = [old EXCEPT !.pc = pc, !.steady = steady, !.shifted = FALSE]
    OBVIOUS
  <1>5. listing' = [listing EXCEPT ![l] = new]
    BY <1>0, <1>1, <1>2, <1>3, <1>4 DEF BeginListing
  <1>6. /\ new \in ListingRow /\ new.pc = pc /\ new.steady = steady /\ new.page = old.page
        /\ new.found = old.found
    BY <1>0, <1>1, <1>2, <1>3, <1>4 DEF ListingRow
  <1>7. old.page = 1
    BY <1>1 DEF ListingInv, PagesOK, BeginListing
  <1>8. listing'[l] = new /\ granted' = granted
    BY <1>0, <1>5
  <1>9. PagesOK(l)'
    <2>1. new.pc = "reading" =>
            \A i \in DOMAIN granted : ~(i <= (new.page - 1) * PageSize)
      BY <1>0, <1>6, <1>7, PagesPositive DEF GrantsOK
    <2> QED
      BY <1>2, <1>3, <1>6, <1>7, <1>8, <2>1, PagesPositive DEF PagesOK, Granted
  <1>10. RowsInv'
    BY <1>0 DEF ListingInv, RowsInv, RowsOK, LeaversKnown, BranchHasJob, Granted
  <1> QED
    BY <1>0, <1>2, <1>5, <1>6, <1>9, <1>10, OneListing

LEMMA QuietListings ==
  ASSUME ListingInv, UNCHANGED <<granted, default, pending, row>>
  PROVE  RowsInv'
  BY DEF ListingInv, RowsInv, RowsOK, LeaversKnown, BranchHasJob, Granted

LEMMA ReadPageStep ==
  ASSUME ListingInv, NEW l \in Listings, ReadPage(l)
  PROVE  ListingInv'
  <1>0. /\ listing[l] \in ListingRow /\ listing \in [Listings -> ListingRow]
        /\ GrantsOK /\ PagesOK(l) /\ default \in [Repositories -> BranchNames]
        /\ UNCHANGED <<granted, default, pending, row, status>>
    BY DEF ListingInv, RowsInv, RowsOK, ReadPage
  <1> DEFINE page == listing[l].page
  <1>1. PICK old : old = listing[l]
    OBVIOUS
  <1>2. /\ old \in ListingRow /\ old.pc = "reading" /\ page = old.page /\ page \in 1 .. MaxPages
        /\ PageSize \in Nat \ {0} /\ MaxPages \in Nat \ {0} /\ Len(granted) \in Nat
        /\ DOMAIN granted = 1 .. Len(granted)
    <2>1. old \in ListingRow /\ old.pc = "reading" /\ page = old.page /\ page <= MaxPages
      BY <1>0, <1>1 DEF ReadPage, PagesOK
    <2>2. page \in 1 .. MaxPages + 1
      BY <2>1 DEF ListingRow
    <2>3. Len(granted) \in Nat /\ DOMAIN granted = 1 .. Len(granted)
      BY <1>0 DEF GrantsOK
    <2> QED
      BY <2>1, <2>2, <2>3, PagesPositive
  <1>3. PICK found : found = [r \in Repositories |->
                                IF r \in PageItems(page) THEN default[r] ELSE old.found[r]]
    OBVIOUS
  <1>4. PICK truncated \in BOOLEAN : truncated = (page = MaxPages /\ Len(granted) > page * PageSize)
    OBVIOUS
  <1>5. PICK pc \in {"read", "reading"} : pc = IF LastPage(page) THEN "read" ELSE "reading"
    OBVIOUS
  <1>6. PICK new : new = [old EXCEPT !.found = found, !.page = page + 1,
                                     !.truncated = truncated, !.pc = pc]
    OBVIOUS
  <1>7. listing' = [listing EXCEPT ![l] = new]
    BY <1>0, <1>1, <1>2, <1>3, <1>4, <1>5, <1>6 DEF ReadPage
  <1>8. found \in [Repositories -> BranchNames \cup {"none"}]
    BY <1>0, <1>2, <1>3 DEF ListingRow
  <1> HIDE DEF page
  <1>9. /\ new \in ListingRow /\ new.pc = pc /\ new.steady = old.steady /\ new.page = page + 1
        /\ new.found = found /\ new.truncated = truncated /\ new.shifted = old.shifted
        /\ new.revoked = old.revoked
    <2>1. page + 1 \in 1 .. MaxPages + 1
      BY <1>2
    <2>2. PICK next \in 1 .. MaxPages + 1 : next = page + 1
      BY <2>1
    <2>3. new = [old EXCEPT !.found = found, !.page = next, !.truncated = truncated, !.pc = pc]
      BY <1>6, <2>2
    <2> QED
      BY <1>2, <1>4, <1>5, <1>8, <2>2, <2>3 DEF ListingRow
  <1>10. listing'[l] = new /\ granted' = granted
    BY <1>0, <1>7
  <1>11. Found(l)' = {r \in Repositories : found[r] # "none"}
    BY <1>9, <1>10 DEF Found
  <1>12. \A r \in Repositories : r \in PageItems(page) \/ r \in Found(l) => r \in Found(l)'
    BY <1>0, <1>1, <1>3, <1>11 DEF Found, BranchNames
  (* Whoever stands on the pages up to this one has been found.            *)
  <1>13. ASSUME ~old.shifted, NEW i \in DOMAIN granted, granted[i] \in old.steady,
                i <= page * PageSize
         PROVE  granted[i] \in Found(l)'
    <2>1. (page - 1) * PageSize + PageSize = page * PageSize /\ (page - 1) * PageSize \in Nat
      BY <1>2
    <2>2. CASE i <= (page - 1) * PageSize
      BY <1>0, <1>1, <1>2, <1>12, <1>13, <2>2 DEF PagesOK, Found
    <2>3. CASE i > (page - 1) * PageSize
      BY <1>0, <1>2, <1>12, <1>13, <2>1, <2>3 DEF PageItems, GrantsOK
    <2> QED
      BY <1>2, <2>1, <2>2, <2>3
  <1>14. ASSUME pc = "read", ~truncated, ~old.shifted PROVE old.steady \subseteq Found(l)'
    <2>1. Len(granted) <= page * PageSize
      <3>1. CASE page = MaxPages
        <4>1. ~(Len(granted) > page * PageSize)
          BY <1>4, <1>14, <3>1
        <4>2. page * PageSize \in Nat
          BY <1>2
        <4> QED
          BY <1>2, <4>1, <4>2
      <3>2. CASE Cardinality(PageItems(page)) < PageSize
        BY <1>0, <1>2, <3>2, FullPage
      <3> QED
        BY <1>5, <1>14, <3>1, <3>2 DEF LastPage
    <2>2. old.steady \subseteq Granted
      BY <1>0, <1>1, <1>2 DEF PagesOK
    <2>3. ASSUME NEW r \in old.steady PROVE r \in Found(l)'
      <3>1. PICK i \in DOMAIN granted : granted[i] = r
        BY <2>2 DEF Granted
      <3>2. i <= page * PageSize
        BY <1>2, <2>1, <3>1
      <3> QED
        BY <1>13, <1>14, <2>3, <3>1, <3>2
    <2> QED
      BY <2>3
  <1>15. PagesOK(l)'
    <2>1. pc = "reading" => page + 1 <= MaxPages
      BY <1>2, <1>5 DEF LastPage
    <2>2. old.steady \subseteq Granted
      BY <1>0, <1>1, <1>2 DEF PagesOK
    <2>3. (page + 1 - 1) * PageSize = page * PageSize
      BY <1>2
    <2>4. Granted' = Granted
      BY <1>0 DEF Granted
    <2>5. \A i \in DOMAIN granted :
            ~old.shifted /\ granted[i] \in old.steady /\ i <= (page + 1 - 1) * PageSize
              => granted[i] \in Found(l)'
      BY <1>13, <2>3
    <2>6. pc = "read" /\ ~old.shifted /\ ~truncated => old.steady \subseteq Found(l)'
      BY <1>14
    <2>7. pc # "idle"
      BY <1>5
    <2>8. /\ listing'[l].pc = pc /\ listing'[l].page = page + 1 /\ listing'[l].steady = old.steady
          /\ listing'[l].shifted = old.shifted /\ listing'[l].truncated = truncated
      BY <1>9, <1>10
    <2>9. listing'[l].pc = "reading" /\ ~listing'[l].shifted =>
            \A i \in DOMAIN granted' :
                granted'[i] \in listing'[l].steady /\ i <= (listing'[l].page - 1) * PageSize
                    => granted'[i] \in Found(l)'
      <3>1. ASSUME ~listing'[l].shifted, NEW i \in DOMAIN granted,
                   granted[i] \in listing'[l].steady, i <= (listing'[l].page - 1) * PageSize
            PROVE  granted[i] \in Found(l)'
        <4>1. ~old.shifted
          BY <2>8, <3>1
        <4>2. i <= (page + 1 - 1) * PageSize /\ granted[i] \in old.steady
          BY <1>2, <2>8, <3>1
        <4> QED
          BY <2>5, <4>1, <4>2
      <3> QED
        BY <1>10, <3>1
    <2> QED
      BY <2>1, <2>2, <2>4, <2>6, <2>7, <2>8, <2>9 DEF PagesOK
  <1>16. RowsInv'
    BY <1>0, QuietListings
  <1> QED
    BY <1>5, <1>7, <1>9, <1>10, <1>15, <1>16, OneListing

(* A listing that ends, whatever it revokes.                               *)
LEMMA ListingEnds ==
  ASSUME ListingInv, NEW l \in Listings, NEW pc \in {"done", "refused"}, NEW revoked \in SUBSET Repositories,
         listing' = [listing EXCEPT ![l].pc = pc, ![l].revoked = revoked], granted' = granted, RowsInv',
         pc = "done" => listing[l].pc = "read" /\ revoked \cap Found(l) = {}
  PROVE  ListingInv'
  <1>0. listing[l] \in ListingRow /\ PagesOK(l)
    BY DEF ListingInv
  <1>1. PICK old : old = listing[l]
    OBVIOUS
  <1>2. PICK new : new = [old EXCEPT !.pc = pc, !.revoked = revoked]
    OBVIOUS
  <1>3. listing' = [listing EXCEPT ![l] = new]
    BY <1>0, <1>1, <1>2 DEF ListingInv
  <1>4. /\ new \in ListingRow /\ new.pc = pc /\ new.revoked = revoked /\ new.steady = old.steady
        /\ new.shifted = old.shifted /\ new.truncated = old.truncated /\ new.page = old.page
    BY <1>0, <1>1, <1>2 DEF ListingRow
  <1>5. listing'[l] = new
    BY <1>3 DEF ListingInv
  <1>6. PagesOK(l)'
    BY <1>4, <1>5 DEF PagesOK
  <1>7. new.pc = "done" /\ new.revoked \cap new.steady # {} => new.shifted \/ new.truncated
    BY <1>0, <1>1, <1>4 DEF PagesOK
  <1> QED
    BY <1>3, <1>4, <1>6, <1>7, OneListing

LEMMA ListingEndSteps ==
  ASSUME ListingInv, NEW l \in Listings, ListingFails(l) \/ ListingRefused(l) \/ CommitListing(l)
  PROVE  ListingInv'
  <1>1. CASE ListingFails(l) \/ ListingRefused(l)
    <2>1. RowsInv' /\ granted' = granted
      BY <1>1, QuietListings DEF ListingFails, ListingRefused
    <2>2. listing[l] \in ListingRow /\ listing \in [Listings -> ListingRow]
      BY DEF ListingInv
    <2>3. PICK revoked \in SUBSET Repositories : revoked = listing[l].revoked
      BY <2>2 DEF ListingRow
    <2>4. PICK old : old = listing[l]
      OBVIOUS
    <2>5. [old EXCEPT !.pc = "refused"] = [old EXCEPT !.pc = "refused", !.revoked = revoked]
      BY <2>2, <2>3, <2>4 DEF ListingRow
    <2>6. listing' = [listing EXCEPT ![l] = [old EXCEPT !.pc = "refused"]]
      BY <1>1, <2>2, <2>4 DEF ListingFails, ListingRefused
    <2>7. [listing EXCEPT ![l].pc = "refused", ![l].revoked = revoked]
          = [listing EXCEPT ![l] = [old EXCEPT !.pc = "refused", !.revoked = revoked]]
      BY <2>2, <2>4
    <2> QED
      BY <2>1, <2>5, <2>6, <2>7, ListingEnds
  <1>2. CASE CommitListing(l)
    <2>1. RowsInv' /\ granted' = granted /\ listing[l].pc = "read"
      BY <1>2, CommitStep DEF CommitListing, ListingInv
    <2>2. PICK revoked \in SUBSET Repositories : revoked = ToRevoke(l)
      BY DEF ToRevoke
    <2>3. listing' = [listing EXCEPT ![l].pc = "done", ![l].revoked = revoked]
      BY <1>2, <2>2 DEF CommitListing
    <2>4. revoked \cap Found(l) = {}
      BY <2>2 DEF ToRevoke
    <2> QED
      BY <2>1, <2>3, <2>4, ListingEnds
  <1> QED
    BY <1>1, <1>2

(* Who joins is listed last, and was not granted when a listing began.     *)
LEMMA GrantPages ==
  ASSUME ListingInv, NEW r \in Repositories, Grant(r)
  PROVE  ListingInv'
  <1>1. RowsInv' /\ GrantsOK'
    BY GrantStep DEF ListingInv
  <1>2. granted' = Append(granted, r) /\ r \notin Granted /\ listing' = listing
    BY DEF Grant
  <1>3. /\ Len(granted) \in Nat /\ DOMAIN granted = 1 .. Len(granted)
        /\ DOMAIN granted' = 1 .. Len(granted) + 1 /\ granted'[Len(granted) + 1] = r
        /\ \A i \in 1 .. Len(granted) : granted'[i] = granted[i]
    BY <1>2 DEF ListingInv, GrantsOK
  <1>4. Granted \subseteq Granted'
    BY <1>3 DEF Granted
  <1>5. ASSUME NEW l \in Listings PROVE PagesOK(l)'
    <2>1. PagesOK(l) /\ Found(l)' = Found(l)
      BY <1>2 DEF ListingInv, Found
    <2>2. ASSUME listing[l].pc = "reading", ~listing[l].shifted, NEW i \in DOMAIN granted',
                 granted'[i] \in listing[l].steady, i <= (listing[l].page - 1) * PageSize
          PROVE  granted'[i] \in Found(l)
      <3>1. i # Len(granted) + 1
        BY <1>2, <1>3, <2>1, <2>2 DEF PagesOK
      <3>2. i \in DOMAIN granted /\ granted'[i] = granted[i]
        BY <1>3, <3>1
      <3> QED
        BY <2>1, <2>2, <3>2 DEF PagesOK
    <2> QED
      BY <1>2, <1>4, <2>1, <2>2 DEF PagesOK
  <1> QED
    BY <1>1, <1>2, <1>5 DEF ListingInv, RevokedSteadyExplained

LEMMA WithdrawPages ==
  ASSUME ListingInv, NEW r \in Repositories, Withdraw(r)
  PROVE  ListingInv'
  <1>1. RowsInv' /\ GrantsOK'
    BY WithdrawStep DEF ListingInv
  <1>2. /\ listing' = [l \in Listings |-> [listing[l] EXCEPT !.steady = @ \ {r}, !.shifted = TRUE]]
        /\ Granted \ {r} \subseteq Granted'
    BY Removed DEF Withdraw, ListingInv
  <1>3. ASSUME NEW l \in Listings
        PROVE  /\ listing'[l] \in ListingRow /\ listing'[l].shifted
               /\ listing'[l].pc = listing[l].pc /\ listing'[l].page = listing[l].page
               /\ listing'[l].steady = listing[l].steady \ {r}
    <2>1. PICK old \in ListingRow : old = listing[l]
      BY DEF ListingInv
    <2>2. PICK steady \in SUBSET Repositories : steady = old.steady \ {r}
      BY DEF ListingRow
    <2>3. listing'[l] = [old EXCEPT !.steady = steady, !.shifted = TRUE]
      BY <1>2, <2>1, <2>2
    <2> QED
      BY <2>1, <2>2, <2>3 DEF ListingRow
  <1>4. listing' \in [Listings -> ListingRow]
    BY <1>2, <1>3
  <1>5. ASSUME NEW l \in Listings PROVE PagesOK(l)'
    <2>1. PagesOK(l)
      BY DEF ListingInv
    <2> QED
      BY <1>2, <1>3, <2>1 DEF PagesOK
  <1>6. RevokedSteadyExplained'
    BY <1>3 DEF RevokedSteadyExplained
  <1> QED
    BY <1>1, <1>4, <1>5, <1>6 DEF ListingInv

LEMMA ListingInductive == ListingInv /\ [ListingNext]_listings => ListingInv'
  <1> SUFFICES ASSUME ListingInv, [ListingNext]_listings PROVE ListingInv'
    OBVIOUS
  <1>1. ASSUME NEW r \in Repositories, Grant(r) \/ Withdraw(r) \/ RenameDefault(r)
        PROVE  ListingInv'
    <2>1. CASE RenameDefault(r)
      BY <2>1, RenameStep, SameListings DEF ListingInv, RenameDefault
    <2> QED
      BY <1>1, <2>1, GrantPages, WithdrawPages
  <1>2. ASSUME NEW w \in pending, ApplyWebhook(w) PROVE ListingInv'
    BY <1>2, WebhookStep, SameListings DEF ListingInv, ApplyWebhook
  <1>3. CASE Suspend
    BY <1>3, SuspendStep, SameListings DEF ListingInv, Suspend
  <1>4. CASE Unsuspend \/ UNCHANGED listings
    BY <1>4, QuietListings, SameListings DEF Unsuspend, listings
  <1>5. ASSUME NEW l \in Listings,
               BeginListing(l) \/ ReadPage(l) \/ ListingFails(l) \/ CommitListing(l)
               \/ ListingRefused(l)
        PROVE  ListingInv'
    BY <1>5, BeginListingStep, ReadPageStep, ListingEndSteps
  <1> QED
    BY <1>1, <1>2, <1>3, <1>4, <1>5 DEF ListingNext

LEMMA ListingInvariant == ListingSpec => []ListingInv
  BY InitListings, ListingInductive, PTL DEF ListingSpec

(* What is bounded, and the installation's row.                            *)
InstallationOK == changes \in 0 .. MaxChanges /\ status \in {"active", "suspended"}

LEMMA InstallationInvariant == ListingSpec => []InstallationOK
  <1>1. ListingInit => InstallationOK
    BY ListingBounds DEF ListingInit, InstallationOK
  <1>2. InstallationOK /\ [ListingNext]_listings => InstallationOK'
    <2> SUFFICES ASSUME InstallationOK, [ListingNext]_listings PROVE InstallationOK'
      OBVIOUS
    <2>1. CASE Changes
      <3>1. changes' \in 0 .. MaxChanges
        BY <2>1, ListingBounds DEF Changes, InstallationOK
      <3>2. status' \in {"active", "suspended"}
        BY DEF InstallationOK, ListingNext, Grant, Withdraw, RenameDefault, ApplyWebhook, Suspend,
               Unsuspend, BeginListing, ReadPage, ListingFails, CommitListing, ListingRefused,
               listings
      <3> QED
        BY <3>1, <3>2 DEF InstallationOK
    <2>2. CASE UNCHANGED changes
      BY <2>2
      DEF InstallationOK, ListingNext, Grant, Withdraw, RenameDefault, ApplyWebhook, Suspend,
          Unsuspend, BeginListing, ReadPage, ListingFails, CommitListing, ListingRefused, listings
    <2> QED
      BY <2>1, <2>2
      DEF ListingNext, Grant, Withdraw, RenameDefault, ApplyWebhook, Suspend, Unsuspend,
          BeginListing, ReadPage, ListingFails, CommitListing, ListingRefused, listings
  <1> QED
    BY <1>1, <1>2, PTL DEF ListingSpec

(* GitHub lists as many repositories as it has granted.                    *)
LEMMA GrantsCounted == ASSUME GrantsOK PROVE Cardinality(Granted) = Len(granted)
  <1>1. Len(granted) \in Nat /\ DOMAIN granted = 1 .. Len(granted)
    BY DEF GrantsOK
  <1>2. granted \in Bijection(1 .. Len(granted), Granted)
    BY <1>1 DEF GrantsOK, Granted, Bijection, Injection, Surjection,
                   IsInjective
  <1>3. IsFiniteSet(1 .. Len(granted)) /\ Cardinality(1 .. Len(granted)) = Len(granted)
    <2>1. ASSUME NEW n \in Nat PROVE IsFiniteSet(1 .. n) /\ Cardinality(1 .. n) = n
      BY FS_Interval
    <2> QED
      BY <1>1, <2>1
  <1>4. ExistsBijection(1 .. Len(granted), Granted)
    BY <1>2 DEF ExistsBijection
  <1> QED
    BY <1>3, <1>4, FS_Bijection

(* However pages are read and webhooks handled, each repository keeps one  *)
(* row of a known state (synchronize_repositories, the webhook handlers).  *)
THEOREM ListingTyped == ListingSpec => []ListingTypeOK
  <1>1. ListingInv /\ InstallationOK => ListingTypeOK
    BY GrantsCounted DEF ListingInv, RowsInv, RowsOK, GrantsOK, InstallationOK, ListingTypeOK
  <1> QED
    BY <1>1, ListingInvariant, InstallationInvariant, PTL

(* However the listings and the webhooks interleave, a repository that has *)
(* left is unusable once its webhooks are handled, but for a restorer      *)
(* that came too late (synchronize_repositories, _apply_repositories).     *)
THEOREM LeaversUnusable == ListingSpec => []UsableExplained
  <1>1. ListingInv => UsableExplained
    BY DEF ListingInv, RowsInv, LeaversKnown, UsableExplained
  <1> QED
    BY <1>1, ListingInvariant, PTL

(* A listing revokes a repository that was granted throughout only if its  *)
(* pages moved under it or were cut off (client.py's paging).              *)
THEOREM RevocationsExplained == ListingSpec => []RevokedSteadyExplained
  <1>1. ListingInv => RevokedSteadyExplained
    BY DEF ListingInv
  <1> QED
    BY <1>1, ListingInvariant, PTL

(* Only a listing leaves a row at a branch that has no job                 *)
(* (_upsert_repository, _apply_repository_metadata).                       *)
THEOREM BranchesHaveJobs == ListingSpec => []BranchHasJob
  <1>1. ListingInv => BranchHasJob
    BY DEF ListingInv, RowsInv
  <1> QED
    BY <1>1, ListingInvariant, PTL

-----------------------------------------------------------------------------
(* Public repositories: one attachment at a time holds a GitHub id, and    *)
(* what it has read of the row and its jobs stays true until it commits.   *)
Served(i) == shared[i].indexed # 0 \/ shared[i].status # "revoked" \/ LastAwaited(i)

AttachmentsOK ==
    /\ \A a, b \in Asks :
        ask[a].pc = "attaching" /\ ask[b].pc = "attaching" /\ ask[a].id = ask[b].id => a = b
    /\ \A i \in Hosts, a \in Asks :
        ask[a].pc = "attaching" /\ ask[a].id = i =>
            /\ IF ask[a].starts THEN OpenRunOf(i) = {} ELSE Served(i)
            /\ shared[i].revoked => OpenRunOf(i) \subseteq ask[a].awaits

(* An open job is the last of its repository.                              *)
SingleRuns ==
    \A r, s \in Runs : IsOpen(r) /\ runs[r].repository = runs[s].repository => s <= r

Awaited(r) == \E a \in Asks : r \in ask[a].awaits

(* Who will write the status of a revocation has found the row withdrawn.  *)
CancelsOK ==
    \A r \in Runs : runs[r].state = "cancelling" => Repo(r).revoked \/ Awaited(r)

(* What GitHub may answer, and what it has answered, it has shown; and     *)
(* what a request may carry.                                               *)
ShownOK ==
    /\ \A a \in Asks :
        ask[a].pc = "asking" /\ ~hosted[ask[a].name].private => hosted[ask[a].name].id \in ask[a].shown
    /\ \A a \in Asks :
        ask[a].pc \in {"answered", "attaching"} =>
            ask[a].id \in ask[a].shown /\ ask[a].id # 0 /\ ask[a].head # 0
    /\ \A a \in Asks : ask[a].pc = "revoking" => ask[a].refreshes # 0
    /\ \A a \in Asks : ask[a].pc \in {"asking", "answered"} => ask[a].awaits = {}

ImportTypes ==
    /\ hosted \in [Names -> HostedRow] /\ shared \in [Hosts -> SharedRow]
    /\ runs \in Seq(RunRow) /\ ask \in Seq(AskRow)

ImportInv ==
    /\ ImportTypes /\ AttachmentsOK /\ SingleRuns /\ CancelsOK /\ ShownOK /\ RestorationExplained

LEMMA InitImports == ImportInit => ImportInv
  <1> SUFFICES ASSUME ImportInit PROVE ImportInv
    OBVIOUS
  <1>1. hosted \in [Names -> HostedRow] /\ runs = <<>> /\ ask = <<>>
    BY DEF ImportInit
  <1>2. PICK n \in Names : n = CHOOSE m \in Names : TRUE
    BY ImportBounds
  <1>3. PICK branch \in DefaultBranches : branch = Branch(1)
    BY ImportBounds DEF DefaultBranches
  <1>4. \A i \in Hosts : shared[i] \in SharedRow /\ shared[i].status = "not_indexed"
    <2>1. 0 \in 0 .. MaxCommits
      BY ImportBounds
    <2>2. \A i \in Hosts :
            shared[i] = [exists |-> FALSE, name |-> n, branch |-> branch, revoked |-> FALSE,
                         generation |-> 0, indexed |-> 0, status |-> "not_indexed"]
      BY <1>2, <1>3 DEF ImportInit
    <2>3. PICK after : after = [exists |-> FALSE, name |-> n, branch |-> branch, revoked |-> FALSE,
                            generation |-> 0, indexed |-> 0, status |-> "not_indexed"]
      OBVIOUS
    <2>4. after \in SharedRow /\ after.status = "not_indexed"
      BY <2>1, <2>3 DEF SharedRow
    <2> QED
      BY <2>2, <2>3, <2>4
  <1>5. shared \in [Hosts -> SharedRow]
    BY <1>4 DEF ImportInit
  <1> QED
    BY <1>1, <1>4, <1>5
    DEF ImportInv, ImportTypes, AttachmentsOK, SingleRuns, CancelsOK, ShownOK, RestorationExplained,
        Asks, Runs

LEMMA AskTyped ==
  ASSUME ImportTypes, NEW a \in Asks
  PROVE  /\ ask[a] \in AskRow /\ ask[a].name \in Names /\ ask[a].shown \subseteq Hosts
         /\ ask[a].id \in {0} \cup Hosts /\ ask[a].refreshes \in {0} \cup Hosts /\ ask[a].user \in Users
         /\ ask[a].head \in 0 .. MaxCommits /\ ask[a].starts \in BOOLEAN
         /\ ask[a].awaits \subseteq Nat
  <1>1. ask[a] \in AskRow
    BY DEF ImportTypes, Asks
  <1> QED
    BY <1>1 DEF AskRow

LEMMA RunTyped ==
  ASSUME ImportTypes, NEW r \in Runs
  PROVE  /\ runs[r] \in RunRow /\ runs[r].repository \in Hosts /\ runs[r].commit \in 1 .. MaxCommits
         /\ r \in Nat
  <1>1. runs[r] \in RunRow /\ r \in Nat
    BY DEF ImportTypes, Runs
  <1> QED
    BY <1>1 DEF RunRow

LEMMA OneAsk ==
  ASSUME ImportTypes, NEW a \in Asks, NEW new \in AskRow, ask' = [ask EXCEPT ![a] = new]
  PROVE  /\ ask' \in Seq(AskRow) /\ Asks' = Asks /\ ask'[a] = new
         /\ \A b \in Asks : b # a => ask'[b] = ask[b]
  <1>1. a \in 1 .. Len(ask) /\ ask \in Seq(AskRow)
    BY DEF ImportTypes, Asks
  <1> QED
    BY <1>1 DEF Asks

LEMMA MappedAsks ==
  ASSUME ImportTypes, NEW f, f \in [Asks -> AskRow], ask' = f
  PROVE  ask' \in Seq(AskRow) /\ Asks' = Asks
  <1>1. Len(ask) \in Nat /\ Asks = 1 .. Len(ask)
    BY DEF ImportTypes, Asks
  <1>2. f \in Seq(AskRow) /\ DOMAIN f = 1 .. Len(ask)
    BY <1>1
  <1> QED
    BY <1>1, <1>2 DEF Asks

(* What explains the status of i stays, unless a job of i begins or ends.  *)
LEMMA AwaitedStays ==
  ASSUME NEW i, LastAwaited(i), Runs \subseteq Runs', Asks \subseteq Asks',
         \A s \in Runs : runs'[s].repository = runs[s].repository,
         \A s \in Runs : runs[s].repository = i /\ runs[s].state # "ended" => runs'[s].state # "ended",
         \A s \in Runs' : s \notin Runs => runs'[s].repository # i,
         \A a \in Asks : ask[a].awaits \subseteq ask'[a].awaits
  PROVE  LastAwaited(i)'
  <1>1. PICK r \in Runs :
            /\ runs[r].repository = i /\ runs[r].state # "ended"
            /\ \A s \in Runs : runs[s].repository = i => s <= r
            /\ \E a \in Asks : r \in ask[a].awaits
    BY DEF LastAwaited
  <1>2. r \in Runs' /\ runs'[r].repository = i /\ runs'[r].state # "ended"
    BY <1>1
  <1>3. \A s \in Runs' : runs'[s].repository = i => s <= r
    BY <1>1
  <1>4. \E a \in Asks' : r \in ask'[a].awaits
    BY <1>1
  <1> QED
    BY <1>2, <1>3, <1>4 DEF LastAwaited

(* An open job that a request awaits explains the status.                  *)
LEMMA OpenExplains ==
  ASSUME SingleRuns, NEW r \in Runs, IsOpen(r), Awaited(r)
  PROVE  LastAwaited(runs[r].repository)
  <1>1. runs[r].state # "ended"
    BY DEF IsOpen, Ended
  <1>2. \A s \in Runs : runs[s].repository = runs[r].repository => s <= r
    BY DEF SingleRuns
  <1> QED
    BY <1>1, <1>2 DEF LastAwaited, Awaited

-----------------------------------------------------------------------------
(* A step that changes requests only: what it begins to attach it has      *)
(* found so, and every other attachment goes on.                           *)
LEMMA AsksMove ==
  ASSUME ImportInv, hosted' \in [Names -> HostedRow], ask' \in Seq(AskRow), Asks \subseteq Asks',
         UNCHANGED <<shared, runs>>, ShownOK',
         \A a \in Asks : ask[a].awaits \subseteq ask'[a].awaits,
         \A a, b \in Asks' :
            ask'[a].pc = "attaching" /\ ask'[b].pc = "attaching" /\ ask'[a].id = ask'[b].id => a = b,
         \A a \in Asks' : ask'[a].pc = "attaching" =>
            \/ /\ a \in Asks /\ ask[a].pc = "attaching" /\ ask'[a].id = ask[a].id
               /\ ask'[a].starts = ask[a].starts
            \/ /\ IF ask'[a].starts THEN OpenRunOf(ask'[a].id) = {}
                  ELSE \/ shared[ask'[a].id].revoked /\ OpenRunOf(ask'[a].id) # {}
                       \/ Served(ask'[a].id)
               /\ shared[ask'[a].id].revoked => OpenRunOf(ask'[a].id) \subseteq ask'[a].awaits
  PROVE  ImportInv'
  <1>1. Runs' = Runs /\ shared' = shared /\ runs' = runs
    BY DEF Runs
  <1>2. \A i : OpenRunOf(i)' = OpenRunOf(i)
    BY <1>1 DEF OpenRunOf, IsOpen
  <1>3. SingleRuns'
    BY <1>1 DEF ImportInv, SingleRuns, IsOpen
  <1>4. CancelsOK'
    BY <1>1 DEF ImportInv, CancelsOK, Awaited, Repo
  <1>5. \A i \in Hosts : LastAwaited(i) => LastAwaited(i)'
    BY <1>1, AwaitedStays
  <1>6. \A i \in Hosts : Served(i) => Served(i)'
    BY <1>1, <1>5 DEF Served
  <1>7. RestorationExplained'
    BY <1>1, <1>5 DEF ImportInv, RestorationExplained
  <1>8. ASSUME NEW i \in Hosts, NEW a \in Asks', ask'[a].pc = "attaching", ask'[a].id = i
        PROVE  /\ IF ask'[a].starts THEN OpenRunOf(i)' = {} ELSE Served(i)'
               /\ shared'[i].revoked => OpenRunOf(i)' \subseteq ask'[a].awaits
    <2>1. CASE /\ a \in Asks /\ ask[a].pc = "attaching" /\ ask'[a].id = ask[a].id
               /\ ask'[a].starts = ask[a].starts
      <3>1. /\ IF ask[a].starts THEN OpenRunOf(i) = {} ELSE Served(i)
            /\ shared[i].revoked => OpenRunOf(i) \subseteq ask[a].awaits
        BY <1>8, <2>1 DEF ImportInv, AttachmentsOK
      <3> QED
        BY <1>1, <1>2, <1>6, <2>1, <3>1
    <2>2. CASE /\ IF ask'[a].starts THEN OpenRunOf(i) = {}
                  ELSE (shared[i].revoked /\ OpenRunOf(i) # {}) \/ Served(i)
               /\ shared[i].revoked => OpenRunOf(i) \subseteq ask'[a].awaits
      <3>1. ASSUME shared[i].revoked, OpenRunOf(i) # {} PROVE Served(i)'
        <4>1. PICK r \in Runs : r \in OpenRunOf(i) /\ IsOpen(r) /\ runs[r].repository = i
          BY <3>1 DEF OpenRunOf
        <4>2. r \in ask'[a].awaits
          BY <2>2, <3>1, <4>1
        <4>3. r \in Runs' /\ runs'[r].repository = i /\ runs'[r].state # "ended"
          BY <1>1, <4>1 DEF IsOpen, Ended
        <4>4. \A s \in Runs' : runs'[s].repository = i => s <= r
          BY <1>1, <4>1 DEF ImportInv, SingleRuns
        <4>5. LastAwaited(i)'
          BY <1>8, <4>2, <4>3, <4>4 DEF LastAwaited
        <4> QED
          BY <4>5 DEF Served
      <3> QED
        BY <1>1, <1>2, <1>6, <2>2, <3>1
    <2> QED
      BY <1>8, <2>1, <2>2
  <1>9. AttachmentsOK'
    BY <1>8 DEF AttachmentsOK
  <1> QED
    BY <1>1, <1>3, <1>4, <1>7, <1>9 DEF ImportInv, ImportTypes

(* A step of GitHub's.                                                     *)
Unmoved(a) ==
    /\ ask'[a].pc = ask[a].pc /\ ask'[a].id = ask[a].id /\ ask'[a].head = ask[a].head
    /\ ask'[a].starts = ask[a].starts /\ ask'[a].refreshes = ask[a].refreshes
    /\ ask'[a].name = ask[a].name /\ ask'[a].awaits = ask[a].awaits

LEMMA GithubMoves ==
  ASSUME ImportInv, hosted' \in [Names -> HostedRow], ask' \in Seq(AskRow), Asks' = Asks,
         UNCHANGED <<shared, attached, runs>>,
         \A a \in Asks : Unmoved(a) /\ ask[a].shown \subseteq ask'[a].shown,
         \A a \in Asks :
            ask[a].pc = "asking" /\ ~hosted'[ask[a].name].private
               => \/ hosted'[ask[a].name].id \in ask'[a].shown
                  \/ ~hosted[ask[a].name].private /\ hosted'[ask[a].name].id = hosted[ask[a].name].id
  PROVE  ImportInv'
  <1>1. ShownOK'
    BY DEF ImportInv, ShownOK, Unmoved
  <1>2. \A a \in Asks :
            /\ ask'[a].pc = ask[a].pc /\ ask'[a].id = ask[a].id /\ ask'[a].starts = ask[a].starts
            /\ ask[a].awaits \subseteq ask'[a].awaits
    BY DEF Unmoved
  <1>3. \A a, b \in Asks' :
            ask'[a].pc = "attaching" /\ ask'[b].pc = "attaching" /\ ask'[a].id = ask'[b].id => a = b
    BY <1>2 DEF ImportInv, AttachmentsOK
  <1> QED
    BY <1>1, <1>2, <1>3, AsksMove

LEMMA CommitOfName == ASSUME ImportInv, NEW n \in Names, Commit(n) PROVE ImportInv'
  <1>1. PICK old \in HostedRow : old = hosted[n]
    BY DEF ImportInv, ImportTypes
  <1>2. PICK next \in 1 .. MaxCommits : next = old.head + 1
    BY <1>1, ImportBounds DEF Commit, HostedRow
  <1>3. PICK new : new = [old EXCEPT !.head = next]
    OBVIOUS
  <1>4. hosted' = [hosted EXCEPT ![n] = new]
    BY <1>1, <1>2, <1>3 DEF Commit, ImportInv, ImportTypes
  <1>5. new \in HostedRow /\ new.id = old.id /\ new.private = old.private
    BY <1>1, <1>2, <1>3 DEF HostedRow
  <1>6. hosted' \in [Names -> HostedRow]
    BY <1>4, <1>5 DEF ImportInv, ImportTypes
  <1>7. \A m \in Names : hosted'[m].id = hosted[m].id /\ hosted'[m].private = hosted[m].private
    BY <1>1, <1>4, <1>5 DEF ImportInv, ImportTypes
  <1>8. \A a \in Asks : ask[a].name \in Names
    BY AskTyped DEF ImportInv
  <1>9. ask' = ask /\ UNCHANGED <<shared, attached, runs>> /\ ask \in Seq(AskRow) /\ Asks' = Asks
    BY DEF Commit, ImportInv, ImportTypes, Asks
  <1> QED
    BY <1>6, <1>7, <1>8, <1>9, GithubMoves DEF Unmoved

(* What GitHub shows by a name from now on is noted by whoever asks for it.*)
LEMMA ShownNow ==
  ASSUME ImportInv, NEW n \in Names, hosted' \in [Names -> HostedRow], ask' = Shows(n, hosted'),
         UNCHANGED <<shared, attached, runs>>, \A m \in Names \ {n} : hosted'[m] = hosted[m]
  PROVE  ImportInv'
  <1>1. ASSUME NEW a \in Asks
        PROVE  /\ ask'[a] \in AskRow /\ Unmoved(a) /\ ask[a].shown \subseteq ask'[a].shown
               /\ ask[a].name = n /\ ask[a].pc = "asking" /\ ~hosted'[n].private
                    => hosted'[n].id \in ask'[a].shown
    <2>1. PICK old \in AskRow : old = ask[a]
      BY DEF ImportInv, ImportTypes, Asks
    <2>2. PICK shown \in SUBSET Hosts : shown = old.shown \cup {hosted'[n].id}
      <3>1. hosted'[n].id \in Hosts
        BY DEF HostedRow
      <3>2. old.shown \subseteq Hosts
        BY <2>1, AskTyped DEF ImportInv
      <3> QED
        BY <3>1, <3>2
    <2>3. PICK new : new = [old EXCEPT !.shown = shown]
      OBVIOUS
    <2>4. ask'[a] = IF old.name = n /\ old.pc = "asking" /\ ~hosted'[n].private THEN new ELSE old
      BY <2>1, <2>2, <2>3 DEF Shows
    <2>5. /\ new \in AskRow /\ new.shown = shown /\ new.pc = old.pc /\ new.id = old.id
          /\ new.head = old.head /\ new.starts = old.starts /\ new.refreshes = old.refreshes
          /\ new.name = old.name /\ new.awaits = old.awaits
      BY <2>1, <2>2, <2>3 DEF AskRow
    <2> QED
      BY <2>1, <2>2, <2>4, <2>5 DEF Unmoved
  <1>2. ask' \in [Asks -> AskRow]
    BY <1>1 DEF Shows
  <1>3. ask' \in Seq(AskRow) /\ Asks' = Asks
    BY <1>2, MappedAsks DEF ImportInv
  <1>4. \A a \in Asks : ask[a].name \in Names
    BY AskTyped DEF ImportInv
  <1>5. ASSUME NEW a \in Asks, ask[a].pc = "asking", ~hosted'[ask[a].name].private
        PROVE  \/ hosted'[ask[a].name].id \in ask'[a].shown
               \/ ~hosted[ask[a].name].private /\ hosted'[ask[a].name].id = hosted[ask[a].name].id
    BY <1>1, <1>4, <1>5
  <1> QED
    BY <1>1, <1>3, <1>5, GithubMoves

LEMMA VisibilitySteps ==
  ASSUME ImportInv, NEW n \in Names, ChangeVisibility(n) \/ Replace(n)
  PROVE  ImportInv'
  <1>1. PICK old \in HostedRow : old = hosted[n]
    BY DEF ImportInv, ImportTypes
  <1>2. \E new \in HostedRow : hosted' = [hosted EXCEPT ![n] = new]
    <2>1. CASE ChangeVisibility(n)
      <3>1. PICK private \in BOOLEAN : private = ~old.private
        OBVIOUS
      <3>2. PICK new : new = [old EXCEPT !.private = private]
        OBVIOUS
      <3>3. hosted' = [hosted EXCEPT ![n] = new]
        BY <1>1, <2>1, <3>1, <3>2 DEF ChangeVisibility, ImportInv, ImportTypes
      <3>4. new \in HostedRow
        BY <1>1, <3>1, <3>2 DEF HostedRow
      <3> QED
        BY <3>3, <3>4
    <2>2. CASE Replace(n)
      <3>1. PICK next \in 1 .. MaxCommits : next = old.head + 1
        BY <1>1, <2>2, ImportBounds DEF Replace, HostedRow
      <3>2. PICK i \in Hosts :
                hosted' = [hosted EXCEPT ![n] = [id |-> i, head |-> next, private |-> FALSE]]
        BY <1>1, <2>2, <3>1 DEF Replace
      <3>3. [id |-> i, head |-> next, private |-> FALSE] \in HostedRow
        BY DEF HostedRow
      <3> QED
        BY <3>2, <3>3
    <2> QED
      BY <2>1, <2>2
  <1>3. hosted' \in [Names -> HostedRow] /\ \A m \in Names \ {n} : hosted'[m] = hosted[m]
    BY <1>2 DEF ImportInv, ImportTypes
  <1>4. ask' = Shows(n, hosted') /\ UNCHANGED <<shared, attached, runs>>
    BY DEF ChangeVisibility, Replace
  <1> QED
    BY <1>3, <1>4, ShownNow

(* A request begins.                                                       *)
LEMMA AskStep ==
  ASSUME ImportInv, NEW u \in Users, NEW n \in Names, NEW i \in {0} \cup Hosts, AskGithub(u, n, i)
  PROVE  ImportInv'
  <1>1. PICK shown \in SUBSET Hosts : shown = IF hosted[n].private THEN {} ELSE {hosted[n].id}
    <2>1. hosted[n].id \in Hosts
      BY DEF ImportInv, ImportTypes, HostedRow
    <2> QED
      BY <2>1
  <1>2. PICK new : new = [pc |-> "asking", user |-> u, name |-> n, refreshes |-> i, id |-> 0,
                          head |-> 0, beside |-> FALSE, starts |-> FALSE, shown |-> shown,
                          awaits |-> {}]
    OBVIOUS
  <1>3. new \in AskRow
    BY <1>2, ImportBounds DEF AskRow
  <1>4. ask' = Append(ask, new) /\ UNCHANGED <<hosted, shared, attached, runs>>
    BY <1>1, <1>2 DEF AskGithub
  <1>5. /\ ask' \in Seq(AskRow) /\ Asks = 1 .. Len(ask) /\ Asks' = 1 .. Len(ask) + 1 /\ Len(ask) \in Nat
        /\ \A a \in Asks : ask'[a] = ask[a]
        /\ ask'[Len(ask) + 1] = new
    BY <1>3, <1>4 DEF ImportInv, ImportTypes, Asks
  <1>6. ASSUME NEW a \in Asks', ask'[a].pc # "asking" PROVE a \in Asks /\ ask'[a] = ask[a]
    <2>1. a \in Asks \/ a = Len(ask) + 1
      BY <1>5
    <2>2. new.pc = "asking"
      BY <1>2
    <2> QED
      BY <1>5, <1>6, <2>1, <2>2
  <1>7. /\ new.pc = "asking" /\ new.name = n /\ new.awaits = {}
        /\ ~hosted[n].private => hosted[n].id \in new.shown
    BY <1>1, <1>2
  <1>8. ShownOK'
    <2>1. ASSUME NEW a \in Asks', ask'[a].pc = "asking", ~hosted[ask'[a].name].private
          PROVE  hosted[ask'[a].name].id \in ask'[a].shown
      <3>1. CASE a \in Asks
        BY <1>5, <2>1, <3>1 DEF ImportInv, ShownOK
      <3>2. CASE a = Len(ask) + 1
        BY <1>5, <1>7, <2>1, <3>2
      <3> QED
        BY <1>5, <3>1, <3>2
    <2>2. ASSUME NEW a \in Asks', ask'[a].pc \in {"answered", "attaching"}
          PROVE  ask'[a].id \in ask'[a].shown /\ ask'[a].id # 0 /\ ask'[a].head # 0
      BY <1>6, <2>2 DEF ImportInv, ShownOK
    <2>3. ASSUME NEW a \in Asks', ask'[a].pc = "revoking" PROVE ask'[a].refreshes # 0
      BY <1>6, <2>3 DEF ImportInv, ShownOK
    <2>4. \A a \in Asks' : ask'[a].pc \in {"asking", "answered"} => ask'[a].awaits = {}
      BY <1>5, <1>6, <1>7 DEF ImportInv, ShownOK
    <2>5. \A a \in Asks' :
            ask'[a].pc = "asking" /\ ~hosted'[ask'[a].name].private
                => hosted'[ask'[a].name].id \in ask'[a].shown
      BY <1>4, <2>1
    <2> QED
      BY <2>2, <2>3, <2>4, <2>5 DEF ShownOK
  <1>9. \A a, b \in Asks' :
          ask'[a].pc = "attaching" /\ ask'[b].pc = "attaching" /\ ask'[a].id = ask'[b].id => a = b
    BY <1>6 DEF ImportInv, AttachmentsOK
  <1>10. /\ hosted' \in [Names -> HostedRow] /\ Asks \subseteq Asks'
         /\ \A a \in Asks : ask[a].awaits \subseteq ask'[a].awaits
    BY <1>4, <1>5 DEF ImportInv, ImportTypes
  <1> QED
    BY <1>4, <1>5, <1>6, <1>8, <1>9, <1>10, AsksMove

(* One request goes on, without a change to a row.                         *)
LEMMA AskMoves ==
  ASSUME ImportInv, NEW a \in Asks, NEW new \in AskRow, ask' = [ask EXCEPT ![a] = new],
         UNCHANGED <<hosted, shared, attached, runs>>,
         new.pc \in {"answered", "refused", "revoking", "attaching"},
         ask[a].awaits \subseteq new.awaits,
         new.pc \in {"answered", "attaching"} => new.id \in new.shown /\ new.id # 0 /\ new.head # 0,
         new.pc = "revoking" => new.refreshes # 0, new.pc = "answered" => new.awaits = {},
         new.pc = "attaching" =>
            /\ ~Held(new.id)
            /\ IF new.starts THEN OpenRunOf(new.id) = {}
               ELSE (shared[new.id].revoked /\ OpenRunOf(new.id) # {}) \/ Served(new.id)
            /\ shared[new.id].revoked => OpenRunOf(new.id) \subseteq new.awaits
  PROVE  ImportInv'
  <1>1. /\ ask' \in Seq(AskRow) /\ Asks' = Asks /\ ask'[a] = new
        /\ \A b \in Asks : b # a => ask'[b] = ask[b]
    BY OneAsk DEF ImportInv
  <1>2. ShownOK'
    BY <1>1 DEF ImportInv, ShownOK
  <1>3. ASSUME NEW b \in Asks', NEW c \in Asks', ask'[b].pc = "attaching", ask'[c].pc = "attaching",
               ask'[b].id = ask'[c].id
        PROVE  b = c
    BY <1>1, <1>3 DEF ImportInv, AttachmentsOK, Held
  <1>4. hosted' \in [Names -> HostedRow]
    BY DEF ImportInv, ImportTypes
  <1>5. \A b \in Asks : ask[b].awaits \subseteq ask'[b].awaits
    BY <1>1
  <1>6. ASSUME NEW b \in Asks', ask'[b].pc = "attaching"
        PROVE  \/ /\ b \in Asks /\ ask[b].pc = "attaching" /\ ask'[b].id = ask[b].id
                  /\ ask'[b].starts = ask[b].starts
               \/ ask'[b] = new
    BY <1>1, <1>6
  <1> QED
    BY <1>1, <1>2, <1>3, <1>4, <1>5, <1>6, AsksMove

LEMMA MovedTo ==
  ASSUME ImportTypes, NEW a \in Asks, NEW pc \in {"refused", "revoking", "attached"}, Moves(a, pc)
  PROVE  \E new \in AskRow :
            /\ ask' = [ask EXCEPT ![a] = new] /\ new.pc = pc /\ new.awaits = ask[a].awaits
            /\ new.user = ask[a].user /\ new.beside = ask[a].beside
            /\ pc = "revoking" => new.refreshes = ask[a].refreshes
  <1>1. PICK old \in AskRow : old = ask[a]
    BY AskTyped
  <1>2. PICK refreshes \in {0} \cup Hosts : refreshes = IF pc = "revoking" THEN old.refreshes ELSE 0
    BY <1>1, AskTyped
  <1>3. PICK new : new = [old EXCEPT !.pc = pc, !.id = 0, !.head = 0, !.starts = FALSE, !.shown = {},
                                     !.refreshes = refreshes]
    OBVIOUS
  <1>4. ask' = [ask EXCEPT ![a] = new]
    BY <1>1, <1>2, <1>3 DEF Moves, ImportTypes, Asks
  <1>5. new \in AskRow
    <2>1. 0 \in 0 .. MaxCommits
      BY ImportBounds
    <2>2. PICK begun : begun = [old EXCEPT !.pc = pc, !.id = 0]
      OBVIOUS
    <2>3. begun \in AskRow
      BY <1>1, <2>2 DEF AskRow
    <2>4. PICK emptied : emptied = [begun EXCEPT !.head = 0, !.starts = FALSE]
      OBVIOUS
    <2>5. emptied \in AskRow
      BY <2>1, <2>3, <2>4 DEF AskRow
    <2>6. [emptied EXCEPT !.shown = {}, !.refreshes = refreshes] \in AskRow
      BY <1>2, <2>5 DEF AskRow
    <2> QED
      BY <1>1, <1>3, <2>2, <2>4, <2>6 DEF AskRow
  <1>6. /\ new.pc = pc /\ new.awaits = old.awaits /\ new.user = old.user /\ new.beside = old.beside
        /\ new.refreshes = refreshes
    BY <1>1, <1>3 DEF AskRow
  <1> QED
    BY <1>1, <1>2, <1>4, <1>5, <1>6

LEMMA AnswerSteps ==
  ASSUME ImportInv, NEW a \in Asks,
         GithubAnswers(a) \/ GithubWithdraws(a) \/ GithubFails(a) \/ LimitRefuses(a)
  PROVE  ImportInv'
  <1>0. ImportTypes /\ ask \in Seq(AskRow) /\ UNCHANGED <<hosted, shared, attached, runs>>
    BY DEF ImportInv, ImportTypes, GithubAnswers, GithubWithdraws, GithubFails, LimitRefuses
  <1>1. PICK old \in AskRow : old = ask[a]
    BY <1>0, AskTyped
  <1>2. CASE GithubAnswers(a)
    <2>1. hosted[old.name] \in HostedRow
      BY <1>0, <1>1, AskTyped DEF ImportTypes
    <2>2. PICK id \in Hosts, head0 \in 1 .. MaxCommits :
              id = hosted[old.name].id /\ head0 = hosted[old.name].head
      BY <2>1 DEF HostedRow
    <2>3. PICK shown : shown = old.shown \cap {id}
      OBVIOUS
    <2>4. PICK new : new = [old EXCEPT !.pc = "answered", !.id = id, !.head = head0, !.shown = shown]
      OBVIOUS
    <2>5. ask' = [ask EXCEPT ![a] = new]
      BY <1>0, <1>1, <1>2, <2>2, <2>3, <2>4 DEF GithubAnswers, Asks
    <2>6. head0 \in 0 .. MaxCommits /\ head0 # 0 /\ id \in {0} \cup Hosts /\ id # 0
      BY <2>2, ImportBounds DEF Hosts
    <2>7. shown \in SUBSET Hosts
      BY <1>0, <1>1, <2>3, AskTyped
    <2>8. /\ new \in AskRow /\ new.pc = "answered" /\ new.id = id /\ new.head = head0
          /\ new.shown = shown /\ new.awaits = old.awaits
      BY <1>1, <2>4, <2>6, <2>7 DEF AskRow
    <2>9. id \in shown /\ old.awaits = {}
      BY <1>1, <1>2, <2>2, <2>3 DEF GithubAnswers, Gone, ImportInv, ShownOK
    <2> QED
      BY <1>0, <1>1, <2>5, <2>6, <2>8, <2>9, AskMoves
  <1>3. CASE GithubWithdraws(a) \/ GithubFails(a) \/ LimitRefuses(a)
    <2>1. PICK pc \in {"refused", "revoking"} :
              Moves(a, pc) /\ (pc = "revoking" => old.refreshes # 0)
      BY <1>1, <1>3 DEF GithubWithdraws, GithubFails, LimitRefuses, WithdrawalGoesTo
    <2>2. PICK new \in AskRow :
            /\ ask' = [ask EXCEPT ![a] = new] /\ new.pc = pc /\ new.awaits = old.awaits
            /\ pc = "revoking" => new.refreshes = old.refreshes
      BY <1>0, <1>1, <2>1, MovedTo
    <2> QED
      BY <1>0, <1>1, <2>1, <2>2, AskMoves
  <1> QED
    BY <1>2, <1>3

LEMMA BeginAttachStep == ASSUME ImportInv, NEW a \in Asks, BeginAttach(a) PROVE ImportInv'
  <1>0. /\ ImportTypes /\ ask \in Seq(AskRow) /\ UNCHANGED <<hosted, shared, attached, runs>>
        /\ ask[a].pc = "answered" /\ ~Held(ask[a].id)
    BY DEF ImportInv, ImportTypes, BeginAttach
  <1>1. PICK old \in AskRow : old = ask[a] /\ old.id \in Hosts
    BY <1>0, AskTyped DEF ImportInv, ShownOK
  <1>2. PICK starts \in BOOLEAN : starts = Starts(a)
    BY DEF Starts
  <1>3. PICK beside \in BOOLEAN :
            beside = \E b \in Asks : ask[b].user = ask[a].user /\ ask[b].pc = "attaching"
    OBVIOUS
  <1>4. PICK awaits : awaits = IF shared[old.id].revoked THEN OpenRunOf(old.id) ELSE {}
    OBVIOUS
  <1>5. awaits \subseteq Nat
    BY <1>0, <1>4, RunTyped DEF OpenRunOf
  <1>6. PICK new : new = [old EXCEPT !.pc = "attaching", !.starts = starts, !.beside = beside,
                                     !.awaits = awaits]
    OBVIOUS
  <1>7. ask' = [ask EXCEPT ![a] = new]
    BY <1>0, <1>1, <1>2, <1>3, <1>4, <1>6 DEF BeginAttach, Asks
  <1>8. /\ new \in AskRow /\ new.pc = "attaching" /\ new.id = old.id /\ new.head = old.head
        /\ new.starts = starts /\ new.shown = old.shown /\ new.awaits = awaits
    BY <1>1, <1>5, <1>6 DEF AskRow
  <1>9. old.id \in old.shown /\ old.id # 0 /\ old.head # 0
    BY <1>0, <1>1 DEF ImportInv, ShownOK
  <1>10. IF starts THEN OpenRunOf(old.id) = {}
         ELSE (shared[old.id].revoked /\ OpenRunOf(old.id) # {}) \/ Served(old.id)
    <2>1. CASE starts
      BY <1>1, <1>2, <2>1 DEF Starts
    <2>2. CASE ~starts /\ shared[old.id].indexed = old.head
      BY <1>9, <2>2 DEF Served
    <2>3. CASE ~starts /\ OpenRunOf(old.id) # {}
      BY <1>1, <2>3 DEF ImportInv, RestorationExplained, Served
    <2> QED
      BY <1>1, <1>2, <2>1, <2>2, <2>3 DEF Starts, AlreadyCurrent
  <1>11. old.awaits = {}
    BY <1>0, <1>1 DEF ImportInv, ShownOK
  <1> QED
    BY <1>0, <1>1, <1>4, <1>7, <1>8, <1>9, <1>10, <1>11, AskMoves

-----------------------------------------------------------------------------
(* A step under the lock of one repository: its row and its jobs.          *)
LEMMA RowStep ==
  ASSUME ImportInv, NEW i \in Hosts, NEW after \in SharedRow, shared' = [shared EXCEPT ![i] = after],
         hosted' = hosted, ask' \in Seq(AskRow), Asks' = Asks, runs' \in Seq(RunRow),
         Runs \subseteq Runs', ShownOK', SingleRuns',
         \A s \in Runs : runs'[s].repository = runs[s].repository,
         \A s \in Runs : runs[s].repository # i => runs'[s] = runs[s],
         \A s \in Runs' : s \notin Runs => runs'[s].repository = i,
         \A s \in Runs' : runs'[s].repository = i /\ runs'[s].state = "cancelling" =>
            after.revoked \/ Awaited(s),
         \A a \in Asks : ask'[a].awaits = ask[a].awaits,
         \A a \in Asks : ask'[a].pc = "attaching" =>
            ask[a].pc = "attaching" /\ ask'[a] = ask[a] /\ ask[a].id # i,
         ~after.revoked /\ after.status = "revoked" /\ after.indexed = 0 => LastAwaited(i)'
  PROVE  ImportInv'
  <1>1. /\ shared' \in [Hosts -> SharedRow] /\ shared'[i] = after
        /\ \A j \in Hosts : j # i => shared'[j] = shared[j]
    BY DEF ImportInv, ImportTypes
  <1>2. \A j \in Hosts : j # i => OpenRunOf(j)' = OpenRunOf(j)
    BY DEF OpenRunOf, IsOpen
  <1>3. ASSUME NEW j \in Hosts, j # i, LastAwaited(j) PROVE LastAwaited(j)'
    BY <1>3, AwaitedStays
  <1>4. ASSUME NEW j \in Hosts, NEW a \in Asks, ask'[a].pc = "attaching", ask'[a].id = j
        PROVE  /\ IF ask'[a].starts THEN OpenRunOf(j)' = {} ELSE Served(j)'
               /\ shared'[j].revoked => OpenRunOf(j)' \subseteq ask'[a].awaits
    <2>1. j # i /\ ask'[a] = ask[a] /\ ask[a].pc = "attaching"
      BY <1>4
    <2>2. /\ IF ask[a].starts THEN OpenRunOf(j) = {} ELSE Served(j)
          /\ shared[j].revoked => OpenRunOf(j) \subseteq ask[a].awaits
      BY <1>4, <2>1 DEF ImportInv, AttachmentsOK
    <2>3. Served(j) => Served(j)'
      BY <1>1, <1>3, <2>1 DEF Served
    <2> QED
      BY <1>1, <1>2, <2>1, <2>2, <2>3
  <1>5. \A b, c \in Asks :
          ask'[b].pc = "attaching" /\ ask'[c].pc = "attaching" /\ ask'[b].id = ask'[c].id => b = c
    BY DEF ImportInv, AttachmentsOK
  <1>6. AttachmentsOK'
    BY <1>4, <1>5 DEF AttachmentsOK
  <1>7. \A s : Awaited(s)' <=> Awaited(s)
    BY DEF Awaited
  <1>8. ASSUME NEW s \in Runs', runs'[s].state = "cancelling"
        PROVE  shared'[runs'[s].repository].revoked \/ Awaited(s)'
    <2>1. CASE runs'[s].repository = i
      BY <1>1, <1>7, <1>8, <2>1
    <2>2. CASE runs'[s].repository # i
      <3>1. s \in Runs /\ runs'[s] = runs[s] /\ runs[s].repository \in Hosts
        BY <2>2, RunTyped DEF ImportInv
      <3>2. shared[runs[s].repository].revoked \/ Awaited(s)
        BY <1>8, <3>1 DEF ImportInv, CancelsOK, Repo
      <3> QED
        BY <1>1, <1>7, <2>2, <3>1, <3>2
    <2> QED
      BY <2>1, <2>2
  <1>9. CancelsOK'
    BY <1>8 DEF CancelsOK, Repo
  <1>10. RestorationExplained'
    BY <1>1, <1>3 DEF ImportInv, RestorationExplained
  <1> QED
    BY <1>1, <1>6, <1>9, <1>10 DEF ImportInv, ImportTypes

LEMMA RevokeSharedStep == ASSUME ImportInv, NEW a \in Asks, RevokeShared(a) PROVE ImportInv'
  <1>0. /\ ImportTypes /\ ask \in Seq(AskRow) /\ UNCHANGED <<hosted, attached, runs>>
        /\ ask[a].pc = "revoking" /\ ~Held(ask[a].refreshes) /\ Moves(a, "refused")
    BY DEF ImportInv, ImportTypes, RevokeShared
  <1>1. PICK i \in Hosts : i = ask[a].refreshes
    BY <1>0, AskTyped DEF ImportInv, ShownOK
  <1>2. PICK new \in AskRow :
          ask' = [ask EXCEPT ![a] = new] /\ new.pc = "refused" /\ new.awaits = ask[a].awaits
    BY <1>0, MovedTo
  <1>3. /\ ask' \in Seq(AskRow) /\ Asks' = Asks /\ ask'[a] = new
        /\ \A b \in Asks : b # a => ask'[b] = ask[b]
    BY <1>0, <1>2, OneAsk
  <1>4. PICK before \in SharedRow : before = shared[i]
    BY <1>0 DEF ImportTypes
  <1>5. PICK after : after = [before EXCEPT !.revoked = TRUE, !.status = "revoked"]
    OBVIOUS
  <1>6. shared' = [shared EXCEPT ![i] = after]
    BY <1>0, <1>1, <1>4, <1>5 DEF RevokeShared, ImportTypes
  <1>7. after \in SharedRow /\ after.revoked
    BY <1>4, <1>5 DEF SharedRow
  <1>8. ShownOK'
    BY <1>0, <1>2, <1>3 DEF ImportInv, ShownOK
  <1>9. runs' = runs /\ Runs' = Runs /\ runs' \in Seq(RunRow)
    BY <1>0 DEF ImportTypes, Runs
  <1>10. SingleRuns'
    BY <1>9 DEF ImportInv, SingleRuns, IsOpen
  <1>11. \A b \in Asks : ask'[b].pc = "attaching" =>
            ask[b].pc = "attaching" /\ ask'[b] = ask[b] /\ ask[b].id # i
    BY <1>0, <1>1, <1>2, <1>3 DEF Held
  <1>12. \A b \in Asks : ask'[b].awaits = ask[b].awaits
    BY <1>2, <1>3
  <1> QED
    BY <1>0, <1>3, <1>6, <1>7, <1>8, <1>9, <1>10, <1>11, <1>12, RowStep

-----------------------------------------------------------------------------
(* The steps of a job.                                                     *)
LEMMA GoesTo ==
  ASSUME ImportTypes, NEW r \in Runs,
         NEW state \in {"queued"} \cup Running \cup Ended, Goes(r, state)
  PROVE  \E new \in RunRow :
            /\ runs' = [runs EXCEPT ![r] = new] /\ new.state = state
            /\ new.repository = runs[r].repository
  <1>1. PICK old \in RunRow : old = runs[r]
    BY RunTyped
  <1>2. PICK new : new = [old EXCEPT !.state = state]
    OBVIOUS
  <1>3. new \in RunRow /\ new.state = state /\ new.repository = old.repository
    BY <1>1, <1>2 DEF RunRow
  <1>4. runs' = [runs EXCEPT ![r] = new]
    BY <1>1, <1>2 DEF Goes, Runs, ImportTypes
  <1> QED
    BY <1>1, <1>3, <1>4

LEMMA OneRun ==
  ASSUME ImportInv, NEW r \in Runs, NEW new \in RunRow, runs' = [runs EXCEPT ![r] = new],
         new.repository = runs[r].repository, IsOpen(r)
  PROVE  /\ runs' \in Seq(RunRow) /\ Runs' = Runs /\ runs'[r] = new
         /\ \A s \in Runs : s # r => runs'[s] = runs[s]
         /\ \A s \in Runs : runs'[s].repository = runs[s].repository
         /\ SingleRuns'
  <1>1. r \in 1 .. Len(runs) /\ runs \in Seq(RunRow)
    BY DEF ImportInv, ImportTypes, Runs
  <1>2. /\ runs' \in Seq(RunRow) /\ Runs' = Runs /\ runs'[r] = new
        /\ \A s \in Runs : s # r => runs'[s] = runs[s]
    BY <1>1 DEF Runs
  <1>3. SingleRuns'
    BY <1>2 DEF ImportInv, SingleRuns, IsOpen
  <1> QED
    BY <1>2, <1>3

(* One that looks goes on, or is not to.                                   *)
LEMMA RunLooks ==
  ASSUME ImportInv, NEW r \in Runs, IsOpen(r), NEW new \in RunRow,
         runs' = [runs EXCEPT ![r] = new], UNCHANGED <<hosted, shared, attached, ask>>,
         new.repository = runs[r].repository, new.state # "ended",
         new.state = "cancelling" => Repo(r).revoked
  PROVE  ImportInv'
  <1>1. /\ runs' \in Seq(RunRow) /\ Runs' = Runs /\ runs'[r] = new /\ SingleRuns'
        /\ \A s \in Runs : s # r => runs'[s] = runs[s]
        /\ \A s \in Runs : runs'[s].repository = runs[s].repository
    BY OneRun
  <1>2. ask' = ask /\ Asks' = Asks /\ shared' = shared /\ hosted' = hosted
    BY DEF Asks
  <1>3. \A i : OpenRunOf(i)' \subseteq OpenRunOf(i)
    BY <1>1 DEF OpenRunOf, IsOpen
  <1>4. ASSUME NEW i \in Hosts, LastAwaited(i) PROVE LastAwaited(i)'
    <2>1. \A s \in Runs : runs[s].state # "ended" => runs'[s].state # "ended"
      BY <1>1
    <2> QED
      BY <1>1, <1>2, <1>4, <2>1, AwaitedStays
  <1>5. \A i \in Hosts : Served(i) => Served(i)'
    BY <1>2, <1>4 DEF Served
  <1>6. AttachmentsOK'
    <2>1. \A a, b \in Asks' :
            ask'[a].pc = "attaching" /\ ask'[b].pc = "attaching" /\ ask'[a].id = ask'[b].id => a = b
      BY <1>2 DEF ImportInv, AttachmentsOK
    <2>2. ASSUME NEW i \in Hosts, NEW a \in Asks', ask'[a].pc = "attaching", ask'[a].id = i
          PROVE  /\ IF ask'[a].starts THEN OpenRunOf(i)' = {} ELSE Served(i)'
                 /\ shared'[i].revoked => OpenRunOf(i)' \subseteq ask'[a].awaits
      <3>1. /\ IF ask[a].starts THEN OpenRunOf(i) = {} ELSE Served(i)
            /\ shared[i].revoked => OpenRunOf(i) \subseteq ask[a].awaits
        BY <1>2, <2>2 DEF ImportInv, AttachmentsOK
      <3> QED
        BY <1>2, <1>3, <1>5, <3>1
    <2> QED
      BY <2>1, <2>2 DEF AttachmentsOK
  <1>7. CancelsOK'
    <2>1. ASSUME NEW s \in Runs', runs'[s].state = "cancelling"
          PROVE  shared[runs[s].repository].revoked \/ Awaited(s)
      <3>1. CASE s = r
        BY <1>1, <2>1, <3>1 DEF Repo
      <3>2. CASE s # r
        BY <1>1, <2>1, <3>2 DEF ImportInv, CancelsOK, Repo
      <3> QED
        BY <3>1, <3>2
    <2>2. \A s : Awaited(s)' <=> Awaited(s)
      BY <1>2 DEF Awaited
    <2> QED
      BY <1>1, <1>2, <2>1, <2>2 DEF CancelsOK, Repo
  <1>8. ShownOK'
    BY <1>2 DEF ImportInv, ShownOK
  <1>9. RestorationExplained'
    BY <1>2, <1>4 DEF ImportInv, RestorationExplained
  <1> QED
    BY <1>1, <1>2, <1>6, <1>7, <1>8, <1>9 DEF ImportInv, ImportTypes

(* One that writes the row waits for its lock.                             *)
LEMMA RunWrites ==
  ASSUME ImportInv, NEW r \in Runs, IsOpen(r), NEW new \in RunRow, NEW after \in SharedRow,
         runs' = [runs EXCEPT ![r] = new], shared' = [shared EXCEPT ![runs[r].repository] = after],
         UNCHANGED <<hosted, attached, ask>>, ~Held(runs[r].repository),
         new.repository = runs[r].repository, new.state # "cancelling",
         Repo(r).revoked => after.revoked,
         after.status = "revoked"
            => after.revoked \/ (runs[r].state = "cancelling" /\ new.state = "cancelled")
  PROVE  ImportInv'
  <1>1. /\ runs' \in Seq(RunRow) /\ Runs' = Runs /\ runs'[r] = new /\ SingleRuns'
        /\ \A s \in Runs : s # r => runs'[s] = runs[s]
        /\ \A s \in Runs : runs'[s].repository = runs[s].repository
    BY OneRun
  <1>2. ask' = ask /\ Asks' = Asks /\ ask' \in Seq(AskRow) /\ hosted' = hosted
    BY DEF Asks, ImportInv, ImportTypes
  <1>3. PICK i \in Hosts : i = runs[r].repository
    BY RunTyped DEF ImportInv
  <1>4. ShownOK'
    BY <1>2 DEF ImportInv, ShownOK
  <1>5. \A s \in Runs : runs[s].repository # i => runs'[s] = runs[s]
    BY <1>1, <1>3
  <1>6. ASSUME NEW s \in Runs', runs'[s].repository = i, runs'[s].state = "cancelling"
        PROVE  after.revoked \/ Awaited(s)
    <2>1. s \in Runs /\ s # r /\ runs[s].repository = i /\ runs[s].state = "cancelling"
      BY <1>1, <1>6
    <2>2. shared[i].revoked \/ Awaited(s)
      BY <2>1 DEF ImportInv, CancelsOK, Repo
    <2> QED
      BY <1>3, <2>2 DEF Repo
  <1>7. \A a \in Asks : ask'[a].pc = "attaching" =>
            ask[a].pc = "attaching" /\ ask'[a] = ask[a] /\ ask[a].id # i
    BY <1>2, <1>3 DEF Held
  <1>8. ASSUME ~after.revoked, after.status = "revoked" PROVE LastAwaited(i)'
    <2>1. runs[r].state = "cancelling" /\ new.state = "cancelled" /\ ~Repo(r).revoked
      BY <1>8
    <2>2. PICK a \in Asks : r \in ask[a].awaits
      BY <2>1 DEF ImportInv, CancelsOK, Awaited
    <2>3. \A s \in Runs : runs[s].repository = i => s <= r
      BY <1>3 DEF ImportInv, SingleRuns
    <2> QED
      BY <1>1, <1>2, <1>3, <2>1, <2>2, <2>3 DEF LastAwaited
  <1> QED
    BY <1>1, <1>2, <1>3, <1>4, <1>5, <1>6, <1>7, <1>8, RowStep

LEMMA StatusWritten ==
  ASSUME ImportTypes, NEW r \in Runs, NEW outcome \in {"busy", "done", "revoked"}, Writes(r, outcome)
  PROVE  \E after \in SharedRow :
            /\ shared' = [shared EXCEPT ![runs[r].repository] = after] /\ after.status = outcome
            /\ after.exists = Repo(r).exists /\ after.revoked = Repo(r).revoked
  <1>1. PICK i \in Hosts : i = runs[r].repository
    BY RunTyped
  <1>2. PICK before \in SharedRow : before = shared[i]
    BY DEF ImportTypes
  <1>3. PICK after : after = [before EXCEPT !.status = outcome]
    OBVIOUS
  <1>4. /\ after \in SharedRow /\ after.status = outcome /\ after.exists = before.exists
        /\ after.revoked = before.revoked
    BY <1>2, <1>3 DEF SharedRow
  <1>5. shared' = [shared EXCEPT ![i] = after]
    BY <1>1, <1>2, <1>3 DEF Writes, ImportTypes
  <1> QED
    BY <1>1, <1>2, <1>4, <1>5 DEF Repo

(* Of a step of a job: it only looks at the row, or it writes it under the *)
(* row's lock; only cancel_revoked leaves the status of a revocation on a  *)
(* row that is given back.                                                 *)
LEMMA WorkShape ==
  ASSUME ImportTypes, NEW r \in Runs, Work(r)
  PROVE  /\ UNCHANGED <<hosted, attached, ask>> /\ IsOpen(r)
         /\ \E new \in RunRow, after \in SharedRow :
              /\ runs' = [runs EXCEPT ![r] = new] /\ new.repository = runs[r].repository
              /\ shared' = [shared EXCEPT ![runs[r].repository] = after]
              /\ after.exists = Repo(r).exists /\ (Repo(r).revoked => after.revoked)
              /\ \/ /\ shared' = shared /\ new.state # "ended"
                    /\ new.state = "cancelling" => Repo(r).revoked
                 \/ /\ ~Held(runs[r].repository) /\ new.state # "cancelling"
                    /\ after.status = "revoked" =>
                         after.revoked \/ (runs[r].state = "cancelling" /\ new.state = "cancelled")
  <1>1. PICK i \in Hosts : i = runs[r].repository
    BY RunTyped
  <1>2. PICK before \in SharedRow : before = shared[i] /\ before = Repo(r)
    BY <1>1 DEF ImportTypes, Repo
  <1>3. PICK old \in RunRow : old = runs[r]
    BY RunTyped
  <1>4. shared = [shared EXCEPT ![i] = before]
    BY <1>1, <1>2 DEF ImportTypes
  <1>5. CASE Check(r)
    <2>1. PICK state \in {"working", "ready", "cancelling", "cancelled"} :
            Goes(r, state) /\ (state = "cancelling" => Repo(r).revoked)
      BY <1>5 DEF Check
    <2>2. state \in {"queued"} \cup Running \cup Ended /\ state # "ended"
      BY DEF Running, Ended
    <2>3. PICK new \in RunRow :
            /\ runs' = [runs EXCEPT ![r] = new] /\ new.state = state
            /\ new.repository = runs[r].repository
      BY <2>1, <2>2, GoesTo
    <2>4. IsOpen(r) /\ UNCHANGED <<hosted, shared, attached, ask>>
      BY <1>5 DEF Check, Looks, IsOpen, Ended
    <2> QED
      BY <1>1, <1>2, <1>4, <2>1, <2>2, <2>3, <2>4
  <1>6. CASE Clone(r)
    <2>1. IsOpen(r) /\ UNCHANGED <<hosted, shared, attached, ask>>
      BY <1>6 DEF Clone, Looks, IsOpen, Ended
    <2>2. \E new \in RunRow :
            /\ runs' = [runs EXCEPT ![r] = new] /\ new.repository = runs[r].repository
            /\ new.state \notin {"ended", "cancelling"}
      <3>1. CASE \E state \in {"withdrawing", "cancelled"} : Goes(r, state)
        <4>1. PICK state \in {"withdrawing", "cancelled"} : Goes(r, state)
          BY <3>1
        <4>2. state \in {"queued"} \cup Running \cup Ended /\ state \notin {"ended", "cancelling"}
          BY DEF Running, Ended
        <4> QED
          BY <4>1, <4>2, GoesTo
      <3>2. CASE runs' = [runs EXCEPT ![r].state = "cloned", ![r].commit = hosted[Repo(r).name].head]
        <4>1. before.name \in Names
          BY DEF SharedRow
        <4>2. PICK commit \in 1 .. MaxCommits : commit = hosted[Repo(r).name].head
          BY <1>2, <4>1 DEF ImportTypes, HostedRow
        <4>3. PICK new : new = [old EXCEPT !.state = "cloned", !.commit = commit]
          OBVIOUS
        <4>4. new \in RunRow /\ new.state = "cloned" /\ new.repository = old.repository
          BY <4>3 DEF RunRow, Running
        <4>5. runs' = [runs EXCEPT ![r] = new]
          BY <1>3, <3>2, <4>2, <4>3 DEF Runs, ImportTypes
        <4> QED
          BY <1>3, <4>4, <4>5
      <3> QED
        BY <1>6, <3>1, <3>2 DEF Clone
    <2> QED
      BY <1>1, <1>2, <1>4, <2>1, <2>2
  <1>7. ASSUME NEW state \in {"queued", "claimed", "staged", "cancelled", "ended"},
               NEW outcome \in {"busy", "done", "revoked"}, Goes(r, state), Writes(r, outcome), IsOpen(r),
               outcome = "revoked" => runs[r].state = "cancelling" /\ state = "cancelled"
        PROVE  /\ UNCHANGED <<hosted, attached, ask>>
               /\ \E new \in RunRow, after \in SharedRow :
                    /\ runs' = [runs EXCEPT ![r] = new] /\ new.repository = runs[r].repository
                    /\ shared' = [shared EXCEPT ![runs[r].repository] = after]
                    /\ after.exists = Repo(r).exists /\ (Repo(r).revoked => after.revoked)
                    /\ ~Held(runs[r].repository) /\ new.state # "cancelling"
                    /\ after.status = "revoked" =>
                         runs[r].state = "cancelling" /\ new.state = "cancelled"
    <2>1. state \in {"queued"} \cup Running \cup Ended
      BY DEF Running, Ended
    <2>2. PICK new \in RunRow :
            /\ runs' = [runs EXCEPT ![r] = new] /\ new.state = state
            /\ new.repository = runs[r].repository
      BY <1>7, <2>1, GoesTo
    <2>3. PICK after \in SharedRow :
            /\ shared' = [shared EXCEPT ![runs[r].repository] = after] /\ after.status = outcome
            /\ after.exists = Repo(r).exists /\ after.revoked = Repo(r).revoked
      BY <1>7, StatusWritten
    <2>4. UNCHANGED <<hosted, attached, ask>> /\ ~Held(runs[r].repository)
      BY <1>7 DEF Writes
    <2> QED
      BY <1>7, <2>2, <2>3, <2>4
  <1>8. CASE Claim(r)
    <2>1. IsOpen(r) /\ Goes(r, "claimed") /\ Writes(r, "busy")
      BY <1>8 DEF Claim, IsOpen, Ended
    <2> QED
      BY <1>7, <2>1
  <1>9. CASE Stage(r)
    <2>1. IsOpen(r) /\ Goes(r, "staged") /\ Writes(r, "busy")
      BY <1>9 DEF Stage, IsOpen, Ended
    <2> QED
      BY <1>7, <2>1
  <1>10. CASE CancelRevoked(r)
    <2>1. /\ IsOpen(r) /\ Goes(r, "cancelled") /\ Writes(r, "revoked")
          /\ runs[r].state = "cancelling"
      BY <1>10 DEF CancelRevoked, IsOpen, Ended
    <2> QED
      BY <1>7, <2>1
  <1>11. ASSUME NEW retry \in BOOLEAN, Fail(r, retry)
         PROVE  /\ IsOpen(r)
                /\ \/ Goes(r, "queued") /\ Writes(r, "busy")
                   \/ Goes(r, "ended") /\ Writes(r, "done")
    BY <1>11 DEF Fail, IsOpen, Running, Ended
  <1>12. ASSUME NEW retry \in BOOLEAN, Fail(r, retry)
         PROVE  \E state \in {"queued", "ended"}, outcome \in {"busy", "done"} :
                    Goes(r, state) /\ Writes(r, outcome) /\ IsOpen(r)
    BY <1>11, <1>12
  <1>13. CASE RunRevokes(r)
    <2>1. PICK new \in RunRow :
            /\ runs' = [runs EXCEPT ![r] = new] /\ new.state = "failing"
            /\ new.repository = runs[r].repository
      <3>1. "failing" \in {"queued"} \cup Running \cup Ended
        BY DEF Running
      <3> QED
        BY <1>13, <3>1, GoesTo DEF RunRevokes
    <2>2. PICK after : after = [before EXCEPT !.revoked = TRUE, !.status = "revoked"]
      OBVIOUS
    <2>3. after \in SharedRow /\ after.revoked /\ after.exists = before.exists
      BY <2>2 DEF SharedRow
    <2>4. shared' = [shared EXCEPT ![i] = after]
      BY <1>1, <1>2, <1>13, <2>2 DEF RunRevokes, ImportTypes
    <2>5. UNCHANGED <<hosted, attached, ask>> /\ ~Held(i) /\ IsOpen(r)
      BY <1>1, <1>13 DEF RunRevokes, IsOpen, Ended
    <2>6. new.state # "cancelling" /\ after.exists = Repo(r).exists
      BY <1>2, <2>1, <2>3
    <2>7. shared' = [shared EXCEPT ![runs[r].repository] = after] /\ ~Held(runs[r].repository)
      BY <1>1, <2>4, <2>5
    <2>8. /\ Repo(r).revoked => after.revoked
          /\ after.status = "revoked" =>
               after.revoked \/ (runs[r].state = "cancelling" /\ new.state = "cancelled")
      BY <2>3
    <2> QED
      BY <2>1, <2>3, <2>5, <2>6, <2>7, <2>8
  <1>14. CASE Activate(r)
    <2>1. PICK new \in RunRow :
            /\ runs' = [runs EXCEPT ![r] = new] /\ new.state = "ended"
            /\ new.repository = runs[r].repository
      <3>1. "ended" \in {"queued"} \cup Running \cup Ended
        BY DEF Ended
      <3> QED
        BY <1>14, <3>1, GoesTo DEF Activate
    <2>2. old.commit \in 0 .. MaxCommits
      <3>1. old.commit \in 1 .. MaxCommits
        BY DEF RunRow
      <3> QED
        BY <3>1, ImportBounds
    <2>3. PICK after : after = [before EXCEPT !.status = "done", !.indexed = old.commit]
      OBVIOUS
    <2>4. /\ after \in SharedRow /\ after.status = "done" /\ after.revoked = before.revoked
          /\ after.exists = before.exists
      BY <2>2, <2>3 DEF SharedRow
    <2>5. shared' = [shared EXCEPT ![i] = after]
      BY <1>1, <1>2, <1>3, <1>14, <2>3 DEF Activate, ImportTypes
    <2>6. UNCHANGED <<hosted, attached, ask>> /\ ~Held(i) /\ IsOpen(r)
      BY <1>1, <1>14 DEF Activate, IsOpen, Ended
    <2> QED
      BY <1>1, <1>2, <2>1, <2>4, <2>5, <2>6
  <1>15. CASE \E retry \in BOOLEAN : Fail(r, retry)
    BY <1>7, <1>12, <1>15
  <1> QED
    BY <1>5, <1>6, <1>8, <1>9, <1>10, <1>13, <1>14, <1>15 DEF Work

LEMMA WorkStep == ASSUME ImportInv, NEW r \in Runs, Work(r) PROVE ImportInv'
  <1>1. /\ UNCHANGED <<hosted, attached, ask>> /\ IsOpen(r)
        /\ \E new \in RunRow, after \in SharedRow :
              /\ runs' = [runs EXCEPT ![r] = new] /\ new.repository = runs[r].repository
              /\ shared' = [shared EXCEPT ![runs[r].repository] = after]
              /\ after.exists = Repo(r).exists /\ (Repo(r).revoked => after.revoked)
              /\ \/ /\ shared' = shared /\ new.state # "ended"
                    /\ new.state = "cancelling" => Repo(r).revoked
                 \/ /\ ~Held(runs[r].repository) /\ new.state # "cancelling"
                    /\ after.status = "revoked" =>
                         after.revoked \/ (runs[r].state = "cancelling" /\ new.state = "cancelled")
    BY WorkShape DEF ImportInv
  <1> QED
    BY <1>1, RunLooks, RunWrites

LEMMA AttachedTyped ==
  ASSUME ImportInv, NEW a \in Asks, ask[a].pc = "attaching"
  PROVE  /\ ask[a].id \in Hosts /\ NewRun(a) \in RunRow /\ NewRun(a).repository = ask[a].id
         /\ NewRun(a).state = "queued"
         /\ AttachedRow(a) \in SharedRow /\ ~AttachedRow(a).revoked /\ AttachedRow(a).exists
         /\ AttachedRow(a).indexed = shared[ask[a].id].indexed
         /\ AttachedRow(a).status = IF ask[a].starts THEN "busy" ELSE shared[ask[a].id].status
  <1>1. PICK old \in AskRow : old = ask[a]
    BY AskTyped DEF ImportInv
  <1>2. PICK i \in Hosts : i = old.id
    BY <1>1, AskTyped DEF ImportInv, ShownOK
  <1>3. PICK before \in SharedRow : before = shared[i]
    BY DEF ImportInv, ImportTypes
  <1>4. PICK generation \in Nat : generation = NextRefresh(a)
    <2>1. before.generation \in Nat
      BY DEF SharedRow
    <2> QED
      BY <1>1, <1>2, <1>3, <2>1 DEF NextRefresh
  <1>5. PICK manual \in BOOLEAN : manual = (old.refreshes # 0)
    OBVIOUS
  <1>6. old.user \in Users /\ old.name \in Names /\ old.head \in 1 .. MaxCommits /\ old.starts \in BOOLEAN
    <2>1. old.head # 0 /\ old.head \in 0 .. MaxCommits
      BY <1>1, AskTyped DEF ImportInv, ShownOK
    <2> QED
      BY <1>1, <2>1, AskTyped, ImportBounds DEF ImportInv
  <1>7. NewRun(a) = [repository |-> i, user |-> old.user, commit |-> old.head,
                     generation |-> generation, manual |-> manual, state |-> "queued"]
    BY <1>1, <1>2, <1>4, <1>5 DEF NewRun
  <1>8. NewRun(a) \in RunRow /\ NewRun(a).repository = i /\ NewRun(a).state = "queued"
    BY <1>6, <1>7 DEF RunRow
  <1>9. PICK branch \in DefaultBranches : branch = Branch(old.head)
    BY <1>6 DEF DefaultBranches
  <1>10. PICK after : after = [before EXCEPT
                                !.exists = TRUE, !.name = old.name, !.branch = branch,
                                !.revoked = FALSE,
                                !.generation = IF old.starts THEN generation ELSE before.generation,
                                !.status = IF old.starts THEN "busy" ELSE before.status]
    OBVIOUS
  <1>11. AttachedRow(a) = after
    BY <1>1, <1>2, <1>3, <1>4, <1>9, <1>10 DEF AttachedRow
  <1>12. /\ after \in SharedRow /\ ~after.revoked /\ after.exists
         /\ after.indexed = before.indexed
         /\ after.status = IF old.starts THEN "busy" ELSE before.status
    BY <1>3, <1>4, <1>6, <1>9, <1>10 DEF SharedRow
  <1> QED
    BY <1>1, <1>2, <1>3, <1>8, <1>11, <1>12

LEMMA AttachStep == ASSUME ImportInv, NEW a \in Asks, Attach(a) PROVE ImportInv'
  <1>0. /\ ImportTypes /\ ask \in Seq(AskRow) /\ hosted' = hosted /\ ask[a].pc = "attaching"
        /\ runs \in Seq(RunRow) /\ Moves(a, "attached")
    BY DEF ImportInv, ImportTypes, Attach
  <1>1. PICK old \in AskRow : old = ask[a]
    BY <1>0, AskTyped
  <1>2. PICK i \in Hosts : i = old.id
    BY <1>0, <1>1, AttachedTyped
  <1>3. PICK new \in AskRow :
          ask' = [ask EXCEPT ![a] = new] /\ new.pc = "attached" /\ new.awaits = old.awaits
    BY <1>0, <1>1, MovedTo
  <1>4. /\ ask' \in Seq(AskRow) /\ Asks' = Asks /\ ask'[a] = new
        /\ \A b \in Asks : b # a => ask'[b] = ask[b]
    BY <1>0, <1>3, OneAsk
  <1>5. PICK run \in RunRow : run = NewRun(a) /\ run.repository = i /\ run.state = "queued"
    BY <1>0, <1>1, <1>2, AttachedTyped
  <1>6. PICK after \in SharedRow :
            /\ after = AttachedRow(a) /\ ~after.revoked /\ after.indexed = shared[i].indexed
            /\ after.status = IF old.starts THEN "busy" ELSE shared[i].status
    BY <1>0, <1>1, <1>2, AttachedTyped
  <1>7. shared' = [shared EXCEPT ![i] = after]
    BY <1>1, <1>2, <1>6 DEF Attach
  <1>8. runs' = IF old.starts THEN Append(runs, run) ELSE runs
    BY <1>1, <1>5 DEF Attach
  <1>9. /\ IF old.starts THEN OpenRunOf(i) = {} ELSE Served(i)
        /\ shared[i].revoked => OpenRunOf(i) \subseteq old.awaits
    BY <1>0, <1>1, <1>2 DEF ImportInv, AttachmentsOK
  <1>10. /\ runs' \in Seq(RunRow) /\ Len(runs) \in Nat /\ Runs = 1 .. Len(runs)
         /\ Runs \subseteq Runs' /\ \A s \in Runs : runs'[s] = runs[s]
         /\ \A s \in Runs' : s \notin Runs => old.starts /\ s = Len(runs) + 1 /\ runs'[s] = run
    <2>1. CASE old.starts
      <3>1. /\ runs' \in Seq(RunRow) /\ Len(runs) \in Nat /\ Len(runs') = Len(runs) + 1
            /\ \A s \in 1 .. Len(runs) : runs'[s] = runs[s]
            /\ runs'[Len(runs) + 1] = run
        BY <1>0, <1>5, <1>8, <2>1
      <3>2. Runs = 1 .. Len(runs) /\ Runs' = 1 .. Len(runs) + 1
        BY <1>0, <3>1 DEF Runs
      <3> QED
        BY <2>1, <3>1, <3>2
    <2>2. CASE ~old.starts
      BY <1>0, <1>8, <2>2 DEF Runs
    <2> QED
      BY <2>1, <2>2
  <1>11. SingleRuns'
    <2>1. ASSUME NEW s \in Runs', NEW t \in Runs', runs'[s].state \notin Ended,
                 runs'[s].repository = runs'[t].repository
          PROVE  t <= s
      <3>1. CASE s \in Runs /\ t \in Runs
        BY <1>10, <2>1, <3>1 DEF ImportInv, SingleRuns, IsOpen
      <3>2. CASE s \notin Runs
        BY <1>10, <3>2
      <3>3. CASE s \in Runs /\ t \notin Runs
        BY <1>5, <1>9, <1>10, <2>1, <3>3 DEF OpenRunOf, IsOpen
      <3> QED
        BY <3>1, <3>2, <3>3
    <2> QED
      BY <2>1 DEF SingleRuns, IsOpen
  <1>12. ASSUME NEW s \in Runs', runs'[s].repository = i, runs'[s].state = "cancelling"
         PROVE  Awaited(s)
    <2>1. s \in Runs /\ runs[s].repository = i /\ runs[s].state = "cancelling"
      BY <1>5, <1>10, <1>12
    <2>2. s \in OpenRunOf(i)
      BY <2>1 DEF OpenRunOf, IsOpen, Ended
    <2>3. shared[i].revoked \/ Awaited(s)
      BY <2>1 DEF ImportInv, CancelsOK, Repo
    <2> QED
      BY <1>1, <1>9, <2>2, <2>3 DEF Awaited
  <1>13. ShownOK'
    BY <1>0, <1>3, <1>4 DEF ImportInv, ShownOK
  <1>14. \A b \in Asks : ask'[b].pc = "attaching" =>
            ask[b].pc = "attaching" /\ ask'[b] = ask[b] /\ ask[b].id # i
    BY <1>0, <1>1, <1>2, <1>3, <1>4 DEF ImportInv, AttachmentsOK
  <1>15. \A b \in Asks : ask'[b].awaits = ask[b].awaits
    BY <1>1, <1>3, <1>4
  <1>16. ASSUME after.status = "revoked", after.indexed = 0 PROVE LastAwaited(i)'
    <2>1. ~old.starts /\ LastAwaited(i)
      BY <1>6, <1>9, <1>16 DEF Served
    <2>2. runs' = runs /\ Runs' = Runs
      BY <1>8, <2>1 DEF Runs
    <2> QED
      BY <1>4, <1>15, <2>1, <2>2, AwaitedStays
  <1> QED
    BY <1>0, <1>4, <1>5, <1>6, <1>7, <1>10, <1>11, <1>12, <1>13, <1>14, <1>15, <1>16, RowStep

LEMMA ImportInductive == ImportInv /\ [ImportNext]_imports => ImportInv'
  <1> SUFFICES ASSUME ImportInv, [ImportNext]_imports PROVE ImportInv'
    OBVIOUS
  <1>1. ASSUME NEW n \in Names, Commit(n) \/ ChangeVisibility(n) \/ Replace(n) PROVE ImportInv'
    BY <1>1, CommitOfName, VisibilitySteps
  <1>2. ASSUME NEW u \in Users, NEW n \in Names, NEW i \in Hosts, Import(u, n) \/ RefreshShared(u, i)
        PROVE  ImportInv'
    <2>1. shared[i].name \in Names
      BY DEF ImportInv, ImportTypes, SharedRow
    <2> QED
      BY <1>2, <2>1, AskStep DEF Import, RefreshShared
  <1>3. ASSUME NEW a \in Asks, HandleAsk(a) PROVE ImportInv'
    BY <1>3, AnswerSteps, RevokeSharedStep, BeginAttachStep, AttachStep DEF HandleAsk
  <1>4. ASSUME NEW r \in Runs, Work(r) PROVE ImportInv'
    BY <1>4, WorkStep
  <1>5. CASE UNCHANGED imports
    <2>1. hosted' = hosted /\ shared' = shared /\ attached' = attached /\ runs' = runs /\ ask' = ask
      BY <1>5 DEF imports
    <2>2. \A a \in Asks : Unmoved(a) /\ ask[a].shown \subseteq ask'[a].shown
      BY <2>1 DEF Unmoved
    <2>3. hosted' \in [Names -> HostedRow] /\ ask' \in Seq(AskRow) /\ Asks' = Asks
      BY <2>1 DEF ImportInv, ImportTypes, Asks
    <2> QED
      BY <2>1, <2>2, <2>3, GithubMoves
  <1> QED
    BY <1>1, <1>2, <1>3, <1>4, <1>5 DEF ImportNext

LEMMA ImportInvariant == ImportSpec => []ImportInv
  BY InitImports, ImportInductive, PTL DEF ImportSpec

(* Whoever imports and refreshes a public repository at once, one job is   *)
(* open for it (_attach under the advisory lock and the row's lock).       *)
THEOREM SharedWork == ImportSpec => []OneOpenRun
  <1>1. ASSUME ImportInv, NEW i \in Hosts PROVE Cardinality(OpenRunOf(i)) <= 1
    <2>1. CASE OpenRunOf(i) = {}
      BY <2>1, FS_EmptySet
    <2>2. CASE OpenRunOf(i) # {}
      <3>1. PICK r : r \in OpenRunOf(i)
        BY <2>2
      <3>2. ASSUME NEW s \in OpenRunOf(i) PROVE s = r
        <4>1. r <= s /\ s <= r
          BY <1>1, <3>1, <3>2 DEF ImportInv, SingleRuns, OpenRunOf
        <4>2. r \in Nat /\ s \in Nat
          BY <1>1, <3>1, RunTyped DEF ImportInv, OpenRunOf
        <4> QED
          BY <4>1, <4>2
      <3>3. OpenRunOf(i) = {r}
        BY <3>1, <3>2
      <3> QED
        BY <3>3, FS_Singleton
    <2> QED
      BY <2>1, <2>2
  <1>2. ImportInv => OneOpenRun
    BY <1>1 DEF OneOpenRun
  <1> QED
    BY <1>2, ImportInvariant, PTL

(* A repository that was restored without an index keeps the status of its *)
(* revocation only by its last job, which the restoration found under way  *)
(* and which has written it since, or written nothing (_attach's decision, *)
(* cancel_revoked, mark_stale): one that failed or that no restoration has *)
(* found never leaves it so.                                               *)
THEOREM RestorationsExplained == ImportSpec => []RestorationExplained
  <1>1. ImportInv => RestorationExplained
    BY DEF ImportInv
  <1> QED
    BY <1>1, ImportInvariant, PTL

(* Only an attachment gives a withdrawn repository back, and GitHub has    *)
(* shown the repository since its request began (get_public_repository).   *)
THEOREM WithdrawalHolds == ImportSpec => RevocationHolds
  <1> DEFINE Step ==
        \A i \in Hosts :
            shared[i].revoked /\ ~shared'[i].revoked
                => \E a \in Asks : ask[a].pc = "attaching" /\ i \in ask[a].shown
  <1>1. ImportInv /\ [ImportNext]_imports => [Step]_imports
    <2> SUFFICES ASSUME ImportInv, ImportNext, NEW i \in Hosts, shared[i].revoked, ~shared'[i].revoked
                 PROVE  \E a \in Asks : ask[a].pc = "attaching" /\ i \in ask[a].shown
      OBVIOUS
    <2>0. shared \in [Hosts -> SharedRow] /\ shared' # shared
      BY DEF ImportInv, ImportTypes
    <2>1. ASSUME NEW a \in Asks, Attach(a) PROVE ask[a].pc = "attaching" /\ i \in ask[a].shown
      <3>1. ask[a].pc = "attaching" /\ shared' = [shared EXCEPT ![ask[a].id] = AttachedRow(a)]
        BY <2>1 DEF Attach
      <3>2. ask[a].id = i
        BY <2>0, <3>1
      <3> QED
        BY <3>1, <3>2 DEF ImportInv, ShownOK
    <2>2. ASSUME NEW a \in Asks, RevokeShared(a) PROVE FALSE
      <3>1. PICK j \in Hosts : j = ask[a].refreshes
        BY <2>2, AskTyped DEF RevokeShared, ImportInv, ShownOK
      <3>2. PICK before \in SharedRow : before = shared[j]
        BY <2>0
      <3>3. PICK after : after = [before EXCEPT !.revoked = TRUE, !.status = "revoked"]
        OBVIOUS
      <3>4. shared' = [shared EXCEPT ![j] = after] /\ after.revoked
        BY <2>0, <2>2, <3>1, <3>2, <3>3 DEF RevokeShared, SharedRow
      <3> QED
        BY <2>0, <3>4
    <2>3. ASSUME NEW r \in Runs, Work(r) PROVE FALSE
      <3>1. PICK j \in Hosts, after \in SharedRow :
              /\ j = runs[r].repository /\ shared' = [shared EXCEPT ![j] = after]
              /\ shared[j].revoked => after.revoked
        BY <2>3, RunTyped, WorkShape DEF ImportInv, Repo
      <3> QED
        BY <2>0, <3>1
    <2>4. ASSUME NEW a \in Asks,
                 \/ GithubAnswers(a) \/ GithubWithdraws(a) \/ GithubFails(a)
                 \/ BeginAttach(a) \/ LimitRefuses(a)
          PROVE  FALSE
      BY <2>0, <2>4 DEF GithubAnswers, GithubWithdraws, GithubFails, BeginAttach, LimitRefuses
    <2>5. ASSUME NEW n \in Names, Commit(n) \/ ChangeVisibility(n) \/ Replace(n) PROVE FALSE
      BY <2>0, <2>5 DEF Commit, ChangeVisibility, Replace
    <2>6. ASSUME NEW u \in Users, NEW n \in Names, NEW j \in Hosts, Import(u, n) \/ RefreshShared(u, j)
          PROVE  FALSE
      BY <2>0, <2>6 DEF Import, RefreshShared, AskGithub
    <2> QED
      BY <2>1, <2>2, <2>3, <2>4, <2>5, <2>6 DEF ImportNext, HandleAsk
  <1>2. []ImportInv /\ [][ImportNext]_imports => [][Step]_imports
    BY <1>1, PTL
  <1> QED
    BY <1>2, ImportInvariant DEF ImportSpec, RevocationHolds

-----------------------------------------------------------------------------
(* The limits of users, and the rows that attachments and jobs are about.  *)
MembersOK ==
    /\ attached \subseteq Users \X Hosts /\ Len(ask) <= MaxAsks
    /\ \A m \in attached : shared[m[2]].exists
    /\ \A r \in Runs : shared[runs[r].repository].exists

(* Of a user none of whose attachments has begun beside another.           *)
Alone(u) == \A a \in Asks : ask[a].user = u => ~ask[a].beside

LimitsOK ==
    /\ \A a \in Asks : ask[a].pc \in {"asking", "answered"} => ~ask[a].beside
    /\ \A u \in Users : Alone(u) =>
        /\ Cardinality(Attachments(u)) <= AttachLimit
        /\ \A a, b \in Asks :
              ask[a].user = u /\ ask[a].pc = "attaching" /\ ask[b].user = u
                /\ ask[b].pc = "attaching"
                => a = b
        /\ \A a \in Asks :
              ask[a].user = u /\ ask[a].pc = "attaching" /\ <<u, ask[a].id>> \notin attached
                => Cardinality(Attachments(u)) < AttachLimit

LimitsInv == ImportInv /\ MembersOK /\ LimitsOK

LEMMA AttachmentsFinite ==
  ASSUME NEW u
  PROVE  IsFiniteSet(Attachments(u)) /\ Cardinality(Attachments(u)) \in Nat
  <1>1. IsFiniteSet(Hosts)
    BY ImportBounds, FS_Interval DEF Hosts
  <1>2. Attachments(u) \subseteq Hosts
    BY DEF Attachments
  <1> QED
    BY <1>1, <1>2, FS_Subset, FS_CardinalityType

(* Of an ask, what the limits look at.                                     *)
Steady(a) ==
    /\ ask'[a].user = ask[a].user /\ ask'[a].beside = ask[a].beside
    /\ ask'[a].pc = "attaching" => ask[a].pc = "attaching" /\ ask'[a].id = ask[a].id
    /\ ask'[a].pc \in {"asking", "answered"} => ask[a].pc \in {"asking", "answered"}

LEMMA LimitsKept ==
  ASSUME LimitsOK, attached' = attached, Asks \subseteq Asks', \A a \in Asks : Steady(a),
         \A a \in Asks' \ Asks : ask'[a].pc = "asking" /\ ~ask'[a].beside
  PROVE  LimitsOK'
  <1>1. \A a \in Asks' : ask'[a].pc \in {"asking", "answered"} => ~ask'[a].beside
    BY DEF LimitsOK, Steady
  <1>2. ASSUME NEW u \in Users, Alone(u)'
        PROVE  /\ Cardinality(Attachments(u)') <= AttachLimit
               /\ \A a, b \in Asks' :
                    ask'[a].user = u /\ ask'[a].pc = "attaching"
                      /\ ask'[b].user = u /\ ask'[b].pc = "attaching" => a = b
               /\ \A a \in Asks' :
                    ask'[a].user = u /\ ask'[a].pc = "attaching"
                      /\ <<u, ask'[a].id>> \notin attached'
                      => Cardinality(Attachments(u)') < AttachLimit
    <2>1. Alone(u)
      BY <1>2 DEF Alone, Steady
    <2>2. Attachments(u)' = Attachments(u)
      BY DEF Attachments
    <2>3. \A a \in Asks' : ask'[a].user = u /\ ask'[a].pc = "attaching" =>
              a \in Asks /\ ask[a].user = u /\ ask[a].pc = "attaching" /\ ask'[a].id = ask[a].id
      BY DEF Steady
    <2> QED
      BY <2>1, <2>2, <2>3 DEF LimitsOK
  <1> QED
    BY <1>1, <1>2 DEF LimitsOK

LEMMA MembersKept ==
  ASSUME MembersOK, attached' = attached, Runs' = Runs, Len(ask') <= MaxAsks,
         \A i \in Hosts : shared[i].exists => shared'[i].exists,
         \A m \in attached : m[2] \in Hosts,
         \A r \in Runs : runs[r].repository \in Hosts /\ runs'[r].repository = runs[r].repository
  PROVE  MembersOK'
  BY DEF MembersOK

LEMMA MembersTyped ==
  ASSUME LimitsInv
  PROVE  /\ \A m \in attached : m[2] \in Hosts
         /\ \A r \in Runs : runs[r].repository \in Hosts
         /\ LimitsOK /\ MembersOK /\ ImportInv /\ ImportTypes /\ Len(ask) <= MaxAsks
  BY RunTyped DEF LimitsInv, MembersOK, ImportInv

(* A step of GitHub's, of a job, or that withdraws a row.                  *)
LEMMA OutsideSteps ==
  ASSUME LimitsInv, ImportInv', attached' = attached, Runs' = Runs, Len(ask') = Len(ask),
         Asks' = Asks, \A i \in Hosts : shared[i].exists => shared'[i].exists,
         \A r \in Runs : runs'[r].repository = runs[r].repository,
         \A a \in Asks :
            /\ ask'[a].user = ask[a].user /\ ask'[a].beside = ask[a].beside
            /\ ask'[a].pc = ask[a].pc /\ ask'[a].id = ask[a].id
  PROVE  LimitsInv'
  <1>1. LimitsOK'
    BY MembersTyped, LimitsKept DEF Steady
  <1>2. MembersOK'
    BY MembersTyped, MembersKept
  <1> QED
    BY <1>1, <1>2 DEF LimitsInv

LEMMA ShowsLimits ==
  ASSUME LimitsInv, ImportInv', NEW n \in Names, ChangeVisibility(n) \/ Replace(n)
  PROVE  LimitsInv'
  <1>1. ask' = Shows(n, hosted') /\ UNCHANGED <<shared, attached, runs>>
    BY DEF ChangeVisibility, Replace
  <1>2. ImportTypes /\ ask \in Seq(AskRow) /\ Asks = 1 .. Len(ask) /\ Len(ask) \in Nat
    BY DEF LimitsInv, ImportInv, ImportTypes, Asks
  <1>3. DOMAIN ask' = Asks /\ ask' \in Seq(AskRow)
    BY <1>1 DEF Shows, ImportInv, ImportTypes
  <1>4. Asks' = Asks /\ Len(ask') = Len(ask)
    <2>1. PICK m \in Nat : m = Len(ask') /\ DOMAIN ask' = 1 .. m
      BY <1>3
    <2> QED
      BY <1>2, <1>3, <2>1 DEF Asks
  <1>5. \A a \in Asks :
            /\ ask'[a].user = ask[a].user /\ ask'[a].beside = ask[a].beside
            /\ ask'[a].pc = ask[a].pc /\ ask'[a].id = ask[a].id
    <2> TAKE a \in Asks
    <2>1. PICK old \in AskRow : old = ask[a]
      BY <1>2, AskTyped
    <2>2. PICK shown : shown = old.shown \cup {hosted'[n].id}
      OBVIOUS
    <2>3. PICK new : new = [old EXCEPT !.shown = shown]
      OBVIOUS
    <2>4. ask'[a] = old \/ ask'[a] = new
      BY <1>1, <2>1, <2>2, <2>3 DEF Shows
    <2>5. /\ new.user = old.user /\ new.beside = old.beside /\ new.pc = old.pc
          /\ new.id = old.id
      BY <2>1, <2>3 DEF AskRow
    <2> QED
      BY <2>1, <2>4, <2>5
  <1>6. Runs' = Runs
    BY <1>1 DEF Runs
  <1> QED
    BY <1>1, <1>4, <1>5, <1>6, OutsideSteps

LEMMA RunLimits ==
  ASSUME LimitsInv, ImportInv',
         (\E n \in Names : Commit(n)) \/ (\E r \in Runs : Work(r)) \/ UNCHANGED imports
  PROVE  LimitsInv'
  <1>1. ASSUME NEW r \in Runs, Work(r)
        PROVE  /\ UNCHANGED <<attached, ask>> /\ Runs' = Runs
               /\ \A i \in Hosts : shared[i].exists => shared'[i].exists
               /\ \A s \in Runs : runs'[s].repository = runs[s].repository
    <2>1. ImportTypes /\ ImportInv
      BY DEF LimitsInv, ImportInv
    <2>2. PICK new \in RunRow, after \in SharedRow :
              /\ runs' = [runs EXCEPT ![r] = new] /\ new.repository = runs[r].repository
              /\ shared' = [shared EXCEPT ![runs[r].repository] = after]
              /\ after.exists = Repo(r).exists
      BY <1>1, <2>1, WorkShape
    <2>3. IsOpen(r) /\ UNCHANGED <<attached, ask>>
      BY <1>1, <2>1, WorkShape
    <2>4. Runs' = Runs /\ \A s \in Runs : runs'[s].repository = runs[s].repository
      BY <2>1, <2>2, <2>3, OneRun
    <2>5. \A i \in Hosts : shared[i].exists => shared'[i].exists
      BY <2>1, <2>2 DEF Repo, ImportTypes
    <2> QED
      BY <2>3, <2>4, <2>5
  <1>2. CASE (\E n \in Names : Commit(n)) \/ UNCHANGED imports
    <2>1. UNCHANGED <<attached, ask, shared, runs>>
      BY <1>2 DEF Commit, imports
    <2>2. Asks' = Asks /\ Len(ask') = Len(ask) /\ Runs' = Runs
      BY <2>1 DEF Asks, Runs
    <2> QED
      BY <2>1, <2>2, OutsideSteps
  <1>3. CASE \E r \in Runs : Work(r)
    <2>1. PICK r \in Runs : Work(r)
      BY <1>3
    <2>2. Asks' = Asks /\ Len(ask') = Len(ask)
      BY <1>1, <2>1 DEF Asks
    <2> QED
      BY <1>1, <2>1, <2>2, OutsideSteps
  <1> QED
    BY <1>2, <1>3

LEMMA AskLimits ==
  ASSUME LimitsInv, ImportInv', NEW u \in Users, NEW n \in Names, NEW i \in {0} \cup Hosts,
         AskGithub(u, n, i)
  PROVE  LimitsInv'
  <1>1. PICK new : new = [pc |-> "asking", user |-> u, name |-> n, refreshes |-> i, id |-> 0,
                          head |-> 0, beside |-> FALSE, starts |-> FALSE,
                          shown |-> IF hosted[n].private THEN {} ELSE {hosted[n].id},
                          awaits |-> {}]
    OBVIOUS
  <1>2. /\ ask' = Append(ask, new) /\ UNCHANGED <<hosted, shared, attached, runs>>
        /\ Len(ask) < MaxAsks /\ new.pc = "asking" /\ ~new.beside
    BY <1>1 DEF AskGithub
  <1>3. ask \in Seq(AskRow) /\ Len(ask) \in Nat
    BY DEF LimitsInv, ImportInv, ImportTypes
  <1>4. /\ Asks' = Asks \cup {Len(ask) + 1} /\ Asks = 1 .. Len(ask) /\ Len(ask') = Len(ask) + 1
        /\ \A a \in Asks : ask'[a] = ask[a]
        /\ ask'[Len(ask) + 1] = new
    BY <1>2, <1>3 DEF Asks
  <1>5. LimitsOK'
    BY <1>2, <1>4, LimitsKept DEF LimitsInv, Steady
  <1>6. MembersOK'
    <2>1. Len(ask') <= MaxAsks
      BY <1>2, <1>3, <1>4, ImportBounds
    <2>2. Runs' = Runs
      BY <1>2 DEF Runs
    <2> QED
      BY <1>2, <2>1, <2>2, MembersTyped, MembersKept
  <1> QED
    BY <1>5, <1>6 DEF LimitsInv

(* A request is answered, refused or withdrawn.                            *)
LEMMA AnswerLimits ==
  ASSUME LimitsInv, ImportInv', NEW a \in Asks,
         \/ GithubAnswers(a) \/ GithubWithdraws(a) \/ GithubFails(a)
         \/ RevokeShared(a) \/ LimitRefuses(a)
  PROVE  LimitsInv'
  <1>1. /\ ImportTypes /\ ImportInv /\ ask \in Seq(AskRow) /\ UNCHANGED <<attached, runs>>
        /\ a \in 1 .. Len(ask) /\ shared \in [Hosts -> SharedRow]
    BY DEF LimitsInv, ImportInv, ImportTypes, GithubAnswers, GithubWithdraws, GithubFails,
           RevokeShared, LimitRefuses, Asks
  <1>2. PICK old \in AskRow : old = ask[a]
    BY <1>1, AskTyped
  <1>3. PICK new :
            /\ ask' = [ask EXCEPT ![a] = new]
            /\ new.user = old.user /\ new.beside = old.beside
            /\ new.pc \in {"answered", "refused", "revoking"}
            /\ new.pc = "answered" => old.pc = "asking"
    <2>1. CASE GithubAnswers(a)
      <3>1. PICK id, top, shown : /\ id = hosted[old.name].id /\ top = hosted[old.name].head
                                  /\ shown = old.shown \cap {id}
        OBVIOUS
      <3>2. PICK new : new = [old EXCEPT !.pc = "answered", !.id = id, !.head = top, !.shown = shown]
        OBVIOUS
      <3>3. ask' = [ask EXCEPT ![a] = new] /\ old.pc = "asking"
        BY <1>1, <1>2, <2>1, <3>1, <3>2 DEF GithubAnswers
      <3>4. new.user = old.user /\ new.beside = old.beside /\ new.pc = "answered"
        BY <1>2, <3>2 DEF AskRow
      <3> QED
        BY <3>3, <3>4
    <2>2. CASE GithubWithdraws(a) \/ GithubFails(a) \/ RevokeShared(a) \/ LimitRefuses(a)
      <3>1. PICK pc \in {"refused", "revoking"} : Moves(a, pc)
        BY <2>2 DEF GithubWithdraws, GithubFails, RevokeShared, LimitRefuses, WithdrawalGoesTo
      <3> QED
        BY <1>1, <1>2, <3>1, MovedTo
    <2> QED
      BY <2>1, <2>2
  <1>4. /\ Asks' = Asks /\ Len(ask') = Len(ask) /\ ask'[a] = new
        /\ \A b \in Asks : b # a => ask'[b] = ask[b]
    BY <1>1, <1>3 DEF Asks
  <1>5. LimitsOK'
    <2>1. \A b \in Asks : Steady(b)
      BY <1>2, <1>3, <1>4 DEF Steady
    <2> QED
      BY <1>1, <1>4, <2>1, LimitsKept DEF LimitsInv
  <1>6. \A i \in Hosts : shared[i].exists => shared'[i].exists
    <2>1. CASE shared' = shared
      BY <2>1
    <2>2. CASE RevokeShared(a)
      <3>1. PICK j \in Hosts : j = ask[a].refreshes
        BY <1>1, <2>2, AskTyped DEF RevokeShared, ImportInv, ShownOK
      <3>2. shared' = [shared EXCEPT ![j].revoked = TRUE, ![j].status = "revoked"]
        BY <2>2, <3>1 DEF RevokeShared
      <3> QED
        BY <1>1, <3>2 DEF SharedRow
    <2> QED
      BY <2>1, <2>2 DEF GithubAnswers, GithubWithdraws, GithubFails, LimitRefuses
  <1>7. MembersOK'
    <2>1. Runs' = Runs
      BY <1>1 DEF Runs
    <2> QED
      BY <1>1, <1>4, <1>6, <2>1, MembersTyped, MembersKept
  <1> QED
    BY <1>5, <1>7 DEF LimitsInv

(* An attachment begins: alone, it has counted what there will be when it  *)
(* commits.                                                                *)
LEMMA BeginLimits == ASSUME LimitsInv, ImportInv', NEW a \in Asks, BeginAttach(a) PROVE LimitsInv'
  <1>1. /\ ImportTypes /\ ask \in Seq(AskRow) /\ UNCHANGED <<hosted, shared, attached, runs>>
        /\ a \in 1 .. Len(ask) /\ ask[a].pc = "answered" /\ LimitsOK /\ ~ask[a].beside
    BY DEF LimitsInv, LimitsOK, ImportInv, ImportTypes, BeginAttach, Asks
  <1>2. PICK old \in AskRow : old = ask[a] /\ old.user \in Users
    BY <1>1, AskTyped
  <1>3. PICK starts, beside, awaits :
            /\ starts = Starts(a)
            /\ beside = \E b \in Asks : ask[b].user = old.user /\ ask[b].pc = "attaching"
            /\ awaits = IF shared[old.id].revoked THEN OpenRunOf(old.id) ELSE {}
    OBVIOUS
  <1>4. PICK new : new = [old EXCEPT !.pc = "attaching", !.starts = starts, !.beside = beside,
                                     !.awaits = awaits]
    OBVIOUS
  <1>5. ask' = [ask EXCEPT ![a] = new]
    BY <1>1, <1>2, <1>3, <1>4 DEF BeginAttach
  <1>6. /\ new.user = old.user /\ new.id = old.id /\ new.pc = "attaching" /\ new.beside = beside
        /\ <<old.user, old.id>> \in attached \/ ~LimitReached(old.user)
    BY <1>2, <1>3, <1>4 DEF AskRow, BeginAttach
  <1>7. /\ Asks' = Asks /\ Len(ask') = Len(ask) /\ ask'[a] = new
        /\ \A b \in Asks : b # a => ask'[b] = ask[b]
    BY <1>1, <1>5 DEF Asks
  <1>8. LimitsOK'
    <2>1. \A b \in Asks' : ask'[b].pc \in {"asking", "answered"} => ~ask'[b].beside
      BY <1>1, <1>3, <1>6, <1>7 DEF LimitsOK
    <2>2. ASSUME NEW u \in Users, Alone(u)'
          PROVE  /\ Cardinality(Attachments(u)') <= AttachLimit
                 /\ \A b, c \in Asks' :
                      ask'[b].user = u /\ ask'[b].pc = "attaching"
                        /\ ask'[c].user = u /\ ask'[c].pc = "attaching" => b = c
                 /\ \A b \in Asks' :
                      ask'[b].user = u /\ ask'[b].pc = "attaching"
                        /\ <<u, ask'[b].id>> \notin attached'
                        => Cardinality(Attachments(u)') < AttachLimit
      <3>1. Alone(u)
        BY <1>1, <1>7, <2>2 DEF Alone
      <3>2. Attachments(u)' = Attachments(u)
        BY <1>1 DEF Attachments
      <3>3. Cardinality(Attachments(u)) <= AttachLimit /\ Cardinality(Attachments(u)) \in Nat
        BY <1>1, <3>1, AttachmentsFinite DEF LimitsOK
      <3>4. CASE u # old.user
        <4>1. \A b \in Asks' : ask'[b].user = u => b # a /\ ask'[b] = ask[b]
          BY <1>6, <1>7, <3>4
        <4>2. \A b, c \in Asks' :
                 ask'[b].user = u /\ ask'[b].pc = "attaching"
                   /\ ask'[c].user = u /\ ask'[c].pc = "attaching" => b = c
          BY <1>1, <1>7, <3>1, <4>1 DEF LimitsOK
        <4>3. ASSUME NEW b \in Asks', ask'[b].user = u, ask'[b].pc = "attaching",
                     <<u, ask'[b].id>> \notin attached'
              PROVE  Cardinality(Attachments(u)') < AttachLimit
          <5>1. b \in Asks /\ ask'[b] = ask[b] /\ <<u, ask[b].id>> \notin attached
            BY <1>1, <1>7, <4>1, <4>3
          <5> QED
            BY <1>1, <3>1, <3>2, <4>3, <5>1 DEF LimitsOK
        <4> QED
          BY <3>2, <3>3, <4>2, <4>3
      <3>5. CASE u = old.user
        <4>1. \A b \in Asks : ask[b].user = u => ask[b].pc # "attaching"
          BY <1>3, <1>6, <1>7, <2>2, <3>5 DEF Alone
        <4>2. \A b \in Asks' : ask'[b].user = u /\ ask'[b].pc = "attaching" => b = a
          BY <1>7, <4>1
        <4>3. <<u, old.id>> \notin attached => Cardinality(Attachments(u)) < AttachLimit
          BY <1>6, <3>3, <3>5, LimitsPositive DEF LimitReached
        <4> QED
          BY <1>1, <1>6, <1>7, <3>2, <3>3, <4>2, <4>3
      <3> QED
        BY <3>4, <3>5
    <2> QED
      BY <2>1, <2>2 DEF LimitsOK
  <1>9. MembersOK'
    <2>1. Runs' = Runs
      BY <1>1 DEF Runs
    <2> QED
      BY <1>1, <1>7, <2>1, MembersTyped, MembersKept
  <1> QED
    BY <1>8, <1>9 DEF LimitsInv

LEMMA AttachLimits == ASSUME LimitsInv, ImportInv', NEW a \in Asks, Attach(a) PROVE LimitsInv'
  <1>1. /\ ImportTypes /\ ImportInv /\ ask \in Seq(AskRow) /\ hosted' = hosted
        /\ a \in 1 .. Len(ask) /\ ask[a].pc = "attaching" /\ LimitsOK /\ MembersOK
        /\ shared \in [Hosts -> SharedRow] /\ runs \in Seq(RunRow) /\ Moves(a, "attached")
    BY DEF LimitsInv, ImportInv, ImportTypes, Attach, Asks
  <1>2. PICK old \in AskRow : old = ask[a] /\ old.user \in Users
    BY <1>1, AskTyped
  <1>3. PICK i \in Hosts : i = old.id
    BY <1>1, <1>2, AttachedTyped
  <1>4. PICK new \in AskRow :
          /\ ask' = [ask EXCEPT ![a] = new]
          /\ new.user = old.user /\ new.pc = "attached" /\ new.beside = old.beside
    BY <1>1, <1>2, MovedTo
  <1>5. ask' = [ask EXCEPT ![a] = new]
    BY <1>4
  <1>6. new.user = old.user /\ new.pc = "attached" /\ new.beside = old.beside
    BY <1>4
  <1>7. /\ Asks' = Asks /\ Len(ask') = Len(ask) /\ ask'[a] = new
        /\ \A b \in Asks : b # a => ask'[b] = ask[b]
    BY <1>1, <1>5 DEF Asks
  <1>8. /\ attached' = attached \cup {<<old.user, i>>}
        /\ shared' = [shared EXCEPT ![i] = AttachedRow(a)]
        /\ runs' = IF old.starts THEN Append(runs, NewRun(a)) ELSE runs
    BY <1>2, <1>3 DEF Attach
  <1>9. LimitsOK'
    <2>1. \A b \in Asks' : ask'[b].pc \in {"asking", "answered"} => ~ask'[b].beside
      BY <1>1, <1>6, <1>7 DEF LimitsOK
    <2>2. ASSUME NEW u \in Users, Alone(u)'
          PROVE  /\ Cardinality(Attachments(u)') <= AttachLimit
                 /\ \A b, c \in Asks' :
                      ask'[b].user = u /\ ask'[b].pc = "attaching"
                        /\ ask'[c].user = u /\ ask'[c].pc = "attaching" => b = c
                 /\ \A b \in Asks' :
                      ask'[b].user = u /\ ask'[b].pc = "attaching"
                        /\ <<u, ask'[b].id>> \notin attached'
                        => Cardinality(Attachments(u)') < AttachLimit
      <3>1. Alone(u)
        BY <1>2, <1>6, <1>7, <2>2 DEF Alone
      <3>2. Cardinality(Attachments(u)) <= AttachLimit
        BY <1>1, <3>1 DEF LimitsOK
      <3>3. CASE u # old.user
        <4>1. Attachments(u)' = Attachments(u)
          BY <1>8, <3>3 DEF Attachments
        <4>2. \A b \in Asks' : ask'[b].user = u => b # a /\ ask'[b] = ask[b]
          BY <1>6, <1>7, <3>3
        <4>3. \A j : <<u, j>> \notin attached' => <<u, j>> \notin attached
          BY <1>8
        <4>4. \A b, c \in Asks' :
                ask'[b].user = u /\ ask'[b].pc = "attaching"
                  /\ ask'[c].user = u /\ ask'[c].pc = "attaching" => b = c
          BY <1>1, <1>7, <3>1, <4>2 DEF LimitsOK
        <4>5. ASSUME NEW b \in Asks', ask'[b].user = u, ask'[b].pc = "attaching",
                     <<u, ask'[b].id>> \notin attached'
              PROVE  Cardinality(Attachments(u)) < AttachLimit
          <5>1. ask'[b] = ask[b] /\ b \in Asks /\ <<u, ask[b].id>> \notin attached
            BY <1>7, <4>2, <4>3, <4>5
          <5> QED
            BY <1>1, <3>1, <4>5, <5>1 DEF LimitsOK
        <4> QED
          BY <3>2, <4>1, <4>4, <4>5
      <3>4. CASE u = old.user
        <4>1. \A b \in Asks' : ask'[b].user = u => ask'[b].pc # "attaching"
          BY <1>1, <1>2, <1>6, <1>7, <3>1, <3>4 DEF LimitsOK
        <4>2. Attachments(u)' = Attachments(u) \cup {i}
          BY <1>8, <3>4 DEF Attachments
        <4>3. IsFiniteSet(Attachments(u)) /\ Cardinality(Attachments(u)) \in Nat
          BY AttachmentsFinite
        <4>4. CASE i \in Attachments(u)
          <5>1. Attachments(u)' = Attachments(u)
            BY <4>2, <4>4
          <5> QED
            BY <3>2, <4>1, <5>1
        <4>5. CASE i \notin Attachments(u)
          <5>1. <<u, ask[a].id>> \notin attached
            BY <1>2, <1>3, <4>5 DEF Attachments
          <5>2. Cardinality(Attachments(u)) < AttachLimit
            BY <1>1, <1>2, <3>1, <3>4, <5>1 DEF LimitsOK
          <5>3. Cardinality(Attachments(u) \cup {i}) = Cardinality(Attachments(u)) + 1
            BY <4>3, <4>5, FS_AddElement
          <5> QED
            BY <4>1, <4>2, <4>3, <5>2, <5>3, LimitsPositive
        <4> QED
          BY <4>4, <4>5
      <3> QED
        BY <3>3, <3>4
    <2> QED
      BY <2>1, <2>2 DEF LimitsOK
  <1>10. MembersOK'
    <2>1. AttachedRow(a).exists
      BY <1>1, AttachedTyped
    <2>2. shared'[i].exists /\ \A j \in Hosts : shared[j].exists => shared'[j].exists
      BY <1>1, <1>8, <2>1
    <2>3. attached' \subseteq Users \X Hosts /\ \A m \in attached' : shared'[m[2]].exists
      BY <1>1, <1>2, <1>8, <2>2 DEF MembersOK
    <2>4. \A r \in Runs' : shared'[runs'[r].repository].exists
      <3>1. NewRun(a) \in RunRow /\ NewRun(a).repository = i
        BY <1>1, <1>2, <1>3, AttachedTyped
      <3>2. \A r \in Runs : runs[r].repository \in Hosts /\ shared[runs[r].repository].exists
        BY <1>1, RunTyped DEF MembersOK
      <3>3. CASE old.starts
        <4>1. /\ Runs' = Runs \cup {Len(runs) + 1} /\ \A r \in Runs : runs'[r] = runs[r]
              /\ runs'[Len(runs) + 1] = NewRun(a)
          BY <1>1, <1>8, <3>1, <3>3 DEF Runs
        <4> QED
          BY <2>2, <3>1, <3>2, <4>1
      <3>4. CASE ~old.starts
        <4>1. runs' = runs /\ Runs' = Runs
          BY <1>8, <3>4 DEF Runs
        <4> QED
          BY <2>2, <3>2, <4>1
      <3> QED
        BY <3>3, <3>4
    <2> QED
      BY <1>1, <1>7, <2>3, <2>4 DEF MembersOK
  <1> QED
    BY <1>9, <1>10 DEF LimitsInv

LEMMA LimitsStart == ImportInit => LimitsInv
  <1> SUFFICES ASSUME ImportInit PROVE LimitsInv
    OBVIOUS
  <1>1. attached = {} /\ Asks = {} /\ Runs = {} /\ Len(ask) = 0
    BY DEF ImportInit, Asks, Runs
  <1>2. \A u : Attachments(u) = {}
    BY <1>1 DEF Attachments
  <1>3. Cardinality({}) = 0 /\ 0 <= AttachLimit
    BY FS_EmptySet, LimitsPositive
  <1>4. MembersOK
    BY <1>1, ImportBounds DEF MembersOK
  <1>5. LimitsOK
    <2>1. \A u : Cardinality(Attachments(u)) <= AttachLimit
      BY <1>2, <1>3
    <2> QED
      BY <1>1, <2>1 DEF LimitsOK
  <1> QED
    BY <1>4, <1>5, InitImports DEF LimitsInv

LEMMA LimitsSteps == LimitsInv /\ [ImportNext]_imports => LimitsInv'
  <1> SUFFICES ASSUME LimitsInv, [ImportNext]_imports PROVE LimitsInv'
    OBVIOUS
  <1>1. ImportInv'
    BY ImportInductive DEF LimitsInv
  <1>2. ASSUME NEW n \in Names, Commit(n) \/ ChangeVisibility(n) \/ Replace(n) PROVE LimitsInv'
    BY <1>1, <1>2, ShowsLimits, RunLimits
  <1>3. ASSUME NEW u \in Users, NEW n \in Names, NEW i \in Hosts,
               Import(u, n) \/ RefreshShared(u, i)
        PROVE  LimitsInv'
    <2>1. shared[i].name \in Names
      BY DEF LimitsInv, ImportInv, ImportTypes, SharedRow
    <2> QED
      BY <1>1, <1>3, <2>1, AskLimits DEF Import, RefreshShared
  <1>4. ASSUME NEW a \in Asks, HandleAsk(a) PROVE LimitsInv'
    BY <1>1, <1>4, AnswerLimits, BeginLimits, AttachLimits DEF HandleAsk
  <1>5. ASSUME NEW r \in Runs, Work(r) PROVE LimitsInv'
    BY <1>1, <1>5, RunLimits
  <1>6. CASE UNCHANGED imports
    BY <1>1, <1>6, RunLimits
  <1> QED
    BY <1>2, <1>3, <1>4, <1>5, <1>6 DEF ImportNext

LEMMA LimitsInvariant == ImportSpec => []LimitsInv
  BY LimitsStart, LimitsSteps, PTL DEF ImportSpec

(* The type invariant of public repositories and of the requests for them. *)
THEOREM ImportTyped == ImportSpec => []ImportTypeOK
  <1>1. LimitsInv => ImportTypeOK
    BY DEF LimitsInv, MembersOK, ImportInv, ImportTypes, ShownOK, ImportTypeOK
  <1> QED
    BY <1>1, LimitsInvariant, PTL

(* Only attachments of a user that were under way together take the user   *)
(* over the limit (_attach counts under no lock of the user's).            *)
THEOREM OvershootOnlyBeside == ImportSpec => []OvershootExplained
  <1>1. ASSUME LimitsInv, NEW u \in Users, Cardinality(Attachments(u)) > AttachLimit
        PROVE  \E a \in Asks : ask[a].user = u /\ ask[a].beside
    <2>1. Cardinality(Attachments(u)) \in Nat
      BY AttachmentsFinite
    <2>2. ~Alone(u)
      BY <1>1, <2>1, LimitsPositive DEF LimitsInv, LimitsOK
    <2> QED
      BY <2>2 DEF Alone
  <1>2. LimitsInv => OvershootExplained
    BY <1>1 DEF OvershootExplained
  <1> QED
    BY <1>2, LimitsInvariant, PTL
=============================================================================
