----------------------------- MODULE MCIndexing -----------------------------
(***************************************************************************)
(* Instances of the indexing specification for TLC.                        *)
(***************************************************************************)
EXTENDS IndexingProperties, TLC

(* Jobs, workers and commits are interchangeable.                          *)
Symmetry == Permutations(Jobs) \cup Permutations(Workers) \cup Permutations(Commits)

(* Liveness is checked without symmetry; instead, one of the jobs is always *)
(* the first to be created.  The other behaviours differ in names only.    *)
FirstJob == CHOOSE j \in Jobs : TRUE

FirstJobFirst == (\E j \in Jobs : job[j].status # "absent") => job[FirstJob].status # "absent"

MCNext == Next /\ FirstJobFirst'

MCFairSpec == Init /\ [][MCNext]_vars /\ Fairness
=============================================================================
