----------------------------- MODULE ActiveIndex -----------------------------
(***************************************************************************)
(* What indexing promises to the readers of a repository: the versions     *)
(* they are shown form a log.  A version is published once, by one job,    *)
(* for one commit; it is the successor of the last; no earlier entry is    *)
(* ever rewritten.  Nothing of leases, builds or attempts is visible.      *)
(***************************************************************************)
EXTENDS Naturals, Sequences, SequencesExt

CONSTANTS Jobs, Commits

VARIABLE published   \* sequence of [job, commit]; the last one is active

Entry == [job : Jobs, commit : Commits]

Init == published = <<>>

(* A job that has published is complete and never publishes again.         *)
HasPublished(j) == \E entry \in ToSet(published) : entry.job = j

Publish(j, c) ==
    /\ ~HasPublished(j)
    /\ published' = Append(published, [job |-> j, commit |-> c])

Next == \E j \in Jobs, c \in Commits : Publish(j, c)

Spec == Init /\ [][Next]_published
=============================================================================
