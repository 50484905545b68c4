----------------------------- MODULE PublicImport -----------------------------
(***************************************************************************)
(* Public repositories, shared by the users who import them: one row and   *)
(* one index per GitHub repository, one membership per user.  GitHub is    *)
(* asked first, outside any transaction; the attachment that follows holds *)
(* an advisory lock on the repository's GitHub id, but counts what its     *)
(* user already has without any lock on the user.                          *)
(***************************************************************************)
EXTENDS Naturals, Sequences, FiniteSets

CONSTANTS
    Users,
    Names,           \* owner/name on GitHub
    MaxIds,          \* bound on GitHub repositories, Cardinality(Names) or more
    MaxCommits,      \* bound on the commits of a repository
    Branch(_),       \* the default branch when a commit was its head
    MaxAsks,         \* bound on requests of users
    AttachLimit,     \* public_repository_limit_per_user
    ActiveLimit      \* public_import_active_limit_per_user

ASSUME ImportBounds ==
    Names # {} /\ MaxIds \in Nat /\ MaxCommits \in Nat \ {0} /\ MaxAsks \in Nat
ASSUME LimitsPositive == AttachLimit \in Nat \ {0} /\ ActiveLimit \in Nat \ {0}

VARIABLES
    hosted,      \* GitHub: what each name stands for
    shared,      \* repositories with access_mode = public, by GitHub id
    attached,    \* user_repositories
    runs,        \* indexing_jobs of these rows, in the order of their commits
    ask          \* requests to import and to refresh, in order

imports == <<hosted, shared, attached, runs, ask>>

Hosts == 1 .. MaxIds
DefaultBranches == {Branch(c) : c \in 1 .. MaxCommits}

HostedRow == [id : Hosts, head : 1 .. MaxCommits, private : BOOLEAN]

(* indexed is the commit of the active build, 0 without one; status is     *)
(* indexing_status: "revoked" for access_revoked, "busy" for the stages of *)
(* a job, "done" for complete and failed.                                  *)
SharedRow ==
    [exists : BOOLEAN, name : Names, branch : DefaultBranches, revoked : BOOLEAN, generation : Nat,
     indexed : 0 .. MaxCommits, status : {"not_indexed", "busy", "done", "revoked"}]

(* Between two steps a worker has claimed the job, found it authorized and *)
(* current (working), asked GitHub and cloned, written a stage, and found  *)
(* it authorized and current again (ready).  withdrawing, failing and      *)
(* cancelling are what an answer of GitHub or a check has made of a run    *)
(* that has not written it yet.  ended is complete or failed.              *)
Running == {"claimed", "working", "cloned", "staged", "ready", "withdrawing", "failing",
            "cancelling"}
Ended == {"cancelled", "ended"}

RunRow == [repository : Hosts, user : Users, commit : 1 .. MaxCommits, generation : Nat,
           manual : BOOLEAN, state : {"queued"} \cup Running \cup Ended]

(* refreshes is the row a refresh is about, 0 for an import; starts says   *)
(* that it has found the index old and no job under way; the rest is       *)
(* auxiliary: beside, another attachment of the user was under way when it *)
(* counted; shown, what GitHub showed by the name until it answered;       *)
(* awaits, the jobs it found under way when it restored a withdrawn row.   *)
AskRow ==
    [pc : {"asking", "answered", "attaching", "revoking", "attached", "refused"},
     user : Users, name : Names, refreshes : {0} \cup Hosts, id : {0} \cup Hosts,
     head : 0 .. MaxCommits, beside : BOOLEAN, starts : BOOLEAN, shown : SUBSET Hosts,
     awaits : SUBSET Nat]

Asks == DOMAIN ask
Runs == DOMAIN runs

ImportTypeOK ==
    /\ hosted \in [Names -> HostedRow]
    /\ shared \in [Hosts -> SharedRow]
    /\ attached \subseteq Users \X Hosts
    /\ runs \in Seq(RunRow)
    /\ ask \in Seq(AskRow) /\ Len(ask) <= MaxAsks
    /\ \A m \in attached : shared[m[2]].exists
    /\ \A r \in Runs : shared[runs[r].repository].exists
    /\ \A a \in Asks :
        /\ ask[a].pc \in {"answered", "attaching"} => ask[a].id # 0 /\ ask[a].head # 0
        /\ ask[a].pc = "revoking" => ask[a].refreshes # 0

ImportInit ==
    /\ hosted \in {h \in [Names -> HostedRow] :
                    /\ \A n \in Names : h[n].head = 1 /\ ~h[n].private
                    /\ \A m, n \in Names : h[m].id = h[n].id => m = n
                    /\ \A n \in Names : h[n].id <= Cardinality(Names)}
    /\ shared = [i \in Hosts |-> [exists |-> FALSE, name |-> CHOOSE n \in Names : TRUE,
                                  branch |-> Branch(1), revoked |-> FALSE, generation |-> 0,
                                  indexed |-> 0,
                                  status |-> "not_indexed"]]
    /\ attached = {} /\ runs = <<>> /\ ask = <<>>

-----------------------------------------------------------------------------
(* GitHub: pushes and changes of the default branch, changes of            *)
(* visibility, and a name given to another repository.                     *)

Commit(n) ==
    /\ hosted[n].head < MaxCommits
    /\ hosted' = [hosted EXCEPT ![n].head = @ + 1]
    /\ UNCHANGED <<shared, attached, runs, ask>>

Shows(n, host) ==
    [a \in Asks |-> IF ask[a].name = n /\ ask[a].pc = "asking" /\ ~host[n].private
                   THEN [ask[a] EXCEPT !.shown = @ \cup {host[n].id}] ELSE ask[a]]

ChangeVisibility(n) ==
    /\ hosted' = [hosted EXCEPT ![n].private = ~@]
    /\ ask' = Shows(n, hosted')
    /\ UNCHANGED <<shared, attached, runs>>

Replace(n) ==
    \E i \in Hosts :
        /\ \A m \in Names : hosted[m].id < i
        /\ hosted[n].head < MaxCommits
        /\ hosted' = [hosted EXCEPT ![n] = [id |-> i, head |-> hosted[n].head + 1, private |-> FALSE]]
        /\ ask' = Shows(n, hosted')
        /\ UNCHANGED <<shared, attached, runs>>

-----------------------------------------------------------------------------
AskGithub(u, n, i) ==
    /\ Len(ask) < MaxAsks
    /\ ask' = Append(ask, [pc |-> "asking", user |-> u, name |-> n, refreshes |-> i, id |-> 0,
                           head |-> 0, beside |-> FALSE, starts |-> FALSE,
                           shown |-> IF hosted[n].private THEN {} ELSE {hosted[n].id},
                           awaits |-> {}])
    /\ UNCHANGED <<hosted, shared, attached, runs>>

Import(u, n) == AskGithub(u, n, 0)

RefreshShared(u, i) ==
    /\ <<u, i>> \in attached
    /\ AskGithub(u, shared[i].name, i)

(* What is left of a request that is over, or only has to revoke.          *)
Moves(a, pc) ==
    ask' = [ask EXCEPT ![a].pc = pc, ![a].id = 0, ![a].head = 0, ![a].starts = FALSE, ![a].shown = {},
                       ![a].refreshes = IF pc = "revoking" THEN @ ELSE 0]

(* get_public_repository: a private repository is refused, whoever asks;   *)
(* for a refresh, one that is private or has another id is revoked.        *)
Gone_OnRefreshOnly(a) ==
    ask[a].refreshes # 0
    /\ (hosted[ask[a].name].private \/ ask[a].refreshes # hosted[ask[a].name].id)
Gone(a) ==
    \/ hosted[ask[a].name].private
    \/ ask[a].refreshes \notin {0, hosted[ask[a].name].id}

(* The repository, and then the head of its default branch: the second     *)
(* answer stands for both.                                                 *)
GithubAnswers(a) ==
    LET now == hosted[ask[a].name] IN
    /\ ask[a].pc = "asking"
    /\ ~Gone(a)
    /\ ask' = [ask EXCEPT ![a].pc = "answered", ![a].id = now.id, ![a].head = now.head,
                          ![a].shown = @ \cap {now.id}]
    /\ UNCHANGED <<hosted, shared, attached, runs>>

WithdrawalGoesTo(a) == IF ask[a].refreshes = 0 THEN "refused" ELSE "revoking"

GithubWithdraws(a) ==
    /\ ask[a].pc = "asking"
    /\ Gone(a)
    /\ Moves(a, WithdrawalGoesTo(a))
    /\ UNCHANGED <<hosted, shared, attached, runs>>

(* GitHub cannot be reached or limits us, or the repository is too large.  *)
GithubFails(a) ==
    /\ ask[a].pc \in {"asking", "answered"}
    /\ Moves(a, "refused")
    /\ UNCHANGED <<hosted, shared, attached, runs>>

(* pg_advisory_xact_lock, and FOR UPDATE on a row that exists.             *)
Held_Unlocked(i) == FALSE
Held(i) == \E b \in Asks : ask[b].pc = "attaching" /\ ask[b].id = i

(* An UPDATE of the row waits for the lock, and takes it alone.            *)
RevokeShared(a) ==
    /\ ask[a].pc = "revoking"
    /\ ~Held(ask[a].refreshes)
    /\ shared' = [shared EXCEPT ![ask[a].refreshes].revoked = TRUE,
                                ![ask[a].refreshes].status = "revoked"]
    /\ Moves(a, "refused")
    /\ UNCHANGED <<hosted, attached, runs>>

Attachments(u) == {i \in Hosts : <<u, i>> \in attached}
IsOpen(r) == runs[r].state \notin Ended
OpenRuns(u) == {r \in Runs : IsOpen(r) /\ runs[r].user = u}

LimitReached_OffByOne(u) == Cardinality(Attachments(u)) > AttachLimit
LimitReached(u) == Cardinality(Attachments(u)) >= AttachLimit \/ Cardinality(OpenRuns(u)) >= ActiveLimit

OpenRunOf(i) == {r \in Runs : IsOpen(r) /\ runs[r].repository = i}

AlreadyCurrent(a) == shared[ask[a].id].indexed = ask[a].head

Starts_OnlyNew(a) == ~shared[ask[a].id].exists
Starts(a) == ~AlreadyCurrent(a) /\ OpenRunOf(ask[a].id) = {}

(* _attach up to its checks, and from there to its commit.                 *)
BeginAttach(a) ==
    LET u == ask[a].user IN
    /\ ask[a].pc = "answered"
    /\ ~Held(ask[a].id)
    /\ <<u, ask[a].id>> \in attached \/ ~LimitReached(u)
    /\ ask' = [ask EXCEPT
                 ![a].pc = "attaching",
                 ![a].starts = Starts(a),
                 ![a].beside = \E b \in Asks : ask[b].user = u /\ ask[b].pc = "attaching",
                 ![a].awaits = IF shared[ask[a].id].revoked THEN OpenRunOf(ask[a].id) ELSE {}]
    /\ UNCHANGED <<hosted, shared, attached, runs>>

LimitRefuses(a) ==
    LET u == ask[a].user IN
    /\ ask[a].pc = "answered" /\ ~Held(ask[a].id)
    /\ <<u, ask[a].id>> \notin attached /\ LimitReached(u)
    /\ Moves(a, "refused")
    /\ UNCHANGED <<hosted, shared, attached, runs>>

NextRefresh(a) == shared[ask[a].id].generation + IF ask[a].refreshes # 0 THEN 1 ELSE 0

AttachedRow(a) ==
    [shared[ask[a].id] EXCEPT
        !.exists = TRUE, !.name = ask[a].name, !.branch = Branch(ask[a].head), !.revoked = FALSE,
        !.generation = IF ask[a].starts THEN NextRefresh(a) ELSE @,
        !.status = IF ask[a].starts THEN "busy" ELSE @]

NewRun(a) ==
    [repository |-> ask[a].id, user |-> ask[a].user, commit |-> ask[a].head,
     generation |-> NextRefresh(a), manual |-> ask[a].refreshes # 0, state |-> "queued"]

Attach(a) ==
    LET i == ask[a].id IN
    /\ ask[a].pc = "attaching"
    /\ attached' = attached \cup {<<ask[a].user, i>>}
    /\ shared' = [shared EXCEPT ![i] = AttachedRow(a)]
    /\ runs' = IF ask[a].starts THEN Append(runs, NewRun(a)) ELSE runs
    /\ Moves(a, "attached")
    /\ UNCHANGED hosted

-----------------------------------------------------------------------------
(* The worker (IndexingJobs and IndexingWorker have its leases and builds):*)
(* it looks in some transactions and writes in later ones, and what writes *)
(* the repository's row waits for its lock.                                *)
Repo(r) == shared[runs[r].repository]

Goes(r, state) == runs' = [runs EXCEPT ![r].state = state]

(* A step that looks, and writes neither the row nor anything else of it.  *)
Looks(r) == UNCHANGED <<hosted, shared, attached, ask>>

Writes(r, status) ==
    /\ ~Held(runs[r].repository)
    /\ shared' = [shared EXCEPT ![runs[r].repository].status = status]
    /\ UNCHANGED <<hosted, attached, ask>>

Claim(r) == runs[r].state = "queued" /\ Goes(r, "claimed") /\ Writes(r, "busy")

IsCurrent(r) ==
    runs[r].generation = Repo(r).generation /\ Branch(runs[r].commit) = Repo(r).branch

(* authorized_context and is_current, which a run calls one after the      *)
(* other, before it works and before the activation; mark_stale, if the    *)
(* job is not current, leaves the repository's row alone.                  *)
Check(r) ==
    /\ \E passed \in {<<"claimed", "working">>, <<"staged", "ready">>} :
        /\ runs[r].state = passed[1]
        /\ \/ Repo(r).revoked /\ Goes(r, "cancelling")
           \/ ~IsCurrent(r) /\ Goes(r, "cancelled")
           \/ ~Repo(r).revoked /\ IsCurrent(r) /\ Goes(r, passed[2])
    /\ Looks(r)

(* _clone_token asks GitHub by the name and for the branch of the row.     *)
IdentityChanged(r) ==
    LET now == hosted[Repo(r).name] IN
    now.private \/ now.id # runs[r].repository \/ Branch(now.head) # Branch(runs[r].commit)

AlreadyActive(r) == runs[r].manual /\ Repo(r).indexed = hosted[Repo(r).name].head

Clone(r) ==
    /\ runs[r].state = "working"
    /\ IF IdentityChanged(r) THEN Goes(r, "withdrawing")
       ELSE IF AlreadyActive(r) THEN Goes(r, "cancelled")
       ELSE runs' = [runs EXCEPT ![r].state = "cloned", ![r].commit = hosted[Repo(r).name].head]
    /\ Looks(r)

RunRevokes(r) ==
    LET i == runs[r].repository IN
    /\ runs[r].state = "withdrawing" /\ ~Held(i)
    /\ Goes(r, "failing")
    /\ shared' = [shared EXCEPT ![i].revoked = TRUE, ![i].status = "revoked"]
    /\ UNCHANGED <<hosted, attached, ask>>

(* One of the stages of a build; the one before activate is overwritten.   *)
Stage(r) == runs[r].state = "cloned" /\ Goes(r, "staged") /\ Writes(r, "busy")

(* activate looks at the generation and the branch, not at the access.     *)
Activate(r) ==
    LET i == runs[r].repository IN
    /\ runs[r].state = "ready" /\ IsCurrent(r) /\ ~Held(i)
    /\ Goes(r, "ended")
    /\ shared' = [shared EXCEPT ![i].status = "done", ![i].indexed = runs[r].commit]
    /\ UNCHANGED <<hosted, attached, ask>>

(* fail, and recover_abandoned when the worker has stopped.                *)
Fail(r, retry) ==
    /\ runs[r].state \in Running
    /\ Goes(r, IF retry THEN "queued" ELSE "ended")
    /\ Writes(r, IF retry THEN "busy" ELSE "done")

CancelRevoked(r) ==
    runs[r].state = "cancelling" /\ Goes(r, "cancelled") /\ Writes(r, "revoked")

Work(r) ==
    \/ Claim(r) \/ Check(r) \/ Clone(r) \/ RunRevokes(r) \/ Stage(r)
    \/ Activate(r) \/ (\E retry \in BOOLEAN : Fail(r, retry)) \/ CancelRevoked(r)

-----------------------------------------------------------------------------
HandleAsk(a) ==
    \/ GithubAnswers(a) \/ GithubWithdraws(a) \/ GithubFails(a)
    \/ RevokeShared(a) \/ BeginAttach(a) \/ LimitRefuses(a) \/ Attach(a)

ImportNext ==
    \/ \E n \in Names : Commit(n) \/ ChangeVisibility(n) \/ Replace(n)
    \/ \E u \in Users : \E n \in Names, i \in Hosts : Import(u, n) \/ RefreshShared(u, i)
    \/ \E a \in Asks : HandleAsk(a)
    \/ \E r \in Runs : Work(r)

ImportSpec == ImportInit /\ [][ImportNext]_imports

-----------------------------------------------------------------------------
(* Users share the work: whoever imports or refreshes a repository at once *)
(* (_attach under its locks), one job at most is open for it.              *)
OneOpenRun == \A i \in Hosts : Cardinality(OpenRunOf(i)) <= 1

(* Imports of one user that are under way together may each see room for   *)
(* one more; nothing else takes a user over the limit (_attach counts      *)
(* under the lock of the repository, not of the user).                     *)
OvershootExplained ==
    \A u \in Users :
        Cardinality(Attachments(u)) > AttachLimit => \E a \in Asks : ask[a].user = u /\ ask[a].beside

(* A repository that was restored to its users and has no index is left    *)
(* under the status of its revocation, which refuses questions, only by    *)
(* its last job: the restoration found it under way and created none, and  *)
(* it has not written the status yet, or ended in cancel_revoked, which    *)
(* does not look again, or in mark_stale.  (See the README.)               *)
LastAwaited(i) ==
    \E r \in Runs :
        /\ runs[r].repository = i /\ runs[r].state # "ended"
        /\ \A s \in Runs : runs[s].repository = i => s <= r
        /\ \E a \in Asks : r \in ask[a].awaits

RestorationExplained ==
    \A i \in Hosts :
        ~shared[i].revoked /\ shared[i].status = "revoked" /\ shared[i].indexed = 0 => LastAwaited(i)

(* However old the answers that requests still carry: a repository that a  *)
(* refresh has withdrawn is given back only by a request after whose start *)
(* GitHub has shown it to everybody (get_public_repository in both).       *)
RevocationHolds ==
    [][\A i \in Hosts :
          shared[i].revoked /\ ~shared'[i].revoked
              => \E a \in Asks : ask[a].pc = "attaching" /\ i \in ask[a].shown]_imports
=============================================================================
