--------------------------- MODULE RepositoryListing ---------------------------
(***************************************************************************)
(* The repositories of one installation: what GitHub grants, the listings  *)
(* that read it page by page and then, in one transaction, restore what    *)
(* they have read and revoke the rest, and the webhooks that tell of each  *)
(* change, late and in any order.  Pages are positions: when a repository  *)
(* leaves, those behind it move up.                                        *)
(***************************************************************************)
EXTENDS Naturals, Sequences, FiniteSets

CONSTANTS
    Repositories,
    Listings,        \* requests to list
    PageSize, MaxPages,
    MaxChanges       \* bound on changes at GitHub

ASSUME ListingBounds == IsFiniteSet(Repositories) /\ MaxChanges \in Nat
ASSUME PagesPositive == PageSize \in Nat \ {0} /\ MaxPages \in Nat \ {0}

VARIABLES
    granted,         \* GitHub: the repositories of the installation, as it lists them
    default,         \* GitHub: their default branches
    changes,         \* how many changes there have been
    pending,         \* webhooks that have not been handled
    row,             \* repositories
    status,          \* status of the installation's row
    listing          \* the listings

listings == <<granted, default, changes, pending, row, status, listing>>

BranchNames == {"main", "dev"}

(* job is the branch of the newest job, or else the first one; listed and  *)
(* stale are auxiliary: a listing was the last to change the branch, and   *)
(* the repository had left when it was restored.                           *)
RepositoryRow ==
    [access : {"none", "granted", "revoked"}, branch : BranchNames, job : BranchNames,
     listed : BOOLEAN, stale : BOOLEAN]

Webhooks == [kind : {"added", "removed", "edited"}, of : Repositories, branch : BranchNames]

(* found are the branches by repository; the rest is auxiliary: what       *)
(* GitHub has granted since the listing began, whether others have left,   *)
(* and whether it had more pages.                                          *)
ListingRow ==
    [pc : {"idle", "reading", "read", "done", "refused"}, page : 1 .. MaxPages + 1,
     found : [Repositories -> BranchNames \cup {"none"}], steady : SUBSET Repositories,
     shifted : BOOLEAN, truncated : BOOLEAN, revoked : SUBSET Repositories]

Found(l) == {r \in Repositories : listing[l].found[r] # "none"}
Granted == {granted[i] : i \in DOMAIN granted}

ListingTypeOK ==
    /\ granted \in Seq(Repositories) /\ Cardinality(Granted) = Len(granted)
    /\ default \in [Repositories -> BranchNames]
    /\ changes \in 0 .. MaxChanges
    /\ pending \subseteq Webhooks
    /\ row \in [Repositories -> RepositoryRow]
    /\ status \in {"active", "suspended"}
    /\ listing \in [Listings -> ListingRow]

ListingInit ==
    /\ granted \in {s \in UNION {[1 .. n -> Repositories] : n \in 0 .. Cardinality(Repositories)} :
                     \A i, j \in DOMAIN s : s[i] = s[j] => i = j}
    /\ default = [r \in Repositories |-> "main"]
    /\ changes = 0 /\ pending = {} /\ status = "active"
    /\ row = [r \in Repositories |-> [access |-> "none", branch |-> "main", job |-> "main",
                                      listed |-> FALSE, stale |-> FALSE]]
    /\ listing = [l \in Listings |-> [pc |-> "idle", page |-> 1, steady |-> {}, shifted |-> FALSE,
                                      truncated |-> FALSE, revoked |-> {},
                                      found |-> [r \in Repositories |-> "none"]]]

-----------------------------------------------------------------------------
(* GitHub.                                                                 *)

Changes == changes < MaxChanges /\ changes' = changes + 1

Tell(kind, r) == pending' = pending \cup {[kind |-> kind, of |-> r, branch |-> default'[r]]}

Grant(r) ==
    /\ Changes /\ r \notin Granted
    /\ granted' = Append(granted, r)
    /\ UNCHANGED default /\ Tell("added", r)
    /\ UNCHANGED <<row, status, listing>>

Withdraw(r) ==
    /\ Changes
    /\ \E at \in DOMAIN granted :
          /\ granted[at] = r
          /\ granted' = [i \in 1 .. Len(granted) - 1 |-> granted[IF i < at THEN i ELSE i + 1]]
    /\ UNCHANGED default /\ Tell("removed", r)
    /\ listing' = [l \in Listings |-> [listing[l] EXCEPT !.steady = @ \ {r}, !.shifted = TRUE]]
    /\ UNCHANGED <<row, status>>

RenameDefault(r) ==
    /\ Changes /\ r \in Granted
    /\ default' = [default EXCEPT ![r] = CHOOSE b \in BranchNames : b # @]
    /\ Tell("edited", r)
    /\ UNCHANGED <<granted, row, status, listing>>

-----------------------------------------------------------------------------
(* Webhooks (WebhookDeliveries has their deliveries), for rows and the     *)
(* installation.                                                           *)

Created_Payload(r, branch) == branch
Created(r, branch) == IF row[r].access = "none" THEN branch ELSE row[r].branch

Restored(r, branch) ==
    [row[r] EXCEPT !.access = "granted", !.stale = r \notin Granted,
                   !.job = IF row[r].access = "none" THEN branch ELSE @]

Removal_KeepsAccess(r) == [row[r] EXCEPT !.stale = FALSE]
Removal(r) == [row[r] EXCEPT !.access = "revoked", !.stale = FALSE]

Announced(w) == [Restored(w.of, w.branch) EXCEPT !.branch = Created(w.of, w.branch)]

Renamed(w) == [row[w.of] EXCEPT !.branch = w.branch, !.job = w.branch, !.listed = FALSE]

Handled(w) ==
    CASE w.kind = "removed" /\ row[w.of].access # "none" -> Removal(w.of)
      [] w.kind = "added" -> Announced(w)
      [] /\ w.kind = "edited" /\ row[w.of].access = "granted"
         /\ status = "active" /\ row[w.of].branch # w.branch -> Renamed(w)
      [] OTHER -> row[w.of]

ApplyWebhook(w) ==
    /\ w \in pending /\ pending' = pending \ {w}
    /\ row' = [row EXCEPT ![w.of] = Handled(w)]
    /\ UNCHANGED <<granted, default, changes, status, listing>>

Suspend ==
    /\ Changes /\ status = "active"
    /\ status' = "suspended"
    /\ row' = [r \in Repositories |->
                 IF row[r].access = "none" THEN row[r] ELSE [row[r] EXCEPT !.access = "revoked"]]
    /\ UNCHANGED <<granted, default, pending, listing>>

Unsuspend ==
    /\ status = "suspended" /\ status' = "active"
    /\ UNCHANGED <<granted, default, changes, pending, row, listing>>

-----------------------------------------------------------------------------
(* synchronize_repositories.                                               *)

BeginListing(l) ==
    /\ listing[l].pc = "idle"
    /\ listing' = [listing EXCEPT ![l].pc = IF status = "active" THEN "reading" ELSE "refused",
                                  ![l].steady = Granted, ![l].shifted = FALSE]
    /\ UNCHANGED <<granted, default, changes, pending, row, status>>

PageItems(page) ==
    LET first == (page - 1) * PageSize IN
    {granted[i] : i \in {i \in DOMAIN granted : first < i /\ i <= first + PageSize}}

LastPage_Full(page) == Cardinality(PageItems(page)) <= PageSize
LastPage(page) == Cardinality(PageItems(page)) < PageSize \/ page = MaxPages

ReadPage(l) ==
    LET page == listing[l].page IN
    /\ listing[l].pc = "reading"
    /\ listing' = [listing EXCEPT
                     ![l].found = [r \in Repositories |->
                                     IF r \in PageItems(page) THEN default[r] ELSE @[r]],
                     ![l].page = page + 1,
                     ![l].truncated = page = MaxPages /\ Len(granted) > page * PageSize,
                     ![l].pc = IF LastPage(page) THEN "read" ELSE "reading"]
    /\ UNCHANGED <<granted, default, changes, pending, row, status>>

(* A page that GitHub does not answer: nothing is written.                 *)
ListingFails(l) ==
    /\ listing[l].pc = "reading"
    /\ listing' = [listing EXCEPT ![l].pc = "refused"]
    /\ UNCHANGED <<granted, default, changes, pending, row, status>>

Upserted(r, branch) ==
    [Restored(r, branch) EXCEPT !.branch = branch,
                                !.listed = @ \/ branch # Created(r, branch)]

ToRevoke(l) == {r \in Repositories : row[r].access = "granted"} \ Found(l)

CommitListing(l) ==
    /\ listing[l].pc = "read" /\ status = "active"
    /\ row' = [r \in Repositories |->
                 IF r \in Found(l) THEN Upserted(r, listing[l].found[r])
                 ELSE IF r \in ToRevoke(l) THEN [row[r] EXCEPT !.access = "revoked", !.stale = FALSE]
                 ELSE row[r]]
    /\ listing' = [listing EXCEPT ![l].pc = "done", ![l].revoked = ToRevoke(l)]
    /\ UNCHANGED <<granted, default, changes, pending, status>>

(* The membership has lapsed, or the installation is suspended meanwhile.  *)
ListingRefused(l) ==
    /\ listing[l].pc = "read"
    /\ listing' = [listing EXCEPT ![l].pc = "refused"]
    /\ UNCHANGED <<granted, default, changes, pending, row, status>>

ListingNext ==
    \/ \E r \in Repositories : Grant(r) \/ Withdraw(r) \/ RenameDefault(r)
    \/ \E w \in pending : ApplyWebhook(w)
    \/ Suspend \/ Unsuspend
    \/ \E l \in Listings :
          BeginListing(l) \/ ReadPage(l) \/ ListingFails(l) \/ CommitListing(l) \/ ListingRefused(l)

ListingSpec == ListingInit /\ [][ListingNext]_listings

-----------------------------------------------------------------------------
(* A listing revokes a repository that GitHub granted all the while only   *)
(* if another one left between two pages, which moved it to a page that    *)
(* had been read, or if there are more pages than a listing reads          *)
(* (MAX_PAGES): the pages are not a snapshot.                              *)
RevokedSteadyExplained ==
    \A l \in Listings :
        listing[l].pc = "done" /\ listing[l].revoked \cap listing[l].steady # {}
            => listing[l].shifted \/ listing[l].truncated

(* Once the webhooks about it are handled, a repository that has left the  *)
(* installation is usable only if what restored it came too late: a        *)
(* listing that had read it, or the older webhook handled last.            *)
UsableExplained ==
    \A r \in Repositories :
        row[r].access = "granted" /\ r \notin Granted /\ ~(\E w \in pending : w.of = r)
            => row[r].stale

(* A row's branch has a job, unless a listing wrote it first: then the     *)
(* webhook about it finds no change (_upsert_repository queues nothing).   *)
BranchHasJob ==
    \A r \in Repositories : row[r].access # "none" /\ row[r].branch # row[r].job => row[r].listed
=============================================================================
