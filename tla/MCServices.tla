------------------------------ MODULE MCServices ------------------------------
(***************************************************************************)
(* Instances of the services that only safety is asked of, for TLC: one    *)
(* run checks them side by side, each in behaviours of its own, since they *)
(* share no state.                                                         *)
(***************************************************************************)
EXTENDS SignIn, WebhookDeliveries, PublicImport, ChatRequests, RepositoryListing,
        IncrementalRefresh, TLC

(* Every Google account has verified the same address.                     *)
SameEmail(a) == "mail"

(* The default branch is renamed with the second push.                     *)
DefaultBranch(commit) == IF commit = 1 THEN "master" ELSE "main"

Symmetry == Permutations(Users)

VARIABLE part

services == <<part, accounts, webhooks, imports, chat, listings, refresh>>

MCInit ==
    /\ part \in {"accounts", "webhooks", "imports", "chat", "listings", "refresh"}
    /\ SignInInit /\ WebhooksInit /\ ImportInit /\ ChatInit /\ ListingInit /\ RefreshInit
    /\ part # "accounts" => users = <<>>
    /\ part # "imports" => \A n \in Names : hosted[n].id = CHOOSE i \in Hosts : TRUE
    /\ part # "listings" => granted = <<>>
    /\ part # "refresh" =>
         base = head /\ (\A f \in Files : head[f] = 0) /\ ancestry = "no_index" /\ asked = "full"

SignInPart ==
    part = "accounts" /\ SignInNext
    /\ UNCHANGED <<part, webhooks, imports, chat, listings, refresh>>
WebhooksPart ==
    part = "webhooks" /\ WebhooksNext
    /\ UNCHANGED <<part, accounts, imports, chat, listings, refresh>>
ImportPart ==
    part = "imports" /\ ImportNext
    /\ UNCHANGED <<part, accounts, webhooks, chat, listings, refresh>>
ChatPart ==
    part = "chat" /\ ChatNext
    /\ UNCHANGED <<part, accounts, webhooks, imports, listings, refresh>>
ListingPart ==
    part = "listings" /\ ListingNext
    /\ UNCHANGED <<part, accounts, webhooks, imports, chat, refresh>>
RefreshPart ==
    part = "refresh" /\ RefreshNext
    /\ UNCHANGED <<part, accounts, webhooks, imports, chat, listings>>

MCNext ==
    \/ SignInPart \/ WebhooksPart \/ ImportPart \/ ChatPart \/ ListingPart \/ RefreshPart

MCSpec == MCInit /\ [][MCNext]_services

-----------------------------------------------------------------------------
(* The six services stay well formed.                                      *)
ServicesTypeOK ==
    SignInTypeOK /\ WebhooksTypeOK /\ ImportTypeOK /\ ChatTypeOK /\ ListingTypeOK /\ RefreshTypeOK
=============================================================================
