-------------------------------- MODULE SignIn --------------------------------
(***************************************************************************)
(* Signing in with GitHub or Google and linking a second identity to a     *)
(* user: one-time OAuth states, the callbacks that consume them, and the   *)
(* identities, users and memberships that a callback writes.  A state is   *)
(* consumed by a transaction of its own, before the provider is asked; the *)
(* login is another, whose reads and whose writes are two steps here, so   *)
(* that only the unique constraints stand between two callbacks.           *)
(***************************************************************************)
EXTENDS Naturals, Sequences

CONSTANTS
    GithubAccounts, GoogleAccounts,   \* subjects of the two providers
    NoAccount,
    Email(_),         \* the verified address of a Google account
    Legacy,           \* GitHub accounts of users older than auth_identities
    Installations,    \* of the GitHub App, as GitHub lists them for an account
    MaxStates,        \* bound on OAuth flows started
    MaxCallbacks      \* bound on callbacks received

Accounts == GithubAccounts \cup GoogleAccounts

ASSUME SignInBounds == MaxStates \in Nat /\ MaxCallbacks \in Nat
ASSUME NoAccountIsNone == NoAccount \notin Accounts
ASSUME ProvidersDisjoint == GithubAccounts \cap GoogleAccounts = {}
ASSUME LegacyIsGithub == Legacy \subseteq GithubAccounts

VARIABLES
    oauth,       \* oauth_states in the order of their commits
    pkce,        \* the flow whose verifier the browser's cookie holds, or 0
    users,       \* rows of users; a user is its number
    owner,       \* auth_identities: the user of each account, or 0
    callback     \* the callbacks received, in order

accounts == <<oauth, pkce, users, owner, callback>>

(* intended is intended_user_id: 0 in the sign_in flow.                    *)
OAuthState ==
    [provider : {"github", "google"}, intended : Nat, used : BOOLEAN, expired : BOOLEAN]

(* github is github_user_id, member the user's installation_members.       *)
UserRow == [github : GithubAccounts \cup {NoAccount}, member : SUBSET Installations]

(* A callback, once resolved, knows its user (0: one to be created) and    *)
(* whether it has to insert an identity.                                   *)
CallbackRow ==
    [pc : {"received", "consumed", "exchanged", "resolved", "signed_in", "refused"},
     state : Nat, verifier : Nat, account : Accounts \cup {NoAccount},
     listed : SUBSET Installations, user : Nat, insert : BOOLEAN]

Ids == 1 .. Len(users)

SignInTypeOK ==
    /\ oauth \in Seq(OAuthState) /\ Len(oauth) <= MaxStates
    /\ pkce \in {0} \cup DOMAIN oauth
    /\ users \in Seq(UserRow)
    /\ owner \in [Accounts -> {0} \cup Ids]
    /\ callback \in Seq(CallbackRow) /\ Len(callback) <= MaxCallbacks
    /\ \A i \in DOMAIN oauth : oauth[i].intended \in {0} \cup Ids
    /\ \A c \in DOMAIN callback :
        /\ callback[c].state \in DOMAIN oauth
        /\ callback[c].user \in {0} \cup Ids
        /\ callback[c].pc \in {"exchanged", "resolved", "signed_in"} => callback[c].account # NoAccount
        /\ callback[c].pc = "signed_in" => callback[c].user # 0

SignInInit ==
    /\ oauth = <<>> /\ pkce = 0 /\ callback = <<>>
    /\ users \in {<<>>} \cup {<<[github |-> a, member |-> {}]>> : a \in Legacy}
    /\ owner = [a \in Accounts |-> 0]

-----------------------------------------------------------------------------
(* start_oauth, for nobody or for the signed-in user u: the answer's PKCE  *)
(* cookie replaces that of a flow begun in another tab.                    *)
StartOAuth(provider, u) ==
    /\ Len(oauth) < MaxStates
    /\ oauth' = Append(oauth, [provider |-> provider, intended |-> u, used |-> FALSE,
                               expired |-> FALSE])
    /\ pkce' = Len(oauth')
    /\ UNCHANGED <<users, owner, callback>>

ExpireState(i) ==
    /\ ~oauth[i].expired
    /\ oauth' = [oauth EXCEPT ![i].expired = TRUE]
    /\ UNCHANGED <<pkce, users, owner, callback>>

(* The provider redirects the browser; a reload sends the callback again.  *)
ReceiveCallback(i) ==
    /\ Len(callback) < MaxCallbacks
    /\ callback' = Append(callback, [pc |-> "received", state |-> i, verifier |-> pkce,
                                     account |-> NoAccount, listed |-> {}, user |-> 0,
                                     insert |-> FALSE])
    /\ UNCHANGED <<oauth, pkce, users, owner>>

State(c) == oauth[callback[c].state]

StateValid_Reusable(c) == ~State(c).expired /\ callback[c].verifier = callback[c].state
StateValid(c) == ~State(c).used /\ ~State(c).expired /\ callback[c].verifier = callback[c].state

ConsumeState(c) ==
    /\ callback[c].pc = "received"
    /\ StateValid(c)
    /\ oauth' = [oauth EXCEPT ![callback[c].state].used = TRUE]
    /\ callback' = [callback EXCEPT ![c].pc = "consumed"]
    /\ UNCHANGED <<pkce, users, owner>>

Refuse(c) ==
    /\ callback' = [callback EXCEPT ![c].pc = "refused"]
    /\ UNCHANGED <<oauth, pkce, users, owner>>

StateInvalid(c) == callback[c].pc = "received" /\ ~StateValid(c) /\ Refuse(c)

(* The provider says who signed in, and GitHub what he may use; or it      *)
(* fails, and the state stays used.                                        *)
Exchange(c) ==
    /\ callback[c].pc = "consumed"
    /\ \E a \in IF State(c).provider = "github" THEN GithubAccounts ELSE GoogleAccounts,
          listed \in SUBSET Installations :
        /\ a \in GoogleAccounts => listed = {}
        /\ callback' = [callback EXCEPT ![c].pc = "exchanged", ![c].account = a,
                                        ![c].listed = listed]
    /\ UNCHANGED <<oauth, pkce, users, owner>>

ProviderFails(c) == callback[c].pc = "consumed" /\ Refuse(c)

-----------------------------------------------------------------------------
(* _resolve_identity.                                                      *)

Conflicts(c) ==
    LET u == owner[callback[c].account] IN
    u # 0 /\ State(c).intended # 0 /\ u # State(c).intended

LegacyUser(a) == {u \in Ids : users[u].github = a}

(* An address that another Google identity has verified.                   *)
EmailTaken(a) ==
    a \in GoogleAccounts /\ \E b \in GoogleAccounts : owner[b] # 0 /\ Email(b) = Email(a)

(* The user an account without an identity goes to; 0 is a new one.        *)
UserFor(c) ==
    LET a == callback[c].account IN
    IF State(c).intended # 0 THEN State(c).intended
    ELSE IF LegacyUser(a) # {} THEN CHOOSE u \in LegacyUser(a) : TRUE
    ELSE 0

ResolveKnown(c) ==
    /\ callback[c].pc = "exchanged"
    /\ owner[callback[c].account] # 0 /\ ~Conflicts(c)
    /\ callback' = [callback EXCEPT ![c].pc = "resolved", ![c].user = owner[callback[c].account]]
    /\ UNCHANGED <<oauth, pkce, users, owner>>

ResolveUnknown(c) ==
    /\ callback[c].pc = "exchanged"
    /\ owner[callback[c].account] = 0
    /\ UserFor(c) # 0 \/ ~EmailTaken(callback[c].account)
    /\ callback' = [callback EXCEPT ![c].pc = "resolved", ![c].user = UserFor(c), ![c].insert = TRUE]
    /\ UNCHANGED <<oauth, pkce, users, owner>>

(* IdentityConflictError and AccountLinkRequiredError.                     *)
ResolveFails(c) ==
    /\ callback[c].pc = "exchanged"
    /\ \/ Conflicts(c)
       \/ /\ owner[callback[c].account] = 0 /\ UserFor(c) = 0
          /\ EmailTaken(callback[c].account)
    /\ Refuse(c)

(* uq_auth_identities_subject and the unique github_user_id, against what  *)
(* others have committed since.                                            *)
SubjectFree(c) == callback[c].insert => owner[callback[c].account] = 0
GithubFree_NotUnique(c) == TRUE
GithubFree(c) == \A u \in Ids \ {callback[c].user} : users[u].github # callback[c].account

UserWritten(c, row) ==
    IF callback[c].account \in GithubAccounts
    THEN [github |-> callback[c].account, member |-> callback[c].listed]
    ELSE row

(* The transaction of the login commits: user, identity, memberships and a *)
(* session (RefreshTokens, SignInCompletes).  The answer clears the cookie.*)
Login(c) ==
    LET u == IF callback[c].user = 0 THEN Len(users) + 1 ELSE callback[c].user IN
    /\ callback[c].pc = "resolved"
    /\ SubjectFree(c) /\ GithubFree(c)
    /\ users' = IF callback[c].user = 0
                THEN Append(users, UserWritten(c, [github |-> NoAccount, member |-> {}]))
                ELSE [users EXCEPT ![u] = UserWritten(c, users[u])]
    /\ owner' = IF callback[c].insert THEN [owner EXCEPT ![callback[c].account] = u] ELSE owner
    /\ callback' = [callback EXCEPT ![c].pc = "signed_in", ![c].user = u]
    /\ pkce' = 0
    /\ UNCHANGED oauth

(* IntegrityError: the transaction rolls back and the answer is a 500.     *)
LoginConflicts(c) ==
    /\ callback[c].pc = "resolved"
    /\ ~SubjectFree(c) \/ ~GithubFree(c)
    /\ Refuse(c)

-----------------------------------------------------------------------------
HandleCallback(c) ==
    \/ ConsumeState(c) \/ StateInvalid(c) \/ Exchange(c) \/ ProviderFails(c)
    \/ ResolveKnown(c) \/ ResolveUnknown(c) \/ ResolveFails(c)
    \/ Login(c) \/ LoginConflicts(c)

SignInNext ==
    \/ \E p \in {"github", "google"}, u \in {0} \cup Ids : StartOAuth(p, u)
    \/ \E i \in DOMAIN oauth : ExpireState(i) \/ ReceiveCallback(i)
    \/ \E c \in DOMAIN callback : HandleCallback(c)

SignInSpec == SignInInit /\ [][SignInNext]_accounts

-----------------------------------------------------------------------------
(* A state opens one login, however often and however fast its callback is *)
(* repeated (_consume_oauth_state commits used_at before it asks anyone).  *)
StateOpensOnce ==
    \A c, d \in DOMAIN callback :
        /\ callback[c].state = callback[d].state
        /\ {callback[c].pc, callback[d].pc}
             \subseteq {"consumed", "exchanged", "resolved", "signed_in"}
        => c = d

(* A link never ends in another user's session: who the provider names,    *)
(* what was linked meanwhile, the callback of a link signs in the user who *)
(* started it or nobody.                                                   *)
LinkKeepsUser ==
    \A c \in DOMAIN callback :
        callback[c].pc = "signed_in" /\ State(c).intended # 0
            => callback[c].user = State(c).intended

(* An identity is attached once: two first logins of an account that read  *)
(* before either has written cannot both create a user for it.             *)
IdentitiesStay == [][\A a \in Accounts : owner[a] # 0 => owner'[a] = owner[a]]_accounts

(* The two ways to find the user of a GitHub account agree: its identity   *)
(* and the github_user_id of users, also for users older than identities.  *)
GithubColumnAgrees ==
    \A u \in Ids : users[u].github # NoAccount =>
        /\ owner[users[u].github] \in {0, u}
        /\ LegacyUser(users[u].github) = {u}
=============================================================================
