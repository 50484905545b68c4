-------------------------- MODULE Services_proofs ---------------------------
(***************************************************************************)
(* What is proved of the callbacks that sign users in and link identities, *)
(* of the deliveries of GitHub's webhooks, and of a user's questions and   *)
(* transcript: for any numbers of flows, callbacks, accounts, events,      *)
(* deliveries, windows and questions; and, with the repositories of        *)
(* Repositories_proofs, of MCServices, which runs the six services side by *)
(* side.                                                                   *)
(***************************************************************************)
EXTENDS MCServices, Repositories_proofs, WellFoundedInduction

-----------------------------------------------------------------------------
(* Signing in.                                                             *)
Callbacks == DOMAIN callback

Opened(c) == callback[c].pc \in {"consumed", "exchanged", "resolved", "signed_in"}

(* What a callback has used up, and what it has decided.                   *)
CallbacksOK ==
    /\ \A c \in Callbacks : Opened(c) => State(c).used
    /\ \A c \in Callbacks :
        callback[c].pc = "resolved" /\ ~callback[c].insert
            => callback[c].user # 0 /\ owner[callback[c].account] = callback[c].user
    /\ \A c \in Callbacks :
        callback[c].pc = "resolved" /\ State(c).intended # 0
            => callback[c].user = State(c).intended

(* GitHub accounts stand for one user each.                                *)
ColumnsOK ==
    /\ \A u, v \in Ids :
        users[u].github # NoAccount /\ users[u].github = users[v].github => u = v
    /\ \A u \in Ids : users[u].github # NoAccount => owner[users[u].github] \in {0, u}

SignInInv == SignInTypeOK /\ CallbacksOK /\ StateOpensOnce /\ LinkKeepsUser /\ ColumnsOK

LEMMA InitSignIn == SignInInit => SignInInv
  <1> SUFFICES ASSUME SignInInit PROVE SignInInv
    OBVIOUS
  <1>1. oauth = <<>> /\ pkce = 0 /\ callback = <<>> /\ owner = [a \in Accounts |-> 0]
    BY DEF SignInInit
  <1>2. /\ users \in Seq(UserRow) /\ Len(users) \in Nat /\ Len(users) <= 1
        /\ \A a \in Accounts : 0 \in {0} \cup Ids
    <2>1. CASE users = <<>>
      BY <2>1
    <2>2. ASSUME NEW a \in Legacy, users = <<[github |-> a, member |-> {}]>>
          PROVE  users \in Seq(UserRow) /\ Len(users) \in Nat /\ Len(users) <= 1
      <3>1. PICK new : new = [github |-> a, member |-> {}]
        OBVIOUS
      <3>2. new \in UserRow
        BY <3>1, LegacyIsGithub DEF UserRow
      <3> QED
        BY <2>2, <3>1, <3>2
    <2> QED
      BY <2>1, <2>2 DEF SignInInit
  <1>3. SignInTypeOK
    <2>1. oauth \in Seq(OAuthState) /\ Len(oauth) <= MaxStates /\ DOMAIN oauth = {}
      BY <1>1, SignInBounds
    <2>2. callback \in Seq(CallbackRow) /\ Len(callback) <= MaxCallbacks /\ DOMAIN callback = {}
      BY <1>1, SignInBounds
    <2>3. owner \in [Accounts -> {0} \cup Ids]
      BY <1>1
    <2> QED
      BY <1>1, <1>2, <2>1, <2>2, <2>3 DEF SignInTypeOK
  <1>4. ColumnsOK
    <2>1. \A u \in Ids : u = 1
      <3>1. ASSUME NEW n \in Nat, n <= 1, NEW u \in 1 .. n PROVE u = 1
        BY <3>1
      <3> QED
        BY <1>2, <3>1 DEF Ids
    <2>2. \A u \in Ids : users[u].github # NoAccount => users[u].github \in Accounts
      <3>1. \A u \in Ids : users[u] \in UserRow
        BY <1>2 DEF Ids
      <3> QED
        BY <3>1 DEF UserRow, Accounts
    <2> QED
      BY <1>1, <2>1, <2>2 DEF ColumnsOK
  <1>5. CallbacksOK /\ StateOpensOnce /\ LinkKeepsUser
    BY <1>1 DEF CallbacksOK, StateOpensOnce, LinkKeepsUser, Callbacks
  <1> QED
    BY <1>3, <1>4, <1>5 DEF SignInInv

-----------------------------------------------------------------------------
LEMMA CallbackTyped ==
  ASSUME SignInTypeOK, NEW c \in Callbacks
  PROVE  /\ callback[c] \in CallbackRow /\ callback[c].state \in DOMAIN oauth
         /\ callback[c].account \in Accounts \cup {NoAccount} /\ callback[c].insert \in BOOLEAN
         /\ callback[c].user \in {0} \cup Ids /\ callback[c].listed \subseteq Installations
         /\ State(c) \in OAuthState /\ State(c).intended \in {0} \cup Ids
  <1>1. callback[c] \in CallbackRow /\ callback[c].state \in DOMAIN oauth
        /\ callback[c].user \in {0} \cup Ids
    BY DEF SignInTypeOK, Callbacks
  <1>2. State(c) \in OAuthState /\ State(c).intended \in {0} \cup Ids
    BY <1>1 DEF SignInTypeOK, State
  <1> QED
    BY <1>1, <1>2 DEF CallbackRow

LEMMA OneCallback ==
  ASSUME SignInTypeOK, NEW c \in Callbacks, NEW new \in CallbackRow,
         callback' = [callback EXCEPT ![c] = new]
  PROVE  /\ callback' \in Seq(CallbackRow) /\ Callbacks' = Callbacks /\ Len(callback') <= MaxCallbacks
         /\ callback'[c] = new /\ \A d \in Callbacks : d # c => callback'[d] = callback[d]
  <1>1. c \in 1 .. Len(callback) /\ callback \in Seq(CallbackRow) /\ Len(callback) <= MaxCallbacks
    BY DEF SignInTypeOK, Callbacks
  <1> QED
    BY <1>1 DEF Callbacks

(* One callback goes on and writes no identity.                            *)
LEMMA CallbackMoves ==
  ASSUME SignInInv, NEW c \in Callbacks, NEW new \in CallbackRow,
         callback' = [callback EXCEPT ![c] = new], UNCHANGED <<oauth, pkce, users, owner>>,
         new.state = callback[c].state, new.user \in {0} \cup Ids,
         new.pc \in {"exchanged", "resolved"} => new.account # NoAccount /\ Opened(c),
         new.pc \in {"exchanged", "resolved", "refused"},
         new.pc = "resolved" /\ ~new.insert => new.user # 0 /\ owner[new.account] = new.user,
         new.pc = "resolved" /\ State(c).intended # 0 => new.user = State(c).intended
  PROVE  SignInInv'
  <1>1. /\ callback' \in Seq(CallbackRow) /\ Callbacks' = Callbacks /\ Len(callback') <= MaxCallbacks
        /\ callback'[c] = new /\ \A d \in Callbacks : d # c => callback'[d] = callback[d]
    BY OneCallback DEF SignInInv
  <1>2. \A d \in Callbacks : callback'[d].state = callback[d].state /\ State(d)' = State(d)
    BY <1>1 DEF State
  <1>3. SignInTypeOK'
    BY <1>1 DEF SignInInv, SignInTypeOK, Callbacks, Ids
  <1>4. CallbacksOK'
    BY <1>1, <1>2 DEF SignInInv, CallbacksOK, Opened
  <1>5. StateOpensOnce'
    BY <1>1, <1>2 DEF SignInInv, StateOpensOnce, Opened, Callbacks
  <1>6. LinkKeepsUser'
    BY <1>1, <1>2 DEF SignInInv, LinkKeepsUser, Callbacks
  <1>7. ColumnsOK'
    BY DEF SignInInv, ColumnsOK, Ids
  <1> QED
    BY <1>3, <1>4, <1>5, <1>6, <1>7 DEF SignInInv

LEMMA RefuseStep == ASSUME SignInInv, NEW c \in Callbacks, Refuse(c) PROVE SignInInv'
  <1>1. PICK old \in CallbackRow : old = callback[c]
    BY CallbackTyped DEF SignInInv
  <1>2. PICK new : new = [old EXCEPT !.pc = "refused"]
    OBVIOUS
  <1>3. callback' = [callback EXCEPT ![c] = new] /\ UNCHANGED <<oauth, pkce, users, owner>>
    BY <1>1, <1>2 DEF Refuse, SignInInv, SignInTypeOK, Callbacks
  <1>4. new \in CallbackRow /\ new.pc = "refused" /\ new.state = old.state /\ new.user = old.user
    BY <1>1, <1>2 DEF CallbackRow
  <1>5. old.user \in {0} \cup Ids
    BY <1>1, CallbackTyped DEF SignInInv
  <1> QED
    BY <1>1, <1>3, <1>4, <1>5, CallbackMoves

LEMMA ExchangeStep == ASSUME SignInInv, NEW c \in Callbacks, Exchange(c) PROVE SignInInv'
  <1>1. PICK old \in CallbackRow : old = callback[c]
    BY CallbackTyped DEF SignInInv
  <1>2. PICK a \in Accounts, listed \in SUBSET Installations :
            callback' = [callback EXCEPT ![c].pc = "exchanged", ![c].account = a, ![c].listed = listed]
    BY DEF Exchange, Accounts
  <1>3. PICK new : new = [old EXCEPT !.pc = "exchanged", !.account = a, !.listed = listed]
    OBVIOUS
  <1>4. /\ callback' = [callback EXCEPT ![c] = new] /\ UNCHANGED <<oauth, pkce, users, owner>>
        /\ callback[c].pc = "consumed"
    BY <1>1, <1>2, <1>3 DEF Exchange, SignInInv, SignInTypeOK, Callbacks
  <1>5. /\ new \in CallbackRow /\ new.pc = "exchanged" /\ new.state = old.state
        /\ new.user = old.user /\ new.account = a /\ a # NoAccount
    BY <1>1, <1>2, <1>3, NoAccountIsNone DEF CallbackRow
  <1>6. old.user \in {0} \cup Ids
    BY <1>1, CallbackTyped DEF SignInInv
  <1> QED
    BY <1>1, <1>4, <1>5, <1>6, CallbackMoves DEF Opened

LEMMA ResolveSteps ==
  ASSUME SignInInv, NEW c \in Callbacks, ResolveKnown(c) \/ ResolveUnknown(c)
  PROVE  SignInInv'
  <1>0. /\ callback[c].pc = "exchanged" /\ UNCHANGED <<oauth, pkce, users, owner>>
        /\ callback \in Seq(CallbackRow) /\ c \in DOMAIN callback
    BY DEF ResolveKnown, ResolveUnknown, SignInInv, SignInTypeOK, Callbacks
  <1>1. PICK old \in CallbackRow : old = callback[c]
    BY CallbackTyped DEF SignInInv
  <1>2. old.account \in Accounts /\ old.account # NoAccount /\ old.insert \in BOOLEAN
    BY <1>0, <1>1, CallbackTyped DEF SignInInv, SignInTypeOK, Callbacks
  <1>3. State(c).intended \in {0} \cup Ids /\ owner[old.account] \in {0} \cup Ids
    BY <1>1, <1>2, CallbackTyped DEF SignInInv, SignInTypeOK
  <1>4. \A u \in {0} \cup Ids : u \in Nat
    BY DEF SignInInv, SignInTypeOK, Ids
  <1>5. CASE ResolveKnown(c)
    <2>1. PICK u \in {0} \cup Ids : u = owner[old.account]
      BY <1>3
    <2>2. u # 0 /\ (State(c).intended # 0 => u = State(c).intended)
      BY <1>1, <1>5, <2>1 DEF ResolveKnown, Conflicts
    <2>3. PICK new : new = [old EXCEPT !.pc = "resolved", !.user = u]
      OBVIOUS
    <2>4. callback' = [callback EXCEPT ![c] = new]
      BY <1>0, <1>1, <1>5, <2>1, <2>3 DEF ResolveKnown
    <2>5. u \in Nat
      BY <1>4
    <2>6. /\ new \in CallbackRow /\ new.pc = "resolved" /\ new.state = old.state
          /\ new.user = u /\ new.account = old.account /\ new.insert = old.insert
      BY <1>1, <2>3, <2>5 DEF CallbackRow
    <2> QED
      BY <1>0, <1>1, <1>2, <2>1, <2>2, <2>4, <2>6, CallbackMoves DEF Opened
  <1>6. CASE ResolveUnknown(c)
    <2>1. PICK u \in {0} \cup Ids : u = UserFor(c)
      BY <1>3 DEF UserFor, LegacyUser
    <2>2. State(c).intended # 0 => u = State(c).intended
      BY <2>1 DEF UserFor
    <2>3. PICK new : new = [old EXCEPT !.pc = "resolved", !.user = u, !.insert = TRUE]
      OBVIOUS
    <2>4. callback' = [callback EXCEPT ![c] = new]
      <3>1. callback' = [callback EXCEPT ![c].pc = "resolved", ![c].user = u, ![c].insert = TRUE]
        BY <1>6, <2>1 DEF ResolveUnknown
      <3> QED
        BY <1>0, <1>1, <2>3, <3>1
    <2>5. u \in Nat
      BY <1>4
    <2>6. /\ new \in CallbackRow /\ new.pc = "resolved" /\ new.state = old.state
          /\ new.user = u /\ new.account = old.account /\ new.insert
      BY <1>1, <2>3, <2>5 DEF CallbackRow
    <2> QED
      BY <1>0, <1>1, <1>2, <2>2, <2>4, <2>6, CallbackMoves DEF Opened
  <1> QED
    BY <1>5, <1>6

(* States: one flow changes, the callbacks do not look back at it.         *)
LEMMA StatesKept ==
  ASSUME SignInInv, oauth' \in Seq(OAuthState), Len(oauth') <= MaxStates, Len(oauth) <= Len(oauth'),
         pkce' \in {0} \cup DOMAIN oauth', users' = users, owner' = owner, callback' = callback,
         \A i \in DOMAIN oauth' : oauth'[i].intended \in {0} \cup Ids,
         \A i \in DOMAIN oauth :
            oauth'[i].intended = oauth[i].intended /\ (oauth[i].used => oauth'[i].used)
  PROVE  SignInInv'
  <1>1. DOMAIN oauth \subseteq DOMAIN oauth' /\ Ids' = Ids /\ Callbacks' = Callbacks
    BY DEF SignInInv, SignInTypeOK, Ids, Callbacks
  <1>2. \A c \in Callbacks :
            State(c)'.intended = State(c).intended /\ (State(c).used => State(c)'.used)
    BY CallbackTyped DEF SignInInv, State
  <1>3. SignInTypeOK'
    BY <1>1 DEF SignInInv, SignInTypeOK
  <1>4. CallbacksOK'
    BY <1>1, <1>2 DEF SignInInv, CallbacksOK, Opened
  <1>5. StateOpensOnce' /\ LinkKeepsUser'
    BY <1>1, <1>2 DEF SignInInv, StateOpensOnce, LinkKeepsUser, Callbacks
  <1>6. ColumnsOK'
    BY <1>1 DEF SignInInv, ColumnsOK
  <1> QED
    BY <1>3, <1>4, <1>5, <1>6 DEF SignInInv

LEMMA StartStep ==
  ASSUME SignInInv, NEW p \in {"github", "google"}, NEW u \in {0} \cup Ids, StartOAuth(p, u)
  PROVE  SignInInv'
  <1>1. PICK new : new = [provider |-> p, intended |-> u, used |-> FALSE, expired |-> FALSE]
    OBVIOUS
  <1>2. Ids \subseteq Nat
    BY DEF Ids
  <1>3. new \in OAuthState /\ new.intended = u
    BY <1>1, <1>2 DEF OAuthState
  <1>4. oauth' = Append(oauth, new) /\ pkce' = Len(oauth') /\ UNCHANGED <<users, owner, callback>>
        /\ Len(oauth) < MaxStates /\ oauth \in Seq(OAuthState)
    BY <1>1 DEF StartOAuth, SignInInv, SignInTypeOK
  <1>5. /\ oauth' \in Seq(OAuthState) /\ Len(oauth') = Len(oauth) + 1 /\ Len(oauth) \in Nat
        /\ DOMAIN oauth' = 1 .. Len(oauth) + 1 /\ DOMAIN oauth = 1 .. Len(oauth)
        /\ \A i \in 1 .. Len(oauth) : oauth'[i] = oauth[i]
        /\ oauth'[Len(oauth) + 1] = new
    BY <1>3, <1>4
  <1>6. Len(oauth') <= MaxStates /\ Len(oauth) <= Len(oauth') /\ pkce' \in {0} \cup DOMAIN oauth'
    BY <1>4, <1>5, SignInBounds
  <1>7. \A i \in DOMAIN oauth' : oauth'[i].intended \in {0} \cup Ids
    BY <1>3, <1>5 DEF SignInInv, SignInTypeOK
  <1> QED
    BY <1>4, <1>5, <1>6, <1>7, StatesKept

LEMMA FlagStep ==
  ASSUME SignInInv, NEW i \in DOMAIN oauth, NEW new \in OAuthState,
         oauth' = [oauth EXCEPT ![i] = new], new.intended = oauth[i].intended
  PROVE  /\ oauth' \in Seq(OAuthState) /\ Len(oauth') = Len(oauth) /\ DOMAIN oauth' = DOMAIN oauth
         /\ oauth'[i] = new /\ \A j \in DOMAIN oauth : j # i => oauth'[j] = oauth[j]
         /\ \A j \in DOMAIN oauth' : oauth'[j].intended \in {0} \cup Ids
  <1>1. oauth \in Seq(OAuthState) /\ \A j \in DOMAIN oauth : oauth[j].intended \in {0} \cup Ids
    BY DEF SignInInv, SignInTypeOK
  <1> QED
    BY <1>1

LEMMA ExpireStateStep ==
  ASSUME SignInInv, NEW i \in DOMAIN oauth, ExpireState(i)
  PROVE  SignInInv'
  <1>1. PICK old \in OAuthState : old = oauth[i]
    BY DEF SignInInv, SignInTypeOK
  <1>2. PICK new : new = [old EXCEPT !.expired = TRUE]
    OBVIOUS
  <1>3. oauth' = [oauth EXCEPT ![i] = new] /\ UNCHANGED <<pkce, users, owner, callback>>
    BY <1>1, <1>2 DEF ExpireState
  <1>4. new \in OAuthState /\ new.intended = old.intended /\ new.used = old.used
    BY <1>1, <1>2 DEF OAuthState
  <1>5. /\ oauth' \in Seq(OAuthState) /\ Len(oauth') = Len(oauth) /\ DOMAIN oauth' = DOMAIN oauth
        /\ oauth'[i] = new /\ \A j \in DOMAIN oauth : j # i => oauth'[j] = oauth[j]
        /\ \A j \in DOMAIN oauth' : oauth'[j].intended \in {0} \cup Ids
    BY <1>1, <1>3, <1>4, FlagStep
  <1>6. Len(oauth) \in Nat /\ Len(oauth) <= MaxStates /\ pkce \in {0} \cup DOMAIN oauth
    BY DEF SignInInv, SignInTypeOK
  <1>7. Len(oauth') <= MaxStates /\ Len(oauth) <= Len(oauth') /\ pkce' \in {0} \cup DOMAIN oauth'
    BY <1>3, <1>5, <1>6
  <1>8. \A j \in DOMAIN oauth :
            oauth'[j].intended = oauth[j].intended /\ (oauth[j].used => oauth'[j].used)
    BY <1>1, <1>4, <1>5
  <1> QED
    BY <1>3, <1>5, <1>7, <1>8, StatesKept

LEMMA ReceiveStep ==
  ASSUME SignInInv, NEW i \in DOMAIN oauth, ReceiveCallback(i)
  PROVE  SignInInv'
  <1>1. PICK new : new = [pc |-> "received", state |-> i, verifier |-> pkce, account |-> NoAccount,
                          listed |-> {}, user |-> 0, insert |-> FALSE]
    OBVIOUS
  <1>2. callback' = Append(callback, new) /\ UNCHANGED <<oauth, pkce, users, owner>>
        /\ Len(callback) < MaxCallbacks /\ callback \in Seq(CallbackRow)
    BY <1>1 DEF ReceiveCallback, SignInInv, SignInTypeOK
  <1>3. i \in Nat /\ pkce \in Nat
    BY DEF SignInInv, SignInTypeOK
  <1>4. new \in CallbackRow /\ new.pc = "received" /\ new.state = i /\ new.user = 0
    BY <1>1, <1>3 DEF CallbackRow
  <1>5. /\ callback' \in Seq(CallbackRow) /\ Len(callback') = Len(callback) + 1 /\ Len(callback) \in Nat
        /\ Callbacks' = 1 .. Len(callback) + 1 /\ Callbacks = 1 .. Len(callback)
        /\ \A d \in Callbacks : callback'[d] = callback[d]
        /\ callback'[Len(callback) + 1] = new
    BY <1>2, <1>4 DEF Callbacks
  <1>6. Len(callback') <= MaxCallbacks
    BY <1>2, <1>5, SignInBounds
  <1>7. \A d \in Callbacks' : d \in Callbacks \/ callback'[d] = new
    BY <1>5
  <1>8. \A d \in Callbacks : callback'[d].state = callback[d].state /\ State(d)' = State(d)
    BY <1>2, <1>5 DEF State
  <1>9. SignInTypeOK'
    <2>1. ASSUME NEW d \in Callbacks'
          PROVE  /\ callback'[d].state \in DOMAIN oauth /\ callback'[d].user \in {0} \cup Ids
                 /\ callback'[d].pc \in {"exchanged", "resolved", "signed_in"}
                        => callback'[d].account # NoAccount
                 /\ callback'[d].pc = "signed_in" => callback'[d].user # 0
      BY <1>4, <1>5, <1>7, <2>1 DEF SignInInv, SignInTypeOK, Callbacks
    <2> QED
      BY <1>2, <1>5, <1>6, <2>1 DEF SignInInv, SignInTypeOK, Callbacks, Ids
  <1>10. CallbacksOK'
    BY <1>2, <1>4, <1>5, <1>7, <1>8 DEF SignInInv, CallbacksOK, Opened
  <1>11. StateOpensOnce'
    BY <1>4, <1>5, <1>7, <1>8 DEF SignInInv, StateOpensOnce, Callbacks
  <1>12. LinkKeepsUser'
    BY <1>4, <1>5, <1>7, <1>8 DEF SignInInv, LinkKeepsUser, Callbacks
  <1>13. ColumnsOK'
    BY <1>2 DEF SignInInv, ColumnsOK, Ids
  <1> QED
    BY <1>9, <1>10, <1>11, <1>12, <1>13 DEF SignInInv

(* A state is used up by one callback.                                     *)
LEMMA ConsumeStep == ASSUME SignInInv, NEW c \in Callbacks, ConsumeState(c) PROVE SignInInv'
  <1>1. PICK old \in CallbackRow : old = callback[c]
    BY CallbackTyped DEF SignInInv
  <1>2. PICK new : new = [old EXCEPT !.pc = "consumed"]
    OBVIOUS
  <1>3. callback' = [callback EXCEPT ![c] = new] /\ UNCHANGED <<pkce, users, owner>>
        /\ callback[c].pc = "received" /\ ~State(c).used
    BY <1>1, <1>2 DEF ConsumeState, StateValid, SignInInv, SignInTypeOK, Callbacks
  <1>4. new \in CallbackRow /\ new.pc = "consumed" /\ new.state = old.state /\ new.user = old.user
    BY <1>1, <1>2 DEF CallbackRow
  <1>5. PICK i \in DOMAIN oauth : i = old.state
    BY <1>1, CallbackTyped DEF SignInInv
  <1>6. PICK before \in OAuthState : before = oauth[i]
    BY DEF SignInInv, SignInTypeOK
  <1>7. PICK after : after = [before EXCEPT !.used = TRUE]
    OBVIOUS
  <1>8. oauth' = [oauth EXCEPT ![i] = after]
    BY <1>1, <1>5, <1>6, <1>7 DEF ConsumeState
  <1>9. after \in OAuthState /\ after.intended = before.intended /\ after.used
    BY <1>6, <1>7 DEF OAuthState
  <1>10. /\ oauth' \in Seq(OAuthState) /\ Len(oauth') = Len(oauth) /\ DOMAIN oauth' = DOMAIN oauth
         /\ oauth'[i] = after /\ \A j \in DOMAIN oauth : j # i => oauth'[j] = oauth[j]
         /\ \A j \in DOMAIN oauth' : oauth'[j].intended \in {0} \cup Ids
    BY <1>6, <1>8, <1>9, FlagStep
  <1>11. /\ callback' \in Seq(CallbackRow) /\ Callbacks' = Callbacks /\ Len(callback') <= MaxCallbacks
         /\ callback'[c] = new /\ \A d \in Callbacks : d # c => callback'[d] = callback[d]
    BY <1>3, <1>4, OneCallback DEF SignInInv
  <1>12. \A d \in Callbacks :
            /\ callback'[d].state = callback[d].state /\ callback[d].state \in DOMAIN oauth
            /\ State(d)'.intended = State(d).intended /\ (State(d).used => State(d)'.used)
    <2>1. ASSUME NEW d \in Callbacks
          PROVE  \E j \in DOMAIN oauth :
                    /\ callback[d].state = j /\ callback'[d].state = j
                    /\ State(d) = oauth[j] /\ State(d)' = oauth'[j]
      <3>1. callback[d].state \in DOMAIN oauth
        BY CallbackTyped DEF SignInInv
      <3>2. callback'[d].state = callback[d].state
        BY <1>1, <1>4, <1>11
      <3> QED
        BY <3>1, <3>2 DEF State
    <2>2. \A j \in DOMAIN oauth :
            oauth'[j].intended = oauth[j].intended /\ (oauth[j].used => oauth'[j].used)
      BY <1>6, <1>9, <1>10
    <2> QED
      BY <2>1, <2>2
  <1>13. SignInTypeOK'
    <2>1. ASSUME NEW d \in Callbacks'
          PROVE  /\ callback'[d].state \in DOMAIN oauth' /\ callback'[d].user \in {0} \cup Ids
                 /\ callback'[d].pc \in {"exchanged", "resolved", "signed_in"}
                        => callback'[d].account # NoAccount
                 /\ callback'[d].pc = "signed_in" => callback'[d].user # 0
      <3>1. d \in Callbacks /\ callback[d].state \in DOMAIN oauth
            /\ callback'[d].state = callback[d].state
        BY <1>11, <1>12
      <3>2. CASE d = c
        BY <1>1, <1>4, <1>10, <1>11, <3>1, <3>2 DEF SignInInv, SignInTypeOK, Callbacks
      <3>3. CASE d # c
        BY <1>1, <1>10, <1>11, <3>1, <3>3 DEF SignInInv, SignInTypeOK, Callbacks
      <3> QED
        BY <3>2, <3>3
    <2> QED
      BY <1>3, <1>10, <1>11, <2>1 DEF SignInInv, SignInTypeOK, Callbacks, Ids
  <1>14. State(c)'.used
    BY <1>1, <1>4, <1>5, <1>9, <1>10, <1>11 DEF State
  <1>15. CallbacksOK'
    BY <1>3, <1>4, <1>11, <1>12, <1>14 DEF SignInInv, CallbacksOK, Opened
  <1>16. StateOpensOnce'
    <2>1. \A d \in Callbacks : Opened(d) => callback[d].state # callback[c].state
      BY <1>3 DEF SignInInv, CallbacksOK, State
    <2> QED
      BY <1>4, <1>11, <1>12, <2>1 DEF SignInInv, StateOpensOnce, Callbacks, Opened
  <1>17. LinkKeepsUser'
    BY <1>4, <1>11, <1>12 DEF SignInInv, LinkKeepsUser, Callbacks
  <1>18. ColumnsOK'
    BY <1>3 DEF SignInInv, ColumnsOK, Ids
  <1> QED
    BY <1>13, <1>15, <1>16, <1>17, <1>18 DEF SignInInv

(* What a login writes: one user's row, and perhaps one identity.          *)
LEMMA LoginWrites ==
  ASSUME SignInInv, NEW c \in Callbacks, Login(c)
  PROVE  \E a \in Accounts, u \in Nat \ {0} :
            /\ a = callback[c].account /\ u \in Ids' /\ Ids \subseteq Ids' /\ Ids' \subseteq Ids \cup {u}
            /\ users' \in Seq(UserRow) /\ owner' \in [Accounts -> {0} \cup Ids']
            /\ \A v \in Ids : v # u => users'[v] = users[v]
            /\ a \in GithubAccounts => users'[u].github = a
            /\ a \notin GithubAccounts =>
                users'[u].github = IF u \in Ids THEN users[u].github ELSE NoAccount
            /\ \A b \in Accounts : b # a => owner'[b] = owner[b]
            /\ owner'[a] = u /\ owner[a] \in {0, u}
            /\ \A v \in Ids \ {u} : users[v].github # a
            /\ callback[c].user # 0 => u = callback[c].user
            /\ callback' = [callback EXCEPT ![c].pc = "signed_in", ![c].user = u]
  <1>1. PICK old \in CallbackRow : old = callback[c]
    BY CallbackTyped DEF SignInInv
  <1>2. /\ old.pc = "resolved" /\ SubjectFree(c) /\ GithubFree(c) /\ pkce' = 0 /\ oauth' = oauth
        /\ users \in Seq(UserRow) /\ owner \in [Accounts -> {0} \cup Ids] /\ Len(users) \in Nat
        /\ Ids = 1 .. Len(users)
    BY <1>1 DEF Login, SignInInv, SignInTypeOK, Ids
  <1>3. PICK a \in Accounts : a = old.account
    BY <1>1, <1>2, CallbackTyped DEF SignInInv, SignInTypeOK, Callbacks
  <1>4. old.user \in {0} \cup Ids /\ old.listed \subseteq Installations /\ old.insert \in BOOLEAN
    BY <1>1, CallbackTyped DEF SignInInv
  <1>5. PICK u : u = IF old.user = 0 THEN Len(users) + 1 ELSE old.user
    OBVIOUS
  <1>6. u \in Nat \ {0} /\ (u \in Ids <=> old.user # 0) /\ (u \notin Ids => u = Len(users) + 1)
    BY <1>2, <1>4, <1>5
  <1>7. PICK row0 \in UserRow : row0 = IF old.user = 0 THEN [github |-> NoAccount, member |-> {}] ELSE users[u]
    <2>1. [github |-> NoAccount, member |-> {}] \in UserRow
      BY DEF UserRow
    <2>2. old.user # 0 => users[u] \in UserRow
      BY <1>2, <1>6
    <2> QED
      BY <2>1, <2>2
  <1>8. PICK row1 \in UserRow :
            /\ row1 = UserWritten(c, row0)
            /\ a \in GithubAccounts => row1.github = a
            /\ a \notin GithubAccounts => row1.github = row0.github
    <2>1. CASE a \in GithubAccounts
      <3>1. PICK entry : entry = [github |-> a, member |-> old.listed]
        OBVIOUS
      <3>2. entry \in UserRow /\ entry.github = a
        BY <1>4, <2>1, <3>1 DEF UserRow
      <3>3. UserWritten(c, row0) = entry
        BY <1>1, <1>3, <2>1, <3>1 DEF UserWritten
      <3> QED
        BY <2>1, <3>2, <3>3
    <2>2. CASE a \notin GithubAccounts
      BY <1>1, <1>3, <2>2 DEF UserWritten
    <2> QED
      BY <2>1, <2>2
  <1>9. users' = IF old.user = 0 THEN Append(users, row1) ELSE [users EXCEPT ![u] = row1]
    BY <1>1, <1>5, <1>7, <1>8 DEF Login
  <1>10. /\ users' \in Seq(UserRow) /\ users'[u] = row1 /\ \A v \in Ids : v # u => users'[v] = users[v]
         /\ u \in Ids' /\ Ids \subseteq Ids' /\ Ids' \subseteq Ids \cup {u}
    <2>1. CASE old.user = 0
      BY <1>2, <1>5, <1>9, <2>1 DEF Ids
    <2>2. CASE old.user # 0
      BY <1>2, <1>6, <1>9, <2>2 DEF Ids
    <2> QED
      BY <2>1, <2>2
  <1>11. owner' = IF old.insert THEN [owner EXCEPT ![a] = u] ELSE owner
    BY <1>1, <1>3, <1>5 DEF Login
  <1>12. owner' \in [Accounts -> {0} \cup Ids'] /\ \A b \in Accounts : b # a => owner'[b] = owner[b]
    BY <1>2, <1>10, <1>11
  <1>13. owner'[a] = u /\ owner[a] \in {0, u}
    <2>1. CASE old.insert
      BY <1>1, <1>2, <1>3, <1>11, <2>1 DEF SubjectFree
    <2>2. CASE ~old.insert
      BY <1>1, <1>2, <1>3, <1>5, <1>11, <2>2 DEF SignInInv, CallbacksOK
    <2> QED
      BY <1>4, <2>1, <2>2
  <1>14. \A v \in Ids \ {u} : users[v].github # a
    <2>1. \A v \in Ids \ {old.user} : users[v].github # a
      BY <1>1, <1>2, <1>3 DEF GithubFree
    <2> QED
      BY <1>2, <1>5, <2>1
  <1>15. users'[u].github = IF a \in GithubAccounts THEN a
                            ELSE IF u \in Ids THEN users[u].github ELSE NoAccount
    BY <1>6, <1>7, <1>8, <1>10
  <1>16. callback' = [callback EXCEPT ![c].pc = "signed_in", ![c].user = u]
    BY <1>1, <1>5 DEF Login
  <1> QED
    BY <1>1, <1>3, <1>5, <1>6, <1>10, <1>12, <1>13, <1>14, <1>15, <1>16

LEMMA LoginStep == ASSUME SignInInv, NEW c \in Callbacks, Login(c) PROVE SignInInv'
  <1>1. PICK a \in Accounts, u \in Nat \ {0} :
            /\ a = callback[c].account /\ u \in Ids' /\ Ids \subseteq Ids' /\ Ids' \subseteq Ids \cup {u}
            /\ users' \in Seq(UserRow) /\ owner' \in [Accounts -> {0} \cup Ids']
            /\ \A v \in Ids : v # u => users'[v] = users[v]
            /\ a \in GithubAccounts => users'[u].github = a
            /\ a \notin GithubAccounts =>
                users'[u].github = IF u \in Ids THEN users[u].github ELSE NoAccount
            /\ \A b \in Accounts : b # a => owner'[b] = owner[b]
            /\ owner'[a] = u /\ owner[a] \in {0, u}
            /\ \A v \in Ids \ {u} : users[v].github # a
            /\ callback[c].user # 0 => u = callback[c].user
            /\ callback' = [callback EXCEPT ![c].pc = "signed_in", ![c].user = u]
    BY LoginWrites
  <1>2. PICK old \in CallbackRow : old = callback[c]
    BY CallbackTyped DEF SignInInv
  <1>3. PICK new : new = [old EXCEPT !.pc = "signed_in", !.user = u]
    OBVIOUS
  <1>4. callback' = [callback EXCEPT ![c] = new] /\ oauth' = oauth /\ pkce' = 0 /\ old.pc = "resolved"
    BY <1>1, <1>2, <1>3 DEF Login, SignInInv, SignInTypeOK, Callbacks
  <1>5. /\ new \in CallbackRow /\ new.pc = "signed_in" /\ new.state = old.state /\ new.user = u
        /\ new.account = a
    BY <1>1, <1>2, <1>3 DEF CallbackRow
  <1>6. /\ callback' \in Seq(CallbackRow) /\ Callbacks' = Callbacks /\ Len(callback') <= MaxCallbacks
        /\ callback'[c] = new /\ \A d \in Callbacks : d # c => callback'[d] = callback[d]
    BY <1>4, <1>5, OneCallback DEF SignInInv
  <1>7. \A d \in Callbacks : callback'[d].state = callback[d].state /\ State(d)' = State(d)
    BY <1>2, <1>4, <1>5, <1>6 DEF State
  <1>8. a # NoAccount /\ (a \in GoogleAccounts <=> a \notin GithubAccounts)
    BY NoAccountIsNone, ProvidersDisjoint DEF Accounts
  <1>9. SignInTypeOK'
    <2>1. ASSUME NEW d \in Callbacks'
          PROVE  /\ callback'[d].state \in DOMAIN oauth /\ callback'[d].user \in {0} \cup Ids'
                 /\ callback'[d].pc \in {"exchanged", "resolved", "signed_in"}
                        => callback'[d].account # NoAccount
                 /\ callback'[d].pc = "signed_in" => callback'[d].user # 0
      BY <1>1, <1>2, <1>5, <1>6, <1>8, CallbackTyped DEF SignInInv, SignInTypeOK, Callbacks
    <2>2. \A i \in DOMAIN oauth : oauth[i].intended \in {0} \cup Ids'
      BY <1>1 DEF SignInInv, SignInTypeOK
    <2> QED
      BY <1>1, <1>4, <1>6, <2>1, <2>2 DEF SignInInv, SignInTypeOK, Callbacks
  <1>10. CallbacksOK'
    <2>1. ASSUME NEW d \in Callbacks, callback'[d].pc = "resolved", ~callback'[d].insert
          PROVE  callback'[d].user # 0 /\ owner'[callback'[d].account] = callback'[d].user
      <3>1. callback'[d] = callback[d] /\ callback[d].pc = "resolved"
        BY <1>5, <1>6, <2>1
      <3>2. /\ callback[d].user # 0 /\ owner[callback[d].account] = callback[d].user
            /\ callback[d].account \in Accounts
        BY <2>1, <3>1, CallbackTyped DEF SignInInv, CallbacksOK, SignInTypeOK, Callbacks
      <3>3. CASE callback[d].account = a
        BY <1>1, <3>1, <3>2, <3>3
      <3>4. CASE callback[d].account # a
        BY <1>1, <3>1, <3>2, <3>4
      <3> QED
        BY <3>3, <3>4
    <2>2. ASSUME NEW d \in Callbacks, Opened(d)' PROVE State(d)'.used
      BY <1>2, <1>4, <1>5, <1>6, <1>7, <2>2 DEF SignInInv, CallbacksOK, Opened
    <2>3. ASSUME NEW d \in Callbacks, callback'[d].pc = "resolved", State(d)'.intended # 0
          PROVE  callback'[d].user = State(d)'.intended
      BY <1>5, <1>6, <1>7, <2>3 DEF SignInInv, CallbacksOK
    <2> QED
      BY <1>6, <2>1, <2>2, <2>3 DEF CallbacksOK
  <1>11. StateOpensOnce'
    BY <1>2, <1>4, <1>5, <1>6, <1>7 DEF SignInInv, StateOpensOnce, Callbacks
  <1>12. LinkKeepsUser'
    <2>1. State(c).intended # 0 => u = State(c).intended
      BY <1>1, <1>2, <1>4 DEF SignInInv, CallbacksOK
    <2> QED
      BY <1>5, <1>6, <1>7, <2>1 DEF SignInInv, LinkKeepsUser, Callbacks
  <1>13. ColumnsOK'
    <2>1. \A v \in Ids : users[v].github \in GithubAccounts \cup {NoAccount}
      <3>1. \A v \in Ids : users[v] \in UserRow
        BY DEF SignInInv, SignInTypeOK, Ids
      <3> QED
        BY <3>1 DEF UserRow
    <2>2. ASSUME NEW v \in Ids', NEW w \in Ids', users'[v].github # NoAccount,
                 users'[v].github = users'[w].github
          PROVE  v = w
      <3>1. CASE v # u /\ w # u
        BY <1>1, <2>2, <3>1 DEF SignInInv, ColumnsOK
      <3>2. CASE a \in GithubAccounts /\ (v = u \/ w = u)
        BY <1>1, <2>2, <3>2
      <3>3. CASE a \notin GithubAccounts /\ (v = u \/ w = u)
        BY <1>1, <2>2, <3>3 DEF SignInInv, ColumnsOK
      <3> QED
        BY <3>1, <3>2, <3>3
    <2>3. ASSUME NEW v \in Ids', users'[v].github # NoAccount
          PROVE  owner'[users'[v].github] \in {0, v}
      <3>1. CASE v = u /\ a \in GithubAccounts
        BY <1>1, <3>1
      <3>2. CASE v = u /\ a \notin GithubAccounts
        <4>1. u \in Ids /\ users'[u].github = users[u].github /\ users[u].github \in GithubAccounts
          BY <1>1, <2>1, <2>3, <3>2
        <4>2. users[u].github \in Accounts /\ users[u].github # a
          BY <3>2, <4>1 DEF Accounts
        <4> QED
          BY <1>1, <2>3, <3>2, <4>1, <4>2 DEF SignInInv, ColumnsOK
      <3>3. CASE v # u
        <4>1. v \in Ids /\ users'[v].github = users[v].github /\ users[v].github # a
              /\ users[v].github \in Accounts
          BY <1>1, <2>1, <2>3, <3>3 DEF Accounts
        <4> QED
          BY <1>1, <2>3, <4>1 DEF SignInInv, ColumnsOK
      <3> QED
        BY <3>1, <3>2, <3>3
    <2> QED
      BY <2>2, <2>3 DEF ColumnsOK
  <1> QED
    BY <1>9, <1>10, <1>11, <1>12, <1>13 DEF SignInInv

LEMMA SignInInductive == SignInInv /\ [SignInNext]_accounts => SignInInv'
  <1> SUFFICES ASSUME SignInInv, [SignInNext]_accounts PROVE SignInInv'
    OBVIOUS
  <1>1. ASSUME NEW p \in {"github", "google"}, NEW u \in {0} \cup Ids, StartOAuth(p, u) PROVE SignInInv'
    BY <1>1, StartStep
  <1>2. ASSUME NEW i \in DOMAIN oauth, ExpireState(i) \/ ReceiveCallback(i) PROVE SignInInv'
    BY <1>2, ExpireStateStep, ReceiveStep
  <1>3. ASSUME NEW c \in Callbacks, HandleCallback(c) PROVE SignInInv'
    <2>1. CASE StateInvalid(c) \/ ProviderFails(c) \/ ResolveFails(c) \/ LoginConflicts(c)
      BY <2>1, RefuseStep DEF StateInvalid, ProviderFails, ResolveFails, LoginConflicts
    <2> QED
      BY <1>3, <2>1, ConsumeStep, ExchangeStep, ResolveSteps, LoginStep DEF HandleCallback
  <1>4. CASE UNCHANGED accounts
    <2>1. oauth' = oauth /\ pkce' = pkce /\ users' = users /\ owner' = owner /\ callback' = callback
      BY <1>4 DEF accounts
    <2>2. SignInTypeOK' /\ ColumnsOK'
      BY <2>1 DEF SignInInv, SignInTypeOK, ColumnsOK, Ids
    <2>3. CallbacksOK' /\ StateOpensOnce' /\ LinkKeepsUser'
      BY <2>1 DEF SignInInv, CallbacksOK, StateOpensOnce, LinkKeepsUser, Callbacks, Opened, State
    <2> QED
      BY <2>2, <2>3 DEF SignInInv
  <1> QED
    BY <1>1, <1>2, <1>3, <1>4 DEF SignInNext, Callbacks

LEMMA SignInInvariant == SignInSpec => []SignInInv
  BY InitSignIn, SignInInductive, PTL DEF SignInSpec

(* However callbacks, links and retries interleave, what they keep refers  *)
(* to states, users and accounts that exist (auth.py).                     *)
THEOREM SignInTyped == SignInSpec => []SignInTypeOK
  BY SignInInvariant, PTL DEF SignInInv

(* An OAuth state opens one login (_consume_oauth_state).                  *)
THEOREM OneLoginPerState == SignInSpec => []StateOpensOnce
  <1>1. SignInInv => StateOpensOnce
    BY DEF SignInInv
  <1> QED
    BY <1>1, SignInInvariant, PTL

(* A link ends in the session of the user who began it, or in none         *)
(* (_resolve_identity, the constraints, and the rows read before them).    *)
THEOREM LinksKeepUsers == SignInSpec => []LinkKeepsUser
  <1>1. SignInInv => LinkKeepsUser
    BY DEF SignInInv
  <1> QED
    BY <1>1, SignInInvariant, PTL

(* The identity of a GitHub account and the column of users agree, with    *)
(* whatever callbacks have read before others commit.                      *)
THEOREM ColumnsAgree == SignInSpec => []GithubColumnAgrees
  <1>1. SignInInv => GithubColumnAgrees
    BY DEF SignInInv, ColumnsOK, GithubColumnAgrees, LegacyUser
  <1> QED
    BY <1>1, SignInInvariant, PTL

(* An identity is attached once: a login writes it against what others     *)
(* have committed (uq_auth_identities_subject).                            *)
THEOREM IdentitiesAttachedOnce == SignInSpec => IdentitiesStay
  <1> DEFINE Step == \A a \in Accounts : owner[a] # 0 => owner'[a] = owner[a]
  <1>1. SignInInv /\ [SignInNext]_accounts => [Step]_accounts
    <2> SUFFICES ASSUME SignInInv, SignInNext PROVE Step
      OBVIOUS
    <2>1. ASSUME NEW c \in Callbacks, Login(c) PROVE Step
      BY <2>1, LoginWrites
    <2>2. CASE owner' = owner
      BY <2>2
    <2>3. owner' = owner \/ \E c \in Callbacks : Login(c)
      BY DEF SignInNext, StartOAuth, ExpireState, ReceiveCallback, HandleCallback, ConsumeState,
             StateInvalid, Exchange, ProviderFails, ResolveKnown, ResolveUnknown, ResolveFails,
             LoginConflicts, Refuse, Callbacks
    <2> QED
      BY <2>1, <2>2, <2>3
  <1>2. []SignInInv /\ [][SignInNext]_accounts => [][Step]_accounts
    BY <1>1, PTL
  <1> QED
    BY <1>2, SignInInvariant DEF SignInSpec, IdentitiesStay

-----------------------------------------------------------------------------
(* Webhooks.                                                               *)
ReadingRow == [active : BOOLEAN, repo : RepoRow, known : Nat]

EventsTyped ==
    /\ remote \in [branch : Branches, head : Nat]
    /\ event \in Seq(EventRow)
    /\ delivery \in [Events -> DeliveryRow] /\ reading \in [Events -> ReadingRow]
    /\ repo \in RepoRow /\ jobs \in Seq(JobRow) /\ posting \subseteq Events

(* A delivery that has done something is recorded.                         *)
DeliveriesOK ==
    /\ \A e \in Events : delivery[e].job \in {0} \cup JobIds
    /\ \A e \in Events : delivery[e].job # 0 => delivery[e].status # "absent"
    /\ \A e \in posting : delivery[e].status # "absent"
    /\ \A j \in JobIds : jobs[j].by \in Events /\ delivery[jobs[j].by].status # "absent"

(* What a handler has read of the row is the row, until a job is created.  *)
ReadingOK ==
    \A e \in Events : reading[e].active =>
        /\ delivery[e].status = "absent" /\ event[e].kind = "edited"
        /\ reading[e].known <= Len(jobs)
        /\ reading[e].known = Len(jobs) => reading[e].repo.generation = repo.generation

Raced(l) == event[jobs[l].by].kind = "edited" /\ jobs[l].known < l - 1

(* Generations grow from job to job, but for those that have raced.        *)
GenerationsOK ==
    /\ \A j \in JobIds :
        jobs[j].generation <= repo.generation \/ \E l \in JobIds : j < l /\ Raced(l)
    /\ \A j, k \in JobIds :
        j < k => jobs[j].generation < jobs[k].generation \/ \E l \in (j + 1) .. k : Raced(l)

WebhooksInv ==
    /\ EventsTyped /\ DeliveriesOK /\ ReadingOK /\ GenerationsOK
    /\ EventsApplyOnce /\ OpenJobsReported

LEMMA InitWebhooks == WebhooksInit => WebhooksInv
  <1> SUFFICES ASSUME WebhooksInit PROVE WebhooksInv
    OBVIOUS
  <1>1. /\ event = <<>> /\ delivery = <<>> /\ reading = <<>> /\ jobs = <<>> /\ posting = {}
        /\ Events = {} /\ JobIds = {}
    BY DEF WebhooksInit, Events, JobIds
  <1>2. repo \in RepoRow /\ remote \in [branch : Branches, head : Nat]
    BY DEF WebhooksInit, RepoRow, NewRepository, Branches
  <1>3. delivery \in [Events -> DeliveryRow] /\ reading \in [Events -> ReadingRow]
    BY <1>1
  <1>4. EventsTyped
    BY <1>1, <1>2, <1>3 DEF EventsTyped
  <1> QED
    BY <1>1, <1>4 DEF WebhooksInv, DeliveriesOK, ReadingOK, GenerationsOK, EventsApplyOnce, OpenJobsReported

-----------------------------------------------------------------------------
(* One delivery goes on, and no job is created or ended.                   *)
LEMMA DeliveryMoves ==
  ASSUME WebhooksInv, NEW e \in Events, NEW d \in DeliveryRow, NEW x \in ReadingRow,
         delivery' = [delivery EXCEPT ![e] = d], reading' = [reading EXCEPT ![e] = x],
         UNCHANGED <<remote, event, jobs>>, posting' \subseteq posting,
         repo' \in RepoRow, repo'.generation = repo.generation,
         d.job \in {0} \cup JobIds, d.job # 0 => d.status # "absent",
         delivery[e].status # "absent" => d.status # "absent",
         d.job # 0 /\ jobs[d.job].open => d.status \in {"queued", "retryable"},
         x.active =>
            /\ d.status = "absent" /\ event[e].kind = "edited" /\ x.known <= Len(jobs)
            /\ x.known = Len(jobs) => x.repo.generation = repo.generation
  PROVE  WebhooksInv'
  <1>1. /\ Events' = Events /\ JobIds' = JobIds /\ \A l : Raced(l)' = Raced(l)
        /\ delivery' \in [Events -> DeliveryRow] /\ reading' \in [Events -> ReadingRow]
        /\ delivery'[e] = d /\ reading'[e] = x
        /\ \A f \in Events : f # e => delivery'[f] = delivery[f] /\ reading'[f] = reading[f]
    BY DEF WebhooksInv, EventsTyped, Events, JobIds, Raced
  <1>2. EventsTyped'
    BY <1>1 DEF WebhooksInv, EventsTyped
  <1>3. \A f \in Events : delivery[f].status # "absent" => delivery'[f].status # "absent"
    BY <1>1
  <1>4. DeliveriesOK'
    BY <1>1, <1>3 DEF WebhooksInv, DeliveriesOK, EventsTyped
  <1>5. ReadingOK'
    BY <1>1 DEF WebhooksInv, ReadingOK
  <1>6. GenerationsOK'
    BY <1>1 DEF WebhooksInv, GenerationsOK
  <1>7. EventsApplyOnce' /\ OpenJobsReported'
    BY <1>1 DEF WebhooksInv, EventsApplyOnce, OpenJobsReported
  <1> QED
    BY <1>2, <1>4, <1>5, <1>6, <1>7 DEF WebhooksInv

LEMMA DeliveryTyped ==
  ASSUME WebhooksInv, NEW e \in Events
  PROVE  /\ delivery[e] \in DeliveryRow /\ reading[e] \in ReadingRow /\ event[e] \in EventRow
         /\ delivery = [delivery EXCEPT ![e] = delivery[e]]
         /\ reading = [reading EXCEPT ![e] = reading[e]]
         /\ Len(jobs) \in Nat /\ JobIds = 1 .. Len(jobs) /\ Len(event) \in Nat /\ Events = 1 .. Len(event)
  BY DEF WebhooksInv, EventsTyped, Events, JobIds

(* A delivery that stays as it is keeps what DeliveryMoves asks of it.     *)
LEMMA DeliveryStays ==
  ASSUME WebhooksInv, NEW e \in Events
  PROVE  /\ delivery[e].job \in {0} \cup JobIds /\ (delivery[e].job # 0 => delivery[e].status # "absent")
         /\ (delivery[e].job # 0 /\ jobs[delivery[e].job].open
                => delivery[e].status \in {"queued", "retryable"})
         /\ (reading[e].active =>
                /\ delivery[e].status = "absent" /\ event[e].kind = "edited"
                /\ reading[e].known <= Len(jobs)
                /\ reading[e].known = Len(jobs) => reading[e].repo.generation = repo.generation)
  BY DEF WebhooksInv, DeliveriesOK, ReadingOK, OpenJobsReported

(* A delivery recorded without a job.                                      *)
LEMMA RecordedStep ==
  ASSUME WebhooksInv, NEW e \in Events, NEW s \in {"ignored", "unauthorized", "stale", "processed"},
         Recorded(e, s, 0), reading' = reading, ~reading[e].active, UNCHANGED <<remote, event, jobs, posting>>,
         repo' \in RepoRow, repo'.generation = repo.generation
  PROVE  WebhooksInv'
  <1>1. PICK d : d = [status |-> s, job |-> 0]
    OBVIOUS
  <1>2. d \in DeliveryRow /\ d.job = 0 /\ d.status = s /\ s # "absent"
    BY <1>1 DEF DeliveryRow, Statuses
  <1>3. delivery' = [delivery EXCEPT ![e] = d]
    BY <1>1 DEF Recorded
  <1>4. reading' = [reading EXCEPT ![e] = reading[e]] /\ reading[e] \in ReadingRow
    BY DeliveryTyped
  <1> QED
    BY <1>2, <1>3, <1>4, DeliveryMoves

LEMMA RowWrites ==
  ASSUME WebhooksInv
  PROVE  /\ [repo EXCEPT !.revoked = TRUE] \in RepoRow
         /\ [repo EXCEPT !.revoked = TRUE].generation = repo.generation
         /\ [repo EXCEPT !.revoked = TRUE, !.deleted = TRUE] \in RepoRow
         /\ [repo EXCEPT !.revoked = TRUE, !.deleted = TRUE].generation = repo.generation
         /\ [repo EXCEPT !.revoked = FALSE, !.deleted = FALSE] \in RepoRow
         /\ [repo EXCEPT !.revoked = FALSE, !.deleted = FALSE].generation = repo.generation
         /\ repo \in RepoRow
  BY DEF WebhooksInv, EventsTyped, RepoRow

LEMMA DuplicateStep ==
  ASSUME WebhooksInv, NEW e \in Events, Duplicate(e)
  PROVE  WebhooksInv'
  <1>1. UNCHANGED <<remote, event, delivery, reading, repo, jobs, posting>>
    BY DEF Duplicate
  <1>2. delivery' = [delivery EXCEPT ![e] = delivery[e]] /\ reading' = [reading EXCEPT ![e] = reading[e]]
        /\ delivery[e] \in DeliveryRow /\ reading[e] \in ReadingRow
    BY <1>1, DeliveryTyped
  <1>3. PICK d \in DeliveryRow, x \in ReadingRow : d = delivery[e] /\ x = reading[e]
    BY <1>2
  <1>4. /\ d.job \in {0} \cup JobIds /\ (d.job # 0 => d.status # "absent")
        /\ (d.job # 0 /\ jobs[d.job].open => d.status \in {"queued", "retryable"})
        /\ (x.active =>
               /\ d.status = "absent" /\ event[e].kind = "edited" /\ x.known <= Len(jobs)
               /\ x.known = Len(jobs) => x.repo.generation = repo.generation)
    BY <1>3, DeliveryStays
  <1>5. repo' \in RepoRow /\ repo'.generation = repo.generation
    BY <1>1, RowWrites
  <1> QED
    BY <1>1, <1>2, <1>3, <1>4, <1>5, DeliveryMoves

LEMMA NoticeSteps ==
  ASSUME WebhooksInv, NEW e \in Events,
         Unsupported(e) \/ ApplyInstallation(e) \/ ApplyRepositoryAccess(e) \/ RepositoryDeleted(e)
  PROVE  WebhooksInv'
  <1>1. CASE Unsupported(e)
    BY <1>1, RowWrites, RecordedStep DEF Unsupported, Arrives
  <1>2. CASE ApplyInstallation(e)
    BY <1>2, RowWrites, RecordedStep DEF ApplyInstallation, Arrives
  <1>3. CASE ApplyRepositoryAccess(e)
    BY <1>3, RowWrites, RecordedStep DEF ApplyRepositoryAccess, Arrives
  <1>4. CASE RepositoryDeleted(e)
    BY <1>4, RowWrites, RecordedStep DEF RepositoryDeleted, Arrives
  <1> QED
    BY <1>1, <1>2, <1>3, <1>4

LEMMA PushIgnoredStep ==
  ASSUME WebhooksInv, NEW e \in Events, PushIgnored(e)
  PROVE  WebhooksInv'
  <1>1. PICK d : d = PushOutcome(e)
    OBVIOUS
  <1>2. d.status # "absent" /\ delivery' = [delivery EXCEPT ![e] = d] /\ ~reading[e].active
        /\ UNCHANGED <<remote, event, reading, repo, jobs, posting>>
    BY <1>1 DEF PushIgnored, Arrives
  <1>4. d \in DeliveryRow /\ d.job \in {0} \cup JobIds /\ (d.job # 0 => d.status = "queued")
    <2>1. CASE d \in {[status |-> s, job |-> 0] : s \in {"unauthorized", "ignored", "stale"}}
      BY <2>1 DEF DeliveryRow, Statuses
    <2>2. CASE SameTarget(e) # {} /\ d = [status |-> "queued", job |-> CHOOSE j \in SameTarget(e) : TRUE]
      <3>1. PICK j \in SameTarget(e) : d = [status |-> "queued", job |-> j]
        BY <2>2
      <3>2. d.job = j /\ j \in JobIds /\ j \in Nat /\ d.status = "queued" /\ d \in DeliveryRow
        BY <3>1, DeliveryTyped DEF DeliveryRow, Statuses, SameTarget
      <3> QED
        BY <3>2
    <2> QED
      BY <1>1, <1>2, <2>1, <2>2 DEF PushOutcome
  <1>5. reading' = [reading EXCEPT ![e] = reading[e]] /\ reading[e] \in ReadingRow
    BY <1>2, DeliveryTyped
  <1> QED
    BY <1>2, <1>4, <1>5, RowWrites, DeliveryMoves

LEMMA ReadRepositoryStep ==
  ASSUME WebhooksInv, NEW e \in Events, ReadRepository(e)
  PROVE  WebhooksInv'
  <1>1. event[e].kind = "edited" /\ ~reading[e].active /\ delivery[e].status = "absent"
        /\ UNCHANGED <<remote, event, repo, jobs, posting>>
    BY DEF ReadRepository, Arrives, IsNew
  <1>2. CASE Authorized
    <2>1. PICK x : x = [active |-> TRUE, repo |-> repo, known |-> Len(jobs)]
      OBVIOUS
    <2>2. x \in ReadingRow /\ x.repo = repo /\ x.known = Len(jobs)
      BY <2>1, RowWrites, DeliveryTyped DEF ReadingRow
    <2>3. reading' = [reading EXCEPT ![e] = x] /\ delivery' = [delivery EXCEPT ![e] = delivery[e]]
          /\ delivery[e] \in DeliveryRow
      BY <1>2, <2>1, DeliveryTyped DEF ReadRepository
    <2>4. Len(jobs) <= Len(jobs) /\ posting' \subseteq posting
      BY <1>1, DeliveryTyped
    <2> QED
      BY <1>1, <2>2, <2>3, <2>4, DeliveryStays, RowWrites, DeliveryMoves
  <1>3. CASE ~Authorized
    BY <1>1, <1>3, RowWrites, RecordedStep DEF ReadRepository
  <1> QED
    BY <1>2, <1>3

LEMMA NotReadingTyped == NotReading \in ReadingRow /\ ~NotReading.active
  BY DEF NotReading, ReadingRow, NewRepository, RepoRow, Branches

LEMMA HandlerDiesStep ==
  ASSUME WebhooksInv, NEW e \in Events, HandlerDies(e)
  PROVE  WebhooksInv'
  <1>1. UNCHANGED <<remote, event, delivery, repo, jobs, posting>>
        /\ reading' = [reading EXCEPT ![e] = NotReading]
    BY DEF HandlerDies
  <1>2. delivery' = [delivery EXCEPT ![e] = delivery[e]] /\ delivery[e] \in DeliveryRow
    BY <1>1, DeliveryTyped
  <1> QED
    BY <1>1, <1>2, NotReadingTyped, DeliveryStays, RowWrites, DeliveryMoves

LEMMA EnqueueSteps ==
  ASSUME WebhooksInv, NEW e \in Events, Enqueued(e) \/ QueueUnavailable(e)
  PROVE  WebhooksInv'
  <1>1. UNCHANGED <<remote, event, reading, repo, jobs>> /\ posting' \subseteq posting /\ e \in posting
    BY DEF Enqueued, QueueUnavailable
  <1>2. reading' = [reading EXCEPT ![e] = reading[e]] /\ reading[e] \in ReadingRow
        /\ delivery[e].status # "absent"
    BY <1>1, DeliveryTyped DEF WebhooksInv, DeliveriesOK
  <1>3. CASE Enqueued(e)
    <2>1. delivery' = [delivery EXCEPT ![e] = delivery[e]] /\ delivery[e] \in DeliveryRow
      BY <1>3, DeliveryTyped DEF Enqueued
    <2> QED
      BY <1>1, <1>2, <2>1, DeliveryStays, RowWrites, DeliveryMoves
  <1>4. CASE QueueUnavailable(e)
    <2>1. PICK d : d = [delivery[e] EXCEPT !.status = "retryable"]
      OBVIOUS
    <2>2. d \in DeliveryRow /\ d.job = delivery[e].job /\ d.status = "retryable"
      BY <2>1, DeliveryTyped DEF DeliveryRow, Statuses
    <2>3. delivery' = [delivery EXCEPT ![e] = d]
      BY <1>4, <2>1 DEF QueueUnavailable
    <2> QED
      BY <1>1, <1>2, <2>2, <2>3, DeliveryStays, RowWrites, DeliveryMoves
  <1> QED
    BY <1>3, <1>4

-----------------------------------------------------------------------------
(* GitHub's events, and the jobs that they make.                           *)
LEMMA DeliveryCounts == ASSUME WebhooksInv PROVE Len(event) \in Nat /\ Len(jobs) \in Nat
  BY DEF WebhooksInv, EventsTyped

LEMMA RowAppended ==
  ASSUME NEW S, NEW s \in Seq(S), NEW x \in S
  PROVE  /\ Append(s, x) \in Seq(S) /\ Len(Append(s, x)) = Len(s) + 1
         /\ \A i \in 1 .. Len(s) : Append(s, x)[i] = s[i]
         /\ Append(s, x)[Len(s) + 1] = x
  OBVIOUS

LEMMA RowsOfMapping ==
  ASSUME NEW S, NEW n \in Nat, NEW f, f \in [1 .. n -> S]
  PROVE  f \in Seq(S) /\ Len(f) = n
  OBVIOUS

LEMMA MappingOfRows ==
  ASSUME NEW S, NEW s \in Seq(S)
  PROVE  s \in [1 .. Len(s) -> S]
  OBVIOUS

LEMMA HappensStep ==
  ASSUME WebhooksInv, NEW kind \in EventKinds, Happens(kind)
  PROVE  WebhooksInv'
  <1>0. PICK n \in Nat : n = Len(event)
    BY DeliveryCounts
  <1>1. n \in Nat /\ Events = 1 .. n /\ JobIds' = JobIds /\ UNCHANGED <<repo, jobs, posting>>
        /\ JobIds \subseteq Nat
    BY <1>0 DEF WebhooksInv, EventsTyped, Happens, Events, JobIds
  <1>2. remote' \in [branch : Branches, head : Nat]
    <2>1. PICK b : b = Other(remote.branch)
      OBVIOUS
    <2>2. b \in Branches
      BY <2>1 DEF Other, Branches, WebhooksInv, EventsTyped
    <2>3. remote' = remote \/ remote' = [remote EXCEPT !.head = @ + 1] \/ remote' = [remote EXCEPT !.branch = b]
      BY <2>1 DEF Happens, RemoteAfter
    <2> QED
      BY <2>2, <2>3 DEF WebhooksInv, EventsTyped
  <1>3. PICK v : v = [kind |-> kind, after |-> remote'.head, branch |-> remote'.branch]
    OBVIOUS
  <1>4. v \in EventRow
    BY <1>2, <1>3, EventKindsKnown DEF EventRow
  <1>5. PICK d : d = [status |-> "absent", job |-> 0]
    OBVIOUS
  <1>6. d \in DeliveryRow /\ d.status = "absent" /\ d.job = 0
    BY <1>5 DEF DeliveryRow, Statuses
  <1>7. event' = Append(event, v) /\ delivery' = Append(delivery, d) /\ reading' = Append(reading, NotReading)
    BY <1>3, <1>5 DEF Happens
  <1>8. event' \in Seq(EventRow) /\ Len(event') = n + 1 /\ \A i \in 1 .. n : event'[i] = event[i]
    BY <1>0, <1>4, <1>7, RowAppended DEF WebhooksInv, EventsTyped
  <1>9. Events' = 1 .. n + 1 /\ Events' = Events \cup {n + 1} /\ n + 1 \notin Events
    BY <1>1, <1>8 DEF Events
  <1>10. delivery' \in [Events' -> DeliveryRow] /\ delivery'[n + 1] = d
         /\ \A i \in Events : delivery'[i] = delivery[i]
    <2>1. delivery \in [1 .. n -> DeliveryRow]
      BY <1>1 DEF WebhooksInv, EventsTyped
    <2>2. delivery \in Seq(DeliveryRow) /\ Len(delivery) = n
      BY <1>1, <2>1, RowsOfMapping
    <2>3. /\ delivery' \in Seq(DeliveryRow) /\ Len(delivery') = n + 1 /\ delivery'[n + 1] = d
          /\ \A i \in 1 .. n : delivery'[i] = delivery[i]
      BY <1>6, <1>7, <2>2, NotReadingTyped, RowAppended
    <2>4. delivery' \in [1 .. n + 1 -> DeliveryRow]
      BY <2>3, MappingOfRows
    <2> QED
      BY <1>1, <1>9, <2>3, <2>4
  <1>11. reading' \in [Events' -> ReadingRow] /\ reading'[n + 1] = NotReading
         /\ \A i \in Events : reading'[i] = reading[i]
    <2>1. reading \in [1 .. n -> ReadingRow]
      BY <1>1 DEF WebhooksInv, EventsTyped
    <2>2. reading \in Seq(ReadingRow) /\ Len(reading) = n
      BY <1>1, <2>1, RowsOfMapping
    <2>3. /\ reading' \in Seq(ReadingRow) /\ Len(reading') = n + 1 /\ reading'[n + 1] = NotReading
          /\ \A i \in 1 .. n : reading'[i] = reading[i]
      BY <1>6, <1>7, <2>2, NotReadingTyped, RowAppended
    <2>4. reading' \in [1 .. n + 1 -> ReadingRow]
      BY <2>3, MappingOfRows
    <2> QED
      BY <1>1, <1>9, <2>3, <2>4
  <1>12. EventsTyped'
    BY <1>1, <1>2, <1>8, <1>9, <1>10, <1>11 DEF WebhooksInv, EventsTyped
  <1>13. DeliveriesOK'
    BY <1>1, <1>6, <1>9, <1>10 DEF WebhooksInv, EventsTyped, DeliveriesOK
  <1>14. ReadingOK'
    BY <1>1, <1>8, <1>9, <1>10, <1>11, NotReadingTyped DEF WebhooksInv, ReadingOK
  <1>15. \A l \in JobIds : Raced(l)' = Raced(l)
    BY <1>1, <1>8 DEF WebhooksInv, DeliveriesOK, Raced
  <1>16. GenerationsOK'
    BY <1>1, <1>15 DEF WebhooksInv, GenerationsOK, JobIds
  <1>17. EventsApplyOnce' /\ OpenJobsReported'
    BY <1>1, <1>6, <1>9, <1>10 DEF WebhooksInv, EventsApplyOnce, OpenJobsReported
  <1> QED
    BY <1>12, <1>13, <1>14, <1>16, <1>17 DEF WebhooksInv

(* A job is made for event e, in the generation after the repository's row *)
(* unless it has raced.                                                    *)
LEMMA JobMade ==
  ASSUME WebhooksInv, NEW e \in Events, NEW entry \in JobRow, NEW d \in DeliveryRow, NEW x \in ReadingRow,
         jobs' = Append(jobs, entry), delivery' = [delivery EXCEPT ![e] = d],
         reading' = [reading EXCEPT ![e] = x], ~x.active, delivery[e].status = "absent",
         d = [status |-> "queued", job |-> Len(jobs')], entry.by = e,
         UNCHANGED <<remote, event>>, posting' = posting \cup {e},
         repo' \in RepoRow, repo'.generation = entry.generation,
         \/ repo'.generation = repo.generation + 1
         \/ event[e].kind = "edited" /\ entry.known < Len(jobs)
  PROVE  WebhooksInv'
  <1>0. PICK n \in Nat : n = Len(jobs)
    BY DeliveryCounts
  <1>1. n \in Nat /\ JobIds = 1 .. n /\ Events' = Events /\ Len(event) \in Nat
    BY <1>0 DEF WebhooksInv, EventsTyped, Events, JobIds
  <1>2. jobs' \in Seq(JobRow) /\ Len(jobs') = n + 1 /\ jobs'[n + 1] = entry
        /\ \A i \in JobIds : jobs'[i] = jobs[i]
    BY <1>0, <1>1, RowAppended DEF WebhooksInv, EventsTyped
  <1>3. JobIds' = 1 .. n + 1 /\ JobIds' = JobIds \cup {n + 1} /\ n + 1 \notin JobIds
    BY <1>1, <1>2 DEF JobIds
  <1>4. /\ delivery' \in [Events -> DeliveryRow] /\ reading' \in [Events -> ReadingRow]
        /\ delivery'[e] = d /\ reading'[e] = x
        /\ \A f \in Events : f # e => delivery'[f] = delivery[f] /\ reading'[f] = reading[f]
    BY DEF WebhooksInv, EventsTyped
  <1>5. d.status = "queued" /\ d.job = n + 1
    BY <1>2
  <1>6. EventsTyped'
    BY <1>1, <1>2, <1>4 DEF WebhooksInv, EventsTyped
  <1>7. DeliveriesOK'
    <2>1. \A j \in JobIds' : jobs'[j].by \in Events' /\ delivery'[jobs'[j].by].status # "absent"
      BY <1>1, <1>2, <1>3, <1>4, <1>5 DEF WebhooksInv, DeliveriesOK
    <2>2. \A f \in Events' : delivery'[f].job \in {0} \cup JobIds'
                             /\ (delivery'[f].job # 0 => delivery'[f].status # "absent")
      BY <1>1, <1>3, <1>4, <1>5 DEF WebhooksInv, DeliveriesOK
    <2>3. \A f \in posting' : delivery'[f].status # "absent"
      BY <1>1, <1>4, <1>5 DEF WebhooksInv, EventsTyped, DeliveriesOK
    <2> QED
      BY <2>1, <2>2, <2>3 DEF DeliveriesOK
  <1>8. ReadingOK'
    <2>1. ASSUME NEW f \in Events', reading'[f].active
          PROVE  /\ f \in Events /\ f # e /\ reading[f].active /\ reading'[f] = reading[f]
                 /\ delivery'[f] = delivery[f]
      BY <1>1, <1>4, <2>1
    <2>2. ASSUME NEW f \in Events', reading'[f].active
          PROVE  reading[f].known \in Nat /\ reading[f].known <= n
      BY <1>0, <2>1, <2>2, DeliveryTyped DEF WebhooksInv, ReadingOK, ReadingRow
    <2> QED
      BY <1>1, <1>2, <2>1, <2>2 DEF WebhooksInv, ReadingOK
  <1>9. \A l \in JobIds : Raced(l)' = Raced(l)
    BY <1>2 DEF Raced
  <1>10. repo'.generation = repo.generation + 1 \/ Raced(n + 1)'
    BY <1>0, <1>1, <1>2 DEF Raced
  <1>11. /\ repo.generation \in Nat /\ repo'.generation \in Nat
         /\ \A j \in JobIds : jobs[j].generation \in Nat
    <2>1. repo \in RepoRow /\ \A j \in JobIds : jobs[j] \in JobRow
      BY <1>0, <1>1 DEF WebhooksInv, EventsTyped
    <2> QED
      BY <2>1 DEF RepoRow, JobRow
  <1>12. GenerationsOK'
    <2>1. ASSUME NEW j \in JobIds'
          PROVE  jobs'[j].generation <= repo'.generation \/ \E l \in JobIds' : j < l /\ Raced(l)'
      <3>1. CASE j = n + 1
        BY <1>2, <1>11, <3>1
      <3>2. CASE j # n + 1
        <4>1. j \in JobIds /\ j < n + 1 /\ n + 1 \in JobIds' /\ jobs'[j] = jobs[j]
          BY <1>1, <1>2, <1>3, <2>1, <3>2
        <4>2. CASE Raced(n + 1)'
          BY <4>1, <4>2
        <4>3. CASE jobs[j].generation <= repo.generation /\ repo'.generation = repo.generation + 1
          BY <1>11, <4>1, <4>3
        <4>4. CASE \E l \in JobIds : j < l /\ Raced(l)
          BY <1>3, <1>9, <4>4
        <4> QED
          BY <1>10, <4>1, <4>2, <4>3, <4>4 DEF WebhooksInv, GenerationsOK
      <3> QED
        BY <3>1, <3>2
    <2>2. ASSUME NEW j \in JobIds', NEW k \in JobIds', j < k
          PROVE  jobs'[j].generation < jobs'[k].generation \/ \E l \in (j + 1) .. k : Raced(l)'
      <3>1. j \in JobIds /\ j \in Nat /\ k \in Nat /\ jobs'[j] = jobs[j]
        BY <1>1, <1>2, <1>3, <2>2
      <3>2. CASE k # n + 1
        <4>1. k \in JobIds /\ jobs'[k] = jobs[k] /\ (j + 1) .. k \subseteq JobIds
          BY <1>1, <1>2, <1>3, <2>2, <3>1, <3>2
        <4> QED
          BY <1>9, <2>2, <3>1, <4>1 DEF WebhooksInv, GenerationsOK
      <3>3. CASE k = n + 1
        <4>1. CASE Raced(n + 1)'
          <5>1. n + 1 \in (j + 1) .. k
            BY <1>1, <2>2, <3>1, <3>3
          <5> QED
            BY <4>1, <5>1, Zenon
        <4>2. CASE jobs[j].generation <= repo.generation /\ repo'.generation = repo.generation + 1
          <5>1. jobs'[k].generation = repo'.generation
            BY <1>2, <3>3
          <5> QED
            BY <1>11, <3>1, <4>2, <5>1
        <4>3. CASE \E l \in JobIds : j < l /\ Raced(l)
          <5>1. PICK l \in JobIds : j < l /\ Raced(l)
            BY <4>3
          <5>2. l \in (j + 1) .. k /\ Raced(l)'
            BY <1>1, <1>9, <3>1, <3>3, <5>1
          <5> QED
            BY <5>2
        <4> QED
          BY <1>10, <3>1, <4>1, <4>2, <4>3 DEF WebhooksInv, GenerationsOK
      <3> QED
        BY <3>2, <3>3
    <2> QED
      BY <2>1, <2>2 DEF GenerationsOK
  <1>13. EventsApplyOnce'
    BY <1>1, <1>2, <1>3, <1>4 DEF WebhooksInv, EventsApplyOnce, DeliveriesOK
  <1>14. OpenJobsReported'
    BY <1>1, <1>2, <1>3, <1>4, <1>5 DEF WebhooksInv, OpenJobsReported, DeliveriesOK
  <1> QED
    BY <1>6, <1>7, <1>8, <1>12, <1>13, <1>14 DEF WebhooksInv

LEMMA PushQueuedStep ==
  ASSUME WebhooksInv, NEW e \in Events, PushQueued(e)
  PROVE  WebhooksInv'
  <1>1. PICK g : g = NextGeneration(repo)
    OBVIOUS
  <1>2. g \in Nat /\ g = repo.generation + 1
    BY <1>1, RowWrites DEF NextGeneration, RepoRow
  <1>3. PICK entry : entry = WebhookJob(e, event[e].after, repo.branch, g, Len(jobs))
    OBVIOUS
  <1>4. entry \in JobRow /\ entry.by = e /\ entry.generation = g
    BY <1>2, <1>3, RowWrites, DeliveryTyped DEF WebhookJob, JobRow, EventRow, RepoRow, Events
  <1>5. PICK r : r = [repo EXCEPT !.generation = g]
    OBVIOUS
  <1>6. r \in RepoRow /\ r.generation = g
    BY <1>2, <1>5, RowWrites DEF RepoRow
  <1>7. /\ jobs' = Append(jobs, entry) /\ repo' = r /\ posting' = posting \cup {e}
        /\ UNCHANGED <<remote, event, reading>> /\ ~reading[e].active
        /\ delivery[e].status = "absent"
    BY <1>1, <1>3, <1>5 DEF PushQueued, Arrives, IsNew
  <1>8. PICK d : d = [status |-> "queued", job |-> Len(jobs')]
    OBVIOUS
  <1>9. Len(jobs') \in Nat
    BY <1>4, <1>7, DeliveryCounts, RowAppended DEF WebhooksInv, EventsTyped
  <1>10. d \in DeliveryRow /\ delivery' = [delivery EXCEPT ![e] = d]
    BY <1>8, <1>9 DEF PushQueued, Recorded, DeliveryRow, Statuses
  <1>11. reading' = [reading EXCEPT ![e] = reading[e]] /\ reading[e] \in ReadingRow
    BY <1>7, DeliveryTyped
  <1> QED
    BY <1>2, <1>4, <1>6, <1>7, <1>8, <1>10, <1>11, JobMade

LEMMA CommitMetadataStep ==
  ASSUME WebhooksInv, NEW e \in Events, CommitMetadata(e)
  PROVE  WebhooksInv'
  <1>1. PICK read : read = reading[e].repo
    OBVIOUS
  <1>2. /\ reading[e].active /\ reading' = [reading EXCEPT ![e] = NotReading]
        /\ UNCHANGED <<remote, event>>
    BY DEF CommitMetadata
  <1>3. /\ delivery[e].status = "absent" /\ event[e].kind = "edited" /\ read \in RepoRow
        /\ reading[e].known \in Nat /\ reading[e].known <= Len(jobs)
        /\ reading[e].known = Len(jobs) => read.generation = repo.generation
    BY <1>1, <1>2, DeliveryTyped DEF WebhooksInv, ReadingOK, ReadingRow
  <1>4. CASE read.branch = event[e].branch
    <2>1. PICK d : d = [status |-> "processed", job |-> 0]
      OBVIOUS
    <2>2. d \in DeliveryRow /\ d.job = 0 /\ d.status = "processed"
      BY <2>1 DEF DeliveryRow, Statuses
    <2>3. delivery' = [delivery EXCEPT ![e] = d] /\ UNCHANGED <<repo, jobs, posting>>
      BY <1>1, <1>4, <2>1 DEF CommitMetadata, Recorded
    <2> QED
      BY <1>2, <2>2, <2>3, NotReadingTyped, RowWrites, DeliveryMoves
  <1>5. CASE read.branch # event[e].branch
    <2>1. PICK g : g = NextGeneration(read)
      OBVIOUS
    <2>2. g \in Nat /\ g = read.generation + 1
      BY <1>3, <2>1 DEF NextGeneration, RepoRow
    <2>3. PICK entry : entry = WebhookJob(e, 0, event[e].branch, g, reading[e].known)
      OBVIOUS
    <2>4. entry \in JobRow /\ entry.by = e /\ entry.generation = g /\ entry.known = reading[e].known
      BY <1>3, <2>2, <2>3, DeliveryTyped DEF WebhookJob, JobRow, EventRow, Events
    <2>5. PICK r : r = [repo EXCEPT !.branch = event[e].branch, !.generation = g]
      OBVIOUS
    <2>6. r \in RepoRow /\ r.generation = g
      BY <2>2, <2>5, RowWrites, DeliveryTyped DEF RepoRow, EventRow
    <2>7. jobs' = Append(jobs, entry) /\ repo' = r /\ posting' = posting \cup {e}
      BY <1>1, <1>5, <2>1, <2>3, <2>5 DEF CommitMetadata
    <2>8. PICK d : d = [status |-> "queued", job |-> Len(jobs')]
      OBVIOUS
    <2>9. Len(jobs') \in Nat
      BY <2>4, <2>7, DeliveryCounts, RowAppended DEF WebhooksInv, EventsTyped
    <2>10. d \in DeliveryRow /\ delivery' = [delivery EXCEPT ![e] = d]
      BY <1>1, <1>5, <2>8, <2>9 DEF CommitMetadata, Recorded, DeliveryRow, Statuses
    <2>11. \/ g = repo.generation + 1
           \/ event[e].kind = "edited" /\ entry.known < Len(jobs)
      <3>1. CASE reading[e].known = Len(jobs)
        BY <1>3, <2>2, <3>1 DEF NextGeneration
      <3>2. CASE reading[e].known # Len(jobs)
        BY <1>3, <2>4, <3>2, DeliveryCounts
      <3> QED
        BY <3>1, <3>2
    <2> QED
      BY <1>2, <1>3, <2>4, <2>6, <2>7, <2>8, <2>10, <2>11, NotReadingTyped, JobMade
  <1> QED
    BY <1>4, <1>5

LEMMA JobEndsStep ==
  ASSUME WebhooksInv, NEW j \in JobIds, NEW completes \in BOOLEAN, JobEnds(j, completes)
  PROVE  WebhooksInv'
  <1>1. PICK e \in Events : delivery[e].job = j /\ delivery' = [delivery EXCEPT ![e].status = "processed"]
    BY DEF JobEnds, Linked
  <1>2. PICK d : d = [delivery[e] EXCEPT !.status = "processed"]
    OBVIOUS
  <1>3. d \in DeliveryRow /\ d.status = "processed" /\ d.job = j
        /\ delivery' = [delivery EXCEPT ![e] = d]
    BY <1>1, <1>2, DeliveryTyped DEF DeliveryRow, Statuses
  <1>4. /\ delivery' \in [Events -> DeliveryRow] /\ delivery'[e] = d
        /\ \A f \in Events : f # e => delivery'[f] = delivery[f]
    BY <1>3 DEF WebhooksInv, EventsTyped
  <1>5. PICK entry : entry = [jobs[j] EXCEPT !.open = FALSE]
    OBVIOUS
  <1>6. jobs \in Seq(JobRow) /\ jobs[j] \in JobRow /\ JobIds = 1 .. Len(jobs)
    BY DEF WebhooksInv, EventsTyped, JobIds
  <1>7. entry \in JobRow /\ ~entry.open /\ entry.by = jobs[j].by /\ entry.generation = jobs[j].generation
        /\ entry.known = jobs[j].known /\ jobs' = [jobs EXCEPT ![j] = entry]
    BY <1>5, <1>6 DEF JobEnds, JobRow
  <1>8. /\ jobs' \in Seq(JobRow) /\ Len(jobs') = Len(jobs) /\ JobIds' = JobIds /\ jobs'[j] = entry
        /\ \A k \in JobIds : k # j => jobs'[k] = jobs[k]
    BY <1>6, <1>7 DEF JobIds
  <1>9. \A k \in JobIds : jobs'[k].by = jobs[k].by /\ jobs'[k].generation = jobs[k].generation
                          /\ jobs'[k].known = jobs[k].known /\ (jobs'[k].open => jobs[k].open /\ k # j)
    BY <1>7, <1>8
  <1>10. repo' \in RepoRow /\ repo'.generation = repo.generation
    <2>1. PICK i : i = IF jobs[j].commit = 0 THEN remote.head ELSE jobs[j].commit
      OBVIOUS
    <2>2. i \in Nat
      BY <1>6, <2>1 DEF WebhooksInv, EventsTyped, JobRow
    <2>3. repo' = repo \/ repo' = [repo EXCEPT !.indexed = i]
      BY <2>1 DEF JobEnds
    <2> QED
      BY <2>2, <2>3, RowWrites DEF RepoRow
  <1>11. Events' = Events /\ UNCHANGED <<remote, event, reading, posting>>
    BY DEF JobEnds, Events
  <1>12. EventsTyped'
    BY <1>4, <1>8, <1>10, <1>11 DEF WebhooksInv, EventsTyped
  <1>13. DeliveriesOK'
    <2>1. \A f \in Events : delivery'[f].job = delivery[f].job
                            /\ (delivery[f].status # "absent" => delivery'[f].status # "absent")
      BY <1>1, <1>3, <1>4
    <2>2. \A k \in JobIds' : jobs'[k].by \in Events' /\ delivery'[jobs'[k].by].status # "absent"
      BY <1>8, <1>9, <1>11, <2>1 DEF WebhooksInv, DeliveriesOK
    <2>3. \A f \in Events' : delivery'[f].job \in {0} \cup JobIds'
                             /\ (delivery'[f].job # 0 => delivery'[f].status # "absent")
      BY <1>8, <1>11, <2>1 DEF WebhooksInv, DeliveriesOK
    <2>4. \A f \in posting' : delivery'[f].status # "absent"
      BY <1>11, <2>1 DEF WebhooksInv, EventsTyped, DeliveriesOK
    <2> QED
      BY <2>2, <2>3, <2>4 DEF DeliveriesOK
  <1>14. ReadingOK'
    <2>1. delivery[e].status # "absent"
      BY <1>1, <1>6, DeliveryTyped DEF WebhooksInv, DeliveriesOK
    <2> QED
      BY <1>4, <1>8, <1>10, <1>11, <2>1 DEF WebhooksInv, ReadingOK
  <1>15. \A l \in JobIds : Raced(l)' = Raced(l)
    BY <1>9, <1>11 DEF Raced
  <1>16. GenerationsOK'
    <2>1. \A k, l \in JobIds : (k + 1) .. l \subseteq JobIds
      BY <1>6, DeliveryCounts
    <2> QED
      BY <1>8, <1>9, <1>10, <1>15, <2>1 DEF WebhooksInv, GenerationsOK
  <1>17. EventsApplyOnce'
    BY <1>8, <1>9 DEF WebhooksInv, EventsApplyOnce
  <1>18. OpenJobsReported'
    BY <1>3, <1>4, <1>8, <1>9, <1>11 DEF WebhooksInv, OpenJobsReported, DeliveriesOK
  <1> QED
    BY <1>12, <1>13, <1>14, <1>16, <1>17, <1>18 DEF WebhooksInv

LEMMA WebhooksInductive == WebhooksInv /\ [WebhooksNext]_webhooks => WebhooksInv'
  <1> SUFFICES ASSUME WebhooksInv, [WebhooksNext]_webhooks PROVE WebhooksInv'
    OBVIOUS
  <1>1. ASSUME NEW kind \in EventKinds, Happens(kind) PROVE WebhooksInv'
    BY <1>1, HappensStep
  <1>2. ASSUME NEW e \in Events, HandleEvent(e) PROVE WebhooksInv'
    BY <1>2, DuplicateStep, NoticeSteps, PushIgnoredStep, PushQueuedStep, ReadRepositoryStep,
       CommitMetadataStep, HandlerDiesStep, EnqueueSteps DEF HandleEvent
  <1>3. ASSUME NEW j \in JobIds, NEW completes \in BOOLEAN, JobEnds(j, completes) PROVE WebhooksInv'
    BY <1>3, JobEndsStep
  <1>4. CASE UNCHANGED webhooks
    <2>1. UNCHANGED <<remote, event, delivery, reading, repo, jobs, posting>>
      BY <1>4 DEF webhooks
    <2>2. Events' = Events /\ JobIds' = JobIds /\ \A l : Raced(l)' = Raced(l)
      BY <2>1 DEF Events, JobIds, Raced
    <2>3. EventsTyped' /\ DeliveriesOK' /\ ReadingOK'
      BY <2>1, <2>2 DEF WebhooksInv, EventsTyped, DeliveriesOK, ReadingOK
    <2>4. GenerationsOK' /\ EventsApplyOnce' /\ OpenJobsReported'
      BY <2>1, <2>2 DEF WebhooksInv, GenerationsOK, EventsApplyOnce, OpenJobsReported
    <2> QED
      BY <2>3, <2>4 DEF WebhooksInv
  <1> QED
    BY <1>1, <1>2, <1>3, <1>4 DEF WebhooksNext

LEMMA WebhooksInvariant == WebhooksSpec => []WebhooksInv
  BY InitWebhooks, WebhooksInductive, PTL DEF WebhooksSpec

(* An event makes one job at most (the unique delivery id of handle).      *)
THEOREM EventsOnce == WebhooksSpec => []EventsApplyOnce
  <1>1. WebhooksInv => EventsApplyOnce
    BY DEF WebhooksInv
  <1> QED
    BY <1>1, WebhooksInvariant, PTL

(* While a job is open, its deliveries say so (handle, enqueue and the     *)
(* coalescing of pushes).                                                  *)
THEOREM JobsReported == WebhooksSpec => []OpenJobsReported
  <1>1. WebhooksInv => OpenJobsReported
    BY DEF WebhooksInv
  <1> QED
    BY <1>1, WebhooksInvariant, PTL

(* A generation is shared only through a repository event that had read    *)
(* the row before another job (_apply_repository_metadata has no lock).    *)
THEOREM GenerationsRaced == WebhooksSpec => []SharedGenerationsRaced
  <1>1. WebhooksInv => SharedGenerationsRaced
    <2> SUFFICES ASSUME WebhooksInv, NEW j \in JobIds, NEW k \in JobIds, j < k,
                        jobs[j].generation = jobs[k].generation
                 PROVE  \E l \in (j + 1) .. k : Raced(l)
      BY DEF SharedGenerationsRaced, Raced
    <2>1. jobs[j].generation \in Nat /\ jobs[k].generation \in Nat
      <3>1. jobs[j] \in JobRow /\ jobs[k] \in JobRow
        BY DEF WebhooksInv, EventsTyped, JobIds
      <3> QED
        BY <3>1 DEF JobRow
    <2> QED
      BY <2>1 DEF WebhooksInv, GenerationsOK
  <1> QED
    BY <1>1, WebhooksInvariant, PTL

-----------------------------------------------------------------------------
(* What is counted of the deliveries, and where a queued one has its job.  *)
DeliveryCounted(e) ==
    /\ delivery[e].status # "absent" \/ reading[e].active => attempts[e] > 0
    /\ delivery[e].status \in {"queued", "retryable"} \/ e \in posting => delivery[e].job # 0

AttemptsOK ==
    /\ Len(event) <= MaxEvents
    /\ attempts \in [Events -> 0 .. MaxDeliveries]
    /\ installation \in {"active", "suspended"}
    /\ \A e \in Events : DeliveryCounted(e)

LEMMA AttemptsStart == WebhooksInit => AttemptsOK
  <1> SUFFICES ASSUME WebhooksInit PROVE AttemptsOK
    OBVIOUS
  <1>1. event = <<>> /\ attempts = <<>> /\ Events = {} /\ installation = "active" /\ Len(event) = 0
    BY DEF WebhooksInit, Events
  <1>2. attempts \in [Events -> 0 .. MaxDeliveries]
    BY <1>1
  <1> QED
    BY <1>1, <1>2, EventBounds DEF AttemptsOK

LEMMA AttemptsMove ==
  ASSUME WebhooksInv, AttemptsOK, NEW e \in Events, NEW n \in 0 .. MaxDeliveries, NEW d, NEW x,
         delivery' = [delivery EXCEPT ![e] = d], reading' = [reading EXCEPT ![e] = x],
         attempts' = [attempts EXCEPT ![e] = n], event' = event,
         installation' \in {"active", "suspended"}, posting' \subseteq posting \cup {e},
         d.status # "absent" \/ x.active => n > 0,
         d.status \in {"queued", "retryable"} \/ e \in posting' => d.job # 0
  PROVE  AttemptsOK'
  <1>1. /\ Events' = Events /\ attempts' \in [Events -> 0 .. MaxDeliveries]
        /\ delivery'[e] = d /\ reading'[e] = x /\ attempts'[e] = n
        /\ \A f \in Events : f # e => /\ delivery'[f] = delivery[f] /\ reading'[f] = reading[f]
                                      /\ attempts'[f] = attempts[f]
    BY DEF WebhooksInv, EventsTyped, Events, AttemptsOK
  <1>2. ASSUME NEW f \in Events PROVE DeliveryCounted(f)'
    <2>1. DeliveryCounted(f)
      BY DEF AttemptsOK
    <2> QED
      BY <1>1, <2>1 DEF DeliveryCounted
  <1> QED
    BY <1>1, <1>2 DEF AttemptsOK

(* What an arriving delivery counts to.                                    *)
LEMMA ArrivalCounts ==
  ASSUME WebhooksInv, AttemptsOK, NEW e \in Events
  PROVE  /\ attempts[e] \in 0 .. MaxDeliveries /\ DeliveryCounted(e)
         /\ delivery = [delivery EXCEPT ![e] = delivery[e]]
         /\ reading = [reading EXCEPT ![e] = reading[e]]
         /\ attempts = [attempts EXCEPT ![e] = attempts[e]]
         /\ attempts[e] < MaxDeliveries
              => attempts[e] + 1 \in 0 .. MaxDeliveries /\ attempts[e] + 1 > 0
         /\ e \in posting => delivery[e].status # "absent"
  BY EventBounds DEF AttemptsOK, WebhooksInv, EventsTyped, DeliveriesOK

LEMMA AttemptsArrive ==
  ASSUME WebhooksInv, AttemptsOK, NEW e \in Events, NEW d, NEW x,
         attempts[e] < MaxDeliveries, attempts' = [attempts EXCEPT ![e] = @ + 1],
         delivery' = [delivery EXCEPT ![e] = d], reading' = [reading EXCEPT ![e] = x], event' = event,
         installation' \in {"active", "suspended"}, posting' \subseteq posting \cup {e},
         d.status \in {"queued", "retryable"} \/ e \in posting' => d.job # 0
  PROVE  AttemptsOK'
  <1>1. PICK n : n = attempts[e] + 1
    OBVIOUS
  <1>2. n \in 0 .. MaxDeliveries /\ n > 0 /\ attempts' = [attempts EXCEPT ![e] = n]
    BY <1>1, ArrivalCounts
  <1> QED
    BY <1>2, AttemptsMove

LEMMA AttemptsRecorded ==
  ASSUME WebhooksInv, AttemptsOK, NEW e \in Events, NEW kinds, Arrives(e, kinds), IsNew(e),
         NEW s \in {"ignored", "unauthorized", "stale", "processed"},
         Recorded(e, s, 0), reading' = reading, event' = event,
         installation' \in {"active", "suspended"}, posting' = posting
  PROVE  AttemptsOK'
  <1>1. PICK d : d = [status |-> s, job |-> 0]
    OBVIOUS
  <1>2. d.status \notin {"queued", "retryable"} /\ delivery' = [delivery EXCEPT ![e] = d]
        /\ e \notin posting
    BY <1>1, ArrivalCounts DEF Recorded, IsNew
  <1>3. /\ attempts[e] < MaxDeliveries /\ attempts' = [attempts EXCEPT ![e] = @ + 1]
        /\ reading' = [reading EXCEPT ![e] = reading[e]] /\ posting' \subseteq posting \cup {e}
    BY ArrivalCounts DEF Arrives
  <1> QED
    BY <1>2, <1>3, AttemptsArrive

LEMMA AttemptsOfNotices ==
  ASSUME WebhooksInv, AttemptsOK, NEW e \in Events,
         \/ Duplicate(e) \/ Unsupported(e) \/ ApplyInstallation(e) \/ ApplyRepositoryAccess(e)
         \/ RepositoryDeleted(e)
  PROVE  AttemptsOK'
  <1>0. installation \in {"active", "suspended"}
    BY DEF AttemptsOK
  <1>1. CASE Duplicate(e)
    BY <1>1, <1>0, ArrivalCounts, AttemptsArrive DEF Duplicate, Arrives, DeliveryCounted
  <1>2. CASE Unsupported(e)
    BY <1>2, <1>0, AttemptsRecorded DEF Unsupported
  <1>3. CASE ApplyInstallation(e)
    BY <1>3, <1>0, AttemptsRecorded DEF ApplyInstallation
  <1>4. CASE ApplyRepositoryAccess(e)
    BY <1>4, <1>0, AttemptsRecorded DEF ApplyRepositoryAccess
  <1>5. CASE RepositoryDeleted(e)
    BY <1>5, <1>0, AttemptsRecorded DEF RepositoryDeleted
  <1> QED
    BY <1>1, <1>2, <1>3, <1>4, <1>5

LEMMA AttemptsOfPushes ==
  ASSUME WebhooksInv, AttemptsOK, NEW e \in Events, PushIgnored(e) \/ PushQueued(e)
  PROVE  AttemptsOK'
  <1>0. /\ attempts[e] < MaxDeliveries /\ attempts' = [attempts EXCEPT ![e] = @ + 1]
        /\ reading' = [reading EXCEPT ![e] = reading[e]]
        /\ event' = event /\ installation' \in {"active", "suspended"}
        /\ e \notin posting
    BY ArrivalCounts DEF PushIgnored, PushQueued, Arrives, IsNew, AttemptsOK
  <1>1. CASE PushIgnored(e)
    <2>1. PICK d : d = PushOutcome(e)
      OBVIOUS
    <2>2. d.status \in {"queued", "retryable"} => d.job # 0
      <3>1. CASE SameTarget(e) # {} /\ d = [status |-> "queued", job |-> CHOOSE j \in SameTarget(e) : TRUE]
        <4>1. PICK j \in SameTarget(e) : d = [status |-> "queued", job |-> j]
          BY <3>1
        <4>2. j # 0
          BY DeliveryTyped DEF SameTarget
        <4> QED
          BY <4>1, <4>2
      <3>2. CASE d.status \notin {"queued", "retryable"}
        BY <3>2
      <3> QED
        BY <2>1, <3>1, <3>2 DEF PushOutcome
    <2>3. delivery' = [delivery EXCEPT ![e] = d] /\ posting' = posting
      BY <1>1, <2>1 DEF PushIgnored
    <2> QED
      BY <1>0, <2>2, <2>3, AttemptsArrive
  <1>2. CASE PushQueued(e)
    <2>1. PICK d : d = [status |-> "queued", job |-> Len(jobs')]
      OBVIOUS
    <2>2. d.job # 0
      <3>1. jobs \in Seq(JobRow) /\ Len(jobs') = Len(jobs) + 1
        BY <1>2 DEF PushQueued, WebhooksInv, EventsTyped
      <3> QED
        BY <2>1, <3>1
    <2>3. delivery' = [delivery EXCEPT ![e] = d] /\ posting' = posting \cup {e}
      BY <1>2, <2>1 DEF PushQueued, Recorded
    <2> QED
      BY <1>0, <2>2, <2>3, AttemptsArrive
  <1> QED
    BY <1>1, <1>2

LEMMA AttemptsOfReaders ==
  ASSUME WebhooksInv, AttemptsOK, NEW e \in Events,
         ReadRepository(e) \/ CommitMetadata(e) \/ HandlerDies(e)
  PROVE  AttemptsOK'
  <1>0. event' = event /\ installation' = installation /\ installation \in {"active", "suspended"}
    BY DEF ReadRepository, CommitMetadata, HandlerDies, AttemptsOK
  <1>1. CASE ReadRepository(e)
    <2>1. CASE Authorized
      <3>1. PICK x : reading' = [reading EXCEPT ![e] = x]
        BY <1>1, <2>1 DEF ReadRepository
      <3> QED
        BY <1>0, <1>1, <2>1, <3>1, ArrivalCounts, AttemptsArrive
        DEF ReadRepository, Arrives, IsNew, DeliveryCounted
    <2>2. CASE ~Authorized
      BY <1>0, <1>1, <2>2, AttemptsRecorded DEF ReadRepository
    <2> QED
      BY <2>1, <2>2
  <1>2. CASE CommitMetadata(e)
    <2>0. /\ attempts' = [attempts EXCEPT ![e] = attempts[e]] /\ attempts[e] > 0
          /\ attempts[e] \in 0 .. MaxDeliveries
          /\ reading' = [reading EXCEPT ![e] = NotReading] /\ reading[e].active
          /\ delivery[e].status = "absent" /\ e \notin posting
      BY <1>2, ArrivalCounts DEF CommitMetadata, DeliveryCounted, WebhooksInv, ReadingOK
    <2>1. CASE reading[e].repo.branch = event[e].branch
      <3>1. PICK d : d = [status |-> "processed", job |-> 0]
        OBVIOUS
      <3>2. delivery' = [delivery EXCEPT ![e] = d] /\ posting' = posting
            /\ d.status \notin {"queued", "retryable"}
        BY <1>2, <2>1, <3>1 DEF CommitMetadata, Recorded
      <3> QED
        BY <1>0, <2>0, <3>2, AttemptsMove
    <2>2. CASE reading[e].repo.branch # event[e].branch
      <3>1. PICK d : d = [status |-> "queued", job |-> Len(jobs')]
        OBVIOUS
      <3>2. d.job # 0
        <4>1. jobs \in Seq(JobRow) /\ Len(jobs') = Len(jobs) + 1
          BY <1>2, <2>2 DEF CommitMetadata, WebhooksInv, EventsTyped
        <4> QED
          BY <3>1, <4>1
      <3>3. delivery' = [delivery EXCEPT ![e] = d] /\ posting' = posting \cup {e}
        BY <1>2, <2>2, <3>1 DEF CommitMetadata, Recorded
      <3> QED
        BY <1>0, <2>0, <3>2, <3>3, AttemptsMove
    <2> QED
      BY <2>1, <2>2
  <1>3. CASE HandlerDies(e)
    <2>1. /\ attempts' = [attempts EXCEPT ![e] = attempts[e]]
          /\ attempts[e] > 0 /\ attempts[e] \in 0 .. MaxDeliveries
          /\ reading' = [reading EXCEPT ![e] = NotReading]
          /\ delivery' = [delivery EXCEPT ![e] = delivery[e]] /\ posting' = posting
      BY <1>3, ArrivalCounts DEF HandlerDies, DeliveryCounted
    <2>2. e \in posting \/ delivery[e].status \in {"queued", "retryable"} => delivery[e].job # 0
      BY ArrivalCounts DEF DeliveryCounted
    <2> QED
      BY <1>0, <2>1, <2>2, AttemptsMove
  <1> QED
    BY <1>1, <1>2, <1>3

(* A delivery that is not handled but marked.                              *)
LEMMA AttemptsMarked ==
  ASSUME WebhooksInv, AttemptsOK, NEW e \in Events, NEW d,
         delivery' = [delivery EXCEPT ![e] = d], delivery[e].status # "absent",
         d.job = delivery[e].job, d.status \in {"queued", "retryable"} => d.job # 0,
         UNCHANGED <<event, attempts, reading, installation>>, posting' \subseteq posting
  PROVE  AttemptsOK'
  <1>1. /\ attempts' = [attempts EXCEPT ![e] = attempts[e]] /\ attempts[e] \in 0 .. MaxDeliveries
        /\ reading' = [reading EXCEPT ![e] = reading[e]] /\ attempts[e] > 0
        /\ installation' \in {"active", "suspended"} /\ posting' \subseteq posting \cup {e}
        /\ event' = event /\ (e \in posting' => delivery[e].job # 0)
    BY ArrivalCounts DEF DeliveryCounted, AttemptsOK
  <1>2. PICK n \in 0 .. MaxDeliveries : n = attempts[e]
    BY <1>1
  <1>3. PICK x : x = reading[e]
    OBVIOUS
  <1>4. n > 0 /\ attempts' = [attempts EXCEPT ![e] = n] /\ reading' = [reading EXCEPT ![e] = x]
    BY <1>1, <1>2, <1>3
  <1>5. d.status \in {"queued", "retryable"} \/ e \in posting' => d.job # 0
    BY <1>1
  <1> QED
    BY <1>1, <1>4, <1>5, AttemptsMove

LEMMA AttemptsOfJobs ==
  ASSUME WebhooksInv, AttemptsOK
  PROVE  /\ \A e \in Events : Enqueued(e) \/ QueueUnavailable(e) => AttemptsOK'
         /\ \A j \in JobIds, completes \in BOOLEAN : JobEnds(j, completes) => AttemptsOK'
  <1>1. ASSUME NEW e \in Events, Enqueued(e) PROVE AttemptsOK'
    BY <1>1 DEF Enqueued, AttemptsOK, DeliveryCounted, Events
  <1>2. ASSUME NEW e \in Events, QueueUnavailable(e) PROVE AttemptsOK'
    <2>1. e \in posting /\ delivery[e].status # "absent" /\ delivery[e].job # 0
      BY <1>2, ArrivalCounts DEF QueueUnavailable, DeliveryCounted
    <2>2. PICK d : d = [delivery[e] EXCEPT !.status = "retryable"]
      OBVIOUS
    <2>3. d.job = delivery[e].job /\ delivery' = [delivery EXCEPT ![e] = d]
      BY <1>2, <2>2, DeliveryTyped DEF QueueUnavailable, DeliveryRow
    <2> QED
      BY <1>2, <2>1, <2>3, AttemptsMarked DEF QueueUnavailable
  <1>3. ASSUME NEW j \in JobIds, NEW completes \in BOOLEAN, JobEnds(j, completes) PROVE AttemptsOK'
    <2>1. PICK e \in Linked(j) : delivery' = [delivery EXCEPT ![e].status = "processed"]
      BY <1>3 DEF JobEnds
    <2>2. e \in Events /\ delivery[e].job = j /\ j # 0
      BY <2>1, DeliveryTyped DEF Linked
    <2>3. delivery[e].status # "absent"
      BY <2>2 DEF WebhooksInv, DeliveriesOK
    <2>4. PICK d : d = [delivery[e] EXCEPT !.status = "processed"]
      OBVIOUS
    <2>5. d.job = delivery[e].job /\ d.status = "processed" /\ delivery' = [delivery EXCEPT ![e] = d]
      BY <2>1, <2>2, <2>4, DeliveryTyped DEF DeliveryRow
    <2> QED
      BY <1>3, <2>2, <2>3, <2>5, AttemptsMarked DEF JobEnds
  <1> QED
    BY <1>1, <1>2, <1>3

LEMMA AttemptsOfHappening ==
  ASSUME WebhooksInv, AttemptsOK, NEW kind \in EventKinds, Happens(kind)
  PROVE  AttemptsOK'
  <1>1. PICK n \in Nat : n = Len(event) /\ Events = 1 .. n /\ n + 1 <= MaxEvents
    BY EventBounds, DeliveryCounts DEF Happens, Events
  <1>2. /\ Len(event') = n + 1 /\ Events' = 1 .. n + 1
        /\ UNCHANGED <<installation, posting>>
    BY <1>1 DEF Happens, Events, WebhooksInv, EventsTyped
  <1>3. PICK d, x : d = [status |-> "absent", job |-> 0] /\ x = NotReading
    OBVIOUS
  <1>4. attempts \in Seq(0 .. MaxDeliveries) /\ Len(attempts) = n
    BY <1>1, RowsOfMapping DEF AttemptsOK
  <1>5. delivery \in Seq(DeliveryRow) /\ Len(delivery) = n
    BY <1>1, RowsOfMapping DEF WebhooksInv, EventsTyped
  <1>6. reading \in Seq(ReadingRow) /\ Len(reading) = n
    BY <1>1, RowsOfMapping DEF WebhooksInv, EventsTyped
  <1>7. d \in DeliveryRow /\ x \in ReadingRow /\ 0 \in 0 .. MaxDeliveries
        /\ d.status = "absent" /\ ~x.active
    BY <1>3, NotReadingTyped, EventBounds DEF DeliveryRow, Statuses
  <1>8. /\ attempts' \in Seq(0 .. MaxDeliveries) /\ Len(attempts') = n + 1
        /\ \A e \in 1 .. n : attempts'[e] = attempts[e]
    BY <1>4, <1>7, RowAppended DEF Happens
  <1>9. /\ delivery'[n + 1] = d /\ \A e \in 1 .. n : delivery'[e] = delivery[e]
    BY <1>5, <1>3, <1>7, RowAppended DEF Happens
  <1>10. /\ reading'[n + 1] = x /\ \A e \in 1 .. n : reading'[e] = reading[e]
    BY <1>6, <1>3, <1>7, RowAppended DEF Happens
  <1>11. n + 1 \notin posting'
    BY <1>1, <1>2 DEF WebhooksInv, EventsTyped
  <1>12. ASSUME NEW e \in 1 .. n + 1 PROVE DeliveryCounted(e)'
    <2>1. CASE e = n + 1
      BY <2>1, <1>7, <1>9, <1>10, <1>11 DEF DeliveryCounted
    <2>2. CASE e # n + 1
      <3>1. e \in 1 .. n /\ DeliveryCounted(e)
        BY <1>1, <2>2 DEF AttemptsOK
      <3> QED
        BY <3>1, <1>2, <1>8, <1>9, <1>10 DEF DeliveryCounted
    <2> QED
      BY <2>1, <2>2
  <1>13. attempts' \in [Events' -> 0 .. MaxDeliveries]
    <2>1. ASSUME NEW S, NEW s \in Seq(S) PROVE s \in [1 .. Len(s) -> S]
      OBVIOUS
    <2> QED
      BY <1>2, <1>8, <2>1
  <1> QED
    BY <1>1, <1>2, <1>12, <1>13 DEF AttemptsOK

LEMMA AttemptsInvariant == WebhooksSpec => [](WebhooksInv /\ AttemptsOK)
  <1>1. ASSUME WebhooksInv, AttemptsOK, [WebhooksNext]_webhooks PROVE AttemptsOK'
    <2>1. CASE UNCHANGED webhooks
      BY <1>1, <2>1 DEF webhooks, AttemptsOK, DeliveryCounted, Events
    <2>2. CASE \E e \in Events : HandleEvent(e)
      BY <1>1, <2>2, AttemptsOfNotices, AttemptsOfPushes, AttemptsOfReaders, AttemptsOfJobs
      DEF HandleEvent
    <2> QED
      BY <1>1, <2>1, <2>2, AttemptsOfHappening, AttemptsOfJobs DEF WebhooksNext
  <1> QED
    BY <1>1, AttemptsStart, WebhooksInvariant, PTL DEF WebhooksSpec

(* However deliveries repeat and handlers die, each event keeps one row,   *)
(* and a row that promises a job names one (webhooks.py's handle).         *)
THEOREM WebhooksTyped == WebhooksSpec => []WebhooksTypeOK
  <1>1. WebhooksInv /\ AttemptsOK => WebhooksTypeOK
    BY DEF WebhooksInv, EventsTyped, DeliveriesOK, AttemptsOK, DeliveryCounted, WebhooksTypeOK,
           ReadingRow
  <1> QED
    BY <1>1, AttemptsInvariant, PTL

-----------------------------------------------------------------------------
(* Questions that a user asks, and the transcript.                         *)
(* Who was counted in a window, and which of those their quota let pass.   *)
MinuteOf(w) == {q \in Numbers : question[q].inMinute = w}
DayOf(w) == {q \in Numbers : question[q].inDay = w}
WithinMinute(w) == {q \in MinuteOf(w) : question[q].scope \notin {"minute", "unavailable"}}
WithinDay(w) == {q \in DayOf(w) : question[q].scope = "allowed"}

MinuteOK(w) ==
    /\ Cardinality(WithinMinute(w)) <= PerMinute
    /\ \A q \in MinuteOf(w) : question[q].scope = "minute" => Cardinality(MinuteOf(w)) > PerMinute

DayOK(w) ==
    /\ Cardinality(WithinDay(w)) <= PerDay
    /\ \A q \in DayOf(w) : question[q].scope = "day" => Cardinality(DayOf(w)) > PerDay

(* A counter holds the number of those counted in its window, and nobody   *)
(* was counted in a later one.                                             *)
MinutesOK ==
    /\ minute \in Counter
    /\ \A w \in 0 .. MaxWindows : w = minute.window => minute.count = Cardinality(MinuteOf(w))
    /\ \A q \in Numbers : question[q].inMinute \in (0 .. minute.window) \cup {Uncounted}
    /\ \A w \in 0 .. MaxWindows : MinuteOK(w)

DaysOK ==
    /\ day \in Counter
    /\ \A w \in 0 .. MaxWindows : w = day.window => day.count = Cardinality(DayOf(w))
    /\ \A q \in Numbers : question[q].inDay \in (0 .. day.window) \cup {Uncounted}
    /\ \A w \in 0 .. MaxWindows : DayOK(w)

QuestionOK(r) ==
    /\ r.pc = "arrived" => r.inMinute = Uncounted
    /\ r.pc \in {"arrived", "counted"} => r.inDay = Uncounted /\ r.scope = "none"
    /\ r.scope = "minute" => r.inMinute # Uncounted
    /\ r.scope = "day" => r.inDay # Uncounted
    /\ r.pc \in {"in_session", "recording", "saved"} => r.session # 0
    /\ r.pc \in {"arrived", "counted", "refused", "asking"} => r.usage = "none"
    /\ r.pc \notin {"recording", "saved", "unsaved"} => r.at = 0
    /\ r.pc \in {"recording", "saved"} => r.at # 0

QuestionsOK ==
    /\ question \in Seq(QuestionRow) /\ Len(question) <= MaxQuestions
    /\ \A q \in Numbers : QuestionOK(question[q])

(* The transcript: one exchange of a question that has saved it, in the    *)
(* session that there is, under a time of its own.                         *)
TranscriptOK ==
    /\ opened \in Nat /\ session \in 0 .. opened /\ begun \in Nat
    /\ \A q \in Numbers : question[q].at <= begun
    /\ \A p, q \in Numbers : question[p].at # 0 /\ question[p].at = question[q].at => p = q
    /\ exchanges \subseteq ExchangeRow
    /\ \A e \in exchanges :
        /\ question[e.of].pc = "saved" /\ e.at = question[e.of].at
        /\ e.session = question[e.of].session /\ e.session = session

ChatInv == QuestionsOK /\ MinutesOK /\ DaysOK /\ TranscriptOK

-----------------------------------------------------------------------------
(* Counting                                                                *)

LEMMA NumbersFinite ==
  ASSUME question \in Seq(QuestionRow)
  PROVE  IsFiniteSet(Numbers) /\ Numbers = 1 .. Len(question) /\ Len(question) \in Nat
  <1>1. Numbers = 1 .. Len(question) /\ Len(question) \in Nat
    BY DEF Numbers
  <1> QED
    BY <1>1, FS_Interval

LEMMA PartCounted ==
  ASSUME question \in Seq(QuestionRow), NEW S \in SUBSET Numbers, NEW T \in SUBSET S
  PROVE  /\ IsFiniteSet(S) /\ Cardinality(S) \in Nat /\ Cardinality(T) \in Nat
         /\ Cardinality(T) <= Cardinality(S)
         /\ \A q : q \notin S => Cardinality(S \cup {q}) = Cardinality(S) + 1
  <1>1. IsFiniteSet(S)
    BY NumbersFinite, FS_Subset
  <1>2. IsFiniteSet(T) /\ Cardinality(T) <= Cardinality(S)
    BY <1>1, FS_Subset
  <1> QED
    BY <1>1, <1>2, FS_CardinalityType, FS_AddElement

(* One request's record changes.                                           *)
LEMMA RowChanges ==
  ASSUME QuestionsOK, NEW q \in Numbers, NEW r \in QuestionRow, QuestionOK(r),
         question' = [question EXCEPT ![q] = r]
  PROVE  /\ QuestionsOK' /\ Numbers' = Numbers /\ question'[q] = r
         /\ \A p \in Numbers \ {q} : question'[p] = question[p]
  <1>1. /\ question' \in Seq(QuestionRow) /\ Len(question') = Len(question) /\ Numbers' = Numbers
        /\ question'[q] = r /\ \A p \in Numbers \ {q} : question'[p] = question[p]
    BY DEF QuestionsOK, Numbers
  <1>2. \A p \in Numbers : QuestionOK(question[p])'
    BY <1>1 DEF QuestionsOK, QuestionOK
  <1> QED
    BY <1>1, <1>2 DEF QuestionsOK

(* Nobody else is counted or refused by the minute.                        *)
LEMMA MinutesKept ==
  ASSUME MinutesOK, QuestionsOK, UNCHANGED minute, Numbers \subseteq Numbers',
         \A q \in Numbers :
            /\ question'[q].inMinute = question[q].inMinute
            /\ question'[q].scope = "minute" => question[q].scope = "minute"
            /\ question'[q].scope \notin {"minute", "unavailable"}
                  => question[q].scope \notin {"minute", "unavailable"},
         \A q \in Numbers' \ Numbers : question'[q].inMinute = Uncounted
  PROVE  MinutesOK'
  <1>0. Uncounted' = Uncounted /\ \A w \in 0 .. MaxWindows : w # Uncounted
    BY ChatBounds DEF Uncounted
  <1>1. \A w \in 0 .. MaxWindows : MinuteOf(w)' = MinuteOf(w)
    BY <1>0 DEF MinuteOf
  <1>2. ASSUME NEW w \in 0 .. MaxWindows PROVE MinuteOK(w)'
    <2>1. WithinMinute(w)' \subseteq WithinMinute(w)
      BY <1>1 DEF WithinMinute, MinuteOf
    <2>2. Cardinality(WithinMinute(w)') <= Cardinality(WithinMinute(w))
          /\ Cardinality(WithinMinute(w)') \in Nat /\ Cardinality(WithinMinute(w)) \in Nat
      <3>1. WithinMinute(w) \subseteq Numbers
        BY DEF WithinMinute, MinuteOf
      <3> QED
        BY <2>1, <3>1, PartCounted DEF QuestionsOK
    <2>3. Cardinality(WithinMinute(w)) <= PerMinute
      BY DEF MinutesOK, MinuteOK
    <2>4. Cardinality(WithinMinute(w)') <= PerMinute
      BY <2>2, <2>3, QuotasPositive
    <2>5. ASSUME NEW q \in MinuteOf(w)', question'[q].scope = "minute"
          PROVE  Cardinality(MinuteOf(w)') > PerMinute
      <3>1. q \in MinuteOf(w) /\ q \in Numbers
        BY <1>1 DEF MinuteOf
      <3> QED
        BY <1>1, <2>5, <3>1 DEF MinutesOK, MinuteOK
    <2> QED
      BY <2>4, <2>5 DEF MinuteOK
  <1>3. minute.window \in 0 .. MaxWindows
    BY DEF MinutesOK, Counter
  <1>4. \A w \in 0 .. MaxWindows : w = minute'.window => minute'.count = Cardinality(MinuteOf(w)')
    BY <1>1, <1>3 DEF MinutesOK
  <1>6. \A q \in Numbers' : question'[q].inMinute \in (0 .. minute'.window) \cup {Uncounted}
    BY <1>0 DEF MinutesOK
  <1> QED
    BY <1>0, <1>2, <1>4, <1>6 DEF MinutesOK

LEMMA DaysKept ==
  ASSUME DaysOK, QuestionsOK, UNCHANGED day, Numbers \subseteq Numbers',
         \A q \in Numbers :
            /\ question'[q].inDay = question[q].inDay
            /\ question'[q].scope \in {"day", "allowed"} => question'[q].scope = question[q].scope,
         \A q \in Numbers' \ Numbers : question'[q].inDay = Uncounted
  PROVE  DaysOK'
  <1>0. Uncounted' = Uncounted /\ \A w \in 0 .. MaxWindows : w # Uncounted
    BY ChatBounds DEF Uncounted
  <1>1. \A w \in 0 .. MaxWindows : DayOf(w)' = DayOf(w)
    BY <1>0 DEF DayOf
  <1>2. ASSUME NEW w \in 0 .. MaxWindows PROVE DayOK(w)'
    <2>1. WithinDay(w)' \subseteq WithinDay(w)
      BY <1>1 DEF WithinDay, DayOf
    <2>2. Cardinality(WithinDay(w)') <= Cardinality(WithinDay(w))
          /\ Cardinality(WithinDay(w)') \in Nat /\ Cardinality(WithinDay(w)) \in Nat
      <3>1. WithinDay(w) \subseteq Numbers
        BY DEF WithinDay, DayOf
      <3> QED
        BY <2>1, <3>1, PartCounted DEF QuestionsOK
    <2>3. Cardinality(WithinDay(w)) <= PerDay
      BY DEF DaysOK, DayOK
    <2>4. Cardinality(WithinDay(w)') <= PerDay
      BY <2>2, <2>3, QuotasPositive
    <2>5. ASSUME NEW q \in DayOf(w)', question'[q].scope = "day"
          PROVE  Cardinality(DayOf(w)') > PerDay
      <3>1. q \in DayOf(w) /\ q \in Numbers
        BY <1>1 DEF DayOf
      <3> QED
        BY <1>1, <2>5, <3>1 DEF DaysOK, DayOK
    <2> QED
      BY <2>4, <2>5 DEF DayOK
  <1>3. day.window \in 0 .. MaxWindows
    BY DEF DaysOK, Counter
  <1>4. \A w \in 0 .. MaxWindows : w = day'.window => day'.count = Cardinality(DayOf(w)')
    BY <1>1, <1>3 DEF DaysOK
  <1>6. \A q \in Numbers' : question'[q].inDay \in (0 .. day'.window) \cup {Uncounted}
    BY <1>0 DEF DaysOK
  <1> QED
    BY <1>0, <1>2, <1>4, <1>6 DEF DaysOK

(* One more is counted in the minute, and refused if that is over quota.   *)
LEMMA MinuteCounts ==
  ASSUME MinutesOK, QuestionsOK, NEW q \in Numbers, minute' = Increment(minute),
         Numbers' = Numbers, question[q].inMinute = Uncounted,
         question'[q].inMinute = minute.window,
         question'[q].scope = "minute" => OverQuota(minute'.count, PerMinute),
         question'[q].scope \notin {"minute", "unavailable"}
           => ~OverQuota(minute'.count, PerMinute),
         \A p \in Numbers \ {q} : question'[p] = question[p]
  PROVE  MinutesOK'
  <1>0. Uncounted' = Uncounted /\ \A w \in 0 .. MaxWindows : w # Uncounted
    BY ChatBounds DEF Uncounted
  <1>1. PICK now \in 0 .. MaxWindows : now = minute.window /\ minute'.window = now
    BY DEF MinutesOK, Counter, Increment
  <1>2. minute'.count = minute.count + 1 /\ minute' \in Counter /\ minute.count \in Nat
    BY DEF MinutesOK, Counter, Increment
  <1>3. MinuteOf(now)' = MinuteOf(now) \cup {q} /\ q \notin MinuteOf(now)
    BY <1>0, <1>1 DEF MinuteOf
  <1>4. \A w \in (0 .. MaxWindows) \ {now} : MinuteOf(w)' = MinuteOf(w)
    BY <1>0, <1>1 DEF MinuteOf
  <1>5. Cardinality(MinuteOf(now)') = minute'.count
    <2>1. MinuteOf(now) \subseteq Numbers
      BY DEF MinuteOf
    <2>2. Cardinality(MinuteOf(now) \cup {q}) = Cardinality(MinuteOf(now)) + 1
      BY <1>3, <2>1, PartCounted DEF QuestionsOK
    <2> QED
      BY <1>1, <1>2, <1>3, <2>2 DEF MinutesOK
  <1>6. ASSUME NEW w \in (0 .. MaxWindows) \ {now} PROVE MinuteOK(w)'
    <2>1. \A p \in MinuteOf(w) : p # q /\ question'[p] = question[p]
      BY <1>0 DEF MinuteOf
    <2>2. WithinMinute(w)' = WithinMinute(w)
      BY <1>4, <2>1 DEF WithinMinute
    <2>3. MinuteOK(w)
      BY DEF MinutesOK
    <2> QED
      BY <1>4, <2>1, <2>2, <2>3 DEF MinuteOK
  <1>7. MinuteOK(now)'
    <2>1. \A p \in MinuteOf(now) : p # q /\ question'[p] = question[p]
      BY <1>3 DEF MinuteOf
    <2>2. MinuteOK(now)
      BY DEF MinutesOK
    <2>3. CASE question'[q].scope \in {"minute", "unavailable"}
      <3>1. WithinMinute(now)' = WithinMinute(now)
        BY <1>3, <2>1, <2>3 DEF WithinMinute
      <3>2. ASSUME NEW p \in MinuteOf(now)', question'[p].scope = "minute"
            PROVE  Cardinality(MinuteOf(now)') > PerMinute
        <4>1. CASE p = q
          BY <1>5, <3>2, <4>1 DEF OverQuota
        <4>2. CASE p # q
          <5>1. p \in MinuteOf(now) /\ question[p].scope = "minute"
            BY <1>3, <2>1, <3>2, <4>2
          <5>2. Cardinality(MinuteOf(now)) > PerMinute
            BY <2>2, <5>1 DEF MinuteOK
          <5> QED
            BY <1>1, <1>2, <1>5, <5>2, QuotasPositive DEF MinutesOK
        <4> QED
          BY <4>1, <4>2
      <3> QED
        BY <2>2, <3>1, <3>2 DEF MinuteOK
    <2>4. CASE question'[q].scope \notin {"minute", "unavailable"}
      <3>1. minute'.count <= PerMinute
        BY <1>2, <2>4, QuotasPositive DEF OverQuota
      <3>2. Cardinality(WithinMinute(now)') <= Cardinality(MinuteOf(now)')
            /\ Cardinality(WithinMinute(now)') \in Nat
        <4>1. WithinMinute(now)' \subseteq MinuteOf(now)' /\ MinuteOf(now)' \subseteq Numbers
          BY DEF WithinMinute, MinuteOf
        <4> QED
          BY <4>1, PartCounted DEF QuestionsOK
      <3>3. Cardinality(WithinMinute(now)') <= PerMinute
        BY <1>2, <1>5, <3>1, <3>2, QuotasPositive
      <3>4. ASSUME NEW p \in MinuteOf(now)' PROVE question'[p].scope # "minute"
        <4>1. CASE p = q
          BY <2>4, <4>1
        <4>2. CASE p # q
          <5>1. p \in MinuteOf(now) /\ question'[p] = question[p]
            BY <1>3, <2>1, <3>4, <4>2
          <5>2. ~(Cardinality(MinuteOf(now)) > PerMinute)
            BY <1>1, <1>2, <3>1, QuotasPositive DEF MinutesOK
          <5> QED
            BY <2>2, <5>1, <5>2 DEF MinuteOK
        <4> QED
          BY <4>1, <4>2
      <3> QED
        BY <3>3, <3>4 DEF MinuteOK
    <2> QED
      BY <2>3, <2>4
  <1>8. \A p \in Numbers' : question'[p].inMinute \in (0 .. minute'.window) \cup {Uncounted}
    BY <1>1 DEF MinutesOK
  <1>9. \A w \in 0 .. MaxWindows : w = minute'.window => minute'.count = Cardinality(MinuteOf(w)')
    BY <1>1, <1>5
  <1> QED
    BY <1>0, <1>2, <1>6, <1>7, <1>8, <1>9 DEF MinutesOK

LEMMA DayCounts ==
  ASSUME DaysOK, QuestionsOK, NEW q \in Numbers, day' = Increment(day),
         Numbers' = Numbers, question[q].inDay = Uncounted,
         question'[q].inDay = day.window,
         question'[q].scope = "day" => OverQuota(day'.count, PerDay),
         question'[q].scope = "allowed" => ~OverQuota(day'.count, PerDay),
         \A p \in Numbers \ {q} : question'[p] = question[p]
  PROVE  DaysOK'
  <1>0. Uncounted' = Uncounted /\ \A w \in 0 .. MaxWindows : w # Uncounted
    BY ChatBounds DEF Uncounted
  <1>1. PICK now \in 0 .. MaxWindows : now = day.window /\ day'.window = now
    BY DEF DaysOK, Counter, Increment
  <1>2. day'.count = day.count + 1 /\ day' \in Counter /\ day.count \in Nat
    BY DEF DaysOK, Counter, Increment
  <1>3. DayOf(now)' = DayOf(now) \cup {q} /\ q \notin DayOf(now)
    BY <1>0, <1>1 DEF DayOf
  <1>4. \A w \in (0 .. MaxWindows) \ {now} : DayOf(w)' = DayOf(w)
    BY <1>0, <1>1 DEF DayOf
  <1>5. Cardinality(DayOf(now)') = day'.count
    <2>1. DayOf(now) \subseteq Numbers
      BY DEF DayOf
    <2>2. Cardinality(DayOf(now) \cup {q}) = Cardinality(DayOf(now)) + 1
      BY <1>3, <2>1, PartCounted DEF QuestionsOK
    <2> QED
      BY <1>1, <1>2, <1>3, <2>2 DEF DaysOK
  <1>6. ASSUME NEW w \in (0 .. MaxWindows) \ {now} PROVE DayOK(w)'
    <2>1. \A p \in DayOf(w) : p # q /\ question'[p] = question[p]
      BY <1>0 DEF DayOf
    <2>2. WithinDay(w)' = WithinDay(w)
      BY <1>4, <2>1 DEF WithinDay
    <2>3. DayOK(w)
      BY DEF DaysOK
    <2> QED
      BY <1>4, <2>1, <2>2, <2>3 DEF DayOK
  <1>7. DayOK(now)'
    <2>1. \A p \in DayOf(now) : p # q /\ question'[p] = question[p]
      BY <1>3 DEF DayOf
    <2>2. DayOK(now)
      BY DEF DaysOK
    <2>3. CASE question'[q].scope # "allowed"
      <3>1. WithinDay(now)' = WithinDay(now)
        BY <1>3, <2>1, <2>3 DEF WithinDay
      <3>2. ASSUME NEW p \in DayOf(now)', question'[p].scope = "day"
            PROVE  Cardinality(DayOf(now)') > PerDay
        <4>1. CASE p = q
          BY <1>5, <3>2, <4>1 DEF OverQuota
        <4>2. CASE p # q
          <5>1. p \in DayOf(now) /\ question[p].scope = "day"
            BY <1>3, <2>1, <3>2, <4>2
          <5>2. Cardinality(DayOf(now)) > PerDay
            BY <2>2, <5>1 DEF DayOK
          <5> QED
            BY <1>1, <1>2, <1>5, <5>2, QuotasPositive DEF DaysOK
        <4> QED
          BY <4>1, <4>2
      <3> QED
        BY <2>2, <3>1, <3>2 DEF DayOK
    <2>4. CASE question'[q].scope = "allowed"
      <3>1. day'.count <= PerDay
        BY <1>2, <2>4, QuotasPositive DEF OverQuota
      <3>2. Cardinality(WithinDay(now)') <= Cardinality(DayOf(now)')
            /\ Cardinality(WithinDay(now)') \in Nat
        <4>1. WithinDay(now)' \subseteq DayOf(now)' /\ DayOf(now)' \subseteq Numbers
          BY DEF WithinDay, DayOf
        <4> QED
          BY <4>1, PartCounted DEF QuestionsOK
      <3>3. Cardinality(WithinDay(now)') <= PerDay
        BY <1>2, <1>5, <3>1, <3>2, QuotasPositive
      <3>4. ASSUME NEW p \in DayOf(now)' PROVE question'[p].scope # "day"
        <4>1. CASE p = q
          BY <2>4, <4>1
        <4>2. CASE p # q
          <5>1. p \in DayOf(now) /\ question'[p] = question[p]
            BY <1>3, <2>1, <3>4, <4>2
          <5>2. ~(Cardinality(DayOf(now)) > PerDay)
            BY <1>1, <1>2, <3>1, QuotasPositive DEF DaysOK
          <5> QED
            BY <2>2, <5>1, <5>2 DEF DayOK
        <4> QED
          BY <4>1, <4>2
      <3> QED
        BY <3>3, <3>4 DEF DayOK
    <2> QED
      BY <2>3, <2>4
  <1>8. \A p \in Numbers' : question'[p].inDay \in (0 .. day'.window) \cup {Uncounted}
    BY <1>1 DEF DaysOK
  <1>9. \A w \in 0 .. MaxWindows : w = day'.window => day'.count = Cardinality(DayOf(w)')
    BY <1>1, <1>5
  <1> QED
    BY <1>0, <1>2, <1>6, <1>7, <1>8, <1>9 DEF DaysOK

(* A window passes.                                                        *)
LEMMA MinutePassesStep == ASSUME ChatInv, MinutePasses PROVE ChatInv'
  <1>0. \A w \in 0 .. MaxWindows : w # Uncounted
    BY ChatBounds DEF Uncounted
  <1>1. /\ minute' = [count |-> 0, window |-> minute.window + 1] /\ minute.window < MaxWindows
        /\ UNCHANGED <<day, question, session, opened, exchanges, begun>>
        /\ minute.window \in 0 .. MaxWindows
    BY DEF MinutePasses, NextWindow, ChatInv, MinutesOK, Counter
  <1>2. /\ minute' \in Counter /\ minute'.count = 0 /\ minute'.window = minute.window + 1
        /\ minute'.window \in 0 .. MaxWindows
    BY <1>1, ChatBounds DEF Counter
  <1>3. \A w : /\ MinuteOf(w)' = MinuteOf(w) /\ DayOf(w)' = DayOf(w)
               /\ WithinMinute(w)' = WithinMinute(w) /\ WithinDay(w)' = WithinDay(w)
    BY <1>1 DEF MinuteOf, DayOf, WithinMinute, WithinDay, Numbers
  <1>4. ASSUME NEW w \in 0 .. MaxWindows, w = minute'.window PROVE Cardinality(MinuteOf(w)') = 0
    <2>1. \A q \in Numbers : question[q].inMinute # w
      BY <1>0, <1>1, <1>2, <1>4 DEF ChatInv, MinutesOK
    <2>2. MinuteOf(w)' = {}
      BY <1>1, <2>1 DEF MinuteOf, Numbers
    <2> QED
      BY <2>2, FS_EmptySet
  <1>5. \A w \in 0 .. MaxWindows : w = minute'.window => minute'.count = Cardinality(MinuteOf(w)')
    BY <1>2, <1>4
  <1>6. \A w \in 0 .. MaxWindows : MinuteOK(w)'
    BY <1>1, <1>3 DEF ChatInv, MinutesOK, MinuteOK
  <1>7. \A q \in Numbers : question[q].inMinute \in (0 .. minute'.window) \cup {Uncounted}
    BY <1>1, <1>2 DEF ChatInv, MinutesOK
  <1>8. MinutesOK'
    BY <1>1, <1>2, <1>5, <1>6, <1>7 DEF MinutesOK, Numbers, Uncounted
  <1>9. DaysOK'
    BY <1>1, <1>3 DEF ChatInv, DaysOK, DayOK, Numbers, Uncounted
  <1>10. QuestionsOK' /\ TranscriptOK'
    BY <1>1 DEF ChatInv, QuestionsOK, QuestionOK, TranscriptOK, Numbers, Uncounted, ExchangeRow
  <1> QED
    BY <1>8, <1>9, <1>10 DEF ChatInv

LEMMA DayPassesStep == ASSUME ChatInv, DayPasses PROVE ChatInv'
  <1>0. \A w \in 0 .. MaxWindows : w # Uncounted
    BY ChatBounds DEF Uncounted
  <1>1. /\ day' = [count |-> 0, window |-> day.window + 1] /\ day.window < MaxWindows
        /\ UNCHANGED <<minute, question, session, opened, exchanges, begun>>
        /\ day.window \in 0 .. MaxWindows
    BY DEF DayPasses, NextWindow, ChatInv, DaysOK, Counter
  <1>2. /\ day' \in Counter /\ day'.count = 0 /\ day'.window = day.window + 1
        /\ day'.window \in 0 .. MaxWindows
    BY <1>1, ChatBounds DEF Counter
  <1>3. \A w : /\ DayOf(w)' = DayOf(w) /\ MinuteOf(w)' = MinuteOf(w)
               /\ WithinDay(w)' = WithinDay(w) /\ WithinMinute(w)' = WithinMinute(w)
    BY <1>1 DEF DayOf, MinuteOf, WithinDay, WithinMinute, Numbers
  <1>4. ASSUME NEW w \in 0 .. MaxWindows, w = day'.window PROVE Cardinality(DayOf(w)') = 0
    <2>1. \A q \in Numbers : question[q].inDay # w
      BY <1>0, <1>1, <1>2, <1>4 DEF ChatInv, DaysOK
    <2>2. DayOf(w)' = {}
      BY <1>1, <2>1 DEF DayOf, Numbers
    <2> QED
      BY <2>2, FS_EmptySet
  <1>5. \A w \in 0 .. MaxWindows : w = day'.window => day'.count = Cardinality(DayOf(w)')
    BY <1>2, <1>4
  <1>6. \A w \in 0 .. MaxWindows : DayOK(w)'
    BY <1>1, <1>3 DEF ChatInv, DaysOK, DayOK
  <1>7. \A q \in Numbers : question[q].inDay \in (0 .. day'.window) \cup {Uncounted}
    BY <1>1, <1>2 DEF ChatInv, DaysOK
  <1>8. DaysOK'
    BY <1>1, <1>2, <1>5, <1>6, <1>7 DEF DaysOK, Numbers, Uncounted
  <1>9. MinutesOK'
    BY <1>1, <1>3 DEF ChatInv, MinutesOK, MinuteOK, Numbers, Uncounted
  <1>10. QuestionsOK' /\ TranscriptOK'
    BY <1>1 DEF ChatInv, QuestionsOK, QuestionOK, TranscriptOK, Numbers, Uncounted, ExchangeRow
  <1> QED
    BY <1>8, <1>9, <1>10 DEF ChatInv

-----------------------------------------------------------------------------
(* The steps of one request                                                *)

LEMMA RowTyped ==
  ASSUME ChatInv, NEW q \in Numbers
  PROVE  question[q] \in QuestionRow /\ QuestionOK(question[q])
  BY DEF ChatInv, QuestionsOK, Numbers

(* A request that has not saved its exchange, and does not begin to.       *)
LEMMA TranscriptKept ==
  ASSUME ChatInv, NEW q \in Numbers, NEW r \in QuestionRow, Numbers' = Numbers,
         question'[q] = r, \A p \in Numbers \ {q} : question'[p] = question[p],
         r.at = question[q].at, question[q].pc # "saved",
         UNCHANGED <<session, opened, exchanges, begun>>
  PROVE  TranscriptOK'
  <1>1. /\ opened' \in Nat /\ session' \in 0 .. opened' /\ begun' \in Nat
        /\ exchanges' \subseteq ExchangeRow'
    BY DEF ChatInv, TranscriptOK, ExchangeRow
  <1>2. \A p \in Numbers : question'[p].at = question[p].at
    OBVIOUS
  <1>3. /\ \A p \in Numbers' : question'[p].at <= begun'
        /\ \A p, s \in Numbers' :
              question'[p].at # 0 /\ question'[p].at = question'[s].at => p = s
    BY <1>2 DEF ChatInv, TranscriptOK
  <1>4. ASSUME NEW e \in exchanges'
        PROVE  /\ question'[e.of].pc = "saved" /\ e.at = question'[e.of].at
               /\ e.session = question'[e.of].session /\ e.session = session'
    <2>1. e.of \in Numbers /\ e.of # q
      BY DEF ChatInv, TranscriptOK, ExchangeRow
    <2> QED
      BY <2>1 DEF ChatInv, TranscriptOK
  <1> QED
    BY <1>1, <1>3, <1>4 DEF TranscriptOK

(* A request goes on, uncounted and unrecorded.                            *)
LEMMA GoesOn ==
  ASSUME ChatInv, NEW q \in Numbers, NEW r \in QuestionRow, QuestionOK(r),
         question' = [question EXCEPT ![q] = r],
         r.inMinute = question[q].inMinute, r.inDay = question[q].inDay,
         r.scope = question[q].scope, r.at = question[q].at, question[q].pc # "saved",
         UNCHANGED <<minute, day, session, opened, exchanges, begun>>
  PROVE  ChatInv'
  <1>1. /\ QuestionsOK' /\ Numbers' = Numbers /\ question'[q] = r
        /\ \A p \in Numbers \ {q} : question'[p] = question[p]
    BY RowChanges DEF ChatInv
  <1>2. \A p \in Numbers : /\ question'[p].inMinute = question[p].inMinute
                           /\ question'[p].inDay = question[p].inDay
                           /\ question'[p].scope = question[p].scope
    BY <1>1
  <1>3. MinutesOK'
    BY <1>1, <1>2, MinutesKept DEF ChatInv
  <1>4. DaysOK'
    BY <1>1, <1>2, DaysKept DEF ChatInv
  <1>5. TranscriptOK'
    BY <1>1, TranscriptKept
  <1> QED
    BY <1>1, <1>3, <1>4, <1>5 DEF ChatInv

LEMMA ArriveQuestionStep == ASSUME ChatInv, ArriveQuestion PROVE ChatInv'
  <1> DEFINE r == [pc |-> "arrived", scope |-> "none", inMinute |-> Uncounted,
                   inDay |-> Uncounted, session |-> 0, at |-> 0, usage |-> "none"]
  <1>1. r \in QuestionRow /\ QuestionOK(r)
    BY ChatBounds DEF QuestionRow, Scopes, Uncounted, QuestionOK
  <1>2. /\ question \in Seq(QuestionRow) /\ Len(question) < MaxQuestions
        /\ question' = Append(question, r)
        /\ UNCHANGED <<minute, day, session, opened, exchanges, begun>>
    BY DEF ArriveQuestion, ChatInv, QuestionsOK
  <1>3. /\ r.inMinute = Uncounted /\ r.inDay = Uncounted /\ r.scope = "none" /\ r.at = 0
    OBVIOUS
  <1> HIDE DEF r
  <1>4. PICK n \in Nat : n = Len(question) + 1
    BY <1>2
  <1>5. /\ Numbers' = Numbers \cup {n} /\ n \notin Numbers /\ question'[n] = r
        /\ \A p \in Numbers : question'[p] = question[p]
        /\ question' \in Seq(QuestionRow) /\ Len(question') = n
    BY <1>1, <1>2, <1>4 DEF Numbers
  <1>6. QuestionsOK'
    <2>1. \A p \in Numbers' : QuestionOK(question[p])'
      BY <1>1, <1>5 DEF ChatInv, QuestionsOK, QuestionOK, Uncounted
    <2>2. Len(question') <= MaxQuestions
      BY <1>2, <1>4, <1>5, ChatBounds
    <2> QED
      BY <1>5, <2>1, <2>2 DEF QuestionsOK
  <1>7. MinutesOK'
    BY <1>2, <1>3, <1>5, MinutesKept DEF ChatInv
  <1>8. DaysOK'
    BY <1>2, <1>3, <1>5, DaysKept DEF ChatInv
  <1>9. TranscriptOK'
    <2>1. exchanges' \subseteq ExchangeRow'
      BY <1>2, <1>5 DEF ChatInv, TranscriptOK, ExchangeRow
    <2>2. \A e \in exchanges : e.of \in Numbers
      BY DEF ChatInv, TranscriptOK, ExchangeRow
    <2>3. \A p \in Numbers' : question'[p].at <= begun
      BY <1>3, <1>5 DEF ChatInv, TranscriptOK
    <2>4. \A p, q \in Numbers' :
              question'[p].at # 0 /\ question'[p].at = question'[q].at => p = q
      BY <1>3, <1>5 DEF ChatInv, TranscriptOK
    <2> QED
      BY <1>2, <1>5, <2>1, <2>2, <2>3, <2>4 DEF ChatInv, TranscriptOK
  <1> QED
    BY <1>6, <1>7, <1>8, <1>9 DEF ChatInv

(* A step of check_question: the record keeps what the transcript needs.   *)
LEMMA CountMinuteStep == ASSUME ChatInv, NEW q \in Numbers, CountMinute(q) PROVE ChatInv'
  <1>1. question[q] \in QuestionRow /\ QuestionOK(question[q]) /\ question[q].pc = "arrived"
    BY RowTyped DEF CountMinute
  <1>2. PICK over \in {0, 1} : over = 1 <=> OverQuota(minute'.count, PerMinute)
    OBVIOUS
  <1>3. PICK w \in 0 .. MaxWindows : w = minute.window /\ w \in 0 .. Uncounted
    BY ChatBounds DEF ChatInv, MinutesOK, Counter, Uncounted
  <1>4. PICK pc \in {"refused", "counted"}, scope \in {"minute", "none"} :
            /\ pc = IF over = 1 THEN "refused" ELSE "counted"
            /\ scope = IF over = 1 THEN "minute" ELSE "none"
    OBVIOUS
  <1>5. PICK r \in QuestionRow :
            r = [question[q] EXCEPT !.inMinute = w, !.pc = pc, !.scope = scope]
    BY <1>1, <1>3 DEF QuestionRow, Scopes
  <1>6. /\ r.inMinute = w /\ r.pc = pc /\ r.scope = scope /\ r.inDay = question[q].inDay
        /\ r.session = question[q].session /\ r.at = question[q].at
        /\ r.usage = question[q].usage
    BY <1>1, <1>5 DEF QuestionRow
  <1>7. question' = [question EXCEPT ![q] = r]
    BY <1>2, <1>3, <1>4, <1>5 DEF CountMinute
  <1>8. QuestionOK(r)
    BY <1>1, <1>3, <1>4, <1>6, ChatBounds DEF QuestionOK, Uncounted
  <1>9. /\ QuestionsOK' /\ Numbers' = Numbers /\ question'[q] = r
        /\ \A p \in Numbers \ {q} : question'[p] = question[p]
    BY <1>7, <1>8, RowChanges DEF ChatInv
  <1>10. MinutesOK'
    <2>1. minute' = Increment(minute) /\ question[q].inMinute = Uncounted
      BY <1>1 DEF CountMinute, QuestionOK
    <2>2. question'[q].scope = "minute" => OverQuota(minute'.count, PerMinute)
      BY <1>2, <1>4, <1>6, <1>9
    <2>3. question'[q].scope \notin {"minute", "unavailable"}
              => ~OverQuota(minute'.count, PerMinute)
      BY <1>2, <1>4, <1>6, <1>9
    <2> QED
      BY <1>3, <1>6, <1>9, <2>1, <2>2, <2>3, MinuteCounts DEF ChatInv
  <1>11. DaysOK'
    <2>1. \A p \in Numbers :
            /\ question'[p].inDay = question[p].inDay
            /\ question'[p].scope \in {"day", "allowed"} => question'[p].scope = question[p].scope
      BY <1>4, <1>6, <1>9
    <2> QED
      BY <1>9, <2>1, DaysKept DEF ChatInv, CountMinute
  <1>12. TranscriptOK'
    BY <1>1, <1>6, <1>9, TranscriptKept DEF CountMinute
  <1> QED
    BY <1>9, <1>10, <1>11, <1>12 DEF ChatInv

LEMMA CountDayStep == ASSUME ChatInv, NEW q \in Numbers, CountDay(q) PROVE ChatInv'
  <1>1. question[q] \in QuestionRow /\ QuestionOK(question[q]) /\ question[q].pc = "counted"
    BY RowTyped DEF CountDay
  <1>2. PICK over \in {0, 1} : over = 1 <=> OverQuota(day'.count, PerDay)
    OBVIOUS
  <1>3. PICK w \in 0 .. MaxWindows : w = day.window /\ w \in 0 .. Uncounted
    BY ChatBounds DEF ChatInv, DaysOK, Counter, Uncounted
  <1>4. PICK pc \in {"refused", "asking"}, scope \in {"day", "allowed"} :
            /\ pc = IF over = 1 THEN "refused" ELSE "asking"
            /\ scope = IF over = 1 THEN "day" ELSE "allowed"
    OBVIOUS
  <1>5. PICK r \in QuestionRow :
            r = [question[q] EXCEPT !.inDay = w, !.pc = pc, !.scope = scope]
    BY <1>1, <1>3 DEF QuestionRow, Scopes
  <1>6. /\ r.inDay = w /\ r.pc = pc /\ r.scope = scope /\ r.inMinute = question[q].inMinute
        /\ r.session = question[q].session /\ r.at = question[q].at
        /\ r.usage = question[q].usage
    BY <1>1, <1>5 DEF QuestionRow
  <1>7. question' = [question EXCEPT ![q] = r]
    BY <1>2, <1>3, <1>4, <1>5 DEF CountDay
  <1>8. QuestionOK(r)
    BY <1>1, <1>3, <1>4, <1>6, ChatBounds DEF QuestionOK, Uncounted
  <1>9. /\ QuestionsOK' /\ Numbers' = Numbers /\ question'[q] = r
        /\ \A p \in Numbers \ {q} : question'[p] = question[p]
    BY <1>7, <1>8, RowChanges DEF ChatInv
  <1>10. DaysOK'
    <2>1. day' = Increment(day) /\ question[q].inDay = Uncounted
      BY <1>1 DEF CountDay, QuestionOK
    <2>2. question'[q].scope = "day" => OverQuota(day'.count, PerDay)
      BY <1>2, <1>4, <1>6, <1>9
    <2>3. question'[q].scope = "allowed" => ~OverQuota(day'.count, PerDay)
      BY <1>2, <1>4, <1>6, <1>9
    <2> QED
      BY <1>3, <1>6, <1>9, <2>1, <2>2, <2>3, DayCounts DEF ChatInv
  <1>11. MinutesOK'
    <2>1. question[q].scope = "none"
      BY <1>1 DEF QuestionOK
    <2>2. \A p \in Numbers :
            /\ question'[p].inMinute = question[p].inMinute
            /\ question'[p].scope = "minute" => question[p].scope = "minute"
            /\ question'[p].scope \notin {"minute", "unavailable"}
                  => question[p].scope \notin {"minute", "unavailable"}
      BY <1>4, <1>6, <1>9, <2>1
    <2> QED
      BY <1>9, <2>2, MinutesKept DEF ChatInv, CountDay
  <1>12. TranscriptOK'
    BY <1>1, <1>6, <1>9, TranscriptKept DEF CountDay
  <1> QED
    BY <1>9, <1>10, <1>11, <1>12 DEF ChatInv

(* Redis fails: what has been counted stays counted.                       *)
LEMMA RedisFailsStep == ASSUME ChatInv, NEW q \in Numbers, RedisFails(q) PROVE ChatInv'
  <1>1. /\ question[q] \in QuestionRow /\ QuestionOK(question[q])
        /\ question[q].pc \in {"arrived", "counted"} /\ question[q].scope = "none"
        /\ question[q].inDay = Uncounted
    BY RowTyped DEF RedisFails, QuestionOK
  <1>2. /\ minute.window \in 0 .. MaxWindows /\ day.window \in 0 .. MaxWindows
    BY DEF ChatInv, MinutesOK, DaysOK, Counter
  <1>3. PICK m \in 0 .. Uncounted, d \in 0 .. Uncounted :
            /\ question' = [question EXCEPT ![q] = [question[q] EXCEPT
                    !.pc = "asking", !.scope = "unavailable", !.inMinute = m, !.inDay = d]]
            /\ \/ m = question[q].inMinute /\ UNCHANGED minute
               \/ /\ question[q].pc = "arrived" /\ m = minute.window
                  /\ minute' = Increment(minute)
            /\ \/ d = question[q].inDay /\ UNCHANGED day
               \/ question[q].pc = "counted" /\ d = day.window /\ day' = Increment(day)
    <2>1. question[q].inMinute \in 0 .. Uncounted /\ question[q].inDay \in 0 .. Uncounted
      BY <1>1 DEF QuestionRow
    <2>2. \A w \in 0 .. MaxWindows : w \in 0 .. Uncounted
      BY ChatBounds DEF Uncounted
    <2>3. [question[q] EXCEPT !.pc = "asking", !.scope = "unavailable"]
            = [question[q] EXCEPT !.pc = "asking", !.scope = "unavailable",
                   !.inMinute = question[q].inMinute, !.inDay = question[q].inDay]
      BY <1>1 DEF QuestionRow
    <2>4. [question[q] EXCEPT !.pc = "asking", !.scope = "unavailable", !.inMinute = minute.window]
            = [question[q] EXCEPT !.pc = "asking", !.scope = "unavailable",
                   !.inMinute = minute.window, !.inDay = question[q].inDay]
      BY <1>1 DEF QuestionRow
    <2>5. [question[q] EXCEPT !.pc = "asking", !.scope = "unavailable", !.inDay = day.window]
            = [question[q] EXCEPT !.pc = "asking", !.scope = "unavailable",
                   !.inMinute = question[q].inMinute, !.inDay = day.window]
      BY <1>1 DEF QuestionRow
    <2>6. CASE /\ question' = [question EXCEPT ![q].pc = "asking", ![q].scope = "unavailable"]
               /\ UNCHANGED <<minute, day>>
      <3>1. question' = [question EXCEPT ![q] = [question[q] EXCEPT
                    !.pc = "asking", !.scope = "unavailable", !.inMinute = question[q].inMinute,
                    !.inDay = question[q].inDay]]
        BY <2>3, <2>6
      <3> QED
        BY <2>1, <2>6, <3>1
    <2>7. CASE /\ question[q].pc = "arrived"
               /\ question' = [question EXCEPT ![q].pc = "asking", ![q].scope = "unavailable",
                                               ![q].inMinute = minute.window]
               /\ minute' = Increment(minute) /\ UNCHANGED day
      <3>1. question' = [question EXCEPT ![q] = [question[q] EXCEPT
                    !.pc = "asking", !.scope = "unavailable", !.inMinute = minute.window,
                    !.inDay = question[q].inDay]]
        BY <2>4, <2>7
      <3> QED
        BY <1>2, <2>1, <2>2, <2>7, <3>1
    <2>8. CASE /\ question[q].pc = "counted"
               /\ question' = [question EXCEPT ![q].pc = "asking", ![q].scope = "unavailable",
                                               ![q].inDay = day.window]
               /\ day' = Increment(day) /\ UNCHANGED minute
      <3>1. question' = [question EXCEPT ![q] = [question[q] EXCEPT
                    !.pc = "asking", !.scope = "unavailable", !.inMinute = question[q].inMinute,
                    !.inDay = day.window]]
        BY <2>5, <2>8
      <3> QED
        BY <1>2, <2>1, <2>2, <2>8, <3>1
    <2> QED
      BY <2>6, <2>7, <2>8 DEF RedisFails
  <1>4. PICK r \in QuestionRow :
            r = [question[q] EXCEPT !.pc = "asking", !.scope = "unavailable",
                                    !.inMinute = m, !.inDay = d]
    BY <1>1 DEF QuestionRow, Scopes
  <1>5. /\ r.inDay = d /\ r.pc = "asking" /\ r.scope = "unavailable" /\ r.inMinute = m
        /\ r.session = question[q].session /\ r.at = question[q].at
        /\ r.usage = question[q].usage
    BY <1>1, <1>4 DEF QuestionRow
  <1>6. QuestionOK(r)
    BY <1>1, <1>5 DEF QuestionOK
  <1>7. /\ QuestionsOK' /\ Numbers' = Numbers /\ question'[q] = r
        /\ \A p \in Numbers \ {q} : question'[p] = question[p]
    BY <1>3, <1>4, <1>6, RowChanges DEF ChatInv
  <1>8. MinutesOK'
    <2>1. CASE m = question[q].inMinute /\ UNCHANGED minute
      <3>1. \A p \in Numbers :
              /\ question'[p].inMinute = question[p].inMinute
              /\ question'[p].scope = "minute" => question[p].scope = "minute"
              /\ question'[p].scope \notin {"minute", "unavailable"}
                    => question[p].scope \notin {"minute", "unavailable"}
        BY <1>5, <1>7, <2>1
      <3> QED
        BY <1>7, <2>1, <3>1, MinutesKept DEF ChatInv
    <2>2. CASE question[q].pc = "arrived" /\ m = minute.window /\ minute' = Increment(minute)
      <3>1. question[q].inMinute = Uncounted
        BY <1>1, <2>2 DEF QuestionOK
      <3> QED
        BY <1>5, <1>7, <2>2, <3>1, MinuteCounts DEF ChatInv
    <2> QED
      BY <1>3, <2>1, <2>2
  <1>9. DaysOK'
    <2>1. CASE d = question[q].inDay /\ UNCHANGED day
      <3>1. \A p \in Numbers :
              /\ question'[p].inDay = question[p].inDay
              /\ question'[p].scope \in {"day", "allowed"}
                    => question'[p].scope = question[p].scope
        BY <1>5, <1>7, <2>1
      <3> QED
        BY <1>7, <2>1, <3>1, DaysKept DEF ChatInv
    <2>2. CASE question[q].pc = "counted" /\ d = day.window /\ day' = Increment(day)
      BY <1>1, <1>5, <1>7, <2>2, DayCounts DEF ChatInv
    <2> QED
      BY <1>3, <2>1, <2>2
  <1>10. TranscriptOK'
    BY <1>1, <1>5, <1>7, TranscriptKept DEF RedisFails
  <1> QED
    BY <1>7, <1>8, <1>9, <1>10 DEF ChatInv

LEMMA AnswerEndsStep ==
  ASSUME ChatInv, NEW q \in Numbers, NEW pc \in {"answered", "failed"},
         NEW usage \in {"success", "failure", "lost"}, AnswerEnds(q, pc, usage)
  PROVE  ChatInv'
  <1>1. question[q] \in QuestionRow /\ QuestionOK(question[q]) /\ question[q].pc = "asking"
    BY RowTyped DEF AnswerEnds
  <1>2. PICK r \in QuestionRow : r = [question[q] EXCEPT !.pc = pc, !.usage = usage]
    BY <1>1 DEF QuestionRow
  <1>3. /\ r.pc = pc /\ r.usage = usage /\ r.scope = question[q].scope
        /\ r.inMinute = question[q].inMinute /\ r.inDay = question[q].inDay
        /\ r.session = question[q].session /\ r.at = question[q].at
    BY <1>1, <1>2 DEF QuestionRow
  <1>4. QuestionOK(r)
    BY <1>1, <1>3 DEF QuestionOK
  <1> QED
    BY <1>1, <1>2, <1>3, <1>4, GoesOn DEF AnswerEnds

(* A request moves on in record_exchange, and nothing else changes.        *)
LEMMA Turns ==
  ASSUME ChatInv, NEW q \in Numbers, NEW pc \in {"creating", "raced", "unsaved"}, Turn(q, pc),
         question[q].pc \in {"answered", "creating", "raced", "in_session", "recording"},
         UNCHANGED <<minute, day, session, opened, exchanges, begun>>,
         pc # "unsaved" => question[q].pc \in {"answered", "creating"}
  PROVE  ChatInv'
  <1>1. question[q] \in QuestionRow /\ QuestionOK(question[q])
    BY RowTyped
  <1>2. PICK r \in QuestionRow : r = [question[q] EXCEPT !.pc = pc]
    BY <1>1 DEF QuestionRow
  <1>3. /\ r.pc = pc /\ r.usage = question[q].usage /\ r.scope = question[q].scope
        /\ r.inMinute = question[q].inMinute /\ r.inDay = question[q].inDay
        /\ r.session = question[q].session /\ r.at = question[q].at
    BY <1>1, <1>2 DEF QuestionRow
  <1>4. QuestionOK(r)
    BY <1>1, <1>3 DEF QuestionOK
  <1> QED
    BY <1>2, <1>3, <1>4, GoesOn DEF Turn

LEMMA SessionPicked ==
  ASSUME ChatInv, NEW q \in Numbers, NEW s \in Nat, s # 0,
         question[q].pc \in {"answered", "raced", "creating"}
  PROVE  \E r \in QuestionRow :
            /\ r = [question[q] EXCEPT !.pc = "in_session", !.session = s]
            /\ QuestionOK(r)
            /\ r.inMinute = question[q].inMinute /\ r.inDay = question[q].inDay
            /\ r.scope = question[q].scope /\ r.at = question[q].at
  <1>1. question[q] \in QuestionRow /\ QuestionOK(question[q])
    BY RowTyped
  <1>2. PICK r \in QuestionRow : r = [question[q] EXCEPT !.pc = "in_session", !.session = s]
    BY <1>1 DEF QuestionRow
  <1>3. /\ r.pc = "in_session" /\ r.usage = question[q].usage /\ r.scope = question[q].scope
        /\ r.inMinute = question[q].inMinute /\ r.inDay = question[q].inDay
        /\ r.session = s /\ r.at = question[q].at
    BY <1>1, <1>2 DEF QuestionRow
  <1>4. QuestionOK(r)
    BY <1>1, <1>3 DEF QuestionOK
  <1> QED
    BY <1>2, <1>3, <1>4

LEMMA SelectSessionStep == ASSUME ChatInv, NEW q \in Numbers, SelectSession(q) PROVE ChatInv'
  <1>1. /\ question[q].pc \in {"answered", "raced"}
        /\ UNCHANGED <<minute, day, session, opened, exchanges, begun>>
    BY DEF SelectSession
  <1>2. session \in Nat
    BY DEF ChatInv, TranscriptOK
  <1>3. CASE session # 0
    <2>1. PICK r \in QuestionRow :
            /\ r = [question[q] EXCEPT !.pc = "in_session", !.session = session]
            /\ QuestionOK(r)
            /\ r.inMinute = question[q].inMinute /\ r.inDay = question[q].inDay
            /\ r.scope = question[q].scope /\ r.at = question[q].at
      BY <1>1, <1>2, <1>3, SessionPicked
    <2>2. question' = [question EXCEPT ![q] = r]
      BY <1>3, <2>1 DEF SelectSession, InSession
    <2> QED
      BY <1>1, <2>1, <2>2, GoesOn
  <1>4. CASE session = 0
    <2>1. CASE question[q].pc = "answered"
      BY <1>1, <1>4, <2>1, Turns DEF SelectSession
    <2>2. CASE question[q].pc = "raced"
      BY <1>1, <1>4, <2>2, Turns DEF SelectSession
    <2> QED
      BY <1>1, <2>1, <2>2
  <1> QED
    BY <1>3, <1>4

(* Without a session no exchange is left, so a new one takes over none.    *)
LEMMA CreateSessionStep == ASSUME ChatInv, NEW q \in Numbers, CreateSession(q) PROVE ChatInv'
  <1>1. question[q].pc = "creating" /\ UNCHANGED <<minute, day, exchanges, begun>>
    BY DEF CreateSession
  <1>2. CASE session = 0
    <2>1. PICK s \in Nat : s = opened + 1 /\ s # 0
      BY DEF ChatInv, TranscriptOK
    <2>2. session' = s /\ opened' = s /\ InSession(q, s)
      BY <1>2, <2>1 DEF CreateSession
    <2>3. PICK r \in QuestionRow :
            /\ r = [question[q] EXCEPT !.pc = "in_session", !.session = s]
            /\ QuestionOK(r)
            /\ r.inMinute = question[q].inMinute /\ r.inDay = question[q].inDay
            /\ r.scope = question[q].scope /\ r.at = question[q].at
      BY <1>1, <2>1, SessionPicked
    <2>4. /\ QuestionsOK' /\ Numbers' = Numbers /\ question'[q] = r
          /\ \A p \in Numbers \ {q} : question'[p] = question[p]
      <3>1. question' = [question EXCEPT ![q] = r]
        BY <2>2, <2>3 DEF InSession
      <3> QED
        BY <2>3, <3>1, RowChanges DEF ChatInv
    <2>5. exchanges = {}
      <3>1. ASSUME NEW e \in exchanges PROVE FALSE
        <4>1. e.session = 0 /\ e.of \in Numbers /\ question[e.of].pc = "saved"
              /\ question[e.of].session = 0
          BY <1>2 DEF ChatInv, TranscriptOK, ExchangeRow
        <4> QED
          BY <4>1, RowTyped DEF QuestionOK
      <3> QED
        BY <3>1
    <2>6. \A p \in Numbers : /\ question'[p].inMinute = question[p].inMinute
                             /\ question'[p].inDay = question[p].inDay
                             /\ question'[p].scope = question[p].scope
                             /\ question'[p].at = question[p].at
      BY <2>3, <2>4
    <2>7. MinutesOK'
      BY <1>1, <2>4, <2>6, MinutesKept DEF ChatInv
    <2>8. DaysOK'
      BY <1>1, <2>4, <2>6, DaysKept DEF ChatInv
    <2>9. TranscriptOK'
      BY <1>1, <2>1, <2>2, <2>4, <2>5, <2>6 DEF ChatInv, TranscriptOK
    <2> QED
      BY <2>4, <2>7, <2>8, <2>9 DEF ChatInv
  <1>3. CASE session # 0
    BY <1>1, <1>3, Turns DEF CreateSession
  <1> QED
    BY <1>2, <1>3

(* A transaction begins at a time of its own.                              *)
LEMMA BeginRecordStep == ASSUME ChatInv, NEW q \in Numbers, BeginRecord(q) PROVE ChatInv'
  <1>1. /\ question[q] \in QuestionRow /\ QuestionOK(question[q])
        /\ question[q].pc = "in_session" /\ begun \in Nat
    BY RowTyped DEF BeginRecord, ChatInv, TranscriptOK
  <1>2. PICK n \in Nat : n = begun + 1 /\ n # 0
    BY <1>1
  <1>3. PICK r \in QuestionRow : r = [question[q] EXCEPT !.pc = "recording", !.at = n]
    BY <1>1 DEF QuestionRow
  <1>4. /\ r.pc = "recording" /\ r.usage = question[q].usage /\ r.scope = question[q].scope
        /\ r.inMinute = question[q].inMinute /\ r.inDay = question[q].inDay
        /\ r.session = question[q].session /\ r.at = n
    BY <1>1, <1>3 DEF QuestionRow
  <1>5. QuestionOK(r)
    BY <1>1, <1>2, <1>4 DEF QuestionOK
  <1>6. /\ question' = [question EXCEPT ![q] = r] /\ begun' = n
        /\ UNCHANGED <<minute, day, session, opened, exchanges>>
    BY <1>2, <1>3 DEF BeginRecord
  <1>7. /\ QuestionsOK' /\ Numbers' = Numbers /\ question'[q] = r
        /\ \A p \in Numbers \ {q} : question'[p] = question[p]
    BY <1>5, <1>6, RowChanges DEF ChatInv
  <1>8. \A p \in Numbers : /\ question'[p].inMinute = question[p].inMinute
                           /\ question'[p].inDay = question[p].inDay
                           /\ question'[p].scope = question[p].scope
    BY <1>4, <1>7
  <1>9. MinutesOK'
    BY <1>6, <1>7, <1>8, MinutesKept DEF ChatInv
  <1>10. DaysOK'
    BY <1>6, <1>7, <1>8, DaysKept DEF ChatInv
  <1>11. TranscriptOK'
    <2>1. \A p \in Numbers : question[p].at \in Nat /\ question[p].at <= begun
      BY RowTyped DEF QuestionRow, ChatInv, TranscriptOK
    <2>2. \A p \in Numbers : question'[p].at = IF p = q THEN n ELSE question[p].at
      BY <1>4, <1>7
    <2>3. \A p \in Numbers : question'[p].at <= n
      BY <1>1, <1>2, <2>1, <2>2
    <2>4. \A p \in Numbers \ {q} : question[p].at # n
      BY <1>1, <1>2, <2>1
    <2>5. \A p, s \in Numbers :
              question'[p].at # 0 /\ question'[p].at = question'[s].at => p = s
      BY <2>2, <2>4 DEF ChatInv, TranscriptOK
    <2>6. \A e \in exchanges : e.of \in Numbers /\ e.of # q
      BY <1>1 DEF ChatInv, TranscriptOK, ExchangeRow
    <2>7. exchanges' \subseteq ExchangeRow'
      BY <1>6, <1>7 DEF ChatInv, TranscriptOK, ExchangeRow
    <2>8. \A e \in exchanges :
            /\ question'[e.of].pc = "saved" /\ e.at = question'[e.of].at
            /\ e.session = question'[e.of].session /\ e.session = session
      BY <1>7, <2>6 DEF ChatInv, TranscriptOK
    <2> QED
      BY <1>6, <1>7, <2>3, <2>5, <2>7, <2>8 DEF ChatInv, TranscriptOK
  <1> QED
    BY <1>7, <1>9, <1>10, <1>11 DEF ChatInv

LEMMA CommitRecordStep == ASSUME ChatInv, NEW q \in Numbers, CommitRecord(q) PROVE ChatInv'
  <1>1. /\ question[q] \in QuestionRow /\ QuestionOK(question[q])
        /\ question[q].pc = "recording"
        /\ UNCHANGED <<minute, day, session, opened, begun>>
    BY RowTyped DEF CommitRecord
  <1>2. CASE question[q].session = session
    <2>1. PICK r \in QuestionRow : r = [question[q] EXCEPT !.pc = "saved"]
      BY <1>1 DEF QuestionRow
    <2>2. /\ r.pc = "saved" /\ r.usage = question[q].usage /\ r.scope = question[q].scope
          /\ r.inMinute = question[q].inMinute /\ r.inDay = question[q].inDay
          /\ r.session = question[q].session /\ r.at = question[q].at
      BY <1>1, <2>1 DEF QuestionRow
    <2>3. QuestionOK(r)
      BY <1>1, <2>2 DEF QuestionOK
    <2> DEFINE new == [of |-> q, session |-> question[q].session, at |-> question[q].at]
    <2>4. question' = [question EXCEPT ![q] = r] /\ exchanges' = exchanges \cup {new}
      BY <1>2, <2>1 DEF CommitRecord, SessionExists, Turn
    <2>5. /\ QuestionsOK' /\ Numbers' = Numbers /\ question'[q] = r
          /\ \A p \in Numbers \ {q} : question'[p] = question[p]
      BY <2>3, <2>4, RowChanges DEF ChatInv
    <2>6. \A p \in Numbers : /\ question'[p].inMinute = question[p].inMinute
                             /\ question'[p].inDay = question[p].inDay
                             /\ question'[p].scope = question[p].scope
                             /\ question'[p].at = question[p].at
      BY <2>2, <2>5
    <2>7. MinutesOK'
      BY <1>1, <2>5, <2>6, MinutesKept DEF ChatInv
    <2>8. DaysOK'
      BY <1>1, <2>5, <2>6, DaysKept DEF ChatInv
    <2>9. TranscriptOK'
      <3>1. /\ new \in ExchangeRow /\ new.of = q /\ new.session = question[q].session
            /\ new.at = question[q].at
        BY <1>1 DEF ExchangeRow, QuestionRow
      <3> HIDE DEF new
      <3>2. exchanges' \subseteq ExchangeRow'
        BY <2>4, <2>5, <3>1 DEF ChatInv, TranscriptOK, ExchangeRow
      <3>3. ASSUME NEW e \in exchanges'
            PROVE  /\ question'[e.of].pc = "saved" /\ e.at = question'[e.of].at
                   /\ e.session = question'[e.of].session /\ e.session = session
        <4>1. CASE e = new
          BY <1>2, <2>2, <2>5, <3>1, <4>1
        <4>2. CASE e \in exchanges
          <5>1. e.of \in Numbers /\ e.of # q
            BY <1>1, <4>2 DEF ChatInv, TranscriptOK, ExchangeRow
          <5> QED
            BY <2>5, <4>2, <5>1 DEF ChatInv, TranscriptOK
        <4> QED
          BY <2>4, <4>1, <4>2
      <3>4. /\ \A p \in Numbers' : question'[p].at <= begun
            /\ \A p, s \in Numbers' :
                  question'[p].at # 0 /\ question'[p].at = question'[s].at => p = s
        BY <2>5, <2>6 DEF ChatInv, TranscriptOK
      <3> QED
        BY <1>1, <3>2, <3>3, <3>4 DEF ChatInv, TranscriptOK
    <2> QED
      BY <2>5, <2>7, <2>8, <2>9 DEF ChatInv
  <1>3. CASE question[q].session # session
    BY <1>1, <1>3, Turns DEF CommitRecord, SessionExists
  <1> QED
    BY <1>2, <1>3

LEMMA RecordFailsStep == ASSUME ChatInv, NEW q \in Numbers, RecordFails(q) PROVE ChatInv'
  BY Turns DEF RecordFails

(* The row goes, and with it (on delete cascade) every exchange.           *)
LEMMA ClearHistoryStep == ASSUME ChatInv, ClearHistory PROVE ChatInv'
  <1>1. session' = 0 /\ UNCHANGED <<minute, day, question, opened, begun>>
    BY DEF ClearHistory
  <1>2. exchanges' = {}
    BY DEF ClearHistory, ChatInv, TranscriptOK
  <1>3. Numbers' = Numbers
    BY <1>1 DEF Numbers
  <1>4. QuestionsOK'
    BY <1>1, <1>3 DEF ChatInv, QuestionsOK, QuestionOK, Uncounted
  <1>5. MinutesOK'
    BY <1>1, <1>3, MinutesKept DEF ChatInv
  <1>6. DaysOK'
    BY <1>1, <1>3, DaysKept DEF ChatInv
  <1>7. TranscriptOK'
    BY <1>1, <1>2, <1>3 DEF ChatInv, TranscriptOK
  <1> QED
    BY <1>4, <1>5, <1>6, <1>7 DEF ChatInv

-----------------------------------------------------------------------------
(* The invariant                                                           *)

LEMMA ChatStarts == ChatInit => ChatInv
  <1> SUFFICES ASSUME ChatInit PROVE ChatInv
    OBVIOUS
  <1>1. Numbers = {} /\ question \in Seq(QuestionRow) /\ Len(question) = 0
    BY DEF ChatInit, Numbers
  <1>2. QuestionsOK
    BY <1>1, ChatBounds DEF QuestionsOK
  <1>3. \A w : MinuteOf(w) = {} /\ DayOf(w) = {} /\ WithinMinute(w) = {} /\ WithinDay(w) = {}
    BY <1>1 DEF MinuteOf, DayOf, WithinMinute, WithinDay
  <1>4. Cardinality({}) = 0 /\ 0 <= PerMinute /\ 0 <= PerDay
    BY FS_EmptySet, QuotasPositive
  <1>5. minute \in Counter /\ day \in Counter /\ minute.count = 0 /\ day.count = 0
    BY ChatBounds DEF ChatInit, Counter
  <1>6. MinutesOK
    BY <1>1, <1>3, <1>4, <1>5 DEF MinutesOK, MinuteOK
  <1>7. DaysOK
    BY <1>1, <1>3, <1>4, <1>5 DEF DaysOK, DayOK
  <1>8. TranscriptOK
    BY <1>1 DEF ChatInit, TranscriptOK
  <1> QED
    BY <1>2, <1>6, <1>7, <1>8 DEF ChatInv

LEMMA ChatSteps == ChatInv /\ [ChatNext]_chat => ChatInv'
  <1> SUFFICES ASSUME ChatInv, [ChatNext]_chat PROVE ChatInv'
    OBVIOUS
  <1>1. CASE ArriveQuestion
    BY <1>1, ArriveQuestionStep
  <1>2. CASE MinutePasses
    BY <1>2, MinutePassesStep
  <1>3. CASE DayPasses
    BY <1>3, DayPassesStep
  <1>4. CASE ClearHistory
    BY <1>4, ClearHistoryStep
  <1>5. ASSUME NEW q \in Numbers, HandleQuestion(q) PROVE ChatInv'
    <2>1. CASE CountMinute(q)
      BY <2>1, CountMinuteStep
    <2>2. CASE CountDay(q)
      BY <2>2, CountDayStep
    <2>3. CASE RedisFails(q)
      BY <2>3, RedisFailsStep
    <2>4. ASSUME NEW pc \in {"answered", "failed"}, NEW usage \in {"success", "failure", "lost"},
                 AnswerEnds(q, pc, usage)
          PROVE  ChatInv'
      BY <2>4, AnswerEndsStep
    <2>5. CASE SelectSession(q)
      BY <2>5, SelectSessionStep
    <2>6. CASE CreateSession(q)
      BY <2>6, CreateSessionStep
    <2>7. CASE BeginRecord(q)
      BY <2>7, BeginRecordStep
    <2>8. CASE CommitRecord(q)
      BY <2>8, CommitRecordStep
    <2>9. CASE RecordFails(q)
      BY <2>9, RecordFailsStep
    <2> QED
      BY <1>5, <2>1, <2>2, <2>3, <2>4, <2>5, <2>6, <2>7, <2>8, <2>9 DEF HandleQuestion
  <1>6. CASE UNCHANGED chat
    <2>1. /\ UNCHANGED <<minute, day, question, session, opened, exchanges, begun>>
          /\ Numbers' = Numbers
      BY <1>6 DEF chat, Numbers
    <2>2. QuestionsOK'
      BY <2>1 DEF ChatInv, QuestionsOK, QuestionOK, Uncounted
    <2>3. MinutesOK' /\ DaysOK'
      BY <2>1, MinutesKept, DaysKept DEF ChatInv
    <2>4. TranscriptOK'
      BY <2>1 DEF ChatInv, TranscriptOK, ExchangeRow
    <2> QED
      BY <2>2, <2>3, <2>4 DEF ChatInv
  <1> QED
    BY <1>1, <1>2, <1>3, <1>4, <1>5, <1>6 DEF ChatNext

LEMMA ChatInvariant == ChatSpec => []ChatInv
  BY ChatStarts, ChatSteps, PTL DEF ChatSpec

LEMMA ChatInvTyped == ChatInv => ChatTypeOK
  <1> SUFFICES ASSUME ChatInv PROVE ChatTypeOK
    OBVIOUS
  <1>1. \A q \in Numbers : question[q] \in QuestionRow /\ QuestionOK(question[q])
    BY RowTyped
  <1>2. /\ minute \in Counter /\ day \in Counter /\ question \in Seq(QuestionRow)
        /\ Len(question) <= MaxQuestions /\ session \in 0 .. opened
        /\ exchanges \subseteq ExchangeRow
    BY DEF ChatInv, MinutesOK, DaysOK, QuestionsOK, TranscriptOK
  <1>3. \A e \in exchanges :
            /\ e.of \in Numbers /\ question[e.of].pc = "saved" /\ e.at = question[e.of].at
            /\ e = [of |-> e.of, session |-> session, at |-> e.at] /\ e.at \in Nat
    BY DEF ChatInv, TranscriptOK, ExchangeRow
  <1>4. \A e \in exchanges : e.at \in 1 .. begun
    <2> TAKE e \in exchanges
    <2>1. e.at # 0
      BY <1>1, <1>3 DEF QuestionOK
    <2>2. e.at <= begun /\ begun \in Nat
      BY <1>3 DEF ChatInv, TranscriptOK
    <2> QED
      BY <1>3, <2>1, <2>2
  <1>5. ASSUME NEW e \in exchanges, NEW f \in exchanges, e.at = f.at PROVE e = f
    <2>1. e.at # 0
      BY <1>1, <1>3 DEF QuestionOK
    <2>2. e.of = f.of
      BY <1>3, <1>5, <2>1 DEF ChatInv, TranscriptOK
    <2>3. /\ e = [of |-> e.of, session |-> session, at |-> e.at]
          /\ f = [of |-> f.of, session |-> session, at |-> f.at]
      BY <1>3
    <2> QED
      BY <1>5, <2>2, <2>3
  <1>6. \A q \in Numbers :
        /\ question[q].pc \in {"in_session", "recording", "saved"} => question[q].session # 0
        /\ question[q].pc \in {"arrived", "refused", "asking"} => question[q].usage = "none"
    BY <1>1 DEF QuestionOK
  <1> QED
    BY <1>2, <1>4, <1>5, <1>6 DEF ChatTypeOK

(* The type invariant of the user's requests and transcript.               *)
THEOREM ChatTyped == ChatSpec => []ChatTypeOK
  BY ChatInvariant, ChatInvTyped, PTL

(* However the requests overlap, and whenever the counters expire: no      *)
(* window lets more through than its quota, and nobody is refused before   *)
(* the quota is used up (check_question's two increments in Redis).        *)
THEOREM QuotasCorrect == ChatSpec => []QuotasHold
  <1>1. ASSUME ChatInv PROVE QuotasHold
    <2>1. question \in Seq(QuestionRow) /\ \A q \in Numbers : QuestionOK(question[q])
      BY <1>1 DEF ChatInv, QuestionsOK
    <2>2. ASSUME NEW w \in 0 .. MaxWindows
          PROVE  /\ Cardinality({q \in Through("allowed") : question[q].inMinute = w}) <= PerMinute
                 /\ Cardinality({q \in Through("allowed") : question[q].inDay = w}) <= PerDay
      <3>1. /\ {q \in Through("allowed") : question[q].inMinute = w} \subseteq WithinMinute(w)
            /\ {q \in Through("allowed") : question[q].inDay = w} = WithinDay(w)
            /\ WithinMinute(w) \subseteq Numbers
        BY DEF Through, WithinMinute, WithinDay, MinuteOf, DayOf
      <3>2. /\ Cardinality({q \in Through("allowed") : question[q].inMinute = w})
                  <= Cardinality(WithinMinute(w))
            /\ Cardinality({q \in Through("allowed") : question[q].inMinute = w}) \in Nat
            /\ Cardinality(WithinMinute(w)) \in Nat
        BY <2>1, <3>1, PartCounted
      <3>3. Cardinality(WithinMinute(w)) <= PerMinute /\ Cardinality(WithinDay(w)) <= PerDay
        BY <1>1 DEF ChatInv, MinutesOK, DaysOK, MinuteOK, DayOK
      <3>4. Cardinality({q \in Through("allowed") : question[q].inMinute = w}) <= PerMinute
        BY <3>2, <3>3, QuotasPositive
      <3>5. Cardinality({q \in Through("allowed") : question[q].inDay = w}) <= PerDay
        BY <3>1, <3>3
      <3> QED
        BY <3>4, <3>5
    <2>3. ASSUME NEW q \in Through("minute")
          PROVE  Cardinality({r \in Numbers : question[r].inMinute = question[q].inMinute})
                    > PerMinute
      <3>1. q \in Numbers /\ question[q].scope = "minute" /\ question[q].inMinute # Uncounted
        BY <2>1 DEF Through, QuestionOK
      <3>2. PICK w \in 0 .. MaxWindows : w = question[q].inMinute
        BY <1>1, <3>1, ChatBounds DEF ChatInv, MinutesOK, Counter
      <3>3. q \in MinuteOf(w) /\ MinuteOK(w)
        BY <1>1, <3>1, <3>2 DEF MinuteOf, ChatInv, MinutesOK
      <3> QED
        BY <3>1, <3>2, <3>3 DEF MinuteOK, MinuteOf
    <2>4. ASSUME NEW q \in Through("day")
          PROVE  Cardinality({r \in Numbers : question[r].inDay = question[q].inDay}) > PerDay
      <3>1. q \in Numbers /\ question[q].scope = "day" /\ question[q].inDay # Uncounted
        BY <2>1 DEF Through, QuestionOK
      <3>2. PICK w \in 0 .. MaxWindows : w = question[q].inDay
        BY <1>1, <3>1, ChatBounds DEF ChatInv, DaysOK, Counter
      <3>3. q \in DayOf(w) /\ DayOK(w)
        BY <1>1, <3>1, <3>2 DEF DayOf, ChatInv, DaysOK
      <3> QED
        BY <3>1, <3>2, <3>3 DEF DayOK, DayOf
    <2> QED
      BY <2>2, <2>3, <2>4 DEF QuotasHold
  <1> QED
    BY <1>1, ChatInvariant, PTL

(* What was under way when the transcript was cleared appears in none, or  *)
(* in one opened since (delete, and record_exchange's foreign key).        *)
THEOREM TranscriptCleared == ChatSpec => []ClearedStaysCleared
  <1>1. ChatInv => ClearedStaysCleared
    BY DEF ChatInv, TranscriptOK, ClearedStaysCleared
  <1> QED
    BY <1>1, ChatInvariant, PTL

-----------------------------------------------------------------------------
(* The listing of the transcript.  What a listing pairs is a recursion     *)
(* over its messages, so the facts about it go by induction over their     *)
(* number: the library's induction theorems take an operator, Induction    *)
(* takes a set.                                                            *)
LEMMA Least ==
  ASSUME NEW T \in SUBSET Nat, T # {}
  PROVE  \E n \in T : \A m \in T : n <= m
  <1>1. PICK n \in T : \A m \in T : ~ (<<m, n>> \in OpToRel(<, Nat))
    BY WFMin, NatLessThanWellFounded, Zenon
  <1>2. \A m \in T : ~ (m < n)
    BY <1>1, Zenon DEF OpToRel
  <1>3. \A m \in T : n <= m
    BY <1>2
  <1> QED
    BY <1>3

(* Induction, as a fact about a set of numbers.                            *)
LEMMA Induction ==
  ASSUME NEW S, 0 \in S, \A n \in Nat : n \in S => n + 1 \in S
  PROVE  Nat \subseteq S
  <1> SUFFICES ASSUME Nat \ S # {} PROVE FALSE
    OBVIOUS
  <1>1. PICK n \in Nat \ S : \A m \in Nat \ S : n <= m
    BY Least
  <1>2. n # 0 /\ n - 1 \in Nat /\ n - 1 < n /\ (n - 1) + 1 = n
    BY <1>1
  <1>3. n - 1 \in S
    BY <1>1, <1>2
  <1> QED
    BY <1>2, <1>3

(* The exchanges of a session are finitely many, at times of their own, so *)
(* there is a latest one, and an order for a listing to follow.            *)
LEMMA ListedFinite == ASSUME ChatInv PROVE IsFiniteSet(Listed) /\ Cardinality(Listed) \in Nat
  <1>1. IsFiniteSet(Numbers)
    BY FS_Interval DEF ChatInv, QuestionsOK, Numbers
  <1> DEFINE f == [e \in Listed |-> e.of]
  <1>2. f \in Injection(Listed, Numbers)
    <2>1. \A e \in Listed : e.of \in Numbers
      BY DEF Listed, ChatInv, TranscriptOK, ExchangeRow
    <2>2. \A e, d \in Listed : e.of = d.of => e = d
      BY DEF Listed, ChatInv, TranscriptOK, ExchangeRow
    <2> QED
      BY <2>1, <2>2 DEF Injection, IsInjective
  <1>3. IsFiniteSet(Listed)
    BY <1>1, <1>2, FS_Injection
  <1> QED
    BY <1>3, FS_CardinalityType

LEMMA Latest ==
  ASSUME ChatInv, NEW T \in SUBSET Listed, T # {}
  PROVE  \E m \in T : \A e \in T \ {m} : e.at < m.at
  <1> DEFINE ages == {begun - e.at : e \in T}
  <1>1. \A e \in T : e.at \in Nat /\ e.at <= begun /\ begun \in Nat
    <2>1. \A e \in T : e.of \in Numbers /\ e.at = question[e.of].at /\ e.at \in Nat
      BY DEF Listed, ChatInv, TranscriptOK, ExchangeRow
    <2> QED
      BY <2>1 DEF ChatInv, TranscriptOK
  <1>2. ages \in SUBSET Nat /\ ages # {}
    BY <1>1
  <1>3. PICK a \in ages : \A b \in ages : a <= b
    BY <1>2, Least
  <1>4. PICK m \in T : a = begun - m.at
    BY <1>3
  <1>5. ASSUME NEW e \in T PROVE e.at <= m.at
    <2>1. a <= begun - e.at
      BY <1>3
    <2> QED
      BY <1>1, <1>4, <2>1
  <1>6. \A e \in T : e.at = m.at => e = m
    <2> TAKE e \in T
    <2> SUFFICES ASSUME e.at = m.at PROVE e = m
      OBVIOUS
    <2>1. /\ e.of \in Numbers /\ m.of \in Numbers
          /\ e.at = question[e.of].at /\ m.at = question[m.of].at
          /\ question[e.of].pc = "saved" /\ e.session = m.session
          /\ e \in ExchangeRow /\ m \in ExchangeRow
      BY DEF Listed, ChatInv, TranscriptOK, ExchangeRow
    <2>2. e.at # 0
      BY <2>1, RowTyped DEF QuestionOK
    <2>3. e.of = m.of
      BY <2>1, <2>2 DEF ChatInv, TranscriptOK
    <2> QED
      BY <2>1, <2>3 DEF ExchangeRow
  <1> QED
    BY <1>1, <1>5, <1>6

Ascending(s) == \A i, k \in DOMAIN s : i < k => s[i].at < s[k].at

LEMMA Sortable ==
  ASSUME ChatInv, NEW n \in Nat
  PROVE  \A T \in SUBSET Listed : Cardinality(T) = n => \E s \in [1 .. n -> T] : Ascending(s)
  <1> DEFINE Sorts(k) == \A T \in SUBSET Listed :
                            Cardinality(T) = k => \E s \in [1 .. k -> T] : Ascending(s)
             S == {k \in Nat : Sorts(k)}
  <1>1. 0 \in S
    <2>1. ASSUME NEW T \in SUBSET Listed PROVE <<>> \in [1 .. 0 -> T] /\ Ascending(<<>>)
      BY DEF Ascending
    <2> QED
      BY <2>1
  <1>2. ASSUME NEW k \in Nat, Sorts(k) PROVE Sorts(k + 1)
    <2> SUFFICES ASSUME NEW T \in SUBSET Listed, Cardinality(T) = k + 1
                 PROVE  \E s \in [1 .. k + 1 -> T] : Ascending(s)
      OBVIOUS
    <2>1. IsFiniteSet(T)
      BY ListedFinite, FS_Subset
    <2>2. T # {}
      BY FS_EmptySet
    <2>3. PICK m \in T : \A e \in T \ {m} : e.at < m.at
      BY <2>2, Latest
    <2>4. Cardinality(T \ {m}) = k /\ T \ {m} \in SUBSET Listed
      BY <2>1, FS_RemoveElement
    <2>5. PICK s \in [1 .. k -> T \ {m}] : Ascending(s)
      BY <1>2, <2>4
    <2> DEFINE t == [i \in 1 .. k + 1 |-> IF i = k + 1 THEN m ELSE s[i]]
    <2>6. \A i \in 1 .. k : t[i] = s[i] /\ s[i] \in T \ {m}
      OBVIOUS
    <2>7. t[k + 1] = m /\ DOMAIN t = 1 .. k + 1
      OBVIOUS
    <2>8. t \in [1 .. k + 1 -> T]
      BY <2>6
    <2> HIDE DEF t
    <2>9. ASSUME NEW i \in 1 .. k + 1, NEW j \in 1 .. k + 1, i < j PROVE t[i].at < t[j].at
      <3>1. i \in 1 .. k
        BY <2>9
      <3>2. CASE j = k + 1
        BY <2>3, <2>6, <2>7, <3>1, <3>2
      <3>3. CASE j # k + 1
        <4>1. j \in 1 .. k
          BY <3>3
        <4> QED
          BY <2>5, <2>6, <2>9, <3>1, <4>1 DEF Ascending
      <3> QED
        BY <3>2, <3>3
    <2>10. Ascending(t)
      BY <2>7, <2>9 DEF Ascending
    <2> QED
      BY <2>8, <2>10
  <1> HIDE DEF Sorts
  <1>3. \A k \in Nat : k \in S => k + 1 \in S
    BY <1>2
  <1> HIDE DEF S
  <1>4. n \in S
    BY <1>1, <1>3, Induction
  <1> QED
    BY <1>4 DEF S, Sorts

(* There is always a listing, so HistoryExplained is about one.            *)
LEMMA ListingExists == ASSUME ChatInv PROVE ByCreatedAt # {}
  <1>1. PICK n \in Nat : n = Cardinality(Listed)
    BY ListedFinite
  <1>2. PICK s \in [1 .. n -> Listed] : Ascending(s)
    BY <1>1, Sortable
  <1> QED
    BY <1>1, <1>2 DEF ByCreatedAt, Ascending

(* The recursion of Pairing has a solution, which it is.                   *)
NoPairs == [pairs |-> <<>>, pending |-> 0]

PairingTo(rows, m, f) ==
    f = [n \in 0 .. m |-> IF n = 0 THEN NoPairs ELSE NextPair(f[n - 1], rows[n])]

LEMMA PairingExists ==
  ASSUME NEW rows, NEW m \in Nat
  PROVE  \E f : PairingTo(rows, m, f)
  <1> DEFINE S == {n \in Nat : \E f : PairingTo(rows, n, f)}
  <1>1. 0 \in S
    <2>1. PairingTo(rows, 0, [n \in 0 .. 0 |-> NoPairs])
      BY DEF PairingTo
    <2> QED
      BY <2>1
  <1>2. ASSUME NEW n \in Nat, n \in S PROVE n + 1 \in S
    <2>1. PICK f : PairingTo(rows, n, f)
      BY <1>2
    <2> DEFINE g == [k \in 0 .. n + 1 |-> IF k = n + 1 THEN NextPair(f[n], rows[k]) ELSE f[k]]
    <2>2. \A k \in 0 .. n + 1 : g[k] = IF k = 0 THEN NoPairs ELSE NextPair(g[k - 1], rows[k])
      <3> TAKE k \in 0 .. n + 1
      <3>1. CASE k = n + 1
        BY <3>1
      <3>2. CASE k # n + 1
        <4>1. k \in 0 .. n /\ (k # 0 => k - 1 \in 0 .. n /\ k - 1 # n + 1)
          BY <3>2
        <4>2. f[k] = IF k = 0 THEN NoPairs ELSE NextPair(f[k - 1], rows[k])
          BY <2>1, <4>1 DEF PairingTo
        <4> QED
          BY <3>2, <4>1, <4>2
      <3> QED
        BY <3>1, <3>2
    <2>3. g = [k \in 0 .. n + 1 |-> IF k = 0 THEN NoPairs ELSE NextPair(g[k - 1], rows[k])]
      BY <2>2
    <2>4. PairingTo(rows, n + 1, g)
      BY <2>3 DEF PairingTo
    <2> HIDE DEF g
    <2> QED
      BY <2>4
  <1> HIDE DEF S
  <1>3. m \in S
    BY <1>1, <1>2, Induction
  <1> QED
    BY <1>3 DEF S

LEMMA PairingSteps ==
  ASSUME NEW rows, Len(rows) \in Nat
  PROVE  \A n \in 0 .. Len(rows) :
            Pairing(rows)[n] = IF n = 0 THEN NoPairs ELSE NextPair(Pairing(rows)[n - 1], rows[n])
  <1>1. PICK f : PairingTo(rows, Len(rows), f)
    BY PairingExists
  <1>2. Pairing(rows) = CHOOSE g : PairingTo(rows, Len(rows), g)
    BY DEF Pairing, PairingTo, NoPairs
  <1>3. PairingTo(rows, Len(rows), Pairing(rows))
    BY <1>1, <1>2
  <1> QED
    BY <1>3 DEF PairingTo

(* What is true of the pairs after n messages that are all different: each *)
(* was made of two neighbours, a question and then an answer, no message   *)
(* is in two of them, and a question waits if it is the last message       *)
(* (_pair_messages).                                                       *)
Message == [role : {"user", "assistant"}, of : Nat \ {0}]

Adjacent(rows, n, pair) ==
    \E k \in 1 .. n : /\ k + 1 <= n
                      /\ rows[k].role = "user" /\ rows[k + 1].role = "assistant"
                      /\ pair = <<rows[k].of, rows[k + 1].of>>

Unrelated(p, q) == p[1] # q[1] /\ p[2] # q[2]

Pending(rows, n) ==
    IF n = 0 THEN 0 ELSE IF rows[n].role = "user" THEN rows[n].of ELSE 0

PairedOK(rows, n, r) ==
    /\ r \in [pairs : Seq(Nat \X Nat), pending : Nat]
    /\ r.pending = Pending(rows, n)
    /\ \A i \in DOMAIN r.pairs : Adjacent(rows, n, r.pairs[i])
    /\ \A i, j \in DOMAIN r.pairs : i = j \/ Unrelated(r.pairs[i], r.pairs[j])

(* An interval that grows by one. *)
LEMMA OneMore ==
  ASSUME NEW k \in Nat, NEW m, m = k + 1
  PROVE  m \in Nat /\ m # 0 /\ \A i \in 1 .. m : i # m => i \in 1 .. k
  OBVIOUS

LEMMA Appended ==
  ASSUME NEW T, NEW p \in Seq(T), NEW x \in T
  PROVE  /\ Append(p, x) \in Seq(T) /\ Len(Append(p, x)) = Len(p) + 1
         /\ Append(p, x)[Len(p) + 1] = x
         /\ \A i \in 1 .. Len(p) : i \in DOMAIN p /\ Append(p, x)[i] = p[i]
  OBVIOUS

LEMMA PairedStep ==
  ASSUME NEW rows \in Seq(Message), \A k, l \in DOMAIN rows : rows[k] = rows[l] => k = l,
         NEW n \in Nat, n + 1 <= Len(rows), NEW r, PairedOK(rows, n, r)
  PROVE  PairedOK(rows, n + 1, NextPair(r, rows[n + 1]))
  <1> DEFINE message == rows[n + 1]
             next == NextPair(r, message)
  <1> SUFFICES PairedOK(rows, n + 1, next)
    OBVIOUS
  <1>1. /\ message \in Message /\ n + 1 \in DOMAIN rows /\ \A k \in 1 .. n : k \in DOMAIN rows
        /\ \A k \in DOMAIN rows : rows[k] \in Message
    OBVIOUS
  <1>2. r \in [pairs : Seq(Nat \X Nat), pending : Nat]
    BY DEF PairedOK
  <1>3. \A pair : Adjacent(rows, n, pair) => Adjacent(rows, n + 1, pair)
    BY DEF Adjacent
  <1>a. \A k, l \in DOMAIN rows : rows[k].role = rows[l].role /\ rows[k].of = rows[l].of => k = l
    <2>1. \A a, b \in Message : a.role = b.role /\ a.of = b.of => a = b
      BY DEF Message
    <2> QED
      BY <1>1, <2>1
  <1>b. next = NextPair(r, message)
    OBVIOUS
  <1> HIDE DEF next
  <1>4. CASE message.role = "user"
    <2>1. next = [r EXCEPT !.pending = message.of]
      BY <1>4, <1>b DEF NextPair
    <2>2. /\ next \in [pairs : Seq(Nat \X Nat), pending : Nat]
          /\ next.pairs = r.pairs /\ next.pending = message.of
      BY <1>1, <1>2, <2>1 DEF Message
    <2>3. next.pending = Pending(rows, n + 1)
      BY <1>4, <2>2 DEF Pending
    <2> QED
      BY <1>3, <2>2, <2>3 DEF PairedOK
  <1>5. CASE message.role # "user" /\ r.pending = 0
    <2>1. next = r
      BY <1>5, <1>b DEF NextPair
    <2>2. next.pending = Pending(rows, n + 1)
      BY <1>5, <2>1 DEF Pending
    <2> QED
      BY <1>3, <2>1, <2>2 DEF PairedOK
  <1>6. CASE message.role # "user" /\ r.pending # 0
    <2> DEFINE pair == <<r.pending, message.of>>
    <2>1. next = [pairs |-> Append(r.pairs, pair), pending |-> 0]
      BY <1>6, <1>b DEF NextPair
    <2>2. pair \in Nat \X Nat /\ message.role = "assistant"
      BY <1>1, <1>2, <1>6 DEF Message
    <2> HIDE DEF pair
    <2>3. r.pairs \in Seq(Nat \X Nat)
      BY <1>2
    <2> DEFINE s == Append(r.pairs, pair)
               m == Len(s)
    <2>4. /\ s \in Seq(Nat \X Nat) /\ m \in Nat /\ m # 0 /\ DOMAIN s = 1 .. m /\ s[m] = pair
          /\ \A i \in 1 .. m : i # m => i \in DOMAIN r.pairs /\ s[i] = r.pairs[i]
      <3>1. /\ s \in Seq(Nat \X Nat) /\ m = Len(r.pairs) + 1 /\ s[Len(r.pairs) + 1] = pair
            /\ \A i \in 1 .. Len(r.pairs) : i \in DOMAIN r.pairs /\ s[i] = r.pairs[i]
        BY <2>2, <2>3, Appended
      <3>2. Len(r.pairs) \in Nat
        BY <2>3
      <3> HIDE DEF s
      <3>3. DOMAIN s = 1 .. m
        BY <3>1
      <3>4. m \in Nat /\ m # 0 /\ \A i \in 1 .. m : i # m => i \in 1 .. Len(r.pairs)
        BY <3>1, <3>2, OneMore
      <3> QED
        BY <3>1, <3>3, <3>4
    <2> HIDE DEF s
    <2>5. n # 0 /\ rows[n].role = "user" /\ r.pending = rows[n].of
      BY <1>6 DEF PairedOK, Pending
    <2>6. Adjacent(rows, n + 1, pair)
      <3>1. n \in 1 .. n + 1
        BY <2>5
      <3> QED
        BY <2>2, <2>5, <3>1 DEF Adjacent, pair
    <2>7. ASSUME NEW i \in DOMAIN r.pairs PROVE Unrelated(r.pairs[i], pair)
      <3>1. PICK k \in 1 .. n : /\ k + 1 <= n
                                /\ rows[k].role = "user" /\ rows[k + 1].role = "assistant"
                                /\ r.pairs[i] = <<rows[k].of, rows[k + 1].of>>
        BY DEF PairedOK, Adjacent
      <3>2. k \in DOMAIN rows /\ k + 1 \in DOMAIN rows /\ n \in DOMAIN rows /\ k # n /\ k + 1 # n + 1
        BY <1>1, <2>5, <3>1
      <3>3. rows[k].of # rows[n].of
        BY <1>a, <2>5, <3>1, <3>2
      <3>4. rows[k + 1].of # message.of
        BY <1>a, <2>2, <3>1, <3>2
      <3> QED
        BY <2>5, <3>1, <3>3, <3>4 DEF Unrelated, pair
    <2>8. \A i \in 1 .. m : Adjacent(rows, n + 1, s[i])
      BY <1>3, <2>4, <2>6 DEF PairedOK
    <2>9. \A i, j \in 1 .. m : i = j \/ Unrelated(s[i], s[j])
      <3>1. \A p, q : Unrelated(p, q) <=> Unrelated(q, p)
        BY DEF Unrelated
      <3> QED
        BY <2>4, <2>7, <3>1 DEF PairedOK
    <2>10. /\ next \in [pairs : Seq(Nat \X Nat), pending : Nat]
           /\ next.pairs = s /\ next.pending = 0
      BY <2>1, <2>4 DEF s
    <2>11. next.pending = Pending(rows, n + 1)
      BY <1>6, <2>10 DEF Pending
    <2> QED
      BY <2>4, <2>8, <2>9, <2>10, <2>11 DEF PairedOK
  <1> QED
    BY <1>4, <1>5, <1>6

LEMMA PairedAlways ==
  ASSUME NEW rows \in Seq(Message), \A k, l \in DOMAIN rows : rows[k] = rows[l] => k = l
  PROVE  PairedOK(rows, Len(rows), Pairing(rows)[Len(rows)])
  <1> DEFINE S == {n \in Nat : n <= Len(rows) => PairedOK(rows, n, Pairing(rows)[n])}
  <1>1. Len(rows) \in Nat
    OBVIOUS
  <1>2. 0 \in S
    <2>1. Pairing(rows)[0] = NoPairs
      BY <1>1, PairingSteps
    <2>2. PairedOK(rows, 0, NoPairs)
      BY DEF PairedOK, NoPairs, Pending
    <2> QED
      BY <2>1, <2>2
  <1>3. ASSUME NEW n \in Nat, n \in S PROVE n + 1 \in S
    <2> SUFFICES ASSUME n + 1 <= Len(rows) PROVE PairedOK(rows, n + 1, Pairing(rows)[n + 1])
      OBVIOUS
    <2>1. PairedOK(rows, n, Pairing(rows)[n])
      BY <1>1, <1>3
    <2>2. Pairing(rows)[n + 1] = NextPair(Pairing(rows)[n], rows[n + 1])
      <3>1. n + 1 \in 0 .. Len(rows) /\ n + 1 # 0 /\ (n + 1) - 1 = n
        BY <1>1
      <3> QED
        BY <1>1, <3>1, PairingSteps
    <2> QED
      BY <2>1, <2>2, PairedStep
  <1> HIDE DEF S
  <1>4. Len(rows) \in S
    BY <1>1, <1>2, <1>3, Induction
  <1> QED
    BY <1>4 DEF S

(* A listing holds the two messages of each exchange side by side, in      *)
(* either order.                                                           *)
Role(first) == IF first THEN "user" ELSE "assistant"

LEMMA Halves ==
  ASSUME NEW n \in Nat, NEW k \in 1 .. 2 * n
  PROVE  \E i \in 1 .. n : \/ k = 2 * i - 1 /\ (k + 1) \div 2 = i /\ k % 2 = 1
                           \/ k = 2 * i /\ (k + 1) \div 2 = i /\ k % 2 = 0
  <1>1. k % 2 \in {0, 1} /\ (k + 1) \div 2 \in 1 .. n
    OBVIOUS
  <1>2. \/ k = 2 * ((k + 1) \div 2) - 1 /\ k % 2 = 1
        \/ k = 2 * ((k + 1) \div 2) /\ k % 2 = 0
    OBVIOUS
  <1> QED
    BY <1>1, <1>2

LEMMA Doubled ==
  ASSUME NEW n \in Nat, NEW i \in 1 .. n
  PROVE  /\ 2 * i - 1 \in 1 .. 2 * n /\ ((2 * i - 1) + 1) \div 2 = i /\ (2 * i - 1) % 2 = 1
         /\ 2 * i \in 1 .. 2 * n /\ (2 * i + 1) \div 2 = i /\ (2 * i) % 2 = 0
  OBVIOUS

LEMMA RowsAre ==
  ASSUME ChatInv, NEW order \in ByCreatedAt, NEW swapped \in SUBSET Listed
  PROVE  LET rows == Rows(order, swapped) IN
         /\ rows \in Seq(Message) /\ Len(rows) = 2 * Len(order) /\ Len(order) \in Nat
         /\ \A i \in 1 .. Len(order) :
               /\ order[i] \in Listed
               /\ rows[2 * i - 1] = [role |-> Role(order[i] \notin swapped), of |-> order[i].of]
               /\ rows[2 * i] = [role |-> Role(order[i] \in swapped), of |-> order[i].of]
  <1> DEFINE rows == Rows(order, swapped)
  <1>1. PICK n \in Nat : n = Cardinality(Listed)
    BY ListedFinite
  <1>2. order \in [1 .. n -> Listed]
    BY <1>1 DEF ByCreatedAt
  <1>3. Len(order) = n
    BY <1>2
  <1>4. rows = [k \in 1 .. 2 * n |->
                  [role |-> Role((k % 2 = 1) = (order[(k + 1) \div 2] \notin swapped)),
                   of |-> order[(k + 1) \div 2].of]]
    BY <1>3 DEF Rows, Role
  <1>5. \A e \in Listed : e.of \in Nat \ {0}
    BY DEF Listed, ChatInv, TranscriptOK, ExchangeRow, QuestionsOK, Numbers
  <1>6. \A k \in 1 .. 2 * n : rows[k] \in Message
    <2> TAKE k \in 1 .. 2 * n
    <2>1. order[(k + 1) \div 2] \in Listed
      BY <1>2, Halves
    <2>2. rows[k] = [role |-> Role((k % 2 = 1) = (order[(k + 1) \div 2] \notin swapped)),
                     of |-> order[(k + 1) \div 2].of]
      BY <1>4
    <2> QED
      BY <1>5, <2>1, <2>2 DEF Message, Role
  <1>7. rows \in [1 .. 2 * n -> Message]
    BY <1>4, <1>6
  <1>8. \A i \in 1 .. n :
               /\ order[i] \in Listed
               /\ rows[2 * i - 1] = [role |-> Role(order[i] \notin swapped), of |-> order[i].of]
               /\ rows[2 * i] = [role |-> Role(order[i] \in swapped), of |-> order[i].of]
    <2> TAKE i \in 1 .. n
    <2>1. order[i] \in Listed
      BY <1>2
    <2>2. rows[2 * i - 1] = [role |-> Role(order[i] \notin swapped), of |-> order[i].of]
      <3>1. PICK k \in 1 .. 2 * n : k = 2 * i - 1 /\ (k + 1) \div 2 = i /\ k % 2 = 1
        BY Doubled
      <3> QED
        BY <1>4, <3>1
    <2>3. rows[2 * i] = [role |-> Role(order[i] \in swapped), of |-> order[i].of]
      <3>1. PICK k \in 1 .. 2 * n : k = 2 * i /\ (k + 1) \div 2 = i /\ k % 2 = 0
        BY Doubled
      <3>2. rows[k] = [role |-> Role(FALSE = (order[i] \notin swapped)), of |-> order[i].of]
        BY <1>4, <3>1
      <3> QED
        BY <3>1, <3>2 DEF Role
    <2> QED
      BY <2>1, <2>2, <2>3
  <1> HIDE DEF rows
  <1>9. rows \in Seq(Message) /\ Len(rows) = 2 * n
    BY <1>7
  <1> QED
    BY <1>3, <1>8, <1>9 DEF rows

LEMMA RowsOf ==
  ASSUME ChatInv, NEW order \in ByCreatedAt, NEW swapped \in SUBSET Listed,
         NEW i \in 1 .. Len(order)
  PROVE  LET rows == Rows(order, swapped) IN
         /\ rows[2 * i - 1].of = order[i].of /\ rows[2 * i].of = order[i].of
         /\ rows[2 * i - 1].role # rows[2 * i].role
         /\ rows[2 * i].role = "user" => order[i] \in swapped
  <1> DEFINE rows == Rows(order, swapped)
  <1>1. /\ rows[2 * i - 1] = [role |-> Role(order[i] \notin swapped), of |-> order[i].of]
        /\ rows[2 * i] = [role |-> Role(order[i] \in swapped), of |-> order[i].of]
    BY RowsAre
  <1>2. PICK a : a = rows[2 * i - 1]
    OBVIOUS
  <1>3. PICK b : b = rows[2 * i]
    OBVIOUS
  <1> HIDE DEF rows
  <1>4. /\ a = [role |-> Role(order[i] \notin swapped), of |-> order[i].of]
        /\ b = [role |-> Role(order[i] \in swapped), of |-> order[i].of]
    BY <1>1, <1>2, <1>3
  <1>5. /\ a.of = order[i].of /\ b.of = order[i].of /\ a.role # b.role
        /\ b.role = "user" => order[i] \in swapped
    BY <1>4 DEF Role
  <1> QED
    BY <1>2, <1>3, <1>5 DEF rows

LEMMA ListingInjective ==
  ASSUME ChatInv, NEW order \in ByCreatedAt,
         NEW i \in 1 .. Len(order), NEW j \in 1 .. Len(order), order[i].of = order[j].of
  PROVE  i = j
  <1>1. PICK n \in Nat : n = Cardinality(Listed)
    BY ListedFinite
  <1>2. order \in [1 .. n -> Listed]
    BY <1>1 DEF ByCreatedAt
  <1>3. Len(order) = n
    BY <1>2
  <1>4. order[i] \in Listed /\ order[j] \in Listed
    BY <1>2, <1>3
  <1>5. order[i].at = order[j].at /\ order[i].at \in Nat
    BY <1>4 DEF Listed, ChatInv, TranscriptOK, ExchangeRow
  <1>6. \A p, q \in 1 .. n : p < q => order[p].at < order[q].at
    BY <1>2 DEF ByCreatedAt
  <1>7. ~ (i < j) /\ ~ (j < i)
    BY <1>3, <1>5, <1>6
  <1> QED
    BY <1>1, <1>3, <1>7

LEMMA RowsDistinct ==
  ASSUME ChatInv, NEW order \in ByCreatedAt, NEW swapped \in SUBSET Listed
  PROVE  \A k, l \in DOMAIN Rows(order, swapped) :
            Rows(order, swapped)[k] = Rows(order, swapped)[l] => k = l
  <1> DEFINE rows == Rows(order, swapped)
  <1>1. /\ rows \in Seq(Message) /\ Len(rows) = 2 * Len(order) /\ Len(order) \in Nat
        /\ \A i \in 1 .. Len(order) :
              /\ rows[2 * i - 1].of = order[i].of /\ rows[2 * i].of = order[i].of
              /\ rows[2 * i - 1].role # rows[2 * i].role
    BY RowsAre, RowsOf
  <1> HIDE DEF rows
  <1> SUFFICES ASSUME NEW k \in 1 .. 2 * Len(order), NEW l \in 1 .. 2 * Len(order),
                      rows[k] = rows[l]
               PROVE  k = l
    BY <1>1 DEF rows
  <1>2. PICK i \in 1 .. Len(order) : k = 2 * i - 1 \/ k = 2 * i
    BY <1>1, Halves
  <1>3. PICK j \in 1 .. Len(order) : l = 2 * j - 1 \/ l = 2 * j
    BY <1>1, Halves
  <1>4. rows[k].of = order[i].of /\ rows[l].of = order[j].of
    BY <1>1, <1>2, <1>3
  <1>5. i = j
    BY <1>4, ListingInjective
  <1>6. rows[2 * i - 1].role # rows[2 * i].role
    BY <1>1
  <1> QED
    BY <1>2, <1>3, <1>5, <1>6

(* So neighbours of different exchanges are the second message of one and  *)
(* the first of the next: the question was preceded by its own answer.     *)
LEMMA Neighbours ==
  ASSUME ChatInv, NEW order \in ByCreatedAt, NEW swapped \in SUBSET Listed,
         NEW pair, Adjacent(Rows(order, swapped), 2 * Len(order), pair), pair[1] # pair[2]
  PROVE  \E e \in swapped : e.of = pair[1]
  <1> DEFINE rows == Rows(order, swapped)
  <1>1. /\ Len(order) \in Nat
        /\ \A i \in 1 .. Len(order) :
              /\ rows[2 * i - 1].of = order[i].of /\ rows[2 * i].of = order[i].of
              /\ rows[2 * i].role = "user" => order[i] \in swapped
    BY RowsAre, RowsOf
  <1> HIDE DEF rows
  <1>2. PICK k \in 1 .. 2 * Len(order) :
              /\ k + 1 <= 2 * Len(order)
              /\ rows[k].role = "user" /\ pair = <<rows[k].of, rows[k + 1].of>>
    BY DEF Adjacent, rows
  <1>3. PICK i \in 1 .. Len(order) : k = 2 * i - 1 \/ k = 2 * i
    BY <1>1, Halves
  <1>4. CASE k = 2 * i - 1
    <2>1. k + 1 = 2 * i
      BY <1>4
    <2>2. rows[k].of = order[i].of /\ rows[k + 1].of = order[i].of
      BY <1>1, <1>4, <2>1
    <2> QED
      BY <1>2, <2>2
  <1>5. CASE k = 2 * i
    BY <1>1, <1>2, <1>5
  <1> QED
    BY <1>3, <1>4, <1>5

(* Whatever order the database returns the messages of an exchange in, a   *)
(* listing pairs no message twice and a question with a foreign answer     *)
(* only if its own came first; and what was cleared is not listed          *)
(* (list_messages, _pair_messages).                                        *)
THEOREM HistoryCorrect == ChatSpec => []HistoryExplained
  <1>1. ASSUME ChatInv PROVE HistoryExplained
    <2>1. ClearedStaysCleared
      BY <1>1 DEF ChatInv, TranscriptOK, ClearedStaysCleared
    <2>2. ASSUME NEW order \in ByCreatedAt, NEW swapped \in SUBSET Listed,
                 NEW i \in DOMAIN Pairs(Rows(order, swapped))
          PROVE  LET pairs == Pairs(Rows(order, swapped)) IN
                 /\ pairs[i][1] # pairs[i][2] => \E e \in swapped : e.of = pairs[i][1]
                 /\ \A j \in DOMAIN pairs :
                       pairs[i][1] = pairs[j][1] \/ pairs[i][2] = pairs[j][2] => i = j
      <3> DEFINE rows == Rows(order, swapped)
                 pairs == Pairs(rows)
      <3>1. rows \in Seq(Message) /\ Len(rows) = 2 * Len(order)
        BY <1>1, RowsAre
      <3>2. PairedOK(rows, Len(rows), Pairing(rows)[Len(rows)])
        BY <1>1, <3>1, RowsDistinct, PairedAlways
      <3>3. /\ \A j \in DOMAIN pairs : Adjacent(rows, Len(rows), pairs[j])
            /\ \A j, k \in DOMAIN pairs : j = k \/ Unrelated(pairs[j], pairs[k])
        BY <3>2 DEF PairedOK, Pairs
      <3>4. pairs[i][1] # pairs[i][2] => \E e \in swapped : e.of = pairs[i][1]
        BY <1>1, <3>1, <3>3, Neighbours
      <3>5. \A j \in DOMAIN pairs :
               pairs[i][1] = pairs[j][1] \/ pairs[i][2] = pairs[j][2] => i = j
        BY <3>3 DEF Unrelated
      <3> QED
        BY <3>4, <3>5
    <2> QED
      BY <2>1, <2>2 DEF HistoryExplained
  <1> QED
    BY <1>1, ChatInvariant, PTL

-----------------------------------------------------------------------------
(* The six services side by side.                                          *)
(* Each service stays well formed while the others rest (MCServices).      *)
THEOREM ServicesTyped == MCSpec => []ServicesTypeOK
  <1>1. MCInit => /\ SignInInit /\ WebhooksInit /\ ImportInit /\ ChatInit /\ ListingInit
                  /\ RefreshInit
    BY DEF MCInit
  <1>2. [MCNext]_services =>
          /\ [SignInNext]_accounts /\ [WebhooksNext]_webhooks /\ [ImportNext]_imports
          /\ [ChatNext]_chat /\ [ListingNext]_listings /\ [RefreshNext]_refresh
    BY DEF MCNext, services, SignInPart, WebhooksPart, ImportPart, ChatPart, ListingPart, RefreshPart
  <1>3. MCSpec => /\ SignInSpec /\ WebhooksSpec /\ ImportSpec /\ ChatSpec /\ ListingSpec
                  /\ RefreshSpec
    BY <1>1, <1>2, PTL
    DEF MCSpec, SignInSpec, WebhooksSpec, ImportSpec, ChatSpec, ListingSpec, RefreshSpec
  <1>4. /\ SignInTypeOK /\ WebhooksTypeOK /\ ImportTypeOK /\ ChatTypeOK /\ ListingTypeOK
        /\ RefreshTypeOK
        => ServicesTypeOK
    BY DEF ServicesTypeOK
  <1> QED
    BY <1>3, <1>4, SignInTyped, WebhooksTyped, ImportTyped, ChatTyped, ListingTyped, RefreshTyped,
       PTL
=============================================================================
