---------------------------- MODULE RefreshTokens ----------------------------
(***************************************************************************)
(* The refresh tokens of a browser: families of rows, each rotated into    *)
(* the next one, in PostgreSQL; one cookie, shared by every tab; and the   *)
(* tabs, each of which refreshes its session when it loads.                *)
(*                                                                         *)
(* A transaction reads its row FOR UPDATE in one step and commits in       *)
(* another, so two requests may be between the two at once.  The UPDATE    *)
(* that revokes a family sees the rows committed when it began (READ       *)
(* COMMITTED) and waits for the locks of the others.                       *)
(***************************************************************************)
EXTENDS Naturals, Sequences, FiniteSets

CONSTANTS
    Tabs,
    MaxRequests,     \* bound on requests under way at once
    NoTab,
    MaxLoads,        \* bound on page loads
    SessionFaults    \* subset of {"network", "api", "clock"}

ASSUME NoTabIsNone == NoTab \notin Tabs
ASSUME BoundsNatural == MaxLoads \in Nat /\ MaxRequests \in Nat

VARIABLES
    tokens,      \* refresh_tokens, in the order of their commits
    cookie,      \* the refresh cookie: a number of tokens, or 0
    tab,         \* AuthState of each tab
    request,     \* requests to /auth/refresh and /auth/logout
    loads,       \* pages loaded so far
    presented    \* auxiliary: how often requests have carried each token, up to 2

sessions == <<tokens, cookie, tab, request, loads, presented>>

Reasons == {"rotated", "reuse_detected", "logout", "expired"}

Requests == 1 .. MaxRequests

(* RefreshToken: revoked is revocation_reason, or "no" while revoked_at is *)
(* null; expired says that expires_at has passed.                          *)
TokenRow == [family : Nat, used : BOOLEAN, revoked : {"no"} \cup Reasons, expired : BOOLEAN]

Answers == {"none", "token", "unauthorized", "signed_out", "error"}

(* A request's token, the tab that waits for it, the rows its UPDATE saw   *)
(* and, once it has answered, the new token.                               *)
RequestRow ==
    [pc : {"free", "sent", "rotating", "revoking", "answered"}, kind : {"refresh", "logout"},
     token : Nat, tab : Tabs \cup {NoTab}, seen : SUBSET Nat, answer : Answers, new : Nat]

Free == [pc |-> "free", kind |-> "refresh", token |-> 0, tab |-> NoTab, seen |-> {},
         answer |-> "none", new |-> 0]

AuthStates == {"loading", "authenticated", "anonymous", "expired"}

Issued == 1 .. Len(tokens)

SessionsTypeOK ==
    /\ tokens \in Seq(TokenRow)
    /\ cookie \in {0} \cup Issued
    /\ tab \in [Tabs -> AuthStates]
    /\ request \in [Requests -> RequestRow]
    /\ \A r \in Requests :
        /\ request[r].token \in {0} \cup Issued
        /\ request[r].seen \subseteq Issued
        /\ request[r].new \in {0} \cup Issued
        /\ request[r].pc = "free" => request[r] = Free
        /\ request[r].pc \in {"rotating", "revoking"} => request[r].token # 0
        /\ request[r].pc = "answered" <=> request[r].answer # "none"
    /\ loads \in 0 .. MaxLoads
    /\ presented \in [Issued -> 0 .. 2]

SessionsInit ==
    /\ tokens = <<>>
    /\ cookie = 0
    /\ tab = [t \in Tabs |-> "anonymous"]
    /\ request = [r \in Requests |-> Free]
    /\ loads = 0
    /\ presented = <<>>

-----------------------------------------------------------------------------
(* The browser.                                                            *)

Waits(t) == \E r \in Requests : request[r].tab = t

NewRow(family) == [family |-> family, used |-> FALSE, revoked |-> "no", expired |-> FALSE]

Abandoned(t) ==
    [r \in Requests |-> IF request[r].tab = t THEN [request[r] EXCEPT !.tab = NoTab] ELSE request[r]]

(* A sign-in ends with a session of a new family (_issue_session); its     *)
(* redirect sets the cookie and loads the application again.               *)
SignInCompletes(t) ==
    /\ tab[t] \in {"anonymous", "expired"}
    /\ loads < MaxLoads
    /\ tokens' = Append(tokens, NewRow(Len(tokens) + 1))
    /\ presented' = Append(presented, 0)
    /\ loads' = loads + 1
    /\ cookie' = Len(tokens')
    /\ tab' = [tab EXCEPT ![t] = "loading"]
    /\ request' = Abandoned(t)

(* A page load forgets what the page before it was waiting for; the server *)
(* does not.                                                               *)
Load(t) ==
    /\ loads < MaxLoads
    /\ loads' = loads + 1
    /\ tab' = [tab EXCEPT ![t] = "loading"]
    /\ request' = Abandoned(t)
    /\ UNCHANGED <<tokens, cookie, presented>>

AtMostTwo(n) == IF n > 2 THEN 2 ELSE n

Send(t, r, kind) ==
    /\ request[r] = Free /\ \A q \in 1 .. r - 1 : request[q] # Free
    /\ ~Waits(t)
    /\ request' = [request EXCEPT ![r] = [Free EXCEPT !.pc = "sent", !.kind = kind,
                                                      !.token = cookie, !.tab = t]]
    /\ presented' = [i \in Issued |-> IF i = cookie THEN AtMostTwo(presented[i] + 1) ELSE presented[i]]
    /\ UNCHANGED <<tokens, cookie, tab, loads>>

Refresh(t, r) == tab[t] = "loading" /\ Send(t, r, "refresh")
SignOut(t, r) == tab[t] = "authenticated" /\ Send(t, r, "logout")

Show(t, states) ==
    IF t = NoTab THEN tab' = tab ELSE \E s \in states : tab' = [tab EXCEPT ![t] = s]

(* What refreshSession and signOut make of an answer: with a new token the *)
(* tab still asks for its user, which may fail by itself.                  *)
ShownFor(answer) ==
    CASE answer = "token" -> {"authenticated"} \cup IF "api" \in SessionFaults THEN {"anonymous"} ELSE {}
      [] answer = "unauthorized" -> {"expired"}
      [] OTHER -> {"anonymous"}

CookieAfter(r) ==
    CASE request[r].answer = "token" -> request[r].new
      [] request[r].answer = "signed_out" -> 0
      [] OTHER -> cookie

(* An answer arrives, also for a tab that has moved on: the cookie is the  *)
(* browser's.                                                              *)
Receive(r) ==
    /\ request[r].pc = "answered"
    /\ cookie' = CookieAfter(r)
    /\ Show(request[r].tab, ShownFor(request[r].answer))
    /\ request' = [request EXCEPT ![r] = Free]
    /\ UNCHANGED <<tokens, loads, presented>>

(* The connection breaks before the request arrives or before its answer   *)
(* does.                                                                   *)
ConnectionLost(r) ==
    /\ "network" \in SessionFaults
    /\ request[r].pc \in {"sent", "answered"}
    /\ Show(request[r].tab, {"anonymous"})
    /\ request' = [request EXCEPT ![r] = Free]
    /\ UNCHANGED <<tokens, cookie, loads, presented>>

-----------------------------------------------------------------------------
(* The server.                                                             *)

Family_All(i) == Issued
Family(i) == {j \in Issued : tokens[j].family = tokens[i].family}

Locked(i, r) ==
    \E q \in Requests \ {r} :
        /\ request[q].token = i
        /\ \/ request[q].pc = "rotating"
           \/ request[q].pc = "revoking" /\ request[q].kind = "refresh"

Dead(i) == tokens[i].used \/ tokens[i].revoked # "no"

Answer(r, answer, new) ==
    request' = [request EXCEPT ![r].pc = "answered", ![r].answer = answer, ![r].new = new,
                               ![r].seen = {}]

(* rotate_refresh_token up to its commit.                                  *)
NoToken(r) ==
    /\ request[r].pc = "sent" /\ request[r].token = 0
    /\ Answer(r, IF request[r].kind = "refresh" THEN "unauthorized" ELSE "signed_out", 0)
    /\ UNCHANGED <<tokens, cookie, tab, loads, presented>>

SelectForUpdate_Unlocked(r) ==
    request[r].pc = "sent" /\ request[r].kind = "refresh" /\ request[r].token # 0
SelectForUpdate(r) ==
    /\ request[r].pc = "sent" /\ request[r].kind = "refresh" /\ request[r].token # 0
    /\ ~Locked(request[r].token, r)

BeginRevoke(r) ==
    /\ request' = [request EXCEPT ![r].pc = "revoking", ![r].seen = Family(request[r].token)]
    /\ UNCHANGED <<tokens, cookie, tab, loads, presented>>

DetectReuse(r) ==
    /\ SelectForUpdate(r)
    /\ Dead(request[r].token)
    /\ BeginRevoke(r)

Usable(r) == ~Dead(request[r].token)

RejectExpired(r) ==
    /\ SelectForUpdate(r)
    /\ Usable(r) /\ tokens[request[r].token].expired
    /\ tokens' = [tokens EXCEPT ![request[r].token].revoked = "expired"]
    /\ Answer(r, "unauthorized", 0)
    /\ UNCHANGED <<cookie, tab, loads, presented>>

BeginRotation(r) ==
    /\ SelectForUpdate(r)
    /\ Usable(r) /\ ~tokens[request[r].token].expired
    /\ request' = [request EXCEPT ![r].pc = "rotating"]
    /\ UNCHANGED <<tokens, cookie, tab, loads, presented>>

Rotated_NoChild(i) == [tokens EXCEPT ![i].used = TRUE, ![i].revoked = "rotated"]
Rotated(i) ==
    Append([tokens EXCEPT ![i].used = TRUE, ![i].revoked = "rotated"], NewRow(tokens[i].family))

Rotate(r) ==
    /\ request[r].pc = "rotating"
    /\ tokens' = Rotated(request[r].token)
    /\ presented' = Append(presented, 0)
    /\ Answer(r, "token", Len(tokens'))
    /\ UNCHANGED <<cookie, tab, loads>>

(* logout selects its row without a lock.                                  *)
BeginLogout(r) ==
    /\ request[r].pc = "sent" /\ request[r].kind = "logout" /\ request[r].token # 0
    /\ BeginRevoke(r)

Blocked(r) == \E i \in request[r].seen : Locked(i, r)

RevokedRows_Live(rows, reason) ==
    [i \in Issued |-> IF i \in rows /\ ~Dead(i) THEN [tokens[i] EXCEPT !.revoked = reason]
                     ELSE tokens[i]]
RevokedRows(rows, reason) ==
    [i \in Issued |-> IF i \in rows THEN [tokens[i] EXCEPT !.revoked = reason] ELSE tokens[i]]

RevokeFamily(r) ==
    /\ request[r].pc = "revoking"
    /\ ~Blocked(r)
    /\ tokens' = RevokedRows(request[r].seen,
                             IF request[r].kind = "refresh" THEN "reuse_detected" ELSE "logout")
    /\ Answer(r, IF request[r].kind = "refresh" THEN "unauthorized" ELSE "signed_out", 0)
    /\ UNCHANGED <<cookie, tab, loads, presented>>

(* A reuse holds the row of its token, which another UPDATE of the family  *)
(* may need, and needs a row that the other has written or holds:          *)
(* PostgreSQL aborts one of them, which answers 500.                       *)
Deadlocked(reuse, other) ==
    /\ request[reuse].kind = "refresh" /\ request[reuse].token \in request[other].seen
    /\ (request[reuse].seen \cap request[other].seen) \ {request[reuse].token} # {}

DeadlockVictim(r) ==
    /\ request[r].pc = "revoking"
    /\ \E q \in Requests \ {r} :
        request[q].pc = "revoking" /\ (Deadlocked(r, q) \/ Deadlocked(q, r))
    /\ Answer(r, "error", 0)
    /\ UNCHANGED <<tokens, cookie, tab, loads, presented>>

(* Thirty days pass without a request (bound: between two requests, and    *)
(* for every token issued so far).                                         *)
Expire ==
    /\ "clock" \in SessionFaults
    /\ \A r \in Requests : request[r] = Free
    /\ \E i \in Issued : ~tokens[i].expired
    /\ tokens' = [i \in Issued |-> [tokens[i] EXCEPT !.expired = TRUE]]
    /\ UNCHANGED <<cookie, tab, request, loads, presented>>

-----------------------------------------------------------------------------
Serve(r) ==
    \/ NoToken(r) \/ DetectReuse(r) \/ RejectExpired(r) \/ BeginRotation(r)
    \/ Rotate(r) \/ BeginLogout(r) \/ RevokeFamily(r) \/ DeadlockVictim(r)

Browse(t) ==
    \/ SignInCompletes(t) \/ Load(t)
    \/ \E r \in Requests : Refresh(t, r) \/ SignOut(t, r)

SessionsNext ==
    \/ \E t \in Tabs : Browse(t)
    \/ \E r \in Requests : Serve(r) \/ Receive(r) \/ ConnectionLost(r)
    \/ Expire

(* A loaded page sends its request, the server works and its answers       *)
(* arrive or the connection breaks.                                        *)
SessionsFairness ==
    /\ \A t \in Tabs : WF_sessions(\E r \in Requests : Refresh(t, r))
    /\ \A r \in Requests : WF_sessions(Serve(r)) /\ WF_sessions(Receive(r))

SessionsSpec == SessionsInit /\ [][SessionsNext]_sessions
SessionsFairSpec == SessionsSpec /\ SessionsFairness

-----------------------------------------------------------------------------
Live(i) == ~Dead(i)

(* Rotation never forks a family: whatever requests carry the same token   *)
(* at once (rotate_refresh_token under its row lock), at most one token of *)
(* a family can be exchanged for another one.                              *)
OneLivePerFamily ==
    \A i, j \in Issued : Live(i) /\ Live(j) /\ tokens[i].family = tokens[j].family => i = j

Condemned(i) == tokens[i].revoked \in {"reuse_detected", "logout"}

(* A replay or a logout takes a family from its first token on: no row     *)
(* older than a revoked one escapes it.  (A row that a rotation inserts    *)
(* while the UPDATE is under way does: see the README.)                    *)
RevocationReachesOlder ==
    \A i, j \in Issued :
        i < j /\ tokens[i].family = tokens[j].family /\ Condemned(j) => Condemned(i)

(* Reuse is never found where there was none: a family is revoked for it   *)
(* only after one of its tokens has been carried by two requests.          *)
ReuseExplained ==
    \A i \in Issued :
        tokens[i].revoked = "reuse_detected" =>
            \E j \in Issued : tokens[j].family = tokens[i].family /\ presented[j] >= 2

(* A page that loads finds out whether there is a session, although its    *)
(* request may wait for others that lock rows of its family.               *)
LoadsSettle == \A t \in Tabs : tab[t] = "loading" ~> tab[t] # "loading"
=============================================================================
