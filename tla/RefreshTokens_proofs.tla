------------------------- MODULE RefreshTokens_proofs -------------------------
(***************************************************************************)
(* The families of refresh tokens, for any numbers of tabs, requests and   *)
(* loads.                                                                  *)
(***************************************************************************)
EXTENDS RefreshTokens, TLAPS

Pending(r) == request[r].pc \in {"sent", "rotating", "revoking"}

(* A finished refresh has been given this token, and no revocation has     *)
(* hidden it since.                                                        *)
Consumed(i) == tokens[i].used \/ tokens[i].revoked = "expired"

(* Every row but the last one of a family has been rotated.                *)
FamiliesOK ==
    /\ \A i \in Issued : tokens[i].family \in Issued
    /\ \A i \in Issued : tokens[i].revoked = "rotated" => tokens[i].used
    /\ \A i, j \in Issued : i < j /\ tokens[i].family = tokens[j].family => tokens[i].used

(* What the row locks are worth: a token under rotation is live and one    *)
(* request's, and an UPDATE under way sees a family from its first row on. *)
LocksOK ==
    \A r \in Requests :
        /\ request[r].pc = "rotating" =>
            /\ request[r].kind = "refresh" /\ Live(request[r].token)
            /\ \A q \in Requests :
                request[q].pc = "rotating" /\ request[q].token = request[r].token => q = r
        /\ request[r].pc = "revoking" =>
            /\ \A i \in request[r].seen : tokens[i].family = tokens[request[r].token].family
            /\ \A i, j \in Issued :
                i < j /\ tokens[i].family = tokens[j].family /\ j \in request[r].seen
                    => i \in request[r].seen

(* How often a token has been carried, by what has become of the requests  *)
(* that carried it.                                                        *)
CarriersOK ==
    /\ \A r \in Requests : Pending(r) /\ request[r].token # 0 => presented[request[r].token] >= 1
    /\ \A r, q \in Requests :
        Pending(r) /\ Pending(q) /\ request[r].token # 0 /\ request[q].token = request[r].token
            => q = r \/ presented[request[r].token] = 2
    /\ \A i \in Issued : Consumed(i) => presented[i] >= 1
    /\ \A r \in Requests :
        Pending(r) /\ request[r].token # 0 /\ Consumed(request[r].token)
            => presented[request[r].token] = 2

Replayed(f) == \E j \in Issued : tokens[j].family = f /\ presented[j] = 2

(* The token of a logout that nobody else has carried.                     *)
SignedOut(i) ==
    /\ presented[i] = 1 /\ ~tokens[i].used
    /\ \A r \in Requests : Pending(r) => request[r].token # i

RevocationsOK ==
    /\ \A r \in Requests :
        request[r].pc = "revoking" /\ request[r].kind = "refresh"
            => Replayed(tokens[request[r].token].family)
    /\ \A i \in Issued : tokens[i].revoked = "reuse_detected" => Replayed(tokens[i].family)
    /\ \A i \in Issued :
        tokens[i].revoked = "logout" =>
            \/ Replayed(tokens[i].family)
            \/ \E j \in Issued : tokens[j].family = tokens[i].family /\ SignedOut(j)

SessionsInv ==
    /\ SessionsTypeOK /\ FamiliesOK /\ LocksOK /\ CarriersOK /\ RevocationsOK
    /\ RevocationReachesOlder

-----------------------------------------------------------------------------
LEMMA InitSessions == SessionsInit => SessionsInv
  BY NoTabIsNone, BoundsNatural
  DEF SessionsInit, SessionsInv, SessionsTypeOK, FamiliesOK, LocksOK, CarriersOK, RevocationsOK,
      RevocationReachesOlder, Issued, Requests, RequestRow, Free, Answers, AuthStates, Condemned,
      Pending, Consumed

-----------------------------------------------------------------------------
(* Rows: what is added and changed.                                        *)
LEMMA Appended ==
  ASSUME NEW S, NEW s \in Seq(S), NEW e \in S
  PROVE  /\ Append(s, e) \in Seq(S) /\ Len(Append(s, e)) = Len(s) + 1
         /\ \A i \in 1 .. Len(s) : Append(s, e)[i] = s[i]
         /\ Append(s, e)[Len(s) + 1] = e
  OBVIOUS

LEMMA Remapped ==
  ASSUME NEW S, NEW n \in Nat, NEW f, f \in [1 .. n -> S]
  PROVE  f \in Seq(S) /\ Len(f) = n
  OBVIOUS

LEMMA AppendedFunction ==
  ASSUME NEW S, NEW n \in Nat, NEW f \in [1 .. n -> S], NEW e \in S
  PROVE  Append(f, e) \in [1 .. n + 1 -> S] /\ \A i \in 1 .. n : Append(f, e)[i] = f[i]
  <1>1. f \in Seq(S) /\ Len(f) = n
    BY Remapped
  <1>2. Append(f, e) \in Seq(S) /\ Len(Append(f, e)) = n + 1
        /\ \A i \in 1 .. n : Append(f, e)[i] = f[i]
    BY <1>1, Appended
  <1>3. \A s \in Seq(S) : s \in [1 .. Len(s) -> S]
    OBVIOUS
  <1> QED
    BY <1>2, <1>3

LEMMA NewCounter ==
  ASSUME NEW n \in Nat, NEW f \in [1 .. n -> 0 .. 2]
  PROVE  Append(f, 0) \in [1 .. n + 1 -> 0 .. 2] /\ \A i \in 1 .. n : Append(f, 0)[i] = f[i]
  <1> DEFINE counts == 0 .. 2
  <1>1. f \in [1 .. n -> counts] /\ 0 \in counts
    OBVIOUS
  <1> HIDE DEF counts
  <1>2. Append(f, 0) \in [1 .. n + 1 -> counts] /\ \A i \in 1 .. n : Append(f, 0)[i] = f[i]
    BY <1>1, AppendedFunction
  <1> QED
    BY <1>2 DEF counts

(* A request's row, next to n tokens.                                      *)
RowOK(row, n) ==
    /\ row \in RequestRow
    /\ row.token \in 0 .. n /\ row.new \in 0 .. n /\ row.seen \subseteq 1 .. n
    /\ row.pc = "free" => row = Free
    /\ row.pc \in {"rotating", "revoking"} => row.token # 0
    /\ row.pc = "answered" <=> row.answer # "none"

RestOK ==
    /\ tokens \in Seq(TokenRow) /\ cookie \in {0} \cup Issued /\ tab \in [Tabs -> AuthStates]
    /\ loads \in 0 .. MaxLoads /\ presented \in [Issued -> 0 .. 2]

LEMMA TypeParts ==
  SessionsTypeOK <=> /\ RestOK /\ request \in [Requests -> RequestRow]
                     /\ \A r \in Requests : RowOK(request[r], Len(tokens))
  <1>1. tokens \in Seq(TokenRow) => Len(tokens) \in Nat
    OBVIOUS
  <1> QED
    BY <1>1 DEF SessionsTypeOK, RestOK, RowOK, Issued

LEMMA NextTypeParts ==
  ASSUME RestOK', request' \in [Requests -> RequestRow],
         \A r \in Requests : RowOK(request'[r], Len(tokens'))
  PROVE  SessionsTypeOK'
  <1>1. tokens' \in Seq(TokenRow) => Len(tokens') \in Nat
    OBVIOUS
  <1> QED
    BY <1>1 DEF SessionsTypeOK, RestOK, RowOK, Issued

LEMMA MoreTokens ==
  ASSUME NEW row, NEW n \in Nat, RowOK(row, n)
  PROVE  RowOK(row, n + 1)
  BY DEF RowOK

LEMMA FreeOK == ASSUME NEW n \in Nat PROVE RowOK(Free, n)
  BY DEF RowOK, Free, RequestRow, Answers

(* The row of request r is replaced, the others are kept.                  *)
LEMMA OneRow ==
  ASSUME NEW r \in Requests, NEW row, NEW n \in Nat, RowOK(row, n),
         request \in [Requests -> RequestRow], \A q \in Requests : RowOK(request[q], n),
         request' = [request EXCEPT ![r] = row]
  PROVE  /\ request' \in [Requests -> RequestRow] /\ \A q \in Requests : RowOK(request'[q], n)
         /\ request'[r] = row /\ \A q \in Requests \ {r} : request'[q] = request[q]
  BY DEF RowOK

LEMMA OneToken ==
  ASSUME NEW s \in Seq(TokenRow), NEW i \in 1 .. Len(s), NEW row \in TokenRow,
         NEW x, x = [s EXCEPT ![i] = row]
  PROVE  /\ x \in Seq(TokenRow) /\ Len(x) = Len(s) /\ x[i] = row
         /\ \A k \in 1 .. Len(s) : k # i => x[k] = s[k]
  OBVIOUS

LEMMA TypeFacts ==
  ASSUME SessionsTypeOK
  PROVE  /\ RestOK /\ request \in [Requests -> RequestRow] /\ Len(tokens) \in Nat
         /\ \A q \in Requests : RowOK(request[q], Len(tokens))
         /\ Issued = 1 .. Len(tokens) /\ \A i \in Issued : tokens[i] \in TokenRow
  BY TypeParts DEF RestOK, Issued

-----------------------------------------------------------------------------
(* What the steps leave in the rows of requests and of tokens.             *)
SameRow(q) ==
    /\ request'[q].pc = request[q].pc /\ request'[q].kind = request[q].kind
    /\ request'[q].token = request[q].token /\ request'[q].seen = request[q].seen

LEMMA AnswerEffect ==
  ASSUME SessionsTypeOK, NEW r \in Requests, NEW answer \in Answers \ {"none"}, NEW n \in Nat,
         Len(tokens) <= n, NEW new \in 0 .. n, Answer(r, answer, new)
  PROVE  /\ request' \in [Requests -> RequestRow] /\ \A q \in Requests : RowOK(request'[q], n)
         /\ request'[r].pc = "answered" /\ \A q \in Requests \ {r} : request'[q] = request[q]
  <1>1. PICK row : row = [request[r] EXCEPT !.pc = "answered", !.answer = answer, !.new = new,
                                            !.seen = {}]
    OBVIOUS
  <1>2. request' = [request EXCEPT ![r] = row]
    BY <1>1, TypeFacts DEF Answer
  <1>3. request[r] \in RequestRow /\ request[r].token \in 0 .. n /\ answer \in Answers /\ new \in Nat
    BY TypeFacts DEF RowOK
  <1>4. row \in RequestRow /\ row.pc = "answered" /\ row.token = request[r].token
        /\ row.answer = answer /\ row.new = new /\ row.seen = {}
    BY <1>1, <1>3 DEF RequestRow
  <1>5. RowOK(row, n)
    BY <1>3, <1>4 DEF RowOK
  <1>6. \A q \in Requests : RowOK(request[q], n)
    BY TypeFacts DEF RowOK
  <1> QED
    BY <1>2, <1>4, <1>5, <1>6, OneRow, TypeFacts

LEMMA RevokeEffect ==
  ASSUME SessionsTypeOK, NEW r \in Requests, BeginRevoke(r),
         request[r].pc = "sent", request[r].token # 0
  PROVE  /\ SessionsTypeOK'
         /\ request'[r].pc = "revoking" /\ request'[r].kind = request[r].kind
         /\ request'[r].token = request[r].token /\ request'[r].seen = Family(request[r].token)
         /\ \A q \in Requests \ {r} : request'[q] = request[q]
  <1>1. PICK row : row = [request[r] EXCEPT !.pc = "revoking", !.seen = Family(request[r].token)]
    OBVIOUS
  <1>2. request' = [request EXCEPT ![r] = row]
    BY <1>1, TypeFacts DEF BeginRevoke
  <1>3. RowOK(request[r], Len(tokens)) /\ request[r] \in RequestRow
        /\ Family(request[r].token) \subseteq 1 .. Len(tokens)
    BY TypeFacts DEF Family, Issued
  <1>4. /\ row \in RequestRow /\ row.pc = "revoking" /\ row.kind = request[r].kind
        /\ row.token = request[r].token /\ row.seen = Family(request[r].token)
        /\ row.answer = request[r].answer /\ row.new = request[r].new
    <2> DEFINE f == Family(request[r].token)
    <2>1. f \in SUBSET Nat
      BY <1>3, TypeFacts
    <2> HIDE DEF f
    <2> QED
      BY <1>1, <1>3, <2>1 DEF RequestRow, f
  <1>5. RowOK(row, Len(tokens))
    BY <1>3, <1>4 DEF RowOK
  <1>6. UNCHANGED <<tokens, cookie, tab, loads, presented>>
    BY DEF BeginRevoke
  <1> QED
    BY <1>2, <1>4, <1>5, <1>6, OneRow, TypeFacts, NextTypeParts DEF RestOK, Issued

LEMMA RotationEffect ==
  ASSUME SessionsTypeOK, NEW r \in Requests, BeginRotation(r)
  PROVE  /\ SessionsTypeOK'
         /\ request'[r].pc = "rotating" /\ request'[r].kind = request[r].kind
         /\ request'[r].token = request[r].token
         /\ \A q \in Requests \ {r} : request'[q] = request[q]
  <1>1. PICK row : row = [request[r] EXCEPT !.pc = "rotating"]
    OBVIOUS
  <1>2. request' = [request EXCEPT ![r] = row] /\ request[r].pc = "sent" /\ request[r].token # 0
    BY <1>1, TypeFacts DEF BeginRotation, SelectForUpdate
  <1>3. RowOK(request[r], Len(tokens)) /\ request[r] \in RequestRow
    BY TypeFacts
  <1>4. /\ row \in RequestRow /\ row.pc = "rotating" /\ row.kind = request[r].kind
        /\ row.token = request[r].token /\ row.seen = request[r].seen
        /\ row.answer = request[r].answer /\ row.new = request[r].new
    BY <1>1, <1>3 DEF RequestRow
  <1>5. RowOK(row, Len(tokens))
    BY <1>2, <1>3, <1>4 DEF RowOK
  <1>6. UNCHANGED <<tokens, cookie, tab, loads, presented>>
    BY DEF BeginRotation
  <1> QED
    BY <1>2, <1>4, <1>5, <1>6, OneRow, TypeFacts, NextTypeParts DEF RestOK, Issued

LEMMA SendEffect ==
  ASSUME SessionsTypeOK, NEW t \in Tabs, NEW r \in Requests, NEW kind \in {"refresh", "logout"},
         Send(t, r, kind)
  PROVE  /\ SessionsTypeOK'
         /\ request[r].pc = "free" /\ request'[r].pc = "sent" /\ request'[r].token = cookie
         /\ \A q \in Requests \ {r} : request'[q] = request[q]
         /\ tokens' = tokens /\ presented' \in [Issued -> 0 .. 2]
         /\ \A i \in Issued : i # cookie => presented'[i] = presented[i]
         /\ cookie # 0 => /\ presented[cookie] = 0 => presented'[cookie] = 1
                          /\ presented[cookie] >= 1 => presented'[cookie] = 2
  <1>1. PICK row : row = [Free EXCEPT !.pc = "sent", !.kind = kind, !.token = cookie, !.tab = t]
    OBVIOUS
  <1>2. request' = [request EXCEPT ![r] = row] /\ request[r].pc = "free"
    BY <1>1, TypeFacts DEF Send, Free
  <1>3. cookie \in 0 .. Len(tokens) /\ Len(tokens) \in Nat /\ cookie \in Nat
    BY TypeFacts DEF RestOK
  <1> HIDE DEF Send
  <1>4. /\ row \in RequestRow /\ row.pc = "sent" /\ row.token = cookie /\ row.seen = {}
        /\ row.answer = "none" /\ row.new = 0
    <2>1. row \in RequestRow
      BY <1>1, <1>3 DEF RequestRow, Free, Answers
    <2>2. row = [pc |-> "sent", kind |-> kind, token |-> cookie, tab |-> t, seen |-> {},
                 answer |-> "none", new |-> 0]
      BY <1>1 DEF Free
    <2> QED
      BY <2>1, <2>2
  <1>5. RowOK(row, Len(tokens))
    BY <1>3, <1>4 DEF RowOK
  <1>6. presented' = [i \in Issued |-> IF i = cookie THEN AtMostTwo(presented[i] + 1) ELSE presented[i]]
        /\ UNCHANGED <<tokens, cookie, tab, loads>>
    BY DEF Send
  <1>7. /\ presented' \in [Issued -> 0 .. 2]
        /\ \A i \in Issued : i # cookie => presented'[i] = presented[i]
        /\ cookie # 0 => /\ presented[cookie] = 0 => presented'[cookie] = 1
                         /\ presented[cookie] >= 1 => presented'[cookie] = 2
    <2>1. presented \in [Issued -> 0 .. 2] /\ (cookie # 0 => cookie \in Issued)
      BY TypeFacts DEF RestOK
    <2>2. \A n \in 0 .. 2 : /\ AtMostTwo(n + 1) \in 0 .. 2
                            /\ n = 0 => AtMostTwo(n + 1) = 1
                            /\ n >= 1 => AtMostTwo(n + 1) = 2
      BY DEF AtMostTwo
    <2>3. presented' \in [Issued -> 0 .. 2]
      BY <1>6, <2>1, <2>2
    <2>4. \A i \in Issued : i # cookie => presented'[i] = presented[i]
      BY <1>6
    <2>5. cookie # 0 => presented'[cookie] = AtMostTwo(presented[cookie] + 1)
      BY <1>6, <2>1
    <2> QED
      BY <2>1, <2>2, <2>3, <2>4, <2>5
  <1>8. RestOK'
    BY <1>6, <1>7, TypeFacts DEF RestOK, Issued
  <1> QED
    BY <1>2, <1>4, <1>5, <1>6, <1>7, <1>8, OneRow, TypeFacts, NextTypeParts

LEMMA AbandonEffect ==
  ASSUME SessionsTypeOK, NEW t \in Tabs, request' = Abandoned(t)
  PROVE  /\ request' \in [Requests -> RequestRow]
         /\ \A q \in Requests : RowOK(request'[q], Len(tokens)) /\ SameRow(q)
  <1>1. ASSUME NEW q \in Requests PROVE RowOK(request'[q], Len(tokens)) /\ SameRow(q)
    <2>1. RowOK(request[q], Len(tokens)) /\ request[q] \in RequestRow
      BY TypeFacts
    <2>2. CASE request[q].tab = t
      <3>1. PICK row : row = [request[q] EXCEPT !.tab = NoTab]
        OBVIOUS
      <3>2. request'[q] = row
        BY <2>2, <3>1 DEF Abandoned
      <3>3. request[q].pc # "free"
        BY <2>1, <2>2, NoTabIsNone DEF RowOK, Free
      <3>4. /\ row \in RequestRow /\ row.pc = request[q].pc /\ row.kind = request[q].kind
            /\ row.token = request[q].token /\ row.seen = request[q].seen
            /\ row.answer = request[q].answer /\ row.new = request[q].new
        BY <2>1, <3>1 DEF RequestRow
      <3> QED
        BY <2>1, <3>2, <3>3, <3>4 DEF RowOK, SameRow
    <2>3. CASE request[q].tab # t
      BY <2>1, <2>3 DEF Abandoned, SameRow
    <2> QED
      BY <2>2, <2>3
  <1>2. request' = [q \in Requests |-> request'[q]]
    BY DEF Abandoned
  <1> QED
    BY <1>1, <1>2 DEF RowOK

LEMMA SignInEffect ==
  ASSUME SessionsTypeOK, NEW t \in Tabs, SignInCompletes(t)
  PROVE  /\ SessionsTypeOK' /\ \A q \in Requests : SameRow(q)
         /\ Len(tokens') = Len(tokens) + 1
         /\ \A i \in Issued : tokens'[i] = tokens[i] /\ presented'[i] = presented[i]
         /\ tokens'[Len(tokens) + 1] = NewRow(Len(tokens) + 1)
  <1> DEFINE n == Len(tokens)
  <1>0. /\ request' = Abandoned(t) /\ tokens' = Append(tokens, NewRow(n + 1))
        /\ presented' = Append(presented, 0) /\ cookie' = Len(tokens') /\ loads < MaxLoads
        /\ loads' = loads + 1 /\ tab' = [tab EXCEPT ![t] = "loading"]
    BY DEF SignInCompletes
  <1>1. n \in Nat /\ tokens \in Seq(TokenRow) /\ presented \in [1 .. n -> 0 .. 2]
    BY TypeFacts DEF RestOK
  <1>2. NewRow(n + 1) \in TokenRow
    BY <1>1 DEF NewRow, TokenRow, Reasons
  <1>3. /\ tokens' \in Seq(TokenRow) /\ Len(tokens') = n + 1
        /\ \A i \in 1 .. n : tokens'[i] = tokens[i]
        /\ tokens'[n + 1] = NewRow(n + 1)
    BY <1>0, <1>1, <1>2, Appended
  <1>4. presented' \in [1 .. n + 1 -> 0 .. 2] /\ \A i \in 1 .. n : presented'[i] = presented[i]
    BY <1>0, <1>1, NewCounter
  <1>5. RestOK'
    BY <1>0, <1>1, <1>3, <1>4, TypeFacts, BoundsNatural DEF RestOK, Issued, AuthStates
  <1>6. \A q \in Requests : SameRow(q) /\ RowOK(request'[q], n)
    BY <1>0, AbandonEffect
  <1>7. SessionsTypeOK'
    BY <1>0, <1>1, <1>3, <1>5, <1>6, AbandonEffect, MoreTokens, NextTypeParts
  <1> QED
    BY <1>3, <1>4, <1>6, <1>7 DEF Issued

LEMMA RejectEffect ==
  ASSUME SessionsTypeOK, NEW r \in Requests, RejectExpired(r)
  PROVE  /\ SessionsTypeOK' /\ Len(tokens') = Len(tokens) /\ presented' = presented
         /\ request'[r].pc = "answered" /\ \A q \in Requests \ {r} : request'[q] = request[q]
         /\ \A i \in Issued : i # request[r].token => tokens'[i] = tokens[i]
         /\ request[r].token \in Issued
         /\ tokens'[request[r].token].family = tokens[request[r].token].family
         /\ tokens'[request[r].token].used = tokens[request[r].token].used
         /\ tokens'[request[r].token].revoked = "expired"
  <1> DEFINE i == request[r].token
  <1>0. /\ tokens' = [tokens EXCEPT ![i].revoked = "expired"] /\ Answer(r, "unauthorized", 0)
        /\ UNCHANGED <<cookie, tab, loads, presented>> /\ i # 0
    BY DEF RejectExpired, SelectForUpdate
  <1>1. i \in 1 .. Len(tokens) /\ tokens[i] \in TokenRow /\ tokens \in Seq(TokenRow)
    BY <1>0, TypeFacts DEF RowOK, Issued, RestOK
  <1> HIDE DEF i
  <1>2. PICK row : row = [tokens[i] EXCEPT !.revoked = "expired"]
    OBVIOUS
  <1>3. tokens' = [tokens EXCEPT ![i] = row]
    BY <1>0, <1>1, <1>2
  <1>4. row \in TokenRow /\ row.family = tokens[i].family /\ row.used = tokens[i].used
        /\ row.revoked = "expired"
    BY <1>1, <1>2 DEF TokenRow, Reasons
  <1>5. /\ tokens' \in Seq(TokenRow) /\ Len(tokens') = Len(tokens) /\ tokens'[i] = row
        /\ \A k \in 1 .. Len(tokens) : k # i => tokens'[k] = tokens[k]
    BY <1>1, <1>3, <1>4, OneToken
  <1>6. RestOK'
    BY <1>0, <1>5, TypeFacts DEF RestOK, Issued
  <1>7. /\ request' \in [Requests -> RequestRow] /\ \A q \in Requests : RowOK(request'[q], Len(tokens))
        /\ request'[r].pc = "answered" /\ \A q \in Requests \ {r} : request'[q] = request[q]
    BY <1>0, TypeFacts, AnswerEffect DEF Answers
  <1> QED
    BY <1>0, <1>1, <1>4, <1>5, <1>6, <1>7, NextTypeParts DEF Issued, i

LEMMA RotateEffect ==
  ASSUME SessionsTypeOK, NEW r \in Requests, Rotate(r)
  PROVE  /\ SessionsTypeOK' /\ Len(tokens') = Len(tokens) + 1
         /\ request'[r].pc = "answered" /\ \A q \in Requests \ {r} : request'[q] = request[q]
         /\ \A i \in Issued : presented'[i] = presented[i]
         /\ \A i \in Issued : i # request[r].token => tokens'[i] = tokens[i]
         /\ request[r].token \in Issued
         /\ tokens'[request[r].token].family = tokens[request[r].token].family
         /\ tokens'[request[r].token].used /\ tokens'[request[r].token].revoked = "rotated"
         /\ tokens'[Len(tokens) + 1] = NewRow(tokens[request[r].token].family)
  <1> DEFINE i == request[r].token
             n == Len(tokens)
             old == [tokens EXCEPT ![i].used = TRUE, ![i].revoked = "rotated"]
  <1>0. /\ tokens' = Append(old, NewRow(tokens[i].family)) /\ Answer(r, "token", Len(tokens'))
        /\ UNCHANGED <<cookie, tab, loads>> /\ presented' = Append(presented, 0)
        /\ request[r].pc = "rotating"
    BY DEF Rotate, Rotated
  <1>1. /\ i \in 1 .. n /\ n \in Nat /\ tokens[i] \in TokenRow /\ tokens \in Seq(TokenRow)
        /\ presented \in [1 .. n -> 0 .. 2]
    BY <1>0, TypeFacts DEF RowOK, Issued, RestOK
  <1> HIDE DEF i
  <1>2. PICK row : row = [tokens[i] EXCEPT !.used = TRUE, !.revoked = "rotated"]
    OBVIOUS
  <1>3. old = [tokens EXCEPT ![i] = row]
    BY <1>1, <1>2
  <1>4. row \in TokenRow /\ row.family = tokens[i].family /\ row.used /\ row.revoked = "rotated"
    BY <1>1, <1>2 DEF TokenRow, Reasons
  <1> HIDE DEF old
  <1>5. /\ old \in Seq(TokenRow) /\ Len(old) = n /\ old[i] = row
        /\ \A k \in 1 .. n : k # i => old[k] = tokens[k]
    BY <1>1, <1>3, <1>4, OneToken
  <1>6. NewRow(tokens[i].family) \in TokenRow
    BY <1>1 DEF NewRow, TokenRow
  <1>7. /\ tokens' \in Seq(TokenRow) /\ Len(tokens') = n + 1
        /\ \A k \in 1 .. n : tokens'[k] = old[k]
        /\ tokens'[n + 1] = NewRow(tokens[i].family)
    BY <1>0, <1>5, <1>6, Appended
  <1>8. presented' \in [1 .. n + 1 -> 0 .. 2] /\ \A k \in 1 .. n : presented'[k] = presented[k]
    BY <1>0, <1>1, NewCounter
  <1>9. RestOK'
    BY <1>0, <1>1, <1>7, <1>8, TypeFacts DEF RestOK, Issued
  <1>10. /\ request' \in [Requests -> RequestRow] /\ \A q \in Requests : RowOK(request'[q], n + 1)
         /\ request'[r].pc = "answered" /\ \A q \in Requests \ {r} : request'[q] = request[q]
    <2>1. Answer(r, "token", n + 1)
      BY <1>0, <1>7
    <2> QED
      BY <1>1, <2>1, AnswerEffect DEF Answers
  <1> QED
    BY <1>1, <1>4, <1>5, <1>7, <1>8, <1>9, <1>10, NextTypeParts DEF Issued, i

LEMMA RevokeFamilyEffect ==
  ASSUME SessionsTypeOK, NEW r \in Requests, RevokeFamily(r)
  PROVE  /\ SessionsTypeOK' /\ Len(tokens') = Len(tokens) /\ presented' = presented
         /\ request'[r].pc = "answered" /\ \A q \in Requests \ {r} : request'[q] = request[q]
         /\ request[r].token \in Issued
         /\ \A i \in Issued :
             /\ tokens'[i].family = tokens[i].family /\ tokens'[i].used = tokens[i].used
             /\ i \notin request[r].seen => tokens'[i].revoked = tokens[i].revoked
             /\ i \in request[r].seen =>
                   tokens'[i].revoked = IF request[r].kind = "refresh" THEN "reuse_detected" ELSE "logout"
  <1> DEFINE reason == IF request[r].kind = "refresh" THEN "reuse_detected" ELSE "logout"
             rows == request[r].seen
             answer == IF request[r].kind = "refresh" THEN "unauthorized" ELSE "signed_out"
  <1>0. /\ tokens' = RevokedRows(rows, reason) /\ Answer(r, answer, 0) /\ request[r].pc = "revoking"
        /\ UNCHANGED <<cookie, tab, loads, presented>>
    BY DEF RevokeFamily
  <1>1. reason \in Reasons /\ answer \in Answers \ {"none"}
    BY DEF Reasons, Answers
  <1>2. Len(tokens) \in Nat /\ Issued = 1 .. Len(tokens) /\ \A i \in Issued : tokens[i] \in TokenRow
    BY TypeFacts
  <1> HIDE DEF reason, rows, answer
  <1>3. ASSUME NEW i \in Issued
        PROVE  /\ tokens'[i] \in TokenRow /\ tokens'[i].family = tokens[i].family
               /\ tokens'[i].used = tokens[i].used
               /\ i \notin rows => tokens'[i].revoked = tokens[i].revoked
               /\ i \in rows => tokens'[i].revoked = reason
    <2>1. CASE i \in rows
      <3>1. PICK row : row = [tokens[i] EXCEPT !.revoked = reason]
        OBVIOUS
      <3>2. tokens'[i] = row
        BY <1>0, <2>1, <3>1 DEF RevokedRows
      <3>3. row \in TokenRow /\ row.family = tokens[i].family /\ row.used = tokens[i].used
            /\ row.revoked = reason
        BY <1>1, <1>2, <3>1 DEF TokenRow
      <3> QED
        BY <2>1, <3>2, <3>3
    <2>2. CASE i \notin rows
      BY <1>0, <1>2, <2>2 DEF RevokedRows
    <2> QED
      BY <2>1, <2>2
  <1>4. tokens' = [i \in Issued |-> tokens'[i]]
    BY <1>0 DEF RevokedRows
  <1>5. tokens' \in [1 .. Len(tokens) -> TokenRow]
    BY <1>2, <1>3, <1>4
  <1>6. tokens' \in Seq(TokenRow) /\ Len(tokens') = Len(tokens)
    BY <1>2, <1>5, Remapped
  <1>7. RestOK'
    BY <1>0, <1>6, TypeFacts DEF RestOK, Issued
  <1>8. /\ request' \in [Requests -> RequestRow] /\ \A q \in Requests : RowOK(request'[q], Len(tokens))
        /\ request'[r].pc = "answered" /\ \A q \in Requests \ {r} : request'[q] = request[q]
    BY <1>0, <1>1, <1>2, AnswerEffect
  <1>9. request[r].token \in Issued
    BY <1>0, TypeFacts DEF RowOK
  <1> QED
    BY <1>0, <1>3, <1>6, <1>7, <1>8, <1>9, NextTypeParts DEF reason, rows

LEMMA ExpireEffect ==
  ASSUME SessionsTypeOK, Expire
  PROVE  /\ SessionsTypeOK' /\ Len(tokens') = Len(tokens) /\ UNCHANGED <<request, presented>>
         /\ \A i \in Issued : /\ tokens'[i].family = tokens[i].family
                              /\ tokens'[i].used = tokens[i].used
                              /\ tokens'[i].revoked = tokens[i].revoked
  <1>0. /\ tokens' = [i \in Issued |-> [tokens[i] EXCEPT !.expired = TRUE]]
        /\ UNCHANGED <<cookie, tab, request, loads, presented>>
    BY DEF Expire
  <1>1. Len(tokens) \in Nat /\ Issued = 1 .. Len(tokens) /\ \A i \in Issued : tokens[i] \in TokenRow
    BY TypeFacts
  <1>2. ASSUME NEW i \in Issued
        PROVE  /\ tokens'[i] \in TokenRow /\ tokens'[i].family = tokens[i].family
               /\ tokens'[i].used = tokens[i].used /\ tokens'[i].revoked = tokens[i].revoked
    <2>1. PICK row : row = [tokens[i] EXCEPT !.expired = TRUE]
      OBVIOUS
    <2>2. tokens'[i] = row
      BY <1>0, <2>1
    <2> QED
      BY <1>1, <2>1, <2>2 DEF TokenRow
  <1>3. tokens' = [i \in Issued |-> tokens'[i]]
    BY <1>0
  <1>4. tokens' \in [1 .. Len(tokens) -> TokenRow]
    BY <1>1, <1>2, <1>3
  <1>5. tokens' \in Seq(TokenRow) /\ Len(tokens') = Len(tokens)
    BY <1>1, <1>4, Remapped
  <1>6. RestOK'
    BY <1>0, <1>5, TypeFacts DEF RestOK, Issued
  <1> QED
    BY <1>0, <1>2, <1>5, <1>6, TypeFacts, NextTypeParts

(* A step that changes no token and, at most, ends requests.               *)
Quiet ==
    /\ SessionsTypeOK' /\ UNCHANGED <<tokens, presented>>
    /\ \A q \in Requests : SameRow(q) \/ request'[q].pc \in {"free", "answered"}

LEMMA LoadEffect == ASSUME SessionsTypeOK, NEW t \in Tabs, Load(t) PROVE Quiet
  <1>1. request' = Abandoned(t) /\ UNCHANGED <<tokens, cookie, presented>> /\ loads < MaxLoads
        /\ loads' = loads + 1 /\ tab' = [tab EXCEPT ![t] = "loading"]
    BY DEF Load
  <1>2. RestOK'
    BY <1>1, TypeFacts, BoundsNatural DEF RestOK, AuthStates, Issued
  <1> QED
    BY <1>1, <1>2, AbandonEffect, NextTypeParts DEF Quiet

LEMMA EndEffect ==
  ASSUME SessionsTypeOK, NEW r \in Requests,
         NoToken(r) \/ DeadlockVictim(r) \/ Receive(r) \/ ConnectionLost(r)
  PROVE  Quiet
  <1>1. CASE NoToken(r) \/ DeadlockVictim(r)
    <2>1. PICK answer \in Answers \ {"none"} : Answer(r, answer, 0)
      BY <1>1 DEF NoToken, DeadlockVictim, Answers
    <2>2. UNCHANGED <<tokens, cookie, tab, loads, presented>>
      BY <1>1 DEF NoToken, DeadlockVictim
    <2>3. /\ request' \in [Requests -> RequestRow]
          /\ \A q \in Requests : RowOK(request'[q], Len(tokens))
          /\ request'[r].pc = "answered" /\ \A q \in Requests \ {r} : request'[q] = request[q]
      BY <2>1, TypeFacts, AnswerEffect
    <2>4. RestOK'
      BY <2>2, TypeFacts DEF RestOK, Issued
    <2> QED
      BY <2>2, <2>3, <2>4, NextTypeParts DEF Quiet, SameRow
  <1>2. CASE Receive(r) \/ ConnectionLost(r)
    <2>1. request' = [request EXCEPT ![r] = Free] /\ UNCHANGED <<tokens, loads, presented>>
      BY <1>2 DEF Receive, ConnectionLost
    <2>2. cookie' \in {0} \cup Issued
      BY <1>2, TypeFacts DEF Receive, ConnectionLost, CookieAfter, RowOK, RestOK
    <2>3. tab' \in [Tabs -> AuthStates]
      <3>1. ASSUME NEW t \in Tabs \cup {NoTab}, NEW states \in SUBSET AuthStates, Show(t, states)
            PROVE  tab' \in [Tabs -> AuthStates]
        BY <3>1, TypeFacts DEF Show, RestOK
      <3>2. ShownFor(request[r].answer) \subseteq AuthStates /\ {"anonymous"} \subseteq AuthStates
        BY DEF ShownFor, AuthStates
      <3>3. request[r].tab \in Tabs \cup {NoTab}
        BY TypeFacts DEF RequestRow
      <3> QED
        BY <1>2, <3>1, <3>2, <3>3 DEF Receive, ConnectionLost
    <2>4. RestOK'
      BY <2>1, <2>2, <2>3, TypeFacts DEF RestOK, Issued
    <2>5. Free.pc = "free"
      BY DEF Free
    <2> QED
      BY <2>1, <2>4, <2>5, TypeFacts, FreeOK, OneRow, NextTypeParts DEF Quiet, SameRow
  <1> QED
    BY <1>1, <1>2
-----------------------------------------------------------------------------
(* The invariant is kept, step by step.                                    *)
LEMMA QuietStep == ASSUME SessionsInv, Quiet PROVE SessionsInv'
  <1>0. /\ tokens' = tokens /\ presented' = presented /\ Issued' = Issued
        /\ \A q \in Requests : SameRow(q) \/ request'[q].pc \in {"free", "answered"}
    BY DEF Quiet, Issued
  <1>1. \A q \in Requests : Pending(q)' => SameRow(q) /\ Pending(q)
    BY <1>0 DEF Pending, SameRow
  <1>2. FamiliesOK' /\ RevocationReachesOlder'
    BY <1>0 DEF SessionsInv, FamiliesOK, RevocationReachesOlder, Condemned
  <1>3. LocksOK'
    BY <1>0 DEF SessionsInv, LocksOK, SameRow, Live, Dead
  <1>4. CarriersOK'
    BY <1>0, <1>1 DEF SessionsInv, CarriersOK, SameRow, Consumed
  <1>5. \A f : Replayed(f) => Replayed(f)'
    BY <1>0 DEF Replayed
  <1>6. \A j \in Issued : SignedOut(j) => SignedOut(j)'
    BY <1>0, <1>1 DEF SignedOut, SameRow
  <1>7. RevocationsOK'
    BY <1>0, <1>5, <1>6 DEF SessionsInv, RevocationsOK, SameRow
  <1> QED
    BY <1>2, <1>3, <1>4, <1>7 DEF SessionsInv, Quiet

LEMMA SendStep ==
  ASSUME SessionsInv, NEW t \in Tabs, NEW r \in Requests, NEW kind \in {"refresh", "logout"},
         Send(t, r, kind)
  PROVE  SessionsInv'
  <1>0. /\ SessionsTypeOK' /\ request[r].pc = "free" /\ request'[r].pc = "sent"
        /\ request'[r].token = cookie /\ \A q \in Requests \ {r} : request'[q] = request[q]
        /\ tokens' = tokens /\ Issued' = Issued
        /\ \A i \in Issued : presented[i] \in 0 .. 2 /\ presented'[i] \in 0 .. 2
        /\ \A i \in Issued : i # cookie => presented'[i] = presented[i]
        /\ cookie # 0 => /\ presented[cookie] = 0 => presented'[cookie] = 1
                         /\ presented[cookie] >= 1 => presented'[cookie] = 2
        /\ cookie \in {0} \cup Issued /\ \A q \in Requests : request[q].token \in {0} \cup Issued
        /\ 0 \notin Issued
    <2>1. SessionsTypeOK
      BY DEF SessionsInv
    <2>2. /\ cookie \in {0} \cup Issued /\ \A q \in Requests : request[q].token \in {0} \cup Issued
          /\ presented \in [Issued -> 0 .. 2] /\ 0 \notin Issued
      BY <2>1 DEF SessionsTypeOK, Issued
    <2> QED
      BY <2>1, <2>2, SendEffect DEF Issued
  <1>1. /\ \A i \in Issued : presented[i] >= 1 => presented'[i] >= 1
        /\ \A i \in Issued : presented[i] = 2 => presented'[i] = 2
    BY <1>0
  <1>2. FamiliesOK' /\ RevocationReachesOlder'
    BY <1>0 DEF SessionsInv, FamiliesOK, RevocationReachesOlder, Condemned
  <1>3. LocksOK'
    BY <1>0 DEF SessionsInv, LocksOK, Live, Dead
  <1>4. \A q \in Requests : Pending(q)' <=> q = r \/ Pending(q)
    BY <1>0 DEF Pending
  <1>5. ASSUME NEW q \in Requests, Pending(q)', request'[q].token # 0
        PROVE  /\ presented'[request'[q].token] >= 1
               /\ Consumed(request'[q].token) => presented'[request'[q].token] = 2
    <2>1. CASE q = r
      <3>1. cookie \in Issued /\ request'[q].token = cookie
        BY <1>0, <1>5, <2>1
      <3>2. Consumed(cookie) => presented[cookie] >= 1
        BY <3>1 DEF SessionsInv, CarriersOK
      <3> QED
        BY <1>0, <1>1, <3>1, <3>2
    <2>2. CASE q # r
      <3>1. Pending(q) /\ request'[q] = request[q]
        BY <1>0, <1>4, <1>5, <2>2
      <3>2. /\ presented[request[q].token] >= 1
            /\ Consumed(request[q].token) => presented[request[q].token] = 2
        BY <1>5, <3>1 DEF SessionsInv, CarriersOK
      <3>3. request[q].token \in Issued
        BY <1>0, <1>5, <3>1
      <3> QED
        BY <1>1, <3>1, <3>2, <3>3
    <2> QED
      BY <2>1, <2>2
  <1>6. ASSUME NEW p \in Requests, NEW q \in Requests, Pending(p)', Pending(q)',
               request'[p].token # 0, request'[q].token = request'[p].token, p # q
        PROVE  presented'[request'[p].token] = 2
    <2>1. CASE p = r
      <3>1. Pending(q) /\ request[q].token = cookie /\ cookie # 0
        BY <1>0, <1>4, <1>6, <2>1
      <3>2. presented[cookie] >= 1
        BY <3>1 DEF SessionsInv, CarriersOK
      <3> QED
        BY <1>0, <2>1, <3>1, <3>2
    <2>2. CASE q = r
      <3>1. Pending(p) /\ request[p].token = cookie /\ cookie # 0 /\ request'[p].token = cookie
        BY <1>0, <1>4, <1>6, <2>2
      <3>2. presented[cookie] >= 1
        BY <3>1 DEF SessionsInv, CarriersOK
      <3> QED
        BY <1>0, <3>1, <3>2
    <2>3. CASE p # r /\ q # r
      <3>1. Pending(p) /\ Pending(q) /\ request'[p] = request[p] /\ request'[q] = request[q]
        BY <1>0, <1>4, <1>6, <2>3
      <3>2. presented[request[p].token] = 2
        BY <1>6, <3>1 DEF SessionsInv, CarriersOK
      <3> QED
        BY <1>0, <1>6, <3>1, <3>2
    <2> QED
      BY <2>1, <2>2, <2>3
  <1>7. \A i \in Issued : Consumed(i) => presented'[i] >= 1
    BY <1>0, <1>1 DEF SessionsInv, CarriersOK
  <1>8. CarriersOK'
    BY <1>0, <1>5, <1>6, <1>7 DEF CarriersOK, Consumed
  <1>9. \A f : Replayed(f) => Replayed(f)'
    BY <1>0 DEF Replayed
  <1>10. \A j \in Issued : SignedOut(j) => SignedOut(j)' \/ Replayed(tokens[j].family)'
    <2> TAKE j \in Issued
    <2>1. CASE j = cookie
      BY <1>0, <2>1 DEF SignedOut, Replayed
    <2>2. CASE j # cookie
      BY <1>0, <1>4, <2>2 DEF SignedOut
    <2> QED
      BY <2>1, <2>2
  <1>11. RevocationsOK'
    BY <1>0, <1>9, <1>10 DEF SessionsInv, RevocationsOK
  <1> QED
    BY <1>0, <1>2, <1>3, <1>8, <1>11 DEF SessionsInv

(* Both requests that revoke: the rows they see reach the family's first.  *)
LEMMA RevokeStep ==
  ASSUME SessionsInv, NEW r \in Requests, DetectReuse(r) \/ BeginLogout(r)
  PROVE  SessionsInv'
  <1> DEFINE i == request[r].token
  <1>0. /\ SessionsTypeOK' /\ tokens' = tokens /\ presented' = presented /\ Issued' = Issued
        /\ request[r].pc = "sent" /\ request'[r].pc = "revoking" /\ i \in Issued /\ i # 0
        /\ request'[r].kind = request[r].kind /\ request'[r].token = i /\ request'[r].seen = Family(i)
        /\ \A q \in Requests \ {r} : request'[q] = request[q]
    <2>1. BeginRevoke(r) /\ request[r].pc = "sent" /\ request[r].token # 0
      BY DEF DetectReuse, BeginLogout, SelectForUpdate
    <2>2. tokens' = tokens /\ presented' = presented
      BY <2>1 DEF BeginRevoke
    <2>3. SessionsTypeOK /\ i \in {0} \cup Issued
      BY DEF SessionsInv, SessionsTypeOK
    <2> QED
      BY <2>1, <2>2, <2>3, RevokeEffect DEF Issued
  <1>1. \A q \in Requests : /\ Pending(q)' <=> Pending(q)
                            /\ request'[q].token = request[q].token
                            /\ request'[q].kind = request[q].kind
    BY <1>0 DEF Pending
  <1>2. FamiliesOK' /\ RevocationReachesOlder'
    BY <1>0 DEF SessionsInv, FamiliesOK, RevocationReachesOlder, Condemned
  <1>3. LocksOK'
    BY <1>0 DEF SessionsInv, LocksOK, Live, Dead, Family
  <1>4. CarriersOK'
    BY <1>0, <1>1 DEF SessionsInv, CarriersOK, Consumed
  <1>5. \A f : Replayed(f) => Replayed(f)'
    BY <1>0 DEF Replayed
  <1>6. \A j \in Issued : SignedOut(j) => SignedOut(j)'
    BY <1>0, <1>1 DEF SignedOut
  <1>7. request[r].kind = "refresh" => Replayed(tokens[i].family)
    <2> SUFFICES ASSUME DetectReuse(r) PROVE Replayed(tokens[i].family)
      BY DEF BeginLogout, DetectReuse, SelectForUpdate
    <2>1. Pending(r) /\ Dead(i)
      BY <1>0 DEF DetectReuse, Pending
    <2>2. CASE Consumed(i)
      BY <1>0, <2>1, <2>2 DEF SessionsInv, CarriersOK, Replayed
    <2>3. CASE ~Consumed(i)
      <3>1. tokens[i].revoked \in {"reuse_detected", "logout"}
        <4>1. tokens[i] \in TokenRow
          BY <1>0, TypeFacts DEF SessionsInv
        <4>2. tokens[i].revoked = "rotated" => tokens[i].used
          BY <1>0 DEF SessionsInv, FamiliesOK
        <4> QED
          BY <2>1, <2>3, <4>1, <4>2 DEF Dead, Consumed, TokenRow, Reasons
      <3>2. \A j \in Issued : tokens[j].family = tokens[i].family => ~SignedOut(j)
        <4> TAKE j \in Issued
        <4>1. CASE j = i
          BY <2>1, <4>1 DEF SignedOut
        <4>2. CASE j < i
          BY <1>0, <4>2 DEF SignedOut, SessionsInv, FamiliesOK
        <4>3. CASE i < j
          BY <1>0, <2>3, <4>3 DEF Consumed, SessionsInv, FamiliesOK
        <4> QED
          BY <1>0, <4>1, <4>2, <4>3 DEF Issued
      <3> QED
        BY <1>0, <3>1, <3>2 DEF SessionsInv, RevocationsOK
    <2> QED
      BY <2>2, <2>3
  <1>8. RevocationsOK'
    BY <1>0, <1>5, <1>6, <1>7 DEF SessionsInv, RevocationsOK
  <1> QED
    BY <1>0, <1>2, <1>3, <1>4, <1>8 DEF SessionsInv

LEMMA RotationStep == ASSUME SessionsInv, NEW r \in Requests, BeginRotation(r) PROVE SessionsInv'
  <1>0. /\ SessionsTypeOK' /\ tokens' = tokens /\ presented' = presented /\ Issued' = Issued
        /\ request[r].pc = "sent" /\ request'[r].pc = "rotating" /\ request[r].kind = "refresh"
        /\ request'[r].kind = request[r].kind /\ request'[r].token = request[r].token
        /\ \A q \in Requests \ {r} : request'[q] = request[q]
        /\ Live(request[r].token) /\ ~Locked(request[r].token, r)
    BY RotationEffect DEF BeginRotation, SelectForUpdate, Usable, Live, SessionsInv, Issued
  <1>1. \A q \in Requests : /\ Pending(q)' <=> Pending(q)
                            /\ request'[q].token = request[q].token
                            /\ request'[q].kind = request[q].kind
    BY <1>0 DEF Pending
  <1>2. FamiliesOK' /\ RevocationReachesOlder'
    BY <1>0 DEF SessionsInv, FamiliesOK, RevocationReachesOlder, Condemned
  <1>3. LocksOK'
    BY <1>0 DEF SessionsInv, LocksOK, Live, Dead, Locked
  <1>4. CarriersOK'
    BY <1>0, <1>1 DEF SessionsInv, CarriersOK, Consumed
  <1>5. \A f : Replayed(f) => Replayed(f)'
    BY <1>0 DEF Replayed
  <1>6. \A j \in Issued : SignedOut(j) => SignedOut(j)'
    BY <1>0, <1>1 DEF SignedOut
  <1>7. RevocationsOK'
    BY <1>0, <1>5, <1>6 DEF SessionsInv, RevocationsOK
  <1> QED
    BY <1>0, <1>2, <1>3, <1>4, <1>7 DEF SessionsInv

(* Steps that add tokens, or end requests, leave the locks worth what they *)
(* were.                                                                   *)
LEMMA LocksKept ==
  ASSUME SessionsInv, NEW m \in Nat, Issued' = 1 .. m, Len(tokens) <= m,
         \A i \in Issued : tokens'[i].family = tokens[i].family,
         \A q \in Requests : request'[q].pc \in {"rotating", "revoking"} => SameRow(q),
         \A q \in Requests : request'[q].pc = "rotating" =>
             ~tokens'[request[q].token].used /\ tokens'[request[q].token].revoked = "no"
  PROVE  LocksOK'
  <1>0. /\ Len(tokens) \in Nat /\ Issued = 1 .. Len(tokens)
        /\ \A q \in Requests : /\ request[q].seen \subseteq Issued
                               /\ request[q].pc \in {"rotating", "revoking"} => request[q].token \in Issued
    BY TypeFacts DEF SessionsInv, RowOK
  <1>1. ASSUME NEW q \in Requests, request'[q].pc = "rotating"
        PROVE  /\ request'[q].kind = "refresh"
               /\ ~tokens'[request'[q].token].used /\ tokens'[request'[q].token].revoked = "no"
               /\ \A p \in Requests :
                    request'[p].pc = "rotating" /\ request'[p].token = request'[q].token => p = q
    <2>1. request[q].pc = "rotating" /\ request'[q].token = request[q].token
          /\ request'[q].kind = request[q].kind
      BY <1>1 DEF SameRow
    <2>2. \A p \in Requests : request'[p].pc = "rotating" =>
              request[p].pc = "rotating" /\ request'[p].token = request[p].token
      BY DEF SameRow
    <2> QED
      BY <1>1, <2>1, <2>2 DEF SessionsInv, LocksOK
  <1>2. ASSUME NEW q \in Requests, request'[q].pc = "revoking"
        PROVE  /\ \A i \in request'[q].seen : tokens'[i].family = tokens'[request'[q].token].family
               /\ \A i, j \in Issued' :
                    i < j /\ tokens'[i].family = tokens'[j].family /\ j \in request'[q].seen
                        => i \in request'[q].seen
    <2>1. request[q].pc = "revoking" /\ request'[q].token = request[q].token
          /\ request'[q].seen = request[q].seen
      BY <1>2 DEF SameRow
    <2>2. /\ \A i \in request[q].seen : tokens[i].family = tokens[request[q].token].family
          /\ \A i, j \in Issued : i < j /\ tokens[i].family = tokens[j].family
                                        /\ j \in request[q].seen => i \in request[q].seen
      BY <2>1 DEF SessionsInv, LocksOK
    <2> QED
      BY <1>0, <2>1, <2>2
  <1> QED
    BY <1>1, <1>2 DEF LocksOK, Live, Dead

LEMMA RevocationsKept ==
  ASSUME SessionsInv, Issued \subseteq Issued',
         \A i \in Issued : tokens'[i].family = tokens[i].family,
         \A q \in Requests : request'[q].pc = "revoking" => SameRow(q),
         \A i \in Issued' : tokens'[i].revoked \in {"reuse_detected", "logout"} =>
             i \in Issued /\ tokens[i].revoked = tokens'[i].revoked,
         \A f : Replayed(f) => Replayed(f)', \A j \in Issued : SignedOut(j) => SignedOut(j)'
  PROVE  RevocationsOK'
  <1>1. ASSUME NEW q \in Requests, request'[q].pc = "revoking", request'[q].kind = "refresh"
        PROVE  Replayed(tokens[request[q].token].family) /\ request[q].token \in Issued
               /\ request'[q].token = request[q].token
    <2>1. request[q].pc = "revoking" /\ request[q].kind = "refresh"
          /\ request'[q].token = request[q].token
      BY <1>1 DEF SameRow
    <2>2. request[q].token \in Issued
      BY <2>1, TypeFacts DEF SessionsInv, RowOK
    <2> QED
      BY <2>1, <2>2 DEF SessionsInv, RevocationsOK
  <1>2. \A q \in Requests : request'[q].pc = "revoking" /\ request'[q].kind = "refresh" =>
            \E f : f = tokens'[request'[q].token].family /\ Replayed(f)'
    BY <1>1
  <1>3. \A i \in Issued' : tokens'[i].revoked = "reuse_detected" =>
            \E f : f = tokens'[i].family /\ Replayed(f)'
    BY DEF SessionsInv, RevocationsOK
  <1>4. \A i \in Issued' : tokens'[i].revoked = "logout" =>
            \/ \E f : f = tokens'[i].family /\ Replayed(f)'
            \/ \E j \in Issued' : tokens'[j].family = tokens'[i].family /\ SignedOut(j)'
    BY DEF SessionsInv, RevocationsOK
  <1> QED
    BY <1>2, <1>3, <1>4 DEF RevocationsOK, Replayed

LEMMA SignInStep == ASSUME SessionsInv, NEW t \in Tabs, SignInCompletes(t) PROVE SessionsInv'
  <1>n. PICK n : n = Len(tokens)
    OBVIOUS
  <1>0. /\ SessionsTypeOK' /\ \A q \in Requests : SameRow(q)
        /\ n \in Nat /\ Issued = 1 .. n /\ Issued' = 1 .. n + 1
        /\ \A i \in Issued : tokens'[i] = tokens[i] /\ presented'[i] = presented[i]
        /\ tokens'[n + 1].family = n + 1 /\ ~tokens'[n + 1].used /\ tokens'[n + 1].revoked = "no"
        /\ \A q \in Requests : request[q].token \in 0 .. n /\ request[q].seen \subseteq 1 .. n
        /\ \A q \in Requests : request[q].pc \in {"rotating", "revoking"} => request[q].token # 0
        /\ \A i \in Issued : tokens[i].family \in 1 .. n
    <2>1. SessionsTypeOK /\ \A i \in Issued : tokens[i].family \in Issued
      BY DEF SessionsInv, FamiliesOK
    <2>2. /\ n \in Nat /\ Issued = 1 .. n
          /\ \A q \in Requests : RowOK(request[q], n)
      BY <1>n, <2>1, TypeFacts
    <2>3. /\ SessionsTypeOK' /\ Len(tokens') = n + 1 /\ \A q \in Requests : SameRow(q)
          /\ \A i \in Issued : tokens'[i] = tokens[i] /\ presented'[i] = presented[i]
          /\ tokens'[n + 1] = NewRow(n + 1)
      BY <1>n, <2>1, SignInEffect
    <2>4. tokens'[n + 1].family = n + 1 /\ ~tokens'[n + 1].used /\ tokens'[n + 1].revoked = "no"
      BY <2>2, <2>3 DEF NewRow
    <2>5. Issued' = 1 .. n + 1
      BY <2>3 DEF Issued
    <2> QED
      BY <2>1, <2>2, <2>3, <2>4, <2>5 DEF RowOK
  <1>1. \A q \in Requests : Pending(q)' <=> Pending(q)
    BY <1>0 DEF Pending, SameRow
  <1>2. FamiliesOK'
    BY <1>0 DEF SessionsInv, FamiliesOK
  <1>3. RevocationReachesOlder'
    BY <1>0 DEF SessionsInv, RevocationReachesOlder, Condemned
  <1>4. LocksOK'
    <2>1. ASSUME NEW q \in Requests, request'[q].pc = "rotating"
          PROVE  ~tokens'[request[q].token].used /\ tokens'[request[q].token].revoked = "no"
      <3>1. request[q].pc = "rotating" /\ request[q].token \in Issued
        BY <1>0, <2>1 DEF SameRow
      <3> QED
        BY <1>0, <3>1 DEF SessionsInv, LocksOK, Live, Dead
    <2>2. n + 1 \in Nat /\ Len(tokens) <= n + 1
      BY <1>n, <1>0
    <2> QED
      BY <1>0, <2>1, <2>2, LocksKept
  <1>5. CarriersOK'
    BY <1>0, <1>1 DEF SessionsInv, CarriersOK, SameRow, Consumed
  <1>6. \A f : Replayed(f) => Replayed(f)'
    BY <1>0 DEF Replayed
  <1>7. \A j \in Issued : SignedOut(j) => SignedOut(j)'
    BY <1>0, <1>1 DEF SignedOut, SameRow
  <1>8. RevocationsOK'
    BY <1>0, <1>6, <1>7, RevocationsKept
  <1> QED
    BY <1>0, <1>2, <1>3, <1>4, <1>5, <1>8 DEF SessionsInv

LEMMA RejectStep == ASSUME SessionsInv, NEW r \in Requests, RejectExpired(r) PROVE SessionsInv'
  <1>k. PICK k : k = request[r].token
    OBVIOUS
  <1>0. /\ SessionsTypeOK' /\ presented' = presented /\ Issued' = Issued
        /\ request[r].pc = "sent" /\ request'[r].pc = "answered" /\ k \in Issued /\ k # 0
        /\ \A q \in Requests \ {r} : request'[q] = request[q]
        /\ \A i \in Issued : i # k => tokens'[i] = tokens[i]
        /\ tokens'[k].family = tokens[k].family /\ tokens'[k].used = tokens[k].used
        /\ tokens'[k].revoked = "expired"
        /\ Live(k) /\ ~Locked(k, r)
    BY <1>k, RejectEffect DEF RejectExpired, SelectForUpdate, Usable, Live, SessionsInv, Issued
  <1>1. \A q \in Requests : Pending(q)' => q # r /\ Pending(q)
    BY <1>0 DEF Pending
  <1>2. FamiliesOK'
    BY <1>0 DEF SessionsInv, FamiliesOK
  <1>3. RevocationReachesOlder'
    BY <1>0 DEF SessionsInv, RevocationReachesOlder, Condemned, Live, Dead
  <1>4. LocksOK'
    <2>1. /\ Len(tokens) \in Nat /\ Issued = 1 .. Len(tokens)
          /\ \A q \in Requests : request[q].pc = "rotating" => request[q].token \in Issued
      BY TypeFacts DEF SessionsInv, RowOK
    <2>2. ASSUME NEW q \in Requests, request'[q].pc = "rotating"
          PROVE  ~tokens'[request[q].token].used /\ tokens'[request[q].token].revoked = "no"
      <3>1. q # r /\ request[q].pc = "rotating" /\ request[q].token \in Issued
        BY <1>0, <2>1, <2>2
      <3>2. request[q].token # k
        BY <1>0, <3>1 DEF Locked
      <3> QED
        BY <1>0, <3>1, <3>2 DEF SessionsInv, LocksOK, Live, Dead
    <2>3. \A q \in Requests : request'[q].pc \in {"rotating", "revoking"} => SameRow(q)
      BY <1>0 DEF SameRow
    <2>4. \A i \in Issued : tokens'[i].family = tokens[i].family
      BY <1>0
    <2> QED
      BY <1>0, <2>1, <2>2, <2>3, <2>4, LocksKept
  <1>5. CarriersOK'
    <2>1. Pending(r) /\ request[r].token = k
      BY <1>0, <1>k DEF Pending
    <2>2. presented[k] >= 1
      BY <1>0, <2>1 DEF SessionsInv, CarriersOK
    <2>3. \A q \in Requests \ {r} : Pending(q) /\ request[q].token = k => presented[k] = 2
      BY <1>0, <2>1 DEF SessionsInv, CarriersOK
    <2>4. \A i \in Issued : i # k => (Consumed(i)' <=> Consumed(i))
      BY <1>0 DEF Consumed
    <2>5. \A q \in Requests : Pending(q)' => request'[q] = request[q] /\ Pending(q)
      BY <1>0, <1>1
    <2>6. \A q \in Requests : request[q].token # 0 => request[q].token \in Issued
      BY DEF SessionsInv, SessionsTypeOK
    <2> QED
      BY <1>0, <2>2, <2>3, <2>4, <2>5, <2>6 DEF SessionsInv, CarriersOK, Consumed
  <1>6. \A f : Replayed(f) => Replayed(f)'
    BY <1>0 DEF Replayed
  <1>7. \A j \in Issued : SignedOut(j) => SignedOut(j)'
    BY <1>0, <1>1 DEF SignedOut
  <1>8. RevocationsOK'
    BY <1>0, <1>6, <1>7, RevocationsKept DEF SameRow
  <1> QED
    BY <1>0, <1>2, <1>3, <1>4, <1>5, <1>8 DEF SessionsInv

LEMMA RotateStep == ASSUME SessionsInv, NEW r \in Requests, Rotate(r) PROVE SessionsInv'
  <1>n. PICK n, k : n = Len(tokens) /\ k = request[r].token
    OBVIOUS
  <1>0. /\ SessionsTypeOK' /\ n \in Nat /\ Issued = 1 .. n /\ Issued' = 1 .. n + 1
        /\ request[r].pc = "rotating" /\ request'[r].pc = "answered" /\ k \in 1 .. n
        /\ \A q \in Requests \ {r} : request'[q] = request[q]
        /\ \A i \in Issued : presented'[i] = presented[i]
        /\ \A i \in Issued : i # k => tokens'[i] = tokens[i]
        /\ tokens'[k].family = tokens[k].family /\ tokens'[k].used /\ tokens'[k].revoked = "rotated"
        /\ tokens'[n + 1].family = tokens[k].family
        /\ ~tokens'[n + 1].used /\ tokens'[n + 1].revoked = "no"
        /\ \A q \in Requests : request[q].token \in 0 .. n /\ request[q].seen \subseteq 1 .. n
        /\ \A q \in Requests : request[q].pc \in {"rotating", "revoking"} => request[q].token # 0
        /\ \A i \in Issued : tokens[i].family \in 1 .. n
    <2>1. SessionsTypeOK /\ \A i \in Issued : tokens[i].family \in Issued
      BY DEF SessionsInv, FamiliesOK
    <2>2. /\ n \in Nat /\ Issued = 1 .. n /\ request[r].pc = "rotating"
          /\ \A q \in Requests : RowOK(request[q], n)
      BY <1>n, <2>1, TypeFacts DEF Rotate
    <2>3. /\ SessionsTypeOK' /\ Len(tokens') = n + 1
          /\ request'[r].pc = "answered" /\ \A q \in Requests \ {r} : request'[q] = request[q]
          /\ \A i \in Issued : presented'[i] = presented[i]
          /\ \A i \in Issued : i # k => tokens'[i] = tokens[i]
          /\ k \in Issued /\ tokens'[k].family = tokens[k].family
          /\ tokens'[k].used /\ tokens'[k].revoked = "rotated"
          /\ tokens'[n + 1] = NewRow(tokens[k].family)
      BY <1>n, <2>1, RotateEffect
    <2>4. /\ \A q \in Requests : request[q].token \in 0 .. n /\ request[q].seen \subseteq 1 .. n
          /\ \A q \in Requests : request[q].pc \in {"rotating", "revoking"} => request[q].token # 0
      BY <2>2 DEF RowOK
    <2>5. /\ tokens'[n + 1].family = tokens[k].family
          /\ ~tokens'[n + 1].used /\ tokens'[n + 1].revoked = "no"
      BY <2>3 DEF NewRow
    <2>6. Issued' = 1 .. n + 1
      BY <2>3 DEF Issued
    <2> QED
      BY <2>1, <2>2, <2>3, <2>4, <2>5, <2>6
  <1>a. Live(k) /\ \A q \in Requests : request[q].pc = "rotating" /\ request[q].token = k => q = r
    BY <1>n, <1>0 DEF SessionsInv, LocksOK
  <1>b. request[r].token = k
    BY <1>n
  <1>1. \A q \in Requests : Pending(q)' => q # r /\ Pending(q)
    BY <1>0 DEF Pending
  <1>2. FamiliesOK'
    <2>1. \A i, j \in Issued' : i < j /\ tokens'[i].family = tokens'[j].family => tokens'[i].used
      <3> TAKE i, j \in Issued'
      <3> HAVE i < j /\ tokens'[i].family = tokens'[j].family
      <3>1. CASE i = k
        BY <1>0, <3>1
      <3>2. CASE i # k /\ j \in Issued
        <4>1. i \in Issued /\ tokens[i].family = tokens[j].family
          BY <1>0, <3>2
        <4> QED
          BY <1>0, <3>2, <4>1 DEF SessionsInv, FamiliesOK
      <3>3. CASE i # k /\ j = n + 1
        <4>1. i \in Issued /\ tokens[i].family = tokens[k].family
          BY <1>0, <3>3
        <4>2. ~(k < i)
          BY <1>0, <1>a, <4>1 DEF SessionsInv, FamiliesOK, Live, Dead
        <4>3. i < k
          BY <1>0, <3>3, <4>1, <4>2
        <4> QED
          BY <1>0, <3>3, <4>1, <4>3 DEF SessionsInv, FamiliesOK
      <3> QED
        BY <1>0, <3>1, <3>2, <3>3
    <2>2. \A i \in Issued' : tokens'[i].family \in Issued'
      BY <1>0
    <2>3. \A i \in Issued' : tokens'[i].revoked = "rotated" => tokens'[i].used
      BY <1>0 DEF SessionsInv, FamiliesOK
    <2> QED
      BY <2>1, <2>2, <2>3 DEF FamiliesOK
  <1>3. RevocationReachesOlder'
    <2>1. \A i \in Issued : i # k => (Condemned(i)' <=> Condemned(i))
      BY <1>0 DEF Condemned
    <2>2. ~Condemned(k)' /\ ~Condemned(n + 1)' /\ ~Condemned(k)
      BY <1>0, <1>a DEF Condemned, Live, Dead
    <2>3. \A i \in Issued : tokens'[i].family = tokens[i].family
      BY <1>0
    <2> QED
      BY <1>0, <2>1, <2>2, <2>3 DEF SessionsInv, RevocationReachesOlder
  <1>4. LocksOK'
    <2> SUFFICES ASSUME NEW q \in Requests \ {r}, request[q].pc \in {"rotating", "revoking"}
                 PROVE  /\ request[q].pc = "rotating" =>
                            /\ request[q].kind = "refresh" /\ Live(request[q].token)'
                            /\ \A p \in Requests : request'[p].pc = "rotating"
                                    /\ request'[p].token = request[q].token => p = q
                        /\ request[q].pc = "revoking" =>
                            /\ \A i \in request[q].seen :
                                  tokens'[i].family = tokens'[request[q].token].family
                            /\ \A i, j \in Issued' :
                                  i < j /\ tokens'[i].family = tokens'[j].family
                                        /\ j \in request[q].seen => i \in request[q].seen
      BY <1>0 DEF LocksOK, Live, Dead
    <2>1. request[q].token \in Issued /\ request[q].seen \subseteq Issued
      BY <1>0
    <2>2. \A i \in Issued : tokens'[i].family = tokens[i].family
      BY <1>0
    <2>3. CASE request[q].pc = "rotating"
      <3>1. request[q].token # k
        BY <1>a, <2>3
      <3>2. request[q].kind = "refresh" /\ Live(request[q].token)
            /\ \A p \in Requests : request[p].pc = "rotating" /\ request[p].token = request[q].token
                                      => p = q
        BY <2>3 DEF SessionsInv, LocksOK
      <3>3. tokens'[request[q].token] = tokens[request[q].token]
        BY <1>0, <2>1, <3>1
      <3>4. ~tokens'[request[q].token].used /\ tokens'[request[q].token].revoked = "no"
        BY <3>2, <3>3 DEF Live, Dead
      <3> QED
        BY <1>0, <2>3, <3>2, <3>4 DEF Live, Dead
    <2>4. CASE request[q].pc = "revoking"
      <3>1. /\ \A i \in request[q].seen : tokens[i].family = tokens[request[q].token].family
            /\ \A i, j \in Issued : i < j /\ tokens[i].family = tokens[j].family
                                          /\ j \in request[q].seen => i \in request[q].seen
        BY <2>4 DEF SessionsInv, LocksOK
      <3>2. \A i \in request[q].seen : tokens'[i].family = tokens'[request[q].token].family
        BY <2>1, <2>2, <3>1
      <3>3. ASSUME NEW i \in Issued', NEW j \in Issued', i < j, j \in request[q].seen,
                   tokens'[i].family = tokens'[j].family
            PROVE  i \in request[q].seen
        <4>1. j \in Issued /\ i \in Issued
          BY <1>0, <2>1, <3>3
        <4> QED
          BY <2>2, <3>1, <3>3, <4>1
      <3> QED
        BY <2>4, <3>2, <3>3
    <2> QED
      BY <2>3, <2>4
  <1>5. CarriersOK'
    <2>1. Pending(r)
      BY <1>0 DEF Pending
    <2>2. presented[k] >= 1
      BY <1>0, <1>b, <2>1 DEF SessionsInv, CarriersOK
    <2>3. \A q \in Requests \ {r} : Pending(q) /\ request[q].token = k => presented[k] = 2
      BY <1>0, <1>b, <2>1 DEF SessionsInv, CarriersOK
    <2>4. \A i \in Issued : i # k => (Consumed(i)' <=> Consumed(i))
      BY <1>0 DEF Consumed
    <2>5. ~Consumed(n + 1)'
      BY <1>0 DEF Consumed
    <2>6. \A q \in Requests : Pending(q)' => request'[q] = request[q] /\ Pending(q)
      BY <1>0, <1>1
    <2>7. \A q \in Requests : request[q].token \in 0 .. n
      BY <1>0
    <2>8. \A q \in Requests :
            Pending(q)' /\ request'[q].token # 0 => presented'[request'[q].token] >= 1
      BY <1>0, <2>6, <2>7 DEF SessionsInv, CarriersOK
    <2>9. \A p, q \in Requests :
            Pending(p)' /\ Pending(q)' /\ request'[p].token # 0
              /\ request'[q].token = request'[p].token
                => q = p \/ presented'[request'[p].token] = 2
      BY <1>0, <2>6, <2>7 DEF SessionsInv, CarriersOK
    <2>10. \A i \in Issued' : Consumed(i)' => presented'[i] >= 1
      <3> TAKE i \in Issued'
      <3>1. CASE i \in Issued /\ i # k
        BY <1>0, <2>4, <3>1 DEF SessionsInv, CarriersOK
      <3>2. CASE i = k
        BY <1>0, <2>2, <3>2
      <3>3. CASE i = n + 1
        BY <2>5, <3>3
      <3> QED
        BY <1>0, <3>1, <3>2, <3>3
    <2>11. \A q \in Requests :
             Pending(q)' /\ request'[q].token # 0 /\ Consumed(request[q].token)'
               => presented'[request'[q].token] = 2
      <3> TAKE q \in Requests
      <3> HAVE Pending(q)' /\ request'[q].token # 0 /\ Consumed(request[q].token)'
      <3>1. q # r /\ Pending(q) /\ request'[q] = request[q] /\ request[q].token \in Issued
        BY <1>0, <1>1, <2>6, <2>7
      <3>2. CASE request[q].token = k
        BY <1>0, <2>3, <3>1, <3>2
      <3>3. CASE request[q].token # k
        <4>1. Consumed(request[q].token)
          BY <2>4, <3>1, <3>3
        <4> QED
          BY <1>0, <3>1, <4>1 DEF SessionsInv, CarriersOK
      <3> QED
        BY <3>2, <3>3
    <2> QED
      BY <2>8, <2>9, <2>10, <2>11 DEF CarriersOK
  <1>6. \A f : Replayed(f) => Replayed(f)'
    BY <1>0 DEF Replayed
  <1>7. \A j \in Issued : SignedOut(j) => SignedOut(j)'
    <2> TAKE j \in Issued
    <2> HAVE SignedOut(j)
    <2>1. j # k
      BY <1>0, <1>b DEF SignedOut, Pending
    <2> QED
      BY <1>0, <1>1, <2>1 DEF SignedOut
  <1>8. RevocationsOK'
    <2>1. \A i \in Issued : tokens'[i].family = tokens[i].family
      BY <1>0
    <2>2. Issued \subseteq Issued'
      BY <1>0
    <2>3. \A q \in Requests : request'[q].pc = "revoking" => SameRow(q)
      BY <1>0 DEF SameRow
    <2>4. \A i \in Issued' : tokens'[i].revoked \in {"reuse_detected", "logout"} =>
              i \in Issued /\ tokens[i].revoked = tokens'[i].revoked
      <3> TAKE i \in Issued'
      <3> HAVE tokens'[i].revoked \in {"reuse_detected", "logout"}
      <3>1. i # k /\ i # n + 1
        BY <1>0
      <3> QED
        BY <1>0, <3>1
    <2> QED
      BY <1>6, <1>7, <2>1, <2>2, <2>3, <2>4, RevocationsKept
  <1> QED
    BY <1>0, <1>2, <1>3, <1>4, <1>5, <1>8 DEF SessionsInv

LEMMA RevokeFamilyStep == ASSUME SessionsInv, NEW r \in Requests, RevokeFamily(r) PROVE SessionsInv'
  <1>b. PICK k, rows : request[r].token = k /\ request[r].seen = rows
    OBVIOUS
  <1>0. /\ SessionsTypeOK' /\ presented' = presented /\ Issued' = Issued
        /\ request[r].pc = "revoking" /\ request'[r].pc = "answered" /\ k \in Issued /\ k # 0
        /\ \A q \in Requests \ {r} : request'[q] = request[q]
        /\ \A i \in Issued :
            /\ tokens'[i].family = tokens[i].family /\ tokens'[i].used = tokens[i].used
            /\ i \notin rows => tokens'[i].revoked = tokens[i].revoked
            /\ i \in rows =>
                  tokens'[i].revoked = IF request[r].kind = "refresh" THEN "reuse_detected" ELSE "logout"
        /\ ~Blocked(r) /\ rows \subseteq Issued /\ request[r].kind \in {"refresh", "logout"}
    <2>1. SessionsTypeOK /\ request[r].pc = "revoking" /\ ~Blocked(r)
      BY DEF SessionsInv, RevokeFamily
    <2>2. /\ request[r] \in RequestRow /\ RowOK(request[r], Len(tokens)) /\ Issued = 1 .. Len(tokens)
      BY <2>1, TypeFacts
    <2> QED
      BY <1>b, <2>1, <2>2, RevokeFamilyEffect DEF RowOK, RequestRow, Issued
  <1>a. /\ \A i \in rows : tokens[i].family = tokens[k].family
        /\ \A i, j \in Issued :
              i < j /\ tokens[i].family = tokens[j].family /\ j \in rows => i \in rows
    BY <1>0, <1>b DEF SessionsInv, LocksOK
  <1>1. \A q \in Requests : Pending(q)' => q # r /\ Pending(q)
    BY <1>0 DEF Pending
  <1>2. FamiliesOK'
    BY <1>0 DEF SessionsInv, FamiliesOK
  <1>3. RevocationReachesOlder'
    BY <1>0, <1>a DEF SessionsInv, RevocationReachesOlder, Condemned
  <1>4. LocksOK'
    <2>1. \A q \in Requests \ {r} : request[q].pc = "rotating" => request[q].token \notin rows
      BY <1>0, <1>b DEF Blocked, Locked
    <2>2. \A q \in Requests : request[q].pc \in {"rotating", "revoking"} =>
              request[q].token \in Issued /\ request[q].seen \subseteq Issued
      BY TypeFacts DEF SessionsInv, RowOK
    <2> QED
      BY <1>0, <2>1, <2>2 DEF SessionsInv, LocksOK, Live, Dead
  <1>5. CarriersOK'
    <2>1. \A i \in Issued : Consumed(i)' => Consumed(i)
      BY <1>0 DEF Consumed
    <2>2. \A q \in Requests : Pending(q)' => request'[q] = request[q] /\ Pending(q)
      BY <1>0, <1>1
    <2>3. \A q \in Requests : request[q].token # 0 => request[q].token \in Issued
      BY DEF SessionsInv, SessionsTypeOK
    <2> QED
      BY <1>0, <2>1, <2>2, <2>3 DEF SessionsInv, CarriersOK, Consumed
  <1>6. \A f : Replayed(f) => Replayed(f)'
    BY <1>0 DEF Replayed
  <1>7. \A j \in Issued : SignedOut(j) => SignedOut(j)'
    BY <1>0, <1>1 DEF SignedOut
  <1>8. Replayed(tokens[k].family) \/ (request[r].kind = "logout" /\ SignedOut(k)')
    <2>1. Pending(r)
      BY <1>0 DEF Pending
    <2>2. presented[k] \in 0 .. 2
      BY <1>0 DEF SessionsInv, SessionsTypeOK
    <2>3. presented[k] >= 1
      BY <1>0, <1>b, <2>1 DEF SessionsInv, CarriersOK
    <2>4. presented[k] = 2 => Replayed(tokens[k].family)
      BY <1>0 DEF Replayed
    <2>5. request[r].kind = "refresh" => Replayed(tokens[k].family)
      BY <1>0, <1>b DEF SessionsInv, RevocationsOK
    <2>6. CASE presented[k] # 2 /\ request[r].kind = "logout"
      <3>1. \A q \in Requests \ {r} : Pending(q) => request[q].token # k
        BY <1>0, <1>b, <2>1, <2>6 DEF SessionsInv, CarriersOK
      <3>2. ~tokens[k].used
        BY <1>0, <1>b, <2>1, <2>6 DEF SessionsInv, CarriersOK, Consumed
      <3>3. presented[k] = 1
        BY <2>2, <2>3, <2>6
      <3> QED
        BY <1>0, <1>1, <2>6, <3>1, <3>2, <3>3 DEF SignedOut
    <2>7. request[r].kind = "refresh" \/ request[r].kind = "logout"
      BY <1>0
    <2> QED
      BY <2>2, <2>4, <2>5, <2>6, <2>7
  <1>9. RevocationsOK'
    <2>1. \A q \in Requests : request'[q].pc = "revoking" /\ request'[q].kind = "refresh"
              => Replayed(tokens[request'[q].token].family)
      <3> TAKE q \in Requests
      <3> HAVE request'[q].pc = "revoking" /\ request'[q].kind = "refresh"
      <3>1. q # r /\ request'[q] = request[q]
        BY <1>0
      <3> QED
        BY <3>1 DEF SessionsInv, RevocationsOK
    <2>2. ASSUME NEW i \in Issued, tokens'[i].revoked = "reuse_detected"
          PROVE  Replayed(tokens[i].family)
      <3>1. CASE i \in rows
        BY <1>0, <1>8, <1>a, <2>2, <3>1
      <3>2. CASE i \notin rows
        BY <1>0, <2>2, <3>2 DEF SessionsInv, RevocationsOK
      <3> QED
        BY <3>1, <3>2
    <2>3. ASSUME NEW i \in Issued, tokens'[i].revoked = "logout"
          PROVE  \/ Replayed(tokens[i].family)
                 \/ \E j \in Issued : tokens[j].family = tokens[i].family /\ SignedOut(j)'
      <3>1. CASE i \in rows
        BY <1>0, <1>8, <1>a, <3>1
      <3>2. CASE i \notin rows
        BY <1>0, <1>7, <2>3, <3>2 DEF SessionsInv, RevocationsOK
      <3> QED
        BY <3>1, <3>2
    <2> QED
      <3>1. \A q \in Requests : request'[q].pc = "revoking" => request'[q].token \in Issued
        BY <1>0 DEF SessionsTypeOK, Issued
      <3> QED
        BY <1>0, <2>1, <2>2, <2>3, <3>1 DEF RevocationsOK, Replayed
  <1> QED
    BY <1>0, <1>2, <1>3, <1>4, <1>5, <1>9 DEF SessionsInv

LEMMA ExpireStep == ASSUME SessionsInv, Expire PROVE SessionsInv'
  <1>0. /\ SessionsTypeOK' /\ request' = request /\ presented' = presented /\ Issued' = Issued
        /\ \A i \in Issued : /\ tokens'[i].family = tokens[i].family
                             /\ tokens'[i].used = tokens[i].used
                             /\ tokens'[i].revoked = tokens[i].revoked
        /\ \A q \in Requests : /\ request[q].token # 0 => request[q].token \in Issued
                               /\ request[q].seen \subseteq Issued
                               /\ request[q].pc \in {"rotating", "revoking"} => request[q].token # 0
    BY ExpireEffect DEF SessionsInv, SessionsTypeOK, Issued
  <1>1. FamiliesOK' /\ RevocationReachesOlder'
    BY <1>0 DEF SessionsInv, FamiliesOK, RevocationReachesOlder, Condemned
  <1>2. LocksOK'
    BY <1>0 DEF SessionsInv, LocksOK, Live, Dead
  <1>3. CarriersOK'
    BY <1>0 DEF SessionsInv, CarriersOK, Consumed, Pending
  <1>4. \A f : Replayed(f) => Replayed(f)'
    BY <1>0 DEF Replayed
  <1>5. \A j \in Issued : SignedOut(j) => SignedOut(j)'
    BY <1>0 DEF SignedOut, Pending
  <1>6. RevocationsOK'
    BY <1>0, <1>4, <1>5 DEF SessionsInv, RevocationsOK
  <1> QED
    BY <1>0, <1>1, <1>2, <1>3, <1>6 DEF SessionsInv

LEMMA SessionsInductive == SessionsInv /\ [SessionsNext]_sessions => SessionsInv'
  <1> SUFFICES ASSUME SessionsInv, [SessionsNext]_sessions PROVE SessionsInv'
    OBVIOUS
  <1>0. SessionsTypeOK
    BY DEF SessionsInv
  <1>1. CASE UNCHANGED sessions
    BY <1>0, <1>1, QuietStep DEF sessions, Quiet, SameRow, SessionsTypeOK, Issued
  <1>2. ASSUME NEW t \in Tabs, Browse(t) PROVE SessionsInv'
    BY <1>0, <1>2, SignInStep, LoadEffect, QuietStep, SendStep DEF Browse, Refresh, SignOut
  <1>3. ASSUME NEW r \in Requests, Serve(r) PROVE SessionsInv'
    BY <1>0, <1>3, EndEffect, QuietStep, RevokeStep, RejectStep, RotationStep, RotateStep,
       RevokeFamilyStep DEF Serve
  <1>4. ASSUME NEW r \in Requests, Receive(r) \/ ConnectionLost(r) PROVE SessionsInv'
    BY <1>0, <1>4, EndEffect, QuietStep
  <1> QED
    BY <1>1, <1>2, <1>3, <1>4, ExpireStep DEF SessionsNext

LEMMA SessionsInvariant == SessionsSpec => []SessionsInv
  BY InitSessions, SessionsInductive, PTL DEF SessionsSpec

-----------------------------------------------------------------------------
(* Every reachable state is well formed: the cookie, the requests and the  *)
(* rows an UPDATE saw name tokens that exist (services/auth.py).           *)
THEOREM SessionsTyped == SessionsSpec => []SessionsTypeOK
  BY SessionsInvariant, PTL DEF SessionsInv

(* However many requests carry the same refresh token at once, a family    *)
(* has at most one token left that rotate_refresh_token exchanges.         *)
THEOREM FamiliesDoNotFork == SessionsSpec => []OneLivePerFamily
  <1>1. SessionsInv => OneLivePerFamily
    BY DEF SessionsInv, FamiliesOK, OneLivePerFamily, Live, Dead, Issued
  <1> QED
    BY <1>1, SessionsInvariant, PTL

(* A replay or a logout revokes a family from its first row on, whatever   *)
(* rotations commit while the UPDATE is under way.                         *)
THEOREM RevocationComplete == SessionsSpec => []RevocationReachesOlder
  BY SessionsInvariant, PTL DEF SessionsInv

(* Reuse is found only where two requests have carried one token, however  *)
(* logouts, expiry and other replays interleave with the rotation.         *)
THEOREM NoFalseReuse == SessionsSpec => []ReuseExplained
  <1>1. SessionsInv => ReuseExplained
    BY DEF SessionsInv, RevocationsOK, ReuseExplained, Replayed
  <1> QED
    BY <1>1, SessionsInvariant, PTL
=============================================================================
