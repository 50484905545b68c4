-------------------------- MODULE Requests_proofs ---------------------------
(***************************************************************************)
(* What is proved of the questions, of the calls to the model's provider   *)
(* and of the analysis of a checkout, for any number of questions, calls,  *)
(* jobs and files and any faults; and, with the sessions of                *)
(* RefreshTokens_proofs, of MCRequests, which runs the four side by side.  *)
(***************************************************************************)
EXTENDS MCRequests, RefreshTokens_proofs, FiniteSetTheorems

-----------------------------------------------------------------------------
(* Questions. RunInv is inductive together with TypeOK. A step of a run    *)
(* replaces one record, which RunOK judges by itself and by what has been  *)
(* seen; a step of the repository leaves every run as it is and moves the  *)
(* active version only forwards.                                           *)
IInv == TypeOK /\ RunInv

LEMMA ActiveType ==
  ASSUME TypeOK
  PROVE  Active \in Nat
  BY DEF TypeOK, Active

(* Seeing more never hurts, and an idle run has nothing to see.            *)
LEMMA SeeingMore ==
  ASSUME NEW r, NEW seen, NEW more, RunOK(r, seen), more \subseteq Facts,
         seen \subseteq more \/ r.pc = "idle"
  PROVE  RunOK(r, more)
  BY DEF RunOK, Facts, Steps, Authorizing, Executing, Tools, Fresh

(* What the history variable records in any step.                          *)
LEMMA Observed ==
  ASSUME Observe, NEW p \in Questions, TypeOK
  PROVE  /\ held' \in [Questions -> SUBSET Facts]
         /\ Holding(p)' \subseteq held'[p] /\ held'[p] \subseteq Facts
         /\ run[p].pc # "idle" /\ run'[p].calls = run[p].calls => held[p] \subseteq held'[p]
  <1>1. \A s \in Questions : Holding(s)' \subseteq Facts
    BY DEF Holding
  <1>2. \A s \in Questions : held[s] \subseteq Facts
    BY DEF TypeOK
  <1> QED
    BY <1>1, <1>2 DEF Observe

(* The head of the loop, after a call or a failure.                        *)
LEMMA IterateOK ==
  ASSUME TypeOK, NEW r \in RunState, NEW seen \in SUBSET Facts,
         r.active > 0, r.active <= Active, "torn" \in r.evidence => r.active < Active,
         mode = "installation" => "visible" \in seen
  PROVE  Iterate(r) \in RunState /\ RunOK(Iterate(r), seen)
  <1>0. r.calls # MaxCalls => r.calls < MaxCalls
    BY MaxCallsPositive DEF RunState
  <1>1. CASE r.calls = MaxCalls
    <2>1. Iterate(r) = [r EXCEPT !.pc = IF r.outage THEN "unavailable" ELSE "insufficient"]
      BY <1>1 DEF Iterate, Exhausted
    <2> QED
      BY <2>1 DEF RunState, Outcomes, Steps, Authorizing, Executing, Tools, RunOK, Fresh
  <1>2. CASE r.calls # MaxCalls /\ r.evidence # {}
    <2>1. Iterate(r) = [r EXCEPT !.pc = IF mode = "public" THEN "member" ELSE "row",
                                 !.why = "loop"]
      BY <1>2 DEF Iterate, Checking
    <2>2. mode \in {"public", "installation"}
      BY DEF TypeOK
    <2> QED
      BY <2>1, <2>2, <1>0, <1>2 DEF RunState, Steps, Authorizing, Executing, Tools, RunOK, Fresh
  <1>3. CASE r.calls # MaxCalls /\ r.evidence = {}
    <2>1. Iterate(r) = [r EXCEPT !.pc = "decide"]
      BY <1>3 DEF Iterate
    <2> QED
      BY <2>1, <1>0, <1>3 DEF RunState, Steps, Authorizing, Executing, Tools, RunOK, Fresh
  <1> QED
    BY <1>1, <1>2, <1>3

(* A check that is asked for once the loop has begun.                      *)
LEMMA CheckingOK ==
  ASSUME TypeOK, NEW r \in RunState, NEW seen \in SUBSET Facts,
         NEW why \in {"final", "graph"} \cup Tools, r.calls < MaxCalls,
         r.active > 0, r.active <= Active, "torn" \in r.evidence => r.active < Active,
         mode = "installation" => "visible" \in seen
  PROVE  Checking(r, why) \in RunState /\ RunOK(Checking(r, why), seen)
  <1>1. mode \in {"public", "installation"}
    BY DEF TypeOK
  <1>2. Checking(r, why) = [r EXCEPT !.pc = IF mode = "public" THEN "member" ELSE "row",
                                     !.why = why]
    BY DEF Checking
  <1> QED
    BY <1>1, <1>2 DEF RunState, Steps, Authorizing, Executing, Tools, RunOK, Fresh

(* A run may always end without an answer.                                 *)
LEMMA EndOK ==
  ASSUME TypeOK, NEW r \in RunState, NEW seen, NEW seen2,
         RunOK(r, seen), NEW pc \in Outcomes \ {"answered"}
  PROVE  [r EXCEPT !.pc = pc] \in RunState /\ RunOK([r EXCEPT !.pc = pc], seen2)
  BY DEF RunState, Outcomes, Steps, Authorizing, Executing, Tools, RunOK, Fresh

(* A step of one run.                                                      *)
LEMMA RunStep ==
  ASSUME IInv, NEW q \in Questions, NEW r \in RunState, Becomes(q, r), Observe,
         UNCHANGED <<published, kept, mode, visible>>,
         access' \in {"granted", "denied"}, open' \in BOOLEAN,
         RunOK(r, held'[q])
  PROVE  IInv'
  <1>1. /\ run' \in [Questions -> RunState] /\ run'[q] = r
        /\ \A p \in Questions : p # q => run'[p] = run[p]
    BY DEF IInv, TypeOK, Becomes
  <1>2. held' \in [Questions -> SUBSET Facts]
    BY Observed DEF IInv
  <1>3. TypeOK'
    BY <1>1, <1>2 DEF IInv, TypeOK, Active
  <1>4. Active' = Active
    BY DEF Active
  <1>5. ASSUME NEW p \in Questions
        PROVE  Holding(p)' \subseteq held'[p] /\ RunOK(run[p], held[p])'
    <2>1. /\ Holding(p)' \subseteq held'[p] /\ held'[p] \subseteq Facts
          /\ run[p].pc # "idle" /\ run'[p].calls = run[p].calls => held[p] \subseteq held'[p]
      BY Observed DEF IInv
    <2>2. RunOK(run'[p], held'[p])
      <3>1. CASE p = q
        BY <3>1, <1>1
      <3>2. CASE p # q
        <4>1. RunOK(run[p], held[p]) /\ run'[p] = run[p]
          BY <3>2, <1>1 DEF IInv, RunInv
        <4> QED
          BY <4>1, <2>1, SeeingMore
      <3> QED
        BY <3>1, <3>2
    <2>3. RunOK(run[p], held[p])'
      BY <2>2, <1>4 DEF RunOK
    <2> QED
      BY <2>1, <2>3
  <1> QED
    BY <1>3, <1>4, <1>5 DEF IInv, RunInv

(* A step of the repository.                                               *)
LEMMA RepositoryStep ==
  ASSUME IInv, Observe, UNCHANGED <<run, mode>>,
         published' \in Seq(Index!Entry), kept' \subseteq 1..Active',
         access' \in {"granted", "denied"}, visible' \in BOOLEAN, open' \in BOOLEAN,
         Active' >= Active, Active' > 0 => Active' \in kept'
  PROVE  IInv'
  <1>1. held' \in [Questions -> SUBSET Facts]
    <2>1. CASE Questions = {}
      BY <2>1 DEF Observe
    <2>2. ASSUME NEW p \in Questions PROVE held' \in [Questions -> SUBSET Facts]
      BY Observed DEF IInv
    <2> QED
      BY <2>1, <2>2
  <1>2. TypeOK'
    <2>1. Index!Entry' = Index!Entry
      BY DEF Index!Entry
    <2> QED
      BY <1>1, <2>1 DEF IInv, TypeOK
  <1>3. Active \in Nat /\ Active' \in Nat
    BY <1>2, ActiveType DEF IInv, TypeOK, Active
  <1>4. ASSUME NEW p \in Questions
        PROVE  Holding(p)' \subseteq held'[p] /\ RunOK(run[p], held[p])'
    <2>1. /\ Holding(p)' \subseteq held'[p] /\ held'[p] \subseteq Facts
          /\ run[p].pc # "idle" => held[p] \subseteq held'[p]
      BY Observed DEF IInv
    <2>2. RunOK(run[p], held'[p])
      BY <2>1, SeeingMore DEF IInv, RunInv
    <2>3. run[p].active \in Nat
      BY DEF IInv, TypeOK, RunState
    <2>4. RunOK(run[p], held[p])'
      BY <1>3, <2>2, <2>3 DEF RunOK
    <2> QED
      BY <2>1, <2>4
  <1> QED
    BY <1>2, <1>4 DEF IInv, RunInv

(* What a step of a run sees.                                              *)
LEMMA SeenByRun ==
  ASSUME IInv, NEW q \in Questions, Observe, UNCHANGED <<mode, visible, published>>
  PROVE  /\ held'[q] \in SUBSET Facts
         /\ mode = "installation" \/ visible => "visible" \in held'[q]
         /\ access' = "granted" => "granted" \in held'[q]
         /\ Active > 0 /\ run'[q].active = Active => "active" \in held'[q]
         /\ run[q].pc # "idle" /\ run'[q].calls = run[q].calls => held[q] \subseteq held'[q]
  BY Observed DEF IInv, Holding, Facts, Active

(* A call that ends, with or without evidence.                             *)
LEMMA CallEnds ==
  ASSUME IInv, NEW q \in Questions, NEW r \in RunState, Becomes(q, Iterate(r)), Observe,
         UNCHANGED <<published, kept, mode, visible>>,
         access' \in {"granted", "denied"}, open' \in BOOLEAN,
         r.active > 0, r.active <= Active, "torn" \in r.evidence => r.active < Active
  PROVE  IInv'
  <1>1. held'[q] \in SUBSET Facts /\ (mode = "installation" => "visible" \in held'[q])
    BY SeenByRun
  <1>2. Iterate(r) \in RunState /\ RunOK(Iterate(r), held'[q])
    BY <1>1, IterateOK DEF IInv
  <1> QED
    BY <1>2, RunStep

(* What is known of a run in its loop.                                     *)
LEMMA Looping ==
  ASSUME IInv, NEW q \in Questions, run[q].pc \in Steps, ~Fresh(run[q])
  PROVE  /\ run[q] \in RunState /\ run[q].active > 0 /\ run[q].active <= Active
         /\ run[q].calls + 1 \in 0..MaxCalls /\ run[q].calls < MaxCalls
         /\ "torn" \in run[q].evidence => run[q].active < Active
         /\ Active \in Nat
  <1>1. run[q] \in RunState /\ RunOK(run[q], held[q])
    BY DEF IInv, TypeOK, RunInv
  <1>2. run[q].calls \in 0..MaxCalls
    BY <1>1 DEF RunState
  <1> QED
    BY <1>1, <1>2, ActiveType, MaxCallsPositive DEF RunOK, IInv

LEMMA CallFailsStep ==
  ASSUME IInv, NEW q \in Questions, NEW outage \in BOOLEAN, CallFails(q, outage), Observe,
         UNCHANGED <<published, kept, mode, visible>>,
         access' \in {"granted", "denied"}, open' \in BOOLEAN,
         run[q].pc \in Steps, ~Fresh(run[q])
  PROVE  IInv'
  <1> DEFINE r == [run[q] EXCEPT !.calls = @ + 1, !.outage = @ \/ outage]
  <1>1. /\ run[q] \in RunState /\ run[q].active > 0 /\ run[q].active <= Active
        /\ run[q].calls + 1 \in 0..MaxCalls
        /\ "torn" \in run[q].evidence => run[q].active < Active
    BY Looping
  <1>2. (run[q].outage \/ outage) \in BOOLEAN
    OBVIOUS
  <1>3. r \in RunState /\ r.active = run[q].active /\ r.evidence = run[q].evidence
    BY <1>1, <1>2 DEF RunState
  <1>4. Becomes(q, Iterate(r))
    BY DEF CallFails
  <1> HIDE DEF r
  <1> QED
    BY <1>1, <1>3, <1>4, CallEnds

LEMMA CallReturnsStep ==
  ASSUME IInv, NEW q \in Questions, NEW found \in SUBSET Evidence,
         CallReturns(q, found), Observe, UNCHANGED repository,
         run[q].pc \in Executing, "torn" \in found => run[q].active < Active
  PROVE  IInv'
  <1> DEFINE r == [run[q] EXCEPT !.calls = @ + 1, !.evidence = @ \cup found]
  <1>1. run[q].pc \in Steps /\ ~Fresh(run[q])
    BY DEF Executing, Steps, Fresh, Authorizing, Tools
  <1>2. /\ run[q] \in RunState /\ run[q].active > 0 /\ run[q].active <= Active
        /\ run[q].calls + 1 \in 0..MaxCalls
        /\ "torn" \in run[q].evidence => run[q].active < Active
    BY <1>1, Looping
  <1>3. /\ r \in RunState /\ r.active = run[q].active
        /\ "torn" \in r.evidence => run[q].active < Active
    BY <1>2 DEF RunState
  <1>4. Becomes(q, Iterate(r))
    BY DEF CallReturns
  <1>5. access' \in {"granted", "denied"} /\ open' \in BOOLEAN
    BY DEF IInv, TypeOK, repository
  <1> HIDE DEF r
  <1> QED
    BY <1>2, <1>3, <1>4, <1>5, CallEnds DEF repository

(* The run ends without an answer.                                         *)
LEMMA EndStep ==
  ASSUME IInv, NEW q \in Questions, NEW pc \in Outcomes \ {"answered"}, Goes(q, pc), Observe,
         UNCHANGED <<published, kept, mode, visible>>,
         access' \in {"granted", "denied"}, open' \in BOOLEAN
  PROVE  IInv'
  <1>1. run[q] \in RunState /\ RunOK(run[q], held[q])
    BY DEF IInv, TypeOK, RunInv
  <1>2. [run[q] EXCEPT !.pc = pc] \in RunState /\ RunOK([run[q] EXCEPT !.pc = pc], held'[q])
    BY <1>1, EndOK DEF IInv
  <1> QED
    BY <1>2, RunStep DEF Goes

LEMMA AccessErrorStep ==
  ASSUME IInv, NEW q \in Questions, AccessError(q), Observe,
         UNCHANGED <<published, kept, mode, visible>>,
         access' \in {"granted", "denied"}, open' \in BOOLEAN,
         run[q].pc \in Authorizing
  PROVE  IInv'
  <1>1. CASE run[q].why = "graph" /\ CallFails(q, TRUE)
    <2>1. run[q].pc \in Steps /\ ~Fresh(run[q])
      BY <1>1 DEF Steps, Fresh, Authorizing
    <2> QED
      BY <1>1, <2>1, CallFailsStep
  <1>2. CASE Goes(q, "not_found")
    BY <1>2, EndStep DEF Outcomes
  <1> QED
    BY <1>1, <1>2 DEF AccessError

(* A step that moves a run on without ending a call: what is left to show  *)
(* of it is RunOK of the record.                                           *)
LEMMA Known ==
  ASSUME IInv, NEW q \in Questions
  PROVE  /\ run[q] \in RunState /\ RunOK(run[q], held[q]) /\ Active \in Nat
         /\ mode \in {"public", "installation"}
         /\ access \in {"granted", "denied"} /\ open \in BOOLEAN /\ visible \in BOOLEAN
         /\ Active > 0 => Active \in kept
  BY ActiveType DEF IInv, TypeOK, RunInv

LEMMA AskStep ==
  ASSUME IInv, NEW q \in Questions, Ask(q), Observe
  PROVE  IInv'
  <1> DEFINE r == Checking(run[q], "start")
  <1>1. /\ run[q].pc = "idle" /\ Becomes(q, r) /\ UNCHANGED repository
        /\ UNCHANGED <<published, kept, mode, visible, access, open>>
    BY DEF Ask, At, repository
  <1>2. held'[q] \in SUBSET Facts /\ (mode = "installation" => "visible" \in held'[q])
    BY <1>1, SeenByRun
  <1>3. r = [run[q] EXCEPT !.pc = IF mode = "public" THEN "member" ELSE "row", !.why = "start"]
    BY DEF Checking
  <1>4. run[q] \in RunState /\ RunOK(run[q], held[q])
    BY Known
  <1>5. run[q].active = 0 /\ run[q].evidence = {} /\ run[q].calls < MaxCalls
    BY <1>1, <1>4 DEF RunOK, Fresh
  <1>6. /\ r.pc \in {"member", "row"} /\ r.why = "start"
        /\ mode = "installation" => r.pc = "row"
        /\ r.pc = "row" => mode # "public"
        /\ r.active = 0 /\ r.evidence = {} /\ r.calls < MaxCalls
    BY <1>3, <1>4, <1>5 DEF RunState
  <1>7. r \in RunState
    BY <1>3, <1>4 DEF RunState, Authorizing, Steps
  <1>8. r.pc = "row" => "visible" \in held'[q]
    BY <1>2, <1>6, Known
  <1>9. RunOK(r, held'[q])
    BY <1>6, <1>8, Known DEF RunOK, Fresh, Authorizing, Steps, Executing, Tools
  <1> HIDE DEF r
  <1> QED
    BY <1>1, <1>7, <1>9, Known, RunStep

LEMMA ReadMembershipStep ==
  ASSUME IInv, NEW q \in Questions, ReadMembership(q), Observe
  PROVE  IInv'
  <1>1. /\ run[q].pc = "member"
        /\ UNCHANGED <<published, kept, mode, visible, access, open>>
    BY DEF ReadMembership, At, repository
  <1>2. CASE Goes(q, "visibility")
    <2> DEFINE r == [run[q] EXCEPT !.pc = "visibility"]
    <2>1. r \in RunState /\ RunOK(r, held'[q])
      BY <1>1, Known DEF RunOK, RunState, Fresh, Authorizing, Steps, Executing, Tools
    <2>2. Becomes(q, r)
      BY <1>2 DEF Goes
    <2> HIDE DEF r
    <2> QED
      BY <1>1, <2>1, <2>2, Known, RunStep
  <1>3. CASE AccessError(q)
    BY <1>1, <1>3, Known, AccessErrorStep DEF Authorizing
  <1> QED
    BY <1>2, <1>3 DEF ReadMembership

LEMMA CheckVisibilityStep ==
  ASSUME IInv, NEW q \in Questions, CheckVisibility(q), Observe
  PROVE  IInv'
  <1>1. run[q].pc = "visibility" /\ UNCHANGED <<published, kept, mode, visible>>
    BY DEF CheckVisibility, At
  <1>2. CASE visible /\ Goes(q, "row") /\ UNCHANGED <<access, open>>
    <2> DEFINE r == [run[q] EXCEPT !.pc = "row"]
    <2>1. "visible" \in held'[q]
      BY <1>1, <1>2, SeenByRun
    <2>2. r \in RunState /\ RunOK(r, held'[q])
      BY <1>1, <2>1, Known DEF RunOK, RunState, Fresh, Authorizing, Steps, Executing, Tools
    <2>3. Becomes(q, r)
      BY <1>2 DEF Goes
    <2> HIDE DEF r
    <2> QED
      BY <1>1, <1>2, <2>2, <2>3, Known, RunStep
  <1>3. CASE /\ AccessError(q)
             /\ \/ UNCHANGED <<access, open>>
                \/ access' = "denied" /\ open' = FALSE
    <2>1. access' \in {"granted", "denied"} /\ open' \in BOOLEAN
      BY <1>3, Known
    <2> QED
      BY <1>1, <1>3, <2>1, AccessErrorStep DEF Authorizing
  <1> QED
    BY <1>2, <1>3 DEF CheckVisibility

LEMMA ReadRowStep ==
  ASSUME IInv, NEW q \in Questions, ReadRow(q), Observe
  PROVE  IInv'
  <1>1. /\ run[q].pc = "row" /\ UNCHANGED <<published, kept, mode, visible, access, open>>
        /\ access' \in {"granted", "denied"} /\ open' \in BOOLEAN
    BY Known DEF ReadRow, At, repository
  <1>2. CASE AccessError(q)
    BY <1>1, <1>2, AccessErrorStep DEF Authorizing
  <1>3. CASE /\ access = "granted" /\ run[q].why # "graph"
             /\ Becomes(q, [run[q] EXCEPT !.pc = "index",
                                          !.row = [version |-> Active, open |-> open]])
    <2> DEFINE r == [run[q] EXCEPT !.pc = "index", !.row = [version |-> Active, open |-> open]]
    <2>1. r.calls = run[q].calls /\ run'[q] = r /\ run[q].pc # "idle" /\ r \in RunState
      BY <1>1, <1>3, Known DEF Becomes, IInv, TypeOK, RunState, Steps, Authorizing
    <2>2. held'[q] \subseteq Facts /\ held[q] \subseteq held'[q] /\ "granted" \in held'[q]
      BY <1>1, <1>3, <2>1, SeenByRun
    <2>3. RunOK(r, held'[q])
      BY <1>1, <2>2, Known DEF RunOK, RunState, Fresh, Authorizing, Steps, Executing, Tools
    <2>4. Becomes(q, r)
      BY <1>3
    <2> HIDE DEF r
    <2> QED
      BY <1>1, <2>1, <2>3, <2>4, RunStep
  <1>4. CASE run[q].why = "graph" /\ Goes(q, "build")
    <2> DEFINE r == [run[q] EXCEPT !.pc = "build"]
    <2>1. r \in RunState /\ RunOK(r, held'[q])
      BY <1>1, <1>4, Known DEF RunOK, RunState, Fresh, Authorizing, Steps, Executing, Tools
    <2>2. Becomes(q, r)
      BY <1>4 DEF Goes
    <2> HIDE DEF r
    <2> QED
      BY <1>1, <2>1, <2>2, RunStep
  <1>5. CASE run[q].why = "graph" /\ CallFails(q, TRUE)
    <2>1. run[q].pc \in Steps /\ ~Fresh(run[q])
      BY <1>1, <1>5 DEF Fresh, Steps, Authorizing
    <2> QED
      BY <1>1, <1>5, <2>1, CallFailsStep
  <1> QED
    BY <1>2, <1>3, <1>4, <1>5 DEF ReadRow

LEMMA LoadedIsActive ==
  ASSUME IInv, NEW q \in Questions, Loaded(q) # 0
  PROVE  Loaded(q) = Active /\ Active > 0
  BY Known DEF Loaded

LEMMA LoadIndexStep ==
  ASSUME IInv, NEW q \in Questions, LoadIndex(q), Observe
  PROVE  IInv'
  <1>1. /\ run[q].pc = "index" /\ UNCHANGED <<published, kept, mode, visible, access, open>>
        /\ access' \in {"granted", "denied"} /\ open' \in BOOLEAN
    BY Known DEF LoadIndex, At, repository
  <1>2. CASE \E pc \in Outcomes \ {"answered"} : Goes(q, pc)
    BY <1>1, <1>2, EndStep
  <1>3. CASE /\ run[q].why = "start" /\ Loaded(q) # 0
             /\ Becomes(q, [run[q] EXCEPT !.pc = "decide", !.active = Loaded(q)])
    <2> DEFINE r == [run[q] EXCEPT !.pc = "decide", !.active = Loaded(q)]
    <2>1. Loaded(q) = Active /\ Active > 0
      BY <1>3, LoadedIsActive
    <2>2. /\ r \in RunState /\ r.pc = "decide" /\ r.active = Active
          /\ r.evidence = run[q].evidence /\ r.calls = run[q].calls /\ r.why = "start"
      BY <1>3, <2>1, Known DEF RunState, Steps
    <2>3. run[q].evidence = {} /\ run[q].calls < MaxCalls
      BY <1>1, <1>3, Known DEF RunOK, Fresh, Authorizing, Steps
    <2>4. Becomes(q, r)
      BY <1>3
    <2> HIDE DEF r
    <2>5. RunOK(r, held'[q])
      BY <2>1, <2>2, <2>3, Known DEF RunOK, Fresh, Authorizing, Tools
    <2> QED
      BY <1>1, <2>2, <2>4, <2>5, RunStep
  <1>4. ASSUME NEW pc \in {"decide", "answered"} \cup Tools, run[q].why # "start",
               SameIndex(q), Goes(q, pc)
        PROVE  IInv'
    <2> DEFINE r == [run[q] EXCEPT !.pc = pc]
    <2>1. /\ run[q].active > 0 /\ run[q].active = Active
      <3>1. run[q].active > 0
        BY <1>1, <1>4, Looping DEF Fresh, Steps, Authorizing
      <3> QED
        BY <3>1, <1>4, LoadedIsActive, Known DEF SameIndex
    <2>2. /\ r \in RunState /\ run'[q] = r /\ r.calls = run[q].calls /\ r.active = run[q].active
      BY <1>4, Known
         DEF Goes, Becomes, IInv, TypeOK, RunState, Steps, Executing, Outcomes
    <2>3. held'[q] = Facts
      <3>1. {"granted", "visible"} \subseteq held[q]
        BY <1>1, Known DEF RunOK
      <3>2. held[q] \subseteq held'[q] /\ "active" \in held'[q] /\ held'[q] \subseteq Facts
        BY <1>1, <2>1, <2>2, SeenByRun
      <3> QED
        BY <3>1, <3>2 DEF Facts
    <2>4. RunOK(r, held'[q])
      BY <1>1, <1>4, <2>1, <2>3, Known
         DEF RunOK, RunState, Fresh, Authorizing, Steps, Executing, Tools
    <2>5. Becomes(q, r)
      BY <1>4 DEF Goes
    <2> HIDE DEF r
    <2> QED
      BY <1>1, <2>2, <2>4, <2>5, RunStep
  <1> QED
    <2>1. CASE BeginLoop(q)
      BY <2>1, <1>2, <1>3 DEF BeginLoop, Outcomes
    <2>2. CASE run[q].why # "start" /\ SameIndex(q) /\ Proceed(q)
      BY <2>2, <1>2, <1>4 DEF Proceed, Conclude, Outcomes
    <2>3. CASE Goes(q, "unavailable")
      BY <2>3, <1>2 DEF Outcomes
    <2> QED
      BY <2>1, <2>2, <2>3 DEF LoadIndex
LEMMA DecideStep ==
  ASSUME IInv, NEW q \in Questions, Decide(q), Observe
  PROVE  IInv'
  <1>1. /\ run[q].pc = "decide" /\ UNCHANGED <<published, kept, mode, visible, access, open>>
        /\ access' \in {"granted", "denied"} /\ open' \in BOOLEAN
    BY Known DEF Decide, At, repository
  <1>2. run[q].pc \in Steps /\ ~Fresh(run[q])
    BY <1>1 DEF Fresh, Steps, Authorizing
  <1>3. held'[q] \in SUBSET Facts /\ (mode = "installation" => "visible" \in held'[q])
    BY <1>1, SeenByRun
  <1>4. ASSUME NEW why \in {"final"} \cup Tools, Becomes(q, Checking(run[q], why))
        PROVE  IInv'
    <2>1. Checking(run[q], why) \in RunState /\ RunOK(Checking(run[q], why), held'[q])
      BY <1>2, <1>3, Looping, CheckingOK DEF IInv
    <2> QED
      BY <1>1, <1>4, <2>1, RunStep
  <1>5. CASE Becomes(q, Exhausted([run[q] EXCEPT !.calls = @ + 1]))
    <2> DEFINE r == [run[q] EXCEPT !.calls = @ + 1]
               e == Exhausted(r)
    <2>1. r \in RunState /\ r.active = run[q].active /\ r.evidence = run[q].evidence
      BY <1>2, Looping DEF RunState
    <2>2. r.active <= Active /\ ("torn" \in r.evidence => r.active < Active)
      BY <1>2, <2>1, Looping
    <2>3. Becomes(q, e)
      BY <1>5
    <2> HIDE DEF r
    <2>4. e \in RunState /\ RunOK(e, held'[q])
      BY <2>1, <2>2 DEF Exhausted, RunOK, RunState, Fresh, Outcomes, Authorizing,
                        Steps, Executing, Tools
    <2> HIDE DEF e
    <2> QED
      BY <1>1, <2>3, <2>4, RunStep
  <1>6. CASE Goes(q, "unavailable")
    BY <1>1, <1>6, EndStep DEF Outcomes
  <1> QED
    BY <1>4, <1>5, <1>6 DEF Decide

(* The version of a run in its loop was published; if it has been dropped, *)
(* another one is active.                                                  *)
LEMMA ReadStep ==
  ASSUME IInv, NEW q \in Questions, run[q].pc \in Executing,
         NEW found \in Read(q), CallReturns(q, found), Observe, UNCHANGED repository
  PROVE  IInv'
  <1>1. found \in SUBSET Evidence
    BY DEF Read, Evidence
  <1>2. /\ run[q].active > 0 /\ run[q].active <= Active /\ run[q].active \in Nat
        /\ Active \in Nat /\ (Active > 0 => Active \in kept)
    BY Looping, Known DEF RunState, Fresh, Executing, Steps, Authorizing, Tools
  <1>3. "torn" \in found => run[q].active < Active
    <2>1. "torn" \in found => run[q].active \notin kept
      BY DEF Read
    <2> QED
      BY <1>2, <2>1
  <1> QED
    BY <1>1, <1>3, CallReturnsStep

LEMMA SearchCodeStep ==
  ASSUME IInv, NEW q \in Questions, SearchCode(q), Observe
  PROVE  IInv'
  BY ReadStep DEF SearchCode, At, Executing, Tools

LEMMA GetHistoryStep ==
  ASSUME IInv, NEW q \in Questions, GetHistory(q), Observe
  PROVE  IInv'
  <1>1. run[q].pc \in Executing /\ UNCHANGED repository
    BY DEF GetHistory, At, Executing, Tools
  <1>2. CASE Goes(q, "not_found")
    BY <1>1, <1>2, EndStep, Known DEF Outcomes, repository
  <1>3. ASSUME NEW found \in {{}, {"history"}}, CallReturns(q, found)
        PROVE  IInv'
    BY <1>1, <1>3, CallReturnsStep DEF Evidence
  <1> QED
    BY <1>2, <1>3 DEF GetHistory

LEMMA FindCallersStep ==
  ASSUME IInv, NEW q \in Questions, FindCallers(q), Observe
  PROVE  IInv'
  <1>1. /\ run[q].pc = "callers" /\ UNCHANGED <<published, kept, mode, visible, access, open>>
        /\ access' \in {"granted", "denied"} /\ open' \in BOOLEAN
    BY Known DEF FindCallers, At, repository
  <1>2. run[q].pc \in Steps /\ ~Fresh(run[q])
    BY <1>1 DEF Fresh, Steps, Authorizing, Executing, Tools
  <1>3. held'[q] \in SUBSET Facts /\ (mode = "installation" => "visible" \in held'[q])
    BY <1>1, SeenByRun
  <1>4. Checking(run[q], "graph") \in RunState /\ RunOK(Checking(run[q], "graph"), held'[q])
    BY <1>2, <1>3, Looping, CheckingOK DEF IInv
  <1> QED
    BY <1>1, <1>4, RunStep DEF FindCallers

LEMMA ReadBuildStep ==
  ASSUME IInv, NEW q \in Questions, ReadBuild(q), Observe
  PROVE  IInv'
  <1>1. /\ run[q].pc = "build" /\ UNCHANGED <<published, kept, mode, visible, access, open>>
        /\ access' \in {"granted", "denied"} /\ open' \in BOOLEAN
    BY Known DEF ReadBuild, At, repository
  <1>2. run[q].pc \in Steps /\ ~Fresh(run[q])
    BY <1>1 DEF Fresh, Steps, Authorizing, Executing, Tools
  <1>3. CASE Goes(q, "edges")
    <2> DEFINE r == [run[q] EXCEPT !.pc = "edges"]
    <2>1. r \in RunState /\ RunOK(r, held'[q])
      BY <1>1, <1>2, Known DEF RunOK, RunState, Fresh, Authorizing, Steps, Executing, Tools
    <2>2. Becomes(q, r)
      BY <1>3 DEF Goes
    <2> HIDE DEF r
    <2> QED
      BY <1>1, <2>1, <2>2, RunStep
  <1>4. CASE CallFails(q, TRUE)
    BY <1>1, <1>2, <1>4, CallFailsStep
  <1> QED
    BY <1>3, <1>4 DEF ReadBuild

LEMMA ReadEdgesStep ==
  ASSUME IInv, NEW q \in Questions, ReadEdges(q), Observe
  PROVE  IInv'
  BY ReadStep DEF ReadEdges, At, Executing

LEMMA FailureStep ==
  ASSUME IInv, NEW q \in Questions, ToolFails(q) \/ RunRaises(q) \/ RunTimesOut(q), Observe
  PROVE  IInv'
  <1>1. /\ UNCHANGED <<published, kept, mode, visible, access, open>>
        /\ access' \in {"granted", "denied"} /\ open' \in BOOLEAN
    BY Known DEF ToolFails, RunRaises, RunTimesOut, repository
  <1>2. CASE ToolFails(q)
    <2>1. run[q].pc \in Steps /\ ~Fresh(run[q])
      BY <1>2 DEF ToolFails, InTool, Fresh, Steps, Authorizing, Executing, Tools
    <2>2. PICK outage \in BOOLEAN : CallFails(q, outage)
      <3>1. CASE CallFails(q, TRUE)
        BY <3>1
      <3> QED
        BY <1>2, <3>1 DEF ToolFails
    <2> QED
      BY <1>1, <2>1, <2>2, CallFailsStep
  <1>3. CASE RunRaises(q) \/ RunTimesOut(q)
    BY <1>1, <1>3, EndStep DEF RunRaises, RunTimesOut, Outcomes
  <1> QED
    BY <1>2, <1>3

LEMMA PublishStep ==
  ASSUME IInv, NEW j \in Jobs, NEW c \in Commits, Publish(j, c), Observe
  PROVE  IInv'
  <1>1. /\ published' = Append(published, [job |-> j, commit |-> c])
        /\ kept' = kept \cup {Active + 1} /\ open' = TRUE
        /\ UNCHANGED <<mode, access, visible, run>>
    BY DEF Publish, Index!Publish
  <1>2. /\ published \in Seq(Index!Entry) /\ [job |-> j, commit |-> c] \in Index!Entry
        /\ kept \subseteq 1..Active
    BY DEF IInv, TypeOK, Index!Entry
  <1>3. published' \in Seq(Index!Entry) /\ Len(published') = Len(published) + 1
    BY <1>1, <1>2
  <1>4. Active \in Nat /\ Active' = Active + 1
    BY <1>3, Known, ActiveType DEF Active, IInv
  <1>5. kept' \subseteq 1..Active' /\ Active' \in kept'
    BY <1>1, <1>2, <1>4
  <1>6. access' \in {"granted", "denied"} /\ visible' \in BOOLEAN
    BY <1>1 DEF IInv, TypeOK
  <1> QED
    BY <1>1, <1>3, <1>4, <1>5, <1>6, RepositoryStep

LEMMA EnvironmentStep ==
  ASSUME IInv, Observe,
         \/ \E v \in kept : DropSuperseded(v)
         \/ Revoke \/ Restore \/ CloseIndex \/ Reopen \/ VisibilityChanges
  PROVE  IInv'
  <1>1. /\ published' = published /\ UNCHANGED <<run, mode>>
        /\ kept' \subseteq kept /\ (Active > 0 => Active \in kept')
        /\ access' \in {"granted", "denied"} /\ visible' \in BOOLEAN /\ open' \in BOOLEAN
    <2>1. /\ kept \subseteq 1..Active /\ (Active > 0 => Active \in kept)
          /\ access \in {"granted", "denied"} /\ visible \in BOOLEAN /\ open \in BOOLEAN
      BY DEF IInv, TypeOK, RunInv
    <2>2. CASE \E v \in kept : DropSuperseded(v)
      BY <2>1, <2>2 DEF DropSuperseded
    <2>3. CASE Revoke \/ Restore
      BY <2>1, <2>3 DEF Revoke, Restore
    <2>4. CASE CloseIndex \/ Reopen \/ VisibilityChanges
      BY <2>1, <2>4 DEF CloseIndex, Reopen, VisibilityChanges
    <2> QED
      BY <2>2, <2>3, <2>4
  <1>2. Active' = Active
    BY <1>1 DEF Active
  <1>3. published' \in Seq(Index!Entry) /\ kept' \subseteq 1..Active' /\ Active \in Nat
    BY <1>1, <1>2, ActiveType DEF IInv, TypeOK
  <1> QED
    BY <1>1, <1>2, <1>3, RepositoryStep

(* The facts about a fresh run.                                            *)
LEMMA InitInv == Init => IInv
  <1> SUFFICES ASSUME Init PROVE IInv
    OBVIOUS
  <1> DEFINE r == [pc |-> "idle", why |-> "start", row |-> [version |-> 0, open |-> FALSE],
                   active |-> 0, evidence |-> {}, calls |-> 0, outage |-> FALSE]
  <1>1. r \in RunState /\ published = << >> /\ Active = 0
    BY MaxCallsPositive DEF RunState, Init, Active
  <1>2. TypeOK
    <2>1. \A q \in Questions : Holding(q) \subseteq Facts
      BY DEF Holding
    <2>2. held \in [Questions -> SUBSET Facts]
      BY <2>1 DEF Init
    <2>3. run = [q \in Questions |-> r]
      BY DEF Init
    <2> HIDE DEF r
    <2>4. run \in [Questions -> RunState]
      BY <1>1, <2>3
    <2>5. published \in Seq(Index!Entry) /\ kept \in SUBSET (1..Active)
      BY <1>1 DEF Init
    <2> QED
      BY <2>2, <2>4, <2>5 DEF Init, TypeOK
  <1>3. ASSUME NEW q \in Questions PROVE RunOK(run[q], held[q])
    <2>1. run[q] = r
      BY DEF Init
    <2> QED
      BY <1>1, <2>1, MaxCallsPositive DEF RunOK, Steps, Authorizing, Executing, Tools
  <1>4. \A q \in Questions : Holding(q) \subseteq held[q]
    BY DEF Init
  <1> QED
    BY <1>1, <1>2, <1>3, <1>4 DEF IInv, RunInv

LEMMA NextInv == IInv /\ [Next]_vars => IInv'
  <1> SUFFICES ASSUME IInv, [Next]_vars PROVE IInv'
    OBVIOUS
  <1>1. CASE UNCHANGED vars
    <2>1. /\ UNCHANGED <<published, kept, mode, access, visible, open, run, held>>
          /\ Active' = Active /\ Index!Entry' = Index!Entry
      BY <1>1 DEF vars, Active, Index!Entry
    <2>2. TypeOK'
      BY <2>1 DEF IInv, TypeOK
    <2>3. ASSUME NEW q \in Questions
          PROVE  Holding(q)' = Holding(q) /\ RunOK(run[q], held[q])' = RunOK(run[q], held[q])
      BY <2>1 DEF Holding, RunOK
    <2>4. RunInv'
      BY <2>1, <2>3 DEF IInv, RunInv
    <2> QED
      BY <2>2, <2>4 DEF IInv
  <1>2. ASSUME NEW q \in Questions, Observe,
               Ask(q) \/ Step(q) \/ ToolFails(q) \/ RunRaises(q) \/ RunTimesOut(q)
        PROVE  IInv'
    BY <1>2, AskStep, ReadMembershipStep, CheckVisibilityStep, ReadRowStep, LoadIndexStep,
       DecideStep, SearchCodeStep, GetHistoryStep, FindCallersStep, ReadBuildStep,
       ReadEdgesStep, FailureStep DEF Step
  <1>3. ASSUME NEW j \in Jobs, NEW c \in Commits, Publish(j, c), Observe PROVE IInv'
    BY <1>3, PublishStep
  <1>4. CASE /\ Observe
             /\ \/ \E v \in kept : DropSuperseded(v)
                \/ Revoke \/ Restore \/ CloseIndex \/ Reopen \/ VisibilityChanges
    BY <1>4, EnvironmentStep
  <1>5. ASSUME Next
        PROVE  \/ \E q \in Questions :
                     (Ask(q) \/ Step(q) \/ ToolFails(q) \/ RunRaises(q) \/ RunTimesOut(q)) /\ Observe
               \/ \E j \in Jobs, c \in Commits : Publish(j, c) /\ Observe
               \/ /\ Observe
                  /\ \/ \E v \in kept : DropSuperseded(v)
                     \/ Revoke \/ Restore \/ CloseIndex \/ Reopen \/ VisibilityChanges
    BY <1>5 DEF Next, Change
  <1> QED
    BY <1>1, <1>2, <1>3, <1>4, <1>5

LEMMA InductiveInv == Spec => []IInv
  BY InitInv, NextInv, PTL DEF Spec

(* Every run keeps to its types: the trace never grows past the bound      *)
(* max_tool_calls, and what is kept are published versions.                *)
THEOREM RunsTyped == Spec => []TypeOK
  <1>1. IInv => TypeOK
    BY DEF IInv
  <1> QED
    BY <1>1, InductiveInv, PTL

(* The provider and the user are never given evidence read from a version  *)
(* that was being dropped.                                                 *)
THEOREM EvidenceCorrect == Spec => []EvidenceFromActiveIndex
  <1>1. IInv => EvidenceFromActiveIndex
    BY DEF IInv, RunInv, RunOK, EvidenceFromActiveIndex
  <1> QED
    BY <1>1, InductiveInv, PTL

(* Authorization, visibility and the active version are seen between the   *)
(* end of a call and whatever the run does with its evidence next.         *)
THEOREM ChecksCorrect == Spec => []CheckedSinceLastCall
  <1>1. IInv => CheckedSinceLastCall
    BY DEF IInv, RunInv, RunOK, CheckedSinceLastCall
  <1> QED
    BY <1>1, InductiveInv, PTL

-----------------------------------------------------------------------------
(* Calls to the provider. The queue names the calls that wait, the slots   *)
(* count those that hold one, and each record says what has been counted   *)
(* of it.                                                                  *)
SlotHolders == {c \in ModelCalls : call[c].pc \in {"posting", "pausing"}}

(* What a call's record says of its tokens and of its attempts: the        *)
(* provider has worked on as many requests as there were attempts, and on  *)
(* none yet for the one that is under way.                                 *)
CallOK(r, counted, worked) ==
    /\ r.pc \in {"idle", "waiting"} => r.attempt = 0
    /\ r.pc \in {"posting", "pausing", "received"} => r.attempt >= 1
    /\ r.pc = "pausing" => r.attempt < ModelAttempts
    /\ worked <= r.attempt
    /\ r.pc = "posting" => worked < r.attempt
    /\ r.pc = "received" => worked >= 1
    /\ counted <= worked
    /\ r.pc \in {"idle", "waiting", "posting", "pausing", "received"} => counted = 0
    /\ r.failure = "unusable" => r.pc = "failed"
    /\ r.pc = "decided" \/ r.failure = "unusable" => counted = 1
    /\ r.pc = "failed" /\ r.retryable
          => r.failure \in RetriedFailures /\ r.attempt = ModelAttempts

CallsOK ==
    /\ call \in [ModelCalls -> CallRow]
    /\ metered \in [ModelCalls -> 0 .. 1]
    /\ billed \in [ModelCalls -> 0 .. ModelAttempts]
    /\ \A c \in ModelCalls : CallOK(call[c], metered[c], billed[c])

(* The queue names every call that waits, once.                            *)
QueueOK ==
    /\ queue \in Seq(ModelCalls)
    /\ \A c \in ModelCalls : call[c].pc = "waiting" <=> \E i \in DOMAIN queue : queue[i] = c
    /\ \A i, j \in DOMAIN queue : queue[i] = queue[j] => i = j

SlotsOK ==
    /\ IsFiniteSet(SlotHolders)
    /\ slots \in 0 .. ModelSlots
    /\ SlotsConserved

ProviderInv == CallsOK /\ QueueOK /\ SlotsOK

LEMMA ProviderInit0 == ProviderInit => ProviderInv
  <1> SUFFICES ASSUME ProviderInit PROVE ProviderInv
    OBVIOUS
  <1>1. CallsOK
    BY ModelLimitsPositive DEF ProviderInit, CallsOK, CallOK, CallRow, Failures
  <1>2. QueueOK
    <2>1. queue = <<>> /\ DOMAIN queue = {} /\ queue \in Seq(ModelCalls)
      BY DEF ProviderInit
    <2> QED
      BY <2>1 DEF ProviderInit, QueueOK
  <1>3. SlotsOK
    <2>1. SlotHolders = {}
      BY DEF ProviderInit, SlotHolders
    <2>2. IsFiniteSet(SlotHolders) /\ Cardinality(SlotHolders) = 0
      BY <2>1, FS_EmptySet
    <2> QED
      BY <2>2, ModelLimitsPositive DEF ProviderInit, SlotsOK, SlotsConserved, SlotHolders
  <1> QED
    BY <1>1, <1>2, <1>3 DEF ProviderInv

(* One call's record changes, with what is counted of it.                  *)
LEMMA CallChanges ==
  ASSUME CallsOK, NEW c \in ModelCalls, NEW r \in CallRow, call' = [call EXCEPT ![c] = r],
         metered' \in [ModelCalls -> 0 .. 1], billed' \in [ModelCalls -> 0 .. ModelAttempts],
         \A d \in ModelCalls \ {c} : metered'[d] = metered[d] /\ billed'[d] = billed[d],
         CallOK(r, metered'[c], billed'[c])
  PROVE  CallsOK'
  <1>1. call' \in [ModelCalls -> CallRow] /\ call'[c] = r
        /\ \A d \in ModelCalls \ {c} : call'[d] = call[d]
    BY DEF CallsOK
  <1>2. ASSUME NEW d \in ModelCalls PROVE CallOK(call'[d], metered'[d], billed'[d])
    <2>1. CASE d = c
      BY <1>1, <2>1
    <2>2. CASE d # c
      BY <1>1, <2>2 DEF CallsOK
    <2> QED
      BY <2>1, <2>2
  <1>3. \A d \in ModelCalls : CallOK(call[d], metered[d], billed[d])'
    BY <1>2 DEF CallOK
  <1> QED
    BY <1>1, <1>3 DEF CallsOK

(* The queue stays, with the calls that wait.                              *)
LEMMA QueueStays ==
  ASSUME QueueOK, CallsOK, UNCHANGED queue, NEW c \in ModelCalls, NEW r \in CallRow,
         call' = [call EXCEPT ![c] = r], call[c].pc # "waiting", r.pc # "waiting"
  PROVE  QueueOK'
  BY DEF QueueOK, CallsOK

(* The slots, when a call goes on without its slot or without one ...      *)
LEMMA SlotsStay ==
  ASSUME SlotsOK, CallsOK, UNCHANGED slots, NEW c \in ModelCalls, NEW r \in CallRow,
         call' = [call EXCEPT ![c] = r],
         call[c].pc \in {"posting", "pausing"} <=> r.pc \in {"posting", "pausing"}
  PROVE  SlotsOK'
  <1>1. SlotHolders' = SlotHolders
    BY DEF SlotHolders, CallsOK
  <1> QED
    BY <1>1 DEF SlotsOK, SlotsConserved, SlotHolders

(* ... when one gives its slot back ...                                    *)
LEMMA SlotReturned ==
  ASSUME SlotsOK, CallsOK, slots' = slots + 1, NEW c \in ModelCalls, NEW r \in CallRow,
         call' = [call EXCEPT ![c] = r],
         call[c].pc \in {"posting", "pausing"}, r.pc \notin {"posting", "pausing"}
  PROVE  SlotsOK'
  <1>1. SlotHolders' = SlotHolders \ {c} /\ c \in SlotHolders
    BY DEF SlotHolders, CallsOK
  <1>2. IsFiniteSet(SlotHolders') /\ Cardinality(SlotHolders') \in Nat
        /\ Cardinality(SlotHolders) = Cardinality(SlotHolders') + 1
    <2>1. IsFiniteSet(SlotHolders) /\ Cardinality(SlotHolders) \in Nat
      BY FS_CardinalityType DEF SlotsOK
    <2>2. IsFiniteSet(SlotHolders') /\ Cardinality(SlotHolders') = Cardinality(SlotHolders) - 1
      BY <1>1, <2>1, FS_RemoveElement
    <2> QED
      BY <2>1, <2>2, FS_CardinalityType
  <1>3. slots \in Nat /\ slots + Cardinality(SlotHolders) = ModelSlots /\ ModelSlots \in Nat
    BY ModelLimitsPositive DEF SlotsOK, SlotsConserved, SlotHolders
  <1>4. slots' \in 0 .. ModelSlots /\ slots' + Cardinality(SlotHolders') = ModelSlots
    BY <1>2, <1>3
  <1> QED
    BY <1>2, <1>4 DEF SlotsOK, SlotsConserved, SlotHolders

(* ... and when one is taken.                                              *)
LEMMA SlotTaken ==
  ASSUME SlotsOK, CallsOK, slots > 0, slots' = slots - 1, NEW c \in ModelCalls, NEW r \in CallRow,
         call' = [call EXCEPT ![c] = r],
         call[c].pc \notin {"posting", "pausing"}, r.pc \in {"posting", "pausing"}
  PROVE  SlotsOK'
  <1>1. SlotHolders' = SlotHolders \cup {c} /\ c \notin SlotHolders
    BY DEF SlotHolders, CallsOK
  <1>2. IsFiniteSet(SlotHolders') /\ Cardinality(SlotHolders) \in Nat
        /\ Cardinality(SlotHolders') = Cardinality(SlotHolders) + 1
    <2>1. IsFiniteSet(SlotHolders) /\ Cardinality(SlotHolders) \in Nat
      BY FS_CardinalityType DEF SlotsOK
    <2> QED
      BY <1>1, <2>1, FS_AddElement
  <1>3. slots \in Nat /\ slots + Cardinality(SlotHolders) = ModelSlots /\ ModelSlots \in Nat
    BY ModelLimitsPositive DEF SlotsOK, SlotsConserved, SlotHolders
  <1>4. slots' \in 0 .. ModelSlots /\ slots' + Cardinality(SlotHolders') = ModelSlots
    BY <1>2, <1>3
  <1> QED
    BY <1>2, <1>4 DEF SlotsOK, SlotsConserved, SlotHolders

(* A call joins the queue at its end, leaves it from its head, or, when    *)
(* it is cancelled, from wherever it is.                                   *)
LEMMA QueueGrows ==
  ASSUME QueueOK, CallsOK, NEW c \in ModelCalls, NEW r \in CallRow, queue' = Append(queue, c),
         call' = [call EXCEPT ![c] = r], call[c].pc # "waiting", r.pc = "waiting"
  PROVE  QueueOK'
  <1>1. /\ queue' \in Seq(ModelCalls) /\ DOMAIN queue' = 1 .. Len(queue) + 1 /\ Len(queue) \in Nat
        /\ DOMAIN queue = 1 .. Len(queue) /\ queue'[Len(queue) + 1] = c
        /\ \A i \in 1 .. Len(queue) : queue'[i] = queue[i]
    BY DEF QueueOK
  <1>2. \A i \in 1 .. Len(queue) : queue[i] # c
    BY <1>1 DEF QueueOK
  <1>3. \A d \in ModelCalls : call'[d].pc = "waiting" <=> d = c \/ call[d].pc = "waiting"
    BY DEF CallsOK
  <1>4. ASSUME NEW d \in ModelCalls
        PROVE  (\E i \in DOMAIN queue' : queue'[i] = d)
               <=> d = c \/ \E i \in DOMAIN queue : queue[i] = d
    <2>1. \A i : i \in DOMAIN queue' <=> i \in DOMAIN queue \/ i = Len(queue) + 1
      BY <1>1
    <2> QED
      BY <1>1, <2>1
  <1>5. \A i, j \in DOMAIN queue' : queue'[i] = queue'[j] => i = j
    <2>1. \A i, j \in DOMAIN queue : queue[i] = queue[j] => i = j
      BY DEF QueueOK
    <2>2. \A i \in DOMAIN queue' : i \in 1 .. Len(queue) \/ i = Len(queue) + 1
      BY <1>1
    <2> QED
      BY <1>1, <1>2, <2>1, <2>2
  <1> QED
    BY <1>1, <1>3, <1>4, <1>5 DEF QueueOK

LEMMA QueueShrinks ==
  ASSUME QueueOK, CallsOK, NEW c \in ModelCalls, NEW r \in CallRow,
         NEW at \in DOMAIN queue, queue[at] = c, queue' = Without(at),
         call' = [call EXCEPT ![c] = r], r.pc # "waiting"
  PROVE  QueueOK'
  <1>0. /\ Len(queue) \in Nat /\ DOMAIN queue = 1 .. Len(queue) /\ Len(queue) >= 1
        /\ at \in 1 .. Len(queue) /\ \A i \in 1 .. Len(queue) : queue[i] \in ModelCalls
    BY DEF QueueOK
  <1>1. PICK n \in Nat :
          /\ Len(queue) = n + 1 /\ Len(queue) - 1 = n
          /\ DOMAIN queue = 1 .. n + 1 /\ at \in 1 .. n + 1
          /\ \A i \in 1 .. n + 1 : queue[i] \in ModelCalls
    <2>1. Len(queue) - 1 \in Nat /\ (Len(queue) - 1) + 1 = Len(queue)
      BY <1>0
    <2> QED
      BY <1>0, <2>1
  <1>2. /\ queue' = [i \in 1 .. n |-> queue[IF i < at THEN i ELSE i + 1]]
        /\ DOMAIN queue' = 1 .. n
        /\ \A i \in 1 .. n : queue'[i] = queue[IF i < at THEN i ELSE i + 1]
    BY <1>1 DEF Without
  <1>3. queue' \in Seq(ModelCalls)
    <2>1. \A i \in 1 .. n : (IF i < at THEN i ELSE i + 1) \in 1 .. n + 1
      BY <1>1
    <2>2. queue' \in [1 .. n -> ModelCalls]
      BY <1>1, <1>2, <2>1
    <2>3. PICK s \in [1 .. n -> ModelCalls] : s = queue'
      BY <2>2
    <2>4. s \in Seq(ModelCalls)
      OBVIOUS
    <2> QED
      BY <2>3, <2>4
  <1>4. \A i, j \in 1 .. n + 1 : queue[i] = queue[j] => i = j
    BY <1>1 DEF QueueOK
  <1>5. \A i, j \in DOMAIN queue' : queue'[i] = queue'[j] => i = j
    <2>1. ASSUME NEW i \in 1 .. n, NEW j \in 1 .. n, queue'[i] = queue'[j]
          PROVE  i = j
      <3>1. PICK k \in 1 .. n + 1 : k = (IF i < at THEN i ELSE i + 1) /\ queue'[i] = queue[k]
        BY <1>1, <1>2
      <3>2. PICK l \in 1 .. n + 1 : l = (IF j < at THEN j ELSE j + 1) /\ queue'[j] = queue[l]
        BY <1>1, <1>2
      <3>3. k = l
        BY <1>4, <2>1, <3>1, <3>2
      <3> QED
        BY <1>1, <3>1, <3>2, <3>3
    <2> QED
      BY <1>2, <2>1
  <1>6. ASSUME NEW d \in ModelCalls
        PROVE  (\E i \in DOMAIN queue' : queue'[i] = d) <=> d # c
               /\ \E i \in DOMAIN queue : queue[i] = d
    <2>1. ASSUME NEW i \in 1 .. n, queue'[i] = d
          PROVE  d # c /\ \E k \in DOMAIN queue : queue[k] = d
      <3>1. PICK k \in 1 .. n + 1 : k = (IF i < at THEN i ELSE i + 1) /\ queue'[i] = queue[k]
        BY <1>1, <1>2
      <3>2. k # at
        BY <1>1, <3>1
      <3> QED
        BY <1>1, <1>4, <2>1, <3>1, <3>2
    <2>2. ASSUME NEW k \in 1 .. n + 1, queue[k] = d, d # c
          PROVE  \E i \in DOMAIN queue' : queue'[i] = d
      <3>1. k < at \/ k > at
        BY <1>1, <2>2
      <3>2. CASE k < at
        <4>1. k \in 1 .. n /\ queue'[k] = queue[k]
          BY <1>1, <1>2, <3>2
        <4> QED
          BY <1>2, <2>2, <4>1
      <3>3. CASE k > at
        <4>1. k - 1 \in 1 .. n /\ ~(k - 1 < at) /\ (k - 1) + 1 = k
          BY <1>1, <3>3
        <4>2. queue'[k - 1] = queue[k]
          BY <1>1, <1>2, <4>1
        <4> QED
          BY <1>2, <2>2, <4>1, <4>2
      <3> QED
        BY <3>1, <3>2, <3>3
    <2> QED
      BY <1>1, <1>2, <2>1, <2>2
  <1>7. \A d \in ModelCalls : call'[d].pc = "waiting" <=> d # c /\ call[d].pc = "waiting"
    BY DEF CallsOK
  <1> QED
    BY <1>3, <1>5, <1>6, <1>7 DEF QueueOK

-----------------------------------------------------------------------------
LEMMA WorkedOn ==
  ASSUME CallsOK, NEW c \in ModelCalls, NEW maybe, Worked(c, maybe), call[c].pc = "posting"
  PROVE  /\ billed' \in [ModelCalls -> 0 .. ModelAttempts]
         /\ \A d \in ModelCalls \ {c} : billed'[d] = billed[d]
         /\ billed'[c] \in {billed[c], billed[c] + 1}
         /\ maybe = {"yes"} => billed'[c] = billed[c] + 1
  <1>1. /\ billed \in [ModelCalls -> 0 .. ModelAttempts] /\ billed[c] < call[c].attempt
        /\ call[c].attempt \in 0 .. ModelAttempts
    BY DEF CallsOK, CallOK, CallRow
  <1>2. billed[c] + 1 \in 0 .. ModelAttempts
    BY <1>1, ModelLimitsPositive
  <1>3. CASE billed' = [billed EXCEPT ![c] = @ + 1]
    BY <1>1, <1>2, <1>3
  <1>4. CASE UNCHANGED billed /\ "no" \in maybe
    BY <1>1, <1>4
  <1> QED
    BY <1>3, <1>4 DEF Worked

LEMMA NotWorkedOn ==
  ASSUME CallsOK, NEW c \in ModelCalls, NEW maybe, Worked(c, maybe), "yes" \notin maybe
  PROVE  billed' = billed
  BY DEF Worked

LEMMA DecisionStep == ASSUME ProviderInv, NEW c \in ModelCalls, Decision(c) PROVE ProviderInv'
  <1>1. PICK r \in CallRow : r = [call[c] EXCEPT !.pc = "waiting"]
    BY DEF ProviderInv, CallsOK, CallRow
  <1>2. /\ call' = [call EXCEPT ![c] = r] /\ call[c].pc = "idle" /\ queue' = Append(queue, c)
        /\ UNCHANGED <<slots, metered, billed>>
    BY <1>1 DEF Decision, Turns
  <1>3. CallOK(call[c], metered[c], billed[c]) /\ call[c] \in CallRow
    BY DEF ProviderInv, CallsOK
  <1>4. r.pc = "waiting" /\ r.attempt = call[c].attempt /\ r.failure = call[c].failure
    BY <1>1, <1>3 DEF CallRow
  <1>5. CallOK(r, metered'[c], billed'[c])
    BY <1>2, <1>3, <1>4 DEF CallOK
  <1>6. CallsOK'
    BY <1>2, <1>5, CallChanges DEF ProviderInv, CallsOK
  <1>7. QueueOK'
    BY <1>2, <1>4, QueueGrows DEF ProviderInv
  <1>8. SlotsOK'
    BY <1>2, <1>4, SlotsStay DEF ProviderInv
  <1> QED
    BY <1>6, <1>7, <1>8 DEF ProviderInv

LEMMA AcquireStep == ASSUME ProviderInv, NEW c \in ModelCalls, Acquire(c) PROVE ProviderInv'
  <1>1. 1 \in 0 .. ModelAttempts
    BY ModelLimitsPositive
  <1>2. PICK r \in CallRow : r = [call[c] EXCEPT !.pc = "posting", !.attempt = 1]
    BY <1>1 DEF ProviderInv, CallsOK, CallRow
  <1>3. /\ call' = [call EXCEPT ![c] = r] /\ slots > 0 /\ slots' = slots - 1
        /\ queue # <<>> /\ c = Head(queue) /\ queue' = Tail(queue)
        /\ UNCHANGED <<metered, billed>>
    BY <1>2 DEF Acquire
  <1>4. queue \in Seq(ModelCalls)
    BY DEF ProviderInv, QueueOK
  <1>5. 1 \in DOMAIN queue /\ queue[1] = c /\ queue' = Without(1)
    <2>1. 1 \in DOMAIN queue /\ queue[1] = c
      BY <1>3, <1>4
    <2>2. PICK n \in Nat : n = Len(queue) - 1
      BY <1>3, <1>4
    <2>3. PICK rest \in [1 .. n -> ModelCalls] : rest = Tail(queue)
               /\ \A i \in 1 .. n : rest[i] = queue[i + 1]
      BY <1>3, <1>4, <2>2
    <2>4. \A i \in 1 .. n : (IF i < 1 THEN i ELSE i + 1) = i + 1
      OBVIOUS
    <2>5. Without(1) = [i \in 1 .. n |-> queue[i + 1]]
      BY <2>2, <2>4 DEF Without
    <2>6. rest = [i \in 1 .. n |-> queue[i + 1]]
      BY <2>3
    <2> QED
      BY <1>3, <2>1, <2>3, <2>5, <2>6
  <1>6. call[c].pc = "waiting"
    BY <1>5 DEF ProviderInv, QueueOK
  <1>7. CallOK(call[c], metered[c], billed[c]) /\ call[c] \in CallRow
    BY DEF ProviderInv, CallsOK
  <1>8. r.pc = "posting" /\ r.attempt = 1 /\ r.failure = call[c].failure
    BY <1>2, <1>7 DEF CallRow
  <1>9. CallOK(r, metered'[c], billed'[c])
    <2>1. metered[c] \in 0 .. 1 /\ billed[c] \in 0 .. ModelAttempts
      BY DEF ProviderInv, CallsOK
    <2> QED
      BY <1>3, <1>6, <1>7, <1>8, <2>1, ModelLimitsPositive DEF CallOK, CallRow
  <1>10. CallsOK'
    BY <1>3, <1>9, CallChanges DEF ProviderInv, CallsOK
  <1>11. QueueOK'
    BY <1>3, <1>5, <1>8, QueueShrinks DEF ProviderInv
  <1>12. SlotsOK'
    BY <1>3, <1>6, <1>8, SlotTaken DEF ProviderInv
  <1> QED
    BY <1>10, <1>11, <1>12 DEF ProviderInv

LEMMA AnsweredStep == ASSUME ProviderInv, NEW c \in ModelCalls, Answered(c) PROVE ProviderInv'
  <1>1. CallOK(call[c], metered[c], billed[c]) /\ call[c] \in CallRow
        /\ metered \in [ModelCalls -> 0 .. 1]
        /\ billed \in [ModelCalls -> 0 .. ModelAttempts] /\ metered[c] \in 0 .. 1
        /\ billed[c] \in 0 .. ModelAttempts
    BY DEF ProviderInv, CallsOK
  <1>2. PICK r \in CallRow : r = [call[c] EXCEPT !.pc = "received"]
    BY <1>1 DEF CallRow
  <1>3. call' = [call EXCEPT ![c] = r] /\ call[c].pc = "posting" /\ slots' = slots + 1
        /\ Worked(c, {"yes"}) /\ UNCHANGED <<queue, metered>>
    BY <1>2 DEF Answered, Turns
  <1>4. r.pc = "received" /\ r.attempt = call[c].attempt /\ r.failure = call[c].failure
    BY <1>1, <1>2 DEF CallRow
  <1>5. /\ metered' \in [ModelCalls -> 0 .. 1] /\ billed' \in [ModelCalls -> 0 .. ModelAttempts]
        /\ \A d \in ModelCalls \ {c} : metered'[d] = metered[d] /\ billed'[d] = billed[d]
        /\ billed'[c] = billed[c] + 1
    BY <1>1, <1>3, WorkedOn DEF ProviderInv
  <1>6. CallOK(r, metered'[c], billed'[c])
    <2>1. /\ call[c].attempt \in Nat /\ call[c].attempt >= 1 /\ billed[c] < call[c].attempt
          /\ metered[c] = 0 /\ call[c].failure # "unusable" /\ billed[c] \in Nat
      BY <1>1, <1>3, ModelLimitsPositive DEF CallOK, CallRow
    <2>2. billed'[c] \in 0 .. call[c].attempt /\ metered'[c] = 0
      BY <1>3, <1>5, <2>1
    <2> QED
      BY <1>3, <1>4, <1>5, <2>1, <2>2 DEF CallOK
  <1>7. CallsOK'
    BY <1>3, <1>5, <1>6, CallChanges DEF ProviderInv
  <1>8. QueueOK' /\ SlotsOK'
    BY <1>3, <1>4, QueueStays, SlotReturned DEF ProviderInv
  <1> QED
    BY <1>7, <1>8 DEF ProviderInv

LEMMA PauseStep ==
  ASSUME ProviderInv, NEW c \in ModelCalls, NEW failure \in Failures, Pause(c, failure)
  PROVE  ProviderInv'
  <1>1. CallOK(call[c], metered[c], billed[c]) /\ call[c] \in CallRow
        /\ metered \in [ModelCalls -> 0 .. 1]
        /\ billed \in [ModelCalls -> 0 .. ModelAttempts] /\ metered[c] \in 0 .. 1
        /\ billed[c] \in 0 .. ModelAttempts
    BY DEF ProviderInv, CallsOK
  <1>2. PICK r \in CallRow : r = [call[c] EXCEPT !.pc = "pausing", !.failure = failure]
    BY <1>1 DEF CallRow
  <1>3. call' = [call EXCEPT ![c] = r] /\ call[c].pc = "posting" /\ failure \in RetriedFailures
        /\ call[c].attempt # ModelAttempts
        /\ Worked(c, IF failure = "timeout" THEN {"yes", "no"} ELSE {"no"})
        /\ UNCHANGED <<queue, slots, metered>>
    BY <1>2 DEF Pause, LastAttempt
  <1>4. r.pc = "pausing" /\ r.attempt = call[c].attempt /\ r.failure = failure
    BY <1>1, <1>2 DEF CallRow
  <1>5. /\ metered' \in [ModelCalls -> 0 .. 1] /\ billed' \in [ModelCalls -> 0 .. ModelAttempts]
        /\ \A d \in ModelCalls \ {c} : metered'[d] = metered[d] /\ billed'[d] = billed[d]
        /\ billed'[c] \in {billed[c], billed[c] + 1}
    BY <1>1, <1>3, WorkedOn DEF ProviderInv
  <1>6. CallOK(r, metered'[c], billed'[c])
    <2>1. /\ call[c].attempt \in 0 .. ModelAttempts /\ call[c].attempt >= 1
          /\ billed[c] < call[c].attempt /\ metered[c] = 0 /\ billed[c] \in Nat
      BY <1>1, <1>3, ModelLimitsPositive DEF CallOK, CallRow
    <2>2. call[c].attempt < ModelAttempts /\ failure # "unusable"
      BY <1>3, <2>1, ModelLimitsPositive DEF RetriedFailures
    <2>3. billed'[c] \in 0 .. call[c].attempt /\ metered'[c] = 0
      BY <1>3, <1>5, <2>1, ModelLimitsPositive
    <2> QED
      BY <1>4, <2>1, <2>2, <2>3, ModelLimitsPositive DEF CallOK
  <1>7. CallsOK'
    BY <1>3, <1>5, <1>6, CallChanges DEF ProviderInv
  <1>8. QueueOK' /\ SlotsOK'
    BY <1>3, <1>4, QueueStays, SlotsStay DEF ProviderInv
  <1> QED
    BY <1>7, <1>8 DEF ProviderInv

LEMMA RetryStep == ASSUME ProviderInv, NEW c \in ModelCalls, Retry(c) PROVE ProviderInv'
  <1>1. CallOK(call[c], metered[c], billed[c]) /\ call[c] \in CallRow
        /\ metered \in [ModelCalls -> 0 .. 1]
        /\ billed \in [ModelCalls -> 0 .. ModelAttempts] /\ metered[c] \in 0 .. 1
        /\ billed[c] \in 0 .. ModelAttempts
    BY DEF ProviderInv, CallsOK
  <1>0. PICK attempt \in 0 .. ModelAttempts : attempt = call[c].attempt + 1
    <2>1. call[c].attempt < ModelAttempts /\ call[c].attempt \in 0 .. ModelAttempts
      BY <1>1 DEF Retry, CallOK, CallRow
    <2> QED
      BY <2>1, ModelLimitsPositive
  <1>2. PICK r \in CallRow : r = [call[c] EXCEPT !.pc = "posting", !.attempt = attempt]
    BY <1>0, <1>1 DEF CallRow
  <1>3. call' = [call EXCEPT ![c] = r] /\ call[c].pc = "pausing"
        /\ UNCHANGED <<queue, slots, metered, billed>>
    BY <1>0, <1>2 DEF Retry
  <1>4. r.pc = "posting" /\ r.attempt = attempt /\ r.failure = call[c].failure
    BY <1>1, <1>2 DEF CallRow
  <1>5. /\ metered' \in [ModelCalls -> 0 .. 1] /\ billed' \in [ModelCalls -> 0 .. ModelAttempts]
        /\ \A d \in ModelCalls \ {c} : metered'[d] = metered[d] /\ billed'[d] = billed[d]
    BY <1>1, <1>3
  <1>6. CallOK(r, metered'[c], billed'[c])
    BY <1>0, <1>1, <1>3, <1>4 DEF CallOK, CallRow
  <1>7. CallsOK'
    BY <1>3, <1>5, <1>6, CallChanges DEF ProviderInv
  <1>8. QueueOK' /\ SlotsOK'
    BY <1>3, <1>4, QueueStays, SlotsStay DEF ProviderInv
  <1> QED
    BY <1>7, <1>8 DEF ProviderInv

LEMMA GivesUpStep ==
  ASSUME ProviderInv, NEW c \in ModelCalls, NEW failure \in Failures, GivesUp(c, failure)
  PROVE  ProviderInv'
  <1>1. CallOK(call[c], metered[c], billed[c]) /\ call[c] \in CallRow
        /\ metered \in [ModelCalls -> 0 .. 1]
        /\ billed \in [ModelCalls -> 0 .. ModelAttempts] /\ metered[c] \in 0 .. 1
        /\ billed[c] \in 0 .. ModelAttempts
    BY DEF ProviderInv, CallsOK
  <1>2. PICK r \in CallRow : r = [call[c] EXCEPT !.pc = "failed", !.failure = failure,
                                         !.retryable = (failure \in RetriedFailures)]
    <2>1. \A retryable \in BOOLEAN :
             [call[c] EXCEPT !.pc = "failed", !.failure = failure,
                             !.retryable = retryable] \in CallRow
      BY <1>1 DEF CallRow
    <2>2. (failure \in RetriedFailures) \in BOOLEAN
      BY SMT
    <2> QED
      BY <2>1, <2>2, Zenon
  <1>3. call' = [call EXCEPT ![c] = r] /\ call[c].pc = "posting" /\ slots' = slots + 1
        /\ (failure \in RetriedFailures => call[c].attempt = ModelAttempts) /\ failure # "unusable"
        /\ Worked(c, IF failure \in {"timeout", "transport"} THEN {"yes", "no"} ELSE {"no"})
        /\ UNCHANGED <<queue, metered>>
    BY <1>2 DEF GivesUp, Fails, LastAttempt, RetriedFailures
  <1>4. r.pc = "failed" /\ r.attempt = call[c].attempt /\ r.failure = failure
        /\ (r.retryable => failure \in RetriedFailures)
    BY <1>1, <1>2 DEF CallRow
  <1>5. /\ metered' \in [ModelCalls -> 0 .. 1] /\ billed' \in [ModelCalls -> 0 .. ModelAttempts]
        /\ \A d \in ModelCalls \ {c} : metered'[d] = metered[d] /\ billed'[d] = billed[d]
        /\ billed'[c] \in {billed[c], billed[c] + 1}
    BY <1>1, <1>3, WorkedOn DEF ProviderInv
  <1>6. CallOK(r, metered'[c], billed'[c])
    <2>1. /\ call[c].attempt \in Nat /\ call[c].attempt >= 1 /\ billed[c] < call[c].attempt
          /\ metered[c] = 0 /\ call[c].failure # "unusable" /\ billed[c] \in Nat
      BY <1>1, <1>3, ModelLimitsPositive DEF CallOK, CallRow
    <2>2. billed'[c] \in 0 .. call[c].attempt /\ metered'[c] = 0
      BY <1>3, <1>5, <2>1
    <2> QED
      BY <1>3, <1>4, <1>5, <2>1, <2>2 DEF CallOK
  <1>7. CallsOK'
    BY <1>3, <1>5, <1>6, CallChanges DEF ProviderInv
  <1>8. QueueOK' /\ SlotsOK'
    BY <1>3, <1>4, QueueStays, SlotReturned DEF ProviderInv
  <1> QED
    BY <1>7, <1>8 DEF ProviderInv

LEMMA MalformedStep == ASSUME ProviderInv, NEW c \in ModelCalls, Malformed(c) PROVE ProviderInv'
  <1>1. CallOK(call[c], metered[c], billed[c]) /\ call[c] \in CallRow
        /\ metered \in [ModelCalls -> 0 .. 1]
        /\ billed \in [ModelCalls -> 0 .. ModelAttempts] /\ metered[c] \in 0 .. 1
        /\ billed[c] \in 0 .. ModelAttempts
    BY DEF ProviderInv, CallsOK
  <1>2. PICK r \in CallRow : r = [call[c] EXCEPT !.pc = "failed", !.failure = "malformed",
                                         !.retryable = FALSE]
    BY <1>1 DEF CallRow, Failures
  <1>3. call' = [call EXCEPT ![c] = r] /\ call[c].pc = "received"
        /\ UNCHANGED <<queue, slots, metered, billed>>
    BY <1>2 DEF Malformed, Fails
  <1>4. r.pc = "failed" /\ r.attempt = call[c].attempt /\ r.failure = "malformed"
        /\ r.retryable = FALSE
    BY <1>1, <1>2 DEF CallRow
  <1>5. /\ metered' \in [ModelCalls -> 0 .. 1] /\ billed' \in [ModelCalls -> 0 .. ModelAttempts]
        /\ \A d \in ModelCalls \ {c} : metered'[d] = metered[d] /\ billed'[d] = billed[d]
    BY <1>1, <1>3
  <1>6. CallOK(r, metered'[c], billed'[c])
    BY <1>1, <1>3, <1>4 DEF CallOK, CallRow
  <1>7. CallsOK'
    BY <1>3, <1>5, <1>6, CallChanges DEF ProviderInv
  <1>8. QueueOK' /\ SlotsOK'
    BY <1>3, <1>4, QueueStays, SlotsStay DEF ProviderInv
  <1> QED
    BY <1>7, <1>8 DEF ProviderInv

LEMMA DecidedStep == ASSUME ProviderInv, NEW c \in ModelCalls, Decided(c) PROVE ProviderInv'
  <1>1. CallOK(call[c], metered[c], billed[c]) /\ call[c] \in CallRow
        /\ metered \in [ModelCalls -> 0 .. 1]
        /\ billed \in [ModelCalls -> 0 .. ModelAttempts] /\ metered[c] \in 0 .. 1
        /\ billed[c] \in 0 .. ModelAttempts
    BY DEF ProviderInv, CallsOK
  <1>2. PICK r \in CallRow : r = [call[c] EXCEPT !.pc = "decided", !.failure = "none"]
    BY <1>1 DEF CallRow, Failures
  <1>3. call' = [call EXCEPT ![c] = r] /\ call[c].pc = "received" /\ metered[c] = 0
        /\ metered' = [metered EXCEPT ![c] = metered[c] + 1]
        /\ UNCHANGED <<queue, slots, billed>>
    BY <1>1, <1>2 DEF Decided, Report, CallOK
  <1>4. r.pc = "decided" /\ r.attempt = call[c].attempt /\ r.failure = "none"
    BY <1>1, <1>2 DEF CallRow
  <1>5. /\ metered' \in [ModelCalls -> 0 .. 1] /\ billed' \in [ModelCalls -> 0 .. ModelAttempts]
        /\ \A d \in ModelCalls \ {c} : metered'[d] = metered[d] /\ billed'[d] = billed[d]
        /\ metered'[c] = 1
    BY <1>1, <1>3
  <1>6. CallOK(r, metered'[c], billed'[c])
    BY <1>1, <1>3, <1>4, <1>5 DEF CallOK, CallRow
  <1>7. CallsOK'
    BY <1>3, <1>5, <1>6, CallChanges DEF ProviderInv
  <1>8. QueueOK' /\ SlotsOK'
    BY <1>3, <1>4, QueueStays, SlotsStay DEF ProviderInv
  <1> QED
    BY <1>7, <1>8 DEF ProviderInv

LEMMA UnusableStep == ASSUME ProviderInv, NEW c \in ModelCalls, Unusable(c) PROVE ProviderInv'
  <1>1. CallOK(call[c], metered[c], billed[c]) /\ call[c] \in CallRow
        /\ metered \in [ModelCalls -> 0 .. 1]
        /\ billed \in [ModelCalls -> 0 .. ModelAttempts] /\ metered[c] \in 0 .. 1
        /\ billed[c] \in 0 .. ModelAttempts
    BY DEF ProviderInv, CallsOK
  <1>2. PICK r \in CallRow : r = [call[c] EXCEPT !.pc = "failed", !.failure = "unusable",
                                         !.retryable = FALSE]
    BY <1>1 DEF CallRow, Failures
  <1>3. call' = [call EXCEPT ![c] = r] /\ call[c].pc = "received" /\ metered[c] = 0
        /\ metered' = [metered EXCEPT ![c] = metered[c] + 1]
        /\ UNCHANGED <<queue, slots, billed>>
    BY <1>1, <1>2 DEF Unusable, Fails, Report, CallOK
  <1>4. r.pc = "failed" /\ r.attempt = call[c].attempt /\ r.failure = "unusable"
        /\ r.retryable = FALSE
    BY <1>1, <1>2 DEF CallRow
  <1>5. /\ metered' \in [ModelCalls -> 0 .. 1] /\ billed' \in [ModelCalls -> 0 .. ModelAttempts]
        /\ \A d \in ModelCalls \ {c} : metered'[d] = metered[d] /\ billed'[d] = billed[d]
        /\ metered'[c] = 1
    BY <1>1, <1>3
  <1>6. CallOK(r, metered'[c], billed'[c])
    BY <1>1, <1>3, <1>4, <1>5 DEF CallOK, CallRow
  <1>7. CallsOK'
    BY <1>3, <1>5, <1>6, CallChanges DEF ProviderInv
  <1>8. QueueOK' /\ SlotsOK'
    BY <1>3, <1>4, QueueStays, SlotsStay DEF ProviderInv
  <1> QED
    BY <1>7, <1>8 DEF ProviderInv

(* A call that is cancelled leaves the queue, or gives back its slot.      *)
LEMMA CancelStep == ASSUME ProviderInv, NEW c \in ModelCalls, Cancel(c) PROVE ProviderInv'
  <1>1. CallOK(call[c], metered[c], billed[c]) /\ call[c] \in CallRow
        /\ metered \in [ModelCalls -> 0 .. 1]
        /\ billed \in [ModelCalls -> 0 .. ModelAttempts] /\ metered[c] \in 0 .. 1
        /\ billed[c] \in 0 .. ModelAttempts
    BY DEF ProviderInv, CallsOK
  <1>2. PICK r \in CallRow : r = [call[c] EXCEPT !.pc = "cancelled"]
    BY <1>1 DEF CallRow
  <1>3. call' = [call EXCEPT ![c] = r] /\ call[c].pc \in {"waiting", "posting", "pausing"}
        /\ slots' = (IF call[c].pc \in {"posting", "pausing"} THEN slots + 1 ELSE slots)
        /\ UNCHANGED metered
    BY <1>2 DEF Cancel, Turns, Holds
  <1>4. r.pc = "cancelled" /\ r.attempt = call[c].attempt /\ r.failure = call[c].failure
    BY <1>1, <1>2 DEF CallRow
  <1>5. /\ metered' \in [ModelCalls -> 0 .. 1] /\ billed' \in [ModelCalls -> 0 .. ModelAttempts]
        /\ (\A d \in ModelCalls \ {c} : metered'[d] = metered[d] /\ billed'[d] = billed[d])
        /\ CallOK(r, metered'[c], billed'[c])
    <2>1. CASE call[c].pc = "posting"
      <3>1. Worked(c, {"yes", "no"})
        BY <2>1 DEF Cancel
      <3>2. /\ billed' \in [ModelCalls -> 0 .. ModelAttempts]
            /\ billed'[c] \in {billed[c], billed[c] + 1}
            /\ \A d \in ModelCalls \ {c} : billed'[d] = billed[d]
        BY <2>1, <3>1, WorkedOn DEF ProviderInv
      <3> QED
        BY <1>1, <1>3, <1>4, <2>1, <3>2 DEF CallOK, CallRow
    <2>2. CASE call[c].pc # "posting"
      <3>1. billed' = billed
        BY <2>2 DEF Cancel, Worked
      <3> QED
        BY <1>1, <1>3, <1>4, <2>2, <3>1 DEF CallOK, CallRow
    <2> QED
      BY <2>1, <2>2
  <1>6. CallsOK'
    BY <1>3, <1>5, CallChanges DEF ProviderInv
  <1>7. QueueOK' /\ SlotsOK'
    <2>1. CASE call[c].pc = "waiting"
      <3>1. PICK i \in DOMAIN queue : queue[i] = c /\ queue' = Without(i)
        BY <2>1 DEF Cancel
      <3>2. QueueOK'
        BY <1>3, <1>4, <3>1, QueueShrinks DEF ProviderInv
      <3> QED
        BY <1>3, <1>4, <2>1, <3>2, SlotsStay DEF ProviderInv
    <2>2. CASE call[c].pc # "waiting"
      <3>1. \A i \in DOMAIN queue : queue[i] # c
        BY <2>2 DEF ProviderInv, QueueOK
      <3>2. UNCHANGED queue
        BY <3>1 DEF Cancel
      <3> QED
        BY <1>3, <1>4, <2>2, <3>2, QueueStays, SlotReturned DEF ProviderInv
    <2> QED
      BY <2>1, <2>2
  <1> QED
    BY <1>6, <1>7 DEF ProviderInv

LEMMA InductiveProvider == ProviderSpec => []ProviderInv
  <1>1. ProviderInv /\ [ProviderNext]_provider => ProviderInv'
    <2> SUFFICES ASSUME ProviderInv, [ProviderNext]_provider PROVE ProviderInv'
      OBVIOUS
    <2>1. CASE UNCHANGED provider
      BY <2>1 DEF provider, ProviderInv, CallsOK, CallOK, QueueOK, SlotsOK, SlotHolders,
                  SlotsConserved
    <2>2. ASSUME NEW c \in ModelCalls, Decision(c) \/ CallStep(c) \/ Cancel(c)
          PROVE  ProviderInv'
      BY <2>2, DecisionStep, AcquireStep, AnsweredStep, PauseStep, RetryStep, GivesUpStep,
         MalformedStep, DecidedStep, UnusableStep, CancelStep DEF CallStep
    <2> QED
      BY <2>1, <2>2 DEF ProviderNext
  <1> QED
    BY ProviderInit0, <1>1, PTL DEF ProviderSpec

(* Calls, the queue and the counters keep to their types, and the queue    *)
(* holds the calls that wait.                                              *)
THEOREM ProviderTyped == ProviderSpec => []ProviderTypeOK
  <1>1. ProviderInv => ProviderTypeOK
    BY DEF ProviderInv, CallsOK, QueueOK, SlotsOK, ProviderTypeOK
  <1> QED
    BY <1>1, InductiveProvider, PTL

(* However a call ends - answered, refused, given up or cancelled at any   *)
(* await - its slot is back, its tokens are counted once, and a failure it *)
(* may report as retryable has used every attempt.                         *)
THEOREM CallsCorrect == ProviderSpec => []CallsSettled
  <1>1. ProviderInv => CallsSettled
    <2> SUFFICES ASSUME ProviderInv PROVE CallsSettled
      OBVIOUS
    <2>1. SlotsConserved
      BY DEF ProviderInv, SlotsOK
    <2>2. MeteringExplained /\ RetryableExhausted
      BY DEF ProviderInv, CallsOK, CallOK, MeteringExplained, RetryableExhausted
    <2> QED
      BY <2>1, <2>2 DEF CallsSettled
  <1> QED
    BY <1>1, InductiveProvider, PTL

-----------------------------------------------------------------------------
(* The analysis of a checkout. What runs when, what is in the child's      *)
(* pipe, and what the child has counted so far.                            *)
Discovered == Of({"source", "document", "data"})

Parsing == {"polling", "quiet", "callback", "closing", "joining"}

(* Which process runs when: git while the worker waits for it, the child   *)
(* from its start until it has been joined; and the directory is there     *)
(* until the job has ended.                                                *)
ProcessesAwaited ==
    /\ git = "running" => worker \in {"cloning", "reading_commit"}
    /\ worker \in {"idle", "cloning", "terminating", "reading_commit", "checked_out", "discovered"}
          => child.pc = "none"
    /\ worker \in Parsing => child.pc # "none"
    /\ worker \in {"leaving", "ended"} => ~Alive
    /\ worker \notin {"idle", "ended"} => workspace = "present"
    /\ worker = "ended" => workspace = "removed" \/ outcome = "clone_cleanup_failed"

(* The job has an outcome as soon as it begins to stop, and not before.    *)
OutcomeOK ==
    outcome # "none" <=> worker \in {"closing", "joining", "leaving", "ended"}

(* What is in the pipe, by how far the child has come.                     *)
PipeOK ==
    /\ child.pc \in {"none", "scanning"} => pipe = <<>>
    /\ child.pc = "chunking" => Len(pipe) <= 1
    /\ child.pc = "graphing" => Len(pipe) <= 2
    /\ worker = "callback" => pipe # <<>> /\ pipe[1] # "result"
    /\ child.pc = "sent" /\ child.large /\ pipe # <<>> => pipe[Len(pipe)] = "result"

(* The child's counts, of the files it has taken from those to do.         *)
CountsOK ==
    /\ child.pc # "none" =>
        /\ child.todo \subseteq Discovered
        /\ child.parsed + child.partial + child.skipped + Cardinality(child.todo)
              = Cardinality(Discovered)
    /\ child.pc \in {"chunking", "graphing"} => child.todo = {}
    /\ \A i \in DOMAIN pipe : pipe[i] = "result" => child.todo = {}
    /\ outcome = "analyzed" => child.todo = {} /\ child.pc # "none"

(* Between a poll that found nothing and is_alive, a child that ends       *)
(* leaves nothing to be received, or has been overtaken.                   *)
QuietOK == worker = "quiet" /\ ~Alive => pipe = <<>> \/ raced

AnalysisInv ==
    /\ AnalysisTypeOK /\ ProcessesAwaited /\ OutcomeOK /\ PipeOK /\ CountsOK
    /\ QuietOK /\ ParserFailureExplained

(* The pipe, after a message is sent, received or cut off.                 *)
LEMMA Sent ==
  ASSUME pipe \in Seq(Messages), NEW message \in Messages, pipe' = Append(pipe, message)
  PROVE  /\ pipe' \in Seq(Messages) /\ Len(pipe') = Len(pipe) + 1 /\ pipe' # <<>>
         /\ DOMAIN pipe' = 1 .. Len(pipe) + 1 /\ DOMAIN pipe = 1 .. Len(pipe)
         /\ Len(pipe) \in Nat /\ pipe'[Len(pipe) + 1] = message
         /\ \A i \in 1 .. Len(pipe) : pipe'[i] = pipe[i]
  OBVIOUS

LEMMA Taken ==
  ASSUME pipe \in Seq(Messages), pipe # <<>>, pipe' = Tail(pipe)
  PROVE  /\ pipe' \in Seq(Messages) /\ Len(pipe') = Len(pipe) - 1
         /\ DOMAIN pipe' = 1 .. Len(pipe) - 1 /\ DOMAIN pipe = 1 .. Len(pipe)
         /\ Len(pipe) \in Nat \ {0} /\ (pipe' # <<>> <=> Len(pipe) > 1)
         /\ \A i \in 1 .. Len(pipe) - 1 : pipe'[i] = pipe[i + 1]
  <1>1. Len(pipe) \in Nat \ {0} /\ DOMAIN pipe = 1 .. Len(pipe)
    OBVIOUS
  <1>2. pipe' \in Seq(Messages) /\ Len(pipe') = Len(pipe) - 1
    OBVIOUS
  <1>3. DOMAIN pipe' = 1 .. Len(pipe) - 1
    BY <1>2
  <1>4. pipe' # <<>> <=> Len(pipe) > 1
    BY <1>1, <1>2
  <1>5. \A i \in 1 .. Len(pipe) - 1 : pipe'[i] = pipe[i + 1]
    BY <1>1
  <1> QED
    BY <1>1, <1>2, <1>3, <1>4, <1>5

LEMMA EmptyPipe == \A s \in Seq(Messages) : s = <<>> <=> Len(s) = 0
  OBVIOUS

LEMMA CutOff ==
  ASSUME pipe \in Seq(Messages), pipe # <<>>, pipe' = SubSeq(pipe, 1, Len(pipe) - 1)
  PROVE  /\ pipe' \in Seq(Messages) /\ Len(pipe') = Len(pipe) - 1
         /\ DOMAIN pipe' = 1 .. Len(pipe) - 1 /\ DOMAIN pipe = 1 .. Len(pipe)
         /\ Len(pipe) \in Nat \ {0} /\ (pipe' # <<>> <=> Len(pipe) > 1)
         /\ \A i \in 1 .. Len(pipe) - 1 : pipe'[i] = pipe[i]
  <1>1. Len(pipe) \in Nat \ {0} /\ DOMAIN pipe = 1 .. Len(pipe) /\ Len(pipe) - 1 \in Nat
    OBVIOUS
  <1>2. /\ Len(pipe') = Len(pipe) - 1 /\ DOMAIN pipe' = 1 .. Len(pipe) - 1
        /\ \A i \in 1 .. Len(pipe) - 1 : pipe'[i] = pipe[i]
    BY <1>1
  <1>3. pipe' \in Seq(Messages)
    BY <1>1
  <1>4. pipe' # <<>> <=> Len(pipe) > 1
    <2>1. pipe' = <<>> <=> Len(pipe') = 0
      BY <1>3, EmptyPipe, Zenon
    <2> QED
      BY <1>1, <1>2, <2>1
  <1> QED
    BY <1>1, <1>2, <1>3, <1>4

LEMMA InitAnalysis == AnalysisInit => AnalysisInv
  <1> SUFFICES ASSUME AnalysisInit PROVE AnalysisInv
    OBVIOUS
  <1>1. AnalysisTypeOK
    <2>1. NoChild \in ChildRow
      BY DEF NoChild, ChildRow
    <2>2. tree \in [Entries -> EntryKinds]
      BY DEF AnalysisInit, EntryKinds
    <2>3. stages = <<>> /\ pipe = <<>> /\ Len(pipe) <= 3
      BY DEF AnalysisInit
    <2>4. stages \in Seq({"discovering", "parsing", "chunking", "building_graph"})
          /\ pipe \in Seq(Messages)
      BY <2>3
    <2> QED
      BY <2>1, <2>2, <2>3, <2>4 DEF AnalysisInit, AnalysisTypeOK, JobOutcomes
  <1> QED
    BY <1>1 DEF AnalysisInit, AnalysisInv, ProcessesAwaited, OutcomeOK, PipeOK, CountsOK, QuietOK,
         ParserFailureExplained, Parsing, NoChild, Alive, Working

(* Files that the job has found, of an unchanged tree.                     *)
LEMMA DiscoveredFinite ==
  IsFiniteSet(Discovered) /\ Cardinality(Discovered) \in Nat
  <1>1. Discovered \subseteq Entries
    BY DEF Discovered, Of
  <1> QED
    BY <1>1, EntriesFinite, FS_Subset, FS_CardinalityType

(* A step of the worker's that concerns no process.                        *)

(* Before the child's start a step has only git and the workspace to mind. *)
LEMMA BeforeChild ==
  ASSUME AnalysisInv, child.pc = "none", UNCHANGED <<child, pipe>>,
         AnalysisTypeOK', ProcessesAwaited', OutcomeOK',
         outcome' \notin {"analyzed", "internal_parser_failure"}
  PROVE  AnalysisInv'
  <1>1. PipeOK' /\ CountsOK'
    BY DEF AnalysisInv, PipeOK, CountsOK, ProcessesAwaited, Parsing
  <1>2. QuietOK' /\ ParserFailureExplained'
    BY DEF QuietOK, ParserFailureExplained, ProcessesAwaited, Parsing
  <1> QED
    BY <1>1, <1>2 DEF AnalysisInv

LEMMA CloningSteps ==
  ASSUME AnalysisInv,
         \/ StartClone \/ TerminateGit \/ CloneTimesOut \/ CloneFails \/ TooLarge \/ ReadCommit
         \/ CheckedOut \/ TargetActive \/ LeaseLost \/ Discover
  PROVE  AnalysisInv'
  <1>1. CASE StartClone
    <2>1. child.pc = "none" /\ UNCHANGED <<child, pipe>>
          /\ outcome' \notin {"analyzed", "internal_parser_failure"}
      BY <1>1 DEF StartClone, AnalysisInv, ProcessesAwaited, OutcomeOK
    <2>2. AnalysisTypeOK'
      BY <1>1 DEF StartClone, AnalysisInv, AnalysisTypeOK
    <2>3. ProcessesAwaited' /\ OutcomeOK'
      BY <1>1 DEF StartClone, AnalysisInv, ProcessesAwaited, OutcomeOK, Alive, Working, Parsing
    <2> QED
      BY <2>1, <2>2, <2>3, BeforeChild
  <1>2. CASE TerminateGit
    <2>1. child.pc = "none" /\ UNCHANGED <<child, pipe>>
          /\ outcome' \notin {"analyzed", "internal_parser_failure"}
      BY <1>2 DEF TerminateGit, AnalysisInv, ProcessesAwaited, OutcomeOK
    <2>2. AnalysisTypeOK'
      BY <1>2 DEF TerminateGit, AnalysisInv, AnalysisTypeOK
    <2>3. ProcessesAwaited' /\ OutcomeOK'
      BY <1>2 DEF TerminateGit, AnalysisInv, ProcessesAwaited, OutcomeOK, Alive, Working, Parsing
    <2> QED
      BY <2>1, <2>2, <2>3, BeforeChild
  <1>3. CASE CloneTimesOut
    <2>1. child.pc = "none" /\ UNCHANGED <<child, pipe>>
          /\ outcome' \notin {"analyzed", "internal_parser_failure"}
      BY <1>3 DEF CloneTimesOut, Removed, AnalysisInv, ProcessesAwaited, OutcomeOK
    <2>2. AnalysisTypeOK'
      BY <1>3 DEF CloneTimesOut, Removed, AnalysisInv, AnalysisTypeOK, JobOutcomes
    <2>3. ProcessesAwaited' /\ OutcomeOK'
      BY <1>3 DEF CloneTimesOut, Removed, AnalysisInv, ProcessesAwaited, OutcomeOK, Alive, Working,
                  Parsing
    <2> QED
      BY <2>1, <2>2, <2>3, BeforeChild
  <1>4. CASE CloneFails
    <2>1. child.pc = "none" /\ UNCHANGED <<child, pipe>>
          /\ outcome' \notin {"analyzed", "internal_parser_failure"}
      BY <1>4 DEF CloneFails, Removed, AnalysisInv, ProcessesAwaited, OutcomeOK
    <2>2. AnalysisTypeOK'
      BY <1>4 DEF CloneFails, Removed, AnalysisInv, AnalysisTypeOK, JobOutcomes
    <2>3. ProcessesAwaited' /\ OutcomeOK'
      BY <1>4 DEF CloneFails, Removed, AnalysisInv, ProcessesAwaited, OutcomeOK, Alive, Working,
                  Parsing
    <2> QED
      BY <2>1, <2>2, <2>3, BeforeChild
  <1>5. CASE TooLarge
    <2>1. child.pc = "none" /\ UNCHANGED <<child, pipe>>
          /\ outcome' \notin {"analyzed", "internal_parser_failure"}
      BY <1>5 DEF TooLarge, Removed, AnalysisInv, ProcessesAwaited, OutcomeOK
    <2>2. AnalysisTypeOK'
      BY <1>5 DEF TooLarge, Removed, AnalysisInv, AnalysisTypeOK, JobOutcomes
    <2>3. ProcessesAwaited' /\ OutcomeOK'
      BY <1>5 DEF TooLarge, Removed, AnalysisInv, ProcessesAwaited, OutcomeOK, Alive, Working,
                  Parsing
    <2> QED
      BY <2>1, <2>2, <2>3, BeforeChild
  <1>6. CASE ReadCommit
    <2>1. child.pc = "none" /\ UNCHANGED <<child, pipe>>
          /\ outcome' \notin {"analyzed", "internal_parser_failure"}
      BY <1>6 DEF ReadCommit, AnalysisInv, ProcessesAwaited, OutcomeOK
    <2>2. AnalysisTypeOK'
      BY <1>6 DEF ReadCommit, AnalysisInv, AnalysisTypeOK
    <2>3. ProcessesAwaited' /\ OutcomeOK'
      BY <1>6 DEF ReadCommit, AnalysisInv, ProcessesAwaited, OutcomeOK, Alive, Working, Parsing
    <2> QED
      BY <2>1, <2>2, <2>3, BeforeChild
  <1>7. CASE CheckedOut
    <2>1. child.pc = "none" /\ UNCHANGED <<child, pipe>>
          /\ outcome' \notin {"analyzed", "internal_parser_failure"}
      BY <1>7 DEF CheckedOut, AnalysisInv, ProcessesAwaited, OutcomeOK
    <2>2. AnalysisTypeOK'
      BY <1>7 DEF CheckedOut, AnalysisInv, AnalysisTypeOK
    <2>3. ProcessesAwaited' /\ OutcomeOK'
      BY <1>7 DEF CheckedOut, AnalysisInv, ProcessesAwaited, OutcomeOK, Alive, Working, Parsing
    <2> QED
      BY <2>1, <2>2, <2>3, BeforeChild
  <1>8. CASE TargetActive
    <2>1. child.pc = "none" /\ UNCHANGED <<child, pipe>>
          /\ outcome' \notin {"analyzed", "internal_parser_failure"}
      BY <1>8 DEF TargetActive, Leave, AnalysisInv, ProcessesAwaited, OutcomeOK
    <2>2. AnalysisTypeOK'
      BY <1>8 DEF TargetActive, Leave, AnalysisInv, AnalysisTypeOK, JobOutcomes
    <2>3. ProcessesAwaited' /\ OutcomeOK'
      BY <1>8 DEF TargetActive, Leave, AnalysisInv, ProcessesAwaited, OutcomeOK, Alive, Working,
                  Parsing
    <2> QED
      BY <2>1, <2>2, <2>3, BeforeChild
  <1>9. CASE LeaseLost
    <2>1. child.pc = "none" /\ UNCHANGED <<child, pipe>>
          /\ outcome' \notin {"analyzed", "internal_parser_failure"}
      BY <1>9 DEF LeaseLost, Leave, AnalysisInv, ProcessesAwaited, OutcomeOK
    <2>2. AnalysisTypeOK'
      BY <1>9 DEF LeaseLost, Leave, AnalysisInv, AnalysisTypeOK, JobOutcomes
    <2>3. ProcessesAwaited' /\ OutcomeOK'
      BY <1>9 DEF LeaseLost, Leave, AnalysisInv, ProcessesAwaited, OutcomeOK, Alive, Working,
                  Parsing
    <2> QED
      BY <2>1, <2>2, <2>3, BeforeChild
  <1>10. CASE Discover
    <2>1. child.pc = "none" /\ UNCHANGED <<child, pipe>>
          /\ outcome' \notin {"analyzed", "internal_parser_failure"}
      BY <1>10 DEF Discover, Leave, Stage, AnalysisInv, ProcessesAwaited, OutcomeOK
    <2>2. AnalysisTypeOK'
      BY <1>10 DEF Discover, Leave, Stage, AnalysisInv, AnalysisTypeOK, JobOutcomes
    <2>3. ProcessesAwaited' /\ OutcomeOK'
      BY <1>10 DEF Discover, Leave, Stage, AnalysisInv, ProcessesAwaited, OutcomeOK, Alive,
                   Working, Parsing
    <2> QED
      BY <2>1, <2>2, <2>3, BeforeChild
  <1> QED
    BY <1>1, <1>2, <1>3, <1>4, <1>5, <1>6, <1>7, <1>8, <1>9, <1>10

(* The worker moves, and the child and the pipe stay: it may only come to  *)
(* a callback, to a result or to a failure that they explain.              *)
LEMMA WorkerMoves ==
  ASSUME AnalysisInv, UNCHANGED <<tree, child, pipe, raced>>,
         AnalysisTypeOK', ProcessesAwaited', OutcomeOK',
         worker' = "callback" => worker = "callback" \/ (pipe # <<>> /\ pipe[1] # "result"),
         worker' = "quiet" => worker = "quiet" \/ pipe = <<>>,
         outcome' = "analyzed" => outcome = "analyzed" \/ (pipe # <<>> /\ pipe[1] = "result"),
         outcome' = "internal_parser_failure" => outcome = outcome' \/ pipe = <<>> \/ raced
  PROVE  AnalysisInv'
  <1>1. PipeOK'
    BY DEF AnalysisInv, PipeOK
  <1>2. CountsOK'
    <2>1. Discovered' = Discovered
      BY DEF Discovered, Of
    <2>2. pipe # <<>> => 1 \in DOMAIN pipe /\ child.pc # "none"
      BY DEF AnalysisInv, AnalysisTypeOK, PipeOK
    <2> QED
      BY <2>1, <2>2 DEF AnalysisInv, CountsOK
  <1>3. QuietOK' /\ ParserFailureExplained'
    BY DEF AnalysisInv, QuietOK, ParserFailureExplained, Alive, Working
  <1> QED
    BY <1>1, <1>2, <1>3 DEF AnalysisInv

LEMMA WaitingSteps ==
  ASSUME AnalysisInv,
         \/ ParserTimesOut \/ PollFinds \/ PollFindsNothing \/ CheckAlive
         \/ Terminate \/ Join \/ Cleanup \/ DeadlinePasses
  PROVE  AnalysisInv'
  <1>1. CASE ParserTimesOut
    <2>1. /\ UNCHANGED <<tree, child, pipe, raced>>
          /\ worker' = "callback" => worker = "callback" \/ (pipe # <<>> /\ pipe[1] # "result")
          /\ worker' = "quiet" => worker = "quiet" \/ pipe = <<>>
          /\ outcome' = "analyzed" => outcome = "analyzed" \/ (pipe # <<>> /\ pipe[1] = "result")
          /\ outcome' = "internal_parser_failure" => outcome = outcome' \/ pipe = <<>> \/ raced
      BY <1>1 DEF ParserTimesOut, Concludes, AnalysisInv, QuietOK
    <2>2. AnalysisTypeOK'
      BY <1>1 DEF ParserTimesOut, Concludes, AnalysisInv, AnalysisTypeOK, OutcomeOK, JobOutcomes
    <2>3. ProcessesAwaited' /\ OutcomeOK'
      BY <1>1 DEF ParserTimesOut, Concludes, AnalysisInv, ProcessesAwaited, OutcomeOK, Alive,
                  Working, Parsing
    <2> QED
      BY <2>1, <2>2, <2>3, WorkerMoves
  <1>2. CASE PollFinds
    <2>1. /\ UNCHANGED <<tree, child, pipe, raced>>
          /\ worker' = "callback" => worker = "callback" \/ (pipe # <<>> /\ pipe[1] # "result")
          /\ worker' = "quiet" => worker = "quiet" \/ pipe = <<>>
          /\ outcome' = "analyzed" => outcome = "analyzed" \/ (pipe # <<>> /\ pipe[1] = "result")
          /\ outcome' = "internal_parser_failure" => outcome = outcome' \/ pipe = <<>> \/ raced
      BY <1>2 DEF PollFinds, Concludes, Received, EndOfFile, AnalysisInv, QuietOK
    <2>2. AnalysisTypeOK'
      BY <1>2 DEF PollFinds, Concludes, Received, EndOfFile, AnalysisInv, AnalysisTypeOK,
                  OutcomeOK, JobOutcomes
    <2>3. ProcessesAwaited' /\ OutcomeOK'
      BY <1>2 DEF PollFinds, Concludes, Received, EndOfFile, AnalysisInv, ProcessesAwaited,
                  OutcomeOK, Alive, Working, Parsing
    <2> QED
      BY <2>1, <2>2, <2>3, WorkerMoves
  <1>3. CASE PollFindsNothing
    <2>1. /\ UNCHANGED <<tree, child, pipe, raced>>
          /\ worker' = "callback" => worker = "callback" \/ (pipe # <<>> /\ pipe[1] # "result")
          /\ worker' = "quiet" => worker = "quiet" \/ pipe = <<>>
          /\ outcome' = "analyzed" => outcome = "analyzed" \/ (pipe # <<>> /\ pipe[1] = "result")
          /\ outcome' = "internal_parser_failure" => outcome = outcome' \/ pipe = <<>> \/ raced
      BY <1>3 DEF PollFindsNothing, EndOfFile, AnalysisInv, QuietOK
    <2>2. AnalysisTypeOK'
      BY <1>3 DEF PollFindsNothing, EndOfFile, AnalysisInv, AnalysisTypeOK, OutcomeOK
    <2>3. ProcessesAwaited' /\ OutcomeOK'
      BY <1>3 DEF PollFindsNothing, EndOfFile, AnalysisInv, ProcessesAwaited, OutcomeOK, Alive,
                  Working, Parsing
    <2> QED
      BY <2>1, <2>2, <2>3, WorkerMoves
  <1>4. CASE CheckAlive
    <2>1. /\ UNCHANGED <<tree, child, pipe, raced>>
          /\ worker' = "callback" => worker = "callback" \/ (pipe # <<>> /\ pipe[1] # "result")
          /\ worker' = "quiet" => worker = "quiet" \/ pipe = <<>>
          /\ outcome' = "analyzed" => outcome = "analyzed" \/ (pipe # <<>> /\ pipe[1] = "result")
          /\ outcome' = "internal_parser_failure" => outcome = outcome' \/ pipe = <<>> \/ raced
      BY <1>4 DEF CheckAlive, Concludes, AnalysisInv, QuietOK
    <2>2. AnalysisTypeOK'
      BY <1>4 DEF CheckAlive, Concludes, AnalysisInv, AnalysisTypeOK, OutcomeOK, JobOutcomes
    <2>3. ProcessesAwaited' /\ OutcomeOK'
      BY <1>4 DEF CheckAlive, Concludes, AnalysisInv, ProcessesAwaited, OutcomeOK, Alive, Working,
                  Parsing
    <2> QED
      BY <2>1, <2>2, <2>3, WorkerMoves
  <1>5. CASE Terminate
    <2>1. /\ UNCHANGED <<tree, child, pipe, raced>>
          /\ worker' = "callback" => worker = "callback" \/ (pipe # <<>> /\ pipe[1] # "result")
          /\ worker' = "quiet" => worker = "quiet" \/ pipe = <<>>
          /\ outcome' = "analyzed" => outcome = "analyzed" \/ (pipe # <<>> /\ pipe[1] = "result")
          /\ outcome' = "internal_parser_failure" => outcome = outcome' \/ pipe = <<>> \/ raced
      BY <1>5 DEF Terminate, AnalysisInv, QuietOK
    <2>2. AnalysisTypeOK'
      BY <1>5 DEF Terminate, AnalysisInv, AnalysisTypeOK, OutcomeOK
    <2>3. ProcessesAwaited' /\ OutcomeOK'
      BY <1>5 DEF Terminate, AnalysisInv, ProcessesAwaited, OutcomeOK, Alive, Working, Parsing
    <2> QED
      BY <2>1, <2>2, <2>3, WorkerMoves
  <1>6. CASE Join
    <2>1. /\ UNCHANGED <<tree, child, pipe, raced>>
          /\ worker' = "callback" => worker = "callback" \/ (pipe # <<>> /\ pipe[1] # "result")
          /\ worker' = "quiet" => worker = "quiet" \/ pipe = <<>>
          /\ outcome' = "analyzed" => outcome = "analyzed" \/ (pipe # <<>> /\ pipe[1] = "result")
          /\ outcome' = "internal_parser_failure" => outcome = outcome' \/ pipe = <<>> \/ raced
      BY <1>6 DEF Join, HasEnded, AnalysisInv, QuietOK
    <2>2. AnalysisTypeOK'
      BY <1>6 DEF Join, HasEnded, AnalysisInv, AnalysisTypeOK, OutcomeOK
    <2>3. ProcessesAwaited' /\ OutcomeOK'
      BY <1>6 DEF Join, HasEnded, AnalysisInv, ProcessesAwaited, OutcomeOK, Alive, Working, Parsing
    <2> QED
      BY <2>1, <2>2, <2>3, WorkerMoves
  <1>7. CASE Cleanup
    <2>1. /\ UNCHANGED <<tree, child, pipe, raced>>
          /\ worker' = "callback" => worker = "callback" \/ (pipe # <<>> /\ pipe[1] # "result")
          /\ worker' = "quiet" => worker = "quiet" \/ pipe = <<>>
          /\ outcome' = "analyzed" => outcome = "analyzed" \/ (pipe # <<>> /\ pipe[1] = "result")
          /\ outcome' = "internal_parser_failure" => outcome = outcome' \/ pipe = <<>> \/ raced
      BY <1>7 DEF Cleanup, Removed, AnalysisInv, QuietOK
    <2>2. AnalysisTypeOK'
      BY <1>7 DEF Cleanup, Removed, AnalysisInv, AnalysisTypeOK, OutcomeOK, JobOutcomes
    <2>3. ProcessesAwaited' /\ OutcomeOK'
      BY <1>7 DEF Cleanup, Removed, AnalysisInv, ProcessesAwaited, OutcomeOK, Alive, Working,
                  Parsing
    <2> QED
      BY <2>1, <2>2, <2>3, WorkerMoves
  <1>8. CASE DeadlinePasses
    <2>1. /\ UNCHANGED <<tree, child, pipe, raced>>
          /\ worker' = "callback" => worker = "callback" \/ (pipe # <<>> /\ pipe[1] # "result")
          /\ worker' = "quiet" => worker = "quiet" \/ pipe = <<>>
          /\ outcome' = "analyzed" => outcome = "analyzed" \/ (pipe # <<>> /\ pipe[1] = "result")
          /\ outcome' = "internal_parser_failure" => outcome = outcome' \/ pipe = <<>> \/ raced
      BY <1>8 DEF DeadlinePasses, HasDeadline, AnalysisInv, QuietOK
    <2>2. AnalysisTypeOK'
      BY <1>8 DEF DeadlinePasses, HasDeadline, AnalysisInv, AnalysisTypeOK, OutcomeOK
    <2>3. ProcessesAwaited' /\ OutcomeOK'
      BY <1>8 DEF DeadlinePasses, HasDeadline, AnalysisInv, ProcessesAwaited, OutcomeOK, Alive,
                  Working, Parsing
    <2> QED
      BY <2>1, <2>2, <2>3, WorkerMoves
  <1> QED
    BY <1>1, <1>2, <1>3, <1>4, <1>5, <1>6, <1>7, <1>8

(* git leaves a tree only while the worker waits for the clone.            *)
LEMMA GitExitsStep == ASSUME AnalysisInv, GitExits PROVE AnalysisInv'
  <1>1. AnalysisTypeOK'
    BY DEF GitExits, AnalysisInv, AnalysisTypeOK, EntryKinds
  <1>2. ProcessesAwaited'
    BY DEF GitExits, AnalysisInv, ProcessesAwaited, Parsing, Alive, Working
  <1>3. OutcomeOK'
    BY DEF GitExits, AnalysisInv, OutcomeOK
  <1>4. PipeOK'
    BY DEF GitExits, AnalysisInv, PipeOK, ProcessesAwaited
  <1>5. CountsOK'
    BY DEF GitExits, AnalysisInv, CountsOK, ProcessesAwaited, OutcomeOK, Discovered, Of
  <1>6. QuietOK' /\ ParserFailureExplained'
    BY DEF GitExits, AnalysisInv, QuietOK, ParserFailureExplained, OutcomeOK, ProcessesAwaited
  <1> QED
    BY <1>1, <1>2, <1>3, <1>4, <1>5, <1>6 DEF AnalysisInv

(* The child begins with every file that was discovered still to do.       *)
LEMMA StartChildStep == ASSUME AnalysisInv, StartChild PROVE AnalysisInv'
  <1>1. /\ worker = "discovered" /\ worker' = "polling" /\ outcome = "none" /\ child.pc = "none"
        /\ pipe = <<>> /\ workspace = "present" /\ git # "running"
        /\ UNCHANGED <<outcome, workspace, tree, git, pipe, late, raced>>
    BY DEF StartChild, AnalysisInv, OutcomeOK, ProcessesAwaited, PipeOK
  <1>2. child' = [NoChild EXCEPT !.pc = "scanning", !.todo = Discovered]
        /\ Discovered \subseteq Entries
    BY DEF StartChild, Discovered, Of
  <1>3. /\ child' \in ChildRow /\ child'.pc = "scanning" /\ child'.todo = Discovered
        /\ child'.parsed = 0 /\ child'.partial = 0 /\ child'.skipped = 0
    BY <1>2 DEF NoChild, ChildRow
  <1>4. stages' \in Seq({"discovering", "parsing", "chunking", "building_graph"})
    BY DEF StartChild, Stage, AnalysisInv, AnalysisTypeOK
  <1>5. AnalysisTypeOK'
    BY <1>1, <1>3, <1>4 DEF AnalysisInv, AnalysisTypeOK
  <1>6. ProcessesAwaited' /\ OutcomeOK' /\ PipeOK'
    BY <1>1, <1>3 DEF ProcessesAwaited, OutcomeOK, PipeOK, Parsing
  <1>7. CountsOK'
    <2>1. Discovered' = Discovered
      BY <1>1 DEF Discovered, Of
    <2> QED
      BY <1>1, <1>3, <2>1, DiscoveredFinite DEF CountsOK
  <1>8. QuietOK' /\ ParserFailureExplained'
    BY <1>1 DEF QuietOK, ParserFailureExplained
  <1> QED
    BY <1>5, <1>6, <1>7, <1>8 DEF AnalysisInv

(* The child ends, with the pipe as it is; a worker that is between poll   *)
(* and is_alive is then overtaken.                                         *)
LEMMA CloseStep ==
  ASSUME AnalysisInv, Alive, Close,
         UNCHANGED <<worker, outcome, workspace, tree, git, pipe, stages, late>>,
         Ends \/ (UNCHANGED raced /\ worker # "quiet")
  PROVE  AnalysisInv'
  <1>1. /\ child \in ChildRow /\ child' \in ChildRow /\ child'.pc = "closed" /\ child.pc # "none"
        /\ child'.todo = child.todo /\ child'.parsed = child.parsed
        /\ child'.partial = child.partial /\ child'.skipped = child.skipped
    BY DEF AnalysisInv, AnalysisTypeOK, ChildRow, Close, Alive, Working
  <1>2. raced' \in BOOLEAN /\ (raced => raced') /\ (worker = "quiet" => pipe = <<>> \/ raced')
    BY DEF AnalysisInv, AnalysisTypeOK, Ends
  <1>3. AnalysisTypeOK'
    BY <1>1, <1>2 DEF AnalysisInv, AnalysisTypeOK
  <1>4. ProcessesAwaited' /\ OutcomeOK'
    BY <1>1 DEF AnalysisInv, ProcessesAwaited, OutcomeOK, Alive, Working
  <1>5. PipeOK'
    BY <1>1 DEF AnalysisInv, PipeOK
  <1>6. CountsOK'
    BY <1>1 DEF AnalysisInv, CountsOK, Discovered, Of
  <1>7. QuietOK' /\ ParserFailureExplained'
    BY <1>2 DEF AnalysisInv, QuietOK, ParserFailureExplained
  <1> QED
    BY <1>3, <1>4, <1>5, <1>6, <1>7 DEF AnalysisInv

(* The child sends a message and goes on, or finds the pipe closed.        *)
LEMMA EmitStep ==
  ASSUME AnalysisInv, NEW message \in Messages, NEW next, Working, Emit(message, next),
         UNCHANGED <<worker, outcome, workspace, tree, git, stages, late, raced>>,
         next.pc \in {"chunking", "graphing", "sent"}, next.large \in BOOLEAN,
         next = [child EXCEPT !.pc = next.pc, !.large = next.large],
         next.pc = "chunking" => child.pc = "scanning",
         next.pc = "graphing" => child.pc = "chunking",
         next.pc = "sent" /\ next.large => message = "result",
         message = "result" \/ next.pc # "sent" => child.todo = {}
  PROVE  AnalysisInv'
  <1>1. CASE PipeClosed /\ Close /\ UNCHANGED pipe
    <2>1. worker # "quiet"
      BY <1>1 DEF PipeClosed
    <2> QED
      BY <1>1, <2>1, CloseStep DEF Alive
  <1>2. CASE ~PipeClosed /\ pipe' = Append(pipe, message) /\ child' = next
    <2>1. /\ child \in ChildRow /\ child' \in ChildRow /\ child'.pc = next.pc
          /\ child'.large = next.large
          /\ child'.todo = child.todo /\ child'.parsed = child.parsed
          /\ child'.partial = child.partial /\ child'.skipped = child.skipped
      BY <1>2 DEF AnalysisInv, AnalysisTypeOK, ChildRow
    <2>2. /\ worker \in {"polling", "quiet", "callback"} /\ outcome = "none"
      BY <1>2 DEF AnalysisInv, AnalysisTypeOK, JobOutcomes, OutcomeOK, PipeClosed
    <2>3. pipe \in Seq(Messages)
      BY DEF AnalysisInv, AnalysisTypeOK
    <2>4. /\ pipe' \in Seq(Messages) /\ Len(pipe') = Len(pipe) + 1 /\ pipe' # <<>>
          /\ DOMAIN pipe' = 1 .. Len(pipe) + 1 /\ DOMAIN pipe = 1 .. Len(pipe)
          /\ Len(pipe) \in Nat /\ pipe'[Len(pipe) + 1] = message
          /\ \A i \in 1 .. Len(pipe) : pipe'[i] = pipe[i]
      BY <1>2, <2>3, Sent
    <2>5. /\ child.pc = "scanning" => Len(pipe) = 0
          /\ child.pc = "chunking" => Len(pipe) <= 1
          /\ Len(pipe) <= 2
      BY DEF Working, AnalysisInv, PipeOK
    <2>6. AnalysisTypeOK'
      BY <2>1, <2>4, <2>5 DEF AnalysisInv, AnalysisTypeOK
    <2>7. ProcessesAwaited' /\ OutcomeOK'
      BY <2>1, <2>2 DEF AnalysisInv, ProcessesAwaited, OutcomeOK
    <2>8. PipeOK'
      <3>1. worker' = "callback" => pipe'[1] # "result"
        <4>1. worker = "callback" => Len(pipe) >= 1 /\ pipe[1] # "result"
          BY <2>3 DEF AnalysisInv, PipeOK
        <4> QED
          BY <2>4, <4>1
      <3>2. /\ child'.pc = "chunking" => Len(pipe') <= 1
            /\ child'.pc = "graphing" => Len(pipe') <= 2
        BY <2>1, <2>4, <2>5
      <3>3. child'.pc = "sent" /\ child'.large => pipe'[Len(pipe')] = "result"
        BY <2>1, <2>4
      <3> QED
        BY <2>1, <2>4, <3>1, <3>2, <3>3 DEF PipeOK
    <2>9. CountsOK'
      <3>1. \A i \in DOMAIN pipe' : pipe'[i] = "result" => child'.todo = {}
        <4>1. \A i \in 1 .. Len(pipe) : pipe[i] = "result" => child.todo = {}
          BY <2>4 DEF AnalysisInv, CountsOK
        <4>2. \A i \in DOMAIN pipe' : i \in 1 .. Len(pipe) \/ i = Len(pipe) + 1
          BY <2>4
        <4> QED
          BY <2>1, <2>4, <4>1, <4>2
      <3>2. Discovered' = Discovered
        BY DEF Discovered, Of
      <3> QED
        BY <2>1, <2>2, <3>1, <3>2 DEF AnalysisInv, CountsOK, Working
    <2>10. QuietOK' /\ ParserFailureExplained'
      BY <2>1, <2>2 DEF QuietOK, ParserFailureExplained, Alive, Working
    <2> QED
      BY <2>6, <2>7, <2>8, <2>9, <2>10 DEF AnalysisInv
  <1> QED
    BY <1>1, <1>2 DEF Emit

LEMMA MessageSteps ==
  ASSUME AnalysisInv, EndScan \/ EndChunks \/ SendResult \/ SendError
  PROVE  AnalysisInv'
  <1>1. child \in ChildRow
    BY DEF AnalysisInv, AnalysisTypeOK
  <1>2. CASE EndScan
    <2>1. PICK next : next = [child EXCEPT !.pc = "chunking"]
      OBVIOUS
    <2>2. /\ next.pc = "chunking" /\ next.large \in BOOLEAN
          /\ next = [child EXCEPT !.pc = next.pc, !.large = next.large]
      BY <1>1, <2>1 DEF ChildRow
    <2>3. Emit("chunking", next) /\ "chunking" \in Messages
      BY <1>2, <2>1 DEF EndScan, Messages
    <2> QED
      <3>1. /\ child.pc = "scanning" /\ child.todo = {} /\ Working
            /\ UNCHANGED <<worker, outcome, workspace, tree, git, stages, late, raced>>
        BY <1>2 DEF EndScan, Working
      <3> QED
        BY <2>2, <2>3, <3>1, EmitStep
  <1>3. CASE EndChunks
    <2>1. PICK next : next = [child EXCEPT !.pc = "graphing"]
      OBVIOUS
    <2>2. /\ next.pc = "graphing" /\ next.large \in BOOLEAN
          /\ next = [child EXCEPT !.pc = next.pc, !.large = next.large]
      BY <1>1, <2>1 DEF ChildRow
    <2>3. Emit("graphing", next) /\ "graphing" \in Messages
      BY <1>3, <2>1 DEF EndChunks, Messages
    <2>4. /\ child.pc = "chunking" /\ child.todo = {} /\ Working
          /\ UNCHANGED <<worker, outcome, workspace, tree, git, stages, late, raced>>
      BY <1>3 DEF EndChunks, AnalysisInv, CountsOK, Working
    <2> QED
      BY <2>2, <2>3, <2>4, EmitStep
  <1>4. CASE SendResult
    <2>1. PICK large \in BOOLEAN : Emit("result", [child EXCEPT !.pc = "sent", !.large = large])
      BY <1>4 DEF SendResult
    <2>2. PICK next : next = [child EXCEPT !.pc = "sent", !.large = large]
      OBVIOUS
    <2>3. /\ next.pc = "sent" /\ next.large = large
          /\ next = [child EXCEPT !.pc = next.pc, !.large = next.large]
      BY <1>1, <2>2 DEF ChildRow
    <2>4. Emit("result", next) /\ "result" \in Messages
      BY <2>1, <2>2 DEF Messages
    <2>5. /\ child.pc = "graphing" /\ child.todo = {} /\ Working
          /\ UNCHANGED <<worker, outcome, workspace, tree, git, stages, late, raced>>
      BY <1>4 DEF SendResult, AnalysisInv, CountsOK, Working
    <2> QED
      BY <2>3, <2>4, <2>5, EmitStep
  <1>5. CASE SendError
    <2>1. PICK next : next = [child EXCEPT !.pc = "sent", !.large = FALSE]
      OBVIOUS
    <2>2. /\ next.pc = "sent" /\ next.large = FALSE
          /\ next = [child EXCEPT !.pc = next.pc, !.large = next.large]
      BY <1>1, <2>1 DEF ChildRow
    <2>3. Emit("error", next) /\ "error" \in Messages
      BY <1>5, <2>1 DEF SendError, Messages
    <2> QED
      BY <1>5, <2>2, <2>3, EmitStep DEF SendError
  <1> QED
    BY <1>2, <1>3, <1>4, <1>5

LEMMA ScanFileStep == ASSUME AnalysisInv, NEW f \in Entries, ScanFile(f) PROVE AnalysisInv'
  <1>1. /\ child \in ChildRow /\ child.pc = "scanning" /\ f \in child.todo /\ pipe = <<>>
        /\ child.todo \subseteq Discovered
        /\ child.parsed + child.partial + child.skipped + Cardinality(child.todo)
              = Cardinality(Discovered)
    BY DEF ScanFile, AnalysisInv, AnalysisTypeOK, PipeOK, CountsOK
  <1>2. PICK count \in {"parsed", "partial", "skipped"} : child' = Count(f, count)
    BY DEF ScanFile, Counts
  <1>3. /\ child' \in ChildRow /\ child'.pc = child.pc /\ child'.todo = child.todo \ {f}
        /\ child'.parsed + child'.partial + child'.skipped
              = child.parsed + child.partial + child.skipped + 1
    <2>1. PICK left \in SUBSET Entries : left = child.todo \ {f}
      BY <1>1 DEF ChildRow
    <2>2. CASE count = "parsed"
      <3>1. PICK n \in Nat : n = child.parsed + 1
        BY <1>1 DEF ChildRow
      <3>2. child' = [child EXCEPT !.todo = left, !.parsed = n]
        BY <1>1, <1>2, <2>1, <2>2, <3>1 DEF Count, ChildRow
      <3>3. child' \in ChildRow
        BY <1>1, <3>2 DEF ChildRow
      <3> QED
        BY <1>1, <2>1, <3>1, <3>2, <3>3 DEF ChildRow
    <2>3. CASE count = "partial"
      <3>1. PICK n \in Nat : n = child.partial + 1
        BY <1>1 DEF ChildRow
      <3>2. child' = [child EXCEPT !.todo = left, !.partial = n]
        BY <1>1, <1>2, <2>1, <2>3, <3>1 DEF Count, ChildRow
      <3>3. child' \in ChildRow
        BY <1>1, <3>2 DEF ChildRow
      <3> QED
        BY <1>1, <2>1, <3>1, <3>2, <3>3 DEF ChildRow
    <2>4. CASE count = "skipped"
      <3>1. PICK n \in Nat : n = child.skipped + 1
        BY <1>1 DEF ChildRow
      <3>2. child' = [child EXCEPT !.todo = left, !.skipped = n]
        BY <1>1, <1>2, <2>1, <2>4, <3>1 DEF Count, ChildRow
      <3>3. child' \in ChildRow
        BY <1>1, <3>2 DEF ChildRow
      <3> QED
        BY <1>1, <2>1, <3>1, <3>2, <3>3 DEF ChildRow
    <2> QED
      BY <2>2, <2>3, <2>4
  <1>4. Cardinality(child.todo \ {f}) = Cardinality(child.todo) - 1
        /\ Cardinality(child.todo) \in Nat
    <2>1. IsFiniteSet(child.todo)
      BY <1>1, DiscoveredFinite, FS_Subset
    <2> QED
      BY <1>1, <2>1, FS_RemoveElement, FS_CardinalityType
  <1>5. UNCHANGED <<worker, outcome, workspace, tree, git, pipe, stages, late, raced>>
    BY DEF ScanFile
  <1>6. AnalysisTypeOK'
    BY <1>3, <1>5 DEF AnalysisInv, AnalysisTypeOK
  <1>7. ProcessesAwaited' /\ OutcomeOK' /\ PipeOK'
    BY <1>1, <1>3, <1>5 DEF AnalysisInv, ProcessesAwaited, OutcomeOK, PipeOK, Alive, Working
  <1>8. CountsOK'
    <2>1. Discovered' = Discovered
      BY <1>5 DEF Discovered, Of
    <2>2. /\ child'.todo \subseteq Discovered
          /\ child'.parsed + child'.partial + child'.skipped + Cardinality(child'.todo)
                = Cardinality(Discovered)
      BY <1>1, <1>3, <1>4, DiscoveredFinite DEF ChildRow
    <2>3. outcome # "analyzed"
      BY <1>1 DEF AnalysisInv, CountsOK
    <2> QED
      BY <1>1, <1>3, <1>5, <2>1, <2>2, <2>3 DEF CountsOK
  <1>9. QuietOK' /\ ParserFailureExplained'
    BY <1>1, <1>3, <1>5 DEF QuietOK, ParserFailureExplained
  <1> QED
    BY <1>6, <1>7, <1>8, <1>9 DEF AnalysisInv

(* It exits once what it has sent has gone, or is killed at its CPU limit. *)
LEMMA ChildEndsStep ==
  ASSUME AnalysisInv, ChildExits \/ ChildKilled \/ SignalEnds
  PROVE  AnalysisInv'
  <1>1. CASE ChildExits
    BY <1>1, CloseStep DEF ChildExits, Alive
  <1>2. CASE SignalEnds
    BY <1>2, CloseStep DEF SignalEnds
  <1>3. CASE ChildKilled /\ Working
    BY <1>3, CloseStep DEF ChildKilled, Alive
  <1>4. CASE ChildKilled /\ ~Working
    <2>1. /\ child.pc = "sent" /\ child.large /\ pipe # <<>> /\ pipe[Len(pipe)] = "result"
          /\ pipe' = SubSeq(pipe, 1, Len(pipe) - 1) /\ pipe \in Seq(Messages)
          /\ UNCHANGED <<worker, outcome, workspace, tree, git, stages, late>> /\ Close /\ Ends
      BY <1>4 DEF ChildKilled, AnalysisInv, AnalysisTypeOK, PipeOK
    <2>2. /\ pipe' \in Seq(Messages) /\ Len(pipe') = Len(pipe) - 1
          /\ DOMAIN pipe' = 1 .. Len(pipe) - 1 /\ DOMAIN pipe = 1 .. Len(pipe)
          /\ Len(pipe) \in Nat \ {0} /\ (pipe' # <<>> <=> Len(pipe) > 1)
          /\ \A i \in 1 .. Len(pipe) - 1 : pipe'[i] = pipe[i]
      BY <2>1, CutOff
    <2>3. /\ child \in ChildRow /\ child' \in ChildRow /\ child'.pc = "closed"
          /\ child'.todo = child.todo /\ child'.parsed = child.parsed
          /\ child'.partial = child.partial /\ child'.skipped = child.skipped
      BY <2>1 DEF AnalysisInv, AnalysisTypeOK, ChildRow, Close
    <2>4. raced' \in BOOLEAN /\ (raced => raced') /\ (worker = "quiet" => pipe' = <<>> \/ raced')
      BY <2>1 DEF AnalysisInv, AnalysisTypeOK, Ends
    <2>5. AnalysisTypeOK'
      BY <2>1, <2>2, <2>3, <2>4 DEF AnalysisInv, AnalysisTypeOK
    <2>6. ProcessesAwaited' /\ OutcomeOK'
      BY <2>1, <2>3 DEF AnalysisInv, ProcessesAwaited, OutcomeOK, Alive, Working
    <2>7. PipeOK'
      <3>1. worker = "callback" => pipe' # <<>> /\ pipe'[1] # "result"
        <4>1. worker = "callback" => Len(pipe) > 1 /\ pipe[1] # "result"
          BY <2>1, <2>2 DEF AnalysisInv, PipeOK
        <4> QED
          BY <2>2, <4>1
      <3> QED
        BY <2>1, <2>3, <3>1 DEF PipeOK
    <2>8. CountsOK'
      <3>1. \A i \in DOMAIN pipe' : i \in DOMAIN pipe /\ pipe'[i] = pipe[i]
        BY <2>2
      <3>2. Discovered' = Discovered
        BY <2>1 DEF Discovered, Of
      <3> QED
        BY <2>1, <2>3, <3>1, <3>2 DEF AnalysisInv, CountsOK
    <2>9. QuietOK' /\ ParserFailureExplained'
      <3>1. pipe = <<>> => pipe' = <<>>
        BY <2>1
      <3> QED
        BY <2>1, <2>4, <3>1 DEF AnalysisInv, QuietOK, ParserFailureExplained
    <2> QED
      BY <2>5, <2>6, <2>7, <2>8, <2>9 DEF AnalysisInv
  <1> QED
    BY <1>1, <1>2, <1>3, <1>4

(* The callback takes the message it was of from the pipe.                 *)
LEMMA CallBackStep == ASSUME AnalysisInv, CallBack PROVE AnalysisInv'
  <1>1. /\ worker = "callback" /\ pipe # <<>> /\ pipe' = Tail(pipe) /\ pipe \in Seq(Messages)
        /\ UNCHANGED <<workspace, tree, git, child, late, raced>> /\ outcome = "none"
    BY DEF CallBack, AnalysisInv, AnalysisTypeOK, PipeOK, OutcomeOK
  <1>2. \/ worker' = "polling" /\ outcome' = "none"
        \/ worker' = "closing" /\ outcome' = "lease_lost"
    BY <1>1 DEF CallBack, Concludes
  <1>3. /\ pipe' \in Seq(Messages) /\ Len(pipe') = Len(pipe) - 1
        /\ DOMAIN pipe' = 1 .. Len(pipe) - 1 /\ DOMAIN pipe = 1 .. Len(pipe)
        /\ Len(pipe) \in Nat \ {0} /\ (pipe' # <<>> <=> Len(pipe) > 1)
        /\ \A i \in 1 .. Len(pipe) - 1 : pipe'[i] = pipe[i + 1]
    BY <1>1, Taken
  <1>4. stages' \in Seq({"discovering", "parsing", "chunking", "building_graph"})
    <2>1. PICK stage \in {"chunking", "building_graph"} :
               stages' = Append(stages, stage) \/ stages' = stages
      BY DEF CallBack, Stage
    <2> QED
      BY <2>1 DEF AnalysisInv, AnalysisTypeOK
  <1>5. AnalysisTypeOK'
    BY <1>1, <1>2, <1>3, <1>4 DEF AnalysisInv, AnalysisTypeOK, JobOutcomes
  <1>6. ProcessesAwaited' /\ OutcomeOK'
    BY <1>1, <1>2 DEF AnalysisInv, ProcessesAwaited, OutcomeOK, Alive, Working, Parsing
  <1>7. PipeOK'
    <2>1. child.pc = "sent" /\ child.large /\ pipe' # <<>> => pipe'[Len(pipe')] = "result"
      <3>1. child.pc = "sent" /\ child.large => pipe[Len(pipe)] = "result"
        BY <1>1 DEF AnalysisInv, PipeOK
      <3>2. pipe' # <<>> => pipe'[Len(pipe')] = pipe[Len(pipe)]
        BY <1>3
      <3> QED
        BY <3>1, <3>2
    <2>2. child.pc \notin {"none", "scanning"}
      BY <1>1 DEF AnalysisInv, PipeOK
    <2> QED
      BY <1>1, <1>2, <1>3, <2>1, <2>2 DEF AnalysisInv, PipeOK
  <1>8. CountsOK'
    <2>1. \A i \in DOMAIN pipe' : i + 1 \in DOMAIN pipe /\ pipe'[i] = pipe[i + 1]
      BY <1>3
    <2>2. Discovered' = Discovered
      BY <1>1 DEF Discovered, Of
    <2> QED
      BY <1>1, <1>2, <2>1, <2>2 DEF AnalysisInv, CountsOK
  <1>9. QuietOK' /\ ParserFailureExplained'
    BY <1>2 DEF QuietOK, ParserFailureExplained
  <1> QED
    BY <1>5, <1>6, <1>7, <1>8, <1>9 DEF AnalysisInv

LEMMA InductiveAnalysis == AnalysisSpec => []AnalysisInv
  <1>1. AnalysisInv /\ [AnalysisNext]_analysis => AnalysisInv'
    <2> SUFFICES ASSUME AnalysisInv, [AnalysisNext]_analysis PROVE AnalysisInv'
      OBVIOUS
    <2>1. CASE UNCHANGED analysis
      BY <2>1 DEF analysis, AnalysisInv, AnalysisTypeOK, ProcessesAwaited, OutcomeOK, PipeOK,
           CountsOK, QuietOK, ParserFailureExplained, Alive, Working, Discovered, Of
    <2>2. CASE WorkerStep
      BY <2>2, CloningSteps, WaitingSteps, StartChildStep, CallBackStep DEF WorkerStep
    <2>3. CASE ChildStep
      BY <2>3, ScanFileStep, MessageSteps, ChildEndsStep DEF ChildStep
    <2> QED
      BY <2>1, <2>2, <2>3, CloningSteps, WaitingSteps, GitExitsStep, ChildEndsStep
         DEF AnalysisNext
  <1> QED
    BY InitAnalysis, <1>1, PTL DEF AnalysisSpec

(* The job, its processes, its pipe and its counts keep to their types:    *)
(* the pipe never holds more than three messages.                          *)
THEOREM AnalysisTyped == AnalysisSpec => []AnalysisTypeOK
  <1>1. AnalysisInv => AnalysisTypeOK
    BY DEF AnalysisInv
  <1> QED
    BY <1>1, InductiveAnalysis, PTL

(* The workspace is there as long as git or the parser runs, whichever of  *)
(* them fails, hangs or is killed (the nested finally blocks).             *)
THEOREM WorkspaceCorrect == AnalysisSpec => []ReadersHaveWorkspace
  <1>1. AnalysisInv => ReadersHaveWorkspace
    BY DEF AnalysisInv, ProcessesAwaited, ReadersHaveWorkspace, Alive, Working
  <1> QED
    BY <1>1, InductiveAnalysis, PTL

(* A job that has ended leaves no process, and a workspace only with the   *)
(* error that says so.                                                     *)
THEOREM NothingLeft == AnalysisSpec => []JobLeavesNothing
  <1>1. AnalysisInv => JobLeavesNothing
    BY DEF AnalysisInv, ProcessesAwaited, JobLeavesNothing
  <1> QED
    BY <1>1, InductiveAnalysis, PTL

(* What the worker is told of the parsing is what the child came to: every *)
(* discovered file is counted once in an accepted result, and a failure is *)
(* reported only if nothing was left to receive or the child was           *)
(* overtaken between poll and is_alive.                                    *)
THEOREM ParsingCorrect == AnalysisSpec => []ParsingReported
  <1>1. AnalysisInv => ParsingReported
    <2> SUFFICES ASSUME AnalysisInv PROVE EveryFileCounted
      BY DEF AnalysisInv, ParsingReported
    <2>1. CASE outcome = "analyzed"
      <3>1. child.todo = {} /\ child.pc # "none" /\ child \in ChildRow
        BY <2>1 DEF AnalysisInv, CountsOK, AnalysisTypeOK
      <3>2. child.parsed + child.partial + child.skipped + Cardinality(child.todo)
              = Cardinality(Discovered)
        BY <3>1 DEF AnalysisInv, CountsOK
      <3>3. Cardinality(child.todo) = 0
        BY <3>1, FS_EmptySet
      <3> QED
        BY <3>1, <3>2, <3>3 DEF EveryFileCounted, Discovered, ChildRow
    <2> QED
      BY <2>1 DEF EveryFileCounted
  <1> QED
    BY <1>1, InductiveAnalysis, PTL

-----------------------------------------------------------------------------
(* The four components side by side.                                       *)
(* Requests stay well formed: each of the four steps by itself, and the    *)
(* others rest meanwhile (MCRequests).                                     *)
THEOREM RequestsTyped == MCFairSpec => []RequestsTypeOK
  <1>1. MCInit => Init /\ ProviderInit /\ SessionsInit /\ AnalysisInit
    BY DEF MCInit
  <1>2. [MCNext]_parts =>
          /\ [Next]_vars /\ [ProviderNext]_provider /\ [SessionsNext]_sessions
          /\ [AnalysisNext]_analysis
    BY DEF MCNext, parts, QuestionsPart, ProviderPart, SessionsPart, AnalysisPart
  <1>3. MCFairSpec => Spec /\ ProviderSpec /\ SessionsSpec /\ AnalysisSpec
    BY <1>1, <1>2, PTL DEF MCFairSpec, Spec, ProviderSpec, SessionsSpec, AnalysisSpec
  <1>4. TypeOK /\ ProviderTypeOK /\ SessionsTypeOK /\ AnalysisTypeOK => RequestsTypeOK
    BY DEF RequestsTypeOK
  <1> QED
    BY <1>3, <1>4, RunsTyped, ProviderTyped, SessionsTyped, AnalysisTyped, PTL
=============================================================================
