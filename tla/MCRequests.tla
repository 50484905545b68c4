------------------------------ MODULE MCRequests ------------------------------
(***************************************************************************)
(* Instances of the components whose requests must end, for TLC: one run   *)
(* checks them side by side, each in behaviours of its own.  (They share   *)
(* no state: a behaviour chooses its part and the others stay as they      *)
(* begin, where none of their fair actions is enabled.)                    *)
(***************************************************************************)
EXTENDS QuestionAgent, ProviderCalls, RefreshTokens, StaticAnalysis, TLC

VARIABLE part

parts == <<part, vars, provider, sessions, analysis>>

MCInit ==
    /\ part \in {"questions", "provider", "sessions", "analysis"}
    /\ Init /\ ProviderInit /\ SessionsInit /\ AnalysisInit
    /\ part # "questions" => mode = "public"

(* Jobs are interchangeable for a question, so one of them always          *)
(* publishes first; liveness is checked without symmetry.                  *)
FirstJobFirst == published # <<>> => published[1].job = CHOOSE j \in Jobs : TRUE

QuestionsPart ==
    /\ part = "questions" /\ Next /\ UNCHANGED <<part, provider, sessions, analysis>>
    /\ FirstJobFirst'

ProviderPart == part = "provider" /\ ProviderNext /\ UNCHANGED <<part, vars, sessions, analysis>>
SessionsPart == part = "sessions" /\ SessionsNext /\ UNCHANGED <<part, vars, provider, analysis>>
AnalysisPart == part = "analysis" /\ AnalysisNext /\ UNCHANGED <<part, vars, provider, sessions>>

MCNext == QuestionsPart \/ ProviderPart \/ SessionsPart \/ AnalysisPart

MCFairSpec ==
    /\ MCInit /\ [][MCNext]_parts
    /\ \A q \in Questions : WF_vars(Step(q) /\ Observe)
    /\ ProviderFairness /\ SessionsFairness /\ AnalysisFairness

-----------------------------------------------------------------------------
(* The four components stay well formed.                                   *)
RequestsTypeOK == TypeOK /\ ProviderTypeOK /\ SessionsTypeOK /\ AnalysisTypeOK

(* Whoever waits is answered: a run's loop ends by itself (_run), a call   *)
(* that waits for a slot while others retry ends (_request_with_retry), a  *)
(* page that loads learns whether there is a session although others lock  *)
(* its rows (rotate_refresh_token), and a job leaves its checkout though   *)
(* git and the parser may hang (clone, analyze).                           *)
RequestsEnd == LoopEnds /\ ModelCallsEnd /\ LoadsSettle /\ AnalysisEnds
=============================================================================
