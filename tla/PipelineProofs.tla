--------------------------- MODULE PipelineProofs ---------------------------
(***************************************************************************)
(* The safety properties of Pipeline hold for every replan and recursion   *)
(* limit and every set of flags. IInv is inductive: one lemma per action,  *)
(* whose steps are the types, the count of supersteps and the decisions.   *)
(***************************************************************************)
EXTENDS Pipeline, TLAPS

(* A superstep is counted, and there is one left to count.                 *)
LEMMA Counting ==
  ASSUME IInv, NEW from, NEW to, Superstep(from, to)
  PROVE  /\ steps \in Nat /\ replans \in Nat /\ steps <= RecursionLimit
         /\ steps' = steps + 1
         /\ steps' \in 0 .. RecursionLimit
BY LimitsAssumption DEF IInv, TypeOK, Superstep

(* Intake finds the role; the path may only now become the LLM's.          *)
LEMMA IntakeStep == ASSUME IInv, Intake PROVE IInv'
<1>1. /\ steps \in Nat /\ replans \in Nat /\ steps <= RecursionLimit
      /\ steps' = steps + 1 /\ steps' \in 0 .. RecursionLimit
  BY Counting DEF Intake
<1>2. TypeOK'
  BY <1>1 DEF IInv, TypeOK, Intake, Superstep, plan, verdict, outcome,
       GraphStages, RouterStages, Over, Agents, Levels, Roles, Texts, Answers
<1>3. StepsInv'
  BY <1>1, LimitsAssumption DEF IInv, StepsInv, Within, RouterStages, Over,
       Intake, Superstep, plan
<1>4. DecisionInv'
  BY DEF IInv, DecisionInv, NothingYet, LevelInv, RouteInv, HeldIsNotSent,
       WithheldIsAccountedFor, SevereIsNotSent, AnswerIsGrounded, Intake,
       Superstep, plan, verdict, outcome, Planning, Judging, Markers,
       RouterStages, Over, GraphStages, Path, Required, TypeOK, Roles
<1> QED BY <1>2, <1>3, <1>4 DEF IInv

(* The recursion limit ends the run where nothing is decided yet.          *)
LEMMA RecursionErrorStep == ASSUME IInv, RecursionError PROVE IInv'
<1>1. TypeOK'
  BY DEF IInv, TypeOK, RecursionError, plan, verdict, outcome, GraphStages,
       RouterStages, Over, Agents, Levels, Roles, Texts, Answers
<1>2. StepsInv'
  BY LimitsAssumption DEF IInv, TypeOK, StepsInv, Within, Path, GraphStages,
       RouterStages, Over, RecursionError, plan
<1>3. DecisionInv'
  BY DEF IInv, DecisionInv, NothingYet, LevelInv, RouteInv, HeldIsNotSent,
       WithheldIsAccountedFor, SevereIsNotSent, AnswerIsGrounded,
       RecursionError, plan, verdict, outcome, Planning, Judging, Markers,
       RouterStages, Over, GraphStages
<1> QED BY <1>1, <1>2, <1>3 DEF IInv

(* The deterministic paths issue the tasks that lack a result.             *)
LEMMA AskRequiredStep == ASSUME IInv, AskRequired PROVE IInv'
<1>1. /\ steps \in Nat /\ replans \in Nat /\ steps <= RecursionLimit
      /\ steps' = steps + 1 /\ steps' \in 0 .. RecursionLimit
  BY Counting DEF AskRequired
<1>2. TypeOK'
  <2>1. replans' \in Nat BY <1>1 DEF AskRequired
  <2>2. tasks' \subseteq Agents /\ results' \subseteq Agents /\ completed' \subseteq Agents
    BY DEF IInv, TypeOK, AskRequired, Required, FanOut, Agents
  <2> QED
    BY <1>1, <2>1, <2>2 DEF IInv, TypeOK, AskRequired, Superstep, verdict,
         outcome, GraphStages
<1>3. StepsInv'
  BY DEF StepsInv, AskRequired, Superstep, Path, Required
<1>4. DecisionInv'
  BY DEF IInv, DecisionInv, NothingYet, LevelInv, RouteInv, HeldIsNotSent,
       WithheldIsAccountedFor, SevereIsNotSent, AnswerIsGrounded, AskRequired,
       Superstep, FanOut, Required, plan, verdict, outcome, Planning, Judging,
       Markers, RouterStages, Over, GraphStages, Path, TypeOK, Roles
<1> QED BY <1>2, <1>3, <1>4 DEF IInv

(* They go on when every required result is there.                         *)
LEMMA RequiredAnsweredStep == ASSUME IInv, RequiredAnswered PROVE IInv'
<1>1. /\ steps \in Nat /\ replans \in Nat /\ steps <= RecursionLimit
      /\ steps' = steps + 1 /\ steps' \in 0 .. RecursionLimit
  BY Counting DEF RequiredAnswered
<1>2. TypeOK'
  BY <1>1 DEF IInv, TypeOK, RequiredAnswered, Superstep, Required, plan,
       verdict, outcome, GraphStages, RouterStages, Over, Agents, Levels,
       Roles, Texts, Answers
<1>3. StepsInv'
  <2>1. Path' = Path
    BY DEF Path, RequiredAnswered, plan
  <2>2. ASSUME Path = "llm"
        PROVE  replans' <= MaxReplanCycles /\ steps' <= 2 + 2 * replans'
    <3>1. replans <= MaxReplanCycles /\ steps <= 1 + 2 * replans
      BY <2>2 DEF IInv, StepsInv, Within, RequiredAnswered, Superstep
    <3>2. replans' = replans
      BY DEF RequiredAnswered, plan
    <3> QED BY <1>1, <3>1, <3>2, LimitsAssumption
  <2> QED
    BY <2>1, <2>2 DEF StepsInv, Within, RouterStages, Over, RequiredAnswered,
         Superstep
<1>4. DecisionInv'
  BY DEF IInv, DecisionInv, NothingYet, LevelInv, RouteInv, HeldIsNotSent,
       WithheldIsAccountedFor, SevereIsNotSent, AnswerIsGrounded,
       RequiredAnswered, Superstep, Required, plan, verdict, outcome, Planning,
       Judging, Markers, RouterStages, Over, GraphStages, Path, TypeOK, Roles
<1> QED BY <1>2, <1>3, <1>4 DEF IInv

(* The replan limit forces a reply on the LLM path only.                   *)
LEMMA ForceReplyStep == ASSUME IInv, ForceReply PROVE IInv'
<1>1. /\ steps \in Nat /\ replans \in Nat /\ steps <= RecursionLimit
      /\ steps' = steps + 1 /\ steps' \in 0 .. RecursionLimit
  BY Counting DEF ForceReply
<1>2. TypeOK'
  BY <1>1 DEF IInv, TypeOK, ForceReply, Superstep, plan, verdict, outcome,
       GraphStages, RouterStages, Over, Agents, Levels, Roles, Texts, Answers
<1>3. StepsInv'
  <2>1. Path' = Path
    BY DEF Path, ForceReply, plan
  <2>2. ASSUME Path = "llm"
        PROVE  replans' <= MaxReplanCycles /\ steps' <= 2 + 2 * replans'
    <3>1. replans <= MaxReplanCycles /\ steps <= 1 + 2 * replans
      BY <2>2 DEF IInv, StepsInv, Within, ForceReply, Superstep
    <3>2. replans' = replans
      BY DEF ForceReply, plan
    <3> QED BY <1>1, <3>1, <3>2, LimitsAssumption
  <2> QED
    BY <2>1, <2>2 DEF StepsInv, Within, RouterStages, Over, ForceReply,
         Superstep
<1>4. DecisionInv'
  BY DEF IInv, DecisionInv, NothingYet, LevelInv, RouteInv, HeldIsNotSent,
       WithheldIsAccountedFor, SevereIsNotSent, AnswerIsGrounded, ForceReply,
       Superstep, plan, verdict, outcome, Planning, Judging, Markers,
       RouterStages, Over, GraphStages, Path, Required, TypeOK, Roles
<1> QED BY <1>2, <1>3, <1>4 DEF IInv

(* The LLM supervisor goes to the reply.                                   *)
LEMMA LlmRepliesNowStep == ASSUME IInv, LlmRepliesNow PROVE IInv'
<1>1. /\ steps \in Nat /\ replans \in Nat /\ steps <= RecursionLimit
      /\ steps' = steps + 1 /\ steps' \in 0 .. RecursionLimit
  BY Counting DEF LlmRepliesNow
<1>2. TypeOK'
  <2>1. replans' \in Nat BY <1>1 DEF LlmRepliesNow
  <2>2. tasks' \subseteq Agents /\ results' \subseteq Agents /\ completed' \subseteq Agents
    BY DEF IInv, TypeOK, LlmRepliesNow
  <2> QED
    BY <1>1, <2>1, <2>2 DEF IInv, TypeOK, LlmRepliesNow, Superstep, verdict,
         outcome, GraphStages
<1>3. StepsInv'
  <2>1. Path' = Path
    BY DEF Path, LlmRepliesNow
  <2>2. ASSUME Path = "llm"
        PROVE  replans' <= MaxReplanCycles /\ steps' <= 2 + 2 * replans'
    <3>1. replans <= MaxReplanCycles /\ steps <= 1 + 2 * replans
      BY <2>2 DEF IInv, StepsInv, Within, LlmRepliesNow, Superstep
    <3>2. (replans' = replans \/ replans' = replans + 1) /\ ~(replans >= MaxReplanCycles)
      BY DEF LlmRepliesNow, LimitReached, plan
    <3> QED BY <1>1, <3>1, <3>2, LimitsAssumption
  <2> QED
    BY <2>1, <2>2 DEF StepsInv, Within, RouterStages, Over, LlmRepliesNow,
         Superstep
<1>4. DecisionInv'
  BY DEF IInv, DecisionInv, NothingYet, LevelInv, RouteInv, HeldIsNotSent,
       WithheldIsAccountedFor, SevereIsNotSent, AnswerIsGrounded,
       LlmRepliesNow, Superstep, LimitReached, plan, verdict, outcome,
       Planning, Judging, Markers, RouterStages, Over, GraphStages, Path,
       Required, TypeOK, Roles
<1> QED BY <1>2, <1>3, <1>4 DEF IInv

(* The LLM supervisor pays for a fan-out with a replan.                    *)
LEMMA LlmPlansStep == ASSUME IInv, LlmPlans PROVE IInv'
<1>1. /\ steps \in Nat /\ replans \in Nat /\ steps <= RecursionLimit
      /\ steps' = steps + 1 /\ steps' \in 0 .. RecursionLimit
  BY Counting DEF LlmPlans
<1>2. TypeOK'
  <2>1. replans' \in Nat BY <1>1 DEF LlmPlans
  <2>2. tasks' \subseteq Agents /\ results' \subseteq Agents /\ completed' \subseteq Agents
    BY DEF IInv, TypeOK, LlmPlans, FanOut
  <2> QED
    BY <1>1, <2>1, <2>2 DEF IInv, TypeOK, LlmPlans, Superstep, verdict,
         outcome, GraphStages
<1>3. StepsInv'
  <2>1. Path' = Path
    BY DEF Path, LlmPlans
  <2>2. ASSUME Path = "llm"
        PROVE  replans' <= MaxReplanCycles /\ steps' <= 0 + 2 * replans'
    <3>1. replans <= MaxReplanCycles /\ steps <= 1 + 2 * replans
      BY <2>2 DEF IInv, StepsInv, Within, LlmPlans, Superstep
    <3>2. replans' = replans + 1 /\ replans < MaxReplanCycles
      BY <1>1, LimitsAssumption DEF LlmPlans, LimitReached, plan
    <3> QED BY <1>1, <3>1, <3>2, LimitsAssumption
  <2> QED
    BY <2>1, <2>2 DEF StepsInv, Within, RouterStages, Over, LlmPlans, Superstep
<1>4. DecisionInv'
  BY DEF IInv, DecisionInv, NothingYet, LevelInv, RouteInv, HeldIsNotSent,
       WithheldIsAccountedFor, SevereIsNotSent, AnswerIsGrounded, LlmPlans,
       Superstep, FanOut, LimitReached, plan, verdict, outcome, Planning,
       Judging, Markers, RouterStages, Over, GraphStages
<1> QED BY <1>2, <1>3, <1>4 DEF IInv

(* An LLM error ends the run.                                              *)
LEMMA LlmFailsStep == ASSUME IInv, LlmFails PROVE IInv'
<1>1. TypeOK'
  BY DEF IInv, TypeOK, LlmFails, plan, verdict, outcome, GraphStages,
       RouterStages, Over, Agents, Levels, Roles, Texts, Answers
<1>2. StepsInv'
  BY LimitsAssumption DEF IInv, TypeOK, StepsInv, Within, Path, GraphStages,
       RouterStages, Over, LlmFails, plan
<1>3. DecisionInv'
  BY DEF IInv, DecisionInv, NothingYet, LevelInv, RouteInv, HeldIsNotSent,
       WithheldIsAccountedFor, SevereIsNotSent, AnswerIsGrounded, LlmFails,
       plan, verdict, outcome, Planning, Judging, Markers, RouterStages, Over,
       GraphStages
<1> QED BY <1>1, <1>2, <1>3 DEF IInv

(* A sub-agent returns a result.                                           *)
LEMMA AgentCompletesStep == ASSUME IInv, NEW a \in Agents, AgentCompletes(a) PROVE IInv'
<1>1. TypeOK'
  BY DEF IInv, TypeOK, AgentCompletes, plan, verdict, outcome
<1>2. StepsInv'
  BY DEF IInv, StepsInv, Within, Path, RouterStages, Over, AgentCompletes, plan
<1>3. DecisionInv'
  BY DEF IInv, DecisionInv, NothingYet, LevelInv, RouteInv, HeldIsNotSent,
       WithheldIsAccountedFor, SevereIsNotSent, AnswerIsGrounded,
       AgentCompletes, plan, verdict, outcome, Planning, Judging, Markers,
       RouterStages, Over, GraphStages
<1> QED BY <1>1, <1>2, <1>3 DEF IInv

(* A sub-agent fails.                                                      *)
LEMMA AgentFailsStep == ASSUME IInv, NEW a \in Agents, AgentFails(a) PROVE IInv'
<1>1. TypeOK'
  BY DEF IInv, TypeOK, AgentFails, plan, verdict, outcome
<1>2. StepsInv'
  BY DEF IInv, StepsInv, Within, Path, RouterStages, Over, AgentFails, plan
<1>3. DecisionInv'
  BY DEF IInv, DecisionInv, NothingYet, LevelInv, RouteInv, HeldIsNotSent,
       WithheldIsAccountedFor, SevereIsNotSent, AnswerIsGrounded, AgentFails,
       plan, verdict, outcome, Planning, Judging, Markers, RouterStages, Over,
       GraphStages
<1> QED BY <1>1, <1>2, <1>3 DEF IInv

(* The results are merged.                                                 *)
LEMMA FanInStep == ASSUME IInv, FanIn PROVE IInv'
<1>1. /\ steps \in Nat /\ replans \in Nat /\ steps <= RecursionLimit
      /\ steps' = steps + 1 /\ steps' \in 0 .. RecursionLimit
  BY Counting DEF FanIn
<1>2. TypeOK'
  BY <1>1 DEF IInv, TypeOK, FanIn, Superstep, plan, verdict, outcome,
       GraphStages, RouterStages, Over, Agents, Levels, Roles, Texts, Answers
<1>3. StepsInv'
  <2>1. Path' = Path
    BY DEF Path, FanIn
  <2>2. ASSUME Path = "llm"
        PROVE  replans' <= MaxReplanCycles /\ steps' <= 1 + 2 * replans'
    <3>1. replans <= MaxReplanCycles /\ steps <= 0 + 2 * replans
      BY <2>2 DEF IInv, StepsInv, Within, FanIn, Superstep
    <3>2. replans' = replans
      BY DEF FanIn, plan
    <3> QED BY <1>1, <3>1, <3>2, LimitsAssumption
  <2> QED
    BY <2>1, <2>2 DEF StepsInv, Within, RouterStages, Over, FanIn, Superstep
<1>4. DecisionInv'
  BY DEF IInv, DecisionInv, NothingYet, LevelInv, RouteInv, HeldIsNotSent,
       WithheldIsAccountedFor, SevereIsNotSent, AnswerIsGrounded, FanIn,
       Superstep, plan, verdict, outcome, Planning, Judging, Markers,
       RouterStages, Over, GraphStages
<1> QED BY <1>2, <1>3, <1>4 DEF IInv

(* The reply agent writes a draft or the fallback.                         *)
LEMMA ReplyStep == ASSUME IInv, Reply PROVE IInv'
<1>1. /\ steps \in Nat /\ replans \in Nat /\ steps <= RecursionLimit
      /\ steps' = steps + 1 /\ steps' \in 0 .. RecursionLimit
  BY Counting DEF Reply
<1>2. TypeOK'
  BY <1>1 DEF IInv, TypeOK, Reply, Superstep, plan, verdict, outcome,
       GraphStages, RouterStages, Over, Agents, Levels, Roles, Texts, Answers
<1>3. StepsInv'
  <2>1. Path' = Path
    BY DEF Path, Reply, plan
  <2>2. ASSUME Path = "llm"
        PROVE  replans' <= MaxReplanCycles /\ steps' <= 3 + 2 * replans'
    <3>1. replans <= MaxReplanCycles /\ steps <= 2 + 2 * replans
      BY <2>2 DEF IInv, StepsInv, Within, Reply, Superstep
    <3>2. replans' = replans
      BY DEF Reply, plan
    <3> QED BY <1>1, <3>1, <3>2, LimitsAssumption
  <2> QED
    BY <2>1, <2>2 DEF StepsInv, Within, RouterStages, Over, Reply, Superstep
<1>4. DecisionInv'
  BY DEF IInv, DecisionInv, NothingYet, LevelInv, RouteInv, HeldIsNotSent,
       WithheldIsAccountedFor, SevereIsNotSent, AnswerIsGrounded, Reply,
       Superstep, plan, verdict, outcome, Planning, Judging, Markers,
       RouterStages, Over, GraphStages
<1> QED BY <1>2, <1>3, <1>4 DEF IInv

(* The approval rules flag the reply.                                      *)
LEMMA ApprovalRulesStep == ASSUME IInv, ApprovalRules PROVE IInv'
<1>1. /\ steps \in Nat /\ replans \in Nat /\ steps <= RecursionLimit
      /\ steps' = steps + 1 /\ steps' \in 0 .. RecursionLimit
  BY Counting DEF ApprovalRules
<1>2. TypeOK'
  BY <1>1 DEF IInv, TypeOK, ApprovalRules, Superstep, plan, verdict, outcome,
       GraphStages, RouterStages, Over, Agents, Levels, Roles, Texts, Answers
<1>3. StepsInv'
  <2>1. Path' = Path
    BY DEF Path, ApprovalRules, plan
  <2>2. ASSUME Path = "llm"
        PROVE  replans' <= MaxReplanCycles /\ steps' <= 4 + 2 * replans'
    <3>1. replans <= MaxReplanCycles /\ steps <= 3 + 2 * replans
      BY <2>2 DEF IInv, StepsInv, Within, ApprovalRules, Superstep
    <3>2. replans' = replans
      BY DEF ApprovalRules, plan
    <3> QED BY <1>1, <3>1, <3>2, LimitsAssumption
  <2> QED
    BY <2>1, <2>2 DEF StepsInv, Within, RouterStages, Over, ApprovalRules,
         Superstep
<1>4. DecisionInv'
  BY DEF IInv, DecisionInv, NothingYet, LevelInv, RouteInv, HeldIsNotSent,
       WithheldIsAccountedFor, SevereIsNotSent, AnswerIsGrounded,
       ApprovalRules, Superstep, plan, verdict, outcome, Planning, Judging,
       Markers, RouterStages, Over, GraphStages
<1> QED BY <1>2, <1>3, <1>4 DEF IInv

(* The level and requires_approval agree, and a severe flag keeps both.    *)
LEMMA RiskStep == ASSUME IInv, Risk PROVE IInv'
<1>1. /\ steps \in Nat /\ replans \in Nat /\ steps <= RecursionLimit
      /\ steps' = steps + 1 /\ steps' \in 0 .. RecursionLimit
  BY Counting DEF Risk
<1>2. TypeOK'
  <2>1. flags' \subseteq Flags BY DEF IInv, TypeOK, Risk, FlagsFound
  <2>2. riskLevel' \in Levels /\ requiresApproval' \in BOOLEAN
    BY DEF Risk, SecondPass, Levels, Level
  <2> QED
    BY <1>1, <2>1, <2>2 DEF IInv, TypeOK, Risk, Superstep, plan, outcome,
         GraphStages
<1>3. StepsInv'
  <2>1. Path' = Path
    BY DEF Path, Risk, plan
  <2>2. ASSUME Path = "llm"
        PROVE  replans' <= MaxReplanCycles /\ steps' <= 5 + 2 * replans'
    <3>1. replans <= MaxReplanCycles /\ steps <= 4 + 2 * replans
      BY <2>2 DEF IInv, StepsInv, Within, Risk, Superstep
    <3>2. replans' = replans
      BY DEF Risk, plan
    <3> QED BY <1>1, <3>1, <3>2, LimitsAssumption
  <2> QED
    BY <2>1, <2>2 DEF StepsInv, Within, RouterStages, Over, Risk, Superstep
<1>4. DecisionInv'
  BY FlagsAssumption DEF IInv, DecisionInv, NothingYet, LevelInv, RouteInv,
       HeldIsNotSent, WithheldIsAccountedFor, SevereIsNotSent,
       AnswerIsGrounded, Risk, Superstep, plan, verdict, outcome, Planning,
       Judging, Markers, RouterStages, Over, GraphStages, FlagsFound,
       SecondPass, Level, LowConfidence, Levels
<1> QED BY <1>2, <1>3, <1>4 DEF IInv

(* The router goes by either field.                                        *)
LEMMA RouteAfterRiskStep == ASSUME IInv, RouteAfterRisk PROVE IInv'
<1>1. TypeOK'
  BY DEF IInv, TypeOK, RouteAfterRisk, MustHold, plan, verdict, outcome,
       GraphStages, RouterStages, Over, Agents, Levels, Roles, Texts, Answers
<1>2. StepsInv'
  BY LimitsAssumption DEF IInv, TypeOK, StepsInv, Within, Path, GraphStages,
       RouterStages, Over, RouteAfterRisk, plan
<1>3. DecisionInv'
  BY DEF IInv, DecisionInv, NothingYet, LevelInv, RouteInv, HeldIsNotSent,
       WithheldIsAccountedFor, SevereIsNotSent, AnswerIsGrounded,
       RouteAfterRisk, MustHold, plan, verdict, outcome, Planning, Judging,
       Markers, RouterStages, Over, GraphStages
<1> QED BY <1>1, <1>2, <1>3 DEF IInv

(* The reply is held, or the marker says that it is not.                   *)
LEMMA HoldForApprovalStep == ASSUME IInv, HoldForApproval PROVE IInv'
<1>1. /\ steps \in Nat /\ replans \in Nat /\ steps <= RecursionLimit
      /\ steps' = steps + 1 /\ steps' \in 0 .. RecursionLimit
  BY Counting DEF HoldForApproval
<1>2. TypeOK'
  BY <1>1 DEF IInv, TypeOK, HoldForApproval, Superstep, plan, verdict, outcome,
       GraphStages, RouterStages, Over, Agents, Levels, Roles, Texts, Answers
<1>3. StepsInv'
  <2>1. Path' = Path
    BY DEF Path, HoldForApproval, plan
  <2>2. ASSUME Path = "llm"
        PROVE  replans' <= MaxReplanCycles /\ steps' <= 6 + 2 * replans'
    <3>1. replans <= MaxReplanCycles /\ steps <= 5 + 2 * replans
      BY <2>2 DEF IInv, StepsInv, Within, HoldForApproval, Superstep
    <3>2. replans' = replans
      BY DEF HoldForApproval, plan
    <3> QED BY <1>1, <3>1, <3>2, LimitsAssumption
  <2> QED
    BY <2>1, <2>2 DEF StepsInv, Within, RouterStages, Over, HoldForApproval,
         Superstep
<1>4. DecisionInv'
  BY DEF IInv, DecisionInv, NothingYet, LevelInv, RouteInv, HeldIsNotSent,
       WithheldIsAccountedFor, SevereIsNotSent, AnswerIsGrounded,
       HoldForApproval, Superstep, plan, verdict, outcome, Planning, Judging,
       Markers, RouterStages, Over, GraphStages
<1> QED BY <1>2, <1>3, <1>4 DEF IInv

(* Memory is updated for a reply that nobody has to approve.               *)
LEMMA MemoryUpdateStep == ASSUME IInv, MemoryUpdate PROVE IInv'
<1>1. /\ steps \in Nat /\ replans \in Nat /\ steps <= RecursionLimit
      /\ steps' = steps + 1 /\ steps' \in 0 .. RecursionLimit
  BY Counting DEF MemoryUpdate
<1>2. TypeOK'
  BY <1>1 DEF IInv, TypeOK, MemoryUpdate, Superstep, plan, verdict, outcome,
       GraphStages, RouterStages, Over, Agents, Levels, Roles, Texts, Answers
<1>3. StepsInv'
  <2>1. Path' = Path
    BY DEF Path, MemoryUpdate, plan
  <2>2. ASSUME Path = "llm"
        PROVE  replans' <= MaxReplanCycles /\ steps' <= 6 + 2 * replans'
    <3>1. replans <= MaxReplanCycles /\ steps <= 5 + 2 * replans
      BY <2>2 DEF IInv, StepsInv, Within, MemoryUpdate, Superstep
    <3>2. replans' = replans
      BY DEF MemoryUpdate, plan
    <3> QED BY <1>1, <3>1, <3>2, LimitsAssumption
  <2> QED
    BY <2>1, <2>2 DEF StepsInv, Within, RouterStages, Over, MemoryUpdate,
         Superstep
<1>4. DecisionInv'
  BY DEF IInv, DecisionInv, NothingYet, LevelInv, RouteInv, HeldIsNotSent,
       WithheldIsAccountedFor, SevereIsNotSent, AnswerIsGrounded, MemoryUpdate,
       Superstep, plan, verdict, outcome, Planning, Judging, Markers,
       RouterStages, Over, GraphStages
<1> QED BY <1>2, <1>3, <1>4 DEF IInv

(* A reply to be approved is not delivered.                                *)
LEMMA AnswerUnderReviewStep == ASSUME IInv, AnswerUnderReview PROVE IInv'
<1>1. TypeOK'
  BY DEF IInv, TypeOK, AnswerUnderReview, plan, verdict, outcome, GraphStages,
       RouterStages, Over, Agents, Levels, Roles, Texts, Answers
<1>2. StepsInv'
  BY DEF IInv, StepsInv, Within, Path, RouterStages, Over, AnswerUnderReview,
       plan
<1>3. DecisionInv'
  BY DEF IInv, DecisionInv, NothingYet, LevelInv, RouteInv, HeldIsNotSent,
       WithheldIsAccountedFor, SevereIsNotSent, AnswerIsGrounded,
       AnswerUnderReview, plan, verdict, outcome, Planning, Judging, Markers,
       RouterStages, Over, GraphStages
<1> QED BY <1>1, <1>2, <1>3 DEF IInv

(* A reply nobody has to approve is saved,                                 *)
LEMMA SaveOutboundStep == ASSUME IInv, SaveOutbound PROVE IInv'
<1>1. TypeOK'
  BY DEF IInv, TypeOK, SaveOutbound, plan, verdict, outcome, GraphStages,
       RouterStages, Over, Agents, Levels, Roles, Texts, Answers
<1>2. StepsInv'
  BY DEF IInv, StepsInv, Within, Path, RouterStages, Over, SaveOutbound, plan
<1>3. DecisionInv'
  BY DEF IInv, DecisionInv, NothingYet, LevelInv, RouteInv, HeldIsNotSent,
       WithheldIsAccountedFor, SevereIsNotSent, AnswerIsGrounded, SaveOutbound,
       plan, verdict, outcome, Planning, Judging, Markers, RouterStages, Over,
       GraphStages
<1> QED BY <1>1, <1>2, <1>3 DEF IInv

(* sent                                                                    *)
LEMMA SendTelegramStep == ASSUME IInv, SendTelegram PROVE IInv'
<1>1. TypeOK'
  BY DEF IInv, TypeOK, SendTelegram, plan, verdict, outcome, GraphStages,
       RouterStages, Over, Agents, Levels, Roles, Texts, Answers
<1>2. StepsInv'
  BY DEF IInv, StepsInv, Within, Path, RouterStages, Over, SendTelegram, plan
<1>3. DecisionInv'
  BY DEF IInv, DecisionInv, NothingYet, LevelInv, RouteInv, HeldIsNotSent,
       WithheldIsAccountedFor, SevereIsNotSent, AnswerIsGrounded, SendTelegram,
       plan, verdict, outcome, Planning, Judging, Markers, RouterStages, Over,
       GraphStages
<1> QED BY <1>1, <1>2, <1>3 DEF IInv

(* and recorded as auto_sent.                                              *)
LEMMA RecordAutoSentStep == ASSUME IInv, RecordAutoSent PROVE IInv'
<1>1. TypeOK'
  BY DEF IInv, TypeOK, RecordAutoSent, plan, verdict, outcome, GraphStages,
       RouterStages, Over, Agents, Levels, Roles, Texts, Answers
<1>2. StepsInv'
  BY DEF IInv, StepsInv, Within, Path, RouterStages, Over, RecordAutoSent, plan
<1>3. DecisionInv'
  BY DEF IInv, DecisionInv, NothingYet, LevelInv, RouteInv, HeldIsNotSent,
       WithheldIsAccountedFor, SevereIsNotSent, AnswerIsGrounded,
       RecordAutoSent, plan, verdict, outcome, Planning, Judging, Markers,
       RouterStages, Over, GraphStages
<1> QED BY <1>1, <1>2, <1>3 DEF IInv

(* The caller is answered when nothing is delivered or a step fails.       *)
LEMMA AnswerAnywayStep == ASSUME IInv, AnswerAnyway PROVE IInv'
<1>1. TypeOK'
  BY DEF IInv, TypeOK, AnswerAnyway, plan, verdict, outcome, GraphStages,
       RouterStages, Over, Agents, Levels, Roles, Texts, Answers
<1>2. StepsInv'
  BY DEF IInv, StepsInv, Within, Path, RouterStages, Over, AnswerAnyway, plan
<1>3. DecisionInv'
  BY DEF IInv, DecisionInv, NothingYet, LevelInv, RouteInv, HeldIsNotSent,
       WithheldIsAccountedFor, SevereIsNotSent, AnswerIsGrounded, AnswerAnyway,
       plan, verdict, outcome, Planning, Judging, Markers, RouterStages, Over,
       GraphStages
<1> QED BY <1>1, <1>2, <1>3 DEF IInv

(* The process dies.                                                       *)
LEMMA CrashStep == ASSUME IInv, Crash PROVE IInv'
<1>1. TypeOK'
  BY DEF IInv, TypeOK, Crash, plan, verdict, outcome, GraphStages,
       RouterStages, Over, Agents, Levels, Roles, Texts, Answers
<1>2. StepsInv'
  BY LimitsAssumption DEF IInv, TypeOK, StepsInv, Within, Path, GraphStages,
       RouterStages, Over, Crash, plan
<1>3. DecisionInv'
  BY DEF IInv, DecisionInv, NothingYet, LevelInv, RouteInv, HeldIsNotSent,
       WithheldIsAccountedFor, SevereIsNotSent, AnswerIsGrounded, Crash, plan,
       verdict, outcome, Planning, Judging, Markers, RouterStages, Over,
       GraphStages
<1> QED BY <1>1, <1>2, <1>3 DEF IInv
(* The invariant holds of a message that has just come in.                 *)
LEMMA InitIInv == Init => IInv
<1> SUFFICES ASSUME Init PROVE IInv OBVIOUS
<1>1. TypeOK
  <2>1. steps \in 0 .. RecursionLimit /\ replans \in Nat
    BY LimitsAssumption DEF Init
  <2> QED BY <2>1 DEF Init, TypeOK, GraphStages, Roles, Texts, Levels, Answers
<1>2. StepsInv
  BY LimitsAssumption DEF Init, StepsInv, Within, RouterStages, Over
<1>3. DecisionInv
  BY DEF Init, DecisionInv, NothingYet, LevelInv, RouteInv, HeldIsNotSent,
       WithheldIsAccountedFor, SevereIsNotSent, AnswerIsGrounded, Markers,
       RouterStages
<1> QED BY <1>1, <1>2, <1>3 DEF IInv

(* Every step of the run preserves it.                                     *)
LEMMA NextIInv == IInv /\ [Next]_vars => IInv'
<1> SUFFICES ASSUME IInv, [Next]_vars PROVE IInv' OBVIOUS
<1>1. CASE Orchestrate
  BY <1>1, AskRequiredStep, RequiredAnsweredStep, ForceReplyStep,
       LlmRepliesNowStep, LlmPlansStep, LlmFailsStep DEF Orchestrate
<1>2. CASE RunAgents
  BY <1>2, AgentCompletesStep, AgentFailsStep, FanInStep DEF RunAgents
<1>3. CASE Judge
  BY <1>3, ReplyStep, ApprovalRulesStep, RiskStep, RouteAfterRiskStep DEF Judge
<1>4. CASE Conclude
  BY <1>4, HoldForApprovalStep, MemoryUpdateStep DEF Conclude
<1>5. CASE Deliver
  BY <1>5, AnswerUnderReviewStep, SaveOutboundStep, SendTelegramStep,
       RecordAutoSentStep, AnswerAnywayStep DEF Deliver
<1>6. CASE Intake \/ RecursionError \/ Crash
  BY <1>6, IntakeStep, RecursionErrorStep, CrashStep
<1>7. CASE UNCHANGED vars
  <2>1. TypeOK' BY <1>7 DEF IInv, TypeOK, vars, plan, verdict, outcome
  <2>2. StepsInv' BY <1>7 DEF IInv, StepsInv, Within, Path, vars, plan
  <2>3. DecisionInv'
    BY <1>7 DEF IInv, DecisionInv, NothingYet, LevelInv, RouteInv,
         HeldIsNotSent, WithheldIsAccountedFor, SevereIsNotSent,
         AnswerIsGrounded, vars, plan, verdict, outcome
  <2> QED BY <2>1, <2>2, <2>3 DEF IInv
<1> QED
  BY <1>1, <1>2, <1>3, <1>4, <1>5, <1>6, <1>7 DEF Next, Progress, Finished

-----------------------------------------------------------------------------
(* The inductive invariant holds in every state a message reaches.         *)
THEOREM Invariance == Spec => []IInv
BY InitIInv, NextIInv, PTL DEF Spec

(* Every field keeps its type.                                             *)
THEOREM TypeCorrect == Spec => []TypeOK
<1>1. IInv => TypeOK BY DEF IInv
<1> QED BY <1>1, Invariance, PTL

(* A reply that is held, and a marker in place of one, is never sent.      *)
THEOREM NoHeldReplySent == Spec => []HeldIsNotSent
<1>1. IInv => HeldIsNotSent BY DEF IInv, DecisionInv
<1> QED BY <1>1, Invariance, PTL

(* A sender who waits for a review has a reply in the queue, or the marker *)
(* and the log tell of the failure to put it there.                        *)
THEOREM NoReplyLostSilently == Spec => []WithheldIsAccountedFor
<1>1. IInv => WithheldIsAccountedFor BY DEF IInv, DecisionInv
<1> QED BY <1>1, Invariance, PTL

(* The LLM second pass cannot release a reply with a severe flag.          *)
THEOREM NoSevereReplySent == Spec => []SevereIsNotSent
<1>1. IInv => SevereIsNotSent BY DEF IInv, DecisionInv
<1> QED BY <1>1, Invariance, PTL

(* No failing sub-agent lets a discount, terms or policy question through  *)
(* without its evidence.                                                   *)
THEOREM NoUngroundedAnswer == Spec => []AnswerIsGrounded
<1>1. IInv => AnswerIsGrounded BY DEF IInv, DecisionInv
<1> QED BY <1>1, Invariance, PTL

(* The LLM path keeps to the replan limit, and to the supersteps it pays   *)
(* for: the assumption on RecursionLimit is enough for it to end.          *)
THEOREM PlanningBounded == Spec => []LlmPlanningIsBounded
<1>1. IInv => LlmPlanningIsBounded
  <2> SUFFICES ASSUME IInv, Path = "llm"
               PROVE  replans <= MaxReplanCycles /\ steps <= 6 + 2 * MaxReplanCycles
    BY DEF LlmPlanningIsBounded
  <2>1. steps \in Nat /\ replans \in Nat BY LimitsAssumption DEF IInv, TypeOK
  <2>2. replans <= MaxReplanCycles BY DEF IInv, StepsInv
  <2>3. steps <= 6 + 2 * replans
    BY <2>1 DEF IInv, TypeOK, StepsInv, Within, GraphStages, RouterStages, Over
  <2> QED BY <2>1, <2>2, <2>3, LimitsAssumption
<1> QED BY <1>1, Invariance, PTL
=============================================================================
