------------------------------ MODULE Pipeline ------------------------------
(***************************************************************************)
(* One message through the LangGraph pipeline and the code around it:      *)
(* graph/pipeline_graph.py (nodes, routers, hold_for_approval_node),       *)
(* agents/orchestrator_agent.py (the replanning loop),                     *)
(* nodes/approval_rules.py and nodes/risk.py (the decision to hold), and   *)
(* api/router.py process_incoming_message (delivery and answer).           *)
(*                                                                         *)
(* LangGraph runs the graph in supersteps: one node, or the sub-agents of  *)
(* a fan-out in parallel, whose results are merged when all have returned. *)
(* What an LLM answers, what a regular expression finds in a text, and     *)
(* which calls fail, is chosen freely.                                     *)
(***************************************************************************)
EXTENDS Naturals, FiniteSets

CONSTANTS
    MaxReplanCycles,  \* settings.MAX_REPLAN_CYCLES
    RecursionLimit,   \* supersteps LangGraph allows one invocation
    Severe,           \* flags that make a reply high risk by themselves
    Review,           \* flags that make it medium risk whatever else there is
    Minor             \* the other flags: three of them make it high risk

ASSUME LimitsAssumption ==
    /\ MaxReplanCycles \in Nat
    /\ RecursionLimit \in Nat
    /\ RecursionLimit >= 6 + 2 * MaxReplanCycles
ASSUME FlagsAssumption ==
    IsFiniteSet(Minor) /\ Severe # {} /\ Severe \intersect Minor = {}

Agents   == {"retriever", "policy", "research", "memory"}
Patterns == {"discount", "terms", "policy"}
Roles    == {"owner", "supplier", "customer"}  \* "customer": every other role
Flags    == Severe \union Review \union Minor
Levels   == {"low", "medium", "high"}

(* What a reply whose LLM call failed is flagged with (confidence "low").  *)
LowConfidence == CHOOSE f \in Severe : TRUE

VARIABLES
    stage,       \* the node about to run, or where the router has got to
    asks,        \* the keyword groups found in raw_message
    role,        \* sender_role, resolved by intake
    replans,     \* replan_count
    steps,       \* supersteps taken
    tasks,       \* assignees of the active tasks still running
    results,     \* assignees that returned status "completed" in this fan-out
    completed,   \* assignees with a completed entry in completed_tasks
    text,        \* what reply_text holds
    ruleFlags,   \* approval_rule_flags
    flags,       \* risk_flags found by rules, approval_rule_flags among them
    riskLevel, requiresApproval,
    held,        \* hold_reply has committed the reply for the owner
    message,     \* an outbound messages row is committed
    delivered,   \* telegram accepted the reply
    audited,     \* reply_review_records says auto_sent
    answer       \* what the caller of the endpoint is told

plan    == <<replans, tasks, results, completed>>
verdict == <<ruleFlags, flags, riskLevel, requiresApproval>>
outcome == <<held, message, delivered, audited, answer>>
vars    == <<stage, asks, role, steps, plan, text, verdict, outcome>>

GraphStages  == {"intake", "orchestrator", "agents", "reply", "rules", "risk",
                 "route", "hold", "memory"}
RouterStages == {"respond", "send", "record"}
Over         == {"answered", "failed"}

Init ==
    /\ stage = "intake"
    /\ asks \in SUBSET Patterns
    /\ role = "customer"
    /\ replans = 0 /\ steps = 0
    /\ tasks = {} /\ results = {} /\ completed = {}
    /\ text = "none"
    /\ ruleFlags = {} /\ flags = {}
    /\ riskLevel = "low" /\ requiresApproval = FALSE
    /\ held = FALSE /\ message = FALSE /\ delivered = FALSE /\ audited = FALSE
    /\ answer = "none"

-----------------------------------------------------------------------------
(* Supersteps.                                                             *)

(* The node at stage "from" ends its superstep and the graph goes on.      *)
Superstep(from, to) ==
    /\ stage = from
    /\ steps < RecursionLimit
    /\ steps' = steps + 1
    /\ stage' = to

(* GraphRecursionError: the invocation raises, the message has no answer.  *)
RecursionError ==
    /\ stage \in GraphStages \ {"route"}
    /\ steps = RecursionLimit
    /\ stage' = "failed"
    /\ UNCHANGED <<asks, role, steps, plan, text, verdict, outcome>>

(* An intake that cannot reach the database goes on as if the sender were  *)
(* an unknown customer.                                                    *)
Intake ==
    /\ Superstep("intake", "orchestrator")
    /\ role' \in Roles
    /\ UNCHANGED <<asks, plan, text, verdict, outcome>>

-----------------------------------------------------------------------------
(* The orchestrator.                                                       *)

(* The deterministic path the message takes, if any, and the sub-agents    *)
(* whose completed results it insists on.                                  *)
Path ==
    IF "discount" \in asks THEN "discount"
    ELSE IF "terms" \in asks /\ role = "supplier" THEN "terms"
    ELSE IF "policy" \in asks THEN "policy"
    ELSE "llm"

(* Mutant of Required: a discount may be answered on policy alone.         *)
RequiredPolicyOnly == IF Path = "llm" THEN {} ELSE {"policy"}

Required ==
    CASE Path = "llm"      -> {}
      [] Path = "discount" -> {"retriever", "policy"}
      [] OTHER             -> {"policy"}

FanOut(S) == tasks' = S /\ results' = {} /\ completed' = completed

(* Until each required sub-agent has a completed result, its task is       *)
(* issued again; this comes before the replan limit is looked at.          *)
AskRequired ==
    /\ Superstep("orchestrator", "agents")
    /\ ~(Required \subseteq completed)
    /\ FanOut(Required \ completed)
    /\ replans' = replans + 1
    /\ UNCHANGED <<asks, role, text, verdict, outcome>>

RequiredAnswered ==
    /\ Superstep("orchestrator", "reply")
    /\ Path # "llm"
    /\ Required \subseteq completed
    /\ UNCHANGED <<asks, role, plan, text, verdict, outcome>>

(* Mutant of LimitReached: off by one.                                     *)
LimitReachedLate == replans > MaxReplanCycles + 1

(* check_replan_limit.                                                     *)
LimitReached == replans >= MaxReplanCycles

ForceReply ==
    /\ Superstep("orchestrator", "reply")
    /\ Path = "llm" /\ LimitReached
    /\ UNCHANGED <<asks, role, plan, text, verdict, outcome>>

(* The LLM supervisor routes to the reply or names tasks for any of the    *)
(* sub-agents; a plan without a valid task goes to the reply as well.      *)
LlmRepliesNow ==
    /\ Superstep("orchestrator", "reply")
    /\ Path = "llm" /\ ~LimitReached
    /\ replans' \in {replans, replans + 1}
    /\ UNCHANGED <<asks, role, tasks, results, completed, text, verdict, outcome>>

LlmPlans ==
    /\ Superstep("orchestrator", "agents")
    /\ Path = "llm" /\ ~LimitReached
    /\ \E S \in SUBSET Agents \ {{}} : FanOut(S)
    /\ replans' = replans + 1
    /\ UNCHANGED <<asks, role, text, verdict, outcome>>

(* The orchestrator node is not wrapped: an LLM error ends the run. The    *)
(* reply node catches the error of the call, not of making the client.     *)
LlmFails ==
    /\ \/ stage = "orchestrator" /\ Path = "llm" /\ ~LimitReached
       \/ stage = "reply"
    /\ steps < RecursionLimit
    /\ stage' = "failed"
    /\ UNCHANGED <<asks, role, steps, plan, text, verdict, outcome>>

-----------------------------------------------------------------------------
(* Sub-agents, in parallel.                                                *)

AgentCompletes(a) ==
    /\ stage = "agents"
    /\ steps < RecursionLimit
    /\ a \in tasks
    /\ tasks' = tasks \ {a}
    /\ results' = results \union {a}
    /\ UNCHANGED <<stage, asks, role, replans, steps, completed, text, verdict,
                   outcome>>

(* status "failed", or an exception that safe_agent_call turns into an     *)
(* entry of failed_tasks.                                                  *)
AgentFails(a) ==
    /\ stage = "agents"
    /\ steps < RecursionLimit
    /\ a \in tasks
    /\ tasks' = tasks \ {a}
    /\ UNCHANGED <<stage, asks, role, replans, steps, results, completed, text,
                   verdict, outcome>>

(* Mutant of FanIn: a fan-out without a single result is not merged.       *)
FanInOfResults ==
    /\ Superstep("agents", "orchestrator")
    /\ tasks = {} /\ results # {}
    /\ completed' = completed \union results
    /\ results' = {}
    /\ UNCHANGED <<asks, role, replans, tasks, text, verdict, outcome>>

(* The reducers of PipelineState append the results to completed_tasks and *)
(* failed_tasks; no decision looks at failed_tasks.                        *)
FanIn ==
    /\ Superstep("agents", "orchestrator")
    /\ tasks = {}
    /\ completed' = completed \union results
    /\ results' = {}
    /\ UNCHANGED <<asks, role, replans, tasks, text, verdict, outcome>>

-----------------------------------------------------------------------------
(* Reply, approval rules and risk.                                         *)

Reply ==
    /\ Superstep("reply", "rules")
    /\ text' \in {"draft", "empty", "fallback"}
    /\ UNCHANGED <<asks, role, plan, verdict, outcome>>

ApprovalRules ==
    /\ Superstep("rules", "risk")
    /\ ruleFlags' \in IF role = "owner" THEN {{}} ELSE SUBSET Minor
    /\ UNCHANGED <<asks, role, plan, text, flags, riskLevel, requiresApproval,
                   outcome>>

(* aggregate_risk                                                          *)
Level(F) ==
    CASE F = {}                     -> "low"
      [] F \intersect Severe # {}   -> "high"
      [] F \subseteq Minor /\ Cardinality(F) >= 3 -> "high"
      [] OTHER                      -> "medium"

(* The rule-based checkers add their flags to those of the approval rules. *)
FlagsFound ==
    {F \in SUBSET Flags : /\ ruleFlags \subseteq F
                          /\ text = "fallback" => LowConfidence \in F}

(* Mutants of SecondPass: the LLM reviews every flagged reply; the level   *)
(* it answers is not checked.                                              *)
SecondPassOfAll(level) == IF level = "low" THEN {"low"} ELSE Levels
SecondPassUnchecked(level) ==
    IF level = "medium" THEN Levels \union {"unparsed"} ELSE {level}

(* llm_second_pass may move a medium risk either way; an answer that is no *)
(* level, and an error, leave it medium.                                   *)
SecondPass(level) == IF level = "medium" THEN Levels ELSE {level}

(* risk_node. A flag of the approval rules is a flag, so a level above low *)
(* and requires_approval go together before the second pass, and a changed *)
(* level takes requires_approval along.                                    *)
Risk ==
    /\ Superstep("risk", "route")
    /\ IF role = "owner"
       THEN flags' = {} /\ riskLevel' = "low" /\ requiresApproval' = FALSE
       ELSE /\ flags' \in FlagsFound
            /\ riskLevel' \in SecondPass(Level(flags'))
            /\ requiresApproval' = (riskLevel' # "low")
    /\ UNCHANGED <<asks, role, plan, text, ruleFlags, outcome>>

(* Mutants of MustHold: medium risk is not held; a flag of the approval    *)
(* rules is enough to hold.                                                *)
MustHoldHigh == riskLevel = "high"
MustHoldFlagged == riskLevel \in {"medium", "high"} \/ ruleFlags # {}

(* route_after_risk: a conditional edge, part of the risk node's superstep.*)
MustHold == riskLevel \in {"medium", "high"} \/ requiresApproval

RouteAfterRisk ==
    /\ stage = "route"
    /\ stage' = IF MustHold THEN "hold" ELSE "memory"
    /\ UNCHANGED <<asks, role, steps, plan, text, verdict, outcome>>

(* hold_for_approval_node catches the failure of hold_reply.               *)
HoldForApproval ==
    /\ Superstep("hold", "respond")
    /\ \/ held' = TRUE /\ text' = "held marker"
       \/ held' = FALSE /\ text' = "hold failed marker"
    /\ UNCHANGED <<asks, role, plan, verdict, message, delivered, audited, answer>>

(* memory_update_node; a failure is reported in the state, not raised.     *)
MemoryUpdate ==
    /\ Superstep("memory", "respond")
    /\ UNCHANGED <<asks, role, plan, text, verdict, outcome>>

-----------------------------------------------------------------------------
(* process_incoming_message after pipeline.invoke has returned.            *)

AnswerUnderReview ==
    /\ stage = "respond"
    /\ requiresApproval
    /\ stage' = "answered"
    /\ answer' = "under review"
    /\ UNCHANGED <<asks, role, steps, plan, text, verdict, held, message,
                   delivered, audited>>

SaveOutbound ==
    /\ stage = "respond"
    /\ ~requiresApproval /\ text # "empty"
    /\ message' = TRUE
    /\ stage' = "send"
    /\ UNCHANGED <<asks, role, steps, plan, text, verdict, held, delivered,
                   audited, answer>>

SendTelegram ==
    /\ stage = "send"
    /\ delivered' \in BOOLEAN
    /\ stage' = "record"
    /\ UNCHANGED <<asks, role, steps, plan, text, verdict, held, message,
                   audited, answer>>

RecordAutoSent ==
    /\ stage = "record"
    /\ audited' = TRUE
    /\ stage' = "answered"
    /\ answer' = "reply"
    /\ UNCHANGED <<asks, role, steps, plan, text, verdict, held, message,
                   delivered>>

(* Nothing to deliver, or one of the three steps failed, which is logged:  *)
(* the caller gets the reply as its answer in any case.                    *)
AnswerAnyway ==
    /\ \/ stage = "respond" /\ ~requiresApproval
       \/ stage \in {"send", "record"}
    /\ stage' = "answered"
    /\ answer' = "reply"
    /\ UNCHANGED <<asks, role, steps, plan, text, verdict, held, message,
                   delivered, audited>>

(* The process dies; nothing resumes the run.                              *)
Crash ==
    /\ stage \notin Over
    /\ stage' = "failed"
    /\ UNCHANGED <<asks, role, steps, plan, text, verdict, outcome>>

Finished == stage \in Over /\ UNCHANGED vars

-----------------------------------------------------------------------------
Orchestrate ==
    \/ AskRequired \/ RequiredAnswered \/ ForceReply
    \/ LlmRepliesNow \/ LlmPlans \/ LlmFails

RunAgents ==
    \/ \E a \in Agents : AgentCompletes(a) \/ AgentFails(a)
    \/ FanIn

Judge == Reply \/ ApprovalRules \/ Risk \/ RouteAfterRisk

Conclude == HoldForApproval \/ MemoryUpdate

Deliver ==
    \/ AnswerUnderReview \/ SaveOutbound \/ SendTelegram \/ RecordAutoSent
    \/ AnswerAnyway

Progress ==
    \/ Intake \/ Orchestrate \/ RunAgents \/ Judge \/ Conclude \/ Deliver
    \/ RecursionError

Next == Progress \/ Crash \/ Finished

(* Every call the pipeline makes has a timeout or returns, so the thread   *)
(* that runs it always goes on.                                            *)
Spec == Init /\ [][Next]_vars /\ WF_vars(Progress)

-----------------------------------------------------------------------------
(* Properties.                                                             *)

Texts   == {"none", "draft", "empty", "fallback", "held marker",
            "hold failed marker"}
Answers == {"none", "under review", "reply"}

(* The fields of PipelineState, and what the router derives from them,     *)
(* hold the values the code gives them.                                    *)
TypeOK ==
    /\ stage \in GraphStages \union RouterStages \union Over
    /\ asks \subseteq Patterns
    /\ role \in Roles
    /\ replans \in Nat
    /\ steps \in 0 .. RecursionLimit
    /\ tasks \subseteq Agents /\ results \subseteq Agents
    /\ completed \subseteq Agents
    /\ text \in Texts
    /\ ruleFlags \subseteq Minor /\ flags \subseteq Flags
    /\ riskLevel \in Levels /\ requiresApproval \in BOOLEAN
    /\ held \in BOOLEAN /\ message \in BOOLEAN /\ delivered \in BOOLEAN
    /\ audited \in BOOLEAN
    /\ answer \in Answers

(* What the router saves and sends is what the reply agent wrote for a     *)
(* reply nobody has to approve: never a reply the owner has in the queue,  *)
(* and never a marker hold_for_approval_node left in reply_text            *)
(* (route_after_risk and the router decide from different fields).         *)
HeldIsNotSent ==
    message => /\ ~held
               /\ text \in {"draft", "fallback"}

(* A sender is told that the reply is under review only if it is in the    *)
(* owner's queue, or the marker and the log say that queueing it failed:   *)
(* the router does not look at held_reply_id.                              *)
WithheldIsAccountedFor ==
    answer = "under review" => held \/ text = "hold failed marker"

(* No reply to anyone but the owner goes out by itself when a rule found   *)
(* in it a flag of the severe kind (PII, confidentiality, escalation,      *)
(* policy violation, low confidence, tone), whatever the LLM second pass   *)
(* says; nor does the canned reply that stands in for a failed LLM call.   *)
SevereIsNotSent ==
    message /\ role # "owner" => flags \intersect Severe = {} /\ text = "draft"

(* A discount is answered only from completed retriever and policy results *)
(* and a policy or supplier-terms question only from a policy result,      *)
(* however often their tasks fail.                                         *)
AnswerIsGrounded ==
    stage \notin {"intake", "orchestrator", "agents", "failed"} =>
        /\ "discount" \in asks => {"retriever", "policy"} \subseteq completed
        /\ "policy" \in asks => "policy" \in completed
        /\ "terms" \in asks /\ role = "supplier" => "policy" \in completed

(* Where the LLM supervisor plans, the replan limit holds, and the run     *)
(* stays within the supersteps the limit pays for.                         *)
LlmPlanningIsBounded ==
    Path = "llm" => /\ replans <= MaxReplanCycles
                    /\ steps <= 6 + 2 * MaxReplanCycles

(* Every message is answered or its run ends in an error.                  *)
EveryMessageEnds == <>(stage \in Over)

(* "The orchestrator may replan only a limited number of times": false of  *)
(* the deterministic paths, which issue a failed task again before they    *)
(* look at the limit, until LangGraph's recursion limit ends the run.      *)
ReplanLimitHolds == replans <= MaxReplanCycles

(* Approval triggers "are enforced in infrastructure and workflow logic":  *)
(* false of the approval rules, whose flags the LLM second pass overrules. *)
RuleFlaggedNeedsOwner == message /\ role # "owner" => ruleFlags = {}

-----------------------------------------------------------------------------
(* The inductive invariant behind the safety properties.                   *)

Planning == {"intake", "orchestrator", "agents"}
Judging  == {"reply", "rules", "risk"}
Markers  == {"held marker", "hold failed marker"}

(* Before the risk node has spoken nothing is held, sent or answered.      *)
NothingYet ==
    stage \in Planning \union Judging \union {"route", "hold", "memory"} =>
        ~held /\ ~message /\ answer = "none" /\ text \notin Markers

(* The two fields the routers read agree once the risk node has set them.  *)
LevelInv ==
    stage \in {"route", "hold", "memory"} \union RouterStages =>
        /\ requiresApproval <=> riskLevel # "low"
        /\ role # "owner" /\ (text = "fallback" \/ flags \intersect Severe # {})
             => requiresApproval

(* Where the run has got to tells what has been decided.                   *)
RouteInv ==
    /\ stage \in {"rules", "risk", "route", "hold", "memory"} =>
         text \in {"draft", "empty", "fallback"}
    /\ stage = "hold" => requiresApproval
    /\ stage = "memory" => ~requiresApproval
    /\ stage = "respond" =>
         /\ ~message
         /\ IF requiresApproval
            THEN held \/ text = "hold failed marker"
            ELSE ~held /\ text \in {"draft", "empty", "fallback"}
    /\ stage \in {"send", "record"} => message

(* Supersteps are paid for by the stages passed and the plans made.        *)
Within(stages, n) == stage \in stages => steps <= n + 2 * replans

StepsInv ==
    /\ stage = "intake" => replans = 0 /\ steps = 0
    /\ Path = "llm" =>
         /\ replans <= MaxReplanCycles
         /\ Within({"intake", "agents"}, 0)
         /\ Within({"orchestrator"}, 1)
         /\ Within({"reply"}, 2)
         /\ Within({"rules"}, 3)
         /\ Within({"risk"}, 4)
         /\ Within({"route", "hold", "memory"}, 5)
         /\ Within(RouterStages \union Over, 6)

(* What has been decided, held, sent and answered.                         *)
DecisionInv ==
    /\ NothingYet /\ LevelInv /\ RouteInv
    /\ HeldIsNotSent /\ WithheldIsAccountedFor /\ SevereIsNotSent
    /\ AnswerIsGrounded

IInv == TypeOK /\ StepsInv /\ DecisionInv
=============================================================================
