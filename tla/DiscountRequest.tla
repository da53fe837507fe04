-------------------------- MODULE DiscountRequest ---------------------------
(* A message that asks for a discount, from the tasks of the sub-agents to  *)
(* the flags on the reply: agents/retrieval_agent.py calls the tools the    *)
(* LLM chooses, agents/policy_agent.py looks for a verdict at the same      *)
(* time, agents/orchestrator_agent.py issues a task again until it has      *)
(* succeeded, agents/reply_agent.py shows what was found to the LLM that    *)
(* writes the reply, and nodes/approval_rules.py and nodes/risk_rules.py    *)
(* compare what the reply offers with what was found.                       *)
EXTENDS RetrievalTools, Sequences, FiniteSets

CONSTANTS
    Products,     \* products of the owner
    Sell, Cost, Stock,  \* the columns of each product
    Quantities,   \* quantities the LLM reads from the message
    Percents,     \* percentages asked for and told of, in hundredths
    Offers,       \* what a reply may offer: a percentage and its wording
    NoProduct,    \* no product matches the query
    Nothing,      \* internal_data is None
    MaxCalls,     \* bound: tool calls of one task
    MaxAttempts   \* bound: times a task is issued

ASSUME ProductsAssumption ==
    /\ NoProduct \notin Products
    /\ Sell \in [Products -> Nat] /\ Cost \in [Products -> Nat]
    /\ Stock \in [Products -> Nat]
ASSUME ChoicesAssumption ==
    Quantities \subseteq Nat \ {0} /\ Percents \subseteq Nat
(* Where the percentage stands: "10% discount", "discount of 10%" or "offer *)
(* 10%", or anything else, as in "10% off".                                 *)
Wordings == {"before", "after", "elsewhere"}

ASSUME OffersAssumption == Offers \subseteq [percent : Nat, wording : Wordings]
ASSUME BoundsAssumption == MaxCalls \in Nat /\ MaxAttempts \in Nat \ {0}

VARIABLES
    role,        \* sender_role
    known,       \* sender_id is the id of a stakeholder
    internal,    \* allow_internal_tools of the task
    attempts,    \* times the sub-agents were asked
    retriever,   \* the retriever: "running" or how its last task ended
    calls,       \* tool calls made in the running task
    gathered,    \* results of the running task
    judged,      \* internal_data of the running task: the last evaluation
    tasks,       \* completed_tasks of the retriever
    policy,      \* the policy agent: "running" or how its last task ended
    verdicts,    \* decisions in the completed_tasks of the policy agent
    stage,       \* "agents", "reply", "rules", "over"
    offered,     \* what the reply offers, in the order of the text
    flags        \* flags raised on the reply

retrieval == <<retriever, calls, gathered, judged, tasks>>
advice    == <<policy, verdicts>>
reply     == <<offered, flags>>
vars      == <<role, known, internal, attempts, retrieval, advice, stage, reply>>

NoEvaluation == [product |-> NoProduct, quantity |-> 0, max |-> 0, approval |-> FALSE]

(* What the tool returns: guidance, or that no product matches.             *)
Evaluation(p, q, requested) ==
    IF p = NoProduct THEN NoEvaluation
    ELSE [product  |-> p, quantity |-> q,
          max      |-> MaxDiscount(Sell[p], Cost[p], q),
          approval |-> ApprovalRequired(Sell[p], Cost[p], Stock[p], q, requested)]

Evaluations == [product : Products \cup {NoProduct}, quantity : Quantities \cup {0},
                max : 0 .. Hundred, approval : BOOLEAN]

(* Guidance read from the text of a result that holds no evaluation, by     *)
(* JSON or by pattern: the text may say anything.                           *)
Claims == [max : Percents, approval : BOOLEAN]

ASSUME NothingAssumption == Nothing \notin Evaluations \cup Claims

(* A completed task as the reply agent and the rules see it; "range" is the *)
(* summary that may be told to a customer.                                  *)
TaskRecords == [shown : SUBSET (Data \cup {"range"}),
                guidance : Evaluations \cup Claims \cup {Nothing}]

Verdicts == [verdict : {"allowed", "disallowed", "requires_approval", "not_covered", "other"},
             hard : BOOLEAN]

Init ==
    /\ role \in Roles /\ known \in BOOLEAN /\ internal \in BOOLEAN
    /\ attempts = 1
    /\ retriever = "running" /\ calls = 0 /\ gathered = {} /\ judged = Nothing
    /\ tasks = <<>>
    /\ policy = "running" /\ verdicts = {}
    /\ stage = "agents"
    /\ offered = <<>> /\ flags = {}

----------------------------------------------------------------------------
(* The retrieval agent.                                                     *)

Retrieving == stage = "agents" /\ retriever = "running"

(* The task ends; its record, failed or not, joins completed_tasks.         *)
EndRetrieval(status, shown, guidance) ==
    /\ retriever' = status
    /\ tasks' = Append(tasks, [shown |-> shown, guidance |-> guidance])
    /\ calls' = 0 /\ gathered' = {} /\ judged' = Nothing
    /\ UNCHANGED <<role, known, internal, attempts, advice, stage, reply>>

(* An unknown role has no tools; a tool, the LLM or the database may fail   *)
(* at any point, and what was gathered is dropped.  The text of the error   *)
(* is the result, and may hold a claim.                                     *)
FailRetrieval(claim) ==
    /\ Retrieving
    /\ Denied(role) => claim = Nothing
    /\ EndRetrieval("failed", {}, claim)

CanCall(t) ==
    /\ Retrieving /\ ~ Denied(role)
    /\ calls < MaxCalls
    /\ t \in BoundTools(role, internal)

Query(t) ==
    /\ CanCall(t) /\ t # Discount
    /\ ScopedToSender(t) => known
    /\ calls' = calls + 1
    /\ gathered' = gathered \cup Returned(t, role)
    /\ UNCHANGED <<role, known, internal, attempts, retriever, judged, tasks, advice,
                   stage, reply>>

(* The LLM asks for a tool that is not bound and is told so.                *)
CallUnbound(t) ==
    /\ Retrieving /\ ~ Denied(role)
    /\ calls < MaxCalls
    /\ t \notin BoundTools(role, internal)
    /\ calls' = calls + 1
    /\ UNCHANGED <<role, known, internal, attempts, retriever, gathered, judged, tasks,
                   advice, stage, reply>>

(* A later evaluation of the same task takes the place of an earlier one.   *)
Evaluate(p, q, requested) ==
    /\ CanCall(Discount)
    /\ calls' = calls + 1
    /\ gathered' = gathered \cup Returned(Discount, role)
    /\ judged' = Evaluation(p, q, requested)
    /\ UNCHANGED <<role, known, internal, attempts, retriever, tasks, advice, stage, reply>>

(* Mutant of Shown: internal results are joined with the others.            *)
ShownRaw == gathered

(* What a task shows: once a discount was evaluated, nothing but the safe   *)
(* summary, except to the owner, who gets the evaluation itself.            *)
Shown ==
    IF judged = Nothing THEN gathered
    ELSE IF role = "owner" THEN Returned(Discount, role)
    ELSE {"range"}

FinishRetrieval ==
    /\ Retrieving /\ ~ Denied(role) /\ calls > 0
    /\ EndRetrieval("completed", Shown, IF role = "owner" THEN Nothing ELSE judged)

(* Without any call the text of the LLM is the result.                      *)
AnswerInText(claim) ==
    /\ Retrieving /\ ~ Denied(role) /\ calls = 0
    /\ EndRetrieval("completed", {}, claim)

----------------------------------------------------------------------------
(* The policy agent.                                                        *)

Advising == stage = "agents" /\ policy = "running"

(* _normalize_verdict_for_sender_role, for a question about combining       *)
(* offers and a rule that names the owner.                                  *)
Normalized(v, combining) ==
    IF role = "customer" /\ v.verdict = "requires_approval" /\ combining
    THEN [v EXCEPT !.verdict = "disallowed"]
    ELSE v

Advise(v, combining) ==
    /\ Advising
    /\ policy' = "completed"
    /\ verdicts' = verdicts \cup {Normalized(v, combining)}
    /\ UNCHANGED <<role, known, internal, attempts, retrieval, stage, reply>>

(* The LLM that evaluates fails: "not_covered" stands for its answer.       *)
AdviseWithoutJudging ==
    /\ Advising
    /\ policy' = "completed"
    /\ verdicts' = verdicts \cup {[verdict |-> "not_covered", hard |-> FALSE]}
    /\ UNCHANGED <<role, known, internal, attempts, retrieval, stage, reply>>

(* Searching the policies fails.                                            *)
FailPolicy ==
    /\ Advising
    /\ policy' = "failed"
    /\ UNCHANGED <<role, known, internal, attempts, retrieval, verdicts, stage,
                   reply>>

----------------------------------------------------------------------------
(* The orchestrator.                                                        *)

Answered == retriever # "running" /\ policy # "running"

(* An agent without a completed task is asked again; on this path the       *)
(* retriever is always given the discount tool.                             *)
AskAgain ==
    /\ stage = "agents" /\ Answered
    /\ "failed" \in {retriever, policy}
    /\ attempts < MaxAttempts
    /\ attempts' = attempts + 1
    /\ retriever' = IF retriever = "failed" THEN "running" ELSE retriever
    /\ policy' = IF policy = "failed" THEN "running" ELSE policy
    /\ UNCHANGED <<role, known, internal, calls, gathered, judged, tasks,
                   verdicts, stage, reply>>

(* The deterministic path goes on only when both have completed; a plan of  *)
(* the LLM may go on without, or ask the retriever for more.                *)
AskRetrieverMore ==
    /\ stage = "agents" /\ Answered /\ ~ internal
    /\ attempts < MaxAttempts
    /\ attempts' = attempts + 1
    /\ retriever' = "running"
    /\ UNCHANGED <<role, known, internal, calls, gathered, judged, tasks,
                   advice, stage, reply>>

RouteToReply ==
    /\ stage = "agents" /\ Answered
    /\ internal => "failed" \notin {retriever, policy}
    /\ stage' = "reply"
    /\ UNCHANGED <<role, known, internal, attempts, retrieval, advice, reply>>

----------------------------------------------------------------------------
(* The reply and the rules.                                                 *)

Draft(offers) ==
    /\ stage = "reply"
    /\ stage' = "rules"
    /\ offered' = offers
    /\ UNCHANGED <<role, known, internal, attempts, retrieval, advice, flags>>

(* _extract_discount_guidance: the first task that has any.                 *)
HasGuidance(i) == tasks[i].guidance # Nothing /\ tasks[i].guidance # NoEvaluation

Guided == \E i \in DOMAIN tasks : HasGuidance(i)

FirstGuided(i) ==
    i \in DOMAIN tasks /\ HasGuidance(i) /\ \A j \in 1 .. i - 1 : ~ HasGuidance(j)

Guidance == tasks[CHOOSE i \in DOMAIN tasks : FirstGuided(i)].guidance

(* _DISCOUNT_REPLY_PATTERN knows two wordings and numbers of two digits;    *)
(* of a longer number before the word it reads the last two.                *)
Noticed(offer) ==
    \/ offer.wording = "before"
    \/ offer.wording = "after" /\ offer.percent < Hundred

FirstNoticed(i) ==
    i \in DOMAIN offered /\ Noticed(offered[i]) /\ \A j \in 1 .. i - 1 : ~ Noticed(offered[j])

PercentRead(offer) == offer.percent % Hundred

(* _discount_negotiation_flags: only the first percentage that is noticed   *)
(* is looked at, and it is compared whatever product it is about.           *)
DiscountFlagged ==
    \E i \in DOMAIN offered :
        /\ FirstNoticed(i)
        /\ \/ ~ Guided
           \/ Guidance.approval
           \/ PercentRead(offered[i]) > Guidance.max

(* check_policy_cross looks at every result of the policy agent.            *)
PolicyFlags ==
    {f \in {"policy violation", "policy approval"} :
        \E v \in verdicts :
           \/ f = "policy violation" /\ (v.verdict = "disallowed" \/ v.hard)
           \/ f = "policy approval" /\ v.verdict = "requires_approval"}

Judge ==
    /\ stage = "rules"
    /\ stage' = "over"
    /\ flags' = IF role = "owner" THEN {}
                ELSE PolicyFlags \cup IF DiscountFlagged THEN {"discount"} ELSE {}
    /\ UNCHANGED <<role, known, internal, attempts, retrieval, advice, offered>>

----------------------------------------------------------------------------
Replies == {<<>>} \cup {<<x>> : x \in Offers} \cup Offers \X Offers

Next ==
    \/ \E t \in Tools : Query(t) \/ CallUnbound(t)
    \/ \E p \in Products \cup {NoProduct}, q \in Quantities, r \in Percents : Evaluate(p, q, r)
    \/ FinishRetrieval
    \/ \E claim \in Claims \cup {Nothing} : FailRetrieval(claim) \/ AnswerInText(claim)
    \/ \E v \in Verdicts, combining \in BOOLEAN : Advise(v, combining)
    \/ AdviseWithoutJudging \/ FailPolicy
    \/ AskAgain \/ AskRetrieverMore \/ RouteToReply
    \/ \E offers \in Replies : Draft(offers)
    \/ Judge

Spec == Init /\ [][Next]_vars

----------------------------------------------------------------------------
(* Types; the guidance is a percentage, never negative.                     *)
TypeOK ==
    /\ role \in Roles /\ known \in BOOLEAN /\ internal \in BOOLEAN
    /\ attempts \in 1 .. MaxAttempts
    /\ retriever \in {"running", "completed", "failed"}
    /\ calls \in 0 .. MaxCalls
    /\ gathered \subseteq Data
    /\ judged \in Evaluations \cup {Nothing}
    /\ tasks \in Seq(TaskRecords)
    /\ policy \in {"running", "completed", "failed"}
    /\ verdicts \subseteq Verdicts
    /\ stage \in {"agents", "reply", "rules", "over"}
    /\ offered \in Replies
    /\ flags \subseteq {"discount", "policy violation", "policy approval"}

(* Nothing the reply agent puts before the LLM for a customer, supplier or  *)
(* partner holds cost prices, margins or rows of others, whichever tools    *)
(* the LLM called, in whatever order, and although the discount tool, which *)
(* reads the cost price, is lent to every role.                             *)
PromptHoldsNoInternals ==
    role \notin {"owner", "investor"} =>
        \A i \in DOMAIN tasks : tasks[i].shown \subseteq {"catalog", "own", "range"}

(* Twelve percent above the cost, up to the rounding of the percentage.     *)
KeepsMargin(p, percent) ==
    2 * Sell[p] * (Hundred - percent) + Sell[p] >= 2 * 11200 * Cost[p]

(* The evaluation allows the discount: it gives away no more than the       *)
(* policy band of a quantity that is in stock, and leaves the margin.       *)
Allows(e, percent) ==
    /\ e.quantity < 100 /\ e.quantity <= Stock[e.product]
    /\ percent <= PolicyBand(e.quantity)
    /\ percent > 0 => KeepsMargin(e.product, percent)

(* A reply that passes the rules without a flag to anyone but the owner:    *)
(* if the first percentage the pattern notices is below a hundred, the      *)
(* first guidance among the tasks is a claim in a text or an evaluation     *)
(* that allows that percentage, and on the path for discounts no later one  *)
(* says otherwise.  No verdict of the policy agent is against the reply,    *)
(* and on the path for discounts there is one.  However often agents failed *)
(* and were asked again.  Off that path a newer evaluation may allow less,  *)
(* and the product evaluated need not be the one of the message.            *)
UnflaggedOfferIsCovered ==
    stage = "over" /\ role # "owner" /\ flags = {} =>
        /\ \A i \in DOMAIN offered :
             FirstNoticed(i) /\ offered[i].percent < Hundred =>
                 \E k \in DOMAIN tasks :
                    /\ FirstGuided(k)
                    /\ \/ tasks[k].guidance \in Claims
                       \/ /\ Allows(tasks[k].guidance, offered[i].percent)
                          /\ internal => \A j \in DOMAIN tasks : j > k => ~ HasGuidance(j)
        /\ \A v \in verdicts :
             v.verdict \notin {"disallowed", "requires_approval"} /\ ~ v.hard
        /\ internal => verdicts # {}
=============================================================================
