----------------------- MODULE DiscountRequestProofs ------------------------
(* Proofs about DiscountRequest, for any products, prices, quantities and   *)
(* percentages and any number of tool calls and attempts: its types, and    *)
(* that cost data never gets into the prompt for an outsider, and that an   *)
(* offer nobody flagged is covered by an evaluation.                        *)
EXTENDS DiscountRequest, WellFoundedInduction, TLAPS

Outsiders == {"customer", "supplier", "partner"}

Public == {"catalog", "own"}

(* What an outsider has gathered without a discount tool is public, and so  *)
(* is all that its completed tasks show.                                    *)
GatheredIsPublic ==
    role \notin {"owner", "investor"} /\ judged = Nothing => gathered \subseteq Public

(* All guidance is what the tool returned for some product, or a claim.     *)
IsGuidance(e) ==
    \/ e \in {Nothing, NoEvaluation} \cup Claims
    \/ \E p \in Products, q \in Quantities, r \in Percents : e = Evaluation(p, q, r)

GuidanceIsEvaluated ==
    IsGuidance(judged) /\ \A i \in DOMAIN tasks : IsGuidance(tasks[i].guidance)

(* On the path for discounts the retriever is not asked again after an      *)
(* evaluation.                                                              *)
OneEvaluation ==
    internal => \A i \in DOMAIN tasks :
                   \/ tasks[i].guidance \in {Nothing, NoEvaluation} \cup Claims
                   \/ i = Len(tasks) /\ retriever = "completed"

(* The path for discounts leaves the agents with a verdict.                 *)
PolicyAnswered ==
    /\ policy = "completed" => verdicts # {}
    /\ internal /\ stage # "agents" => policy = "completed"

IInv == /\ TypeOK
        /\ GatheredIsPublic
        /\ PromptHoldsNoInternals
        /\ GuidanceIsEvaluated
        /\ OneEvaluation
        /\ PolicyAnswered
        /\ UnflaggedOfferIsCovered

----------------------------------------------------------------------------
(* The tools by name.                                                       *)
LEMMA QueriesByName ==
    /\ DOMAIN CustomerQueries =
         {"get_product_catalog", "get_customer_orders", "get_customer_profile"}
    /\ DOMAIN SupplierQueries =
         {"get_supplier_profile", "get_supplier_contracts", "get_product_stock"}
    /\ DOMAIN InvestorQueries =
         {"get_full_product_table", "get_all_orders", "get_customer_count",
          "get_supply_overview", "get_product_roi", "get_sales_stats"}
    /\ DOMAIN PartnerQueries =
         {"get_partner_profile", "get_partner_agreements", "get_partner_products"}
    /\ DOMAIN ProductSearches =
         {"semantic_search_product_catalog", "semantic_search_full_product_table"}
    /\ DOMAIN ContractSearches =
         {"semantic_search_supplier_contracts", "semantic_search_supply_overview",
          "semantic_search_all_partner_agreements", "semantic_search_partner_agreements"}
  BY DEF CustomerQueries, SupplierQueries, InvestorQueries, PartnerQueries, ProductSearches,
         ContractSearches

(* Every tool returns known classes of data.                                *)
LEMMA ReturnedType == ASSUME NEW t \in Tools, NEW r \in Roles PROVE Returned(t, r) \subseteq Data
  <1>1. ASSUME NEW u \in Tools PROVE Columns(u) \subseteq Data
    BY QueriesByName
       DEF Tools, Queries, Discount, Columns, Data, CustomerQueries, SupplierQueries,
           InvestorQueries, PartnerQueries, ProductSearches, ContractSearches
  <1>2. "get_full_product_table" \in Tools /\ "semantic_search_full_product_table" \in Tools
    BY QueriesByName DEF Tools, Queries
  <1> QED
    BY <1>1, <1>2 DEF Returned

(* The queries lent to an outsider return public data only.                 *)
LEMMA LentQueriesArePublic ==
    ASSUME NEW r \in Outsiders, NEW i \in BOOLEAN,
           NEW t \in BoundTools(r, i), t # Discount
    PROVE  Returned(t, r) \subseteq Public
  <1>1. t \in RoleToolMap[r] /\ Returned(t, r) = Columns(t)
    BY DEF BoundTools, ToolsForRole, Outsiders, Returned
  <1>2. t \in {"get_product_catalog", "get_customer_orders", "get_customer_profile",
               "semantic_search_product_catalog", "get_supplier_profile",
               "get_supplier_contracts", "get_product_stock",
               "semantic_search_supplier_contracts", "get_partner_profile",
               "get_partner_agreements", "get_partner_products",
               "semantic_search_partner_agreements"}
    BY <1>1, QueriesByName DEF RoleToolMap, Outsiders
  <1> QED
    BY <1>1, <1>2, QueriesByName
       DEF Columns, Public, CustomerQueries, SupplierQueries, PartnerQueries, ProductSearches,
           ContractSearches

----------------------------------------------------------------------------
(* The arithmetic of the tool.                                              *)

LEMMA RoundedType ==
    ASSUME NEW n \in Int, NEW d \in Nat, d > 0
    PROVE  /\ Rounded(n, d) \in Int
           /\ 2 * d * Rounded(n, d) <= 2 * n + d
  <1> DEFINE m == 2 * n + d
             k == 2 * d
  <1>1. m \in Int /\ k \in Nat /\ k > 0
    OBVIOUS
  <1> HIDE DEF m, k
  <1>2. m \div k \in Int /\ k * (m \div k) <= m
    BY <1>1
  <1> QED
    BY <1>2 DEF Rounded, m, k

LEMMA MaxDiscountType ==
    ASSUME NEW s \in Nat, NEW c \in Nat, NEW q \in Nat
    PROVE  /\ PolicyBand(q) \in Nat
           /\ MarginSafeDiscount(s, c) \in Nat
           /\ MaxDiscount(s, c, q) \in 0 .. Hundred
           /\ MaxDiscount(s, c, q) <= PolicyBand(q)
           /\ MaxDiscount(s, c, q) <= MarginSafeDiscount(s, c)
  <1>1. PolicyBand(q) \in 0 .. Hundred
    BY DEF PolicyBand, Hundred
  <1>2. MarginSafeDiscount(s, c) \in Nat
    <2>1. CASE s > 0
      <3>1. Hundred * s - 11200 * c \in Int
        BY DEF Hundred
      <3>2. Rounded(Hundred * s - 11200 * c, s) \in Int
        BY <2>1, <3>1, RoundedType
      <3> QED
        BY <2>1, <3>2 DEF MarginSafeDiscount, AtLeastZero
    <2>2. CASE ~ (s > 0)
      BY <2>2 DEF MarginSafeDiscount
    <2> QED
      BY <2>1, <2>2 DEF Hundred
  <1>3. MaxDiscount(s, c, q) =
          IF PolicyBand(q) < MarginSafeDiscount(s, c) THEN PolicyBand(q)
          ELSE MarginSafeDiscount(s, c)
    BY DEF MaxDiscount
  <1> DEFINE band   == PolicyBand(q)
             margin == MarginSafeDiscount(s, c)
             least  == MaxDiscount(s, c, q)
  <1>4. least \in 0 .. Hundred /\ least <= band /\ least <= margin
    <2> HIDE DEF band, margin, least
    <2>1. band \in 0 .. Hundred /\ margin \in Nat
      BY <1>1, <1>2 DEF band, margin
    <2>2. least = IF band < margin THEN band ELSE margin
      BY <1>3 DEF band, margin, least
    <2> QED
      BY <2>1, <2>2 DEF Hundred
  <1>5. PolicyBand(q) \in Nat
    BY DEF PolicyBand
  <1> QED
    BY <1>2, <1>4, <1>5

(* A discount within the safe one leaves the margin, up to the rounding.    *)
LEMMA SafeDiscountKeepsMargin ==
    ASSUME NEW s \in Nat, NEW c \in Nat, NEW x \in Nat, x > 0,
           x <= MarginSafeDiscount(s, c)
    PROVE  2 * s * (Hundred - x) + s >= 2 * 11200 * c
  <1> DEFINE n == Hundred * s - 11200 * c
             k == Rounded(n, s)
  <1>1. s > 0
    BY DEF MarginSafeDiscount
  <1>2. n \in Int
    BY DEF Hundred
  <1>3. k \in Int /\ 2 * s * k <= 2 * n + s
    <2> HIDE DEF n
    <2> QED
      BY <1>1, <1>2, RoundedType
  <1>4. x <= k
    <2> HIDE DEF n
    <2>1. MarginSafeDiscount(s, c) = AtLeastZero(k)
      BY <1>1 DEF MarginSafeDiscount, n
    <2> QED
      BY <2>1, <1>3 DEF AtLeastZero
  <1> HIDE DEF k
  <1>5. 2 * s * x <= 2 * s * k
    <2>1. s * x <= s * k
      BY <1>1, <1>3, <1>4
    <2> QED
      BY <1>3, <2>1
  <1>6. 2 * s * x <= 2 * n + s
    BY <1>2, <1>3, <1>5
  <1> QED
    BY <1>6 DEF Hundred

(* What the tool returns has its type.                                      *)
LEMMA EvaluationType ==
    ASSUME NEW p \in Products \cup {NoProduct}, NEW q \in Quantities, NEW r \in Percents
    PROVE  Evaluation(p, q, r) \in Evaluations /\ IsGuidance(Evaluation(p, q, r))
  <1>1. CASE p = NoProduct
    <2>1. Evaluation(p, q, r) = NoEvaluation
      BY <1>1 DEF Evaluation
    <2>2. NoEvaluation \in Evaluations
      BY DEF NoEvaluation, Evaluations, Hundred
    <2> QED
      BY <1>1, <2>1, <2>2 DEF IsGuidance
  <1>2. CASE p # NoProduct
    <2>1. Sell[p] \in Nat /\ Cost[p] \in Nat /\ Stock[p] \in Nat /\ q \in Nat /\ r \in Nat
      BY <1>2, ProductsAssumption, ChoicesAssumption
    <2>2. MaxDiscount(Sell[p], Cost[p], q) \in 0 .. Hundred
      BY <2>1, MaxDiscountType
    <2>3. ApprovalRequired(Sell[p], Cost[p], Stock[p], q, r) \in BOOLEAN
      BY DEF ApprovalRequired
    <2>4. Evaluation(p, q, r) \in Evaluations
      BY <1>2, <2>2, <2>3 DEF Evaluation, Evaluations
    <2>5. IsGuidance(Evaluation(p, q, r))
      BY <1>2 DEF IsGuidance
    <2> QED
      BY <2>4, <2>5
  <1> QED
    BY <1>1, <1>2

(* An evaluation that needs no approval allows what is within it.           *)
LEMMA WithinEvaluationIsAllowed ==
    ASSUME NEW e, IsGuidance(e), e \notin {Nothing, NoEvaluation} \cup Claims,
           ~ e.approval, NEW x \in Nat, ~ (x > e.max)
    PROVE  Allows(e, x)
  <1>1. PICK p \in Products, q \in Quantities, r \in Percents : e = Evaluation(p, q, r)
    BY DEF IsGuidance
  <1>2. /\ Sell[p] \in Nat /\ Cost[p] \in Nat /\ Stock[p] \in Nat
        /\ q \in Nat /\ r \in Nat /\ x \in Nat /\ p # NoProduct
    BY ProductsAssumption, ChoicesAssumption
  <1>3. /\ e.product = p /\ e.quantity = q
        /\ e.max = MaxDiscount(Sell[p], Cost[p], q)
        /\ ~ ApprovalRequired(Sell[p], Cost[p], Stock[p], q, r)
    BY <1>1, <1>2 DEF Evaluation
  <1>4. q < 100 /\ q <= Stock[p]
    BY <1>2, <1>3 DEF ApprovalRequired
  <1>5. x <= PolicyBand(q) /\ x <= MarginSafeDiscount(Sell[p], Cost[p])
    <2> DEFINE s    == Sell[p]
               c    == Cost[p]
               band   == PolicyBand(q)
               margin == MarginSafeDiscount(s, c)
               least  == MaxDiscount(s, c, q)
    <2>1. s \in Nat /\ c \in Nat
      BY <1>2
    <2>2. band \in Nat /\ margin \in Nat /\ least \in 0 .. Hundred
          /\ least <= band /\ least <= margin
      <3> HIDE DEF s, c
      <3> QED
        BY <1>2, <2>1, MaxDiscountType
    <2>3. ~ (x > least) /\ x \in Nat
      BY <1>2, <1>3
    <2>4. x <= band /\ x <= margin
      <3> HIDE DEF band, margin, least
      <3> QED
        BY <2>2, <2>3 DEF Hundred
    <2> QED
      BY <2>4
  <1>6. x > 0 => KeepsMargin(p, x)
    BY <1>2, <1>5, SafeDiscountKeepsMargin DEF KeepsMargin
  <1> QED
    BY <1>3, <1>4, <1>5, <1>6 DEF Allows

----------------------------------------------------------------------------
(* The steps.                                                               *)

(* Until the rules have been applied nothing passes them.                   *)
LEMMA NotOver == ASSUME stage' # "over" PROVE UnflaggedOfferIsCovered'
  BY DEF UnflaggedOfferIsCovered, FirstNoticed, Noticed, FirstGuided, HasGuidance, Allows,
         KeepsMargin

(* When a task ends, what it shows is safe if its record is.                *)
LEMMA EndingStep ==
    ASSUME IInv, Retrieving,
           NEW status \in {"completed", "failed"},
           NEW shown \in SUBSET (Data \cup {"range"}),
           NEW guidance \in Evaluations \cup Claims \cup {Nothing}, IsGuidance(guidance),
           guidance \in {Nothing, NoEvaluation} \cup Claims \/ status = "completed",
           role \notin {"owner", "investor"} => shown \subseteq Public \cup {"range"},
           EndRetrieval(status, shown, guidance)
    PROVE  IInv'
  <1> DEFINE new == [shown |-> shown, guidance |-> guidance]
  <1>1. /\ tasks \in Seq(TaskRecords) /\ new \in TaskRecords
        /\ tasks' = Append(tasks, new)
    BY DEF IInv, TypeOK, TaskRecords, EndRetrieval
  <1>2. /\ tasks' \in Seq(TaskRecords)
        /\ \A i \in DOMAIN tasks' :
              \/ i = Len(tasks') /\ tasks'[i] = new
              \/ i \in DOMAIN tasks /\ tasks'[i] = tasks[i]
    <2> HIDE DEF new
    <2> QED
      BY <1>1
  <1>3. TypeOK'
    <2>1. calls' \in 0 .. MaxCalls
      BY BoundsAssumption DEF EndRetrieval
    <2>2. /\ gathered' \subseteq Data /\ judged' \in Evaluations \cup {Nothing}
          /\ retriever' \in {"running", "completed", "failed"}
      BY DEF EndRetrieval
    <2> QED
      BY <1>2, <2>1, <2>2 DEF IInv, TypeOK, EndRetrieval, advice, reply
  <1>4. GatheredIsPublic' /\ PolicyAnswered' /\ UnflaggedOfferIsCovered'
    BY NotOver DEF IInv, GatheredIsPublic, PolicyAnswered, EndRetrieval, Retrieving, advice
  <1>5. PromptHoldsNoInternals'
    BY <1>2 DEF IInv, PromptHoldsNoInternals, EndRetrieval, Public
  <1>6. GuidanceIsEvaluated'
    BY <1>2 DEF IInv, GuidanceIsEvaluated, EndRetrieval, IsGuidance
  <1>7. OneEvaluation'
    <2>1. /\ retriever = "running" /\ retriever' = status
          /\ internal' = internal
      BY DEF Retrieving, EndRetrieval
    <2>2. internal => \A i \in DOMAIN tasks :
                        tasks[i].guidance \in {Nothing, NoEvaluation} \cup Claims
      BY <2>1 DEF IInv, OneEvaluation
    <2> SUFFICES ASSUME internal, NEW i \in DOMAIN tasks'
                 PROVE  \/ tasks'[i].guidance \in ({Nothing, NoEvaluation} \cup Claims)
                        \/ i = Len(tasks') /\ retriever' = "completed"
      BY <2>1 DEF OneEvaluation, NoEvaluation, Claims
    <2>3. new.guidance = guidance
      OBVIOUS
    <2> QED
      BY <1>2, <2>1, <2>2, <2>3
  <1> QED
    BY <1>3, <1>4, <1>5, <1>6, <1>7 DEF IInv

LEMMA InitIInv == Init => IInv
  <1> SUFFICES ASSUME Init PROVE IInv
    OBVIOUS
  <1>1. TypeOK
    BY BoundsAssumption DEF Init, TypeOK, Replies
  <1> QED
    BY <1>1 DEF Init, IInv, GatheredIsPublic, PromptHoldsNoInternals, GuidanceIsEvaluated,
                IsGuidance, OneEvaluation, PolicyAnswered, UnflaggedOfferIsCovered

(* There is a call left to count.                                           *)
LEMMA CallIsCounted ==
    ASSUME IInv, calls < MaxCalls, calls' = calls + 1
    PROVE  calls' \in 0 .. MaxCalls
  <1>1. calls \in 0 .. MaxCalls
    BY DEF IInv, TypeOK
  <1> QED
    BY <1>1, BoundsAssumption

(* A tool that is called adds what it returns, and an evaluation replaces   *)
(* the one before it.                                                       *)
LEMMA CallStep ==
    ASSUME IInv, Retrieving, calls' \in 0 .. MaxCalls,
           gathered' \subseteq Data,
           judged' \in Evaluations \cup {Nothing}, IsGuidance(judged'),
           GatheredIsPublic',
           UNCHANGED <<role, known, internal, attempts, retriever, tasks, advice, stage, reply>>
    PROVE  IInv'
  <1>1. TypeOK'
    BY DEF IInv, TypeOK, advice, reply
  <1>2. PromptHoldsNoInternals'
    BY DEF IInv, PromptHoldsNoInternals
  <1>3. GuidanceIsEvaluated'
    BY DEF IInv, GuidanceIsEvaluated, IsGuidance
  <1>4. PolicyAnswered' /\ OneEvaluation' /\ UnflaggedOfferIsCovered'
    BY NotOver DEF IInv, PolicyAnswered, OneEvaluation, Retrieving, advice
  <1> QED
    BY <1>1, <1>2, <1>3, <1>4 DEF IInv

(* The role of a sender who has tools and is no insider.                    *)
LEMMA OutsiderRole ==
    ASSUME role \in Roles, ~ Denied(role), role \notin {"owner", "investor"}
    PROVE  role \in Outsiders
  BY DEF Roles, Denied, Outsiders, RoleToolMap

LEMMA QueryStep == ASSUME IInv, NEW t \in Tools, Query(t) PROVE IInv'
  <1>1. /\ Retrieving /\ judged' = judged
        /\ gathered' = gathered \cup Returned(t, role)
        /\ role \in Roles /\ internal \in BOOLEAN /\ gathered \subseteq Data
        /\ UNCHANGED <<role, known, internal, attempts, retriever, tasks, advice, stage, reply>>
    BY DEF IInv, TypeOK, Query, CanCall
  <1>2. calls' \in 0 .. MaxCalls
    BY CallIsCounted DEF Query, CanCall
  <1>3. gathered' \subseteq Data
    BY <1>1, ReturnedType
  <1>4. GatheredIsPublic'
    <2> SUFFICES ASSUME role \notin {"owner", "investor"}, judged = Nothing
                 PROVE  gathered' \subseteq Public
      BY <1>1 DEF GatheredIsPublic
    <2>1. gathered \subseteq Public
      BY DEF IInv, GatheredIsPublic
    <2>2. role \in Outsiders
      BY <1>1, OutsiderRole DEF Query, CanCall
    <2>3. Returned(t, role) \subseteq Public
      BY <1>1, <2>2, LentQueriesArePublic DEF Query, CanCall
    <2> QED
      BY <1>1, <2>1, <2>3
  <1>5. judged' \in Evaluations \cup {Nothing} /\ IsGuidance(judged')
    BY <1>1 DEF IInv, TypeOK, GuidanceIsEvaluated
  <1> QED
    BY <1>1, <1>2, <1>3, <1>4, <1>5, CallStep

LEMMA CallUnboundStep == ASSUME IInv, NEW t \in Tools, CallUnbound(t) PROVE IInv'
  <1>1. /\ Retrieving /\ judged' = judged /\ gathered' = gathered
        /\ UNCHANGED <<role, known, internal, attempts, retriever, tasks, advice, stage, reply>>
    BY DEF CallUnbound
  <1>2. calls' \in 0 .. MaxCalls
    BY CallIsCounted DEF CallUnbound
  <1>3. /\ gathered' \subseteq Data
        /\ judged' \in Evaluations \cup {Nothing} /\ IsGuidance(judged')
        /\ GatheredIsPublic'
    BY <1>1 DEF IInv, TypeOK, GuidanceIsEvaluated, GatheredIsPublic
  <1> QED
    BY <1>1, <1>2, <1>3, CallStep

LEMMA EvaluateStep ==
    ASSUME IInv, NEW p \in Products \cup {NoProduct}, NEW q \in Quantities, NEW r \in Percents,
           Evaluate(p, q, r)
    PROVE  IInv'
  <1>1. /\ Retrieving /\ judged' = Evaluation(p, q, r)
        /\ gathered' = gathered \cup Returned(Discount, role)
        /\ role \in Roles /\ gathered \subseteq Data
        /\ UNCHANGED <<role, known, internal, attempts, retriever, tasks, advice, stage, reply>>
    BY DEF IInv, TypeOK, Evaluate, CanCall
  <1>2. calls' \in 0 .. MaxCalls
    BY CallIsCounted DEF Evaluate, CanCall
  <1>3. gathered' \subseteq Data
    BY <1>1, ReturnedType DEF Tools
  <1>4. judged' \in Evaluations \cup {Nothing} /\ IsGuidance(judged')
    BY <1>1, EvaluationType
  <1>5. judged' # Nothing
    BY <1>1, NothingAssumption, EvaluationType
  <1>6. GatheredIsPublic'
    BY <1>5 DEF GatheredIsPublic
  <1> QED
    BY <1>1, <1>2, <1>3, <1>4, <1>6, CallStep

LEMMA FinishRetrievalStep == ASSUME IInv, FinishRetrieval PROVE IInv'
  <1> DEFINE guidance == IF role = "owner" THEN Nothing ELSE judged
  <1>1. Retrieving /\ EndRetrieval("completed", Shown, guidance)
    BY DEF FinishRetrieval
  <1>2. Shown \in SUBSET (Data \cup {"range"})
    <2>1. role \in Roles /\ gathered \subseteq Data
      BY DEF IInv, TypeOK
    <2>2. Returned(Discount, role) \subseteq Data
      BY <2>1, ReturnedType DEF Tools
    <2> QED
      BY <2>1, <2>2 DEF Shown
  <1>3. guidance \in Evaluations \cup Claims \cup {Nothing} /\ IsGuidance(guidance)
    BY DEF IInv, TypeOK, GuidanceIsEvaluated, IsGuidance
  <1>4. role \notin {"owner", "investor"} => Shown \subseteq Public \cup {"range"}
    BY DEF IInv, GatheredIsPublic, Shown
  <1> QED
    BY <1>1, <1>2, <1>3, <1>4, EndingStep

(* A task whose result is text.                                             *)
LEMMA TextStep ==
    ASSUME IInv, NEW claim \in Claims \cup {Nothing},
           FailRetrieval(claim) \/ AnswerInText(claim)
    PROVE  IInv'
  <1>1. /\ Retrieving
        /\ EndRetrieval("failed", {}, claim) \/ EndRetrieval("completed", {}, claim)
    BY DEF FailRetrieval, AnswerInText
  <1>2. IsGuidance(claim)
    BY DEF IsGuidance
  <1> QED
    BY <1>1, <1>2, EndingStep

LEMMA NormalizedType ==
    ASSUME NEW v \in Verdicts, NEW combining \in BOOLEAN
    PROVE  Normalized(v, combining) \in Verdicts
  BY DEF Normalized, Verdicts

(* A verdict of the policy agent, or none.                                  *)
LEMMA PolicyStep ==
    ASSUME IInv, Advising,
           \/ policy' = "completed" /\ verdicts' # {} /\ verdicts' \subseteq Verdicts
           \/ policy' = "failed" /\ verdicts' = verdicts,
           UNCHANGED <<role, known, internal, attempts, retrieval, stage, reply>>
    PROVE  IInv'
  <1>1. TypeOK'
    BY DEF IInv, TypeOK, retrieval, reply
  <1>2. GatheredIsPublic' /\ PromptHoldsNoInternals'
    BY DEF IInv, GatheredIsPublic, PromptHoldsNoInternals, retrieval
  <1>3. GuidanceIsEvaluated' /\ OneEvaluation'
    BY DEF IInv, GuidanceIsEvaluated, IsGuidance, OneEvaluation, retrieval
  <1>4. PolicyAnswered' /\ UnflaggedOfferIsCovered'
    BY NotOver DEF IInv, PolicyAnswered, Advising
  <1> QED
    BY <1>1, <1>2, <1>3, <1>4 DEF IInv

LEMMA AdviseStep ==
    ASSUME IInv, NEW v \in Verdicts, NEW combining \in BOOLEAN, Advise(v, combining)
    PROVE  IInv'
  <1>1. verdicts' # {} /\ verdicts' \subseteq Verdicts
    BY NormalizedType DEF IInv, TypeOK, Advise
  <1> QED
    BY <1>1, PolicyStep DEF Advise

LEMMA AdviseWithoutJudgingStep == ASSUME IInv, AdviseWithoutJudging PROVE IInv'
  <1>1. verdicts' # {} /\ verdicts' \subseteq Verdicts
    <2>1. [verdict |-> "not_covered", hard |-> FALSE] \in Verdicts
      BY DEF Verdicts
    <2> QED
      BY <2>1 DEF IInv, TypeOK, AdviseWithoutJudging
  <1> QED
    BY <1>1, PolicyStep DEF AdviseWithoutJudging

LEMMA FailPolicyStep == ASSUME IInv, FailPolicy PROVE IInv'
  BY PolicyStep DEF FailPolicy

(* The orchestrator asks the agents again, or the draft is due.             *)
LEMMA RoutingStep ==
    ASSUME IInv, stage = "agents",
           attempts' \in 1 .. MaxAttempts,
           retriever' \in {"running", "completed", "failed"},
           policy' \in {"running", "completed", "failed"},
           policy' = "completed" => policy = "completed",
           internal /\ retriever = "completed" => retriever' = "completed",
           stage' \in {"agents", "reply"},
           internal /\ stage' = "reply" => policy' = "completed",
           UNCHANGED <<role, known, internal, calls, gathered, judged, tasks, verdicts, reply>>
    PROVE  IInv'
  <1>1. TypeOK'
    BY DEF IInv, TypeOK, reply
  <1>2. GatheredIsPublic' /\ PromptHoldsNoInternals'
    BY DEF IInv, GatheredIsPublic, PromptHoldsNoInternals
  <1>3. GuidanceIsEvaluated' /\ OneEvaluation'
    BY DEF IInv, GuidanceIsEvaluated, IsGuidance, OneEvaluation
  <1>4. PolicyAnswered' /\ UnflaggedOfferIsCovered'
    BY NotOver DEF IInv, PolicyAnswered
  <1> QED
    BY <1>1, <1>2, <1>3, <1>4 DEF IInv

(* There is an attempt left to count.                                       *)
LEMMA AttemptIsCounted ==
    ASSUME IInv, attempts < MaxAttempts, attempts' = attempts + 1
    PROVE  attempts' \in 1 .. MaxAttempts
  <1>1. attempts \in 1 .. MaxAttempts
    BY DEF IInv, TypeOK
  <1> QED
    BY <1>1, BoundsAssumption

LEMMA AskAgainStep == ASSUME IInv, AskAgain PROVE IInv'
  <1>1. attempts' \in 1 .. MaxAttempts
    BY AttemptIsCounted DEF AskAgain
  <1>2. /\ retriever' \in {"running", "completed", "failed"}
        /\ policy' \in {"running", "completed", "failed"}
        /\ policy' = "completed" => policy = "completed"
        /\ retriever = "completed" => retriever' = "completed"
    BY DEF IInv, TypeOK, AskAgain
  <1> QED
    BY <1>1, <1>2, RoutingStep DEF AskAgain

LEMMA AskRetrieverMoreStep == ASSUME IInv, AskRetrieverMore PROVE IInv'
  <1>1. attempts' \in 1 .. MaxAttempts
    BY AttemptIsCounted DEF AskRetrieverMore
  <1> QED
    BY <1>1, RoutingStep DEF IInv, TypeOK, AskRetrieverMore, advice

LEMMA RouteToReplyStep == ASSUME IInv, RouteToReply PROVE IInv'
  <1>1. internal => policy = "completed"
    BY DEF IInv, TypeOK, RouteToReply, Answered
  <1> QED
    BY <1>1, RoutingStep DEF IInv, TypeOK, RouteToReply, retrieval, advice

LEMMA DraftStep == ASSUME IInv, NEW offers \in Replies, Draft(offers) PROVE IInv'
  <1>1. TypeOK'
    BY DEF IInv, TypeOK, Draft, retrieval, advice
  <1>2. GatheredIsPublic' /\ PromptHoldsNoInternals'
    BY DEF IInv, GatheredIsPublic, PromptHoldsNoInternals, Draft, retrieval
  <1>3. GuidanceIsEvaluated' /\ OneEvaluation'
    BY DEF IInv, GuidanceIsEvaluated, IsGuidance, OneEvaluation, Draft, retrieval
  <1>4. PolicyAnswered' /\ UnflaggedOfferIsCovered'
    BY NotOver DEF IInv, PolicyAnswered, Draft, advice
  <1> QED
    BY <1>1, <1>2, <1>3, <1>4 DEF IInv

----------------------------------------------------------------------------
(* The rules.                                                               *)

(* The first task with guidance exists, because the indices of tasks are    *)
(* well ordered.                                                            *)
LEMMA FirstGuidance ==
    ASSUME tasks \in Seq(TaskRecords), Guided
    PROVE  \E i \in DOMAIN tasks : FirstGuided(i) /\ Guidance = tasks[i].guidance
  <1> DEFINE T == {i \in DOMAIN tasks : HasGuidance(i)}
  <1>1. T \subseteq Nat /\ T # {}
    BY DEF Guided
  <1>2. PICK i \in T : \A j \in T : ~ (<<j, i>> \in OpToRel(<, Nat))
    <2> HIDE DEF T
    <2> QED
      BY <1>1, NatLessThanWellFounded, WFMin
  <1>3. \A j \in T : ~ (j < i)
    BY <1>1, <1>2 DEF OpToRel
  <1>4. i \in DOMAIN tasks /\ FirstGuided(i)
    <2>1. i \in DOMAIN tasks /\ HasGuidance(i)
      OBVIOUS
    <2>2. ASSUME NEW j \in 1 .. i - 1 PROVE ~ HasGuidance(j)
      <3>1. j \in DOMAIN tasks /\ j < i
        BY <2>1
      <3> QED
        BY <3>1, <1>3
    <2> QED
      BY <2>1, <2>2 DEF FirstGuided
  <1> QED
    BY <1>4 DEF Guidance

(* Nobody flags only what the first guidance covers.                        *)
LEMMA JudgeStep == ASSUME IInv, Judge PROVE IInv'
  <1>1. /\ stage = "rules" /\ stage' = "over"
        /\ UNCHANGED <<role, known, internal, attempts, retriever, calls, gathered, judged,
                       tasks, policy, verdicts, offered>>
    BY DEF Judge, retrieval, advice
  <1>2. TypeOK'
    <2>1. flags' \subseteq {"discount", "policy violation", "policy approval"}
      BY DEF Judge, PolicyFlags
    <2> QED
      BY <1>1, <2>1 DEF IInv, TypeOK
  <1>3. GatheredIsPublic' /\ PromptHoldsNoInternals'
    BY <1>1 DEF IInv, GatheredIsPublic, PromptHoldsNoInternals
  <1>4. GuidanceIsEvaluated' /\ OneEvaluation'
    BY <1>1 DEF IInv, GuidanceIsEvaluated, IsGuidance, OneEvaluation
  <1>5. PolicyAnswered'
    BY <1>1 DEF IInv, PolicyAnswered
  <1>6. UnflaggedOfferIsCovered'
    <2> SUFFICES ASSUME role # "owner", flags' = {}
                 PROVE  UnflaggedOfferIsCovered'
      BY <1>1 DEF UnflaggedOfferIsCovered
    <2>1. ~ DiscountFlagged /\ PolicyFlags = {}
      BY DEF Judge
    <2> DEFINE Covered(i) ==
                 \E k \in DOMAIN tasks :
                    /\ FirstGuided(k)
                    /\ \/ tasks[k].guidance \in Claims
                       \/ /\ Allows(tasks[k].guidance, offered[i].percent)
                          /\ internal => \A j \in DOMAIN tasks : j > k => ~ HasGuidance(j)
    <2>2. ASSUME NEW i \in DOMAIN offered, FirstNoticed(i), offered[i].percent < Hundred
          PROVE  Covered(i)
      <3> DEFINE x == offered[i].percent
      <3>1. x \in Nat /\ PercentRead(offered[i]) = x
        <4>1. offered \in Replies
          BY DEF IInv, TypeOK
        <4>2. offered[i] \in Offers
          BY <4>1 DEF Replies
        <4>3. x \in Nat
          BY <4>2, OffersAssumption
        <4> QED
          BY <2>2, <4>3 DEF PercentRead, Hundred
      <3>2. Guided /\ ~ Guidance.approval /\ ~ (x > Guidance.max)
        BY <2>1, <2>2, <3>1 DEF DiscountFlagged
      <3>3. PICK k \in DOMAIN tasks : FirstGuided(k) /\ Guidance = tasks[k].guidance
        BY <3>2, FirstGuidance DEF IInv, TypeOK
      <3> DEFINE e == tasks[k].guidance
      <3>4. IsGuidance(e) /\ e # Nothing /\ e # NoEvaluation
        BY <3>3 DEF IInv, GuidanceIsEvaluated, FirstGuided, HasGuidance
      <3>5. CASE e \in Claims
        BY <3>3, <3>5
      <3>6. CASE e \notin Claims
        <4>1. Allows(e, x)
          <5>1. /\ IsGuidance(e) /\ e \notin {Nothing, NoEvaluation} \cup Claims
                /\ ~ e.approval /\ ~ (x > e.max)
            BY <3>2, <3>3, <3>4, <3>6
          <5> HIDE DEF e, x
          <5> QED
            BY <3>1, <5>1, WithinEvaluationIsAllowed
        <4>2. internal => k = Len(tasks)
          BY <3>4, <3>6 DEF IInv, OneEvaluation
        <4>3. \A j \in DOMAIN tasks : ~ (j > Len(tasks))
          <5>1. tasks \in Seq(TaskRecords)
            BY DEF IInv, TypeOK
          <5> QED
            BY <5>1
        <4>4. internal => \A j \in DOMAIN tasks : j > k => ~ HasGuidance(j)
          BY <4>2, <4>3
        <4> QED
          BY <3>3, <4>1, <4>4
      <3> QED
        BY <3>5, <3>6
    <2>3. \A v \in verdicts :
            v.verdict \notin {"disallowed", "requires_approval"} /\ ~ v.hard
      <3> SUFFICES ASSUME NEW v \in verdicts
                   PROVE  v.verdict \notin {"disallowed", "requires_approval"} /\ ~ v.hard
        OBVIOUS
      <3>1. "policy violation" \notin PolicyFlags /\ "policy approval" \notin PolicyFlags
        BY <2>1
      <3> QED
        BY <3>1 DEF PolicyFlags
    <2>4. internal => verdicts # {}
      BY <1>1 DEF IInv, PolicyAnswered
    <2>5. UnflaggedOfferIsCovered' <=> (stage' = "over" /\ role # "owner" /\ flags' = {} =>
            /\ \A i \in DOMAIN offered :
                 FirstNoticed(i) /\ offered[i].percent < Hundred => Covered(i)
            /\ \A v \in verdicts :
                 v.verdict \notin {"disallowed", "requires_approval"} /\ ~ v.hard
            /\ internal => verdicts # {})
      BY <1>1 DEF UnflaggedOfferIsCovered, FirstNoticed, FirstGuided, HasGuidance, Allows,
                  KeepsMargin
    <2> QED
      BY <2>2, <2>3, <2>4, <2>5
  <1> QED
    BY <1>2, <1>3, <1>4, <1>5, <1>6 DEF IInv

----------------------------------------------------------------------------
(* Every step preserves the inductive invariant.                            *)
LEMMA NextIInv == ASSUME IInv, [Next]_vars PROVE IInv'
  <1>1. CASE \E t \in Tools : Query(t) \/ CallUnbound(t)
    BY <1>1, QueryStep, CallUnboundStep
  <1>2. CASE \E p \in Products \cup {NoProduct}, q \in Quantities, r \in Percents :
               Evaluate(p, q, r)
    BY <1>2, EvaluateStep
  <1>3. CASE \/ FinishRetrieval
            \/ \E claim \in Claims \cup {Nothing} : FailRetrieval(claim) \/ AnswerInText(claim)
    BY <1>3, FinishRetrievalStep, TextStep
  <1>4. CASE \E v \in Verdicts, combining \in BOOLEAN : Advise(v, combining)
    BY <1>4, AdviseStep
  <1>5. CASE AdviseWithoutJudging \/ FailPolicy
    BY <1>5, AdviseWithoutJudgingStep, FailPolicyStep
  <1>6. CASE AskAgain \/ AskRetrieverMore \/ RouteToReply
    BY <1>6, AskAgainStep, AskRetrieverMoreStep, RouteToReplyStep
  <1>7. CASE \E offers \in Replies : Draft(offers)
    BY <1>7, DraftStep
  <1>8. CASE Judge
    BY <1>8, JudgeStep
  <1>9. CASE UNCHANGED vars
    <2>1. UNCHANGED <<role, known, internal, attempts, retriever, calls, gathered, judged,
                      tasks, policy, verdicts, stage, offered, flags>>
      BY <1>9 DEF vars, retrieval, advice, reply
    <2>2. TypeOK' /\ PolicyAnswered'
      BY <2>1 DEF IInv, TypeOK, PolicyAnswered
    <2>3. GatheredIsPublic' /\ PromptHoldsNoInternals'
      BY <2>1 DEF IInv, GatheredIsPublic, PromptHoldsNoInternals
    <2>4. GuidanceIsEvaluated'
      BY <2>1 DEF IInv, GuidanceIsEvaluated, IsGuidance
    <2>5. OneEvaluation'
      BY <2>1 DEF IInv, OneEvaluation
    <2>6. UnflaggedOfferIsCovered'
      BY <2>1 DEF IInv, UnflaggedOfferIsCovered, FirstNoticed, Noticed, FirstGuided,
                  HasGuidance, Allows, KeepsMargin
    <2> QED
      BY <2>2, <2>3, <2>4, <2>5, <2>6 DEF IInv
  <1> QED
    BY <1>1, <1>2, <1>3, <1>4, <1>5, <1>6, <1>7, <1>8, <1>9 DEF Next

(* The inductive invariant holds throughout.                                *)
THEOREM Invariance == Spec => []IInv
  <1>1. Init => IInv
    BY InitIInv
  <1>2. IInv /\ [Next]_vars => IInv'
    BY NextIInv
  <1> QED
    BY <1>1, <1>2, PTL DEF Spec

(* The types, and the guidance is a percentage.                             *)
THEOREM TypeCorrect == Spec => []TypeOK
  <1>1. IInv => TypeOK
    BY DEF IInv
  <1> QED
    BY <1>1, Invariance, PTL

(* No cost data before the LLM that writes to an outsider, for every role   *)
(* map of the code and any number of calls and attempts.                    *)
THEOREM InternalsStayInside == Spec => []PromptHoldsNoInternals
  <1>1. IInv => PromptHoldsNoInternals
    BY DEF IInv
  <1> QED
    BY <1>1, Invariance, PTL

(* An offer nobody flagged keeps the margin and the policies, for all       *)
(* prices, stocks, quantities and percentages.                              *)
THEOREM UnflaggedOffersAreCovered == Spec => []UnflaggedOfferIsCovered
  <1>1. IInv => UnflaggedOfferIsCovered
    BY DEF IInv
  <1> QED
    BY <1>1, Invariance, PTL
=============================================================================
