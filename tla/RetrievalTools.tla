--------------------------- MODULE RetrievalTools ---------------------------
(* tools/retrieval_tools.py and tools/role_permissions.py: which data the   *)
(* query functions return, to whom they are given, and the arithmetic of    *)
(* the one that judges a discount.  Rows and columns are reduced to what    *)
(* matters for who may see them:                                            *)
(*   "catalog"   names, selling prices and stock of the products            *)
(*   "own"       rows of the sender, found by its entity id                 *)
(*   "others"    rows of other customers, suppliers or partners             *)
(*   "internal"  cost prices, margins, returns                              *)
(*   "totals"    counts and sums over all rows                              *)
EXTENDS Integers

Data == {"catalog", "own", "others", "internal", "totals"}

----------------------------------------------------------------------------
(* What each query returns.  Every one filters by the owner as well.        *)

CustomerQueries == [
    get_product_catalog  |-> {"catalog"},
    get_customer_orders  |-> {"own"},
    get_customer_profile |-> {"own"}]

SupplierQueries == [
    get_supplier_profile   |-> {"own"},
    get_supplier_contracts |-> {"own", "catalog"},
    get_product_stock      |-> {"catalog"}]

InvestorQueries == [
    get_full_product_table |-> {"catalog", "internal"},
    get_all_orders         |-> {"others"},
    get_customer_count     |-> {"totals"},
    get_supply_overview    |-> {"others", "catalog"},
    get_product_roi        |-> {"catalog", "internal", "totals"},
    get_sales_stats        |-> {"totals"}]

PartnerQueries == [
    get_partner_profile    |-> {"own"},
    get_partner_agreements |-> {"own"},
    get_partner_products   |-> {"own", "catalog"}]

ProductSearches == [
    semantic_search_product_catalog    |-> {"catalog"},
    semantic_search_full_product_table |-> {"catalog", "internal"}]

ContractSearches == [
    semantic_search_supplier_contracts     |-> {"own", "catalog"},
    semantic_search_supply_overview        |-> {"others", "catalog"},
    semantic_search_all_partner_agreements |-> {"others"},
    semantic_search_partner_agreements     |-> {"own"}]

Discount == "evaluate_discount_request"

Queries == UNION {DOMAIN CustomerQueries, DOMAIN SupplierQueries, DOMAIN InvestorQueries,
                  DOMAIN PartnerQueries, DOMAIN ProductSearches, DOMAIN ContractSearches}

Tools == Queries \cup {Discount}

Columns(t) ==
    IF t \in DOMAIN CustomerQueries THEN CustomerQueries[t]
    ELSE IF t \in DOMAIN SupplierQueries THEN SupplierQueries[t]
    ELSE IF t \in DOMAIN InvestorQueries THEN InvestorQueries[t]
    ELSE IF t \in DOMAIN PartnerQueries THEN PartnerQueries[t]
    ELSE IF t \in DOMAIN ProductSearches THEN ProductSearches[t]
    ELSE IF t \in DOMAIN ContractSearches THEN ContractSearches[t]
    ELSE {"catalog", "internal"}

----------------------------------------------------------------------------
(* Who may call what.                                                       *)

RoleToolMap == [
    customer |-> DOMAIN CustomerQueries
                   \cup {Discount, "semantic_search_product_catalog"},
    supplier |-> DOMAIN SupplierQueries
                   \cup {"semantic_search_product_catalog",
                         "semantic_search_supplier_contracts"},
    investor |-> DOMAIN InvestorQueries
                   \cup {"semantic_search_full_product_table",
                         "semantic_search_supply_overview",
                         "semantic_search_all_partner_agreements"},
    partner  |-> DOMAIN PartnerQueries
                   \cup {"semantic_search_product_catalog",
                         "semantic_search_partner_agreements"}]

Roles == DOMAIN RoleToolMap \cup {"owner", "unknown"}

(* get_tools_for_role: the owner has every function; a role that is not in  *)
(* the map is an error.                                                     *)
Denied(role) == role \notin DOMAIN RoleToolMap \cup {"owner"}

ToolsForRole(role) == IF role = "owner" THEN Tools ELSE RoleToolMap[role]

(* _build_tools_for_request: a task may add the discount tool for any role. *)
BoundTools(role, allowInternal) ==
    ToolsForRole(role) \cup IF allowInternal THEN {Discount} ELSE {}

(* What a bound tool returns: for the owner the catalog tools read the full *)
(* table.                                                                   *)
Returned(t, role) ==
    IF role = "owner" /\ t = "get_product_catalog" THEN Columns("get_full_product_table")
    ELSE IF role = "owner" /\ t = "semantic_search_product_catalog"
         THEN Columns("semantic_search_full_product_table")
    ELSE Columns(t)

(* Tools that look rows up by the sender: they raise when its id is none.   *)
ScopedToSender(t) == "own" \in Columns(t)

----------------------------------------------------------------------------
(* evaluate_discount_request, with percentages in hundredths of a percent.  *)

Hundred == 10000

PolicyBand(quantity) ==
    IF quantity >= 100 THEN 0
    ELSE IF quantity >= 50 THEN 1500
    ELSE IF quantity >= 10 THEN 1000
    ELSE 0

(* round(_, 2) of a percentage                                              *)
Rounded(n, d) == (2 * n + d) \div (2 * d)

AtLeastZero(n) == IF n < 0 THEN 0 ELSE n

(* Mutant of MarginSafeDiscount: below the margin it is negative.           *)
MarginUncut(sell, cost) ==
    IF sell > 0 THEN Rounded(Hundred * sell - 11200 * cost, sell) ELSE 0

(* The largest discount that leaves 12% over the cost.                      *)
MarginSafeDiscount(sell, cost) ==
    IF sell > 0 THEN AtLeastZero(Rounded(Hundred * sell - 11200 * cost, sell)) ELSE 0

(* Mutant of MaxDiscount: only the quantity counts.                         *)
MaxDiscountByBand(sell, cost, quantity) == PolicyBand(quantity)

MaxDiscount(sell, cost, quantity) ==
    LET band   == PolicyBand(quantity)
        margin == MarginSafeDiscount(sell, cost)
    IN  IF band < margin THEN band ELSE margin

ApprovalRequired(sell, cost, stock, quantity, requested) ==
    \/ quantity >= 100
    \/ requested > MaxDiscount(sell, cost, quantity)
    \/ quantity > stock
=============================================================================
