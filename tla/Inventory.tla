----------------------------- MODULE Inventory -----------------------------
(* The stock of the products and the orders that draw on it.  A customer    *)
(* buys through orders/buy/route.ts, which looks at the stock, and then     *)
(* backend/api/__init__.py, which locks the row, looks again and commits    *)
(* the smaller stock and the order together.  The owner edits the stock in  *)
(* two ways, and both write a number worked out from a stock read earlier:  *)
(* stock/route.ts (a difference) and [productId]/route.ts (the form).       *)
EXTENDS Integers, FiniteSets

CONSTANTS
    Products,     \* product ids that may be created
    Customers,    \* rows of the customers table
    Buyers,       \* customers' browser sessions
    Edits,        \* requests by which the owner edits a stock
    Amounts,      \* stocks the owner enters, and quantities bought
    MaxAttempts,  \* bound: clicks of one buyer on "confirm"
    NoProduct, NoCustomer

ASSUME AmountsAssumption == Amounts \subseteq Nat
ASSUME MaxAttemptsAssumption == MaxAttempts \in Nat
ASSUME NoneAssumption == NoProduct \notin Products /\ NoCustomer \notin Customers

VARIABLES
    catalog,     \* products in the table
    retired,     \* products deleted from it
    customers,   \* customers in the table
    stock,       \* products.stock_number
    orders,      \* orders in the table
    purchase,    \* Buyers -> how far the current purchase request is
    edit,        \* Edits -> how far the owner's request is
    intended,    \* history: what the owner's edits meant to add to each product
    overwritten  \* history: products some edit of which replaced a stock it had not read

vars == <<catalog, retired, customers, stock, orders, purchase, edit, intended,
          overwritten>>

Orders == [buyer : Buyers, attempt : 1..MaxAttempts, customer : Customers,
           product : Products, quantity : Amounts \ {0}]

(* "sent": the route has called the back end; "locked": the row is held and *)
(* the stock read; "saved": committed, not answered; "refused": an error    *)
(* answer and nothing committed; "lost": an error after the commit.         *)
PurchaseStates == {"idle", "sent", "locked", "saved", "placed", "refused", "lost"}

Purchases == [state : PurchaseStates, attempt : 0..MaxAttempts,
              customer : Customers \cup {NoCustomer},
              product : Products \cup {NoProduct},
              quantity : Amounts \cup {1}, seen : Nat]

EditStates == {"idle", "adjusting", "editing", "done"}

EditRequests == [state : EditStates, product : Products \cup {NoProduct},
                 seen : Nat, entered : Int]

(* A request that has not begun or has ended holds nothing.                 *)
Blank(state, attempt) == [state |-> state, attempt |-> attempt, customer |-> NoCustomer,
                          product |-> NoProduct, quantity |-> 1, seen |-> 0]

BlankEdit(state) == [state |-> state, product |-> NoProduct, seen |-> 0, entered |-> 0]

Init == /\ catalog = {}
        /\ retired = {}
        /\ customers = Customers
        /\ stock = [p \in Products |-> 0]
        /\ orders = {}
        /\ purchase = [b \in Buyers |-> Blank("idle", 0)]
        /\ edit = [e \in Edits |-> BlankEdit("idle")]
        /\ intended = [p \in Products |-> 0]
        /\ overwritten = {}

End(b, state) == purchase' = [purchase EXCEPT ![b] = Blank(state, @.attempt)]

(* The mutated forms below are what the mutation runs put in the place of   *)
(* the definition after them.                                               *)
LockedByNobody(p) == FALSE

(* SELECT ... FOR UPDATE holds the row until the transaction ends; another  *)
(* lock, UPDATE or DELETE of the row waits, a plain SELECT does not.        *)
Locked(p) == \E b \in Buyers : purchase[b].state = "locked" /\ purchase[b].product = p

----------------------------------------------------------------------------
(* Buying *)

(* A click: a new order id, hence an attempt that nothing ties to the ones  *)
(* before; the route refuses at once when the rows or the stock are missing. *)
Buy(b, c, p, q) ==
    /\ purchase[b].state \in {"idle", "refused", "lost"}
    /\ purchase[b].attempt < MaxAttempts
    /\ purchase' = [purchase EXCEPT ![b] =
         IF c \in customers /\ p \in catalog /\ stock[p] >= q
           THEN [state |-> "sent", attempt |-> @.attempt + 1,
                 customer |-> c, product |-> p, quantity |-> q, seen |-> 0]
           ELSE Blank("refused", @.attempt + 1)]
    /\ UNCHANGED <<catalog, retired, customers, stock, orders, edit, intended, overwritten>>

LockUnchecked(b) ==
    LET p == purchase[b].product
    IN /\ purchase[b].state = "sent"
       /\ ~ Locked(p)
       /\ IF purchase[b].customer \in customers /\ p \in catalog
            THEN purchase' = [purchase EXCEPT ![b].state = "locked", ![b].seen = stock[p]]
            ELSE End(b, "refused")
       /\ UNCHANGED <<catalog, retired, customers, stock, orders, edit, intended, overwritten>>

(* The back end looks the customer up, takes the row and checks the stock   *)
(* the lock lets it see.                                                    *)
Lock(b) ==
    LET p == purchase[b].product
    IN /\ purchase[b].state = "sent"
       /\ ~ Locked(p)
       /\ IF /\ purchase[b].customer \in customers
             /\ p \in catalog
             /\ stock[p] >= purchase[b].quantity
            THEN purchase' = [purchase EXCEPT ![b].state = "locked", ![b].seen = stock[p]]
            ELSE End(b, "refused")
       /\ UNCHANGED <<catalog, retired, customers, stock, orders, edit, intended, overwritten>>

OrderOf(b) == [buyer |-> b, attempt |-> purchase[b].attempt,
               customer |-> purchase[b].customer, product |-> purchase[b].product,
               quantity |-> purchase[b].quantity]

CommitSeparately(b) ==
    LET p == purchase[b].product
    IN /\ purchase[b].state = "locked"
       /\ stock' = [stock EXCEPT ![p] = purchase[b].seen - purchase[b].quantity]
       /\ IF purchase[b].customer \in customers
            THEN orders' = orders \cup {OrderOf(b)} /\ purchase' = [purchase EXCEPT ![b].state = "saved"]
            ELSE UNCHANGED orders /\ End(b, "refused")
       /\ UNCHANGED <<catalog, retired, customers, edit, intended, overwritten>>

(* The stock and the order are flushed in the one commit.  The order refers *)
(* to the customer, so that a customer deleted meanwhile undoes both.       *)
Commit(b) ==
    LET p == purchase[b].product
    IN /\ purchase[b].state = "locked"
       /\ IF purchase[b].customer \in customers
            THEN /\ stock' = [stock EXCEPT ![p] = purchase[b].seen - purchase[b].quantity]
                 /\ orders' = orders \cup {OrderOf(b)}
                 /\ purchase' = [purchase EXCEPT ![b].state = "saved"]
            ELSE UNCHANGED <<stock, orders>> /\ End(b, "refused")
       /\ UNCHANGED <<catalog, retired, customers, edit, intended, overwritten>>

(* Any error before the commit ends in rollback and a 500.                  *)
Rollback(b) ==
    /\ purchase[b].state \in {"sent", "locked"}
    /\ End(b, "refused")
    /\ UNCHANGED <<catalog, retired, customers, stock, orders, edit, intended, overwritten>>

(* The answer reads the committed rows again (commit expires them): when    *)
(* that fails, or the answer is lost, the browser shows a failed purchase.  *)
Answer(b) ==
    /\ purchase[b].state = "saved"
    /\ \/ End(b, "placed")
       \/ End(b, "lost")
    /\ UNCHANGED <<catalog, retired, customers, stock, orders, edit, intended, overwritten>>

----------------------------------------------------------------------------
(* The owner *)

AddProduct(p, n) ==
    /\ p \notin catalog \cup retired
    /\ catalog' = catalog \cup {p}
    /\ stock' = [stock EXCEPT ![p] = n]
    /\ intended' = [intended EXCEPT ![p] = n]
    /\ UNCHANGED <<retired, customers, orders, purchase, edit, overwritten>>

(* Orders refer to their product: the delete of one that was ever bought is *)
(* refused by the database.                                                 *)
DeleteProduct(p) ==
    /\ p \in catalog
    /\ ~ Locked(p)
    /\ \A o \in orders : o.product # p
    /\ catalog' = catalog \ {p}
    /\ retired' = retired \cup {p}
    /\ UNCHANGED <<customers, stock, orders, purchase, edit, intended, overwritten>>

DeleteCustomer(c) ==
    /\ c \in customers
    /\ \A o \in orders : o.customer # c
    /\ customers' = customers \ {c}
    /\ UNCHANGED <<catalog, retired, stock, orders, purchase, edit, intended, overwritten>>

(* The stock route reads the row and refuses a stock below zero.            *)
Adjust(e, p, delta) ==
    /\ edit[e].state = "idle"
    /\ p \in catalog
    /\ delta # 0
    /\ edit' = [edit EXCEPT ![e] =
         IF stock[p] + delta < 0
           THEN BlankEdit("done")
           ELSE [state |-> "adjusting", product |-> p, seen |-> stock[p], entered |-> delta]]
    /\ UNCHANGED <<catalog, retired, customers, stock, orders, purchase, intended, overwritten>>

(* The owner opens the form, which holds the stock of that moment.          *)
OpenForm(e, p, n) ==
    /\ edit[e].state = "idle"
    /\ p \in catalog
    /\ edit' = [edit EXCEPT ![e] = [state |-> "editing", product |-> p,
                                    seen |-> stock[p], entered |-> n]]
    /\ UNCHANGED <<catalog, retired, customers, stock, orders, purchase, intended, overwritten>>

(* The number an edit writes over whatever the stock has become.            *)
Written(e) == IF edit[e].state = "adjusting" THEN edit[e].seen + edit[e].entered
                                             ELSE edit[e].entered

SaveEdit(e) ==
    LET p == edit[e].product
    IN /\ edit[e].state \in {"adjusting", "editing"}
       /\ ~ Locked(p)
       /\ edit' = [edit EXCEPT ![e] = BlankEdit("done")]
       /\ IF p \in catalog
            THEN /\ stock' = [stock EXCEPT ![p] = Written(e)]
                 /\ intended' = [intended EXCEPT ![p] = @ + Written(e) - edit[e].seen]
                 /\ overwritten' = IF stock[p] = edit[e].seen THEN overwritten
                                                              ELSE overwritten \cup {p}
            ELSE UNCHANGED <<stock, intended, overwritten>>
       /\ UNCHANGED <<catalog, retired, customers, orders, purchase>>

----------------------------------------------------------------------------
Next == \/ \E b \in Buyers :
             \/ \E c \in Customers, p \in Products, q \in Amounts \ {0} : Buy(b, c, p, q)
             \/ Lock(b)
             \/ Commit(b)
             \/ Rollback(b)
             \/ Answer(b)
        \/ \E p \in Products : DeleteProduct(p) \/ \E n \in Amounts : AddProduct(p, n)
        \/ \E c \in Customers : DeleteCustomer(c)
        \/ \E e \in Edits :
             \/ \E p \in Products, n \in Amounts :
                  Adjust(e, p, n) \/ Adjust(e, p, -n) \/ OpenForm(e, p, n)
             \/ SaveEdit(e)

Spec == Init /\ [][Next]_vars

----------------------------------------------------------------------------
(* Types; above all, a stock never goes below zero: the table has no check  *)
(* for it, only the code that writes it has.                                *)
TypeOK == /\ catalog \subseteq Products
          /\ retired \subseteq Products
          /\ customers \subseteq Customers
          /\ stock \in [Products -> Nat]
          /\ orders \subseteq Orders
          /\ purchase \in [Buyers -> Purchases]
          /\ edit \in [Edits -> EditRequests]
          /\ intended \in [Products -> Int]
          /\ overwritten \subseteq Products

(* The units of a product that were ordered, and how many these are.        *)
Units(p) == UNION {{o} \X (1 .. o.quantity) : o \in {x \in orders : x.product = p}}
Sold(p) == Cardinality(Units(p))

(* The stock is what the owner put in less what was ordered, for every      *)
(* product no edit of which wrote over a stock that had changed since the   *)
(* edit read it.  Purchases alone, interleaved in any way, refused, rolled  *)
(* back or answered with an error, never lose or invent a unit; the edits   *)
(* of the owner do, as they write what they worked out from an old stock.   *)
StockMatchesLedger ==
    \A p \in catalog \ overwritten : stock[p] = intended[p] - Sold(p)

(* Whatever happens between the look of the route and the commit of the     *)
(* back end, an order appears only together with the units it takes, out of *)
(* a stock that had them at that moment, for a product and a customer that  *)
(* exist.                                                                   *)
OrderTakesStock ==
    [][\A o \in orders' \ orders :
         /\ o.product \in catalog /\ o.customer \in customers
         /\ stock[o.product] >= o.quantity
         /\ stock' = [stock EXCEPT ![o.product] = @ - o.quantity]]_vars
=============================================================================
