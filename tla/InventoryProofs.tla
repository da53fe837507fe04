-------------------------- MODULE InventoryProofs --------------------------
(* Proofs about Inventory, for any products, customers, requests and        *)
(* amounts: the stock is never negative, every order takes its units, and   *)
(* the stock is what the owner put in less what was ordered.                *)
EXTENDS Inventory, FiniteSetTheorems, TLAPS

(* A purchase that has been sent knows what it buys.                        *)
SentIsDefinite ==
    \A b \in Buyers : purchase[b].state \in {"sent", "locked", "saved"} =>
        /\ purchase[b].attempt \in 1..MaxAttempts
        /\ purchase[b].customer \in Customers
        /\ purchase[b].product \in Products
        /\ purchase[b].quantity \in Amounts \ {0}

(* A purchase that holds the row knows its stock: nobody else changes it.   *)
HolderKnowsStock ==
    \A b \in Buyers : purchase[b].state = "locked" =>
        /\ purchase[b].product \in catalog
        /\ purchase[b].seen = stock[purchase[b].product]
        /\ purchase[b].seen >= purchase[b].quantity

(* A row has one holder at a time.                                          *)
OneHolder ==
    \A a, b \in Buyers :
        /\ purchase[a].state = "locked"
        /\ purchase[b].state = "locked"
        /\ purchase[a].product = purchase[b].product
        => a = b

(* An edit under way is going to write a stock.                             *)
EditsWriteStocks ==
    \A e \in Edits : edit[e].state \in {"adjusting", "editing"} =>
        edit[e].product \in Products /\ Written(e) \in Nat

IInv == TypeOK /\ SentIsDefinite /\ HolderKnowsStock /\ OneHolder /\ EditsWriteStocks

----------------------------------------------------------------------------
(* The records that requests are reset to have their types.                 *)
LEMMA BlankType ==
    /\ \A s \in PurchaseStates, a \in 0..MaxAttempts : Blank(s, a) \in Purchases
    /\ \A s \in EditStates : BlankEdit(s) \in EditRequests
  BY DEF Blank, BlankEdit, Purchases, EditRequests

(* The inductive invariant holds before the first request.                  *)
LEMMA InitIInv == Init => IInv
  <1> SUFFICES ASSUME Init PROVE IInv
    OBVIOUS
  <1>1. purchase \in [Buyers -> Purchases] /\ edit \in [Edits -> EditRequests]
    BY BlankType, MaxAttemptsAssumption DEF Init, PurchaseStates, EditStates
  <1>2. TypeOK
    BY <1>1 DEF Init, TypeOK
  <1>3. /\ \A b \in Buyers : purchase[b].state = "idle"
        /\ \A e \in Edits : edit[e].state = "idle"
    BY DEF Init, Blank, BlankEdit
  <1> QED
    BY <1>2, <1>3 DEF IInv, SentIsDefinite, HolderKnowsStock, OneHolder, EditsWriteStocks

(* What a step that touches only the purchase of b must show.               *)
LEMMA PurchaseStep ==
    ASSUME IInv, NEW b \in Buyers, NEW r \in Purchases,
           purchase' = [purchase EXCEPT ![b] = r],
           UNCHANGED <<catalog, retired, customers, stock, orders, edit, intended, overwritten>>,
           r.state \in {"sent", "locked", "saved"} =>
             /\ r.attempt \in 1..MaxAttempts
             /\ r.customer \in Customers
             /\ r.product \in Products
             /\ r.quantity \in Amounts \ {0},
           r.state = "locked" =>
             /\ r.product \in catalog
             /\ r.seen = stock[r.product]
             /\ r.seen >= r.quantity
             /\ \A a \in Buyers \ {b} :
                  ~ (purchase[a].state = "locked" /\ purchase[a].product = r.product)
    PROVE  IInv'
  <1>1. purchase \in [Buyers -> Purchases]
    BY DEF IInv, TypeOK
  <1>2. /\ purchase'[b] = r
        /\ \A a \in Buyers \ {b} : purchase'[a] = purchase[a]
        /\ purchase' \in [Buyers -> Purchases]
    BY <1>1
  <1>3. TypeOK'
    BY <1>2 DEF IInv, TypeOK
  <1>4. SentIsDefinite'
    BY <1>2 DEF IInv, SentIsDefinite
  <1>5. HolderKnowsStock'
    BY <1>2 DEF IInv, HolderKnowsStock
  <1>6. OneHolder'
    <2> SUFFICES ASSUME NEW x \in Buyers, NEW y \in Buyers,
                        purchase'[x].state = "locked", purchase'[y].state = "locked",
                        purchase'[x].product = purchase'[y].product
                 PROVE  x = y
      BY DEF OneHolder
    <2>1. CASE x # b /\ y # b
      BY <1>2, <2>1 DEF IInv, OneHolder
    <2>2. CASE x = b \/ y = b
      BY <1>2, <2>2
    <2> QED
      BY <2>1, <2>2
  <1>7. EditsWriteStocks'
    BY DEF IInv, EditsWriteStocks, Written
  <1> QED
    BY <1>3, <1>4, <1>5, <1>6, <1>7 DEF IInv

(* Every step preserves it.                                                 *)
LEMMA NextIInv == IInv /\ [Next]_vars => IInv'
  <1> SUFFICES ASSUME IInv, [Next]_vars PROVE IInv'
    OBVIOUS
  <1> USE AmountsAssumption, MaxAttemptsAssumption
  <1>0. TypeOK
    BY DEF IInv
  <1>t. /\ \A b \in Buyers : purchase[b] \in Purchases
        /\ \A e \in Edits : edit[e] \in EditRequests
        /\ \A p \in Products : stock[p] \in Nat
    BY <1>0 DEF TypeOK
  <1>1. ASSUME NEW b \in Buyers, NEW c \in Customers, NEW p \in Products,
               NEW q \in Amounts \ {0}, Buy(b, c, p, q)
        PROVE  IInv'
    <2> DEFINE sent == [state |-> "sent", attempt |-> purchase[b].attempt + 1,
                        customer |-> c, product |-> p, quantity |-> q, seen |-> 0]
    <2>1. purchase[b].attempt + 1 \in 1..MaxAttempts
      BY <1>1, <1>t DEF Buy, Purchases
    <2>2. sent \in Purchases
      BY <2>1 DEF Purchases, PurchaseStates
    <2>3. Blank("refused", purchase[b].attempt + 1) \in Purchases
      BY <2>1, BlankType DEF PurchaseStates
    <2>4. CASE purchase' = [purchase EXCEPT ![b] = sent]
      <3> HIDE DEF sent
      <3>1. /\ sent.state = "sent" /\ sent.attempt \in 1..MaxAttempts
            /\ sent.customer \in Customers /\ sent.product \in Products
            /\ sent.quantity \in Amounts \ {0}
        BY <2>1 DEF sent
      <3> QED
        BY <1>1, <2>2, <2>4, <3>1, PurchaseStep DEF Buy
    <2>5. CASE purchase' = [purchase EXCEPT ![b] = Blank("refused", purchase[b].attempt + 1)]
      <3>1. Blank("refused", purchase[b].attempt + 1).state = "refused"
        BY DEF Blank
      <3> QED
        BY <1>1, <2>3, <2>5, <3>1, PurchaseStep DEF Buy
    <2> QED
      BY <1>1, <2>4, <2>5 DEF Buy
  <1>e. ASSUME NEW b \in Buyers, NEW s \in {"placed", "refused", "lost"}, End(b, s),
               UNCHANGED <<catalog, retired, customers, stock, orders, edit, intended,
                           overwritten>>
        PROVE  IInv'
    <2>1. Blank(s, purchase[b].attempt) \in Purchases
      BY <1>t, BlankType DEF Purchases, PurchaseStates
    <2>2. Blank(s, purchase[b].attempt).state = s
      BY DEF Blank
    <2>3. purchase' = [purchase EXCEPT ![b] = Blank(s, purchase[b].attempt)]
      BY <1>e DEF End
    <2> QED
      BY <1>e, <2>1, <2>2, <2>3, PurchaseStep
  <1>2. ASSUME NEW b \in Buyers, Lock(b)
        PROVE  IInv'
    <2> DEFINE p == purchase[b].product
               held == [purchase[b] EXCEPT !.state = "locked", !.seen = stock[p]]
    <2>1. CASE End(b, "refused")
      BY <1>2, <1>e, <2>1 DEF Lock
    <2>2. CASE /\ p \in catalog
               /\ stock[p] >= purchase[b].quantity
               /\ purchase' = [purchase EXCEPT ![b].state = "locked", ![b].seen = stock[p]]
      <3>1. /\ purchase[b].state = "sent" /\ purchase[b].attempt \in 1..MaxAttempts
            /\ purchase[b].customer \in Customers /\ purchase[b].product \in Products
            /\ purchase[b].quantity \in Amounts \ {0}
        BY <1>2 DEF Lock, IInv, SentIsDefinite
      <3>2. held \in Purchases
        BY <1>t, <3>1 DEF Purchases, PurchaseStates
      <3>3. /\ held.state = "locked" /\ held.seen = stock[p]
            /\ held.attempt = purchase[b].attempt /\ held.customer = purchase[b].customer
            /\ held.product = purchase[b].product /\ held.quantity = purchase[b].quantity
        BY <1>t DEF Purchases
      <3>4. purchase' = [purchase EXCEPT ![b] = held]
        BY <1>0, <2>2 DEF TypeOK
      <3>5. \A a \in Buyers \ {b} :
              ~ (purchase[a].state = "locked" /\ purchase[a].product = p)
        BY <1>2 DEF Lock, Locked
      <3> HIDE DEF held
      <3> QED
        <4>1. UNCHANGED <<catalog, retired, customers, stock, orders, edit, intended,
                          overwritten>>
          BY <1>2 DEF Lock
        <4>2. /\ held.attempt \in 1..MaxAttempts /\ held.customer \in Customers
              /\ held.product \in Products /\ held.quantity \in Amounts \ {0}
          BY <3>1, <3>3
        <4>3. /\ held.product \in catalog /\ held.seen = stock[held.product]
              /\ held.seen >= held.quantity
              /\ \A a \in Buyers \ {b} :
                   ~ (purchase[a].state = "locked" /\ purchase[a].product = held.product)
          BY <2>2, <3>3, <3>5
        <4> QED
          BY <3>2, <3>4, <4>1, <4>2, <4>3, PurchaseStep
    <2> QED
      BY <1>2, <2>1, <2>2 DEF Lock
  <1>3. ASSUME NEW b \in Buyers, Commit(b)
        PROVE  IInv'
    <2> DEFINE p == purchase[b].product
               saved == [purchase[b] EXCEPT !.state = "saved"]
    <2>1. CASE purchase[b].customer \notin customers
      BY <1>3, <1>e, <2>1 DEF Commit
    <2>2. CASE purchase[b].customer \in customers
      <3>1. /\ purchase[b].state = "locked" /\ purchase[b].attempt \in 1..MaxAttempts
            /\ purchase[b].customer \in Customers /\ p \in Products
            /\ purchase[b].quantity \in Amounts \ {0}
            /\ purchase[b].seen >= purchase[b].quantity
        BY <1>3 DEF Commit, IInv, SentIsDefinite, HolderKnowsStock
      <3>2. purchase[b].seen - purchase[b].quantity \in Nat
        <4>1. purchase[b].seen \in Nat
          BY <1>t DEF Purchases
        <4>2. purchase[b].quantity \in Nat
          BY <3>1
        <4> QED
          BY <3>1, <4>1, <4>2
      <3>3. OrderOf(b) \in Orders
        BY <3>1 DEF OrderOf, Orders
      <3>4. saved \in Purchases
        BY <1>t DEF Purchases, PurchaseStates
      <3>5. /\ purchase'[b] = saved
            /\ \A a \in Buyers \ {b} : purchase'[a] = purchase[a]
            /\ purchase' \in [Buyers -> Purchases]
        BY <1>3, <1>0, <2>2, <3>4 DEF Commit, TypeOK
      <3>6. /\ saved.state = "saved" /\ saved.attempt = purchase[b].attempt
            /\ saved.customer = purchase[b].customer /\ saved.product = p
            /\ saved.quantity = purchase[b].quantity
        BY <1>t DEF Purchases
      <3>7. stock' = [stock EXCEPT ![p] = purchase[b].seen - purchase[b].quantity]
        BY <1>3, <2>2 DEF Commit
      <3>8. \A a \in Buyers \ {b} :
              purchase[a].state = "locked" => purchase[a].product # p
        BY <3>1 DEF IInv, OneHolder
      <3> HIDE DEF saved
      <3>9. TypeOK'
        BY <1>0, <1>3, <2>2, <3>2, <3>3, <3>5, <3>7 DEF Commit, TypeOK
      <3>10. SentIsDefinite'
        BY <3>1, <3>5, <3>6 DEF IInv, SentIsDefinite
      <3>11. HolderKnowsStock'
        <4> SUFFICES ASSUME NEW a \in Buyers, purchase'[a].state = "locked"
                     PROVE  /\ purchase'[a].product \in catalog'
                            /\ purchase'[a].seen = stock'[purchase'[a].product]
                            /\ purchase'[a].seen >= purchase'[a].quantity
          BY DEF HolderKnowsStock
        <4>1. a # b /\ purchase'[a] = purchase[a] /\ purchase[a].product # p
          BY <3>5, <3>6, <3>8
        <4>2. stock'[purchase[a].product] = stock[purchase[a].product]
          BY <1>0, <3>7, <4>1 DEF TypeOK, IInv, HolderKnowsStock
        <4> QED
          BY <1>3, <4>1, <4>2 DEF Commit, IInv, HolderKnowsStock
      <3>12. OneHolder'
        BY <3>5, <3>6 DEF IInv, OneHolder
      <3>13. EditsWriteStocks'
        BY <1>3 DEF Commit, IInv, EditsWriteStocks, Written
      <3> QED
        BY <3>9, <3>10, <3>11, <3>12, <3>13 DEF IInv
    <2> QED
      BY <2>1, <2>2
  <1>4. ASSUME NEW b \in Buyers, Rollback(b)
        PROVE  IInv'
    BY <1>4, <1>e DEF Rollback
  <1>5. ASSUME NEW b \in Buyers, Answer(b)
        PROVE  IInv'
    BY <1>5, <1>e DEF Answer
  <1>6. ASSUME NEW p \in Products, DeleteProduct(p)
        PROVE  IInv'
    <2>1. TypeOK' /\ SentIsDefinite' /\ OneHolder' /\ EditsWriteStocks'
      BY <1>6 DEF DeleteProduct, IInv, TypeOK, SentIsDefinite, OneHolder, EditsWriteStocks,
                  Written
    <2>2. HolderKnowsStock'
      BY <1>6 DEF DeleteProduct, Locked, IInv, HolderKnowsStock
    <2> QED
      BY <2>1, <2>2 DEF IInv
  <1>7. ASSUME NEW p \in Products, NEW n \in Amounts, AddProduct(p, n)
        PROVE  IInv'
    <2>1. TypeOK'
      BY <1>0, <1>7 DEF AddProduct, TypeOK
    <2>2. SentIsDefinite' /\ OneHolder' /\ EditsWriteStocks'
      BY <1>7 DEF AddProduct, IInv, SentIsDefinite, OneHolder, EditsWriteStocks, Written
    <2>3. HolderKnowsStock'
      <3>1. \A x \in catalog : stock'[x] = stock[x]
        BY <1>0, <1>7 DEF AddProduct, TypeOK
      <3> QED
        BY <1>7, <3>1 DEF AddProduct, IInv, HolderKnowsStock
    <2> QED
      BY <2>1, <2>2, <2>3 DEF IInv
  <1>8. ASSUME NEW c \in Customers, DeleteCustomer(c)
        PROVE  IInv'
    BY <1>8 DEF DeleteCustomer, IInv, TypeOK, SentIsDefinite, HolderKnowsStock, OneHolder,
                EditsWriteStocks, Written
  <1>f. ASSUME NEW e \in Edits, NEW r \in EditRequests,
               edit' = [edit EXCEPT ![e] = r],
               UNCHANGED <<catalog, retired, customers, stock, orders, purchase, intended,
                           overwritten>>,
               r.state = "adjusting" => r.product \in Products /\ r.seen + r.entered \in Nat,
               r.state = "editing" => r.product \in Products /\ r.entered \in Nat
        PROVE  IInv'
    <2>1. /\ edit'[e] = r
          /\ \A x \in Edits \ {e} : edit'[x] = edit[x]
          /\ edit' \in [Edits -> EditRequests]
      BY <1>0, <1>f DEF TypeOK
    <2>2. TypeOK'
      BY <1>0, <1>f, <2>1 DEF TypeOK
    <2>3. SentIsDefinite' /\ HolderKnowsStock' /\ OneHolder'
      BY <1>f DEF IInv, SentIsDefinite, HolderKnowsStock, OneHolder
    <2>4. EditsWriteStocks'
      BY <1>f, <2>1 DEF IInv, EditsWriteStocks, Written
    <2> QED
      BY <2>2, <2>3, <2>4 DEF IInv
  <1>9. ASSUME NEW e \in Edits, NEW p \in Products, NEW d \in Int, Adjust(e, p, d)
        PROVE  IInv'
    <2> DEFINE r == [state |-> "adjusting", product |-> p, seen |-> stock[p], entered |-> d]
    <2>1. CASE stock[p] + d < 0
      <3>1. BlankEdit("done") \in EditRequests /\ BlankEdit("done").state = "done"
        BY BlankType DEF BlankEdit, EditStates
      <3> QED
        BY <1>9, <1>f, <2>1, <3>1 DEF Adjust
    <2>2. CASE ~ (stock[p] + d < 0)
      <3>1. r \in EditRequests
        BY <1>t DEF EditRequests, EditStates
      <3>2. stock[p] + d \in Nat
        BY <1>t, <2>2
      <3>3. r.state = "adjusting" /\ r.product = p /\ r.seen + r.entered = stock[p] + d
        OBVIOUS
      <3>4. edit' = [edit EXCEPT ![e] = r]
        BY <1>9, <2>2 DEF Adjust
      <3> HIDE DEF r
      <3> QED
        BY <1>9, <1>f, <3>1, <3>2, <3>3, <3>4 DEF Adjust
    <2> QED
      BY <2>1, <2>2
  <1>10. ASSUME NEW e \in Edits, NEW p \in Products, NEW n \in Amounts, OpenForm(e, p, n)
         PROVE  IInv'
    <2> DEFINE r == [state |-> "editing", product |-> p, seen |-> stock[p], entered |-> n]
    <2>1. r \in EditRequests
      <3>1. stock[p] \in Nat /\ n \in Int
        BY <1>t
      <3> QED
        BY <3>1 DEF EditRequests, EditStates
    <2>2. r.state = "editing" /\ r.product = p /\ r.entered \in Nat
      OBVIOUS
    <2>3. edit' = [edit EXCEPT ![e] = r]
      BY <1>10 DEF OpenForm
    <2> HIDE DEF r
    <2> QED
      BY <1>10, <1>f, <2>1, <2>2, <2>3 DEF OpenForm
  <1>11. ASSUME NEW e \in Edits, SaveEdit(e)
         PROVE  IInv'
    <2> DEFINE p == edit[e].product
    <2>1. BlankEdit("done") \in EditRequests /\ BlankEdit("done").state = "done"
      BY BlankType DEF BlankEdit, EditStates
    <2>2. /\ edit'[e] = BlankEdit("done")
          /\ \A x \in Edits \ {e} : edit'[x] = edit[x]
          /\ edit' \in [Edits -> EditRequests]
      BY <1>0, <1>11, <2>1 DEF SaveEdit, TypeOK
    <2>3. p \in Products /\ Written(e) \in Nat /\ edit[e].seen \in Nat
      BY <1>t, <1>11 DEF SaveEdit, IInv, EditsWriteStocks, EditRequests
    <2>4. CASE p \notin catalog
      BY <1>f, <1>11, <2>1, <2>4 DEF SaveEdit
    <2>5. CASE p \in catalog
      <3>1. stock' = [stock EXCEPT ![p] = Written(e)]
        BY <1>11, <2>5 DEF SaveEdit
      <3>2. TypeOK'
        BY <1>0, <1>11, <2>2, <2>3, <2>5 DEF SaveEdit, TypeOK
      <3>3. SentIsDefinite' /\ OneHolder'
        BY <1>11 DEF SaveEdit, IInv, SentIsDefinite, OneHolder
      <3>4. HolderKnowsStock'
        <4>1. \A b \in Buyers : purchase[b].state = "locked" => purchase[b].product # p
          BY <1>11 DEF SaveEdit, Locked
        <4>2. \A x \in Products \ {p} : stock'[x] = stock[x]
          BY <1>0, <3>1 DEF TypeOK
        <4> QED
          BY <1>0, <1>11, <4>1, <4>2 DEF SaveEdit, TypeOK, IInv, HolderKnowsStock
      <3>5. EditsWriteStocks'
        BY <2>1, <2>2 DEF IInv, EditsWriteStocks, Written
      <3> QED
        BY <3>2, <3>3, <3>4, <3>5 DEF IInv
    <2> QED
      BY <2>4, <2>5
  <1>12. CASE UNCHANGED vars
    BY <1>12 DEF vars, IInv, TypeOK, SentIsDefinite, HolderKnowsStock, OneHolder,
                 EditsWriteStocks, Written
  <1>13. \A n \in Amounts : n \in Int /\ -n \in Int
    OBVIOUS
  <1> QED
    BY <1>1, <1>2, <1>3, <1>4, <1>5, <1>6, <1>7, <1>8, <1>9, <1>10, <1>11, <1>12, <1>13
    DEF Next

(* The inductive invariant holds throughout.                                *)
THEOREM Invariance == Spec => []IInv
  BY InitIInv, NextIInv, PTL DEF Spec

(* Types hold throughout: in particular no interleaving of purchases, edits *)
(* and deletions makes a stock negative.                                    *)
THEOREM TypeCorrect == Spec => []TypeOK
  <1>1. IInv => TypeOK
    BY DEF IInv
  <1> QED
    BY <1>1, Invariance, PTL

(* An order is committed only together with the units it takes, which the   *)
(* stock of that moment had, for a product and a customer that exist.       *)
THEOREM OrdersTakeStock == Spec => OrderTakesStock
  <1> DEFINE Taken ==
        \A o \in orders' \ orders :
          /\ o.product \in catalog /\ o.customer \in customers
          /\ stock[o.product] >= o.quantity
          /\ stock' = [stock EXCEPT ![o.product] = @ - o.quantity]
  <1>1. IInv /\ [Next]_vars => [Taken]_vars
    <2> SUFFICES ASSUME IInv, Next, NEW o \in orders' \ orders
                 PROVE  /\ o.product \in catalog /\ o.customer \in customers
                        /\ stock[o.product] >= o.quantity
                        /\ stock' = [stock EXCEPT ![o.product] = @ - o.quantity]
      OBVIOUS
    <2>1. PICK b \in Buyers : Commit(b)
      BY DEF Next, Buy, Lock, Rollback, Answer, DeleteProduct, AddProduct, DeleteCustomer,
             Adjust, OpenForm, SaveEdit
    <2>2. o = OrderOf(b) /\ purchase[b].customer \in customers
      BY <2>1 DEF Commit
    <2>3. /\ o.product = purchase[b].product
          /\ o.customer = purchase[b].customer
          /\ o.quantity = purchase[b].quantity
      BY <2>2 DEF OrderOf
    <2>4. /\ purchase[b].product \in catalog
          /\ purchase[b].seen = stock[purchase[b].product]
          /\ purchase[b].seen >= purchase[b].quantity
      BY <2>1 DEF Commit, IInv, HolderKnowsStock
    <2> QED
      BY <2>1, <2>2, <2>3, <2>4 DEF Commit
  <1> QED
    BY <1>1, Invariance, PTL DEF Spec, OrderTakesStock

----------------------------------------------------------------------------
(* The ledger. *)

(* The orders refer to products in the table, and the one a purchase is     *)
(* about to make is not there yet.                                          *)
OrdersKeepTheirProducts == \A o \in orders : o.product \in catalog

PendingIsNew ==
    \A o \in orders : \A b \in Buyers : o.buyer = b =>
        /\ o.attempt <= purchase[b].attempt
        /\ purchase[b].state \in {"sent", "locked"} => o.attempt < purchase[b].attempt

UnitsAreFinite == \A p \in Products : IsFiniteSet(Units(p))

Ledger == /\ OrdersKeepTheirProducts /\ PendingIsNew
          /\ UnitsAreFinite /\ StockMatchesLedger

(* A finite number of units is a number.                                    *)
LEMMA SoldType ==
    ASSUME UnitsAreFinite, NEW p \in Products
    PROVE  Sold(p) \in Nat
  BY FS_CardinalityType DEF UnitsAreFinite, Sold

(* A new order adds its quantity to what is sold of its product.            *)
LEMMA OrderAdds ==
    ASSUME UnitsAreFinite, NEW o, o \notin orders, o.quantity \in Nat,
           orders' = orders \cup {o}, NEW p \in Products
    PROVE  /\ IsFiniteSet(Units(p)')
           /\ Sold(p)' = IF o.product = p THEN Sold(p) + o.quantity ELSE Sold(p)
  <1> DEFINE added == {o} \X (1 .. o.quantity)
  <1>1. IsFiniteSet(Units(p))
    BY DEF UnitsAreFinite
  <1>2. CASE o.product # p
    <2>1. Units(p)' = Units(p)
      BY <1>2 DEF Units
    <2> QED
      BY <1>1, <1>2, <2>1 DEF Sold
  <1>3. CASE o.product = p
    <2>1. Units(p)' = Units(p) \cup added
      BY <1>3 DEF Units
    <2>2. Units(p) \cap added = {}
      BY DEF Units
    <2>3. IsFiniteSet(1 .. o.quantity) /\ Cardinality(1 .. o.quantity) = o.quantity
      <3>1. 1 \in Int /\ o.quantity \in Int
        OBVIOUS
      <3>2. /\ IsFiniteSet(1 .. o.quantity)
            /\ Cardinality(1 .. o.quantity) = IF 1 > o.quantity THEN 0 ELSE o.quantity - 1 + 1
        BY <3>1, FS_Interval, Zenon
      <3> QED
        BY <3>2
    <2>4. IsFiniteSet({o}) /\ Cardinality({o}) = 1
      BY FS_Singleton
    <2>5. IsFiniteSet(added) /\ Cardinality(added) = o.quantity
      <3>1. /\ IsFiniteSet(added)
            /\ Cardinality(added) = Cardinality({o}) * Cardinality(1 .. o.quantity)
        BY <2>3, <2>4, FS_Product, Zenon
      <3>2. 1 * o.quantity = o.quantity
        OBVIOUS
      <3> QED
        BY <2>3, <2>4, <3>1, <3>2
    <2>6. Cardinality(Units(p) \cap added) = 0
      BY <2>2, FS_EmptySet
    <2>7. /\ IsFiniteSet(Units(p) \cup added)
          /\ Cardinality(Units(p) \cup added) = Cardinality(Units(p)) + o.quantity
      <3> HIDE DEF added
      <3>1. Cardinality(Units(p)) \in Nat
        BY <1>1, FS_CardinalityType
      <3>2. /\ IsFiniteSet(Units(p) \cup added)
            /\ Cardinality(Units(p) \cup added)
                 = Cardinality(Units(p)) + Cardinality(added) - Cardinality(Units(p) \cap added)
        BY <1>1, <2>5, FS_Union
      <3> QED
        BY <2>5, <2>6, <3>1, <3>2
    <2> HIDE DEF added
    <2> QED
      BY <1>3, <2>1, <2>7 DEF Sold
  <1> QED
    BY <1>2, <1>3

(* Nothing is sold before the first order, and no product is there.         *)
LEMMA InitLedger == Init => Ledger
  <1> SUFFICES ASSUME Init PROVE Ledger
    OBVIOUS
  <1>1. \A p \in Products : Units(p) = {}
    BY DEF Init, Units
  <1> QED
    BY <1>1, FS_EmptySet DEF Init, Ledger, OrdersKeepTheirProducts, PendingIsNew,
                             UnitsAreFinite, StockMatchesLedger

(* What a step that leaves the orders alone must show.                      *)
LEMMA NoOrderStep ==
    ASSUME IInv, Ledger, UNCHANGED orders,
           \A o \in orders : o.product \in catalog',
           \A b \in Buyers : \/ purchase'[b] = purchase[b]
                             \/ purchase'[b].attempt = purchase[b].attempt + 1
                             \/ /\ purchase'[b].attempt = purchase[b].attempt
                                /\ purchase[b].state \in {"sent", "locked"}
                             \/ /\ purchase'[b].attempt = purchase[b].attempt
                                /\ purchase'[b].state \notin {"sent", "locked"},
           \A p \in catalog' \ overwritten' : stock'[p] = intended'[p] - Sold(p)
    PROVE  Ledger'
  <1>1. \A p : Units(p)' = Units(p)
    BY DEF Units
  <1>2. \A p : Sold(p)' = Sold(p)
    BY <1>1 DEF Sold
  <1>3. UnitsAreFinite'
    BY <1>1 DEF Ledger, UnitsAreFinite
  <1>4. OrdersKeepTheirProducts'
    BY DEF OrdersKeepTheirProducts
  <1>5. PendingIsNew'
    <2>1. /\ \A o \in orders : o.attempt \in Int
          /\ \A b \in Buyers : purchase[b].attempt \in Int
      BY MaxAttemptsAssumption DEF IInv, TypeOK, Orders, Purchases
    <2> SUFFICES ASSUME NEW o \in orders, NEW b \in Buyers, o.buyer = b
                 PROVE  /\ o.attempt <= purchase'[b].attempt
                        /\ purchase'[b].state \in {"sent", "locked"} =>
                             o.attempt < purchase'[b].attempt
      BY DEF PendingIsNew
    <2>2. /\ o.attempt <= purchase[b].attempt
          /\ purchase[b].state \in {"sent", "locked"} => o.attempt < purchase[b].attempt
      BY DEF Ledger, PendingIsNew
    <2> QED
      BY <2>1, <2>2
  <1>6. StockMatchesLedger'
    BY <1>2 DEF StockMatchesLedger
  <1> QED
    BY <1>3, <1>4, <1>5, <1>6 DEF Ledger

(* The commit of a purchase: the units leave the stock with the new order.  *)
LEMMA CommitLedger ==
    ASSUME IInv, Ledger, NEW b \in Buyers, Commit(b)
    PROVE  Ledger'
  <1> DEFINE o == OrderOf(b)
             p == purchase[b].product
  <1>0. /\ purchase \in [Buyers -> Purchases] /\ stock \in [Products -> Nat]
        /\ purchase[b] \in Purchases /\ purchase[b].state = "locked"
        /\ catalog \subseteq Products /\ intended \in [Products -> Int]
    BY DEF IInv, TypeOK, Commit
  <1>1. CASE purchase[b].customer \notin customers
    <2>1. UNCHANGED <<orders, catalog, stock, intended, overwritten>> /\ End(b, "refused")
      BY <1>1 DEF Commit
    <2>2. /\ \A x \in Buyers \ {b} : purchase'[x] = purchase[x]
          /\ purchase'[b].attempt = purchase[b].attempt
          /\ purchase'[b].state = "refused"
      BY <1>0, <2>1 DEF End, Blank
    <2> QED
      BY <2>1, <2>2, NoOrderStep DEF Ledger, OrdersKeepTheirProducts, StockMatchesLedger
  <1>2. CASE purchase[b].customer \in customers
    <2>1. /\ stock' = [stock EXCEPT ![p] = purchase[b].seen - purchase[b].quantity]
          /\ orders' = orders \cup {o}
          /\ purchase' = [purchase EXCEPT ![b].state = "saved"]
          /\ UNCHANGED <<catalog, intended, overwritten>>
      BY <1>2 DEF Commit
    <2>2. /\ o.buyer = b /\ o.attempt = purchase[b].attempt
          /\ o.product = p /\ o.quantity = purchase[b].quantity
      BY DEF OrderOf
    <2>3. /\ p \in Products /\ p \in catalog /\ purchase[b].seen = stock[p]
          /\ purchase[b].quantity \in Nat /\ purchase[b].attempt \in Nat
      <3>1. p \in catalog /\ purchase[b].seen = stock[p]
        BY <1>0 DEF IInv, HolderKnowsStock
      <3>2. purchase[b].attempt \in 1..MaxAttempts /\ purchase[b].quantity \in Amounts
        BY <1>0 DEF IInv, SentIsDefinite
      <3>3. purchase[b].attempt \in Nat
        BY <3>2, MaxAttemptsAssumption
      <3> QED
        BY <1>0, <3>1, <3>2, <3>3, AmountsAssumption
    <2>4. \A x \in orders : x.attempt \in Nat
      BY DEF IInv, TypeOK, Orders
    <2>5. o \notin orders
      BY <1>0, <2>2, <2>3 DEF Ledger, PendingIsNew
    <2> HIDE DEF o
    <2>6. \A q \in Products :
            /\ IsFiniteSet(Units(q)')
            /\ Sold(q)' = IF p = q THEN Sold(q) + purchase[b].quantity ELSE Sold(q)
      BY <2>1, <2>2, <2>3, <2>5, OrderAdds DEF Ledger
    <2>7. OrdersKeepTheirProducts'
      BY <2>1, <2>2, <2>3 DEF Ledger, OrdersKeepTheirProducts
    <2>8. PendingIsNew'
      <3>1. /\ \A x \in Buyers \ {b} : purchase'[x] = purchase[x]
            /\ purchase'[b].attempt = purchase[b].attempt
            /\ purchase'[b].state = "saved"
        BY <1>0, <2>1 DEF Purchases
      <3>2. \A x \in Buyers : o.buyer = x => x = b
        BY <2>2
      <3> QED
        BY <2>1, <2>2, <2>3, <3>1, <3>2 DEF Ledger, PendingIsNew
    <2>9. StockMatchesLedger'
      <3> SUFFICES ASSUME NEW q \in catalog, q \notin overwritten
                   PROVE  stock'[q] = intended[q] - Sold(q)'
        BY <2>1 DEF StockMatchesLedger
      <3>1. q \in Products /\ stock[q] = intended[q] - Sold(q) /\ stock[q] \in Int
            /\ intended[q] \in Int /\ Sold(q) \in Int
        BY <1>0, SoldType DEF Ledger, StockMatchesLedger
      <3>2. CASE q = p
        <4>1. stock'[q] = stock[q] - purchase[b].quantity
          BY <1>0, <2>1, <2>3, <3>2
        <4>2. Sold(q)' = Sold(q) + purchase[b].quantity
          BY <2>6, <3>1, <3>2
        <4> QED
          BY <2>3, <3>1, <4>1, <4>2
      <3>3. CASE q # p
        BY <1>0, <2>1, <2>6, <3>1, <3>3
      <3> QED
        BY <3>2, <3>3
    <2> QED
      BY <2>6, <2>7, <2>8, <2>9 DEF Ledger, UnitsAreFinite
  <1> QED
    BY <1>1, <1>2

(* Every step keeps the ledger.                                             *)
LEMMA NextLedger == IInv /\ Ledger /\ [Next]_vars => Ledger'
  <1> SUFFICES ASSUME IInv, Ledger, [Next]_vars PROVE Ledger'
    OBVIOUS
  <1>0. /\ purchase \in [Buyers -> Purchases] /\ stock \in [Products -> Nat]
        /\ edit \in [Edits -> EditRequests] /\ intended \in [Products -> Int]
        /\ catalog \subseteq Products
    BY DEF IInv, TypeOK
  <1>s. /\ OrdersKeepTheirProducts
        /\ \A p \in catalog \ overwritten : stock[p] = intended[p] - Sold(p)
    BY DEF Ledger, StockMatchesLedger
  <1>1. ASSUME NEW b \in Buyers,
               UNCHANGED <<orders, catalog, stock, intended, overwritten>>,
               \E r \in {"refused", "placed", "lost"} : End(b, r)
        PROVE  Ledger'
    <2>1. /\ \A x \in Buyers \ {b} : purchase'[x] = purchase[x]
          /\ purchase'[b].attempt = purchase[b].attempt
          /\ purchase'[b].state \notin {"sent", "locked"}
      BY <1>0, <1>1 DEF End, Blank
    <2> QED
      BY <1>1, <1>s, <2>1, NoOrderStep DEF OrdersKeepTheirProducts
  <1>2. ASSUME NEW b \in Buyers, NEW c \in Customers, NEW p \in Products,
               NEW q \in Amounts \ {0}, Buy(b, c, p, q)
        PROVE  Ledger'
    <2>1. /\ \A x \in Buyers \ {b} : purchase'[x] = purchase[x]
          /\ purchase'[b].attempt = purchase[b].attempt + 1
      BY <1>0, <1>2 DEF Buy, Blank
    <2>2. UNCHANGED <<orders, catalog, stock, intended, overwritten>>
      BY <1>2 DEF Buy
    <2> QED
      BY <1>s, <2>1, <2>2, NoOrderStep DEF OrdersKeepTheirProducts
  <1>3. ASSUME NEW b \in Buyers, Lock(b) PROVE Ledger'
    <2>1. UNCHANGED <<orders, catalog, stock, intended, overwritten>> /\ purchase[b].state = "sent"
      BY <1>3 DEF Lock
    <2>2. CASE End(b, "refused")
      BY <1>1, <2>1, <2>2
    <2>3. CASE ~ End(b, "refused")
      <3>1. /\ \A x \in Buyers \ {b} : purchase'[x] = purchase[x]
            /\ purchase'[b].attempt = purchase[b].attempt
        BY <1>0, <1>3, <2>3 DEF Lock, Purchases
      <3> QED
        BY <1>s, <2>1, <3>1, NoOrderStep DEF OrdersKeepTheirProducts
    <2> QED
      BY <2>2, <2>3
  <1>4. ASSUME NEW b \in Buyers, Rollback(b) \/ Answer(b) PROVE Ledger'
    BY <1>1, <1>4 DEF Rollback, Answer
  <1>5. ASSUME NEW p \in Products, NEW n \in Amounts, AddProduct(p, n) PROVE Ledger'
    <2>1. /\ UNCHANGED <<orders, purchase, overwritten>> /\ catalog' = catalog \cup {p}
          /\ stock' = [stock EXCEPT ![p] = n] /\ intended' = [intended EXCEPT ![p] = n]
          /\ p \notin catalog
      BY <1>5 DEF AddProduct
    <2>2. Units(p) = {}
      BY <1>s, <2>1 DEF Units, OrdersKeepTheirProducts
    <2>3. Sold(p) = 0
      BY <2>2, FS_EmptySet DEF Sold
    <2>4. \A x \in catalog' \ overwritten' : stock'[x] = intended'[x] - Sold(x)
      <3> SUFFICES ASSUME NEW x \in catalog', x \notin overwritten
                   PROVE  stock'[x] = intended'[x] - Sold(x)
        BY <2>1
      <3>1. CASE x = p
        <4>1. stock'[x] = n /\ intended'[x] = n /\ n \in Int
          BY <1>0, <2>1, <3>1, AmountsAssumption
        <4> QED
          BY <2>3, <3>1, <4>1
      <3>2. CASE x # p
        BY <1>0, <1>s, <2>1, <3>2
      <3> QED
        BY <3>1, <3>2
    <2> QED
      BY <1>s, <2>1, <2>4, NoOrderStep DEF OrdersKeepTheirProducts
  <1>6. ASSUME NEW p \in Products, DeleteProduct(p) PROVE Ledger'
    <2>1. /\ UNCHANGED <<orders, purchase, overwritten, stock, intended>>
          /\ catalog' = catalog \ {p} /\ \A o \in orders : o.product # p
      BY <1>6 DEF DeleteProduct
    <2> QED
      BY <1>s, <2>1, NoOrderStep DEF OrdersKeepTheirProducts
  <1>7. ASSUME UNCHANGED <<orders, purchase, overwritten, stock, intended, catalog>>
        PROVE  Ledger'
    BY <1>s, <1>7, NoOrderStep DEF OrdersKeepTheirProducts
  <1>8. ASSUME NEW e \in Edits, SaveEdit(e) PROVE Ledger'
    <2> DEFINE p == edit[e].product
    <2>1. UNCHANGED <<orders, purchase, catalog>>
      BY <1>8 DEF SaveEdit
    <2>2. CASE p \notin catalog
      BY <1>7, <1>8, <2>1, <2>2 DEF SaveEdit
    <2>3. CASE p \in catalog
      <3>1. /\ stock' = [stock EXCEPT ![p] = Written(e)]
            /\ intended' = [intended EXCEPT ![p] = @ + Written(e) - edit[e].seen]
            /\ overwritten' = IF stock[p] = edit[e].seen THEN overwritten
                                                         ELSE overwritten \cup {p}
        BY <1>8, <2>3 DEF SaveEdit
      <3>2. edit[e].seen \in Int /\ Written(e) \in Int /\ p \in Products
        BY <1>0, <1>8, <2>3 DEF EditRequests, SaveEdit, IInv, EditsWriteStocks
      <3>3. \A x \in catalog' \ overwritten' : stock'[x] = intended'[x] - Sold(x)
        <4> SUFFICES ASSUME NEW x \in catalog, x \notin overwritten'
                     PROVE  stock'[x] = intended'[x] - Sold(x)
          BY <2>1
        <4>1. CASE x # p
          BY <1>0, <1>s, <3>1, <4>1
        <4>2. CASE x = p
          <5>1. x \notin overwritten /\ stock[p] = edit[e].seen
            BY <3>1, <4>2
          <5>2. stock[p] = intended[p] - Sold(p) /\ Sold(p) \in Int /\ intended[p] \in Int
            BY <1>0, <1>s, <3>2, <4>2, <5>1, SoldType DEF Ledger
          <5>3. stock'[p] = Written(e) /\ intended'[p] = intended[p] + Written(e) - edit[e].seen
            BY <1>0, <3>1, <3>2
          <5> HIDE DEF p
          <5> DEFINE w == Written(e)
                     seen == edit[e].seen
          <5>4. \A m, n, k \in Int : n = m - k => w = (m + w - n) - k
            BY <3>2
          <5>5. seen = intended[p] - Sold(p) /\ seen \in Int
            BY <3>2, <5>1, <5>2
          <5>6. w = (intended[p] + w - seen) - Sold(p)
            BY <5>2, <5>4, <5>5, Zenon
          <5>7. stock'[p] = intended'[p] - Sold(p)
            BY <5>3, <5>6, Zenon
          <5> QED
            BY <4>2, <5>7
        <4> QED
          BY <4>1, <4>2
      <3> QED
        BY <1>s, <2>1, <3>3, NoOrderStep DEF OrdersKeepTheirProducts
    <2> QED
      BY <2>2, <2>3
  <1>9. ASSUME \/ \E c \in Customers : DeleteCustomer(c)
               \/ \E e \in Edits, p \in Products : \E n \in Int :
                     Adjust(e, p, n) \/ OpenForm(e, p, n)
               \/ UNCHANGED vars
        PROVE  Ledger'
    BY <1>7, <1>9 DEF DeleteCustomer, Adjust, OpenForm, vars
  <1>10. \A n \in Amounts : n \in Int /\ -n \in Int
    BY AmountsAssumption
  <1> QED
    BY <1>2, <1>3, <1>4, <1>5, <1>6, <1>8, <1>9, <1>10, CommitLedger DEF Next

(* The stock of a product is what the owner's edits put in less what was    *)
(* ordered, unless an edit wrote over a stock it had not read.              *)
THEOREM StockIsAccounted == Spec => []StockMatchesLedger
  <1>1. IInv /\ Ledger /\ [Next]_vars => Ledger'
    BY NextLedger
  <1>2. Ledger => StockMatchesLedger
    BY DEF Ledger
  <1> QED
    BY <1>1, <1>2, InitLedger, Invariance, PTL DEF Spec
=============================================================================
