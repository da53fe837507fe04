SPECIFICATION Spec
CONSTANTS
    Products = {p1}
    Customers = {c1, c2}
    Buyers = {b1, b2}
    Edits = {e1, e2}
    Amounts <- StockAmounts
    MaxAttempts = 2
    NoProduct = NoProduct
    NoCustomer = NoCustomer
SYMMETRY Symmetry
CHECK_DEADLOCK FALSE
INVARIANTS
    TypeOK
    StockMatchesLedger
PROPERTY
    OrderTakesStock
