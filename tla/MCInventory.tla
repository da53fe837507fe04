----------------------------- MODULE MCInventory ----------------------------
(* One product that two customers buy while the owner edits its stock twice *)
(* and may delete the product or one of the customers.                      *)
EXTENDS Inventory, TLC

StockAmounts == {0, 1, 2}

Symmetry == Permutations(Buyers) \cup Permutations(Customers) \cup Permutations(Edits)
=============================================================================
