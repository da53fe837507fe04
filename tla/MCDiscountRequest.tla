------------------------- MODULE MCDiscountRequest --------------------------
(* Two products, one with room for a discount of 10.4% and one sold below   *)
(* the margin, quantities at the limits of the policy bands and of the      *)
(* stock, and tasks of up to two tool calls issued up to twice.  Replies    *)
(* offer up to two percentages, a hundred among them, in each wording.      *)
EXTENDS DiscountRequest, TLC

CONSTANTS roomy, tight

SellPrices == (roomy :> 100) @@ (tight :> 100)
CostPrices == (roomy :> 80) @@ (tight :> 95)
StockNumbers == (roomy :> 60) @@ (tight :> 20)

SomeQuantities == {9, 10, 50, 100}

SomePercents == {0, 1000, 1020}

SomeOffers == {[percent |-> 1000, wording |-> "after"],
               [percent |-> 1020, wording |-> "before"],
               [percent |-> Hundred, wording |-> "before"],
               [percent |-> Hundred, wording |-> "after"],
               [percent |-> 1020, wording |-> "elsewhere"]}
=============================================================================
