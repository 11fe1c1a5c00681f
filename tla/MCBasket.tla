------------------------------ MODULE MCBasket ------------------------------
(* Basket for TLC: one dish that sells by the day, baskets of two, and     *)
(* fees that change from a percentage with a cap to a flat amount.         *)
EXTENDS Basket, TLC

CONSTANTS dish

MCPrice == dish :> 333
MCFoodTax == dish :> 500
MCBaskets == {<<[item |-> dish, quantity |-> 2]>>}

MCMarks ==
  {[availability |-> "AVAILABLE", from |-> "none"], [availability |-> "SOLD_OUT", from |-> "none"],
   [availability |-> "TEMPORARILY_UNAVAILABLE", from |-> "ahead"]}

Percentage(rate, cap) ==
  [type |-> "PERCENTAGE", rate |-> rate, amount |-> 0, floor |-> 5, cap |-> cap, tax |-> 1800]
Flat(amount) ==
  [type |-> "FLAT_PER_ORDER", rate |-> 0, amount |-> amount, floor |-> 0, cap |-> 1000, tax |-> 1800]

MCTerms ==
  <<[customer |-> Flat(25), vendor |-> Percentage(1150, 60), operator |-> Percentage(250, 1000),
    s95 |-> TRUE, collect |-> TRUE],
   [customer |-> Flat(25), vendor |-> Flat(40), operator |-> NoRule,
    s95 |-> FALSE, collect |-> FALSE]>>
=============================================================================
