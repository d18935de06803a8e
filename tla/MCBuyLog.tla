------------------------------ MODULE MCBuyLog ------------------------------
(* Model checking of BuyLog: the earlier session left some items on the     *)
(* list and bought the others, all on the first day.                        *)
EXTENDS BuyLog

RestBoughtOnDayOne == (Items \ ListedBefore) \X {1}
=============================================================================
