--------------------------- MODULE MCHistoryPages ---------------------------
(* Model checking of BuyLog with a page per item: items are numbers, and    *)
(* the earlier session bought item d on day d.                              *)
EXTENDS BuyLog

ItemPerDay == {<<d, d>> : d \in Items}
=============================================================================
