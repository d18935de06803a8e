----------------------------- MODULE MCHomeList -----------------------------
EXTENDS HomeList

\* Two goods of one category, none of another.
FirstTwoAlike ==
  [g \in Goods |-> GoodsCategory[IF g <= 2 THEN 1 ELSE IF g = 3 THEN 3 ELSE 4]]
=============================================================================
