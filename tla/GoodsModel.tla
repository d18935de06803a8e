----------------------------- MODULE GoodsModel -----------------------------
(***************************************************************************)
(* The stored data (API/Model/Goods.swift) and its document paths          *)
(* (FirebaseManager.Collections), under the one signed-in user:            *)
(*                                                                         *)
(*   goodslist/uid/goods/id          an item on the shopping list          *)
(*   goodslist/uid/boughtgoods/id    an item that was bought               *)
(*   goodslist/uid/datecount/date    how many items a day's history has    *)
(*                                                                         *)
(* Names, categories, prices and amounts are left out: no step of the      *)
(* screens modelled here looks at them.  A bought item keeps its           *)
(* boughtDate, a day's document its count.                                 *)
(***************************************************************************)
EXTENDS Integers, Sequences

CONSTANTS
  Items,      \* UUIDs of items
  NoItem,     \* the item of a screen that was not opened on one
  Absent,     \* the content of a document that does not exist
  GoodsData,  \* the content of a goods document
  MaxDay      \* bound: the days the model lives through

ASSUME GoodsModelAssumption ==
  /\ NoItem \notin Items
  /\ Absent \notin Int
  /\ GoodsData \notin Int
  /\ GoodsData # Absent
  /\ MaxDay \in Nat \ {0}

Dates == 1 .. MaxDay

goods(i) == <<"goods", i>>
boughtgoods(i) == <<"boughtgoods", i>>
datecount(d) == <<"datecount", d>>

Docs == ({"goods", "boughtgoods"} \X Items) \cup ({"datecount"} \X Dates)

Values == Int \cup {Absent, GoodsData}

\* What decodes as the document's struct: Goods, BoughtGoods or DateCount.
Fits(doc, val) ==
  /\ \A i \in Items : doc = goods(i) => val \in {GoodsData, Absent}
  /\ \A i \in Items : doc = boughtgoods(i) => val \in Dates \cup {Absent}
  /\ \A d \in Dates : doc = datecount(d) => val \in Int \cup {Absent}

(***************************************************************************)
(* The completion closures of the writes.  step names the call that was    *)
(* made, owner the view model that made it (an index into the sequence of  *)
(* view models of module Screens).                                         *)
(***************************************************************************)
Steps ==
  {"addGoods", "addBoughtGoods", "deleteGoods", "updateDateCount"}
    \cup {"updateBoughtGoods", "deleteBoughtGoods", "revertBoughtGoods",
          "revertAddGoods", "updateBoughtCount"}

Lost == [step |-> "lost", owner |-> 0]

Callbacks == [step : Steps, owner : Nat \ {0}] \cup {Lost}
=============================================================================
