--------------------------- MODULE FirebaseManager ---------------------------
(***************************************************************************)
(* API/FirebaseManager.swift: the calls the screens make.                  *)
(*                                                                         *)
(* Every call first looks for the signed-in user.  Without one it reports  *)
(* .failed(.authError) to its completion and writes nothing, so a call is  *)
(* modelled by the sequence of writes it queues: one, or none when the     *)
(* call fails on the spot.  The encode guards cannot fail for these plain  *)
(* structs.                                                                *)
(***************************************************************************)
EXTENDS Firestore

VARIABLE signedIn   \* Auth.auth().currentUser # nil

currentUser == signedIn

Calls(doc, val, done) ==
  IF currentUser
    THEN <<[doc |-> doc, val |-> val, done |-> done]>>
    ELSE <<>>

addGoods(i, done) == Calls(goods(i), GoodsData, done)

addBoughtGoods(i, boughtDate, done) == Calls(boughtgoods(i), boughtDate, done)

deleteGoods(i, done) == Calls(goods(i), Absent, done)

updateGoodsCountForDate(date, count, done) == Calls(datecount(date), count, done)

\* Faulty variant: the old record is deleted to make room for the new one.
updateBoughtGoodsByDelete(i, boughtDate, done) == Calls(boughtgoods(i), Absent, done)

\* The record is replaced by one with the same id and boughtDate.
updateBoughtGoods(i, boughtDate, done) == Calls(boughtgoods(i), boughtDate, done)

\* Also the first half of revertBoughtGoods, whose completion calls addGoods.
deleteBoughtGoods(i, done) == Calls(boughtgoods(i), Absent, done)

\* loadGoods: the items the goods collection holds, as the device sees it.
loadGoods == {i \in Items : LocalView(goods(i)) # Absent}

\* fetchBoughtGoods(for:): the items bought on a day, as the device sees them.
fetchBoughtGoods(date) == {i \in Items : LocalView(boughtgoods(i)) = date}

\* loadGoodsCountForDate.  A day without a document reads as 0, the default
\* every reader of the result supplies (HomeViewModel.getDateCount) or
\* filters out (HistoryViewModel keeps count > 0).
CountIn(val) == IF val = Absent THEN 0 ELSE val

\* Faulty variant: no default for a day that has no document yet.
loadGoodsCountForDateRaw == [d \in Dates |-> LocalView(datecount(d))]

loadGoodsCountForDate == [d \in Dates |-> CountIn(LocalView(datecount(d)))]
=============================================================================
