---------------------------- MODULE GoodsScreens ----------------------------
(***************************************************************************)
(* The two screens presented on Home that write: AddGoods (Screen/AddGoods)*)
(* and EditGoods (Screen/EditGoods), tapped by the user and continued by   *)
(* the callbacks of their writes.                                          *)
(*                                                                         *)
(* EditGoods moves an item from the list to the purchases in three writes, *)
(* each started by the callback of the one before:                         *)
(*                                                                         *)
(*   addBoughtGoods, then deleteGoods, then updateDateCount                *)
(*                                                                         *)
(* and removes an item with the last two.  EditGoodsViewModel is a struct  *)
(* the closures copy, so the chain runs on when the screen is dismissed.   *)
(* AddGoodsViewModel is held weakly and its single write has no successor. *)
(*                                                                         *)
(* A screen is presented only while a user is signed in, so the first call *)
(* of a chain always finds the user; a later one may not.  The buttons are *)
(* enabled while the name field is not empty, which the user controls.     *)
(***************************************************************************)
EXTENDS HomeScreen

CONSTANT
  MaxPending   \* bound: the user taps no button while this many writes wait

ASSUME GoodsScreensAssumption == MaxPending \in Nat

VARIABLES
  used,       \* ids drawn so far: UUID() returns no id twice
  dropped,    \* history: items on whose screen "remove" was tapped
  committed   \* history: screens whose deleteGoods was confirmed to them

editVars == <<used, dropped, committed>>

EditTypeOK ==
  /\ used \in SUBSET Items
  /\ dropped \in SUBSET Items
  /\ committed \in SUBSET DOMAIN vms

Done(step, o) == [step |-> step, owner |-> o]

\* Faulty variant: the controller closes and leaves the overlay on.
ReportWithoutStop(o) ==
  \/ o \in shown /\ Dismiss(o) /\ UNCHANGED <<root, vms, host>>
  \/ o \notin shown /\ UNCHANGED screenVars

\* A view controller's reaction to .success and to .failed: stop the overlay,
\* dismiss itself.  A controller already gone no longer listens.
Report(o) ==
  \/ o \in shown /\ Stop /\ Dismiss(o) /\ UNCHANGED <<root, vms>>
  \/ o \notin shown /\ UNCHANGED screenVars

\* The tail of every handler that writes: all of Home but the listener.
HomeWaits ==
  /\ GoodsListener
  /\ UNCHANGED <<homeGoods, dateCounts, reloadState, goodsReads, countReads>>

-----------------------------------------------------------------------------
(* Taps on Home that present a screen, and the dismiss button.             *)

add ==
  /\ Touchable(Home)
  /\ Present([kind |-> "add", item |-> NoItem, date |-> today, count |-> 0])
  /\ UNCHANGED <<fsVars, homeVars, editVars, root, host>>

\* The alert that asks before signing out; its Cancel button is dismiss, its
\* OK button is logout of module ShoppingList.
logoutMenuTapped ==
  /\ Touchable(Home)
  /\ Present([kind |-> "logout", item |-> NoItem, date |-> today, count |-> 0])
  /\ UNCHANGED <<fsVars, homeVars, editVars, root, host>>

\* didSelectRow and edit(goods:): the day's count is captured here.
edit(i) ==
  /\ Touchable(Home)
  /\ i \in homeGoods
  /\ Present([kind |-> "edit", item |-> i,
              date |-> getDateCount.date, count |-> getDateCount.count])
  /\ UNCHANGED <<fsVars, homeVars, editVars, root, host>>

dismiss(o) ==
  /\ o \in shown
  /\ vms[o].kind \in {"add", "edit", "logout"}
  /\ Touchable(o)
  /\ Dismiss(o)
  /\ UNCHANGED <<fsVars, homeVars, editVars, root, vms, host>>

-----------------------------------------------------------------------------
(* Taps that start a chain.                                                *)

Submit(o, ws) ==
  /\ Touchable(o)
  /\ Len(queue) < MaxPending
  /\ Start(o)
  /\ Enqueue(ws)
  /\ HomeWaits
  /\ UNCHANGED <<root, shown, vms>>

\* AddGoodsViewController.addGoods
addGoodsTapped(o) ==
  /\ o \in shown
  /\ vms[o].kind = "add"
  /\ \E i \in Items \ used :
       /\ used' = used \cup {i}
       /\ Submit(o, addGoods(i, Done("addGoods", o)))
  /\ UNCHANGED <<dropped, committed>>

\* Faulty variant: the item is deleted first and recorded as bought later.
completeDeletingFirst(o) ==
  /\ o \in shown
  /\ vms[o].kind = "edit"
  /\ Submit(o, deleteGoods(vms[o].item, Done("deleteGoods", o)))
  /\ UNCHANGED editVars

\* EditGoodsViewController.complete
complete(o) ==
  /\ o \in shown
  /\ vms[o].kind = "edit"
  /\ Submit(o, addBoughtGoods(vms[o].item, today, Done("addBoughtGoods", o)))
  /\ UNCHANGED editVars

\* EditGoodsViewController.remove
remove(o) ==
  /\ o \in shown
  /\ vms[o].kind = "edit"
  /\ dropped' = dropped \cup {vms[o].item}
  /\ Submit(o, deleteGoods(vms[o].item, Done("deleteGoods", o)))
  /\ UNCHANGED <<used, committed>>

-----------------------------------------------------------------------------
(* Callbacks of the oldest write, which the server has just settled.       *)

Oldest(step) == queue # <<>> /\ Head(queue).done.step = step

Owner == Head(queue).done.owner

\* The next call of a chain queues ws; if it fails on the spot, that is
\* reported instead.
Continue(o, ws) ==
  /\ Commit(ws)
  /\ IF ws = <<>> THEN Report(o) ELSE UNCHANGED screenVars

\* Completion of AddGoodsViewModel.addGoods.
addGoodsDone ==
  /\ Oldest("addGoods")
  /\ Commit(<<>>) \/ Refuse
  /\ Report(Owner)
  /\ HomeWaits
  /\ UNCHANGED editVars

\* Faulty variant: the chain goes on to deleteGoods after a failure too.
addBoughtGoodsDoneUnchecked ==
  /\ Oldest("addBoughtGoods")
  /\ LET ws == deleteGoods(vms[Owner].item, Done("deleteGoods", Owner))
     IN  \/ Continue(Owner, ws)
         \/ /\ Fault
            /\ queue' = Tail(queue) \o ws
            /\ UNCHANGED <<srv, screenVars>>
  /\ HomeWaits
  /\ UNCHANGED editVars

\* Completion of EditGoodsViewModel.addBoughtGoods.
addBoughtGoodsDone ==
  /\ Oldest("addBoughtGoods")
  /\ \/ Continue(Owner, deleteGoods(vms[Owner].item, Done("deleteGoods", Owner)))
     \/ Refuse /\ Report(Owner)
  /\ HomeWaits
  /\ UNCHANGED editVars

\* Faulty variant: the count is read when it is written.
updateDateCountFresh(o) ==
  LET date == vms[o].date
  IN  updateGoodsCountForDate(date, loadGoodsCountForDate[date] + 1, Done("updateDateCount", o))

\* updateDateCount writes the count captured when the screen was opened, + 1.
updateDateCount(o) ==
  updateGoodsCountForDate(vms[o].date, vms[o].count + 1, Done("updateDateCount", o))

\* Faulty variant: a failed delete is not reported to the controller.
deleteGoodsDoneSilent ==
  /\ Oldest("deleteGoods")
  /\ \/ /\ Continue(Owner, updateDateCount(Owner))
        /\ committed' = committed \cup {Owner}
     \/ /\ Refuse
        /\ UNCHANGED <<screenVars, committed>>
  /\ HomeWaits
  /\ UNCHANGED <<used, dropped>>

\* Completion of EditGoodsViewModel.deleteGoods.
deleteGoodsDone ==
  /\ Oldest("deleteGoods")
  /\ \/ /\ Continue(Owner, updateDateCount(Owner))
        /\ committed' = committed \cup {Owner}
     \/ /\ Refuse
        /\ Report(Owner)
        /\ UNCHANGED committed
  /\ HomeWaits
  /\ UNCHANGED <<used, dropped>>

\* Completion of EditGoodsViewModel.updateDateCount.
updateDateCountDone ==
  /\ Oldest("updateDateCount")
  /\ Commit(<<>>) \/ Refuse
  /\ Report(Owner)
  /\ HomeWaits
  /\ UNCHANGED editVars

\* A write that outlived the process that made it: nobody is told.
lostWriteDone ==
  /\ Oldest("lost")
  /\ Commit(<<>>) \/ Refuse
  /\ HomeWaits
  /\ UNCHANGED <<screenVars, editVars>>

SettleWrite ==
  \/ addGoodsDone
  \/ addBoughtGoodsDone
  \/ deleteGoodsDone
  \/ updateDateCountDone
  \/ lostWriteDone

UserTaps ==
  \/ add
  \/ logoutMenuTapped
  \/ \E i \in Items : edit(i)
  \/ \E o \in DOMAIN vms : dismiss(o) \/ addGoodsTapped(o) \/ complete(o) \/ remove(o)
=============================================================================
