-------------------------- MODULE BoughtGoodsScreen --------------------------
(***************************************************************************)
(* EditBoughtGoods (Screen/EditBoughtGoods), opened on a row of History:   *)
(* it updates a purchase record, deletes it, or reverts the purchase:      *)
(*                                                                         *)
(*   update   updateBoughtGoods                                            *)
(*   delete   deleteBoughtGoods, then updateDateCount                      *)
(*   revert   deleteBoughtGoods, then addGoods, then updateDateCount       *)
(*                                                                         *)
(* EditBoughtGoodsViewModel is a struct the closures copy: a chain runs on *)
(* without its screen.  The controller tells History to load again when it *)
(* is released, if a button of it was tapped.                              *)
(*                                                                         *)
(* The screen is a page sheet (its storyboard asks for no other style), so *)
(* that the user can swipe it down, overlay or not.                        *)
(***************************************************************************)
EXTENDS HistoryScreen

VARIABLES
  changed,  \* controllers whose dataDidChanged is set
  asked     \* history: what was tapped on the screens of each item

boughtVars == <<changed, asked>>

BoughtTypeOK ==
  /\ changed \in SUBSET DOMAIN vms
  /\ asked \in [Items -> SUBSET {"delete", "revert"}]

BoughtInit ==
  /\ changed = {}
  /\ asked = [i \in Items |-> {}]

IsEditBought(o) == o \in shown /\ vms[o].kind = "editBought"

\* The controller leaves the screen and is released; deinit tells History.
Close(o) ==
  /\ Dismiss(o)
  /\ changed' = changed \ {o}
  /\ UNCHANGED <<root, vms>>

CloseAndTell(o, overlay) ==
  /\ Close(o)
  /\ IF o \in changed
       THEN LoadHistory
       ELSE host' = overlay /\ UNCHANGED historyReads

\* The reaction to .success and to .failed: stop the overlay and dismiss.
ReportBought(o) ==
  \/ o \in shown /\ CloseAndTell(o, NoView)
  \/ o \notin shown /\ UNCHANGED <<screenVars, changed, historyReads>>

\* The dismiss button, out of reach under the overlay, or a swipe, which is not.
dismissBought(o) ==
  /\ IsEditBought(o)
  /\ \A p \in shown : p <= o
  /\ CloseAndTell(o, host)
  /\ UNCHANGED <<fsVars, homeVars, editVars, asked, pagerVars, historyState, cells, pageGoods>>

-----------------------------------------------------------------------------
(* Taps that start a chain.                                                *)

SubmitBought(o, ws) ==
  /\ IsEditBought(o)
  /\ Submit(o, ws)
  /\ changed' = changed \cup {o}
  /\ UNCHANGED <<editVars, historyVars>>

\* complete
updateBoughtGoodsTapped(o) ==
  /\ SubmitBought(o, updateBoughtGoods(vms[o].item, vms[o].date, Done("updateBoughtGoods", o)))
  /\ UNCHANGED asked

\* remove
deleteBoughtGoodsTapped(o) ==
  /\ SubmitBought(o, deleteBoughtGoods(vms[o].item, Done("deleteBoughtGoods", o)))
  /\ asked' = [asked EXCEPT ![vms[o].item] = @ \cup {"delete"}]

\* Faulty variant: revert forgets to set dataDidChanged.
revertBoughtGoodsTappedQuietly(o) ==
  /\ IsEditBought(o)
  /\ Submit(o, deleteBoughtGoods(vms[o].item, Done("revertBoughtGoods", o)))
  /\ asked' = [asked EXCEPT ![vms[o].item] = @ \cup {"revert"}]
  /\ UNCHANGED <<changed, editVars, historyVars>>

\* revert
revertBoughtGoodsTapped(o) ==
  /\ SubmitBought(o, deleteBoughtGoods(vms[o].item, Done("revertBoughtGoods", o)))
  /\ asked' = [asked EXCEPT ![vms[o].item] = @ \cup {"revert"}]

-----------------------------------------------------------------------------
(* Callbacks of the oldest write.                                          *)

\* The next call of the chain queues ws, or fails on the spot.
ContinueBought(o, ws) ==
  /\ Commit(ws)
  /\ IF ws = <<>>
       THEN ReportBought(o)
       ELSE UNCHANGED <<screenVars, changed, historyReads>>

BoughtWaits ==
  /\ HomeWaits
  /\ UNCHANGED <<editVars, asked, pagerVars, historyState, cells, pageGoods>>

\* updateDateCount writes the count captured when the screen was opened, - 1.
updateBoughtCount(o) ==
  updateGoodsCountForDate(vms[o].date, vms[o].count - 1, Done("updateBoughtCount", o))

\* Completion of udpateBoughtGoods, or of updateDateCount.
lastBoughtWriteDone ==
  /\ Oldest("updateBoughtGoods") \/ Oldest("updateBoughtCount")
  /\ Commit(<<>>) \/ Refuse
  /\ ReportBought(Owner)
  /\ BoughtWaits

\* Completion of deleteBoughtGoods.
deleteBoughtGoodsDone ==
  /\ Oldest("deleteBoughtGoods")
  /\ \/ ContinueBought(Owner, updateBoughtCount(Owner))
     \/ Refuse /\ ReportBought(Owner)
  /\ BoughtWaits

\* Faulty variant: the item is not listed again.
revertBoughtGoodsDoneForgetful ==
  /\ Oldest("revertBoughtGoods")
  /\ \/ ContinueBought(Owner, updateBoughtCount(Owner))
     \/ Refuse /\ ReportBought(Owner)
  /\ BoughtWaits

\* Completion of the delete inside FirebaseManager.revertBoughtGoods.
revertBoughtGoodsDone ==
  /\ Oldest("revertBoughtGoods")
  /\ \/ ContinueBought(Owner, addGoods(vms[Owner].item, Done("revertAddGoods", Owner)))
     \/ Refuse /\ ReportBought(Owner)
  /\ BoughtWaits

\* Faulty variant: a refused addGoods is not reported to the controller.
revertAddGoodsDoneSilent ==
  /\ Oldest("revertAddGoods")
  /\ \/ ContinueBought(Owner, updateBoughtCount(Owner))
     \/ Refuse /\ UNCHANGED <<screenVars, changed, historyReads>>
  /\ BoughtWaits

\* Completion of the addGoods inside FirebaseManager.revertBoughtGoods.
revertAddGoodsDone ==
  /\ Oldest("revertAddGoods")
  /\ \/ ContinueBought(Owner, updateBoughtCount(Owner))
     \/ Refuse /\ ReportBought(Owner)
  /\ BoughtWaits

SettleBoughtWrite ==
  \/ lastBoughtWriteDone
  \/ deleteBoughtGoodsDone
  \/ revertBoughtGoodsDone
  \/ revertAddGoodsDone

BoughtTaps ==
  \E o \in DOMAIN vms :
    \/ dismissBought(o)
    \/ updateBoughtGoodsTapped(o)
    \/ deleteBoughtGoodsTapped(o)
    \/ revertBoughtGoodsTapped(o)
=============================================================================
