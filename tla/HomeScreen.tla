----------------------------- MODULE HomeScreen -----------------------------
(***************************************************************************)
(* The Home screen (Screen/Home): it listens to the goods collection and,  *)
(* on every snapshot, loads the shopping list and the day counts anew.     *)
(* The snapshot only says that something changed; what Home shows is what  *)
(* the two loads return, whenever they return.                             *)
(*                                                                         *)
(* All handlers run on the main thread, one at a time.                     *)
(***************************************************************************)
EXTENDS FirebaseManager, Screens

VARIABLES
  homeGoods,    \* HomeViewModel.goods, the rows of the list
  dateCounts,   \* HomeViewModel.dateCounts
  reloadState,  \* HomeViewModel.reloadState
  snaps,        \* snapshots the listener has raised and Home not handled
  goodsReads,   \* loadGoods requests in flight
  countReads,   \* loadGoodsCountForDate requests in flight
  today         \* the device's calendar day

homeVars == <<homeGoods, dateCounts, reloadState, snaps, goodsReads, countReads>>

HomeTypeOK ==
  /\ homeGoods \in SUBSET Items
  /\ dateCounts \in [Dates -> Int]
  /\ reloadState \in {"loading", "success", "failed"}
  /\ snaps \in Nat
  /\ goodsReads \in Nat
  /\ countReads \in Nat
  /\ today \in Dates

\* A new HomeViewModel, or none: what it holds before the first load.
BlankHome ==
  /\ homeGoods' = {}
  /\ dateCounts' = [d \in Dates |-> 0]
  /\ reloadState' = "loading"
  /\ goodsReads' = 0
  /\ countReads' = 0

\* Faulty variant: viewDidLoad forgets to observe the collection.
HomeAppearsUnobserved == BlankHome /\ snaps' = 0

\* viewDidLoad: subscribing to the collection raises a first snapshot.
HomeAppears == BlankHome /\ snaps' = 1

\* The controller is released.  Its closures hold it weakly: a load still in
\* flight and the listener, which is never removed, find nobody.
HomeGone == BlankHome /\ snaps' = 0

\* The snapshot listener: raised when the local contents of the collection
\* change, be it by a write of this device or by a write rolled back, and
\* not when a pending write is merely confirmed.
GoodsListener ==
  snaps' = IF root = "home" /\ loadGoods' # loadGoods THEN snaps + 1 ELSE snaps

\* getDateCount
getDateCount == [date |-> today, count |-> dateCounts[today]]

-----------------------------------------------------------------------------

\* Faulty variant: a snapshot reloads the counts and not the list.
observeGoodsDataCountsOnly ==
  /\ root = "home"
  /\ snaps > 0
  /\ snaps' = snaps - 1
  /\ countReads' = countReads + 1
  /\ UNCHANGED <<fsVars, screenVars, homeGoods, dateCounts, reloadState, goodsReads>>

\* observeGoodsData: handling of one snapshot.  loadGoods announces .loading,
\* at which HomeViewController starts the overlay on its own view.
observeGoodsData ==
  /\ root = "home"
  /\ snaps > 0
  /\ snaps' = snaps - 1
  /\ goodsReads' = goodsReads + 1
  /\ countReads' = countReads + 1
  /\ Start(Home)
  /\ UNCHANGED <<fsVars, root, shown, vms, homeGoods, dateCounts, reloadState>>

\* Completion of HomeViewModel.loadGoods with bindViewModel's case .success.
loadGoodsSucceeds ==
  /\ goodsReads > 0
  /\ goodsReads' = goodsReads - 1
  /\ homeGoods' = loadGoods
  /\ reloadState' = "success"
  /\ Stop
  /\ UNCHANGED <<fsVars, root, shown, vms, dateCounts, snaps, countReads>>

\* ... and with case .failed, which starts the overlay again.
loadGoodsFails ==
  /\ goodsReads > 0
  /\ goodsReads' = goodsReads - 1
  /\ reloadState' = "failed"
  /\ Start(Home)
  /\ Fault
  /\ UNCHANGED <<srv, queue, root, shown, vms, homeGoods, dateCounts, snaps, countReads>>

\* Completion of HomeViewModel.loadGoodsCountForDate: an error is dropped.
loadCountsSucceeds ==
  /\ countReads > 0
  /\ countReads' = countReads - 1
  /\ dateCounts' = loadGoodsCountForDate
  /\ UNCHANGED <<fsVars, screenVars, homeGoods, reloadState, snaps, goodsReads>>

loadCountsFails ==
  /\ countReads > 0
  /\ countReads' = countReads - 1
  /\ Fault
  /\ UNCHANGED <<srv, queue, screenVars, homeGoods, dateCounts, reloadState, snaps, goodsReads>>

HomeNext ==
  \/ observeGoodsData
  \/ loadGoodsSucceeds
  \/ loadGoodsFails
  \/ loadCountsSucceeds
  \/ loadCountsFails
=============================================================================
