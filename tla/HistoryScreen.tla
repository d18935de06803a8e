---------------------------- MODULE HistoryScreen ----------------------------
(***************************************************************************)
(* The History screen (Screen/History): one page per day with a positive   *)
(* count, in a horizontal pager.  The counts are loaded when the screen    *)
(* opens and again after a purchase was edited; every page fetches the     *)
(* purchases of its day when its cell is made.                             *)
(*                                                                         *)
(* Rows are numbered from 0, as index paths are; row k shows dates[k + 1]. *)
(* There is at most one History, presented on Home.  Its closures hold it  *)
(* weakly: what is in flight when it closes finds nobody.                  *)
(***************************************************************************)
EXTENDS GoodsScreens, KeyOrder

CONSTANT
  ViewWidth   \* the width of the pager, in points

ASSUME HistoryScreenAssumption == ViewWidth \in Nat /\ ViewWidth > 160

VARIABLES
  dates,         \* HistoryViewModel.dates
  currentIndex,  \* HistoryViewModel.currentIndex.item
  page,          \* the row in the middle of the pager
  historyState,  \* the last state announced, "opened" before the first answer
  historyReads,  \* loadGoodsCountForDate requests in flight
  cells,         \* the state of each day's content view
  pageGoods      \* HistoryContentViewModel.boughtGoods of each day's cell

pagerVars == <<dates, currentIndex, page>>
historyVars == <<pagerVars, historyState, historyReads, cells, pageGoods>>

DateCount == [date : Dates, count : Nat \ {0}]

HistoryTypeOK ==
  /\ dates \in Seq(DateCount)
  /\ currentIndex \in Int
  /\ page \in Nat
  /\ historyState \in {"opened", "success", "failed"}
  /\ historyReads \in Nat
  /\ cells \in [Dates -> {"none", "loading", "success", "failed"}]
  /\ pageGoods \in [Dates -> SUBSET Items]

Rows(ds) == 0 .. Len(ds) - 1

\* collectionView.reloadData drops all cells with their content views.
reloadData ==
  /\ cells' = [d \in Dates |-> "none"]
  /\ pageGoods' = [d \in Dates |-> {}]

HistoryInit ==
  /\ dates = <<>>
  /\ currentIndex = 0
  /\ page = 0
  /\ historyState = "opened"
  /\ historyReads = 0
  /\ cells = [d \in Dates |-> "none"]
  /\ pageGoods = [d \in Dates |-> {}]

\* The controller is released.
HistoryGone ==
  /\ dates' = <<>>
  /\ currentIndex' = 0
  /\ page' = 0
  /\ historyState' = "opened"
  /\ historyReads' = 0
  /\ reloadData

HistoryShown == \E o \in shown : vms[o].kind = "history"

HistoryController == CHOOSE o \in shown : vms[o].kind = "history"

\* Where loadGoodsCountForDate announces .loading.
LoadHistory ==
  /\ historyReads' = historyReads + 1
  /\ Start(HistoryController)

-----------------------------------------------------------------------------
(* Opening, loading and closing.                                           *)

\* HomeViewController.history, with viewDidLoad.
history ==
  /\ Touchable(Home)
  /\ Present([kind |-> "history", item |-> NoItem, date |-> today, count |-> 0])
  /\ Start(Len(vms) + 1)
  /\ historyReads' = 1
  /\ UNCHANGED <<fsVars, root, homeVars, editVars, pagerVars, historyState, cells, pageGoods>>

DateCounts == [d \in Dates |-> [date |-> d, count |-> loadGoodsCountForDate[d]]]

\* Faulty variant: days whose count has come down to zero are kept.
LoadedDatesUnfiltered ==
  KeptAt(DateCounts, {d \in Dates : LocalView(datecount(d)) # Absent})

\* The documents arrive in the order of their keys, which are dates.
LoadedDates == KeptAt(DateCounts, {d \in Dates : DateCounts[d].count > 0})

\* scrollToItem.  A row that does not exist leaves the pager where it is, or
\* at its last row when there are fewer rows now.
scrollToItem(index, ds) ==
  CASE index \in Rows(ds)                       -> index
    [] index \notin Rows(ds) /\ page \in Rows(ds) -> page
    [] OTHER                                    -> Max({0, Len(ds) - 1})

\* isFirstLoad: the index becomes lastIndex, -1 when there is no day.
FirstIndex(ds) == IF historyState = "opened" THEN Len(ds) - 1 ELSE currentIndex

\* Completion of HistoryViewModel.loadGoodsCountForDate, case .success.
historyLoadSucceeds ==
  /\ historyReads > 0
  /\ historyReads' = historyReads - 1
  /\ dates' = LoadedDates
  /\ currentIndex' = FirstIndex(LoadedDates)
  /\ historyState' = "success"
  /\ reloadData
  /\ page' = scrollToItem(FirstIndex(LoadedDates), LoadedDates)
  /\ Stop
  /\ UNCHANGED <<fsVars, root, shown, vms, homeVars, editVars>>

\* ... and case .failed, which starts the overlay again.
historyLoadFails ==
  /\ historyReads > 0
  /\ historyReads' = historyReads - 1
  /\ currentIndex' = FirstIndex(dates)
  /\ historyState' = "failed"
  /\ Start(HistoryController)
  /\ Fault
  /\ UNCHANGED <<srv, queue, root, shown, vms, homeVars, editVars, dates, page, cells, pageGoods>>

dismissHistory ==
  /\ HistoryShown
  /\ Touchable(HistoryController)
  /\ Dismiss(HistoryController)
  /\ HistoryGone
  /\ UNCHANGED <<fsVars, root, vms, host, homeVars, editVars>>

-----------------------------------------------------------------------------
(* The pager.                                                              *)

\* scrollViewWillEndDragging stops the pager with row k in the middle: pages
\* are a cell (ViewWidth - 80) and a gap (20) apart, the left inset is 40.
PageOffset(k) == k * (ViewWidth - 80 + 20) - 40

\* x / c rounded to the nearest integer, ties away from zero.
Rounded(x, c) ==
  IF x >= 0 THEN (2 * x + c) \div (2 * c) ELSE -((c - 2 * x) \div (2 * c))

\* Faulty variants: the quotient is rounded down; rows are counted from one.
DecelerationIndexDown(k) == PageOffset(k) \div (ViewWidth - 80)
DecelerationIndexFromOne(k) == Rounded(PageOffset(k), ViewWidth - 80) + 1

\* scrollViewDidEndDecelerating divides the offset by the width of a cell.
DecelerationIndex(k) == Rounded(PageOffset(k), ViewWidth - 80)

scroll(k) ==
  /\ HistoryShown
  /\ Touchable(HistoryController)
  /\ k \in Rows(dates) \ {page}
  /\ page' = k
  /\ currentIndex' = DecelerationIndex(k)
  /\ UNCHANGED <<fsVars, screenVars, homeVars, editVars, dates, historyState, historyReads,
                 cells, pageGoods>>

Near(k) == k - page \in -1 .. 1

\* cellForItemAt: the pager makes the cell of a row that has none, in view or
\* ahead of it, and makes a cell that was out of view anew.  The new content
\* view fetches the purchases of its day.
cellForItemAt(k) ==
  /\ HistoryShown
  /\ k \in Rows(dates)
  /\ LET d == dates[k + 1].date
     IN  /\ cells[d] = "none" \/ ~Near(k)
         /\ cells' = [cells EXCEPT ![d] = "loading"]
         /\ pageGoods' = [pageGoods EXCEPT ![d] = {}]
  /\ UNCHANGED <<fsVars, screenVars, homeVars, editVars, pagerVars, historyState, historyReads>>

\* Completion of HistoryContentViewModel.fetchAllBoughtGoods.
fetchSucceeds(d) ==
  /\ cells[d] = "loading"
  /\ cells' = [cells EXCEPT ![d] = "success"]
  /\ pageGoods' = [pageGoods EXCEPT ![d] = fetchBoughtGoods(d)]
  /\ UNCHANGED <<fsVars, screenVars, homeVars, editVars, pagerVars, historyState, historyReads>>

fetchFails(d) ==
  /\ cells[d] = "loading"
  /\ cells' = [cells EXCEPT ![d] = "failed"]
  /\ Fault
  /\ UNCHANGED <<srv, queue, screenVars, homeVars, editVars, pagerVars, historyState,
                 historyReads, pageGoods>>

\* HistoryContentView.didSelectRowAt: the day's count, as the cell was given
\* it, is captured here.
didSelectRowAt(k, i) ==
  /\ HistoryShown
  /\ Touchable(HistoryController)
  /\ k \in Rows(dates) /\ Near(k)
  /\ i \in pageGoods[dates[k + 1].date]
  /\ Present([kind |-> "editBought", item |-> i,
              date |-> dates[k + 1].date, count |-> dates[k + 1].count])
  /\ UNCHANGED <<fsVars, root, host, homeVars, editVars, historyVars>>

HistoryTaps ==
  \/ history
  \/ dismissHistory
  \/ \E k \in Rows(dates) : scroll(k) \/ \E i \in Items : didSelectRowAt(k, i)

HistoryLoads ==
  \/ historyLoadSucceeds
  \/ historyLoadFails
  \/ \E k \in Rows(dates) : cellForItemAt(k)
  \/ \E d \in Dates : fetchSucceeds(d) \/ fetchFails(d)
=============================================================================
