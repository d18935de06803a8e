------------------------------- MODULE BuyLog -------------------------------
(***************************************************************************)
(* The shopping list together with its log of purchases: Home, AddGoods    *)
(* and EditGoods (module ShoppingList) with History and EditBoughtGoods on *)
(* top of the same Firestore, the same overlay and the same day counts.    *)
(***************************************************************************)
EXTENDS ShoppingList, BoughtGoodsScreen

CONSTANTS
  ListedBefore,   \* items an earlier session left on the list
  BoughtBefore,   \* its purchases: pairs of an item and a day
  FirstDay        \* the day of the launch

ASSUME BuyLogAssumption ==
  /\ ListedBefore \subseteq Items
  /\ BoughtBefore \subseteq Items \X Dates
  /\ IsFiniteSet(BoughtBefore)
  /\ FirstDay \in Dates
  /\ \A p \in BoughtBefore : p[1] \notin ListedBefore /\ p[2] <= FirstDay
  /\ \A p, q \in BoughtBefore : p[1] = q[1] => p = q

VARIABLES
  stray,        \* history: some write was pending with no screen waiting for it
  interrupted   \* history: a write was refused, the user was signed out, or
                \* the process was killed

logVars == <<stray, interrupted>>

buyLogVars == <<vars, historyVars, boughtVars, logVars>>

BoughtBeforeOn(d) == {p \in BoughtBefore : p[2] = d}

\* What an undisturbed earlier session stored.
StoredBefore(doc) ==
  CASE doc \in {goods(i) : i \in ListedBefore}            -> GoodsData
    [] doc \in {boughtgoods(p[1]) : p \in BoughtBefore}   ->
         (CHOOSE p \in BoughtBefore : boughtgoods(p[1]) = doc)[2]
    [] doc \in {datecount(p[2]) : p \in BoughtBefore}     ->
         Cardinality(BoughtBeforeOn(doc[2]))
    [] OTHER                                              -> Absent

BuyLogInit ==
  /\ srv = [doc \in Docs |-> StoredBefore(doc)]
  /\ queue = <<>>
  /\ faults = 0
  /\ used = ListedBefore \cup {p[1] : p \in BoughtBefore}
  /\ today = FirstDay
  /\ Launched
  /\ HistoryInit
  /\ BoughtInit
  /\ stray = FALSE
  /\ interrupted = FALSE

\* A write whose end nobody will see: its closure or its screen is gone.
Unattended(w) == w.done = Lost \/ w.done.owner \notin shown

Refused == faults' # faults /\ queue' # queue

Observe ==
  /\ stray' = (stray \/ (\E w \in Pending : Unattended(w))')
  /\ interrupted' = (interrupted \/ Refused \/ ~signedIn' \/ restarts' # restarts)

ListStep ==
  /\ HomeStep \/ GoodsStep \/ logout \/ login \/ DayPasses
  /\ UNCHANGED <<historyVars, boughtVars>>

RestartAll ==
  /\ Restart
  /\ HistoryGone
  /\ changed' = {}
  /\ UNCHANGED asked

HistoryStep ==
  /\ HistoryTaps \/ HistoryLoads
  /\ UNCHANGED <<signedIn, today, restarts, boughtVars>>

BoughtStep ==
  /\ BoughtTaps \/ SettleBoughtWrite
  /\ UNCHANGED <<signedIn, today, restarts>>

BuyLogNext ==
  /\ ListStep \/ RestartAll \/ HistoryStep \/ BoughtStep
  /\ Observe

BuyLogSpec == BuyLogInit /\ [][BuyLogNext]_buyLogVars

(***************************************************************************)
(* As in ShoppingList: requests are answered, snapshots are delivered, and *)
(* the pager makes the cells it shows.  Nothing is assumed of the user.    *)
(***************************************************************************)
BuyLogFairness ==
  /\ WF_buyLogVars(BuyLogNext /\ ListStep /\ SettleWrite)
  /\ WF_buyLogVars(BuyLogNext /\ BoughtStep /\ SettleBoughtWrite)
  /\ WF_buyLogVars(BuyLogNext /\ ListStep /\ observeGoodsData)
  /\ WF_buyLogVars(BuyLogNext /\ HistoryStep /\ (historyLoadSucceeds \/ historyLoadFails))

FairBuyLog == BuyLogSpec /\ BuyLogFairness

-----------------------------------------------------------------------------
(* Properties.                                                             *)

\* Every variable of the list, of History and of EditBoughtGoods stays in its
\* type; in particular every page of History has a positive count.
BuyLogTypeOK ==
  /\ TypeOK
  /\ HistoryTypeOK
  /\ BoughtTypeOK
  /\ stray \in BOOLEAN
  /\ interrupted \in BOOLEAN

\* Reverting a purchase deletes its record before it lists the item again
\* (FirebaseManager.revertBoughtGoods).  As long as no write is refused, the
\* user stays signed in and the process alive, no order of taps, of callbacks
\* and of chains that outlive their screen loses an item: it is stored as
\* listed or as bought or is about to be listed, unless the user asked to
\* remove or to delete it.
Conserved ==
  ~interrupted =>
    \A i \in used :
      Listed(i) \/ Bought(i) \/ AddPending(i) \/ i \in dropped \/ "delete" \in asked[i]

\* EditGoods and EditBoughtGoods write counts captured on two different
\* screens.  However stale those are, a day's count never goes below zero and
\* never above what the earlier session left plus the screens of that day
\* that took an item off the list.
DayCountWithin ==
  \A d \in Dates :
    /\ 0 <= loadGoodsCountForDate[d]
    /\ loadGoodsCountForDate[d] <= Cardinality(BoughtBeforeOn(d)) + Cardinality(CommittedOn(d))

\* What History shows is what the device has stored, as long as every write
\* has had its screen waiting for it: the pages may differ only while a load
\* is on its way or while the screen that will ask for one is still open.
HistoryFresh ==
  HistoryShown /\ historyState = "success" /\ ~stray =>
    \/ historyReads > 0
    \/ changed # {}
    \/ /\ dates = LoadedDates
       /\ \A d \in Dates : cells[d] = "success" => pageGoods[d] = fetchBoughtGoods(d)

\* The overlay blocks a presented screen only while that screen waits for one
\* of its writes, or History for its load, or after that load has failed.
OverlayExplained ==
  \A o \in shown :
    host = o => \/ Waits(o)
                \/ vms[o].kind = "history" /\ (historyReads > 0 \/ historyState = "failed")

\* The row History remembers is the row in the middle of the pager, and so
\* the row a reload scrolls to, unless a reload has left no such row.  "The
\* size of an item and of the gap between items make up one item" (comment in
\* scrollViewWillEndDragging), in scrollViewDidEndDecelerating as well.
PagerFollows ==
  HistoryShown /\ currentIndex \in Rows(dates) => currentIndex = page

\* currentIndex comes to name a row that does not exist (-1, or one past the
\* end) only when an answer brings no day at all or fewer than before.
IndexLeavesRows ==
  currentIndex \in Rows(dates) /\ HistoryShown' /\ currentIndex' \notin Rows(dates)' =>
    Len(dates') < Len(dates)

IndexKept == [][IndexLeavesRows]_buyLogVars

\* History catches up with the stored counts, or shows that a load failed, if
\* no write is left without its screen.
HistoryCatchesUp ==
  (HistoryShown /\ dates # LoadedDates)
    ~> (~HistoryShown \/ dates = LoadedDates \/ historyState = "failed" \/ stray)

(***************************************************************************)
(* The items go through the phases of ItemLifecycle, History included.     *)
(***************************************************************************)
LogLifecycle == INSTANCE ItemLifecycle WITH
  phase <- [i \in Items |-> Phase(i)],
  requested <- [i \in Items |-> asked[i] \cup IF i \in dropped THEN {"remove"} ELSE {}]

\* Whatever fails, is lost in a restart or outlives its screen: an item leaves
\* the list unbought only if its removal was asked for, or the deletion or the
\* reversal of its purchase record, and such a record disappears only if its
\* deletion or its reversal was asked for.
ImplementsLogLifecycle == LogLifecycle!LifecycleSpec
=============================================================================
