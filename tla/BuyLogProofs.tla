----------------------------- MODULE BuyLogProofs -----------------------------
(***************************************************************************)
(* Proofs about the purchase log and History (modules BoughtGoodsScreen,   *)
(* HistoryScreen and BuyLog), for every number of days and items, every    *)
(* width of the pager and every fault: the arithmetic of the pager, the    *)
(* invariant of the whole composition (screens, pending calls, loads),     *)
(* and from it the overlay, History's freshness, the index that is         *)
(* remembered, the counts of the days, the refinement of ItemLifecycle     *)
(* and the conservation of items.                                          *)
(***************************************************************************)
EXTENDS BuyLog, ShoppingListProofs, KeyOrderProofs

-----------------------------------------------------------------------------
(* scrollViewDidEndDecelerating divides by the width of a cell although    *)
(* pages are a cell and a gap apart.  The error, 20 points a page, is      *)
(* rounded away on the first pages.                                        *)

LEMMA Division ==
  ASSUME NEW q \in Int, NEW c \in Nat \ {0}, NEW r \in 0 .. c - 1
  PROVE  (c * q + r) \div c = q
OBVIOUS

\* The index computed for page k is k as long as 40 * k < ViewWidth.
THEOREM DecelerationIsExact ==
  ASSUME NEW k \in Nat, 40 * k < ViewWidth
  PROVE  DecelerationIndex(k) = k
<1> DEFINE c == ViewWidth - 80
           x == PageOffset(k)
           r == 40 * k - 80 + c
<1>1. c \in Nat /\ c > 80 /\ x \in Int
  BY HistoryScreenAssumption DEF PageOffset
<1>2. CASE k = 0
  <2>1. x = -40
    BY <1>2, HistoryScreenAssumption DEF PageOffset
  <2>2. c - 2 * x \in 0 .. 2 * c - 1
    BY <1>1, <2>1
  <2>3. (c - 2 * x) \div (2 * c) = 0
    <3> HIDE DEF c, x
    <3>1. 2 * c \in Nat \ {0}
      BY <1>1
    <3>2. (2 * c) * 0 + (c - 2 * x) = c - 2 * x
      BY <1>1
    <3> QED
      BY <2>2, <3>1, <3>2, Division
  <2> QED
    BY <1>2, <2>1, <2>3 DEF DecelerationIndex, Rounded
<1>3. CASE k > 0
  <2>1. x >= 0
    <3>1. k * (ViewWidth - 60) >= ViewWidth - 60
      BY <1>3, HistoryScreenAssumption
    <3> QED
      BY <3>1, HistoryScreenAssumption DEF PageOffset
  <2>2. r \in 0 .. 2 * c - 1
    BY <1>1, <1>3, HistoryScreenAssumption
  <2>3. 2 * x + c = (2 * c) * k + r
    BY HistoryScreenAssumption DEF PageOffset
  <2>4. (2 * x + c) \div (2 * c) = k
    <3> HIDE DEF c, x, r
    <3>1. 2 * c \in Nat \ {0}
      BY <1>1
    <3> QED
      BY <2>2, <2>3, <3>1, Division
  <2> QED
    BY <2>1, <2>4 DEF DecelerationIndex, Rounded
<1> QED
  BY <1>2, <1>3

-----------------------------------------------------------------------------
(* The row History remembers is the row in the middle.                     *)

\* No page lies so far to the right that the error shows.
PagesFit == \A k \in Rows(dates) : 40 * k < ViewWidth

\* Before the first answer there is no row: a failed first load, too, leaves
\* currentIndex outside the rows.
PagerInv ==
  /\ currentIndex \in Rows(dates) => currentIndex = page
  /\ historyState = "opened" => dates = <<>>

LEMMA NoRows == Rows(<<>>) = {}
BY DEF Rows

LEMMA GonePager ==
  ASSUME HistoryGone
  PROVE  PagerInv'
BY NoRows DEF HistoryGone, PagerInv, Rows

\* What neither the list nor EditBoughtGoods writes.
LEMMA PagerFrame ==
  ASSUME PagerInv, UNCHANGED <<pagerVars, historyState>>
  PROVE  PagerInv'
BY DEF PagerInv, pagerVars, Rows

LEMMA BoughtFrame ==
  ASSUME BoughtStep
  PROVE  UNCHANGED <<pagerVars, historyState>>
<1>1. CASE BoughtTaps
  BY <1>1 DEF BoughtTaps, dismissBought, updateBoughtGoodsTapped, deleteBoughtGoodsTapped,
              revertBoughtGoodsTapped, SubmitBought, historyVars
<1>2. CASE SettleBoughtWrite
  BY <1>2 DEF SettleBoughtWrite, lastBoughtWriteDone, deleteBoughtGoodsDone,
              revertBoughtGoodsDone, revertAddGoodsDone, BoughtWaits
<1> QED
  BY <1>1, <1>2 DEF BoughtStep

LEMMA InitPager == BuyLogInit => PagerInv
BY NoRows DEF BuyLogInit, HistoryInit, PagerInv

LEMMA NextPager == HistoryTypeOK /\ PagerInv /\ PagesFit /\ [BuyLogNext]_buyLogVars => PagerInv'
<1> SUFFICES ASSUME HistoryTypeOK, PagerInv, PagesFit, [BuyLogNext]_buyLogVars
             PROVE  PagerInv'
  OBVIOUS
<1>1. CASE ListStep
  BY <1>1, PagerFrame DEF ListStep, historyVars
<1>2. CASE RestartAll
  BY <1>2, GonePager DEF RestartAll
<1>3. CASE BoughtStep
  BY <1>3, BoughtFrame, PagerFrame
<1>4. CASE UNCHANGED buyLogVars
  BY <1>4, PagerFrame DEF buyLogVars, historyVars
<1>5. CASE history
  BY <1>5, PagerFrame DEF history
<1>6. CASE dismissHistory
  BY <1>6, GonePager DEF dismissHistory
<1>7. ASSUME NEW k \in Rows(dates), scroll(k)
      PROVE  PagerInv'
  <2>0. k \in Nat
    BY LenProperties DEF HistoryTypeOK, Rows
  <2>1. currentIndex' = k /\ page' = k
    BY <1>7, <2>0, DecelerationIsExact DEF scroll, PagesFit
  <2> QED
    BY <1>7, <2>1 DEF scroll, PagerInv
<1>8. ASSUME NEW k \in Rows(dates), NEW i \in Items, didSelectRowAt(k, i)
      PROVE  PagerInv'
  BY <1>8, PagerFrame DEF didSelectRowAt, historyVars
<1>9. CASE historyLoadSucceeds
  <2> DEFINE index == FirstIndex(LoadedDates)
  <2>1. index \in Rows(LoadedDates) => scrollToItem(index, LoadedDates) = index
    BY DEF scrollToItem
  <2>2. Rows(dates)' = Rows(LoadedDates)
    BY <1>9 DEF historyLoadSucceeds, Rows
  <2> QED
    BY <1>9, <2>1, <2>2 DEF historyLoadSucceeds, PagerInv
<1>10. CASE historyLoadFails
  <2>1. historyState = "opened" => Rows(dates)' = {}
    BY <1>10, NoRows DEF historyLoadFails, PagerInv, Rows
  <2>2. historyState # "opened" => UNCHANGED <<currentIndex, page, dates>>
    BY <1>10 DEF historyLoadFails, FirstIndex
  <2> QED
    BY <1>10, <2>1, <2>2 DEF historyLoadFails, PagerInv, Rows
<1>11. ASSUME NEW k \in Rows(dates), cellForItemAt(k)
       PROVE  PagerInv'
  BY <1>11, PagerFrame DEF cellForItemAt
<1>12. ASSUME NEW d \in Dates, fetchSucceeds(d) \/ fetchFails(d)
       PROVE  PagerInv'
  BY <1>12, PagerFrame DEF fetchSucceeds, fetchFails
<1>13. CASE HistoryStep
  BY <1>13, <1>5, <1>6, <1>7, <1>8, <1>9, <1>10, <1>11, <1>12
  DEF HistoryStep, HistoryTaps, HistoryLoads
<1> QED
  BY <1>1, <1>2, <1>3, <1>4, <1>13 DEF BuyLogNext

-----------------------------------------------------------------------------
(* What the chains of EditBoughtGoods do, write by write.                  *)

BoughtSteps ==
  {"updateBoughtGoods", "deleteBoughtGoods", "revertBoughtGoods", "revertAddGoods",
   "updateBoughtCount"}

LEMMA BoughtOwner ==
  ASSUME TypeInv, NEW step \in BoughtSteps, Oldest(step)
  PROVE  /\ Owner \in DOMAIN vms /\ Owner \in Nat \ {0}
         /\ vms[Owner] \in ViewModel /\ vms[Owner].item \in Items
         /\ vms[Owner].date \in Dates /\ vms[Owner].count \in Int
         /\ Head(queue).done # Lost /\ Head(queue).done.step = step
<1>1. step \in Steps /\ step # "addGoods"
  BY DEF BoughtSteps, Steps
<1>2. Owner \in DOMAIN vms /\ vms[Owner] \in ViewModel /\ vms[Owner].item \in Items
  BY <1>1, OldestOwner
<1>3. Owner \in Nat \ {0}
  BY <1>2, ViewModelsDomain DEF TypeInv, TypeOK
<1>4. vms[Owner].date \in Dates /\ vms[Owner].count \in Int
  BY <1>2 DEF ViewModel
<1>5. Head(queue).done # Lost /\ Head(queue).done.step = step
  BY DEF Oldest, Lost, BoughtSteps
<1> QED BY <1>2, <1>3, <1>4, <1>5

\* The write the callback of the oldest one queues: the item again, or the
\* captured count less one.
BoughtNext(w) ==
  /\ w.done # Lost /\ w.done.owner = Owner
  /\ \/ /\ Head(queue).done.step \in {"deleteBoughtGoods", "revertAddGoods"}
        /\ w.done.step = "updateBoughtCount"
        /\ w.doc = datecount(vms[Owner].date) /\ w.val = vms[Owner].count - 1
     \/ /\ Head(queue).done.step = "revertBoughtGoods"
        /\ w.done.step = "revertAddGoods"
        /\ w.doc = goods(vms[Owner].item) /\ w.val = GoodsData

\* A chain ends - its last write is settled, a write of it is refused or the
\* user is gone - and is reported, or it goes on.
BoughtSettled ==
  /\ BoughtWaits
  /\ Owner \in DOMAIN vms /\ vms[Owner].item \in Items
  /\ Head(queue).done # Lost /\ Head(queue).done.step \in BoughtSteps
  /\ \/ /\ \/ Refuse
           \/ /\ Commit(<<>>)
              /\ ~signedIn \/ Head(queue).done.step \in {"updateBoughtGoods", "updateBoughtCount"}
        /\ ReportBought(Owner)
     \/ \E w \in Write :
          /\ Commit(<<w>>)
          /\ BoughtNext(w)
          /\ UNCHANGED <<screenVars, changed, historyReads>>

LEMMA BoughtSettles ==
  ASSUME TypeInv, SettleBoughtWrite
  PROVE  BoughtSettled
<1>a. FsTypeOK /\ ScreensTypeOK
  BY DEF TypeInv, TypeOK
<1>b. ASSUME NEW step \in BoughtSteps, Oldest(step), BoughtWaits,
             \/ (Refuse \/ Commit(<<>>)) /\ step \in {"updateBoughtGoods", "updateBoughtCount"}
             \/ Refuse,
             ReportBought(Owner)
      PROVE  BoughtSettled
  BY <1>b, BoughtOwner DEF BoughtSettled
<1>c. ASSUME NEW step \in BoughtSteps, Oldest(step), BoughtWaits,
             NEW doc \in Docs, NEW val \in Values, Fits(doc, val), NEW next \in BoughtSteps,
             ContinueBought(Owner, Calls(doc, val, Done(next, Owner))),
             BoughtNext([doc |-> doc, val |-> val, done |-> Done(next, Owner)])
      PROVE  BoughtSettled
  <2> DEFINE w == [doc |-> doc, val |-> val, done |-> Done(next, Owner)]
  <2>0. /\ Owner \in DOMAIN vms /\ vms[Owner].item \in Items /\ Owner \in Nat \ {0}
        /\ Head(queue).done # Lost /\ Head(queue).done.step \in BoughtSteps
    BY <1>c, BoughtOwner
  <2>1. w \in Write
    <3>1. next \in Steps
      BY DEF BoughtSteps, Steps
    <3>2. Done(next, Owner) \in Callbacks
      BY <2>0, <3>1, DoneIsCallback
    <3> QED BY <1>c, <3>2 DEF Write
  <2>2. CASE signedIn
    <3>1. Calls(doc, val, Done(next, Owner)) = <<w>>
      BY <2>2 DEF Calls, currentUser
    <3>2. BoughtNext(w)
      BY <1>c
    <3> HIDE DEF w
    <3>3. <<w>> # <<>>
      OBVIOUS
    <3>4. Commit(<<w>>) /\ UNCHANGED <<screenVars, changed, historyReads>>
      BY <1>c, <3>1, <3>3 DEF ContinueBought
    <3> QED BY <1>c, <2>0, <2>1, <3>2, <3>4 DEF BoughtSettled
  <2>3. CASE ~signedIn
    <3>1. Calls(doc, val, Done(next, Owner)) = <<>>
      BY <2>3 DEF Calls, currentUser
    <3>2. Commit(<<>>) /\ ReportBought(Owner)
      BY <1>c, <3>1 DEF ContinueBought
    <3> QED BY <1>c, <2>0, <2>3, <3>2 DEF BoughtSettled
  <2> QED BY <2>2, <2>3
<1>d. ASSUME NEW step \in {"deleteBoughtGoods", "revertAddGoods"}, Oldest(step), BoughtWaits,
             ContinueBought(Owner, updateBoughtCount(Owner))
      PROVE  BoughtSettled
  <2>0. step \in BoughtSteps /\ "updateBoughtCount" \in BoughtSteps
    BY DEF BoughtSteps
  <2>1. /\ vms[Owner].date \in Dates /\ vms[Owner].count - 1 \in Int /\ Owner \in Nat \ {0}
        /\ Head(queue).done.step = step
    BY <1>d, <2>0, BoughtOwner
  <2> DEFINE doc == datecount(vms[Owner].date)
             val == vms[Owner].count - 1
  <2>2. doc \in Docs /\ val \in Values /\ Fits(doc, val)
    BY <2>1, CountDocs DEF Values
  <2>3. BoughtNext([doc |-> doc, val |-> val, done |-> Done("updateBoughtCount", Owner)])
    BY <1>d, <2>1 DEF BoughtNext, Done, Lost
  <2>4. updateBoughtCount(Owner) = Calls(doc, val, Done("updateBoughtCount", Owner))
    BY DEF updateBoughtCount, updateGoodsCountForDate
  <2> HIDE DEF doc, val
  <2> QED BY <1>d, <2>0, <2>2, <2>3, <2>4, <1>c
<1>1. CASE lastBoughtWriteDone
  BY <1>1, <1>b DEF lastBoughtWriteDone, BoughtSteps
<1>2. CASE deleteBoughtGoodsDone
  BY <1>2, <1>b, <1>d DEF deleteBoughtGoodsDone, BoughtSteps
<1>3. CASE revertAddGoodsDone
  BY <1>3, <1>b, <1>d DEF revertAddGoodsDone, BoughtSteps
<1>4. CASE revertBoughtGoodsDone
  <2>0. "revertBoughtGoods" \in BoughtSteps /\ "revertAddGoods" \in BoughtSteps
    BY DEF BoughtSteps
  <2>1. CASE Refuse /\ ReportBought(Owner)
    BY <1>4, <2>0, <2>1, <1>b DEF revertBoughtGoodsDone
  <2>2. CASE ContinueBought(Owner, addGoods(vms[Owner].item, Done("revertAddGoods", Owner)))
    <3>1. vms[Owner].item \in Items /\ Head(queue).done.step = "revertBoughtGoods"
      BY <1>4, <2>0, BoughtOwner DEF revertBoughtGoodsDone
    <3> DEFINE doc == goods(vms[Owner].item)
    <3>2. doc \in Docs /\ GoodsData \in Values /\ Fits(doc, GoodsData)
      BY <3>1, GoodsDocs, DatesAreValues
    <3>3. BoughtNext([doc |-> doc, val |-> GoodsData, done |-> Done("revertAddGoods", Owner)])
      BY <3>1 DEF BoughtNext, Done, Lost
    <3>4. addGoods(vms[Owner].item, Done("revertAddGoods", Owner))
            = Calls(doc, GoodsData, Done("revertAddGoods", Owner))
      BY DEF addGoods
    <3>5. Oldest("revertBoughtGoods") /\ BoughtWaits
      BY <1>4 DEF revertBoughtGoodsDone
    <3> HIDE DEF doc
    <3> QED BY <2>0, <2>2, <3>2, <3>3, <3>4, <3>5, <1>c
  <2> QED BY <1>4, <2>1, <2>2 DEF revertBoughtGoodsDone
<1> QED BY <1>1, <1>2, <1>3, <1>4 DEF SettleBoughtWrite

\* The write a button of EditBoughtGoods queues: the record again, or its
\* deletion, for good or to list the item.
BoughtTap(o, w) ==
  /\ SubmitBought(o, <<w>>)
  /\ vms[o].item \in Items
  /\ w.doc = boughtgoods(vms[o].item)
  /\ w.done # Lost /\ w.done.owner = o
  /\ \/ w.done.step = "updateBoughtGoods" /\ w.val = vms[o].date /\ asked' = asked
     \/ /\ w.done.step = "deleteBoughtGoods" /\ w.val = Absent
        /\ asked' = [asked EXCEPT ![vms[o].item] = @ \cup {"delete"}]
     \/ /\ w.done.step = "revertBoughtGoods" /\ w.val = Absent
        /\ asked' = [asked EXCEPT ![vms[o].item] = @ \cup {"revert"}]

LEMMA BoughtTapForms ==
  ASSUME TypeInv, UserAtHome, BoughtTaps
  PROVE  \E o \in DOMAIN vms : dismissBought(o) \/ \E w \in Write : BoughtTap(o, w)
<1>1. PICK o \in DOMAIN vms :
        \/ dismissBought(o) \/ updateBoughtGoodsTapped(o)
        \/ deleteBoughtGoodsTapped(o) \/ revertBoughtGoodsTapped(o)
  BY DEF BoughtTaps
<1>2. SUFFICES ASSUME \/ updateBoughtGoodsTapped(o)
                      \/ deleteBoughtGoodsTapped(o) \/ revertBoughtGoodsTapped(o)
               PROVE  \E w \in Write : BoughtTap(o, w)
  BY <1>1
<1>3. vms[o] \in ViewModel /\ o \in Nat \ {0}
  BY ViewModelsDomain, ElementOfSeq DEF TypeInv, TypeOK, ScreensTypeOK
<1>4. vms[o].kind = "editBought" /\ signedIn
  BY <1>2 DEF updateBoughtGoodsTapped, deleteBoughtGoodsTapped, revertBoughtGoodsTapped,
     SubmitBought, IsEditBought, Submit, Touchable, UserAtHome
<1>5. vms[o].item \in Items /\ vms[o].date \in Dates
  BY <1>3, <1>4 DEF ViewModel
<1>6. ASSUME NEW val \in Values, NEW step \in BoughtSteps, Fits(boughtgoods(vms[o].item), val)
      PROVE  /\ [doc |-> boughtgoods(vms[o].item), val |-> val, done |-> Done(step, o)] \in Write
             /\ Calls(boughtgoods(vms[o].item), val, Done(step, o))
                  = <<[doc |-> boughtgoods(vms[o].item), val |-> val, done |-> Done(step, o)]>>
             /\ Done(step, o) # Lost /\ Done(step, o).owner = o /\ Done(step, o).step = step
  <2>1. step \in Steps
    BY DEF BoughtSteps, Steps
  <2>2. Done(step, o) \in Callbacks
    BY <1>3, <2>1, DoneIsCallback
  <2>3. boughtgoods(vms[o].item) \in Docs
    BY <1>5, GoodsDocs
  <2>4. Done(step, o) # Lost /\ Done(step, o).owner = o /\ Done(step, o).step = step
    BY DEF Done, Lost, BoughtSteps
  <2> QED BY <1>4, <1>6, <2>2, <2>3, <2>4 DEF Write, Calls, currentUser
<1>7. CASE updateBoughtGoodsTapped(o)
  <2> DEFINE w == [doc |-> boughtgoods(vms[o].item), val |-> vms[o].date,
                   done |-> Done("updateBoughtGoods", o)]
  <2>1. vms[o].date \in Values /\ Fits(boughtgoods(vms[o].item), vms[o].date)
    BY <1>5, GoodsDocs, DatesAreValues
  <2>2. w \in Write /\ updateBoughtGoods(vms[o].item, vms[o].date, Done("updateBoughtGoods", o)) = <<w>>
    BY <1>6, <2>1 DEF BoughtSteps, updateBoughtGoods
  <2>3. /\ w.doc = boughtgoods(vms[o].item) /\ w.done # Lost /\ w.done.owner = o
        /\ w.done.step = "updateBoughtGoods" /\ w.val = vms[o].date
    BY <1>6, <2>1 DEF BoughtSteps
  <2> HIDE DEF w
  <2> QED BY <1>5, <1>7, <2>2, <2>3 DEF updateBoughtGoodsTapped, BoughtTap
<1>8. Absent \in Values /\ Fits(boughtgoods(vms[o].item), Absent)
  BY DatesAreValues DEF Fits, goods, boughtgoods, datecount
<1>9. CASE deleteBoughtGoodsTapped(o)
  <2> DEFINE w == [doc |-> boughtgoods(vms[o].item), val |-> Absent,
                   done |-> Done("deleteBoughtGoods", o)]
  <2>2. w \in Write /\ deleteBoughtGoods(vms[o].item, Done("deleteBoughtGoods", o)) = <<w>>
    BY <1>6, <1>8 DEF BoughtSteps, deleteBoughtGoods
  <2>3. /\ w.doc = boughtgoods(vms[o].item) /\ w.done # Lost /\ w.done.owner = o
        /\ w.done.step = "deleteBoughtGoods" /\ w.val = Absent
    BY <1>6, <1>8 DEF BoughtSteps
  <2> HIDE DEF w
  <2> QED BY <1>5, <1>9, <2>2, <2>3 DEF deleteBoughtGoodsTapped, BoughtTap
<1>10. CASE revertBoughtGoodsTapped(o)
  <2> DEFINE w == [doc |-> boughtgoods(vms[o].item), val |-> Absent,
                   done |-> Done("revertBoughtGoods", o)]
  <2>2. w \in Write /\ deleteBoughtGoods(vms[o].item, Done("revertBoughtGoods", o)) = <<w>>
    BY <1>6, <1>8 DEF BoughtSteps, deleteBoughtGoods
  <2>3. /\ w.doc = boughtgoods(vms[o].item) /\ w.done # Lost /\ w.done.owner = o
        /\ w.done.step = "revertBoughtGoods" /\ w.val = Absent
    BY <1>6, <1>8 DEF BoughtSteps
  <2> HIDE DEF w
  <2> QED BY <1>5, <1>10, <2>2, <2>3 DEF revertBoughtGoodsTapped, BoughtTap
<1> QED BY <1>2, <1>7, <1>9, <1>10

-----------------------------------------------------------------------------
(* What the taps and the chains of the list do, write by write.            *)

\* A screen of the list is presented on Home.
ListOpens ==
  \E vm \in ViewModel :
    /\ Touchable(Home) /\ Present(vm)
    /\ UNCHANGED <<fsVars, homeVars, editVars, root, host>>
    /\ vm.kind \in {"add", "logout", "edit"}
    /\ vm.date = today /\ vm.count \in {0, dateCounts[today]}
    /\ vm.item \in Items => vm.item \in homeGoods

\* The write a button of AddGoods or of EditGoods queues.
ListTap(o, w) ==
  /\ o \in shown
  /\ Submit(o, <<w>>)
  /\ w.done # Lost /\ w.done.owner = o
  /\ committed' = committed
  /\ \/ \E i \in Items \ used :
          /\ vms[o].kind = "add" /\ w.done.step = "addGoods"
          /\ w.doc = goods(i) /\ w.val = GoodsData
          /\ used' = used \cup {i} /\ dropped' = dropped
     \/ /\ vms[o].kind = "edit" /\ w.done.step = "addBoughtGoods"
        /\ vms[o].item \in Items
        /\ w.doc = boughtgoods(vms[o].item) /\ w.val = today
        /\ used' = used /\ dropped' = dropped
     \/ /\ vms[o].kind = "edit" /\ w.done.step = "deleteGoods"
        /\ vms[o].item \in Items
        /\ w.doc = goods(vms[o].item) /\ w.val = Absent
        /\ used' = used /\ dropped' = dropped \cup {vms[o].item}

LEMMA ListTapForms ==
  ASSUME TypeInv, UserAtHome, UserTaps
  PROVE  \/ ListOpens
         \/ \E o \in DOMAIN vms : dismiss(o) \/ \E w \in Write : ListTap(o, w)
<1>a. today \in Dates /\ dateCounts[today] \in Int /\ ScreensTypeOK
  BY DEF TypeInv, TypeOK, HomeTypeOK
<1>1. CASE add
  <2> DEFINE vm == [kind |-> "add", item |-> NoItem, date |-> today, count |-> 0]
  <2>1. vm \in ViewModel /\ vm.item \notin Items
    BY NewViewModels, GoodsModelAssumption
  <2>2. vm.kind \in {"add", "logout", "edit"} /\ vm.date = today /\ vm.count = 0
    OBVIOUS
  <2>3. /\ Touchable(Home) /\ Present(vm)
        /\ UNCHANGED <<fsVars, homeVars, editVars, root, host>>
    BY <1>1 DEF add
  <2> HIDE DEF vm
  <2> QED BY <2>1, <2>2, <2>3 DEF ListOpens
<1>2. CASE logoutMenuTapped
  <2> DEFINE vm == [kind |-> "logout", item |-> NoItem, date |-> today, count |-> 0]
  <2>1. vm \in ViewModel /\ vm.item \notin Items
    BY NewViewModels, GoodsModelAssumption
  <2>2. vm.kind \in {"add", "logout", "edit"} /\ vm.date = today /\ vm.count = 0
    OBVIOUS
  <2>3. /\ Touchable(Home) /\ Present(vm)
        /\ UNCHANGED <<fsVars, homeVars, editVars, root, host>>
    BY <1>2 DEF logoutMenuTapped
  <2> HIDE DEF vm
  <2> QED BY <2>1, <2>2, <2>3 DEF ListOpens
<1>3. ASSUME NEW i \in Items, edit(i)
      PROVE  ListOpens
  <2> DEFINE vm == [kind |-> "edit", item |-> i,
                    date |-> getDateCount.date, count |-> getDateCount.count]
  <2>1. vm \in ViewModel /\ vm.item = i
    BY NewViewModels
  <2>2. vm.kind = "edit" /\ vm.date = today /\ vm.count = dateCounts[today]
    BY DEF getDateCount
  <2>3. /\ Touchable(Home) /\ Present(vm) /\ i \in homeGoods
        /\ UNCHANGED <<fsVars, homeVars, editVars, root, host>>
    BY <1>3 DEF edit
  <2> HIDE DEF vm
  <2> QED BY <2>1, <2>2, <2>3 DEF ListOpens
<1>4. ASSUME NEW o \in shown, NEW step \in Steps, NEW doc \in Docs, NEW val \in Values,
             Fits(doc, val), signedIn
      PROVE  /\ [doc |-> doc, val |-> val, done |-> Done(step, o)] \in Write
             /\ Calls(doc, val, Done(step, o))
                  = <<[doc |-> doc, val |-> val, done |-> Done(step, o)]>>
             /\ Done(step, o) # Lost /\ Done(step, o).owner = o /\ Done(step, o).step = step
  <2>1. o \in Nat \ {0}
    BY <1>a, ViewModelsDomain DEF ScreensTypeOK
  <2>2. Done(step, o) \in Callbacks
    BY <2>1, DoneIsCallback
  <2>3. Done(step, o) # Lost /\ Done(step, o).owner = o /\ Done(step, o).step = step
    BY DEF Done, Lost, Steps
  <2> QED BY <1>4, <2>2, <2>3 DEF Write, Calls, currentUser
<1>5. ASSUME NEW o \in shown, vms[o].kind = "edit"
      PROVE  vms[o].item \in Items
  <2>1. vms[o] \in ViewModel
    BY <1>a, ViewModelsDomain, ElementOfSeq DEF ScreensTypeOK
  <2> QED BY <1>5, <2>1 DEF ViewModel
<1>6. ASSUME NEW o \in DOMAIN vms, addGoodsTapped(o)
      PROVE  \E w \in Write : ListTap(o, w)
  <2>1. PICK i \in Items \ used :
          used' = used \cup {i} /\ Submit(o, addGoods(i, Done("addGoods", o)))
    BY <1>6 DEF addGoodsTapped
  <2> DEFINE w == [doc |-> goods(i), val |-> GoodsData, done |-> Done("addGoods", o)]
  <2>2. /\ o \in shown /\ vms[o].kind = "add" /\ signedIn
        /\ dropped' = dropped /\ committed' = committed
    BY <1>6, <2>1 DEF addGoodsTapped, Submit, Touchable, UserAtHome
  <2>3. w \in Write /\ addGoods(i, Done("addGoods", o)) = <<w>>
    BY <2>2, <1>4, GoodsDocs, DatesAreValues DEF Steps, addGoods
  <2>4. /\ w.doc = goods(i) /\ w.val = GoodsData
        /\ w.done # Lost /\ w.done.owner = o /\ w.done.step = "addGoods"
    BY <2>2, <1>4, GoodsDocs, DatesAreValues DEF Steps
  <2> HIDE DEF w
  <2> QED BY <2>1, <2>2, <2>3, <2>4 DEF ListTap
<1>7. ASSUME NEW o \in DOMAIN vms, complete(o)
      PROVE  \E w \in Write : ListTap(o, w)
  <2> DEFINE w == [doc |-> boughtgoods(vms[o].item), val |-> today,
                   done |-> Done("addBoughtGoods", o)]
  <2>1. /\ o \in shown /\ vms[o].kind = "edit" /\ signedIn /\ vms[o].item \in Items
        /\ used' = used /\ dropped' = dropped /\ committed' = committed
    BY <1>5, <1>7 DEF complete, Submit, Touchable, UserAtHome, editVars
  <2>2. /\ today \in Values /\ Fits(boughtgoods(vms[o].item), today)
        /\ boughtgoods(vms[o].item) \in Docs
    BY <1>a, <2>1, GoodsDocs, DatesAreValues
  <2>3. w \in Write /\ addBoughtGoods(vms[o].item, today, Done("addBoughtGoods", o)) = <<w>>
    BY <2>1, <2>2, <1>4 DEF Steps, addBoughtGoods
  <2>4. /\ w.doc = boughtgoods(vms[o].item) /\ w.val = today
        /\ w.done # Lost /\ w.done.owner = o /\ w.done.step = "addBoughtGoods"
    BY <2>1, <2>2, <1>4 DEF Steps
  <2> HIDE DEF w
  <2> QED BY <1>7, <2>1, <2>3, <2>4 DEF ListTap, complete
<1>8. ASSUME NEW o \in DOMAIN vms, remove(o)
      PROVE  \E w \in Write : ListTap(o, w)
  <2> DEFINE w == [doc |-> goods(vms[o].item), val |-> Absent, done |-> Done("deleteGoods", o)]
  <2>1. /\ o \in shown /\ vms[o].kind = "edit" /\ signedIn /\ vms[o].item \in Items
        /\ used' = used /\ dropped' = dropped \cup {vms[o].item} /\ committed' = committed
    BY <1>5, <1>8 DEF remove, Submit, Touchable, UserAtHome
  <2>2. goods(vms[o].item) \in Docs /\ Fits(goods(vms[o].item), Absent) /\ Absent \in Values
    BY <2>1, GoodsDocs, DatesAreValues
  <2>3. w \in Write /\ deleteGoods(vms[o].item, Done("deleteGoods", o)) = <<w>>
    BY <2>1, <2>2, <1>4 DEF Steps, deleteGoods
  <2>4. /\ w.doc = goods(vms[o].item) /\ w.val = Absent
        /\ w.done # Lost /\ w.done.owner = o /\ w.done.step = "deleteGoods"
    BY <2>1, <2>2, <1>4 DEF Steps
  <2> HIDE DEF w
  <2> QED BY <1>8, <2>1, <2>3, <2>4 DEF ListTap, remove
<1> QED BY <1>1, <1>2, <1>3, <1>6, <1>7, <1>8 DEF UserTaps

ListSteps == {"addGoods", "addBoughtGoods", "deleteGoods", "updateDateCount"}

\* The write the callback of the oldest one queues: the delete of a bought
\* item, or the captured count and one.
ListNext(w) ==
  /\ w.done # Lost /\ w.done.owner = Owner
  /\ \/ /\ Head(queue).done.step = "addBoughtGoods"
        /\ w.done.step = "deleteGoods"
        /\ w.doc = goods(vms[Owner].item) /\ w.val = Absent
        /\ committed' = committed
     \/ /\ Head(queue).done.step = "deleteGoods"
        /\ w.done.step = "updateDateCount"
        /\ w.doc = datecount(vms[Owner].date) /\ w.val = vms[Owner].count + 1
        /\ committed' = committed \cup {Owner}

\* The chain of the oldest write ends and is reported.
ListReported ==
  /\ \/ Refuse
     \/ /\ Commit(<<>>)
        /\ ~signedIn \/ Head(queue).done.step \in {"addGoods", "updateDateCount"}
  /\ Report(Owner)
  /\ \/ committed' = committed
     \/ Head(queue).done.step = "deleteGoods" /\ committed' = committed \cup {Owner}

ListSettled ==
  /\ HomeWaits /\ UNCHANGED <<used, dropped>>
  /\ \/ /\ Head(queue).done = Lost
        /\ Commit(<<>>) \/ Refuse
        /\ UNCHANGED <<screenVars, committed>>
     \/ /\ Head(queue).done # Lost /\ Head(queue).done.step \in ListSteps
        /\ Owner \in DOMAIN vms
        /\ Head(queue).done.step # "addGoods" => vms[Owner].item \in Items
        /\ \/ ListReported
           \/ \E w \in Write : Commit(<<w>>) /\ ListNext(w) /\ UNCHANGED screenVars

LEMMA ListSettles ==
  ASSUME TypeInv, SettleWrite
  PROVE  ListSettled
<1>a. FsTypeOK /\ ScreensTypeOK /\ 1 \in Dates
  BY GoodsModelAssumption DEF TypeInv, TypeOK, Dates
<1>b. HomeWaits /\ UNCHANGED <<used, dropped>>
  BY SettleSummary
<1>c. ASSUME NEW step \in ListSteps, Oldest(step)
      PROVE  /\ Owner \in DOMAIN vms /\ (step # "addGoods" => vms[Owner].item \in Items)
             /\ Head(queue).done # Lost /\ Head(queue).done.step = step
             /\ Owner \in Nat \ {0}
  <2>1. step \in Steps
    BY DEF ListSteps, Steps
  <2>2. Owner \in DOMAIN vms /\ (step # "addGoods" => vms[Owner].item \in Items)
    BY <1>c, <2>1, OldestOwner
  <2>3. Owner \in Nat \ {0}
    BY <1>a, <2>2, ViewModelsDomain
  <2>4. Head(queue).done # Lost /\ Head(queue).done.step = step
    BY <1>c DEF Oldest, Lost, ListSteps
  <2> QED BY <2>2, <2>3, <2>4
<1>d. ASSUME NEW step \in ListSteps, Oldest(step), ListReported
      PROVE  ListSettled
  BY <1>b, <1>c, <1>d DEF ListSettled
<1>e. ASSUME NEW step \in ListSteps, Oldest(step), NEW next \in ListSteps,
             NEW doc \in Docs, NEW val \in Values, Fits(doc, val),
             Continue(Owner, Calls(doc, val, Done(next, Owner))),
             ListNext([doc |-> doc, val |-> val, done |-> Done(next, Owner)])
      PROVE  ListSettled
  <2> DEFINE w == [doc |-> doc, val |-> val, done |-> Done(next, Owner)]
  <2>0. next \in Steps
    BY DEF ListSteps, Steps
  <2>1. w \in Write
    BY <1>c, <1>e, <2>0, DoneIsCallback DEF Write
  <2>2. CASE signedIn
    <3>1. Calls(doc, val, Done(next, Owner)) = <<w>>
      BY <2>2 DEF Calls, currentUser
    <3>2. ListNext(w)
      BY <1>e
    <3> HIDE DEF w
    <3>3. <<w>> # <<>>
      OBVIOUS
    <3>4. Commit(<<w>>) /\ UNCHANGED screenVars
      BY <1>e, <3>1, <3>3 DEF Continue
    <3> QED BY <1>b, <1>c, <1>e, <2>1, <3>2, <3>4 DEF ListSettled
  <2>3. CASE ~signedIn
    <3>1. Calls(doc, val, Done(next, Owner)) = <<>>
      BY <2>3 DEF Calls, currentUser
    <3>2. Commit(<<>>) /\ Report(Owner)
      BY <1>e, <3>1 DEF Continue
    <3>3. \/ committed' = committed
          \/ Head(queue).done.step = "deleteGoods" /\ committed' = committed \cup {Owner}
      BY <1>e DEF ListNext
    <3>4. ListReported
      BY <2>3, <3>2, <3>3 DEF ListReported
    <3> QED BY <1>d, <1>e, <3>4
  <2> QED BY <2>2, <2>3
<1>1. CASE addGoodsDone
  BY <1>1, <1>c, <1>d DEF addGoodsDone, ListSteps, ListReported, editVars
<1>2. CASE addBoughtGoodsDone
  <2>0. "addBoughtGoods" \in ListSteps /\ "deleteGoods" \in ListSteps
    BY DEF ListSteps
  <2>1. Oldest("addBoughtGoods") /\ committed' = committed
    BY <1>2 DEF addBoughtGoodsDone, editVars
  <2>2. CASE Refuse /\ Report(Owner)
    BY <2>0, <2>1, <2>2, <1>d DEF ListReported
  <2>3. CASE Continue(Owner, deleteGoods(vms[Owner].item, Done("deleteGoods", Owner)))
    <3> DEFINE doc == goods(vms[Owner].item)
    <3>1. vms[Owner].item \in Items /\ Head(queue).done.step = "addBoughtGoods"
      BY <2>0, <2>1, <1>c
    <3>2. doc \in Docs /\ Absent \in Values /\ Fits(doc, Absent)
      BY <3>1, GoodsDocs, DatesAreValues
    <3>3. ListNext([doc |-> doc, val |-> Absent, done |-> Done("deleteGoods", Owner)])
      BY <2>1, <3>1 DEF ListNext, Done, Lost
    <3>4. deleteGoods(vms[Owner].item, Done("deleteGoods", Owner))
            = Calls(doc, Absent, Done("deleteGoods", Owner))
      BY DEF deleteGoods
    <3> HIDE DEF doc
    <3> QED BY <2>0, <2>1, <2>3, <3>2, <3>3, <3>4, <1>e
  <2> QED BY <1>2, <2>2, <2>3 DEF addBoughtGoodsDone
<1>3. CASE deleteGoodsDone
  <2>0. "deleteGoods" \in ListSteps /\ "updateDateCount" \in ListSteps
    BY DEF ListSteps
  <2>1. Oldest("deleteGoods")
    BY <1>3 DEF deleteGoodsDone
  <2>2. CASE Refuse /\ Report(Owner) /\ UNCHANGED committed
    BY <2>0, <2>1, <2>2, <1>d DEF ListReported
  <2>3. CASE Continue(Owner, updateDateCount(Owner)) /\ committed' = committed \cup {Owner}
    <3> DEFINE doc == datecount(vms[Owner].date)
               val == vms[Owner].count + 1
    <3>1. Owner \in DOMAIN vms /\ Head(queue).done.step = "deleteGoods"
      BY <2>0, <2>1, <1>c
    <3>2. vms[Owner] \in ViewModel
      BY <1>a, <3>1, ViewModelsDomain, ElementOfSeq DEF ScreensTypeOK
    <3>3. vms[Owner].date \in Dates /\ val \in Int
      BY <3>2 DEF ViewModel
    <3>4. doc \in Docs /\ val \in Values /\ Fits(doc, val)
      BY <3>3, CountDocs DEF Values
    <3>5. ListNext([doc |-> doc, val |-> val, done |-> Done("updateDateCount", Owner)])
      BY <2>3, <3>1 DEF ListNext, Done, Lost
    <3>6. updateDateCount(Owner) = Calls(doc, val, Done("updateDateCount", Owner))
      BY DEF updateDateCount, updateGoodsCountForDate
    <3> HIDE DEF doc, val
    <3> QED BY <2>0, <2>1, <2>3, <3>4, <3>5, <3>6, <1>e
  <2> QED BY <1>3, <2>2, <2>3 DEF deleteGoodsDone
<1>4. CASE updateDateCountDone
  BY <1>4, <1>c, <1>d DEF updateDateCountDone, ListSteps, ListReported, editVars
<1>5. CASE lostWriteDone
  <2>1. Head(queue) \in Write
    BY <1>5, <1>a, RangeTail DEF lostWriteDone, Oldest, FsTypeOK
  <2>2. Head(queue).done = Lost
    BY <1>5, <2>1 DEF lostWriteDone, Oldest, Write, Callbacks, Steps
  <2> QED BY <1>5, <2>2, <1>b DEF lostWriteDone, ListSettled, editVars
<1> QED BY <1>1, <1>2, <1>3, <1>4, <1>5 DEF SettleWrite

-----------------------------------------------------------------------------
(* The inductive invariant that the theorems about the log share: which    *)
(* screens are on top of each other, and whose writes are pending.         *)

\* The write that a step of a chain makes, for a view model of the screen the
\* chain was started on.
StepWrites(w, vm) ==
  \/ /\ w.done.step = "addGoods" /\ vm.kind = "add"
     /\ w.val = GoodsData /\ \E i \in Items : w.doc = goods(i)
  \/ /\ w.done.step = "addBoughtGoods" /\ vm.kind = "edit"
     /\ w.doc = boughtgoods(vm.item) /\ w.val \in Dates
  \/ /\ w.done.step = "deleteGoods" /\ vm.kind = "edit"
     /\ w.doc = goods(vm.item) /\ w.val = Absent
  \/ /\ w.done.step = "updateDateCount" /\ vm.kind = "edit"
     /\ w.doc = datecount(vm.date) /\ w.val = vm.count + 1
  \/ /\ w.done.step = "updateBoughtGoods" /\ vm.kind = "editBought"
     /\ w.doc = boughtgoods(vm.item) /\ w.val = vm.date
  \/ /\ w.done.step \in {"deleteBoughtGoods", "revertBoughtGoods"} /\ vm.kind = "editBought"
     /\ w.doc = boughtgoods(vm.item) /\ w.val = Absent
  \/ /\ w.done.step = "revertAddGoods" /\ vm.kind = "editBought"
     /\ w.doc = goods(vm.item) /\ w.val = GoodsData
  \/ /\ w.done.step = "updateBoughtCount" /\ vm.kind = "editBought"
     /\ w.doc = datecount(vm.date) /\ w.val = vm.count - 1

Awaited(w) == w.done # Lost => w.done.owner \in DOMAIN vms /\ StepWrites(w, vms[w.done.owner])

WritesMatch == \A w \in Pending : Awaited(w)

\* One screen is presented on Home, or History with one EditBoughtGoods.
ScreenStack ==
  /\ \A o, p \in shown : o < p => vms[o].kind = "history" /\ vms[p].kind = "editBought"
  /\ \A p \in shown : vms[p].kind = "editBought" => \E o \in shown : o < p

\* What History holds, and what it will be told, is gone when it is closed.
HistoryOpen ==
  /\ historyReads > 0 \/ historyState # "opened" => HistoryShown
  /\ \A o \in changed : IsEditBought(o)

LEMMA StackForms ==
  ASSUME ScreensTypeOK, ScreenStack
  PROVE  /\ HistoryShown =>
              /\ HistoryController \in shown /\ vms[HistoryController].kind = "history"
              /\ \A o \in shown : o # HistoryController =>
                   HistoryController < o /\ vms[o].kind = "editBought"
         /\ \A o \in shown : vms[o].kind \notin {"history", "editBought"} => shown = {o}
         /\ \A o : IsEditBought(o) =>
              HistoryShown /\ shown = {HistoryController, o} /\ HistoryController < o
<1>0. shown \subseteq Nat
  BY ViewModelsDomain DEF ScreensTypeOK
<1>1. ASSUME HistoryShown
      PROVE  /\ HistoryController \in shown /\ vms[HistoryController].kind = "history"
             /\ \A o \in shown : o # HistoryController =>
                  HistoryController < o /\ vms[o].kind = "editBought"
  <2>1. HistoryController \in shown /\ vms[HistoryController].kind = "history"
    BY <1>1 DEF HistoryShown, HistoryController
  <2> HIDE DEF HistoryController
  <2>2. ASSUME NEW o \in shown, o # HistoryController
        PROVE  HistoryController < o /\ vms[o].kind = "editBought"
    BY <1>0, <2>1, <2>2 DEF ScreenStack
  <2> QED BY <2>1, <2>2
<1>2. ASSUME NEW o \in shown, vms[o].kind \notin {"history", "editBought"}
      PROVE  shown = {o}
  <2>1. ASSUME NEW p \in shown, p # o
        PROVE  FALSE
    <3>1. p < o \/ o < p
      BY <1>0, <2>1
    <3> QED BY <1>2, <2>1, <3>1 DEF ScreenStack
  <2> QED BY <1>2, <2>1
<1>3. ASSUME NEW o, IsEditBought(o)
      PROVE  HistoryShown /\ shown = {HistoryController, o} /\ HistoryController < o
  <2>1. o \in shown /\ vms[o].kind = "editBought"
    BY <1>3 DEF IsEditBought
  <2>2. PICK p \in shown : p < o
    BY <2>1 DEF ScreenStack
  <2>3. HistoryShown
    BY <2>1, <2>2 DEF ScreenStack, HistoryShown
  <2>4. HistoryController \in shown /\ HistoryController < o
    BY <1>1, <2>1, <2>3
  <2>5. ASSUME NEW q \in shown, q # o, q # HistoryController
        PROVE  FALSE
    <3>1. vms[q].kind = "editBought"
      BY <1>1, <2>3, <2>5
    <3>2. q < o \/ o < q
      BY <1>0, <2>1, <2>5
    <3> QED BY <2>1, <3>1, <3>2 DEF ScreenStack
  <2> QED BY <2>1, <2>3, <2>4, <2>5
<1> QED BY <1>1, <1>2, <1>3

\* The screens of a live callback: a screen that waits writes.
LEMMA WaitingKinds ==
  ASSUME WritesMatch, NEW w \in Pending, w.done # Lost
  PROVE  /\ w.done.owner \in DOMAIN vms
         /\ w.done.step = "addGoods" => vms[w.done.owner].kind = "add"
         /\ w.done.step \in ListSteps \ {"addGoods"} => vms[w.done.owner].kind = "edit"
         /\ w.done.step \in BoughtSteps => vms[w.done.owner].kind = "editBought"
         /\ w.done.step \in ListSteps \cup BoughtSteps
         /\ vms[w.done.owner].kind \notin {"history", "logout"}
BY DEF WritesMatch, Awaited, StepWrites, ListSteps, BoughtSteps

LEMMA WritesKept ==
  ASSUME WritesMatch,
         \A o \in DOMAIN vms : o \in DOMAIN vms' /\ vms'[o] = vms[o],
         \A w \in Pending' : w \in Pending \/ Awaited(w)
  PROVE  WritesMatch'
<1> SUFFICES ASSUME NEW w \in Pending', w.done # Lost
             PROVE  w.done.owner \in DOMAIN vms' /\ StepWrites(w, vms'[w.done.owner])
  BY DEF WritesMatch, Awaited
<1>1. w.done.owner \in DOMAIN vms /\ StepWrites(w, vms[w.done.owner])
  BY DEF WritesMatch, Awaited
<1> QED BY <1>1

-----------------------------------------------------------------------------
(* The steps, one form after the other.                                    *)

\* A screen is presented: the view models that exist stay.
LEMMA Presented ==
  ASSUME ScreensTypeOK, NEW vm \in ViewModel, Present(vm)
  PROVE  /\ vms' \in Seq(ViewModel)
         /\ DOMAIN vms' = DOMAIN vms \cup {Len(vms) + 1}
         /\ \A o \in DOMAIN vms : o \in DOMAIN vms' /\ vms'[o] = vms[o]
         /\ \A o \in DOMAIN vms : o < Len(vms) + 1
         /\ Len(vms) + 1 \notin DOMAIN vms /\ Len(vms) + 1 \in Nat \ {0}
         /\ vms'[Len(vms) + 1] = vm
         /\ shown' = shown \cup {Len(vms) + 1}
         /\ shown' \in SUBSET DOMAIN vms'
<1>1. DOMAIN vms = 1 .. Len(vms) /\ Len(vms) \in Nat
  BY ViewModelsDomain
<1>2. vms \in Seq(ViewModel) /\ shown \in SUBSET (DOMAIN vms)
  BY DEF ScreensTypeOK
<1>3. vms' = Append(vms, vm) /\ shown' = shown \cup {Len(vms) + 1}
  BY DEF Present
<1>4. /\ vms' \in Seq(ViewModel) /\ Len(vms') = Len(vms) + 1
      /\ \A n \in 1 .. Len(vms) : vms'[n] = vms[n]
      /\ vms'[Len(vms) + 1] = vm
  BY <1>2, <1>3, AppendProperties
<1>5. DOMAIN vms' = 1 .. Len(vms) + 1
  BY <1>4, LenProperties
<1>6. DOMAIN vms' = DOMAIN vms \cup {Len(vms) + 1}
  BY <1>1, <1>5
<1> QED BY <1>1, <1>2, <1>3, <1>4, <1>6

\* The steps of the list.  Under History none of its screens is left.
ListQuiet ==
  /\ UNCHANGED <<srv, queue, editVars, vms>>
  /\ \/ UNCHANGED <<shown, host>>
     \/ UNCHANGED shown /\ host' \in {NoView, Home}
     \/ host' = NoView /\ shown' = {} /\ \E o \in shown : vms[o].kind = "logout"

LEMMA ListForms ==
  ASSUME TypeInv, UserAtHome, ListStep
  PROVE  \/ ListQuiet
         \/ ListOpens
         \/ \E o \in DOMAIN vms : dismiss(o) \/ \E w \in Write : ListTap(o, w)
         \/ ListSettled
<1>1. CASE HomeStep
  <2>1. UNCHANGED <<srv, queue, vms, editVars>>
    BY <1>1, HomeStepType
  <2>2. UNCHANGED shown /\ (host' = host \/ host' \in {NoView, Home})
    BY <1>1 DEF HomeStep, HomeNext, observeGoodsData, loadGoodsSucceeds, loadGoodsFails,
       loadCountsSucceeds, loadCountsFails, screenVars, Start, Stop
  <2> QED BY <2>1, <2>2 DEF ListQuiet
<1>2. CASE logout
  BY <1>2 DEF logout, ListQuiet, fsVars
<1>3. CASE login
  BY <1>3 DEF login, ListQuiet, fsVars
<1>4. CASE DayPasses
  BY <1>4 DEF DayPasses, ListQuiet, fsVars, screenVars
<1>5. CASE GoodsStep
  BY <1>5, ListTapForms, ListSettles DEF GoodsStep
<1> QED BY <1>1, <1>2, <1>3, <1>4, <1>5 DEF ListStep

\* What any step of the list does to the screens.
LEMMA ListScreens ==
  ASSUME TypeInv, UserAtHome, WritesMatch, ScreenStack, ListStep
  PROVE  \/ UNCHANGED <<shown, vms>>
         \/ /\ shown = {}
            /\ \E vm \in ViewModel : Present(vm) /\ vm.kind \in {"add", "logout", "edit"}
         \/ vms' = vms /\ shown' = {} /\ \A o \in shown : vms[o].kind \notin {"history", "editBought"}
<1>0. FsTypeOK /\ ScreensTypeOK /\ shown \subseteq Nat \ {0}
  BY ViewModelsDomain DEF TypeInv, TypeOK, ScreensTypeOK
<1>a. ASSUME NEW o \in shown, vms[o].kind \notin {"history", "editBought"}, Dismiss(o), vms' = vms
      PROVE  vms' = vms /\ shown' = {} /\ \A p \in shown : vms[p].kind \notin {"history", "editBought"}
  <2>1. shown = {o}
    BY <1>0, <1>a, StackForms
  <2> QED BY <1>0, <1>a, <2>1 DEF Dismiss
<1>b. ASSUME NEW o \in shown, vms[o].kind \notin {"history", "editBought"}
      PROVE  \A p \in shown : vms[p].kind \notin {"history", "editBought"}
  BY <1>0, <1>b, StackForms
<1>1. CASE ListQuiet
  BY <1>1, <1>b DEF ListQuiet
<1>2. CASE ListOpens
  <2>1. Touchable(Home)
    BY <1>2 DEF ListOpens
  <2>2. shown = {}
    BY <1>0, <2>1 DEF Touchable, Home
  <2> QED BY <1>2, <2>2 DEF ListOpens
<1>3. ASSUME NEW o \in DOMAIN vms, dismiss(o)
      PROVE  vms' = vms /\ shown' = {} /\ \A p \in shown : vms[p].kind \notin {"history", "editBought"}
  BY <1>3, <1>a DEF dismiss
<1>4. ASSUME NEW o \in DOMAIN vms, NEW w \in Write, ListTap(o, w)
      PROVE  UNCHANGED <<shown, vms>>
  BY <1>4 DEF ListTap, Submit
<1>5. ASSUME ListSettled, ~UNCHANGED screenVars
      PROVE  vms' = vms /\ shown' = {} /\ \A p \in shown : vms[p].kind \notin {"history", "editBought"}
  <2>1. /\ Head(queue).done # Lost /\ Head(queue).done.step \in ListSteps
        /\ ListReported
    BY <1>5 DEF ListSettled
  <2>2. Owner \in shown /\ Dismiss(Owner) /\ vms' = vms
    BY <1>5, <2>1 DEF ListReported, Report
  <2>3. queue # <<>>
    BY <2>1 DEF ListReported, Refuse, Commit
  <2>4. Head(queue) \in Pending
    BY <1>0, <2>3, RangeTail DEF FsTypeOK, Pending
  <2>5. vms[Owner].kind \in {"add", "edit"}
    BY <2>1, <2>4, WaitingKinds DEF Owner
  <2> QED BY <2>2, <2>5, <1>a
<1>6. CASE ListSettled
  BY <1>5, <1>6 DEF screenVars
<1> QED BY <1>1, <1>2, <1>3, <1>4, <1>6, ListForms

\* A day's entry of DateCounts, and what is kept of them.
LEMMA LoadedDatesType ==
  ASSUME FsTypeOK
  PROVE  /\ LoadedDates \in Seq(DateCount) /\ Len(LoadedDates) <= MaxDay
         /\ \A n \in 1 .. Len(LoadedDates) :
              LoadedDates[n].count = loadGoodsCountForDate[LoadedDates[n].date]
<1> DEFINE T == [date : Dates, count : Int]
           P == {d \in Dates : DateCounts[d].count > 0}
           s == DateCounts
<1>1. loadGoodsCountForDate \in [Dates -> Int]
  BY LoadedCountsType
<1> HIDE DEF loadGoodsCountForDate
<1>2. MaxDay \in Nat /\ Dates = 1 .. MaxDay
  BY GoodsModelAssumption DEF Dates
<1>3. /\ s \in [Dates -> T]
      /\ \A d \in Dates : s[d].date = d /\ s[d].count = loadGoodsCountForDate[d]
  BY <1>1 DEF DateCounts
<1>4. s \in Seq(T) /\ Len(s) = MaxDay
  <2> HIDE DEF s, T
  <2> QED BY <1>2, <1>3, IsASeq, LenProperties
<1>5. P \in SUBSET (1 .. Len(s)) /\ \A d \in P : s[d] \in DateCount
  BY <1>2, <1>3, <1>4 DEF DateCount
<1>6. LoadedDates = KeptAt(s, P)
  BY DEF LoadedDates
<1> HIDE DEF s, P, T
<1>7. /\ IsFiniteSet(P) /\ KeptAt(s, P) \in Seq(T) /\ Len(KeptAt(s, P)) = Cardinality(P)
      /\ \A n \in 1 .. Cardinality(P) :
           Ascending(P)[n] \in P /\ KeptAt(s, P)[n] = s[Ascending(P)[n]]
  BY <1>4, <1>5, KeptAtProperties
<1>8. Cardinality(P) \in Nat
  BY <1>7, FS_CardinalityType
<1>9. KeptAt(s, P) \in Seq(DateCount)
  <2>1. \A n \in 1 .. Cardinality(P) : KeptAt(s, P)[n] \in DateCount
    BY <1>5, <1>7
  <2>2. KeptAt(s, P) = [n \in 1 .. Cardinality(P) |-> KeptAt(s, P)[n]]
    BY <1>7, <1>8, LenProperties
  <2>3. [n \in 1 .. Cardinality(P) |-> KeptAt(s, P)[n]] \in [1 .. Cardinality(P) -> DateCount]
    BY <2>1
  <2> QED BY <1>8, <2>2, <2>3, IsASeq
<1>10. P \subseteq Dates
  BY DEF P
<1>11. Cardinality(P) <= MaxDay
  <2>1. IsFiniteSet(1 .. MaxDay) /\ Cardinality(1 .. MaxDay) = MaxDay
    BY <1>2, FS_Interval
  <2> QED BY <1>2, <1>10, <2>1, FS_Subset
<1> QED BY <1>3, <1>6, <1>7, <1>9, <1>10, <1>11

\* A row of the pager has a page of its own.
LEMMA RowsHavePages ==
  ASSUME HistoryTypeOK, NEW k \in Rows(dates)
  PROVE  k \in Nat /\ k + 1 \in 1 .. Len(dates) /\ dates[k + 1] \in DateCount
<1>1. Len(dates) \in Nat
  BY LenProperties DEF HistoryTypeOK
<1>2. k \in Nat /\ k + 1 \in 1 .. Len(dates)
  BY <1>1 DEF Rows
<1> QED BY <1>2, ElementOfSeq DEF HistoryTypeOK

LEMMA IndexTypes ==
  ASSUME NEW ds \in Seq(DateCount), HistoryTypeOK
  PROVE  FirstIndex(ds) \in Int /\ scrollToItem(FirstIndex(ds), ds) \in Nat
<1>1. Len(ds) \in Nat
  BY LenProperties
<1>2. FirstIndex(ds) \in Int
  BY <1>1 DEF FirstIndex, HistoryTypeOK
<1>3. Max({0, Len(ds) - 1}) \in Nat
  <2>1. {0, Len(ds) - 1} = IF Len(ds) = 0 THEN {0, -1} ELSE {0, Len(ds) - 1}
    BY <1>1
  <2>2. CASE Len(ds) = 0
    <3>1. 0 \in {0, -1} /\ \A y \in {0, -1} : 0 >= y
      OBVIOUS
    <3>2. Max({0, -1}) \in {0, -1} /\ \A y \in {0, -1} : Max({0, -1}) >= y
      BY <3>1 DEF Max
    <3>3. Max({0, -1}) = 0
      BY <3>2
    <3> QED BY <2>2, <3>3
  <2>3. CASE Len(ds) # 0
    <3>1. {0, Len(ds) - 1} \in SUBSET (0 .. Len(ds))
      BY <1>1, <2>3
    <3>2. Len(ds) - 1 \in {0, Len(ds) - 1} /\ \A y \in {0, Len(ds) - 1} : Len(ds) - 1 >= y
      BY <1>1, <2>3
    <3>3. Max({0, Len(ds) - 1}) \in {0, Len(ds) - 1}
      BY <3>2 DEF Max
    <3> QED BY <1>1, <2>3, <3>3
  <2> QED BY <2>2, <2>3
<1>4. FirstIndex(ds) \in Rows(ds) => FirstIndex(ds) \in Nat
  BY <1>1 DEF Rows
<1>5. page \in Nat
  BY DEF HistoryTypeOK
<1> HIDE DEF FirstIndex
<1> QED BY <1>2, <1>3, <1>4, <1>5 DEF scrollToItem

LEMMA DecelerationIndexType ==
  ASSUME NEW k \in Nat
  PROVE  DecelerationIndex(k) \in Int
<1>1. PageOffset(k) \in Int /\ ViewWidth - 80 \in Nat /\ ViewWidth - 80 > 0
  BY HistoryScreenAssumption DEF PageOffset
<1>2. ASSUME NEW x \in Int, NEW c \in Nat, c > 0
      PROVE  Rounded(x, c) \in Int
  BY <1>2 DEF Rounded
<1> QED BY <1>1, <1>2 DEF DecelerationIndex

LEMMA HistoryTypeStep ==
  ASSUME FsTypeOK, HistoryTypeOK, HistoryStep
  PROVE  HistoryTypeOK'
<1>a. cells \in [Dates -> {"none", "loading", "success", "failed"}] /\ pageGoods \in [Dates -> SUBSET Items]
  BY DEF HistoryTypeOK
<1>b. <<>> \in Seq(DateCount) /\ historyReads \in Nat
  BY DEF HistoryTypeOK
<1>c. ASSUME reloadData
      PROVE  /\ cells' \in [Dates -> {"none", "loading", "success", "failed"}]
             /\ pageGoods' \in [Dates -> SUBSET Items]
  BY <1>c DEF reloadData
<1>1. CASE history
  BY <1>1 DEF history, HistoryTypeOK, pagerVars
<1>2. CASE dismissHistory
  BY <1>2, <1>b, <1>c DEF dismissHistory, HistoryGone, HistoryTypeOK
<1>3. ASSUME NEW k \in Rows(dates), scroll(k)
      PROVE  HistoryTypeOK'
  BY <1>3, RowsHavePages, DecelerationIndexType DEF scroll, HistoryTypeOK
<1>4. ASSUME NEW k \in Rows(dates), NEW i \in Items, didSelectRowAt(k, i)
      PROVE  HistoryTypeOK'
  BY <1>4 DEF didSelectRowAt, historyVars, pagerVars, HistoryTypeOK
<1>5. CASE historyLoadSucceeds
  <2>1. historyReads' \in Nat
    BY <1>5, <1>b DEF historyLoadSucceeds
  <2>2. LoadedDates \in Seq(DateCount)
    BY LoadedDatesType
  <2>3. FirstIndex(LoadedDates) \in Int /\ scrollToItem(FirstIndex(LoadedDates), LoadedDates) \in Nat
    BY <2>2, IndexTypes
  <2> QED BY <1>5, <1>c, <2>1, <2>2, <2>3 DEF historyLoadSucceeds, HistoryTypeOK
<1>6. CASE historyLoadFails
  <2>1. historyReads' \in Nat
    BY <1>6, <1>b DEF historyLoadFails
  <2>2. FirstIndex(dates) \in Int
    BY IndexTypes DEF HistoryTypeOK
  <2> QED BY <1>6, <2>1, <2>2 DEF historyLoadFails, HistoryTypeOK
<1>7. ASSUME NEW k \in Rows(dates), cellForItemAt(k)
      PROVE  HistoryTypeOK'
  <2>1. dates[k + 1].date \in Dates
    BY RowsHavePages DEF DateCount
  <2>2. /\ cells' = [cells EXCEPT ![dates[k + 1].date] = "loading"]
        /\ pageGoods' = [pageGoods EXCEPT ![dates[k + 1].date] = {}]
    BY <1>7 DEF cellForItemAt
  <2>3. /\ cells' \in [Dates -> {"none", "loading", "success", "failed"}]
        /\ pageGoods' \in [Dates -> SUBSET Items]
    BY <1>a, <2>1, <2>2
  <2> QED BY <1>7, <2>3 DEF cellForItemAt, HistoryTypeOK, pagerVars
<1>8. ASSUME NEW d \in Dates, fetchSucceeds(d) \/ fetchFails(d)
      PROVE  HistoryTypeOK'
  <2>1. fetchBoughtGoods(d) \in SUBSET Items
    BY DEF fetchBoughtGoods
  <2> HIDE DEF fetchBoughtGoods
  <2>2. /\ cells' \in [Dates -> {"none", "loading", "success", "failed"}]
        /\ pageGoods' \in [Dates -> SUBSET Items]
    BY <1>8, <1>a, <2>1 DEF fetchSucceeds, fetchFails
  <2> QED BY <1>8, <2>2 DEF fetchSucceeds, fetchFails, HistoryTypeOK, pagerVars
<1> QED BY <1>1, <1>2, <1>3, <1>4, <1>5, <1>6, <1>7, <1>8 DEF HistoryStep, HistoryTaps, HistoryLoads

\* History writes nothing.
LEMMA HistoryQuiet ==
  ASSUME FsTypeOK, HistoryStep
  PROVE  /\ FsTypeOK'
         /\ UNCHANGED <<srv, queue, root, homeVars, editVars, boughtVars, signedIn, today, restarts>>
<1>1. /\ UNCHANGED <<srv, queue, root, homeVars, editVars>>
      /\ faults' = faults \/ Fault
  BY DEF HistoryStep, HistoryTaps, HistoryLoads, history, dismissHistory, scroll, didSelectRowAt,
     historyLoadSucceeds, historyLoadFails, cellForItemAt, fetchSucceeds, fetchFails, fsVars,
     screenVars
<1>2. faults' \in 0 .. MaxFaults
  BY <1>1, FirestoreAssumption DEF FsTypeOK, Fault
<1> QED BY <1>1, <1>2 DEF FsTypeOK, HistoryStep

\* The screens before and after a step of History.
HistoryMove ==
  \/ /\ UNCHANGED <<shown, vms>>
     /\ \/ host' \in {host, NoView}
        \/ HistoryShown /\ host' = HistoryController /\ historyState' = "failed"
  \/ /\ shown = {} /\ host' = Len(vms) + 1 /\ historyReads' = 1
     /\ UNCHANGED <<pagerVars, historyState, cells, pageGoods>>
     /\ \E vm \in ViewModel :
          Present(vm) /\ vm.kind = "history" /\ vm.date = today /\ vm.count = 0
  \/ /\ vms' = vms /\ shown' = {} /\ host' = host /\ HistoryGone
  \/ /\ HistoryShown /\ shown = {HistoryController} /\ host' = host /\ UNCHANGED historyVars
     /\ \E vm \in ViewModel :
          /\ Present(vm) /\ vm.kind = "editBought"
          /\ \E n \in 1 .. Len(dates) :
               /\ vm.date = dates[n].date /\ vm.count = dates[n].count
               /\ vm.item \in pageGoods[vm.date]

LEMMA HistoryScreens ==
  ASSUME TypeInv, HistoryTypeOK, ScreenStack, HistoryOpen, HistoryStep
  PROVE  HistoryMove
<1>0. ScreensTypeOK /\ shown \subseteq Nat \ {0} /\ today \in Dates
  BY ViewModelsDomain DEF TypeInv, TypeOK, ScreensTypeOK, HomeTypeOK
<1>1. CASE history
  <2> DEFINE vm == [kind |-> "history", item |-> NoItem, date |-> today, count |-> 0]
  <2>1. vm \in ViewModel /\ vm.kind = "history" /\ vm.date = today /\ vm.count = 0
    BY <1>0 DEF ViewModel
  <2>2. shown = {}
    BY <1>0, <1>1 DEF history, Touchable, Home
  <2>3. Present(vm) /\ host' = Len(vms) + 1
    BY <1>1 DEF history, Start
  <2> HIDE DEF vm
  <2> QED BY <1>1, <2>1, <2>2, <2>3 DEF HistoryMove, history
<1>2. CASE dismissHistory
  <2>1. /\ HistoryShown /\ Touchable(HistoryController)
        /\ shown' = {p \in shown : p < HistoryController}
    BY <1>2 DEF dismissHistory, Dismiss
  <2>2. HistoryController \in shown /\ \A o \in shown : o # HistoryController => HistoryController < o
    BY <1>0, <2>1, StackForms
  <2>3. shown' = {}
    <3> SUFFICES ASSUME NEW p \in shown, p < HistoryController PROVE FALSE
      BY <2>1
    <3>1. p \in Nat /\ HistoryController \in Nat
      BY <1>0, <2>2
    <3>2. p # HistoryController
      BY <3>1
    <3>3. HistoryController < p
      BY <2>2, <3>2
    <3> QED BY <3>1, <3>3
  <2> QED BY <1>2, <2>3 DEF dismissHistory, HistoryMove
<1>3. ASSUME NEW k \in Rows(dates), scroll(k)
      PROVE  HistoryMove
  BY <1>3 DEF scroll, HistoryMove, screenVars
<1>4. ASSUME NEW k \in Rows(dates), NEW i \in Items, didSelectRowAt(k, i)
      PROVE  HistoryMove
  <2> DEFINE vm == [kind |-> "editBought", item |-> i,
                    date |-> dates[k + 1].date, count |-> dates[k + 1].count]
  <2>1. k + 1 \in 1 .. Len(dates) /\ dates[k + 1] \in DateCount
    BY RowsHavePages
  <2>2. /\ vm \in ViewModel /\ vm.kind = "editBought" /\ vm.date = dates[k + 1].date
        /\ vm.count = dates[k + 1].count /\ vm.item = i
    BY <2>1 DEF ViewModel, DateCount
  <2>3. /\ Present(vm) /\ host' = host /\ HistoryShown /\ i \in pageGoods[dates[k + 1].date]
        /\ Touchable(HistoryController) /\ UNCHANGED historyVars
    BY <1>4 DEF didSelectRowAt
  <2>4. shown = {HistoryController}
    <3>1. HistoryController \in shown /\ \A o \in shown : o # HistoryController => HistoryController < o
      BY <1>0, <2>3, StackForms
    <3>2. \A p \in shown : p <= HistoryController
      BY <2>3 DEF Touchable
    <3> SUFFICES ASSUME NEW p \in shown, p # HistoryController PROVE FALSE
      BY <3>1
    <3>3. p \in Nat /\ HistoryController \in Nat
      BY <1>0, <3>1
    <3>4. HistoryController < p /\ p <= HistoryController
      BY <3>1, <3>2
    <3> QED BY <3>3, <3>4
  <2> HIDE DEF vm, HistoryController
  <2> QED BY <2>1, <2>2, <2>3, <2>4 DEF HistoryMove
<1>5. CASE historyLoadSucceeds
  BY <1>5 DEF historyLoadSucceeds, HistoryMove, Stop
<1>6. CASE historyLoadFails
  BY <1>6 DEF historyLoadFails, HistoryMove, Start, HistoryOpen
<1>7. ASSUME NEW k \in Rows(dates), cellForItemAt(k)
      PROVE  HistoryMove
  BY <1>7 DEF cellForItemAt, HistoryMove, screenVars
<1>8. ASSUME NEW d \in Dates, fetchSucceeds(d) \/ fetchFails(d)
      PROVE  HistoryMove
  BY <1>8 DEF fetchSucceeds, fetchFails, HistoryMove, screenVars
<1> QED BY <1>1, <1>2, <1>3, <1>4, <1>5, <1>6, <1>7, <1>8 DEF HistoryStep, HistoryTaps, HistoryLoads

-----------------------------------------------------------------------------
(* The shared invariant is inductive.                                      *)

LogInv ==
  /\ TypeInv /\ UserAtHome
  /\ HistoryTypeOK /\ BoughtTypeOK
  /\ WritesMatch /\ ScreenStack /\ HistoryOpen

\* EditBoughtGoods closes and History, which it was opened on, is on top.
LEMMA Closed ==
  ASSUME ScreensTypeOK, ScreenStack, HistoryOpen, NEW o, IsEditBought(o), NEW ov, CloseAndTell(o, ov)
  PROVE  /\ HistoryShown /\ shown = {HistoryController, o} /\ shown' = {HistoryController}
         /\ vms' = vms /\ root' = root /\ changed' = {} /\ HistoryShown'
         /\ \/ o \in changed /\ host' = HistoryController /\ historyReads' = historyReads + 1
            \/ changed = {} /\ host' = ov /\ historyReads' = historyReads
<1>1. HistoryShown /\ shown = {HistoryController, o} /\ HistoryController < o
  BY StackForms
<1>2. vms[HistoryController].kind = "history" /\ HistoryController \in shown
  BY <1>1, StackForms
<1>3. o \in Nat /\ HistoryController \in Nat
  BY <1>1, <1>2, ViewModelsDomain DEF ScreensTypeOK
<1>4. shown' = {p \in shown : p < o} /\ changed' = changed \ {o} /\ vms' = vms /\ root' = root
  BY DEF CloseAndTell, Close, Dismiss
<1>5. shown' = {HistoryController}
  BY <1>1, <1>3, <1>4
<1>6. changed \subseteq {o}
  <2> SUFFICES ASSUME NEW p \in changed, p # o PROVE FALSE
    OBVIOUS
  <2>1. p \in shown /\ vms[p].kind = "editBought"
    BY DEF HistoryOpen, IsEditBought
  <2> QED BY <1>1, <1>2, <2>1
<1>7. \/ o \in changed /\ host' = HistoryController /\ historyReads' = historyReads + 1
      \/ o \notin changed /\ host' = ov /\ historyReads' = historyReads
  BY DEF CloseAndTell, LoadHistory, Start
<1>8. HistoryShown'
  BY <1>2, <1>4, <1>5 DEF HistoryShown
<1> QED BY <1>1, <1>4, <1>5, <1>6, <1>7, <1>8

\* The outcome of a chain of EditBoughtGoods is reported: its screen closes,
\* if it is still there.
LEMMA BoughtReported ==
  ASSUME LogInv, BoughtSettled, ~UNCHANGED <<screenVars, changed, historyReads>>
  PROVE  IsEditBought(Owner) /\ CloseAndTell(Owner, NoView) /\ (Refuse \/ Commit(<<>>))
<1>1. ReportBought(Owner) /\ (Refuse \/ Commit(<<>>))
  BY DEF BoughtSettled
<1>2. Owner \in shown /\ CloseAndTell(Owner, NoView)
  BY <1>1 DEF ReportBought
<1>3. Head(queue) \in Pending
  BY <1>1, RangeTail DEF LogInv, TypeInv, TypeOK, FsTypeOK, Pending, Refuse, Commit
<1>4. vms[Owner].kind = "editBought"
  BY <1>3, WaitingKinds DEF BoughtSettled, LogInv, Owner
<1> QED BY <1>1, <1>2, <1>4 DEF IsEditBought

LEMMA BoughtForms ==
  ASSUME LogInv, BoughtStep
  PROVE  \/ \E o \in DOMAIN vms : dismissBought(o) \/ \E w \in Write : BoughtTap(o, w)
         \/ BoughtSettled
BY BoughtTapForms, BoughtSettles DEF BoughtStep, LogInv

\* The writes a settled write leaves behind.
LEMMA PendingAfter ==
  ASSUME FsTypeOK, Commit(<<>>) \/ Refuse
  PROVE  /\ FsTypeOK' /\ Head(queue) \in Pending /\ Pending' \subseteq Pending
<1>1. CASE Refuse
  BY <1>1, RefuseStep
<1>2. CASE Commit(<<>>)
  <2>1. <<>> \in Seq(Write) /\ Range(<<>>) = {}
    BY DEF Range
  <2> QED BY <1>2, <2>1, CommitStep
<1> QED BY <1>1, <1>2

LEMMA PendingAnd ==
  ASSUME FsTypeOK, NEW w \in Write, Commit(<<w>>) \/ Enqueue(<<w>>)
  PROVE  /\ FsTypeOK' /\ w \in Pending' /\ Pending' \subseteq Pending \cup {w}
         /\ Commit(<<w>>) => Head(queue) \in Pending
         /\ Enqueue(<<w>>) => Pending' = Pending \cup {w}
<1>1. <<w>> \in Seq(Write) /\ Range(<<w>>) = {w}
  <2>1. <<w>> \in Seq(Write) /\ DOMAIN <<w>> = {1} /\ <<w>>[1] = w
    OBVIOUS
  <2> QED BY <2>1 DEF Range
<1>2. CASE Commit(<<w>>)
  <2>1. /\ FsTypeOK' /\ Head(queue) \in Pending
        /\ Pending' \subseteq Pending \cup Range(<<w>>) /\ Range(<<w>>) \subseteq Pending'
    BY <1>1, <1>2, CommitStep
  <2>2. ~Enqueue(<<w>>) \/ Pending' = Pending \cup {w}
    BY <1>1, EnqueueStep
  <2> QED BY <1>1, <2>1, <2>2
<1>3. CASE Enqueue(<<w>>)
  <2>1. FsTypeOK' /\ Pending' = Pending \cup Range(<<w>>)
    BY <1>1, <1>3, EnqueueStep
  <2>2. ~Commit(<<w>>) \/ Head(queue) \in Pending
    BY <1>1, CommitStep
  <2> QED BY <1>1, <2>1, <2>2
<1> QED BY <1>2, <1>3

\* Every write a step adds is the next one of its chain.
LEMMA NewWrites ==
  ASSUME LogInv, [BuyLogNext]_buyLogVars
  PROVE  /\ \A o \in DOMAIN vms : o \in DOMAIN vms' /\ vms'[o] = vms[o]
         /\ \A w \in Pending' : w \in Pending \/ Awaited(w)
<1>0. /\ TypeInv /\ UserAtHome /\ WritesMatch /\ FsTypeOK /\ ScreensTypeOK
      /\ HistoryTypeOK /\ ScreenStack /\ HistoryOpen /\ today \in Dates
  BY DEF LogInv, TypeInv, TypeOK, HomeTypeOK
<1>a. ASSUME vms' = vms, UNCHANGED queue
      PROVE  /\ \A o \in DOMAIN vms : o \in DOMAIN vms' /\ vms'[o] = vms[o]
             /\ \A w \in Pending' : w \in Pending \/ Awaited(w)
  BY <1>a DEF Pending
<1>b. ASSUME vms' = vms, Commit(<<>>) \/ Refuse
      PROVE  /\ \A o \in DOMAIN vms : o \in DOMAIN vms' /\ vms'[o] = vms[o]
             /\ \A w \in Pending' : w \in Pending \/ Awaited(w)
  BY <1>0, <1>b, PendingAfter
<1>c. ASSUME vms' = vms, NEW v \in Write, Commit(<<v>>) \/ Enqueue(<<v>>), Awaited(v)
      PROVE  /\ \A o \in DOMAIN vms : o \in DOMAIN vms' /\ vms'[o] = vms[o]
             /\ \A w \in Pending' : w \in Pending \/ Awaited(w)
  BY <1>0, <1>c, PendingAnd
<1>d. ASSUME NEW vm \in ViewModel, Present(vm), UNCHANGED queue
      PROVE  /\ \A o \in DOMAIN vms : o \in DOMAIN vms' /\ vms'[o] = vms[o]
             /\ \A w \in Pending' : w \in Pending \/ Awaited(w)
  BY <1>0, <1>d, Presented DEF Pending
<1>1. CASE ListStep
  <2>1. CASE ListQuiet
    BY <2>1, <1>a DEF ListQuiet
  <2>2. CASE ListOpens
    BY <2>2, <1>d DEF ListOpens, fsVars
  <2>3. ASSUME NEW o \in DOMAIN vms, dismiss(o)
        PROVE  vms' = vms /\ UNCHANGED queue
    BY <2>3 DEF dismiss, fsVars
  <2>4. ASSUME NEW o \in DOMAIN vms, NEW v \in Write, ListTap(o, v)
        PROVE  vms' = vms /\ Enqueue(<<v>>) /\ Awaited(v)
    <3>1. vms' = vms /\ Enqueue(<<v>>)
      BY <2>4 DEF ListTap, Submit
    <3>2. v.done.owner \in DOMAIN vms /\ StepWrites(v, vms[v.done.owner])
      BY <1>0, <2>4 DEF ListTap, StepWrites
    <3> QED BY <3>1, <3>2 DEF Awaited
  <2>5. CASE ListSettled
    <3>1. vms' = vms
      BY <2>5 DEF ListSettled, ListReported, Report, screenVars
    <3>2. CASE Commit(<<>>) \/ Refuse
      BY <3>1, <3>2, <1>b
    <3>3. ASSUME NEW v \in Write, Commit(<<v>>), ListNext(v),
                 Owner \in DOMAIN vms, Head(queue).done # Lost
          PROVE  Awaited(v)
      <4>1. Head(queue) \in Pending
        BY <1>0, <3>3, PendingAnd
      <4>2. vms[Owner].kind = "edit"
        BY <1>0, <3>3, <4>1, WaitingKinds DEF ListNext, ListSteps, Owner
      <4> QED BY <3>3, <4>2 DEF ListNext, Awaited, StepWrites
    <3> QED BY <2>5, <3>1, <3>2, <3>3, <1>c DEF ListSettled, ListReported
  <2> QED BY <1>0, <1>1, <1>a, <1>c, <2>1, <2>2, <2>3, <2>4, <2>5, ListForms
<1>2. CASE RestartAll
  <2>1. vms' = vms /\ LoseCallbacks
    BY <1>2 DEF RestartAll, Restart
  <2>2. \A w \in Pending' : w.done = Lost
    BY <1>0, <2>1, LoseCallbacksStep
  <2> QED BY <2>1, <2>2 DEF Awaited
<1>3. CASE HistoryStep
  <2>1. UNCHANGED queue
    BY <1>0, <1>3, HistoryQuiet
  <2>2. HistoryMove
    BY <1>0, <1>3, HistoryScreens
  <2> QED BY <2>1, <2>2, <1>a, <1>d DEF HistoryMove
<1>4. CASE BoughtStep
  <2>1. ASSUME NEW o \in DOMAIN vms, dismissBought(o)
        PROVE  vms' = vms /\ UNCHANGED queue
    BY <2>1 DEF dismissBought, CloseAndTell, Close, fsVars
  <2>2. ASSUME NEW o \in DOMAIN vms, NEW v \in Write, BoughtTap(o, v)
        PROVE  vms' = vms /\ Enqueue(<<v>>) /\ Awaited(v)
    <3>1. vms' = vms /\ Enqueue(<<v>>) /\ vms[o].kind = "editBought"
      BY <2>2 DEF BoughtTap, SubmitBought, Submit, IsEditBought
    <3>2. v.done.owner \in DOMAIN vms /\ StepWrites(v, vms[v.done.owner])
      BY <2>2, <3>1 DEF BoughtTap, StepWrites
    <3> QED BY <3>1, <3>2 DEF Awaited
  <2>3. CASE BoughtSettled
    <3>1. vms' = vms
      BY <2>3 DEF BoughtSettled, ReportBought, CloseAndTell, Close, screenVars
    <3>2. CASE Commit(<<>>) \/ Refuse
      BY <3>1, <3>2, <1>b
    <3>3. ASSUME NEW v \in Write, Commit(<<v>>), BoughtNext(v)
          PROVE  Awaited(v)
      <4>1. Head(queue) \in Pending
        BY <1>0, <3>3, PendingAnd
      <4>2. vms[Owner].kind = "editBought" /\ Owner \in DOMAIN vms
        BY <1>0, <2>3, <4>1, WaitingKinds DEF BoughtSettled, Owner
      <4> QED BY <3>3, <4>2 DEF BoughtNext, Awaited, StepWrites
    <3> QED BY <2>3, <3>1, <3>2, <3>3, <1>c DEF BoughtSettled
  <2> QED BY <1>4, <1>a, <1>c, <2>1, <2>2, <2>3, BoughtForms
<1>5. CASE UNCHANGED buyLogVars
  BY <1>5, <1>a DEF buyLogVars, vars, fsVars, screenVars
<1> QED BY <1>1, <1>2, <1>3, <1>4, <1>5 DEF BuyLogNext

\* Opening, closing and leaving the screens alone keep the stack.
LEMMA StackKept ==
  ASSUME ScreensTypeOK, ScreenStack, HistoryOpen,
         \/ UNCHANGED <<shown, vms>>
         \/ vms' = vms /\ shown' = {}
         \/ /\ shown = {}
            /\ \E vm \in ViewModel : Present(vm) /\ vm.kind \in {"add", "logout", "edit", "history"}
         \/ /\ HistoryShown /\ shown = {HistoryController}
            /\ \E vm \in ViewModel : Present(vm) /\ vm.kind = "editBought"
         \/ vms' = vms /\ HistoryShown /\ shown' = {HistoryController}
  PROVE  ScreenStack'
<1>1. CASE UNCHANGED <<shown, vms>>
  BY <1>1 DEF ScreenStack
<1>2. CASE vms' = vms /\ shown' = {}
  BY <1>2 DEF ScreenStack
<1>3. ASSUME NEW vm \in ViewModel, shown = {}, Present(vm), vm.kind \in {"add", "logout", "edit", "history"}
      PROVE  ScreenStack'
  <2>1. shown' = {Len(vms) + 1} /\ vms'[Len(vms) + 1] = vm /\ Len(vms) + 1 \in Nat
    BY <1>3, Presented
  <2> QED BY <1>3, <2>1 DEF ScreenStack
<1>4. ASSUME NEW vm \in ViewModel, HistoryShown, shown = {HistoryController}, Present(vm), vm.kind = "editBought"
      PROVE  ScreenStack'
  <2> DEFINE h == HistoryController
             p == Len(vms) + 1
  <2>1. h \in shown /\ vms[h].kind = "history"
    BY <1>4, StackForms
  <2>2. h \in DOMAIN vms
    BY <2>1 DEF ScreensTypeOK
  <2>3. shown' = {h, p} /\ vms'[p] = vm /\ p \in Nat /\ h < p /\ vms'[h] = vms[h] /\ h \in Nat
    BY <1>4, <2>2, Presented, ViewModelsDomain
  <2> HIDE DEF h, p
  <2> QED BY <1>4, <2>1, <2>3 DEF ScreenStack
<1>5. CASE vms' = vms /\ HistoryShown /\ shown' = {HistoryController}
  <2>1. vms[HistoryController].kind = "history" /\ HistoryController \in Nat
    BY <1>5, StackForms, ViewModelsDomain DEF ScreensTypeOK
  <2> QED BY <1>5, <2>1 DEF ScreenStack
<1> QED BY <1>1, <1>2, <1>3, <1>4, <1>5

\* What any step does to the screens.
LogMove ==
  \/ UNCHANGED <<shown, vms, changed>> /\ (HistoryStep \/ UNCHANGED <<historyState, historyReads>>)
  \/ /\ shown = {} /\ changed' = changed
     /\ UNCHANGED historyState
     /\ \E vm \in ViewModel :
          /\ Present(vm)
          /\ \/ vm.kind \in {"add", "logout", "edit"} /\ UNCHANGED historyReads
             \/ vm.kind = "history"
  \/ /\ HistoryShown /\ shown = {HistoryController} /\ changed' = changed
     /\ \E vm \in ViewModel : Present(vm) /\ vm.kind = "editBought"
  \/ /\ vms' = vms /\ HistoryShown /\ shown' = {HistoryController} /\ changed' = {}
  \/ /\ vms' = vms /\ shown' = {} /\ changed' = {}
     /\ \/ HistoryGone
        \/ ~HistoryShown /\ UNCHANGED <<historyState, historyReads>>
  \/ /\ UNCHANGED <<shown, vms, historyState, historyReads>>
     /\ \E o \in DOMAIN vms : IsEditBought(o) /\ changed' = changed \cup {o}

LEMMA LogMoves ==
  ASSUME LogInv, [BuyLogNext]_buyLogVars
  PROVE  LogMove
<1>0. /\ TypeInv /\ UserAtHome /\ WritesMatch /\ FsTypeOK /\ ScreensTypeOK
      /\ HistoryTypeOK /\ ScreenStack /\ HistoryOpen
  BY DEF LogInv, TypeInv, TypeOK
<1>1. CASE ListStep
  <2>1. UNCHANGED <<historyState, historyReads, changed>>
    BY <1>1 DEF ListStep, historyVars, boughtVars
  <2>2. CASE UNCHANGED <<shown, vms>>
    BY <2>1, <2>2 DEF LogMove
  <2>3. CASE shown = {} /\ \E vm \in ViewModel : Present(vm) /\ vm.kind \in {"add", "logout", "edit"}
    BY <2>1, <2>3 DEF LogMove
  <2>4. CASE vms' = vms /\ shown' = {} /\ \A o \in shown : vms[o].kind \notin {"history", "editBought"}
    <3>1. ~HistoryShown /\ changed = {}
      BY <1>0, <2>4 DEF HistoryShown, HistoryOpen, IsEditBought
    <3> QED BY <2>1, <2>4, <3>1 DEF LogMove
  <2> QED BY <1>0, <1>1, <2>2, <2>3, <2>4, ListScreens
<1>2. CASE RestartAll
  BY <1>2 DEF RestartAll, Restart, LogMove
<1>3. CASE HistoryStep
  <2>1. changed' = changed /\ HistoryMove
    BY <1>0, <1>3, HistoryQuiet, HistoryScreens DEF boughtVars
  <2>2. CASE UNCHANGED <<shown, vms>>
    BY <1>3, <2>1, <2>2 DEF LogMove
  <2>3. CASE vms' = vms /\ shown' = {} /\ HistoryGone /\ ~UNCHANGED <<shown, vms>>
    <3>1. changed = {}
      <4> SUFFICES ASSUME NEW o \in changed PROVE FALSE
        OBVIOUS
      <4>1. IsEditBought(o) /\ o \in shown
        BY <1>0 DEF HistoryOpen, IsEditBought
      <4>2. HistoryShown /\ shown = {HistoryController, o} /\ HistoryController < o
        BY <1>0, <4>1, StackForms
      <4>3. dismissHistory
        BY <1>3, <2>3 DEF HistoryStep, HistoryTaps, HistoryLoads, history, Present, scroll,
           didSelectRowAt, historyLoadSucceeds, historyLoadFails, cellForItemAt, fetchSucceeds,
           fetchFails, screenVars
      <4>4. o <= HistoryController
        BY <4>1, <4>3 DEF dismissHistory, Touchable
      <4>5. o \in Nat /\ HistoryController \in Nat
        BY <1>0, <4>2, ViewModelsDomain DEF ScreensTypeOK
      <4> QED BY <4>2, <4>4, <4>5
    <3> QED BY <2>1, <2>3, <3>1 DEF LogMove
  <2>4. CASE /\ shown = {} /\ UNCHANGED historyState
             /\ \E vm \in ViewModel : Present(vm) /\ vm.kind = "history"
    BY <2>1, <2>4 DEF LogMove
  <2>5. CASE /\ HistoryShown /\ shown = {HistoryController}
             /\ \E vm \in ViewModel : Present(vm) /\ vm.kind = "editBought"
    BY <2>1, <2>5 DEF LogMove
  <2> QED BY <2>1, <2>2, <2>3, <2>4, <2>5 DEF HistoryMove
<1>4. CASE BoughtStep
  <2>1. ASSUME NEW o \in DOMAIN vms, dismissBought(o)
        PROVE  LogMove
    BY <1>0, <2>1, Closed DEF dismissBought, LogMove
  <2>2. ASSUME NEW o \in DOMAIN vms, NEW v \in Write, BoughtTap(o, v)
        PROVE  LogMove
    BY <2>2 DEF BoughtTap, SubmitBought, Submit, LogMove, historyVars
  <2>3. CASE BoughtSettled /\ UNCHANGED <<screenVars, changed, historyReads>>
    <3>1. UNCHANGED historyState
      BY <2>3 DEF BoughtSettled, BoughtWaits
    <3> QED BY <2>3, <3>1 DEF LogMove, screenVars
  <2>4. CASE BoughtSettled /\ ~UNCHANGED <<screenVars, changed, historyReads>>
    <3>1. IsEditBought(Owner) /\ CloseAndTell(Owner, NoView)
      BY <2>4, BoughtReported
    <3> QED BY <1>0, <3>1, Closed DEF LogMove
  <2> QED BY <1>4, <2>1, <2>2, <2>3, <2>4, BoughtForms
<1>5. CASE UNCHANGED buyLogVars
  BY <1>5 DEF buyLogVars, vars, screenVars, historyVars, boughtVars, LogMove
<1> QED BY <1>1, <1>2, <1>3, <1>4, <1>5 DEF BuyLogNext

LEMMA StackStep ==
  ASSUME LogInv, [BuyLogNext]_buyLogVars
  PROVE  ScreenStack'
<1>1. LogMove /\ ScreensTypeOK /\ ScreenStack /\ HistoryOpen
  BY LogMoves DEF LogInv, TypeInv, TypeOK
<1> QED BY <1>1, StackKept DEF LogMove

LEMMA HistoryOpenStep ==
  ASSUME LogInv, [BuyLogNext]_buyLogVars
  PROVE  HistoryOpen'
<1>0. /\ LogMove /\ ScreensTypeOK /\ ScreenStack /\ HistoryOpen /\ shown \subseteq DOMAIN vms
      /\ \A o \in changed : o \in shown /\ vms[o].kind = "editBought"
  BY LogMoves DEF LogInv, TypeInv, TypeOK, ScreensTypeOK, HistoryOpen, IsEditBought
<1>1. CASE UNCHANGED <<shown, vms, changed>> /\ UNCHANGED <<historyState, historyReads>>
  BY <1>0, <1>1 DEF HistoryOpen, HistoryShown, IsEditBought
<1>2. CASE UNCHANGED <<shown, vms, changed>> /\ HistoryStep
  <2>1. \/ historyReads' = historyReads /\ historyState' = historyState
        \/ historyReads > 0
        \/ HistoryGone
        \/ history
    BY <1>2 DEF HistoryStep, HistoryTaps, HistoryLoads, dismissHistory, scroll, didSelectRowAt,
       historyVars, historyLoadSucceeds, historyLoadFails, cellForItemAt, fetchSucceeds, fetchFails
  <2>2. ~history
    <3> SUFFICES ASSUME history PROVE FALSE
      OBVIOUS
    <3>1. Len(vms) + 1 \in shown'
      BY DEF history, Present
    <3>2. Len(vms) + 1 \in DOMAIN vms
      BY <1>0, <1>2, <3>1
    <3> QED BY <1>0, <3>2, ViewModelsDomain
  <2>3. \A o \in changed' : IsEditBought(o)'
    BY <1>0, <1>2 DEF IsEditBought
  <2>4. HistoryGone => historyReads' = 0 /\ historyState' = "opened"
    BY DEF HistoryGone
  <2>5. HistoryShown' = HistoryShown
    BY <1>2 DEF HistoryShown
  <2> QED BY <1>0, <2>1, <2>2, <2>3, <2>4, <2>5 DEF HistoryOpen
<1>3. ASSUME shown = {}, changed' = changed, UNCHANGED historyState, NEW vm \in ViewModel, Present(vm),
             \/ vm.kind \in {"add", "logout", "edit"} /\ UNCHANGED historyReads
             \/ vm.kind = "history"
      PROVE  HistoryOpen'
  <2>1. changed' = {} /\ ~HistoryShown
    BY <1>0, <1>3 DEF HistoryShown
  <2>2. shown' = {Len(vms) + 1} /\ vms'[Len(vms) + 1] = vm
    BY <1>0, <1>3, Presented
  <2>3. vm.kind = "history" => HistoryShown'
    BY <2>2 DEF HistoryShown
  <2> QED BY <1>0, <1>3, <2>1, <2>3 DEF HistoryOpen
<1>4. ASSUME HistoryShown, shown = {HistoryController}, changed' = changed, NEW vm \in ViewModel, Present(vm)
      PROVE  HistoryOpen'
  <2>1. vms[HistoryController].kind = "history" /\ HistoryController \in shown
    BY <1>0, <1>4, StackForms
  <2>2. /\ shown' = shown \cup {Len(vms) + 1} /\ \A o \in DOMAIN vms : vms'[o] = vms[o]
    BY <1>0, <1>4, Presented
  <2>3. HistoryController \in shown' /\ vms'[HistoryController].kind = "history"
    BY <1>0, <2>1, <2>2
  <2>4. HistoryShown'
    BY <2>3 DEF HistoryShown
  <2>5. \A o \in changed' : IsEditBought(o)'
    BY <1>0, <1>4, <2>2 DEF IsEditBought
  <2> QED BY <2>4, <2>5 DEF HistoryOpen
<1>5. CASE vms' = vms /\ HistoryShown /\ shown' = {HistoryController} /\ changed' = {}
  <2>1. vms[HistoryController].kind = "history"
    BY <1>0, <1>5, StackForms
  <2>2. HistoryShown'
    BY <1>5, <2>1 DEF HistoryShown
  <2> QED BY <1>5, <2>2 DEF HistoryOpen
<1>6. CASE /\ vms' = vms /\ shown' = {} /\ changed' = {}
           /\ \/ HistoryGone
              \/ ~HistoryShown /\ UNCHANGED <<historyState, historyReads>>
  BY <1>0, <1>6 DEF HistoryOpen, HistoryGone
<1>7. ASSUME UNCHANGED <<shown, vms, historyState, historyReads>>, NEW o \in DOMAIN vms,
             IsEditBought(o), changed' = changed \cup {o}
      PROVE  HistoryOpen'
  BY <1>0, <1>7 DEF HistoryOpen, HistoryShown, IsEditBought
<1> QED BY <1>0, <1>1, <1>2, <1>3, <1>4, <1>5, <1>6, <1>7 DEF LogMove

LEMMA UserAtHomeLog ==
  ASSUME LogInv, [BuyLogNext]_buyLogVars
  PROVE  UserAtHome'
<1>0. TypeInv /\ UserAtHome /\ FsTypeOK
  BY DEF LogInv, TypeInv, TypeOK
<1>1. CASE ListStep
  BY <1>0, <1>1, UserAtHomeStep DEF ListStep, Next
<1>2. CASE RestartAll
  BY <1>0, <1>2, UserAtHomeStep DEF RestartAll, Next
<1>3. CASE HistoryStep
  BY <1>0, <1>3, HistoryQuiet DEF UserAtHome
<1>4. CASE BoughtStep
  <2>1. signedIn' = signedIn
    BY <1>4 DEF BoughtStep
  <2>2. root' = root
    <3>1. ASSUME NEW o \in DOMAIN vms, dismissBought(o)
          PROVE  root' = root
      BY <3>1 DEF dismissBought, CloseAndTell, Close
    <3>2. ASSUME NEW o \in DOMAIN vms, NEW v \in Write, BoughtTap(o, v)
          PROVE  root' = root
      BY <3>2 DEF BoughtTap, SubmitBought, Submit
    <3>3. CASE BoughtSettled
      BY <3>3 DEF BoughtSettled, ReportBought, CloseAndTell, Close, screenVars
    <3> QED BY <1>4, <3>1, <3>2, <3>3, BoughtForms
  <2> QED BY <1>0, <2>1, <2>2 DEF UserAtHome
<1>5. CASE UNCHANGED buyLogVars
  BY <1>0, <1>5, UserAtHomeStep DEF buyLogVars
<1> QED BY <1>1, <1>2, <1>3, <1>4, <1>5 DEF BuyLogNext

\* Type correctness of the list's variables under the log's own steps.
LEMMA LogTypeStep ==
  ASSUME LogInv, [BuyLogNext]_buyLogVars
  PROVE  TypeOK'
<1>0. /\ TypeInv /\ UserAtHome /\ FsTypeOK /\ ScreensTypeOK /\ HistoryTypeOK /\ ScreenStack
      /\ HistoryOpen /\ HomeTypeOK /\ EditTypeOK /\ signedIn \in BOOLEAN
      /\ restarts \in 0 .. MaxRestarts
  BY DEF LogInv, TypeInv, TypeOK
<1>a. /\ DOMAIN vms = 1 .. Len(vms) /\ shown \subseteq DOMAIN vms /\ vms \in Seq(ViewModel)
      /\ host \in {NoView, Home} \cup DOMAIN vms /\ root \in {"login", "home"}
  BY <1>0, ViewModelsDomain DEF ScreensTypeOK
<1>1. CASE ListStep
  BY <1>0, <1>1, TypeInvStep DEF ListStep, Next, TypeInv
<1>2. CASE RestartAll
  BY <1>0, <1>2, TypeInvStep DEF RestartAll, Next, TypeInv
<1>3. CASE HistoryStep
  <2>1. /\ FsTypeOK'
        /\ UNCHANGED <<root, homeVars, editVars, signedIn, today, restarts>>
    BY <1>0, <1>3, HistoryQuiet
  <2>2. HistoryMove
    BY <1>0, <1>3, HistoryScreens
  <2>3. ASSUME NEW vm \in ViewModel, Present(vm), host' \in {host, Len(vms) + 1}
        PROVE  ScreensTypeOK' /\ DOMAIN vms \subseteq DOMAIN vms'
    <3>1. /\ vms' \in Seq(ViewModel) /\ DOMAIN vms' = DOMAIN vms \cup {Len(vms) + 1}
          /\ shown' \in SUBSET DOMAIN vms'
      BY <1>0, <2>3, Presented
    <3> QED BY <1>a, <2>1, <2>3, <3>1 DEF ScreensTypeOK
  <2>4. ASSUME vms' = vms, shown' \in {shown, {}},
               host' \in {host, NoView} \/ (HistoryShown /\ host' = HistoryController)
        PROVE  ScreensTypeOK' /\ DOMAIN vms \subseteq DOMAIN vms'
    <3>1. HistoryShown => HistoryController \in DOMAIN vms
      BY <1>0, <1>a, StackForms
    <3> QED BY <1>a, <2>1, <2>4, <3>1 DEF ScreensTypeOK
  <2>5. ScreensTypeOK' /\ DOMAIN vms \subseteq DOMAIN vms'
    BY <2>2, <2>3, <2>4 DEF HistoryMove
  <2>6. HomeTypeOK' /\ EditTypeOK'
    BY <1>0, <2>1, <2>5 DEF HomeTypeOK, homeVars, EditTypeOK, editVars
  <2> QED BY <1>0, <2>1, <2>5, <2>6 DEF TypeOK
<1>4. CASE BoughtStep
  <2>0. UNCHANGED <<signedIn, today, restarts>>
    BY <1>4 DEF BoughtStep
  <2>a. ASSUME NEW o, NEW ov \in {NoView, host}, IsEditBought(o), CloseAndTell(o, ov)
        PROVE  ScreensTypeOK' /\ vms' = vms
    <3>1. /\ HistoryShown /\ shown' = {HistoryController} /\ vms' = vms /\ root' = root
          /\ host' \in {HistoryController, NoView, host}
      BY <1>0, <2>a, Closed
    <3>2. HistoryController \in DOMAIN vms
      BY <1>0, <1>a, <3>1, StackForms
    <3> QED BY <1>a, <3>1, <3>2 DEF ScreensTypeOK
  <2>b. ASSUME HomeWaits, UNCHANGED editVars, vms' = vms
        PROVE  HomeTypeOK' /\ EditTypeOK'
    BY <1>0, <2>0, <2>b, HomeWaitsType DEF EditTypeOK, editVars
  <2>1. ASSUME NEW o \in DOMAIN vms, dismissBought(o)
        PROVE  TypeOK'
    <3>1. ScreensTypeOK' /\ vms' = vms /\ UNCHANGED <<fsVars, homeVars, editVars>>
      BY <2>1, <2>a DEF dismissBought
    <3>2. FsTypeOK' /\ HomeTypeOK' /\ EditTypeOK'
      BY <1>0, <2>0, <3>1 DEF FsTypeOK, fsVars, HomeTypeOK, homeVars, EditTypeOK, editVars
    <3> QED BY <1>0, <2>0, <3>1, <3>2 DEF TypeOK
  <2>2. ASSUME NEW o \in DOMAIN vms, NEW v \in Write, BoughtTap(o, v)
        PROVE  TypeOK'
    <3>1. /\ host' = o /\ UNCHANGED <<root, shown, vms, editVars>> /\ HomeWaits /\ Enqueue(<<v>>)
      BY <2>2 DEF BoughtTap, SubmitBought, Submit, Start
    <3>2. ScreensTypeOK' /\ FsTypeOK'
      BY <1>0, <1>a, <3>1, PendingAnd DEF ScreensTypeOK
    <3> QED BY <1>0, <2>0, <2>b, <3>1, <3>2 DEF TypeOK
  <2>3. CASE BoughtSettled
    <3>1. HomeWaits /\ UNCHANGED editVars
      BY <2>3 DEF BoughtSettled, BoughtWaits
    <3>2. FsTypeOK'
      BY <1>0, <2>3, PendingAfter, PendingAnd DEF BoughtSettled
    <3>3. ScreensTypeOK' /\ vms' = vms
      <4>1. CASE UNCHANGED <<screenVars, changed, historyReads>>
        BY <1>0, <4>1 DEF ScreensTypeOK, screenVars
      <4>2. CASE ~UNCHANGED <<screenVars, changed, historyReads>>
        BY <2>3, <2>a, <4>2, BoughtReported
      <4> QED BY <4>1, <4>2
    <3> QED BY <1>0, <2>0, <2>b, <3>1, <3>2, <3>3 DEF TypeOK
  <2> QED BY <1>4, <2>1, <2>2, <2>3, BoughtForms
<1>5. CASE UNCHANGED buyLogVars
  BY <1>0, <1>5, TypeInvStep DEF buyLogVars, TypeInv
<1> QED BY <1>1, <1>2, <1>3, <1>4, <1>5 DEF BuyLogNext

LEMMA LogOwnTypes ==
  ASSUME LogInv, [BuyLogNext]_buyLogVars
  PROVE  HistoryTypeOK' /\ BoughtTypeOK'
<1>0. /\ FsTypeOK /\ ScreensTypeOK /\ HistoryTypeOK /\ BoughtTypeOK /\ ScreenStack /\ HistoryOpen
      /\ changed \in SUBSET DOMAIN vms /\ asked \in [Items -> SUBSET {"delete", "revert"}]
      /\ historyReads \in Nat
  BY DEF LogInv, TypeInv, TypeOK, BoughtTypeOK, HistoryTypeOK
<1>1. BoughtTypeOK'
  <2>1. DOMAIN vms \subseteq DOMAIN vms'
    BY NewWrites
  <2>2. changed' \in SUBSET DOMAIN vms
    BY <1>0, LogMoves DEF LogMove
  <2>3. asked' \in [Items -> SUBSET {"delete", "revert"}]
    <3>1. CASE asked' = asked
      BY <1>0, <3>1
    <3>2. ASSUME NEW o, vms[o].item \in Items, NEW what \in {"delete", "revert"},
                 asked' = [asked EXCEPT ![vms[o].item] = @ \cup {what}]
          PROVE  asked' \in [Items -> SUBSET {"delete", "revert"}]
      BY <1>0, <3>2
    <3>3. CASE BoughtStep
      <4>1. ASSUME NEW o \in DOMAIN vms, NEW v \in Write, BoughtTap(o, v)
            PROVE  asked' \in [Items -> SUBSET {"delete", "revert"}]
        BY <4>1, <3>1, <3>2 DEF BoughtTap
      <4>2. CASE \/ BoughtSettled \/ \E o \in DOMAIN vms : dismissBought(o)
        BY <4>2, <3>1 DEF BoughtSettled, BoughtWaits, dismissBought
      <4> QED BY <3>3, <4>1, <4>2, BoughtForms
    <3>4. ~BoughtStep => asked' = asked
      BY DEF BuyLogNext, ListStep, RestartAll, HistoryStep, boughtVars, buyLogVars
    <3> QED BY <3>1, <3>3, <3>4
  <2> QED BY <2>1, <2>2, <2>3 DEF BoughtTypeOK
<1>2. CASE UNCHANGED historyVars
  BY <1>0, <1>1, <1>2 DEF historyVars, pagerVars, HistoryTypeOK
<1>3. CASE RestartAll
  BY <1>1, <1>3 DEF RestartAll, HistoryGone, reloadData, HistoryTypeOK
<1>4. CASE HistoryStep
  BY <1>0, <1>1, <1>4, HistoryTypeStep
<1>5. CASE BoughtStep
  <2>1. UNCHANGED <<pagerVars, historyState, cells, pageGoods>>
    <3>1. ASSUME NEW o \in DOMAIN vms, NEW v \in Write, dismissBought(o) \/ BoughtTap(o, v)
          PROVE  UNCHANGED <<pagerVars, historyState, cells, pageGoods>>
      BY <3>1 DEF dismissBought, BoughtTap, SubmitBought, historyVars
    <3>2. ASSUME NEW o \in DOMAIN vms, dismissBought(o)
          PROVE  UNCHANGED <<pagerVars, historyState, cells, pageGoods>>
      BY <3>2 DEF dismissBought
    <3>3. CASE BoughtSettled
      BY <3>3 DEF BoughtSettled, BoughtWaits
    <3> QED BY <1>5, <3>1, <3>2, <3>3, BoughtForms
  <2>2. historyReads' \in Nat
    <3>1. ASSUME NEW o, NEW ov, CloseAndTell(o, ov)
          PROVE  historyReads' \in Nat
      BY <1>0, <3>1 DEF CloseAndTell, LoadHistory
    <3>2. ASSUME NEW o \in DOMAIN vms, dismissBought(o)
          PROVE  historyReads' \in Nat
      BY <3>1, <3>2 DEF dismissBought
    <3>3. ASSUME NEW o \in DOMAIN vms, NEW v \in Write, BoughtTap(o, v)
          PROVE  historyReads' \in Nat
      BY <1>0, <3>3 DEF BoughtTap, SubmitBought, historyVars
    <3>4. CASE BoughtSettled
      BY <1>0, <3>1, <3>4, BoughtReported
    <3> QED BY <1>5, <3>2, <3>3, <3>4, BoughtForms
  <2> QED BY <1>0, <1>1, <2>1, <2>2 DEF HistoryTypeOK, pagerVars
<1> QED BY <1>1, <1>2, <1>3, <1>4, <1>5 DEF BuyLogNext, ListStep, buyLogVars

LEMMA LogInvStep ==
  ASSUME LogInv, [BuyLogNext]_buyLogVars
  PROVE  LogInv'
<1>1. TypeOK' /\ UserAtHome' /\ HistoryTypeOK' /\ BoughtTypeOK' /\ ScreenStack' /\ HistoryOpen'
  BY LogTypeStep, UserAtHomeLog, LogOwnTypes, StackStep, HistoryOpenStep
<1>2. WritesMatch'
  BY NewWrites, WritesKept DEF LogInv
<1>3. CallbacksMatch'
  <2> SUFFICES ASSUME NEW w \in Pending', w.done # Lost
               PROVE  /\ w.done.owner \in DOMAIN vms'
                      /\ w.done.step # "addGoods" => vms'[w.done.owner].item \in Items
                      /\ w.done.step = "addBoughtGoods" => w.doc = boughtgoods(vms'[w.done.owner].item)
    BY DEF CallbacksMatch, CallbackMatches
  <2>1. w.done.owner \in DOMAIN vms' /\ StepWrites(w, vms'[w.done.owner])
    BY <1>2 DEF WritesMatch, Awaited
  <2>2. vms'[w.done.owner] \in ViewModel
    BY <1>1, <2>1, LenProperties, ElementOfSeq DEF TypeOK, ScreensTypeOK
  <2> QED BY <2>1, <2>2 DEF StepWrites, ViewModel
<1> QED BY <1>1, <1>2, <1>3 DEF LogInv, TypeInv

-----------------------------------------------------------------------------
(* What an earlier session left.                                           *)

LEMMA BoughtBeforeFinite ==
  ASSUME NEW d \in Dates
  PROVE  IsFiniteSet(BoughtBeforeOn(d)) /\ Cardinality(BoughtBeforeOn(d)) \in Nat
<1>1. IsFiniteSet(BoughtBeforeOn(d))
  BY BuyLogAssumption, FS_Subset DEF BoughtBeforeOn
<1> QED BY <1>1, FS_CardinalityType

LEMMA StoredDocs ==
  /\ \A i \in Items : StoredBefore(goods(i)) = IF i \in ListedBefore THEN GoodsData ELSE Absent
  /\ \A i \in Items :
       \/ StoredBefore(boughtgoods(i)) = Absent /\ \A p \in BoughtBefore : p[1] # i
       \/ /\ StoredBefore(boughtgoods(i)) \in Dates
          /\ \E p \in BoughtBefore : p[1] = i
  /\ \A d \in Dates : StoredBefore(datecount(d)) \in {Absent, Cardinality(BoughtBeforeOn(d))}
<1>a. \A p \in BoughtBefore : p[1] \in Items /\ p[2] \in Dates
  BY BuyLogAssumption
<1>1. ASSUME NEW i \in Items
      PROVE  StoredBefore(goods(i)) = IF i \in ListedBefore THEN GoodsData ELSE Absent
  <2>1. /\ goods(i) \in {goods(j) : j \in ListedBefore} <=> i \in ListedBefore
        /\ goods(i) \notin {boughtgoods(p[1]) : p \in BoughtBefore}
        /\ goods(i) \notin {datecount(p[2]) : p \in BoughtBefore}
    BY DEF goods, boughtgoods, datecount
  <2> QED BY <2>1 DEF StoredBefore
<1>2. ASSUME NEW i \in Items
      PROVE  \/ StoredBefore(boughtgoods(i)) = Absent /\ \A p \in BoughtBefore : p[1] # i
             \/ /\ StoredBefore(boughtgoods(i)) \in Dates
                /\ \E p \in BoughtBefore : p[1] = i
  <2>1. /\ boughtgoods(i) \notin {goods(j) : j \in ListedBefore}
        /\ boughtgoods(i) \in {boughtgoods(p[1]) : p \in BoughtBefore}
             <=> \E p \in BoughtBefore : boughtgoods(p[1]) = boughtgoods(i)
        /\ boughtgoods(i) \notin {datecount(p[2]) : p \in BoughtBefore}
    BY DEF goods, boughtgoods, datecount
  <2>2. CASE \E p \in BoughtBefore : boughtgoods(p[1]) = boughtgoods(i)
    <3> DEFINE q == CHOOSE p \in BoughtBefore : boughtgoods(p[1]) = boughtgoods(i)
    <3>1. q \in BoughtBefore /\ boughtgoods(q[1]) = boughtgoods(i)
      BY <2>2
    <3>2. StoredBefore(boughtgoods(i)) = q[2]
      BY <2>1, <2>2 DEF StoredBefore
    <3> HIDE DEF q
    <3>3. q[1] = i
      BY <3>1 DEF boughtgoods
    <3> QED BY <1>a, <3>1, <3>2, <3>3
  <2>3. CASE ~\E p \in BoughtBefore : boughtgoods(p[1]) = boughtgoods(i)
    <3>1. StoredBefore(boughtgoods(i)) = Absent
      BY <2>1, <2>3 DEF StoredBefore
    <3> QED BY <2>3, <3>1
  <2> QED BY <2>2, <2>3
<1>3. ASSUME NEW d \in Dates
      PROVE  StoredBefore(datecount(d)) \in {Absent, Cardinality(BoughtBeforeOn(d))}
  <2>1. /\ datecount(d) \notin {goods(j) : j \in ListedBefore}
        /\ datecount(d) \notin {boughtgoods(p[1]) : p \in BoughtBefore}
        /\ datecount(d)[2] = d
    BY DEF goods, boughtgoods, datecount
  <2> QED BY <2>1 DEF StoredBefore
<1> QED BY <1>1, <1>2, <1>3

LEMMA LogInvInit == BuyLogInit => LogInv
<1> SUFFICES ASSUME BuyLogInit PROVE LogInv
  OBVIOUS
<1>1. /\ srv = [doc \in Docs |-> StoredBefore(doc)] /\ queue = <<>> /\ faults = 0
      /\ used = ListedBefore \cup {p[1] : p \in BoughtBefore} /\ today = FirstDay
      /\ Launched /\ HistoryInit /\ BoughtInit
  BY DEF BuyLogInit
<1>2. Pending = {}
  BY <1>1 DEF Pending, Range
<1>3. FsTypeOK
  <2>1. ASSUME NEW doc \in Docs
        PROVE  StoredBefore(doc) \in Values /\ Fits(doc, StoredBefore(doc))
    <3>1. \/ \E i \in Items : doc = goods(i) \/ doc = boughtgoods(i)
          \/ \E d \in Dates : doc = datecount(d)
      BY DEF Docs, goods, boughtgoods, datecount
    <3>2. ASSUME NEW i \in Items, doc = goods(i)
          PROVE  StoredBefore(doc) \in Values /\ Fits(doc, StoredBefore(doc))
      BY <3>2, StoredDocs, GoodsDocs, DatesAreValues
    <3>3. ASSUME NEW i \in Items, doc = boughtgoods(i)
          PROVE  StoredBefore(doc) \in Values /\ Fits(doc, StoredBefore(doc))
      <4>1. StoredBefore(doc) \in Dates \cup {Absent}
        BY <3>3, StoredDocs
      <4>2. Fits(boughtgoods(i), Absent)
        BY DEF Fits, goods, boughtgoods, datecount
      <4> QED BY <3>3, <4>1, <4>2, GoodsDocs, DatesAreValues
    <3>4. ASSUME NEW d \in Dates, doc = datecount(d)
          PROVE  StoredBefore(doc) \in Values /\ Fits(doc, StoredBefore(doc))
      <4>1. StoredBefore(doc) \in {Absent, Cardinality(BoughtBeforeOn(d))}
        BY <3>4, StoredDocs
      <4>2. Cardinality(BoughtBeforeOn(d)) \in Int
        BY BoughtBeforeFinite
      <4>3. Fits(datecount(d), Absent)
        BY DEF Fits, goods, boughtgoods, datecount
      <4> QED BY <3>4, <4>1, <4>2, <4>3, CountDocs, DatesAreValues DEF Values
    <3> QED BY <3>1, <3>2, <3>3, <3>4
  <2>2. srv \in [Docs -> Values]
    BY <1>1, <2>1
  <2>3. \A doc \in Docs : Fits(doc, srv[doc])
    BY <1>1, <2>1
  <2> QED BY <1>1, <2>2, <2>3, FirestoreAssumption DEF FsTypeOK
<1>4. ScreensTypeOK /\ EditTypeOK
  <2>1. used \in SUBSET Items
    BY <1>1, BuyLogAssumption
  <2> QED BY <1>1, <2>1 DEF Launched, ScreensTypeOK, EditTypeOK
<1>5. HomeTypeOK
  BY <1>1, BuyLogAssumption DEF Launched, HomeTypeOK
<1>6. TypeOK
  BY <1>1, <1>3, <1>4, <1>5, ShoppingListAssumption DEF TypeOK, Launched
<1>7. CallbacksMatch /\ WritesMatch
  BY <1>2 DEF CallbacksMatch, WritesMatch
<1>8. UserAtHome /\ ScreenStack /\ HistoryOpen
  BY <1>1 DEF Launched, HistoryInit, BoughtInit, UserAtHome, ScreenStack, HistoryOpen
<1>9. HistoryTypeOK /\ BoughtTypeOK
  BY <1>1 DEF HistoryInit, BoughtInit, HistoryTypeOK, BoughtTypeOK
<1> QED BY <1>6, <1>7, <1>8, <1>9 DEF LogInv, TypeInv

\* The two history variables of BuyLog hold truth values.
Flags == stray \in BOOLEAN /\ interrupted \in BOOLEAN

LEMMA FlagsStep ==
  ASSUME Flags, [BuyLogNext]_buyLogVars
  PROVE  Flags'
<1>1. CASE BuyLogNext
  BY <1>1, Zenon DEF BuyLogNext, Observe, Flags
<1>2. CASE UNCHANGED buyLogVars
  BY <1>2 DEF buyLogVars, logVars, Flags
<1> QED BY <1>1, <1>2

\* The shared invariant holds always: History, EditBoughtGoods and the screens
\* of the list are never presented above each other in any other way, and
\* every callback that is alive belongs to the screen whose write it reports.
THEOREM LogInvHolds == BuyLogSpec => []LogInv
BY LogInvInit, LogInvStep, PTL DEF BuyLogSpec

\* Every variable keeps its type; every page of History has a positive count.
THEOREM BuyLogTyped == BuyLogSpec => []BuyLogTypeOK
<1>1. BuyLogInit => Flags
  BY DEF BuyLogInit, Flags
<1>2. Flags /\ [BuyLogNext]_buyLogVars => Flags'
  BY FlagsStep
<1>3. LogInv /\ Flags => BuyLogTypeOK
  BY DEF LogInv, TypeInv, Flags, BuyLogTypeOK
<1> QED BY <1>1, <1>2, <1>3, LogInvHolds, PTL DEF BuyLogSpec

-----------------------------------------------------------------------------
(* The overlay.                                                            *)

Explained(o) ==
  \/ Waits(o)
  \/ vms[o].kind = "history" /\ (historyReads > 0 \/ historyState = "failed")

\* A screen keeps waiting when the write that is settled is another one's, or
\* when the chain of its own goes on.
LEMMA StillWaits ==
  ASSUME FsTypeOK, NEW o \in shown', Waits(o),
         \/ Commit(<<>>) \/ Refuse
         \/ \E w \in Write : Commit(<<w>>) /\ w.done # Lost /\ w.done.owner = Owner,
         \/ Head(queue).done = Lost \/ Owner # o
         \/ \E w \in Write : Commit(<<w>>) /\ w.done # Lost /\ w.done.owner = Owner
  PROVE  Waits(o)'
<1>1. PICK v \in Pending : v.done # Lost /\ v.done.owner = o
  BY DEF Waits
<1>2. ASSUME NEW ws \in Seq(Write), Commit(ws) \/ (Refuse /\ ws = <<>>)
      PROVE  v \in Pending' \/ v = Head(queue)
  BY <1>1, <1>2, SettledQueue
<1>3. <<>> \in Seq(Write)
  OBVIOUS
<1>4. ASSUME NEW w \in Write, Commit(<<w>>), w.done # Lost, w.done.owner = Owner
      PROVE  Waits(o)'
  <2>1. w \in Pending'
    BY <1>4, PendingAnd
  <2>2. <<w>> \in Seq(Write)
    OBVIOUS
  <2>3. v \in Pending' \/ v = Head(queue)
    BY <1>2, <1>4, <2>2
  <2>4. CASE v \in Pending'
    BY <1>1, <2>4 DEF Waits
  <2>5. CASE v = Head(queue)
    <3>1. Owner = o
      BY <1>1, <2>5 DEF Owner
    <3> QED BY <1>4, <2>1, <3>1 DEF Waits
  <2> QED BY <2>3, <2>4, <2>5
<1>5. CASE (Commit(<<>>) \/ Refuse) /\ (Head(queue).done = Lost \/ Owner # o)
  <2>1. v \in Pending' \/ v = Head(queue)
    BY <1>2, <1>3, <1>5
  <2>2. v # Head(queue)
    BY <1>1, <1>5 DEF Owner
  <2> QED BY <1>1, <2>1, <2>2 DEF Waits
<1> QED BY <1>4, <1>5

LEMMA OverlayStep ==
  ASSUME LogInv, OverlayExplained, [BuyLogNext]_buyLogVars
  PROVE  OverlayExplained'
<1>0. /\ TypeInv /\ UserAtHome /\ WritesMatch /\ FsTypeOK /\ ScreensTypeOK
      /\ HistoryTypeOK /\ ScreenStack /\ HistoryOpen /\ historyReads \in Nat
  BY DEF LogInv, TypeInv, TypeOK, HistoryTypeOK
<1>a. /\ DOMAIN vms = 1 .. Len(vms) /\ Len(vms) \in Nat /\ shown \subseteq DOMAIN vms
      /\ host \in {NoView, Home} \cup DOMAIN vms
      /\ NoView \notin DOMAIN vms /\ Home \notin DOMAIN vms
  BY <1>0, ViewModelsDomain DEF ScreensTypeOK, NoView, Home
<1>b. \A o \in shown : host = o => Explained(o)
  BY DEF OverlayExplained, Explained
<1>c. SUFFICES ASSUME NEW o \in shown', host' = o
               PROVE  Explained(o)'
  BY DEF OverlayExplained, Explained
<1>d. ASSUME UNCHANGED <<shown, vms, host, queue, historyReads, historyState>>
      PROVE  Explained(o)'
  BY <1>b, <1>c, <1>d DEF Explained, Waits, Pending
<1>e. ASSUME host' \in {NoView, Home}, shown' \subseteq DOMAIN vms
      PROVE  FALSE
  BY <1>a, <1>c, <1>e
<1>f. ASSUME NEW vm \in ViewModel, Present(vm), host' = host, UNCHANGED <<queue, historyReads, historyState>>
      PROVE  Explained(o)'
  <2>1. /\ shown' = shown \cup {Len(vms) + 1} /\ Len(vms) + 1 \notin DOMAIN vms
        /\ Len(vms) + 1 \in Nat \ {0}
        /\ \A p \in DOMAIN vms : vms'[p] = vms[p]
    BY <1>0, <1>f, Presented
  <2>2. o \in shown
    BY <1>a, <1>c, <1>f, <2>1 DEF NoView, Home
  <2>3. Explained(o) /\ vms'[o] = vms[o]
    BY <1>a, <1>b, <1>c, <1>f, <2>1, <2>2
  <2> QED BY <1>c, <1>f, <2>2, <2>3 DEF Explained, Waits, Pending
<1>g. ASSUME NEW w \in Write, Submit(o, <<w>>), w.done # Lost, w.done.owner = o
      PROVE  Explained(o)'
  <2>1. w \in Pending'
    BY <1>0, <1>g, PendingAnd DEF Submit
  <2> QED BY <1>c, <1>g, <2>1 DEF Explained, Waits
<1>h. ASSUME UNCHANGED <<screenVars, historyReads, historyState>>,
             \/ Commit(<<>>) \/ Refuse
             \/ \E w \in Write : Commit(<<w>>) /\ w.done # Lost /\ w.done.owner = Owner,
             \/ Head(queue).done = Lost \/ Owner \notin shown
             \/ \E w \in Write : Commit(<<w>>) /\ w.done # Lost /\ w.done.owner = Owner
      PROVE  Explained(o)'
  <2>1. o \in shown /\ Explained(o) /\ vms' = vms
    BY <1>b, <1>c, <1>h DEF screenVars
  <2>2. CASE Waits(o)
    <3>1. Waits(o)'
      BY <1>0, <1>c, <1>h, <2>1, <2>2, StillWaits
    <3> QED BY <3>1 DEF Explained
  <2>3. CASE ~Waits(o)
    BY <1>h, <2>1, <2>3 DEF Explained
  <2> QED BY <2>2, <2>3
<1>1. CASE ListStep
  <2>0. UNCHANGED <<historyReads, historyState>>
    BY <1>1 DEF ListStep, historyVars
  <2>1. CASE ListQuiet
    BY <1>a, <1>c, <1>d, <1>e, <2>0, <2>1 DEF ListQuiet
  <2>2. CASE ListOpens
    BY <1>f, <2>0, <2>2 DEF ListOpens, fsVars
  <2>3. ASSUME NEW p \in DOMAIN vms, dismiss(p)
        PROVE  FALSE
    <3>1. shown = {p} /\ shown' = {q \in shown : q < p}
      BY <1>0, <2>3, StackForms DEF dismiss, Dismiss
    <3> QED BY <1>a, <1>c, <3>1
  <2>4. ASSUME NEW p \in DOMAIN vms, NEW w \in Write, ListTap(p, w)
        PROVE  Explained(o)'
    BY <1>c, <1>g, <2>4 DEF ListTap, Submit, Start
  <2>5. CASE ListSettled
    <3>1. CASE UNCHANGED screenVars
      <4>1. ListReported => (Commit(<<>>) \/ Refuse) /\ (UNCHANGED screenVars => Owner \notin shown)
        <5> SUFFICES ASSUME ListReported, UNCHANGED screenVars, Owner \in shown PROVE FALSE
          BY DEF ListReported
        <5>1. shown' = {q \in shown : q < Owner}
          BY DEF ListReported, Report, Dismiss
        <5>2. Owner \in Nat
          BY <1>a
        <5> QED BY <5>1, <5>2 DEF screenVars
      <4> QED BY <1>h, <2>0, <2>5, <3>1, <4>1 DEF ListSettled, ListNext
    <3>2. CASE ~UNCHANGED screenVars
      <4>1. host' = NoView /\ shown' \subseteq shown
        BY <2>5, <3>2 DEF ListSettled, ListReported, Report, Stop, Dismiss
      <4> QED BY <1>a, <1>e, <4>1
    <3> QED BY <3>1, <3>2
  <2> QED BY <1>0, <1>1, <2>1, <2>2, <2>3, <2>4, <2>5, ListForms
<1>2. CASE RestartAll
  BY <1>2, <1>c DEF RestartAll, Restart
<1>3. CASE HistoryStep
  <2>0. UNCHANGED queue /\ HistoryMove
    BY <1>0, <1>3, HistoryQuiet, HistoryScreens
  <2>1. CASE UNCHANGED <<shown, vms>>
    <3>1. CASE historyLoadSucceeds \/ historyLoadFails
      <4>1. CASE historyLoadSucceeds
        BY <1>a, <1>e, <2>1, <4>1 DEF historyLoadSucceeds, Stop
      <4>2. CASE historyLoadFails
        <5>1. HistoryShown /\ host' = HistoryController /\ historyState' = "failed"
          BY <1>0, <4>2 DEF historyLoadFails, Start, HistoryOpen
        <5>2. vms[HistoryController].kind = "history"
          BY <1>0, <5>1, StackForms
        <5> QED BY <1>c, <2>1, <5>1, <5>2 DEF Explained
      <4> QED BY <3>1, <4>1, <4>2
    <3>2. CASE dismissHistory
      <4>1. HistoryShown /\ shown' = {q \in shown : q < HistoryController}
        BY <3>2 DEF dismissHistory, Dismiss
      <4>2. HistoryController \in shown
        BY <1>0, <4>1, StackForms
      <4>3. HistoryController \in Nat
        BY <1>a, <4>2
      <4>4. HistoryController \notin shown'
        BY <4>1, <4>3
      <4> QED BY <2>1, <4>2, <4>4
    <3>3. CASE history
      <4>1. Len(vms) + 1 \in shown'
        BY <3>3 DEF history, Present
      <4> QED BY <1>a, <2>1, <4>1
    <3>4. CASE ~(historyLoadSucceeds \/ historyLoadFails \/ dismissHistory \/ history)
      <4>1. UNCHANGED <<host, historyReads, historyState>>
        BY <1>3, <3>4 DEF HistoryStep, HistoryTaps, HistoryLoads, scroll, didSelectRowAt,
           historyVars, cellForItemAt, fetchSucceeds, fetchFails, screenVars
      <4> QED BY <1>d, <2>0, <2>1, <4>1
    <3> QED BY <3>1, <3>2, <3>3, <3>4
  <2>2. ASSUME shown = {}, historyReads' = 1, NEW vm \in ViewModel, Present(vm), vm.kind = "history"
        PROVE  Explained(o)'
    <3>1. shown' = {Len(vms) + 1} /\ vms'[Len(vms) + 1] = vm
      BY <1>0, <2>2, Presented
    <3> QED BY <1>c, <2>2, <3>1 DEF Explained
  <2>3. CASE shown' = {}
    BY <1>c, <2>3
  <2>4. ASSUME host' = host, UNCHANGED historyVars, NEW vm \in ViewModel, Present(vm)
        PROVE  Explained(o)'
    BY <1>f, <2>0, <2>4 DEF historyVars
  <2> QED BY <2>0, <2>1, <2>2, <2>3, <2>4 DEF HistoryMove
<1>4. CASE BoughtStep
  <2>a. ASSUME NEW p, NEW ov, IsEditBought(p), CloseAndTell(p, ov),
               ov = NoView \/ (ov = host /\ UNCHANGED <<queue, historyState>>)
        PROVE  Explained(o)'
    <3>1. /\ HistoryShown /\ shown = {HistoryController, p} /\ shown' = {HistoryController}
          /\ vms' = vms
          /\ \/ host' = HistoryController /\ historyReads' = historyReads + 1
             \/ host' = ov /\ historyReads' = historyReads
      BY <1>0, <2>a, Closed
    <3>2. vms[HistoryController].kind = "history" /\ HistoryController \in DOMAIN vms
      BY <1>0, <1>a, <3>1, StackForms
    <3>3. o = HistoryController /\ o \in shown
      BY <1>c, <3>1
    <3>4. CASE historyReads' = historyReads + 1
      <4>1. historyReads' > 0
        BY <1>0, <3>4
      <4> QED BY <3>1, <3>2, <3>3, <4>1 DEF Explained
    <3>5. CASE host' = ov /\ historyReads' = historyReads
      <4>1. ov = host /\ UNCHANGED <<queue, historyState>>
        BY <1>a, <1>c, <2>a, <3>2, <3>3, <3>5
      <4>2. Explained(o)
        BY <1>b, <1>c, <3>3, <3>5, <4>1
      <4>3. ~Waits(o)
        BY <1>0, <3>2, <3>3, WaitingKinds DEF Waits
      <4> QED BY <3>1, <3>2, <3>3, <3>5, <4>1, <4>2, <4>3 DEF Explained
    <3> QED BY <3>1, <3>4, <3>5
  <2>1. ASSUME NEW p \in DOMAIN vms, dismissBought(p)
        PROVE  Explained(o)'
    BY <2>1, <2>a DEF dismissBought, fsVars
  <2>2. ASSUME NEW p \in DOMAIN vms, NEW w \in Write, BoughtTap(p, w)
        PROVE  Explained(o)'
    BY <1>c, <1>g, <2>2 DEF BoughtTap, SubmitBought, Submit, Start
  <2>3. CASE BoughtSettled /\ UNCHANGED <<screenVars, changed, historyReads>>
    <3>1. UNCHANGED historyState
      BY <2>3 DEF BoughtSettled, BoughtWaits
    <3>2. ReportBought(Owner) => Owner \notin shown
      <4> SUFFICES ASSUME ReportBought(Owner), Owner \in shown PROVE FALSE
        OBVIOUS
      <4>1. shown' = {q \in shown : q < Owner}
        BY DEF ReportBought, CloseAndTell, Close, Dismiss
      <4>2. Owner \in Nat
        BY <1>a
      <4> QED BY <2>3, <4>1, <4>2 DEF screenVars
    <3> QED BY <1>h, <2>3, <3>1, <3>2 DEF BoughtSettled, BoughtNext
  <2>4. CASE BoughtSettled /\ ~UNCHANGED <<screenVars, changed, historyReads>>
    BY <2>4, <2>a, BoughtReported
  <2> QED BY <1>4, <2>1, <2>2, <2>3, <2>4, BoughtForms
<1>5. CASE UNCHANGED buyLogVars
  BY <1>5, <1>d DEF buyLogVars, vars, fsVars, screenVars, historyVars
<1> QED BY <1>1, <1>2, <1>3, <1>4, <1>5 DEF BuyLogNext

\* With History on top of the list: whoever moves the overlay, whatever fails
\* and however a chain ends, no presented screen stays covered that neither
\* waits for a write nor, being History, for a load or after a failed one.
THEOREM OverlayIsExplained == BuyLogSpec => []OverlayExplained
<1>1. BuyLogInit => OverlayExplained
  BY DEF BuyLogInit, Launched, OverlayExplained
<1>2. LogInv /\ OverlayExplained /\ [BuyLogNext]_buyLogVars => OverlayExplained'
  BY OverlayStep
<1> QED BY <1>1, <1>2, LogInvHolds, PTL DEF BuyLogSpec

-----------------------------------------------------------------------------
(* The row History remembers.                                              *)

\* As long as the pages fit, History remembers the row it shows, whatever is
\* loaded, fails, is edited or is restarted meanwhile.
THEOREM PagerFollowsIfPagesFit == BuyLogSpec /\ []PagesFit => []PagerFollows
<1>1. PagerInv => PagerFollows
  BY DEF PagerInv, PagerFollows
<1>2. LogInv => HistoryTypeOK
  BY DEF LogInv
<1> QED BY InitPager, NextPager, LogInvHolds, <1>1, <1>2, PTL DEF BuyLogSpec

LEMMA IndexStep ==
  ASSUME LogInv, PagerInv, PagesFit, [BuyLogNext]_buyLogVars
  PROVE  [IndexLeavesRows]_buyLogVars
<1>0. /\ FsTypeOK /\ ScreensTypeOK /\ ScreenStack /\ HistoryTypeOK /\ HistoryOpen
      /\ dates \in Seq(DateCount) /\ currentIndex \in Int
  BY DEF LogInv, TypeInv, TypeOK, HistoryTypeOK
<1>1. CASE UNCHANGED pagerVars
  BY <1>1 DEF pagerVars, IndexLeavesRows, Rows
<1>2. CASE RestartAll
  BY <1>2 DEF RestartAll, Restart, IndexLeavesRows, HistoryShown
<1>3. CASE HistoryStep
  <2>1. CASE dismissHistory
    <3>1. HistoryMove
      BY <1>0, <1>3, HistoryScreens DEF LogInv
    <3>2. HistoryShown /\ shown' = {q \in shown : q < HistoryController} /\ vms' = vms
      BY <2>1 DEF dismissHistory, Dismiss
    <3>3. \A q \in shown : q # HistoryController => HistoryController < q
      BY <1>0, <3>2, StackForms
    <3>4. shown' = {}
      <4> SUFFICES ASSUME NEW q \in shown, q < HistoryController PROVE FALSE
        BY <3>2
      <4>1. HistoryController \in Nat /\ q \in Nat
        BY <1>0, <3>2, StackForms, ViewModelsDomain DEF ScreensTypeOK
      <4>2. q # HistoryController
        BY <4>1
      <4>3. HistoryController < q
        BY <3>3, <4>2
      <4> QED BY <4>1, <4>3
    <3> QED BY <3>4 DEF IndexLeavesRows, HistoryShown
  <2>2. ASSUME NEW k \in Rows(dates), scroll(k)
        PROVE  IndexLeavesRows
    <3>0. k \in Nat
      BY <1>0, LenProperties DEF Rows
    <3>1. currentIndex' = k /\ dates' = dates
      BY <2>2, <3>0, DecelerationIsExact DEF scroll, PagesFit
    <3> QED BY <3>1 DEF IndexLeavesRows, Rows
  <2>3. CASE historyLoadSucceeds
    <3>1. LoadedDates \in Seq(DateCount)
      BY <1>0, LoadedDatesType
    <3>2. dates' = LoadedDates /\ currentIndex' = FirstIndex(LoadedDates)
      BY <2>3 DEF historyLoadSucceeds
    <3>3. Len(dates) \in Nat /\ Len(dates') \in Nat
      BY <1>0, <3>1, <3>2, LenProperties
    <3>4. currentIndex \in Rows(dates) => currentIndex' = currentIndex
      BY <3>2, NoRows DEF FirstIndex, PagerInv
    <3> HIDE DEF LoadedDates
    <3> QED BY <1>0, <3>3, <3>4 DEF IndexLeavesRows, Rows
  <2>4. CASE historyLoadFails
    <3>1. currentIndex \in Rows(dates) => currentIndex' = currentIndex /\ dates' = dates
      BY <2>4, NoRows DEF historyLoadFails, FirstIndex, PagerInv
    <3> QED BY <3>1 DEF IndexLeavesRows, Rows
  <2>5. CASE UNCHANGED pagerVars
    BY <2>5, <1>1
  <2> QED BY <1>3, <2>1, <2>2, <2>3, <2>4, <2>5
          DEF HistoryStep, HistoryTaps, HistoryLoads, history, didSelectRowAt, historyVars,
              cellForItemAt, fetchSucceeds, fetchFails
<1>4. CASE BoughtStep
  BY <1>1, <1>4, BoughtFrame
<1> QED BY <1>1, <1>2, <1>3, <1>4 DEF BuyLogNext, ListStep, historyVars, buyLogVars

\* As long as the pages fit, the row History remembers leaves the pages it has
\* only when a load brings fewer of them.
THEOREM IndexIsKept == BuyLogSpec /\ []PagesFit => IndexKept
<1>1. LogInv /\ PagerInv /\ PagesFit /\ [BuyLogNext]_buyLogVars => [IndexLeavesRows]_buyLogVars
  BY IndexStep
<1>2. LogInv => HistoryTypeOK
  BY DEF LogInv
<1> QED BY <1>1, <1>2, InitPager, NextPager, LogInvHolds, PTL DEF BuyLogSpec, IndexKept

-----------------------------------------------------------------------------
(* What History shows.                                                     *)

\* A presented EditBoughtGoods that waits for a write will ask for a load.
ChangedWaits ==
  \A w \in Pending :
    w.done # Lost /\ IsEditBought(w.done.owner) => w.done.owner \in changed

Attended == ~stray => \A w \in Pending : ~Unattended(w)

\* A write a step adds, if a screen of a purchase waits for it.
LEMMA NewBoughtWrites ==
  ASSUME LogInv, ChangedWaits, [BuyLogNext]_buyLogVars,
         NEW w \in Pending', w.done # Lost, IsEditBought(w.done.owner)'
  PROVE  w \in Pending \/ w.done.owner \in changed'
<1>0. /\ TypeInv /\ UserAtHome /\ WritesMatch /\ FsTypeOK /\ ScreensTypeOK
      /\ HistoryTypeOK /\ ScreenStack /\ HistoryOpen
  BY DEF LogInv, TypeInv, TypeOK
<1>a. w.done.owner \in shown' /\ vms'[w.done.owner].kind = "editBought"
  BY DEF IsEditBought
<1>b. UNCHANGED queue => w \in Pending
  BY DEF Pending
<1>1. CASE ListStep
  <2>1. CASE ListQuiet \/ ListOpens \/ \E o \in DOMAIN vms : dismiss(o)
    BY <1>b, <2>1 DEF ListQuiet, ListOpens, dismiss, fsVars
  <2>2. ASSUME NEW o \in DOMAIN vms, NEW v \in Write, ListTap(o, v)
        PROVE  w \in Pending
    <3>1. Enqueue(<<v>>) /\ vms' = vms
      BY <2>2 DEF ListTap, Submit
    <3>2. w \in Pending \/ w = v
      BY <1>0, <3>1, PendingAnd
    <3>3. w # v
      BY <1>a, <2>2, <3>1 DEF ListTap
    <3> QED BY <3>2, <3>3
  <2>3. CASE ListSettled
    <3>1. CASE Commit(<<>>) \/ Refuse
      BY <1>0, <3>1, PendingAfter
    <3>2. ASSUME NEW v \in Write, Commit(<<v>>), ListNext(v), UNCHANGED screenVars,
                 Head(queue).done # Lost
          PROVE  w \in Pending
      <4>1. w \in Pending \/ w = v
        BY <1>0, <3>2, PendingAnd
      <4>2. Head(queue) \in Pending
        BY <1>0, <3>2, PendingAnd
      <4>3. vms[Owner].kind = "edit"
        BY <1>0, <3>2, <4>2, WaitingKinds DEF ListNext, ListSteps, Owner
      <4>4. w # v
        BY <1>a, <3>2, <4>3 DEF ListNext, screenVars
      <4> QED BY <4>1, <4>4
    <3> QED BY <2>3, <3>1, <3>2 DEF ListSettled, ListReported
  <2> QED BY <1>0, <1>1, <2>1, <2>2, <2>3, ListForms
<1>2. CASE RestartAll
  BY <1>2, <1>a DEF RestartAll, Restart
<1>3. CASE HistoryStep
  BY <1>0, <1>3, <1>b, HistoryQuiet
<1>4. CASE BoughtStep
  <2>1. ASSUME NEW o \in DOMAIN vms, dismissBought(o)
        PROVE  w \in Pending
    BY <2>1, <1>b DEF dismissBought, fsVars
  <2>2. ASSUME NEW o \in DOMAIN vms, NEW v \in Write, BoughtTap(o, v)
        PROVE  w \in Pending \/ w.done.owner \in changed'
    <3>1. Enqueue(<<v>>) /\ changed' = changed \cup {o} /\ v.done.owner = o
      BY <2>2 DEF BoughtTap, SubmitBought, Submit
    <3>2. w \in Pending \/ w = v
      BY <1>0, <3>1, PendingAnd
    <3> QED BY <3>1, <3>2
  <2>3. CASE BoughtSettled
    <3>1. CASE Commit(<<>>) \/ Refuse
      BY <1>0, <3>1, PendingAfter
    <3>2. ASSUME NEW v \in Write, Commit(<<v>>), BoughtNext(v),
                 UNCHANGED <<screenVars, changed, historyReads>>
          PROVE  w \in Pending \/ w.done.owner \in changed'
      <4>1. (w \in Pending \/ w = v) /\ Head(queue) \in Pending
        BY <1>0, <3>2, PendingAnd
      <4>2. ASSUME w = v
            PROVE  w.done.owner \in changed'
        <5>1. w.done.owner = Owner /\ Head(queue).done # Lost
          BY <2>3, <3>2, <4>2 DEF BoughtNext, BoughtSettled
        <5>2. IsEditBought(Owner)
          BY <1>a, <3>2, <5>1 DEF IsEditBought, screenVars
        <5>3. Owner \in changed
          BY <4>1, <5>1, <5>2 DEF ChangedWaits, Owner
        <5> QED BY <3>2, <5>1, <5>3
      <4> QED BY <4>1, <4>2
    <3> QED BY <2>3, <3>1, <3>2 DEF BoughtSettled
  <2> QED BY <1>4, <2>1, <2>2, <2>3, BoughtForms
<1>5. CASE UNCHANGED buyLogVars
  BY <1>5, <1>b DEF buyLogVars, vars, fsVars
<1> QED BY <1>1, <1>2, <1>3, <1>4, <1>5 DEF BuyLogNext

LEMMA ChangedWaitsStep ==
  ASSUME LogInv, ChangedWaits, [BuyLogNext]_buyLogVars
  PROVE  ChangedWaits'
<1> SUFFICES ASSUME NEW w \in Pending', w.done # Lost, IsEditBought(w.done.owner)'
             PROVE  w.done.owner \in changed'
  BY DEF ChangedWaits
<1>1. CASE w \notin Pending
  BY <1>1, NewBoughtWrites
<1>2. CASE w \in Pending
  <2> DEFINE o == w.done.owner
  <2>0. ScreensTypeOK /\ ScreenStack /\ HistoryOpen /\ WritesMatch
    BY DEF LogInv, TypeInv, TypeOK
  <2>1. o \in DOMAIN vms /\ vms'[o] = vms[o]
    BY <1>2, <2>0, WaitingKinds, NewWrites
  <2>2. o \in shown' /\ vms[o].kind = "editBought"
    BY <2>1 DEF IsEditBought
  <2>3. o \in shown => o \in changed
    BY <1>2, <2>2 DEF ChangedWaits, IsEditBought
  <2> HIDE DEF o
  <2>4. ASSUME NEW vm \in ViewModel, Present(vm)
        PROVE  o \in shown
    BY <2>0, <2>1, <2>2, <2>4, Presented
  <2>5. HistoryShown => vms[HistoryController].kind = "history"
    BY <2>0, StackForms
  <2>6. o \in changed'
    BY <2>2, <2>3, <2>4, <2>5, LogMoves DEF LogMove
  <2> QED BY <2>6 DEF o
<1> QED BY <1>1, <1>2

LEMMA AttendedStep ==
  ASSUME Attended, [BuyLogNext]_buyLogVars
  PROVE  Attended' /\ (~stray' => ~stray)
<1>1. CASE BuyLogNext
  BY <1>1, Zenon DEF BuyLogNext, Observe, Attended
<1>2. CASE UNCHANGED buyLogVars
  BY <1>2 DEF buyLogVars, logVars, vars, fsVars, screenVars, Attended, Unattended, Pending
<1> QED BY <1>1, <1>2

LEMMA SameStoreSameLoads ==
  ASSUME UNCHANGED <<srv, queue>>
  PROVE  /\ LoadedDates' = LoadedDates
         /\ \A d \in Dates : fetchBoughtGoods(d)' = fetchBoughtGoods(d)
<1>1. ASSUME NEW doc
      PROVE  LocalView(doc)' = LocalView(doc)
  BY DEF LocalView, WritesTo
<1>2. loadGoodsCountForDate' = loadGoodsCountForDate
  BY <1>1 DEF loadGoodsCountForDate
<1>3. DateCounts' = DateCounts
  BY <1>2 DEF DateCounts
<1>4. ASSUME NEW d \in Dates
      PROVE  fetchBoughtGoods(d)' = fetchBoughtGoods(d)
  BY <1>1 DEF fetchBoughtGoods
<1> QED BY <1>3, <1>4 DEF LoadedDates

\* The pages are what the device has stored.
PagesFresh ==
  /\ dates = LoadedDates
  /\ \A d \in Dates : cells[d] = "success" => pageGoods[d] = fetchBoughtGoods(d)

LEMMA FreshStep ==
  ASSUME LogInv, ChangedWaits, Attended, HistoryFresh, [BuyLogNext]_buyLogVars
  PROVE  HistoryFresh'
<1>0. /\ TypeInv /\ UserAtHome /\ WritesMatch /\ FsTypeOK /\ ScreensTypeOK
      /\ HistoryTypeOK /\ ScreenStack /\ HistoryOpen /\ historyReads \in Nat
      /\ cells \in [Dates -> {"none", "loading", "success", "failed"}]
      /\ pageGoods \in [Dates -> SUBSET Items]
  BY DEF LogInv, TypeInv, TypeOK, HistoryTypeOK
<1>a. SUFFICES ASSUME HistoryShown', historyState' = "success", ~stray', ~(historyReads' > 0),
                      changed' = {}
               PROVE  PagesFresh'
  BY DEF HistoryFresh, PagesFresh
<1>b. ~stray /\ \A w \in Pending : ~Unattended(w)
  BY <1>a, AttendedStep DEF Attended
<1>c. historyState = "success" => HistoryShown
  BY <1>0 DEF HistoryOpen
<1>d. historyState = "success" /\ ~(historyReads > 0) /\ changed = {} => PagesFresh
  BY <1>b, <1>c DEF HistoryFresh, PagesFresh
<1>e. ASSUME UNCHANGED <<srv, queue, dates, cells, pageGoods, historyState, historyReads, changed>>
      PROVE  PagesFresh'
  <2>1. PagesFresh
    BY <1>a, <1>d, <1>e
  <2>2. /\ LoadedDates' = LoadedDates
        /\ \A d \in Dates : fetchBoughtGoods(d)' = fetchBoughtGoods(d)
    BY <1>e, SameStoreSameLoads
  <2> QED BY <1>e, <2>1, <2>2 DEF PagesFresh
<1>f. ASSUME queue # <<>>
      PROVE  Head(queue).done # Lost /\ Owner \in shown /\ Head(queue) \in Pending
  <2>1. Head(queue) \in Pending
    BY <1>0, <1>f, RangeTail DEF FsTypeOK, Pending
  <2> QED BY <1>b, <2>1 DEF Unattended, Owner
<1>g. ASSUME NEW o \in shown, vms[o].kind \in {"add", "edit"}
      PROVE  ~HistoryShown
  <2>1. shown = {o}
    BY <1>0, <1>g, StackForms
  <2> QED BY <1>g, <2>1 DEF HistoryShown
<1>1. CASE ListStep
  <2>0. UNCHANGED <<dates, cells, pageGoods, historyState, historyReads, changed>>
    BY <1>1 DEF ListStep, historyVars, pagerVars, boughtVars
  <2>1. CASE ListQuiet \/ ListOpens \/ \E o \in DOMAIN vms : dismiss(o)
    BY <1>e, <2>0, <2>1 DEF ListQuiet, ListOpens, dismiss, fsVars
  <2>2. ASSUME NEW o \in DOMAIN vms, NEW v \in Write, ListTap(o, v)
        PROVE  FALSE
    BY <1>a, <1>c, <1>g, <2>0, <2>2 DEF ListTap
  <2>3. CASE ListSettled
    <3>1. queue # <<>>
      BY <2>3 DEF ListSettled, ListReported, Commit, Refuse
    <3>2. Head(queue).done # Lost /\ Owner \in shown /\ Head(queue) \in Pending
      BY <1>f, <3>1
    <3>3. Head(queue).done.step \in ListSteps
      BY <2>3, <3>2 DEF ListSettled
    <3>4. vms[Owner].kind \in {"add", "edit"}
      BY <1>0, <3>2, <3>3, WaitingKinds DEF Owner
    <3> QED BY <1>a, <1>c, <1>g, <2>0, <3>2, <3>4
  <2> QED BY <1>0, <1>1, <2>1, <2>2, <2>3, ListForms
<1>2. CASE RestartAll
  BY <1>2, <1>a DEF RestartAll, Restart, HistoryShown
<1>3. CASE HistoryStep
  <2>0. UNCHANGED <<srv, queue, changed>>
    BY <1>0, <1>3, HistoryQuiet DEF boughtVars
  <2>a. /\ LoadedDates' = LoadedDates
        /\ \A d \in Dates : fetchBoughtGoods(d)' = fetchBoughtGoods(d)
    BY <2>0, SameStoreSameLoads
  <2>1. CASE history
    BY <2>1, <1>a DEF history
  <2>2. CASE dismissHistory
    BY <2>2, <1>a DEF dismissHistory, HistoryGone
  <2>3. ASSUME NEW k \in Rows(dates), scroll(k)
        PROVE  PagesFresh'
    BY <1>e, <2>0, <2>3 DEF scroll
  <2>4. ASSUME NEW k \in Rows(dates), NEW i \in Items, didSelectRowAt(k, i)
        PROVE  PagesFresh'
    BY <1>e, <2>0, <2>4 DEF didSelectRowAt, historyVars, pagerVars
  <2>5. CASE historyLoadSucceeds
    <3>1. dates' = LoadedDates /\ cells' = [d \in Dates |-> "none"]
      BY <2>5 DEF historyLoadSucceeds, reloadData
    <3> QED BY <2>a, <3>1 DEF PagesFresh
  <2>6. CASE historyLoadFails
    BY <2>6, <1>a DEF historyLoadFails
  <2>7. ASSUME NEW k \in Rows(dates), cellForItemAt(k)
        PROVE  PagesFresh'
    <3>1. PagesFresh /\ dates' = dates
      BY <1>a, <1>d, <2>0, <2>7 DEF cellForItemAt, pagerVars
    <3>2. PICK e \in Dates : /\ cells' = [cells EXCEPT ![e] = "loading"]
                             /\ pageGoods' = [pageGoods EXCEPT ![e] = {}]
      BY <1>0, <2>7, RowsHavePages DEF cellForItemAt, DateCount
    <3>3. \A d \in Dates : cells'[d] = "success" => cells[d] = "success" /\ pageGoods'[d] = pageGoods[d]
      BY <1>0, <3>2
    <3> QED BY <2>a, <3>1, <3>3 DEF PagesFresh
  <2>8. ASSUME NEW e \in Dates, fetchSucceeds(e) \/ fetchFails(e)
        PROVE  PagesFresh'
    <3>1. PagesFresh /\ dates' = dates
      BY <1>a, <1>d, <2>0, <2>8 DEF fetchSucceeds, fetchFails, pagerVars
    <3>2. \A d \in Dates : cells'[d] = "success" =>
            \/ cells[d] = "success" /\ pageGoods'[d] = pageGoods[d]
            \/ pageGoods'[d] = fetchBoughtGoods(d)
      <4> HIDE DEF fetchBoughtGoods
      <4> QED BY <1>0, <2>8 DEF fetchSucceeds, fetchFails
    <3> QED BY <2>a, <3>1, <3>2 DEF PagesFresh
  <2> QED BY <1>3, <2>1, <2>2, <2>3, <2>4, <2>5, <2>6, <2>7, <2>8
          DEF HistoryStep, HistoryTaps, HistoryLoads
<1>4. CASE BoughtStep
  <2>a. ASSUME NEW o, NEW ov, IsEditBought(o), CloseAndTell(o, ov)
        PROVE  changed = {} /\ historyReads' = historyReads
    <3>1. \/ historyReads' = historyReads + 1
          \/ changed = {} /\ historyReads' = historyReads
      BY <1>0, <2>a, Closed
    <3> QED BY <1>0, <1>a, <3>1
  <2>1. ASSUME NEW o \in DOMAIN vms, dismissBought(o)
        PROVE  PagesFresh'
    <3>1. changed = {} /\ historyReads' = historyReads
      BY <2>1, <2>a DEF dismissBought
    <3> QED BY <1>a, <1>e, <2>1, <3>1 DEF dismissBought, fsVars, pagerVars
  <2>2. ASSUME NEW o \in DOMAIN vms, NEW v \in Write, BoughtTap(o, v)
        PROVE  FALSE
    BY <1>a, <2>2 DEF BoughtTap, SubmitBought
  <2>3. CASE BoughtSettled
    <3>1. queue # <<>>
      BY <2>3 DEF BoughtSettled, Commit, Refuse
    <3>2. Head(queue).done # Lost /\ Owner \in shown /\ Head(queue) \in Pending
      BY <1>f, <3>1
    <3>3. vms[Owner].kind = "editBought"
      BY <1>0, <2>3, <3>2, WaitingKinds DEF Owner, BoughtSettled
    <3>4. Owner \in changed
      BY <3>2, <3>3 DEF ChangedWaits, IsEditBought, Owner
    <3>5. IsEditBought(Owner) /\ CloseAndTell(Owner, NoView)
      BY <1>a, <2>3, <3>4, BoughtReported
    <3> QED BY <2>a, <3>4, <3>5
  <2> QED BY <1>4, <2>1, <2>2, <2>3, BoughtForms
<1>5. CASE UNCHANGED buyLogVars
  BY <1>5, <1>e DEF buyLogVars, vars, fsVars, historyVars, pagerVars, boughtVars
<1> QED BY <1>1, <1>2, <1>3, <1>4, <1>5 DEF BuyLogNext

\* As long as every write has had its screen waiting for it, History differs
\* from what the device has stored only while a load is on its way or the
\* screen that will ask for one is still open.
THEOREM HistoryIsFresh == BuyLogSpec => []HistoryFresh
<1>1. BuyLogInit => ChangedWaits /\ Attended /\ HistoryFresh
  <2> SUFFICES ASSUME BuyLogInit PROVE ChangedWaits /\ Attended /\ HistoryFresh
    OBVIOUS
  <2>1. Pending = {} /\ shown = {}
    BY DEF BuyLogInit, Launched, Pending, Range
  <2> QED BY <2>1 DEF ChangedWaits, Attended, HistoryFresh, HistoryShown
<1>2. LogInv /\ ChangedWaits /\ Attended /\ HistoryFresh /\ [BuyLogNext]_buyLogVars
        => ChangedWaits' /\ Attended' /\ HistoryFresh'
  BY ChangedWaitsStep, AttendedStep, FreshStep
<1> QED BY <1>1, <1>2, LogInvHolds, PTL DEF BuyLogSpec

-----------------------------------------------------------------------------
(* The counts of a day, written from two screens.                          *)

Cover(d) == Cardinality(BoughtBeforeOn(d)) + Cardinality(CommittedOn(d))

\* Wherever a day's count is kept - stored, pending, loaded or captured - it
\* is not negative and is covered.  A screen that was told of its delete has
\* one to spare, a screen of a purchase has a positive count to decrement.
CountsWithin(d) ==
  /\ CountIn(srv[datecount(d)]) \in 0 .. Cover(d)
  /\ dateCounts[d] \in 0 .. Cover(d)
  /\ \A w \in Pending : w.doc = datecount(d) => CountIn(w.val) \in 0 .. Cover(d)
  /\ \A o \in DOMAIN vms : vms[o].date = d =>
       /\ vms[o].count >= IF vms[o].kind = "editBought" THEN 1 ELSE 0
       /\ vms[o].count + (IF o \in committed THEN 1 ELSE 0) <= Cover(d)
  /\ \A n \in 1 .. Len(dates) : dates[n].date = d => dates[n].count <= Cover(d)

LogCounts == \A d \in Dates : CountsWithin(d)

\* What a step does to the counts.
CountWrite(v) ==
  /\ Owner \in DOMAIN vms
  /\ v.doc = datecount(vms[Owner].date)
  /\ \/ v.val = vms[Owner].count + 1 /\ committed' = committed \cup {Owner}
     \/ v.val = vms[Owner].count - 1 /\ vms[Owner].kind = "editBought"

CountMove ==
  /\ \/ srv' = srv
     \/ \E w \in Pending : srv' = [srv EXCEPT ![w.doc] = w.val]
  /\ \A v \in Pending' :
       \/ \E w \in Pending : w.doc = v.doc /\ w.val = v.val
       \/ \A d \in Dates : v.doc # datecount(d)
       \/ CountWrite(v)
  /\ \/ dateCounts' = dateCounts
     \/ dateCounts' = loadGoodsCountForDate
     \/ dateCounts' = [d \in Dates |-> 0]
  /\ dates' \in {dates, <<>>, LoadedDates}
  /\ \/ committed' = committed
     \/ vms' = vms /\ Owner \in DOMAIN vms /\ committed' = committed \cup {Owner}
  /\ \/ vms' = vms
     \/ \E vm \in ViewModel :
          /\ Present(vm) /\ committed' = committed
          /\ \/ vm.date = today /\ vm.count \in {0, dateCounts[today]} /\ vm.kind # "editBought"
             \/ \E n \in 1 .. Len(dates) : vm.date = dates[n].date /\ vm.count = dates[n].count

LEMMA CountMoves ==
  ASSUME LogInv, [BuyLogNext]_buyLogVars
  PROVE  CountMove
<1>0. /\ TypeInv /\ UserAtHome /\ WritesMatch /\ FsTypeOK /\ ScreensTypeOK
      /\ HistoryTypeOK /\ ScreenStack /\ HistoryOpen
  BY DEF LogInv, TypeInv, TypeOK
<1>a. \A i \in Items, d \in Dates : goods(i) # datecount(d) /\ boughtgoods(i) # datecount(d)
  BY DEF goods, boughtgoods, datecount
<1>b. ASSUME UNCHANGED <<srv, queue, dateCounts, committed>>, dates' \in {dates, <<>>, LoadedDates},
             \/ vms' = vms
             \/ \E vm \in ViewModel :
                  /\ Present(vm)
                  /\ \/ vm.date = today /\ vm.count \in {0, dateCounts[today]} /\ vm.kind # "editBought"
                     \/ \E n \in 1 .. Len(dates) : vm.date = dates[n].date /\ vm.count = dates[n].count
      PROVE  CountMove
  <2>1. Pending' = Pending
    BY <1>b DEF Pending
  <2> HIDE DEF LoadedDates
  <2> QED BY <1>b, <2>1 DEF CountMove
<1>c. ASSUME HomeWaits, vms' = vms, dates' = dates,
             \/ committed' = committed
             \/ Owner \in DOMAIN vms /\ committed' = committed \cup {Owner},
             \/ Commit(<<>>) \/ Refuse
             \/ \E v \in Write :
                  /\ Commit(<<v>>) \/ (Enqueue(<<v>>))
                  /\ (\A d \in Dates : v.doc # datecount(d)) \/ CountWrite(v)
      PROVE  CountMove
  <2>1. dateCounts' = dateCounts
    BY <1>c DEF HomeWaits
  <2>2. \/ srv' = srv
        \/ \E w \in Pending : srv' = [srv EXCEPT ![w.doc] = w.val]
    BY <1>0, <1>c, PendingAfter, PendingAnd DEF Commit, Refuse, Enqueue
  <2>3. ASSUME NEW v \in Pending'
        PROVE  v \in Pending \/ (\A d \in Dates : v.doc # datecount(d)) \/ CountWrite(v)
    <3>1. CASE Commit(<<>>) \/ Refuse
      BY <1>0, <3>1, PendingAfter
    <3>2. ASSUME NEW u \in Write, Commit(<<u>>) \/ Enqueue(<<u>>),
                 (\A d \in Dates : u.doc # datecount(d)) \/ CountWrite(u)
          PROVE  v \in Pending \/ (\A d \in Dates : v.doc # datecount(d)) \/ CountWrite(v)
      BY <1>0, <3>2, PendingAnd
    <3> QED BY <1>c, <3>1, <3>2
  <2> HIDE DEF LoadedDates
  <2> QED BY <1>c, <2>1, <2>2, <2>3 DEF CountMove
<1>1. CASE ListStep
  <2>0. dates' = dates
    BY <1>1 DEF ListStep, historyVars, pagerVars
  <2>1. CASE HomeStep \/ logout \/ login \/ DayPasses
    <3>1. /\ UNCHANGED <<srv, vms, committed>>
          /\ \A v \in Pending' : \E w \in Pending : w.doc = v.doc /\ w.val = v.val
          /\ \/ dateCounts' = dateCounts
             \/ dateCounts' = loadGoodsCountForDate
             \/ dateCounts' = [d \in Dates |-> 0]
      BY <1>0, <2>1, OtherEffect DEF OtherStep
    <3> QED BY <2>0, <3>1 DEF CountMove
  <2>2. CASE ListOpens
    BY <1>b, <2>0, <2>2 DEF ListOpens, fsVars, homeVars, editVars
  <2>3. ASSUME NEW o \in DOMAIN vms, dismiss(o)
        PROVE  CountMove
    BY <1>b, <2>0, <2>3 DEF dismiss, fsVars, homeVars, editVars
  <2>4. ASSUME NEW o \in DOMAIN vms, NEW v \in Write, ListTap(o, v)
        PROVE  CountMove
    <3>1. /\ HomeWaits /\ vms' = vms /\ committed' = committed /\ Enqueue(<<v>>)
      BY <2>4 DEF ListTap, Submit
    <3>2. \A d \in Dates : v.doc # datecount(d)
      BY <1>a, <2>4 DEF ListTap
    <3> QED BY <1>c, <2>0, <3>1, <3>2
  <2>5. CASE ListSettled
    <3>1. /\ HomeWaits /\ vms' = vms
          /\ committed' = committed \/ (Owner \in DOMAIN vms /\ committed' = committed \cup {Owner})
      BY <2>5 DEF ListSettled, ListReported, ListNext, Report, screenVars
    <3>2. CASE Commit(<<>>) \/ Refuse
      BY <1>c, <2>0, <3>1, <3>2
    <3>3. ASSUME NEW v \in Write, Commit(<<v>>), ListNext(v), Owner \in DOMAIN vms,
                 Head(queue).done.step # "addGoods" => vms[Owner].item \in Items
          PROVE  CountMove
      <4>1. (\A d \in Dates : v.doc # datecount(d)) \/ CountWrite(v)
        BY <1>a, <3>3 DEF ListNext, CountWrite
      <4> QED BY <1>c, <2>0, <3>1, <3>3, <4>1
    <3> QED BY <2>5, <3>2, <3>3 DEF ListSettled, ListReported
  <2>6. CASE GoodsStep
    <3>1. CASE UserTaps
      BY <1>0, <2>2, <2>3, <2>4, <3>1, ListTapForms
    <3>2. CASE SettleWrite
      BY <1>0, <2>5, <3>2, ListSettles
    <3> QED BY <2>6, <3>1, <3>2 DEF GoodsStep
  <2> QED BY <1>1, <2>1, <2>6 DEF ListStep
<1>2. CASE RestartAll
  <2>1. Restart /\ dates' = <<>>
    BY <1>2 DEF RestartAll, HistoryGone
  <2>2. /\ UNCHANGED <<srv, vms, committed>>
        /\ \A v \in Pending' : \E w \in Pending : w.doc = v.doc /\ w.val = v.val
        /\ \/ dateCounts' = dateCounts
           \/ dateCounts' = loadGoodsCountForDate
           \/ dateCounts' = [d \in Dates |-> 0]
    BY <1>0, <2>1, OtherEffect DEF OtherStep
  <2> QED BY <2>1, <2>2 DEF CountMove
<1>3. CASE HistoryStep
  <2>1. UNCHANGED <<srv, queue, dateCounts, committed>>
    BY <1>0, <1>3, HistoryQuiet DEF homeVars, editVars
  <2>2. dates' \in {dates, <<>>, LoadedDates}
    BY <1>3 DEF HistoryStep, HistoryTaps, HistoryLoads, history, dismissHistory, HistoryGone, scroll,
       didSelectRowAt, historyVars, pagerVars, historyLoadSucceeds, historyLoadFails, cellForItemAt,
       fetchSucceeds, fetchFails
  <2>3. HistoryMove
    BY <1>0, <1>3, HistoryScreens
  <2>4. \/ vms' = vms
        \/ \E vm \in ViewModel :
             /\ Present(vm)
             /\ \/ vm.date = today /\ vm.count \in {0, dateCounts[today]} /\ vm.kind # "editBought"
                \/ \E n \in 1 .. Len(dates) : vm.date = dates[n].date /\ vm.count = dates[n].count
    BY <2>3 DEF HistoryMove
  <2> HIDE DEF LoadedDates
  <2> QED BY <1>b, <2>1, <2>2, <2>4
<1>4. CASE BoughtStep
  <2>1. ASSUME NEW o \in DOMAIN vms, dismissBought(o)
        PROVE  CountMove
    BY <1>b, <2>1 DEF dismissBought, CloseAndTell, Close, fsVars, homeVars, editVars, pagerVars
  <2>2. ASSUME NEW o \in DOMAIN vms, NEW v \in Write, BoughtTap(o, v)
        PROVE  CountMove
    <3>1. HomeWaits /\ vms' = vms /\ committed' = committed /\ Enqueue(<<v>>) /\ dates' = dates
      BY <2>2 DEF BoughtTap, SubmitBought, Submit, editVars, historyVars, pagerVars
    <3>2. \A d \in Dates : v.doc # datecount(d)
      BY <1>a, <2>2 DEF BoughtTap
    <3> QED BY <1>c, <3>1, <3>2
  <2>3. CASE BoughtSettled
    <3>1. HomeWaits /\ vms' = vms /\ committed' = committed /\ dates' = dates
      BY <2>3 DEF BoughtSettled, BoughtWaits, ReportBought, CloseAndTell, Close, screenVars, editVars,
         pagerVars
    <3>2. CASE Commit(<<>>) \/ Refuse
      BY <1>c, <3>1, <3>2
    <3>3. ASSUME NEW v \in Write, Commit(<<v>>), BoughtNext(v)
          PROVE  CountMove
      <4>1. Head(queue) \in Pending
        BY <1>0, <3>3, PendingAnd
      <4>2. /\ Owner \in DOMAIN vms /\ vms[Owner].kind = "editBought" /\ vms[Owner].item \in Items
        BY <1>0, <2>3, <4>1, WaitingKinds DEF BoughtSettled, Owner
      <4>3. (\A d \in Dates : v.doc # datecount(d)) \/ CountWrite(v)
        BY <1>a, <3>3, <4>2 DEF BoughtNext, CountWrite
      <4> QED BY <1>c, <3>1, <3>3, <4>3
    <3> QED BY <2>3, <3>2, <3>3 DEF BoughtSettled
  <2> QED BY <1>4, <2>1, <2>2, <2>3, BoughtForms
<1>5. CASE UNCHANGED buyLogVars
  BY <1>5, <1>b DEF buyLogVars, vars, fsVars, homeVars, editVars, screenVars, historyVars, pagerVars
<1> QED BY <1>1, <1>2, <1>3, <1>4, <1>5 DEF BuyLogNext

\* What the device reads is within the bounds of what is stored and pending.
LEMMA LoadedWithin ==
  ASSUME FsTypeOK, NEW d \in Dates, CountsWithin(d)
  PROVE  loadGoodsCountForDate[d] \in 0 .. Cover(d)
<1>1. \/ LocalView(datecount(d)) = srv[datecount(d)]
      \/ \E n \in DOMAIN queue :
           queue[n].doc = datecount(d) /\ LocalView(datecount(d)) = queue[n].val
  BY LocalViewOrigin DEF FsTypeOK
<1>2. CountIn(LocalView(datecount(d))) \in 0 .. Cover(d)
  BY <1>1 DEF CountsWithin, Pending, Range
<1> QED BY <1>2 DEF loadGoodsCountForDate

LEMMA CountsWithinStep ==
  ASSUME LogInv, LogCounts, [BuyLogNext]_buyLogVars
  PROVE  LogCounts'
<1>0. /\ TypeInv /\ FsTypeOK /\ ScreensTypeOK /\ HistoryTypeOK /\ CountMove
      /\ committed \in SUBSET DOMAIN vms /\ dates \in Seq(DateCount)
      /\ today \in Dates /\ dateCounts \in [Dates -> Int]
  BY CountMoves DEF LogInv, TypeInv, TypeOK, HistoryTypeOK, EditTypeOK, HomeTypeOK
<1>a. \A o \in DOMAIN vms : vms[o] \in ViewModel /\ vms[o].count \in Int /\ vms[o].date \in Dates
  <2>1. \A o \in DOMAIN vms : vms[o] \in ViewModel
    BY <1>0, ViewModelsDomain, ElementOfSeq DEF ScreensTypeOK
  <2> QED BY <2>1 DEF ViewModel
<1>b. LoadedDates \in Seq(DateCount) /\ \A n \in 1 .. Len(LoadedDates) :
        LoadedDates[n].count = loadGoodsCountForDate[LoadedDates[n].date]
  BY <1>0, LoadedDatesType
<1> SUFFICES ASSUME NEW d \in Dates PROVE CountsWithin(d)'
  BY DEF LogCounts
<1> DEFINE c == Cover(d)
           c1 == Cover(d)'
<1>c. CountsWithin(d)
  BY DEF LogCounts
<1>d. \A o \in DOMAIN vms : vms'[o] = vms[o]
  BY NewWrites
<1>e. /\ c \in Nat /\ c1 \in Nat /\ c <= c1
      /\ \/ committed' = committed
         \/ /\ Owner \in DOMAIN vms /\ committed' = committed \cup {Owner} /\ vms' = vms
            /\ vms[Owner].date = d /\ Owner \notin committed => c1 = c + 1
  <2>1. Cardinality(BoughtBeforeOn(d)) \in Nat /\ Cardinality(CommittedOn(d)) \in Nat
    BY <1>0, BoughtBeforeFinite, CommittedFinite
  <2>2. c = Cardinality(BoughtBeforeOn(d)) + Cardinality(CommittedOn(d))
    BY DEF Cover
  <2>3. c1 = Cardinality(BoughtBeforeOn(d)) + Cardinality(CommittedOn(d)')
    BY DEF Cover, BoughtBeforeOn
  <2>4. CASE committed' = committed
    <3>1. CommittedOn(d)' = CommittedOn(d)
      BY <1>0, <1>d, <2>4, SameCover
    <3>2. c1 = c
      BY <2>2, <2>3, <3>1
    <3>3. c \in Nat
      BY <2>1, <2>2
    <3> HIDE DEF c, c1
    <3> QED BY <2>4, <3>2, <3>3
  <2>5. CASE vms' = vms /\ Owner \in DOMAIN vms /\ committed' = committed \cup {Owner}
    <3>0. PICK p \in DOMAIN vms : p = Owner
      BY <2>5
    <3>1. /\ Cardinality(CommittedOn(d)') \in Nat
          /\ Cardinality(CommittedOn(d)) <= Cardinality(CommittedOn(d)')
          /\ vms[p].date = d /\ p \notin committed =>
               Cardinality(CommittedOn(d)') = Cardinality(CommittedOn(d)) + 1
      BY <1>0, <2>5, <3>0, GrownCover
    <3> DEFINE x == Cardinality(BoughtBeforeOn(d))
               y == Cardinality(CommittedOn(d))
               z == Cardinality(CommittedOn(d)')
    <3>2. /\ x \in Nat /\ y \in Nat /\ z \in Nat /\ y <= z /\ c = x + y /\ c1 = x + z
          /\ vms[p].date = d /\ p \notin committed => z = y + 1
      BY <2>1, <2>2, <2>3, <3>1
    <3> HIDE DEF x, y, z, c, c1
    <3>3. c \in Nat /\ c1 \in Nat /\ c <= c1 /\ (vms[p].date = d /\ p \notin committed => c1 = c + 1)
      BY <3>2
    <3> QED BY <2>5, <3>0, <3>3
  <2> QED BY <1>0, <2>4, <2>5 DEF CountMove
<1>f. /\ CountIn(srv[datecount(d)]) \in 0 .. c
      /\ dateCounts[d] \in 0 .. c
      /\ \A w \in Pending : w.doc = datecount(d) => CountIn(w.val) \in 0 .. c
      /\ \A o \in DOMAIN vms : vms[o].date = d =>
           /\ vms[o].count >= IF vms[o].kind = "editBought" THEN 1 ELSE 0
           /\ vms[o].count + (IF o \in committed THEN 1 ELSE 0) <= c
      /\ \A n \in 1 .. Len(dates) : dates[n].date = d => dates[n].count <= c
  BY <1>c DEF CountsWithin
<1>g. loadGoodsCountForDate[d] \in 0 .. c
  BY <1>0, <1>c, LoadedWithin
<1>h. ASSUME NEW v, v \in 0 .. c
      PROVE  v \in 0 .. c1
  <2> HIDE DEF c, c1
  <2> QED BY <1>e, <1>h
<1>1. CountIn(srv'[datecount(d)]) \in 0 .. c1
  <2>1. CountIn(srv'[datecount(d)]) \in 0 .. c
    <3>1. CASE srv' = srv
      BY <1>f, <3>1
    <3>2. ASSUME NEW w \in Pending, srv' = [srv EXCEPT ![w.doc] = w.val]
          PROVE  CountIn(srv'[datecount(d)]) \in 0 .. c
      <4>1. srv'[datecount(d)] = IF w.doc = datecount(d) THEN w.val ELSE srv[datecount(d)]
        BY <1>0, <3>2, CountDocs DEF FsTypeOK
      <4> HIDE DEF c
      <4> QED BY <1>f, <4>1
    <3> QED BY <1>0, <3>1, <3>2 DEF CountMove
  <2> HIDE DEF c, c1
  <2> QED BY <1>h, <2>1
<1>2. dateCounts'[d] \in 0 .. c1
  <2>1. dateCounts'[d] \in 0 .. c
    <3>1. 0 \in 0 .. c
      BY <1>e
    <3> HIDE DEF c, loadGoodsCountForDate
    <3> QED BY <1>0, <1>f, <1>g, <3>1 DEF CountMove
  <2> HIDE DEF c, c1
  <2> QED BY <1>h, <2>1
<1>3. ASSUME NEW o \in DOMAIN vms, vms[o].date = d
      PROVE  /\ vms[o].count >= IF vms[o].kind = "editBought" THEN 1 ELSE 0
             /\ vms[o].count + (IF o \in committed' THEN 1 ELSE 0) <= c1
  <2>1. /\ vms[o].count >= IF vms[o].kind = "editBought" THEN 1 ELSE 0
        /\ vms[o].count + (IF o \in committed THEN 1 ELSE 0) <= c
        /\ vms[o].count \in Int
    BY <1>3, <1>a, <1>f
  <2> HIDE DEF c, c1
  <2>2. CASE o \in committed \/ o \notin committed'
    <3>1. (IF o \in committed' THEN 1 ELSE 0) = (IF o \in committed THEN 1 ELSE 0)
      BY <1>e, <2>2
    <3> QED BY <1>e, <2>1, <3>1
  <2>3. CASE o \notin committed /\ o \in committed'
    <3>1. o = Owner /\ c1 = c + 1
      BY <1>3, <1>e, <2>3
    <3> QED BY <1>e, <2>1, <2>3, <3>1
  <2> QED BY <2>2, <2>3
<1>4. ASSUME NEW v \in Pending', v.doc = datecount(d)
      PROVE  CountIn(v.val) \in 0 .. c1
  <2>1. ASSUME NEW w \in Pending, w.doc = v.doc, w.val = v.val
        PROVE  CountIn(v.val) \in 0 .. c1
    <3>1. CountIn(v.val) \in 0 .. c
      BY <1>4, <1>f, <2>1
    <3> HIDE DEF c, c1
    <3> QED BY <1>h, <3>1
  <2>2. CASE CountWrite(v)
    <3>1. PICK p \in DOMAIN vms : p = Owner
      BY <2>2 DEF CountWrite
    <3>2. vms[p].date = d
      BY <1>4, <2>2, <3>1 DEF CountWrite, datecount
    <3>3. \/ v.val = vms[p].count + 1 /\ p \in committed'
          \/ v.val = vms[p].count - 1 /\ vms[p].kind = "editBought"
      BY <2>2, <3>1 DEF CountWrite
    <3>4. /\ vms[p].count >= IF vms[p].kind = "editBought" THEN 1 ELSE 0
          /\ vms[p].count + (IF p \in committed' THEN 1 ELSE 0) <= c1
          /\ vms[p].count \in Int
      BY <1>3, <1>a, <3>2
    <3> HIDE DEF c, c1
    <3>5. v.val \in 0 .. c1
      BY <1>e, <3>3, <3>4
    <3>6. v.val # Absent
      BY <3>5, <1>e, GoodsModelAssumption
    <3> QED BY <3>5, <3>6 DEF CountIn
  <2> QED BY <1>0, <1>4, <2>1, <2>2 DEF CountMove
<1>5. ASSUME NEW n \in 1 .. Len(dates'), dates'[n].date = d
      PROVE  dates'[n].count <= c1
  <2>0. ASSUME NEW v \in Int, v <= c
        PROVE  v <= c1
    <3> HIDE DEF c, c1
    <3> QED BY <1>e, <2>0
  <2>1. CASE dates' = dates
    <3>1. dates[n] \in DateCount /\ dates[n].count <= c
      BY <1>0, <1>5, <1>f, <2>1, ElementOfSeq
    <3>2. dates[n].count \in Int
      BY <3>1 DEF DateCount
    <3> HIDE DEF c, c1
    <3> QED BY <2>0, <2>1, <3>1, <3>2
  <2>2. CASE dates' = <<>>
    <3>1. Len(dates') = 0
      BY <2>2
    <3> QED BY <1>5, <3>1
  <2>3. CASE dates' = LoadedDates
    <3>1. dates'[n].count = loadGoodsCountForDate[d]
      BY <1>5, <1>b, <2>3
    <3> HIDE DEF c, c1, loadGoodsCountForDate
    <3> QED BY <1>e, <1>g, <2>0, <3>1
  <2> HIDE DEF c, c1, LoadedDates
  <2> QED BY <1>0, <2>1, <2>2, <2>3 DEF CountMove
<1>6. ASSUME NEW o \in DOMAIN vms', vms'[o].date = d
      PROVE  /\ vms'[o].count >= IF vms'[o].kind = "editBought" THEN 1 ELSE 0
             /\ vms'[o].count + (IF o \in committed' THEN 1 ELSE 0) <= c1
  <2>1. CASE o \in DOMAIN vms
    BY <1>3, <1>6, <1>d, <2>1
  <2>2. CASE o \notin DOMAIN vms
    <3>1. PICK vm \in ViewModel :
            /\ Present(vm) /\ committed' = committed
            /\ \/ vm.date = today /\ vm.count \in {0, dateCounts[today]} /\ vm.kind # "editBought"
               \/ \E n \in 1 .. Len(dates) : vm.date = dates[n].date /\ vm.count = dates[n].count
      BY <1>0, <1>6, <2>2 DEF CountMove
    <3>2. vms'[o] = vm
      BY <1>0, <1>6, <2>2, <3>1, Presented
    <3>3. o \notin committed'
      BY <1>0, <2>2, <3>1
    <3>4. CASE vm.date = today /\ vm.count \in {0, dateCounts[today]} /\ vm.kind # "editBought"
      <4>1. vm.count \in {0, dateCounts[d]}
        BY <1>6, <3>2, <3>4
      <4>2. dateCounts[d] \in 0 .. c
        BY <1>f
      <4> HIDE DEF c, c1
      <4>3. vm.count \in Int /\ vm.count >= 0 /\ vm.count <= c1
        BY <1>e, <4>1, <4>2
      <4> QED BY <3>2, <3>3, <3>4, <4>3
    <3>5. ASSUME NEW n \in 1 .. Len(dates), vm.date = dates[n].date, vm.count = dates[n].count
          PROVE  /\ vms'[o].count >= IF vms'[o].kind = "editBought" THEN 1 ELSE 0
                 /\ vms'[o].count + (IF o \in committed' THEN 1 ELSE 0) <= c1
      <4>1. dates[n].count <= c
        BY <1>6, <1>f, <3>2, <3>5
      <4>a. dates[n] \in DateCount
        BY <1>0, ElementOfSeq
      <4>2. dates[n].count \in Nat \ {0}
        BY <4>a DEF DateCount
      <4> HIDE DEF c, c1
      <4>3. vm.count \in Int /\ vm.count >= 1 /\ vm.count <= c1
        BY <1>e, <3>5, <4>1, <4>2
      <4> QED BY <3>2, <3>3, <4>3
    <3> QED BY <3>1, <3>4, <3>5
  <2> QED BY <2>1, <2>2
<1> QED BY <1>1, <1>2, <1>4, <1>5, <1>6 DEF CountsWithin

LEMMA CountsWithinInit == BuyLogInit => LogCounts
<1> SUFFICES ASSUME BuyLogInit, NEW d \in Dates PROVE CountsWithin(d)
  BY DEF LogCounts
<1> DEFINE x == Cardinality(BoughtBeforeOn(d))
<1>1. /\ srv = [doc \in Docs |-> StoredBefore(doc)] /\ Pending = {} /\ vms = <<>> /\ dates = <<>>
      /\ dateCounts[d] = 0 /\ committed = {}
  BY DEF BuyLogInit, Launched, HistoryInit, Pending, Range
<1>2. Cover(d) = x + 0 /\ x \in Nat
  <2>1. CommittedOn(d) = {}
    BY <1>1 DEF CommittedOn
  <2>2. Cardinality(CommittedOn(d)) = 0
    BY <2>1, FS_EmptySet
  <2> QED BY <2>2, BoughtBeforeFinite DEF Cover
<1>3. srv[datecount(d)] \in {Absent, x}
  BY <1>1, StoredDocs, CountDocs
<1> HIDE DEF x
<1>4. CountIn(srv[datecount(d)]) \in 0 .. x
  BY <1>2, <1>3 DEF CountIn
<1>5. Len(dates) = 0 /\ DOMAIN vms = {}
  BY <1>1
<1> QED BY <1>1, <1>2, <1>4, <1>5 DEF CountsWithin

\* Whatever two screens captured and in whatever order their writes arrive:
\* a day's count, as the device reads it, stays between zero and what the
\* earlier session left plus the screens of that day told of a delete.
THEOREM DayCountsAreWithin == BuyLogSpec => []DayCountWithin
<1>1. LogInv /\ LogCounts => DayCountWithin
  <2> SUFFICES ASSUME LogInv, LogCounts, NEW d \in Dates
               PROVE  /\ 0 <= loadGoodsCountForDate[d]
                      /\ loadGoodsCountForDate[d] <= Cover(d)
    BY DEF DayCountWithin, Cover
  <2>0. FsTypeOK /\ CountsWithin(d) /\ TypeInv
    BY DEF LogInv, TypeInv, TypeOK, LogCounts
  <2>1. loadGoodsCountForDate[d] \in 0 .. Cover(d)
    BY <2>0, LoadedWithin
  <2>2. Cover(d) \in Nat
    BY <2>0, BoughtBeforeFinite, CommittedFinite DEF Cover
  <2> HIDE DEF loadGoodsCountForDate
  <2> QED BY <2>1, <2>2
<1>2. LogInv /\ LogCounts /\ [BuyLogNext]_buyLogVars => LogCounts'
  BY CountsWithinStep
<1> QED BY <1>1, <1>2, CountsWithinInit, LogInvHolds, PTL DEF BuyLogSpec

-----------------------------------------------------------------------------
(* History has a page a day at most.                                       *)

LEMMA PagesAreDays ==
  ASSUME LogInv, Len(dates) <= MaxDay, [BuyLogNext]_buyLogVars
  PROVE  Len(dates') <= MaxDay
<1>1. dates' \in {dates, <<>>, LoadedDates}
  BY CountMoves DEF CountMove
<1>2. Len(LoadedDates) <= MaxDay
  BY LoadedDatesType DEF LogInv, TypeInv, TypeOK
<1>3. Len(<<>>) <= MaxDay
  BY GoodsModelAssumption
<1> HIDE DEF LoadedDates
<1> QED BY <1>1, <1>2, <1>3

\* On as many days as fit, History remembers the row it shows, and the row
\* leaves the pages it has only when a load brings fewer of them.
THEOREM PagerFollowsOnFewDays ==
  ASSUME 40 * (MaxDay - 1) < ViewWidth
  PROVE  BuyLogSpec => []PagerFollows /\ IndexKept
<1>1. BuyLogInit => Len(dates) <= MaxDay
  BY GoodsModelAssumption DEF BuyLogInit, HistoryInit
<1>2. LogInv /\ Len(dates) <= MaxDay => PagesFit
  <2> SUFFICES ASSUME LogInv, Len(dates) <= MaxDay, NEW k \in Rows(dates)
               PROVE  40 * k < ViewWidth
    BY DEF PagesFit
  <2>1. Len(dates) \in Nat /\ MaxDay \in Nat /\ ViewWidth \in Nat
    BY LenProperties, GoodsModelAssumption, HistoryScreenAssumption DEF LogInv, HistoryTypeOK
  <2> QED BY <2>1 DEF Rows
<1>3. LogInv /\ Len(dates) <= MaxDay /\ [BuyLogNext]_buyLogVars => (Len(dates) <= MaxDay)'
  BY PagesAreDays
<1> QED BY <1>1, <1>2, <1>3, LogInvHolds, PagerFollowsIfPagesFit, IndexIsKept, PTL DEF BuyLogSpec

-----------------------------------------------------------------------------
(* The way back from the purchases to the list: what each item's writes    *)
(* may find stored, with the chains of EditBoughtGoods running too.        *)

\* The items whose purchase was never asked to be reverted: as in
\* ShoppingList they are added once.
Unreverted == {i \in Items : "revert" \notin asked[i]}

\* A pending delete was asked for, or the item it takes off the list is
\* stored as bought; only a reversal goes on to list its item again.
AskedFor(w) ==
  /\ \A i \in Items :
       /\ w.doc = boughtgoods(i) /\ w.val = Absent => asked[i] # {}
       /\ w.doc = goods(i) /\ w.val = Absent => Bought(i) \/ i \in dropped \/ asked[i] # {}
  /\ w.done.step = "revertBoughtGoods" => "revert" \in asked[vms[w.done.owner].item]

LogItems ==
  /\ Drawn /\ \A d \in Dates : pageGoods[d] \subseteq used
  /\ ListedOnce(Unreverted)
  /\ \A w \in Pending : AskedFor(w)

\* A tap queues one write about one item.
LogTapped(w, i) ==
  /\ queue' = queue \o <<w>>
  /\ srv' = srv /\ UNCHANGED <<vms, homeGoods, pageGoods>>
  /\ \/ /\ i \notin used /\ AddOf(w, i) /\ w.done.step = "addGoods"
        /\ used' = used \cup {i} /\ UNCHANGED <<dropped, asked>>
     \/ /\ i \in used /\ w.doc = boughtgoods(i) /\ w.val # Absent
        /\ w.done.step \in {"addBoughtGoods", "updateBoughtGoods"}
        /\ UNCHANGED <<used, dropped, asked>>
     \/ /\ i \in used /\ w.doc = goods(i) /\ w.val = Absent /\ w.done.step = "deleteGoods"
        /\ dropped' = dropped \cup {i} /\ UNCHANGED <<used, asked>>
     \/ /\ i \in used /\ w.doc = boughtgoods(i) /\ w.val = Absent
        /\ UNCHANGED <<used, dropped>>
        /\ \E what \in {"delete", "revert"} :
             /\ asked' = [asked EXCEPT ![i] = @ \cup {what}]
             /\ w.done.step = IF what = "delete" THEN "deleteBoughtGoods" ELSE "revertBoughtGoods"
             /\ w.done.owner \in DOMAIN vms /\ vms[w.done.owner].item = i

\* The write a settled one is followed by: the delete of an item just stored
\* as bought, the item of a reverted purchase, or a count.
LogFollows(w) ==
  /\ w.done.step \in {"deleteGoods", "updateDateCount", "revertAddGoods", "updateBoughtCount"}
  /\ Head(queue).done.step = "revertBoughtGoods" =>
       \E i \in Items : Head(queue).doc = boughtgoods(i) /\ AddOf(w, i)
  /\ \/ \E i \in Items : /\ Head(queue).doc = boughtgoods(i) /\ Head(queue).val # Absent
                         /\ w.doc = goods(i) /\ w.val = Absent
     \/ \E i \in Items : /\ Head(queue).doc = boughtgoods(i) /\ "revert" \in asked[i]
                         /\ AddOf(w, i)
     \/ \A i \in Items : w.doc \notin DocsOf(i)

LogSettled ==
  /\ UNCHANGED <<vms, homeGoods, pageGoods, used, dropped, asked>>
  /\ \/ Refuse
     \/ Commit(<<>>) /\ (Head(queue).done.step = "revertBoughtGoods" => ~signedIn')
     \/ \E w \in Write : Commit(<<w>>) /\ LogFollows(w)

\* The other steps move no write: they open screens on items that are shown,
\* load, and forget callbacks.
LogElsewhere ==
  /\ UNCHANGED <<srv, used, dropped, asked>>
  /\ queue' = queue \/ (LoseCallbacks /\ restarts' # restarts)
  /\ \A o \in DOMAIN vms' :
       \/ o \in DOMAIN vms /\ vms'[o] = vms[o]
       \/ vms'[o].item \in Items => vms'[o].item \in used
  /\ \A o \in DOMAIN vms : o \in DOMAIN vms' /\ vms'[o] = vms[o]
  /\ homeGoods' \subseteq used
  /\ \A d \in Dates : pageGoods'[d] \subseteq used

LogItemMove ==
  \/ LogElsewhere
  \/ \E w \in Write, i \in Items : LogTapped(w, i)
  \/ LogSettled

\* What the device reads of the purchases was drawn before.
LEMMA FetchedDrawn ==
  ASSUME FsTypeOK, Drawn, NEW d \in Dates
  PROVE  fetchBoughtGoods(d) \subseteq used
<1> SUFFICES ASSUME NEW i \in Items, i \notin used, LocalView(boughtgoods(i)) = d
             PROVE  FALSE
  BY DEF fetchBoughtGoods
<1>1. srv[boughtgoods(i)] = Absent /\ \A n \in DOMAIN queue : queue[n].doc # boughtgoods(i)
  BY DEF Drawn, Bought, Pending, Range, DocsOf
<1>2. LocalView(boughtgoods(i)) = Absent
  BY <1>1, LocalViewOrigin DEF FsTypeOK
<1>3. Absent \notin Dates
  BY GoodsModelAssumption DEF Dates
<1> QED BY <1>2, <1>3

LEMMA LogItemMoves ==
  ASSUME LogInv, LogItems, [BuyLogNext]_buyLogVars
  PROVE  LogItemMove
<1>0. /\ TypeInv /\ UserAtHome /\ WritesMatch /\ FsTypeOK /\ ScreensTypeOK
      /\ HistoryTypeOK /\ ScreenStack /\ HistoryOpen /\ today \in Dates
      /\ Drawn /\ \A d \in Dates : pageGoods[d] \subseteq used
      /\ pageGoods \in [Dates -> SUBSET Items]
  BY DEF LogInv, TypeInv, TypeOK, HomeTypeOK, LogItems, HistoryTypeOK
<1>a. /\ homeGoods \subseteq used /\ loadGoods \subseteq used
      /\ \A o \in DOMAIN vms : vms[o].item \in Items => vms[o].item \in used
  BY <1>0, LoadedDrawn DEF Drawn
<1>b. Absent \notin Dates /\ GoodsData # Absent
  BY GoodsModelAssumption DEF Dates
<1>c. ASSUME UNCHANGED <<srv, used, dropped, asked>>,
             queue' = queue \/ (LoseCallbacks /\ restarts' # restarts),
             homeGoods' \in {homeGoods, {}, loadGoods},
             \/ pageGoods' = pageGoods
             \/ \A d \in Dates : pageGoods'[d] \subseteq used,
             \/ vms' = vms
             \/ \E vm \in ViewModel : Present(vm) /\ (vm.item \in Items => vm.item \in used)
      PROVE  LogItemMove
  <2>1. /\ \A o \in DOMAIN vms' :
             \/ o \in DOMAIN vms /\ vms'[o] = vms[o]
             \/ vms'[o].item \in Items => vms'[o].item \in used
        /\ \A o \in DOMAIN vms : o \in DOMAIN vms' /\ vms'[o] = vms[o]
    <3>1. ASSUME NEW vm \in ViewModel, Present(vm), vm.item \in Items => vm.item \in used
          PROVE  /\ \A o \in DOMAIN vms' :
                      \/ o \in DOMAIN vms /\ vms'[o] = vms[o]
                      \/ vms'[o].item \in Items => vms'[o].item \in used
                 /\ \A o \in DOMAIN vms : o \in DOMAIN vms' /\ vms'[o] = vms[o]
      <4>1. /\ DOMAIN vms' = DOMAIN vms \cup {Len(vms) + 1}
            /\ \A o \in DOMAIN vms : o \in DOMAIN vms' /\ vms'[o] = vms[o]
            /\ vms'[Len(vms) + 1] = vm
        BY <1>0, <3>1, Presented
      <4> QED BY <3>1, <4>1
    <3> QED BY <1>c, <3>1
  <2>2. homeGoods' \subseteq used /\ \A d \in Dates : pageGoods'[d] \subseteq used
    <3> HIDE DEF loadGoods
    <3> QED BY <1>0, <1>a, <1>c
  <2> QED BY <1>c, <2>1, <2>2 DEF LogItemMove, LogElsewhere
<1>d. ASSUME NEW o \in DOMAIN vms, NEW w \in Write, Submit(o, <<w>>)
      PROVE  queue' = queue \o <<w>> /\ srv' = srv /\ UNCHANGED <<vms, homeGoods>>
  BY <1>d DEF Submit, Enqueue, HomeWaits
<1>1. CASE ListStep
  <2>0. UNCHANGED <<pageGoods, asked>>
    BY <1>1 DEF ListStep, historyVars, boughtVars
  <2>1. CASE HomeStep
    <3>1. UNCHANGED <<srv, queue, vms, used, dropped>>
      BY <1>0, <2>1, HomeStepType DEF editVars
    <3>2. homeGoods' \in {homeGoods, loadGoods}
      BY <2>1 DEF HomeStep, HomeNext, observeGoodsData, loadGoodsSucceeds, loadGoodsFails,
         loadCountsSucceeds, loadCountsFails
    <3> QED BY <2>0, <3>1, <3>2, <1>c
  <2>2. CASE logout \/ login
    BY <2>0, <2>2, <1>c DEF logout, login, HomeGone, HomeAppears, BlankHome, fsVars, editVars
  <2>3. CASE DayPasses
    BY <2>0, <2>3, <1>c DEF DayPasses, fsVars, homeVars, editVars, screenVars
  <2>4. CASE ListOpens
    <3>1. UNCHANGED <<srv, queue, homeGoods, used, dropped>>
      BY <2>4 DEF ListOpens, fsVars, homeVars, editVars
    <3>2. \E vm \in ViewModel : Present(vm) /\ (vm.item \in Items => vm.item \in used)
      BY <1>a, <2>4 DEF ListOpens
    <3> QED BY <2>0, <3>1, <3>2, <1>c
  <2>5. ASSUME NEW o \in DOMAIN vms, dismiss(o)
        PROVE  LogItemMove
    BY <2>0, <2>5, <1>c DEF dismiss, fsVars, homeVars, editVars
  <2>6. ASSUME NEW o \in DOMAIN vms, NEW w \in Write, ListTap(o, w)
        PROVE  LogItemMove
    <3>1. queue' = queue \o <<w>> /\ srv' = srv /\ UNCHANGED <<vms, homeGoods>>
      BY <2>6, <1>d DEF ListTap
    <3>2. CASE \E i \in Items \ used :
                 /\ w.done.step = "addGoods" /\ w.doc = goods(i) /\ w.val = GoodsData
                 /\ used' = used \cup {i} /\ dropped' = dropped
      BY <1>b, <2>0, <3>1, <3>2 DEF LogTapped, LogItemMove, AddOf
    <3>3. CASE /\ w.done.step = "addBoughtGoods" /\ vms[o].item \in Items
               /\ w.doc = boughtgoods(vms[o].item) /\ w.val = today
               /\ used' = used /\ dropped' = dropped
      <4>1. vms[o].item \in used /\ w.val # Absent
        BY <1>0, <1>a, <1>b, <3>3
      <4> QED BY <2>0, <3>1, <3>3, <4>1 DEF LogTapped, LogItemMove
    <3>4. CASE /\ w.done.step = "deleteGoods" /\ vms[o].item \in Items
               /\ w.doc = goods(vms[o].item) /\ w.val = Absent
               /\ used' = used /\ dropped' = dropped \cup {vms[o].item}
      <4>1. vms[o].item \in used
        BY <1>a, <3>4
      <4> QED BY <2>0, <3>1, <3>4, <4>1 DEF LogTapped, LogItemMove
    <3> QED BY <2>6, <3>2, <3>3, <3>4 DEF ListTap
  <2>7. CASE ListSettled
    <3>1. UNCHANGED <<vms, homeGoods, used, dropped>>
      BY <2>7 DEF ListSettled, ListReported, Report, screenVars, HomeWaits
    <3>2. CASE Refuse \/ Commit(<<>>)
      <4>1. Head(queue).done.step # "revertBoughtGoods"
        BY <2>7 DEF ListSettled, ListSteps, Lost
      <4> QED BY <2>0, <3>1, <3>2, <4>1 DEF LogSettled, LogItemMove
    <3>3. ASSUME NEW w \in Write, Commit(<<w>>), ListNext(w), Head(queue).done # Lost,
                 Owner \in DOMAIN vms,
                 Head(queue).done.step # "addGoods" => vms[Owner].item \in Items
          PROVE  LogItemMove
      <4>1. Head(queue) \in Pending
        BY <1>0, <3>3, PendingAnd
      <4>2. StepWrites(Head(queue), vms[Owner])
        BY <1>0, <3>3, <4>1 DEF WritesMatch, Awaited, Owner
      <4>3. LogFollows(w)
        <5>1. CASE Head(queue).done.step = "addBoughtGoods"
          <6>1. /\ w.doc = goods(vms[Owner].item) /\ w.val = Absent /\ w.done.step = "deleteGoods"
                /\ vms[Owner].item \in Items
            BY <3>3, <5>1 DEF ListNext
          <6>2. Head(queue).doc = boughtgoods(vms[Owner].item) /\ Head(queue).val # Absent
            BY <1>b, <4>2, <5>1 DEF StepWrites
          <6> QED BY <5>1, <6>1, <6>2 DEF LogFollows
        <5>2. CASE Head(queue).done.step = "deleteGoods"
          <6>1. w.doc = datecount(vms[Owner].date) /\ w.done.step = "updateDateCount"
            BY <3>3, <5>2 DEF ListNext
          <6> QED BY <5>2, <6>1 DEF LogFollows, DocsOf, goods, boughtgoods, datecount
        <5> QED BY <3>3, <5>1, <5>2 DEF ListNext
      <4> QED BY <2>0, <3>1, <3>3, <4>3 DEF LogSettled, LogItemMove
    <3> QED BY <2>7, <3>2, <3>3 DEF ListSettled, ListReported
  <2>8. CASE GoodsStep
    <3>1. CASE UserTaps
      BY <1>0, <2>4, <2>5, <2>6, <3>1, ListTapForms
    <3>2. CASE SettleWrite
      BY <1>0, <2>7, <3>2, ListSettles
    <3> QED BY <2>8, <3>1, <3>2 DEF GoodsStep
  <2> QED BY <1>1, <2>1, <2>2, <2>3, <2>8 DEF ListStep
<1>2. CASE RestartAll
  <2>1. /\ LoseCallbacks /\ UNCHANGED <<srv, vms, used, dropped, asked>> /\ homeGoods' = {}
        /\ pageGoods' = [d \in Dates |-> {}]
    BY <1>2 DEF RestartAll, Restart, HomeGone, HomeAppears, BlankHome, editVars, HistoryGone,
       reloadData, LoseCallbacks
  <2>2. restarts' # restarts
    BY <1>0, <1>2 DEF RestartAll, Restart, TypeInv, TypeOK
  <2> QED BY <2>1, <2>2, <1>c
<1>3. CASE HistoryStep
  <2>1. UNCHANGED <<srv, queue, homeGoods, used, dropped, asked>>
    BY <1>0, <1>3, HistoryQuiet DEF homeVars, editVars, boughtVars
  <2>2. HistoryMove
    BY <1>0, <1>3, HistoryScreens
  <2>3. \/ vms' = vms
        \/ \E vm \in ViewModel : Present(vm) /\ (vm.item \in Items => vm.item \in used)
    <3>1. ASSUME NEW vm \in ViewModel, vm.kind = "history" PROVE vm.item \notin Items
      BY <3>1, GoodsModelAssumption DEF ViewModel
    <3>2. ASSUME NEW vm \in ViewModel, vm.item \in pageGoods[vm.date]
          PROVE  vm.item \in used
      <4>1. vm.date \in Dates
        BY DEF ViewModel
      <4> QED BY <1>0, <3>2, <4>1
    <3> QED BY <2>2, <3>1, <3>2 DEF HistoryMove
  <2>4. pageGoods' = pageGoods \/ \A d \in Dates : pageGoods'[d] \subseteq used
    <3>1. ASSUME NEW d \in Dates, fetchSucceeds(d) \/ fetchFails(d)
          PROVE  pageGoods' = pageGoods \/ \A e \in Dates : pageGoods'[e] \subseteq used
      <4>1. fetchBoughtGoods(d) \subseteq used
        BY <1>0, FetchedDrawn
      <4> HIDE DEF fetchBoughtGoods
      <4> QED BY <1>0, <3>1, <4>1 DEF fetchSucceeds, fetchFails
    <3>2. ASSUME NEW k \in Rows(dates), cellForItemAt(k)
          PROVE  pageGoods' = pageGoods \/ \A e \in Dates : pageGoods'[e] \subseteq used
      BY <1>0, <3>2 DEF cellForItemAt
    <3>3. CASE historyLoadSucceeds \/ historyLoadFails \/ HistoryTaps
      BY <3>3 DEF HistoryTaps, history, dismissHistory, HistoryGone, scroll, didSelectRowAt,
         historyVars, historyLoadSucceeds, historyLoadFails, reloadData
    <3> QED BY <1>3, <3>1, <3>2, <3>3 DEF HistoryStep, HistoryLoads
  <2> QED BY <2>1, <2>3, <2>4, <1>c
<1>4. CASE BoughtStep
  <2>1. ASSUME NEW o \in DOMAIN vms, dismissBought(o)
        PROVE  LogItemMove
    BY <2>1, <1>c DEF dismissBought, CloseAndTell, Close, fsVars, homeVars, editVars
  <2>2. ASSUME NEW o \in DOMAIN vms, NEW w \in Write, BoughtTap(o, w)
        PROVE  LogItemMove
    <3>1. /\ queue' = queue \o <<w>> /\ srv' = srv /\ UNCHANGED <<vms, homeGoods>>
          /\ UNCHANGED <<used, dropped, pageGoods>>
      BY <2>2, <1>d DEF BoughtTap, SubmitBought, editVars, historyVars
    <3>2. /\ vms[o].item \in Items /\ vms[o].item \in used /\ w.doc = boughtgoods(vms[o].item)
          /\ w.done.owner = o /\ vms[o].date \in Dates
      <4>1. vms[o] \in ViewModel
        BY <1>0, ViewModelsDomain, ElementOfSeq DEF ScreensTypeOK
      <4> QED BY <1>a, <2>2, <4>1 DEF BoughtTap, ViewModel
    <3>3. CASE w.done.step = "updateBoughtGoods" /\ w.val = vms[o].date /\ asked' = asked
      BY <1>b, <3>1, <3>2, <3>3 DEF LogTapped, LogItemMove
    <3>4. CASE /\ w.done.step = "deleteBoughtGoods" /\ w.val = Absent
               /\ asked' = [asked EXCEPT ![vms[o].item] = @ \cup {"delete"}]
      BY <3>1, <3>2, <3>4 DEF LogTapped, LogItemMove
    <3>5. CASE /\ w.done.step = "revertBoughtGoods" /\ w.val = Absent
               /\ asked' = [asked EXCEPT ![vms[o].item] = @ \cup {"revert"}]
      BY <3>1, <3>2, <3>5 DEF LogTapped, LogItemMove
    <3> QED BY <2>2, <3>3, <3>4, <3>5 DEF BoughtTap
  <2>3. CASE BoughtSettled
    <3>1. UNCHANGED <<vms, homeGoods, pageGoods, used, dropped, asked>>
      BY <2>3 DEF BoughtSettled, BoughtWaits, HomeWaits, ReportBought, CloseAndTell, Close,
         screenVars, editVars
    <3>2. CASE \/ Refuse
               \/ /\ Commit(<<>>)
                  /\ ~signedIn \/ Head(queue).done.step \in {"updateBoughtGoods", "updateBoughtCount"}
      <4>1. signedIn' = signedIn
        BY <1>4 DEF BoughtStep
      <4> QED BY <3>1, <3>2, <4>1 DEF LogSettled, LogItemMove
    <3>3. ASSUME NEW w \in Write, Commit(<<w>>), BoughtNext(w)
          PROVE  LogItemMove
      <4>1. Head(queue) \in Pending
        BY <1>0, <3>3, PendingAnd
      <4>2. /\ StepWrites(Head(queue), vms[Owner]) /\ vms[Owner].item \in Items
            /\ AskedFor(Head(queue))
        BY <1>0, <2>3, <4>1 DEF WritesMatch, Awaited, Owner, BoughtSettled, LogItems
      <4>3. LogFollows(w)
        <5>1. CASE /\ w.doc = datecount(vms[Owner].date) /\ w.done.step = "updateBoughtCount"
                   /\ Head(queue).done.step # "revertBoughtGoods"
          BY <5>1 DEF LogFollows, DocsOf, goods, boughtgoods, datecount
        <5>2. CASE /\ Head(queue).done.step = "revertBoughtGoods" /\ w.done.step = "revertAddGoods"
                   /\ w.doc = goods(vms[Owner].item) /\ w.val = GoodsData
          <6>1. Head(queue).doc = boughtgoods(vms[Owner].item)
            BY <4>2, <5>2 DEF StepWrites
          <6>2. "revert" \in asked[vms[Owner].item]
            BY <4>2, <5>2 DEF AskedFor, Owner
          <6> QED BY <1>b, <4>2, <5>2, <6>1, <6>2 DEF LogFollows, AddOf
        <5> QED BY <3>3, <5>1, <5>2 DEF BoughtNext
      <4> QED BY <3>1, <3>3, <4>3 DEF LogSettled, LogItemMove
    <3> QED BY <2>3, <3>2, <3>3 DEF BoughtSettled
  <2> QED BY <1>4, <2>1, <2>2, <2>3, BoughtForms
<1>5. CASE UNCHANGED buyLogVars
  BY <1>5, <1>c DEF buyLogVars, vars, fsVars, homeVars, editVars, screenVars, historyVars, boughtVars
<1> QED BY <1>1, <1>2, <1>3, <1>4, <1>5 DEF BuyLogNext

\* A settled write, item by item.
LEMMA SettledLog ==
  ASSUME LogInv, LogItems, LogSettled
  PROVE  /\ SettleOnItems(Unreverted)
         /\ Head(queue) \in Pending /\ Head(queue) \in Write
         /\ \A v \in Pending' : v \in Pending \/ (Commit(<<v>>) /\ LogFollows(v))
         /\ \A i \in Items : Head(queue).doc \in DocsOf(i) => i \in used
         /\ \A i \in Items : AddPending(i)' =>
              \/ AddPending(i)
              \/ Head(queue).doc = boughtgoods(i) /\ "revert" \in asked[i]
         /\ \A i \in Items : AddPending(i) => AddPending(i)' \/ AddOf(Head(queue), i)
         /\ \/ srv' = srv
            \/ \A d \in Docs : srv'[d] = IF d = Head(queue).doc THEN Head(queue).val ELSE srv[d]
<1>0. /\ TypeInv /\ FsTypeOK /\ Drawn /\ AddsFirst(queue, Unreverted)
      /\ queue \in Seq(Write) /\ Unreverted \in SUBSET Items
  BY DEF LogInv, TypeInv, TypeOK, FsTypeOK, LogItems, ListedOnce, Unreverted
<1>1. Head(queue) \in Pending /\ Head(queue) \in Write
  BY <1>0, RangeTail DEF LogSettled, Refuse, Commit, Pending
<1>2. \A i \in Items : Head(queue).doc \in DocsOf(i) => i \in used
  BY <1>0, <1>1 DEF Drawn
<1>3. ASSUME NEW w \in Write, LogFollows(w)
      PROVE  /\ \A i \in Unreverted : ~AddOf(w, i)
             /\ \A i \in Items : w.doc \in DocsOf(i) => i \in used /\ Head(queue).doc = boughtgoods(i)
             /\ \A i \in Items : AddOf(w, i) => "revert" \in asked[i]
  <2>1. CASE \E i \in Items : /\ Head(queue).doc = boughtgoods(i) /\ w.doc = goods(i) /\ w.val = Absent
    BY <1>2, <2>1, ItemDocs DEF AddOf, DocsOf, Unreverted
  <2>2. CASE \E i \in Items : /\ Head(queue).doc = boughtgoods(i) /\ "revert" \in asked[i]
                              /\ AddOf(w, i)
    <3>1. PICK i \in Items : /\ Head(queue).doc = boughtgoods(i) /\ "revert" \in asked[i]
                             /\ w.doc = goods(i)
      BY <2>2 DEF AddOf
    <3>2. \A j \in Items : w.doc \in DocsOf(j) => j = i
      BY <3>1, ItemDocs DEF DocsOf
    <3>3. i \in used
      BY <1>2, <3>1 DEF DocsOf
    <3> QED BY <3>1, <3>2, <3>3 DEF AddOf, DocsOf, Unreverted
  <2>3. CASE \A i \in Items : w.doc \notin DocsOf(i)
    BY <2>3 DEF AddOf, DocsOf, Unreverted
  <2> QED BY <1>3, <2>1, <2>2, <2>3 DEF LogFollows
<1>4. SettleOnItems(Unreverted)
  BY <1>3 DEF SettleOnItems, LogSettled
<1>5. ASSUME NEW v \in Pending'
      PROVE  v \in Pending \/ (v \in Write /\ Commit(<<v>>) /\ LogFollows(v))
  <2>1. CASE Refuse \/ Commit(<<>>)
    BY <1>0, <2>1, PendingAfter
  <2>2. ASSUME NEW w \in Write, Commit(<<w>>), LogFollows(w)
        PROVE  v \in Pending \/ (v \in Write /\ Commit(<<v>>) /\ LogFollows(v))
    BY <1>0, <2>2, PendingAnd
  <2> QED BY <2>1, <2>2 DEF LogSettled
<1>6. /\ \A i \in Items : AddPending(i) => AddPending(i)' \/ AddOf(Head(queue), i)
      /\ \/ srv' = srv
         \/ \A d \in Docs : srv'[d] = IF d = Head(queue).doc THEN Head(queue).val ELSE srv[d]
  BY <1>0, <1>4, SettledItems
<1>7. ASSUME NEW i \in Items, AddPending(i)', ~AddPending(i)
      PROVE  Head(queue).doc = boughtgoods(i) /\ "revert" \in asked[i]
  <2>1. PICK v \in Pending' : AddOf(v, i)
    BY <1>7 DEF AddPending, AddOf
  <2>2. v \in Write /\ LogFollows(v)
    BY <1>5, <1>7, <2>1 DEF AddPending
  <2>3. v.doc \in DocsOf(i)
    BY <2>1 DEF AddOf, DocsOf
  <2> QED BY <1>3, <2>1, <2>2, <2>3
<1> QED BY <1>1, <1>2, <1>4, <1>5, <1>6, <1>7

\* Queueing one write makes it pending, and no other.
LEMMA PendingAppended ==
  ASSUME queue \in Seq(Write), NEW w \in Write, queue' = queue \o <<w>>
  PROVE  Pending' = Pending \cup {w}
<1>1. <<w>> \in Seq(Write) /\ Range(<<w>>) = {w}
  BY DEF Range
<1>2. /\ queue \o <<w>> \in Seq(Write)
      /\ Range(queue \o <<w>>) = Range(queue) \cup Range(<<w>>)
  BY <1>1, RangeConcat
<1> QED BY <1>1, <1>2 DEF Pending

LEMMA LogItemsStep ==
  ASSUME LogInv, LogItems, [BuyLogNext]_buyLogVars
  PROVE  LogItems'
<1>0. /\ LogItemMove /\ FsTypeOK /\ queue \in Seq(Write) /\ Drawn
      /\ \A d \in Dates : pageGoods[d] \subseteq used
      /\ AddsFirst(queue, Unreverted) /\ asked \in [Items -> SUBSET {"delete", "revert"}]
      /\ \A i \in Unreverted : AddPending(i) => ~Listed(i) /\ ~Bought(i)
      /\ \A w \in Pending : AskedFor(w)
      /\ \A i \in Unreverted : i \in Items
  BY LogItemMoves DEF LogItems, LogInv, TypeInv, TypeOK, FsTypeOK, ListedOnce, BoughtTypeOK, Unreverted
<1>1. CASE LogElsewhere
  <2>0. /\ UNCHANGED <<srv, used, dropped, asked>>
        /\ (queue' = queue \/ LoseCallbacks)
        /\ \A o \in DOMAIN vms : o \in DOMAIN vms' /\ vms'[o] = vms[o]
    BY <1>1 DEF LogElsewhere
  <2>1. /\ AddsFirst(queue', Unreverted)
        /\ \A i \in Items : AddPending(i)' <=> AddPending(i)
        /\ \A v \in Pending' : v \in Pending \/ (v.done = Lost /\ \E w \in Pending : w.doc = v.doc /\ w.val = v.val)
    <3>1. CASE queue' = queue
      BY <1>0, <3>1 DEF AddPending, AddOf, Pending
    <3>2. CASE LoseCallbacks
      BY <1>0, <3>2, AddsFirstLost, LoseCallbacksStep
    <3> QED BY <2>0, <3>1, <3>2
  <2>2. Drawn'
    <3>1. \A i \in Items \ used : \A v \in Pending' : v.doc \notin DocsOf(i)
      BY <1>0, <2>1 DEF Drawn
    <3>2. \A o \in DOMAIN vms' : vms'[o].item \in Items => vms'[o].item \in used
      BY <1>0, <1>1 DEF LogElsewhere, Drawn
    <3> QED BY <1>0, <1>1, <2>0, <3>1, <3>2 DEF LogElsewhere, Drawn, Listed, Bought, DocsOf
  <2>3. ListedOnce(Unreverted)'
    <3>1. AddsFirst(queue, Unreverted)'
      BY <2>0, <2>1 DEF AddsFirst, AddOf, DocsOf, Unreverted
    <3> QED BY <1>0, <2>0, <2>1, <3>1 DEF ListedOnce, Unreverted, Listed, Bought
  <2>4. ASSUME NEW v \in Pending' PROVE AskedFor(v)'
    <3>1. CASE v \in Pending
      <4>1. AskedFor(v)
        BY <1>0, <3>1
      <4>2. v.done.step = "revertBoughtGoods" => v.done.owner \in DOMAIN vms
        BY <3>1 DEF LogInv, WritesMatch, Awaited, Lost
      <4> QED BY <2>0, <4>1, <4>2 DEF AskedFor, Bought
    <3>2. ASSUME NEW w \in Pending, v.done = Lost, w.doc = v.doc, w.val = v.val
          PROVE  AskedFor(v)'
      <4>1. v.done.step # "revertBoughtGoods"
        BY <3>2 DEF Lost
      <4>2. AskedFor(w)
        BY <1>0
      <4> QED BY <2>0, <3>2, <4>1, <4>2 DEF AskedFor, Bought
    <3> QED BY <2>1, <3>1, <3>2
  <2>5. \A d \in Dates : pageGoods'[d] \subseteq used'
    BY <1>1, <2>0 DEF LogElsewhere
  <2> QED BY <2>2, <2>3, <2>4, <2>5 DEF LogItems
<1>2. ASSUME NEW w \in Write, NEW i \in Items, LogTapped(w, i)
      PROVE  LogItems'
  <2>0. /\ queue' = queue \o <<w>> /\ srv' = srv /\ UNCHANGED <<vms, homeGoods, pageGoods>>
        /\ i \in used' /\ used \subseteq used' /\ used' \subseteq used \cup {i}
        /\ w.doc \in DocsOf(i)
        /\ dropped \subseteq dropped'
        /\ \A j \in Items : asked[j] \subseteq asked'[j]
    BY <1>0, <1>2 DEF LogTapped, DocsOf, AddOf
  <2>1. Pending' = Pending \cup {w}
    BY <1>0, <2>0, PendingAppended
  <2>2. \A j \in Items : AddOf(w, j) => j = i /\ i \notin used
    BY <1>2, ItemDocs DEF LogTapped, AddOf
  <2>3. Drawn' /\ \A d \in Dates : pageGoods'[d] \subseteq used'
    <3>1. \A j \in Items \ used' : j \in Items \ used /\ w.doc \notin DocsOf(j)
      BY <2>0, ItemDocs
    <3>2. \A j \in Items \ used' : ~Listed(j)' /\ ~Bought(j)' /\ \A v \in Pending' : v.doc \notin DocsOf(j)
      BY <1>0, <2>0, <2>1, <3>1 DEF Drawn, Listed, Bought
    <3>3. /\ homeGoods' \subseteq used'
          /\ \A o \in DOMAIN vms' : vms'[o].item \in Items => vms'[o].item \in used'
      BY <1>0, <2>0 DEF Drawn
    <3> QED BY <1>0, <2>0, <3>2, <3>3 DEF Drawn, DocsOf
  <2>4. ListedOnce(Unreverted)'
    <3>0. \A j \in Items : j \in Unreverted' => j \in Unreverted
      BY <2>0 DEF Unreverted
    <3>1. AddsFirst(queue', Unreverted)
      <4>1. \A j \in Unreverted : AddOf(w, j) => \A v \in Range(queue) : v.doc \notin DocsOf(j)
        BY <1>0, <2>2 DEF Drawn, Pending
      <4> QED BY <1>0, <2>0, <4>1, AddsFirstAppend
    <3>2. AddsFirst(queue, Unreverted)'
      BY <3>0, <3>1 DEF AddsFirst, AddOf, DocsOf, Unreverted
    <3>3. ASSUME NEW j \in Unreverted', AddPending(j)' PROVE ~Listed(j)' /\ ~Bought(j)'
      <4>0. j \in Unreverted /\ j \in Items
        BY <3>0, <3>3 DEF Unreverted
      <4>1. AddPending(j) \/ AddOf(w, j)
        BY <2>1, <3>3 DEF AddPending, AddOf
      <4> QED BY <1>0, <2>0, <2>2, <4>0, <4>1 DEF Drawn, Listed, Bought
    <3> QED BY <3>2, <3>3 DEF ListedOnce
  <2>5. ASSUME NEW v \in Pending PROVE AskedFor(v)'
    <3>1. AskedFor(v)
      BY <1>0
    <3>2. \A j \in Items : Bought(j)' <=> Bought(j)
      BY <2>0 DEF Bought
    <3>3. v.done.step = "revertBoughtGoods" =>
            v.done.owner \in DOMAIN vms /\ "revert" \in asked[vms[v.done.owner].item]
      BY <3>1 DEF AskedFor, LogInv, WritesMatch, Awaited, Lost
    <3>4. ASSUME v.done.step = "revertBoughtGoods" PROVE vms[v.done.owner].item \in Items
      BY <3>4 DEF LogInv, TypeInv, CallbacksMatch, CallbackMatches, Lost
    <3> QED BY <2>0, <3>1, <3>2, <3>3, <3>4 DEF AskedFor
  <2>6. AskedFor(w)'
    <3>1. \A j \in Items : w.doc \in DocsOf(j) => j = i
      BY <2>0, ItemDocs
    <3>2. \A j \in Items : goods(j) # boughtgoods(i)
      BY ItemDocs
    <3>3. CASE AddOf(w, i) /\ w.done.step = "addGoods"
      BY <3>1, <3>2, <3>3 DEF AskedFor, AddOf
    <3>4. CASE w.doc = boughtgoods(i) /\ w.val # Absent /\ w.done.step # "revertBoughtGoods"
      BY <3>2, <3>4 DEF AskedFor
    <3>5. CASE /\ w.doc = goods(i) /\ w.val = Absent /\ w.done.step = "deleteGoods"
               /\ dropped' = dropped \cup {i}
      <4>1. \A j \in Items : w.doc # boughtgoods(j) /\ (w.doc = goods(j) => j \in dropped')
        BY <3>1, <3>5, ItemDocs DEF DocsOf
      <4> QED BY <3>5, <4>1 DEF AskedFor
    <3>6. ASSUME NEW what \in {"delete", "revert"}, w.doc = boughtgoods(i),
                 asked' = [asked EXCEPT ![i] = @ \cup {what}],
                 w.done.step = "revertBoughtGoods" => what = "revert" /\ vms[w.done.owner].item = i
          PROVE  AskedFor(w)'
      <4>1. what \in asked'[i]
        BY <1>0, <3>6
      <4>2. \A j \in Items : w.doc # goods(j) /\ (w.doc = boughtgoods(j) => j = i)
        BY <3>1, <3>2, <3>6 DEF DocsOf
      <4> QED BY <2>0, <3>6, <4>1, <4>2 DEF AskedFor
    <3> QED BY <1>2, <3>3, <3>4, <3>5, <3>6 DEF LogTapped
  <2> QED BY <2>1, <2>3, <2>4, <2>5, <2>6 DEF LogItems
<1>3. CASE LogSettled
  <2>0. UNCHANGED <<vms, homeGoods, pageGoods, used, dropped, asked>>
    BY <1>3 DEF LogSettled
  <2>1. /\ SettleOnItems(Unreverted)
        /\ Head(queue) \in Pending
        /\ \A v \in Pending' : v \in Pending \/ (Commit(<<v>>) /\ LogFollows(v))
        /\ \/ srv' = srv
           \/ \A d \in Docs : srv'[d] = IF d = Head(queue).doc THEN Head(queue).val ELSE srv[d]
    BY <1>3, SettledLog
  <2>2. /\ AddsFirst(queue', Unreverted)
        /\ \A v \in Pending' : \A i \in Items : v \in Pending \/ v.doc \notin DocsOf(i) \/ i \in used
        /\ \A i \in Unreverted : AddPending(i)' => AddPending(i)
        /\ \A i \in Unreverted : Head(queue).doc \in DocsOf(i) => ~AddPending(i)'
    <3>1. TypeInv /\ Unreverted \in SUBSET Items
      BY DEF LogInv, Unreverted
    <3> QED BY <1>0, <2>1, <3>1, SettledItems
  <2>3. ASSUME NEW i \in Items, Head(queue).doc \notin DocsOf(i)
        PROVE  Listed(i)' = Listed(i) /\ Bought(i)' = Bought(i)
    BY <2>1, <2>3, ItemDocs DEF Listed, Bought, DocsOf
  <2>4. Drawn' /\ \A d \in Dates : pageGoods'[d] \subseteq used'
    <3>1. \A i \in Items \ used : Head(queue).doc \notin DocsOf(i)
      BY <1>0, <2>1 DEF Drawn
    <3>2. \A i \in Items \ used' : ~Listed(i)' /\ ~Bought(i)' /\ \A v \in Pending' : v.doc \notin DocsOf(i)
      BY <1>0, <2>0, <2>2, <2>3, <3>1 DEF Drawn
    <3> QED BY <1>0, <2>0, <3>2 DEF Drawn, DocsOf
  <2>5. ListedOnce(Unreverted)'
    <3>1. ASSUME NEW i \in Unreverted, AddPending(i)'
          PROVE  ~Listed(i)' /\ ~Bought(i)'
      <4>1. AddPending(i) /\ Head(queue).doc \notin DocsOf(i) /\ i \in Items
        BY <1>0, <2>2, <3>1
      <4> QED BY <1>0, <2>3, <4>1
    <3>2. AddsFirst(queue, Unreverted)'
      BY <2>0, <2>2 DEF AddsFirst, AddOf, DocsOf, Unreverted
    <3> QED BY <2>0, <3>1, <3>2 DEF ListedOnce, Unreverted
  <2>6. ASSUME NEW i \in Items PROVE Bought(i) => Bought(i)' \/ asked[i] # {}
    <3>1. CASE Head(queue).doc = boughtgoods(i) /\ Head(queue).val = Absent
      <4>1. AskedFor(Head(queue))
        BY <1>0, <2>1
      <4> QED BY <3>1, <4>1 DEF AskedFor
    <3>2. CASE ~(Head(queue).doc = boughtgoods(i) /\ Head(queue).val = Absent)
      BY <2>1, <3>2, ItemDocs DEF Bought
    <3> QED BY <3>1, <3>2
  <2>7. ASSUME NEW v \in Pending PROVE AskedFor(v)'
    <3>1. AskedFor(v)
      BY <1>0
    <3> QED BY <2>0, <2>6, <3>1 DEF AskedFor
  <2>8. ASSUME NEW v, Commit(<<v>>), LogFollows(v) PROVE AskedFor(v)'
    <3>0. v.done.step # "revertBoughtGoods"
      BY <2>8 DEF LogFollows
    <3>1. ASSUME NEW i \in Items, Head(queue).doc = boughtgoods(i), Head(queue).val # Absent,
                 v.doc = goods(i)
          PROVE  AskedFor(v)'
      <4>1. Bought(i)'
        <5>1. boughtgoods(i) \in Docs /\ srv \in [Docs -> Values]
          BY <1>0, ItemDocs DEF FsTypeOK
        <5> QED BY <2>8, <3>1, <5>1 DEF Commit, Bought
      <4>2. \A j \in Items : v.doc # boughtgoods(j) /\ (v.doc = goods(j) => j = i)
        BY <3>1, ItemDocs
      <4> QED BY <3>0, <4>1, <4>2 DEF AskedFor
    <3>2. ASSUME NEW i \in Items, AddOf(v, i) PROVE AskedFor(v)'
      BY <3>0, <3>2, ItemDocs DEF AskedFor, AddOf
    <3>3. CASE \A i \in Items : v.doc \notin DocsOf(i)
      BY <3>0, <3>3 DEF AskedFor, DocsOf
    <3> QED BY <2>8, <3>1, <3>2, <3>3 DEF LogFollows
  <2> QED BY <2>1, <2>4, <2>5, <2>7, <2>8 DEF LogItems
<1> QED BY <1>0, <1>1, <1>2, <1>3 DEF LogItemMove

LEMMA LogItemsInit == BuyLogInit => LogItems
<1> SUFFICES ASSUME BuyLogInit PROVE LogItems
  OBVIOUS
<1>1. /\ srv = [doc \in Docs |-> StoredBefore(doc)] /\ queue = <<>>
      /\ used = ListedBefore \cup {p[1] : p \in BoughtBefore}
      /\ Launched /\ HistoryInit
  BY DEF BuyLogInit
<1>2. Pending = {} /\ DOMAIN queue = {} /\ DOMAIN vms = {} /\ homeGoods = {}
  BY <1>1 DEF Launched, Pending, Range
<1>3. ASSUME NEW i \in Items \ used PROVE ~Listed(i) /\ ~Bought(i)
  <2>1. srv[goods(i)] = StoredBefore(goods(i)) /\ srv[boughtgoods(i)] = StoredBefore(boughtgoods(i))
    BY <1>1, ItemDocs
  <2>2. i \notin ListedBefore /\ \A p \in BoughtBefore : p[1] # i
    BY <1>1
  <2> QED BY <2>1, <2>2, StoredDocs DEF Listed, Bought
<1>4. \A d \in Dates : pageGoods[d] \subseteq used
  BY <1>1 DEF HistoryInit
<1>5. ListedOnce(Unreverted)
  BY <1>2 DEF ListedOnce, AddsFirst, AddPending
<1> QED BY <1>2, <1>3, <1>4, <1>5 DEF LogItems, Drawn

\* What the user has asked for, as ItemLifecycle records it.
AskedOf == [i \in Items |-> asked[i] \cup IF i \in dropped THEN {"remove"} ELSE {}]

PhaseOf == [i \in Items |-> Phase(i)]

LEMMA LogLifecycleInit == BuyLogInit => LogLifecycle!LifecycleInit
<1> SUFFICES ASSUME BuyLogInit PROVE LogLifecycle!LifecycleInit
  OBVIOUS
<1>1. /\ srv = [doc \in Docs |-> StoredBefore(doc)] /\ queue = <<>>
      /\ used = ListedBefore \cup {p[1] : p \in BoughtBefore}
      /\ Launched /\ BoughtInit
  BY DEF BuyLogInit
<1>2. ASSUME NEW i \in Items PROVE Phase(i) \in {"unlisted", "listed", "bought"}
  <2>1. srv[goods(i)] = StoredBefore(goods(i)) /\ srv[boughtgoods(i)] = StoredBefore(boughtgoods(i))
    BY <1>1, ItemDocs
  <2>2. ~(Listed(i) /\ Bought(i))
    BY <2>1, StoredDocs, BuyLogAssumption DEF Listed, Bought
  <2>3. i \in used => Listed(i) \/ Bought(i)
    <3>1. CASE i \in ListedBefore
      BY <2>1, <3>1, StoredDocs, GoodsModelAssumption DEF Listed
    <3>2. CASE \E p \in BoughtBefore : p[1] = i
      <4>1. StoredBefore(boughtgoods(i)) \in Dates /\ Absent \notin Dates
        BY <3>2, StoredDocs, GoodsModelAssumption DEF Dates
      <4> QED BY <2>1, <4>1 DEF Bought
    <3> QED BY <1>1, <3>1, <3>2
  <2> QED BY <2>2, <2>3 DEF Phase
<1>a. dropped = {} /\ asked = [i \in Items |-> {}]
  BY <1>1, Zenon DEF Launched, BoughtInit
<1>3. \A i \in Items : asked[i] = {} /\ i \notin dropped
  BY <1>a, Zenon
<1>4. PhaseOf \in [Items -> {"unlisted", "listed", "bought"}]
  BY <1>2 DEF PhaseOf
<1>5. AskedOf = [i \in Items |-> {}]
  BY <1>3 DEF AskedOf
<1> QED BY <1>4, <1>5 DEF LogLifecycle!LifecycleInit, PhaseOf, AskedOf

\* Nobody's phase moves, or one item's does.
LEMMA LogNobodyMoves ==
  ASSUME \A i \in Items : Phase(i)' = Phase(i), UNCHANGED <<dropped, asked>>
  PROVE  UNCHANGED <<PhaseOf, AskedOf>>
BY DEF PhaseOf, AskedOf

LEMMA LogOneMoves ==
  ASSUME NEW i \in Items, NEW from, NEW to, Phase(i) = from, Phase(i)' = to,
         \A j \in Items : j # i => Phase(j)' = Phase(j), UNCHANGED <<dropped, asked>>
  PROVE  LogLifecycle!Moves(i, from, to)
<1>1. [j \in Items |-> Phase(j)]' = [[j \in Items |-> Phase(j)] EXCEPT ![i] = to]
  OBVIOUS
<1>2. AskedOf' = AskedOf
  BY DEF AskedOf
<1> QED BY <1>1, <1>2 DEF LogLifecycle!Moves, AskedOf

\* Where the write at the head takes its item, and what the user had asked
\* when it does: the moves of ItemLifecycle.
Advances(i, from, to) ==
  \/ from = "unlisted" /\ to \in {"listed", "gone"}
  \/ from = "listed" /\ to = "both"
  \/ from = "gone" /\ to = "bought"
  \/ from = "both" /\ to = "bought"
  \/ from = "listed" /\ to = "gone" /\ (asked[i] # {} \/ i \in dropped)
  \/ from = "both" /\ to = "listed" /\ asked[i] # {}
  \/ from = "bought" /\ to = "gone" /\ asked[i] # {}
  \/ /\ "revert" \in asked[i]
     /\ \/ from \in {"bought", "gone", "listed"} /\ to = "unlisted"
        \/ from = "unlisted" /\ to = "bought"
        \/ from = "bought" /\ to = "both"

LEMMA HeadAdvances ==
  ASSUME LogInv, LogItems, LogSettled, NEW i \in Items, Head(queue).doc \in DocsOf(i),
         Phase(i)' # Phase(i)
  PROVE  Advances(i, Phase(i), Phase(i)')
<1>0. /\ Drawn /\ FsTypeOK /\ AddsFirst(queue, Unreverted) /\ queue \in Seq(Write)
      /\ i \in Unreverted \/ "revert" \in asked[i]
      /\ used' = used /\ Unreverted \in SUBSET Items /\ TypeInv
  BY DEF LogInv, TypeInv, TypeOK, FsTypeOK, LogItems, ListedOnce, Unreverted, LogSettled
<1>1. /\ SettleOnItems(Unreverted)
      /\ Head(queue) \in Pending
      /\ i \in used
      /\ AddPending(i)' => AddPending(i) \/ (Head(queue).doc = boughtgoods(i) /\ "revert" \in asked[i])
      /\ AddPending(i) => AddPending(i)' \/ AddOf(Head(queue), i)
      /\ \/ srv' = srv
         \/ \A d \in Docs : srv'[d] = IF d = Head(queue).doc THEN Head(queue).val ELSE srv[d]
  BY SettledLog
<1>2. i \in Unreverted =>
        /\ ~AddPending(i)'
        /\ AddPending(i) => AddOf(Head(queue), i) /\ ~Listed(i) /\ ~Bought(i)
  <2>1. i \in Unreverted => ~AddPending(i)'
    BY <1>0, <1>1, SettledItems
  <2> QED BY <1>1, <2>1 DEF LogItems, ListedOnce
<1>3. AskedFor(Head(queue))
  BY <1>1 DEF LogItems
<1>a. /\ goods(i) \in Docs /\ boughtgoods(i) \in Docs /\ goods(i) # boughtgoods(i)
      /\ Head(queue).doc = goods(i) \/ Head(queue).doc = boughtgoods(i)
  BY ItemDocs DEF DocsOf
<1>4. CASE srv' = srv
  <2>1. Listed(i)' = Listed(i) /\ Bought(i)' = Bought(i)
    BY <1>4 DEF Listed, Bought
  <2>2. \/ Phase(i) = "unlisted" /\ Phase(i)' = "gone"
        \/ Phase(i) = "gone" /\ Phase(i)' = "unlisted" /\ ~AddPending(i) /\ AddPending(i)'
    BY <2>1, <1>0, <1>1 DEF Phase
  <2> QED BY <2>2, <1>1 DEF Advances
<1>5. CASE \A d \in Docs : srv'[d] = IF d = Head(queue).doc THEN Head(queue).val ELSE srv[d]
  <2>1. CASE Head(queue).doc = goods(i) /\ Head(queue).val # Absent
    <3>1. Listed(i)' /\ Bought(i)' = Bought(i)
      BY <2>1, <1>5, <1>a DEF Listed, Bought
    <3>2. AddPending(i)
      BY <2>1, <1>1 DEF AddPending, AddOf
    <3>3. \/ Phase(i) = "unlisted" /\ Phase(i)' = "listed"
          \/ Phase(i) = "bought" /\ Phase(i)' = "both" /\ Bought(i)
      BY <3>1, <3>2 DEF Phase
    <3> QED BY <1>0, <1>2, <3>2, <3>3 DEF Advances
  <2>2. CASE Head(queue).doc = goods(i) /\ Head(queue).val = Absent
    <3>1. ~Listed(i)' /\ Bought(i)' = Bought(i)
      BY <2>2, <1>5, <1>a DEF Listed, Bought
    <3>2. /\ AddPending(i)' <=> AddPending(i)
          /\ Bought(i) \/ i \in dropped \/ asked[i] # {}
      BY <2>2, <1>1, <1>3, <1>a DEF AddOf, AskedFor
    <3>3. \/ Phase(i) = "both" /\ Phase(i)' = "bought"
          \/ Phase(i) = "listed" /\ Phase(i)' = "gone" /\ (i \in dropped \/ asked[i] # {})
          \/ Phase(i) = "listed" /\ Phase(i)' = "unlisted" /\ AddPending(i)'
      BY <3>1, <3>2, <1>0, <1>1 DEF Phase
    <3> QED BY <1>0, <1>2, <3>3 DEF Advances
  <2>3. CASE Head(queue).doc = boughtgoods(i) /\ Head(queue).val # Absent
    <3>1. Listed(i)' = Listed(i) /\ Bought(i)'
      BY <2>3, <1>5, <1>a DEF Listed, Bought
    <3>2. ~AddOf(Head(queue), i)
      BY <2>3, <1>a DEF AddOf
    <3>3. \/ Phase(i) = "listed" /\ Phase(i)' = "both"
          \/ Phase(i) = "gone" /\ Phase(i)' = "bought"
          \/ Phase(i) = "unlisted" /\ Phase(i)' = "bought" /\ AddPending(i)
      BY <3>1, <1>0, <1>1 DEF Phase
    <3> QED BY <1>0, <1>2, <3>2, <3>3 DEF Advances
  <2>4. CASE Head(queue).doc = boughtgoods(i) /\ Head(queue).val = Absent
    <3>1. Listed(i)' = Listed(i) /\ ~Bought(i)'
      BY <2>4, <1>5, <1>a DEF Listed, Bought
    <3>2. AddPending(i) => AddPending(i)'
      BY <2>4, <1>1, <1>a DEF AddOf
    <3>3. asked[i] # {}
      BY <2>4, <1>3 DEF AskedFor
    <3>4. \/ Phase(i) = "both" /\ Phase(i)' = "listed"
          \/ Phase(i) = "bought" /\ Phase(i)' \in {"gone", "unlisted"}
             /\ (Phase(i)' = "unlisted" => AddPending(i)')
          \/ Phase(i) = "gone" /\ Phase(i)' = "unlisted" /\ AddPending(i)'
      BY <3>1, <3>2, <1>0, <1>1 DEF Phase
    <3> QED BY <1>0, <1>2, <3>3, <3>4 DEF Advances
  <2> QED BY <1>a, <2>1, <2>2, <2>3, <2>4
<1> QED BY <1>1, <1>4, <1>5

LEMMA AdvanceIsAStep ==
  ASSUME asked \in [Items -> SUBSET {"delete", "revert"}],
         NEW i \in Items, Advances(i, Phase(i), Phase(i)'),
         \A j \in Items : j # i => Phase(j)' = Phase(j), UNCHANGED <<dropped, asked>>
  PROVE  LogLifecycle!LifecycleNext
<1>1. ASSUME NEW from, NEW to, Phase(i) = from, Phase(i)' = to
      PROVE  LogLifecycle!Moves(i, from, to)
  BY <1>1, LogOneMoves
<1>2. /\ "revert" \in asked[i] => LogLifecycle!Asked(i, {"revert"})
      /\ asked[i] # {} => LogLifecycle!Asked(i, {"delete", "revert"})
      /\ asked[i] # {} \/ i \in dropped => LogLifecycle!Asked(i, LogLifecycle!Requests)
  BY DEF LogLifecycle!Asked, LogLifecycle!Requests
<1>3. CASE Phase(i) = "unlisted" /\ Phase(i)' \in {"listed", "gone"}
  <2>1. LogLifecycle!List(i) \/ LogLifecycle!Forget(i)
    BY <1>1, <1>3 DEF LogLifecycle!List, LogLifecycle!Forget
  <2> QED BY <2>1 DEF LogLifecycle!LifecycleNext
<1>4. CASE \/ Phase(i) = "listed" /\ Phase(i)' = "both"
           \/ Phase(i) = "gone" /\ Phase(i)' = "bought"
  <2>1. LogLifecycle!Buy(i)
    BY <1>1, <1>4 DEF LogLifecycle!Buy
  <2> QED BY <2>1 DEF LogLifecycle!LifecycleNext
<1>5. CASE \/ Phase(i) = "both" /\ Phase(i)' = "bought"
           \/ Phase(i) = "listed" /\ Phase(i)' = "gone" /\ (asked[i] # {} \/ i \in dropped)
  <2>1. LogLifecycle!Unlist(i)
    BY <1>1, <1>2, <1>5 DEF LogLifecycle!Unlist
  <2> QED BY <2>1 DEF LogLifecycle!LifecycleNext
<1>6. CASE \/ Phase(i) = "both" /\ Phase(i)' = "listed" /\ asked[i] # {}
           \/ Phase(i) = "bought" /\ Phase(i)' = "gone" /\ asked[i] # {}
  <2>1. LogLifecycle!Unbuy(i)
    BY <1>1, <1>2, <1>6 DEF LogLifecycle!Unbuy
  <2> QED BY <2>1 DEF LogLifecycle!LifecycleNext
<1>7. CASE /\ "revert" \in asked[i]
           /\ \/ Phase(i) \in {"bought", "gone", "listed"} /\ Phase(i)' = "unlisted"
              \/ Phase(i) = "unlisted" /\ Phase(i)' = "bought"
              \/ Phase(i) = "bought" /\ Phase(i)' = "both"
  <2>1. LogLifecycle!Relist(i)
    BY <1>1, <1>2, <1>7 DEF LogLifecycle!Relist
  <2> QED BY <2>1 DEF LogLifecycle!LifecycleNext
<1> QED BY <1>3, <1>4, <1>5, <1>6, <1>7 DEF Advances

\* Every step of the application with its purchase log is a step of
\* ItemLifecycle.
LEMMA LogLifecycleStep ==
  ASSUME LogInv, LogItems, [BuyLogNext]_buyLogVars
  PROVE  [LogLifecycle!LifecycleNext]_<<PhaseOf, AskedOf>>
<1>0. /\ LogItemMove /\ FsTypeOK /\ queue \in Seq(Write) /\ Drawn
      /\ AddsFirst(queue, Unreverted)
      /\ asked \in [Items -> SUBSET {"delete", "revert"}]
  BY LogItemMoves DEF LogItems, LogInv, TypeInv, TypeOK, FsTypeOK, ListedOnce, BoughtTypeOK
<1>1. CASE LogElsewhere
  <2>0. /\ UNCHANGED <<srv, used, dropped, asked>>
        /\ (queue' = queue \/ LoseCallbacks)
    BY <1>1 DEF LogElsewhere
  <2>1. \A i \in Items : AddPending(i)' <=> AddPending(i)
    <3>1. CASE queue' = queue
      BY <3>1 DEF AddPending, AddOf, Pending
    <3>2. CASE LoseCallbacks
      BY <1>0, <3>2, AddsFirstLost
    <3> QED BY <2>0, <3>1, <3>2
  <2>2. \A i \in Items : Phase(i)' = Phase(i)
    BY <2>0, <2>1 DEF Phase, Listed, Bought
  <2> QED BY <2>0, <2>2, LogNobodyMoves
<1>2. ASSUME NEW w \in Write, NEW i \in Items, LogTapped(w, i)
      PROVE  [LogLifecycle!LifecycleNext]_<<PhaseOf, AskedOf>>
  <2>1. Pending' = Pending \cup {w} /\ srv' = srv
    BY <1>0, <1>2, PendingAppended DEF LogTapped
  <2>2. ASSUME NEW j \in Items PROVE Phase(j)' = Phase(j)
    <3>1. (j \notin used' \/ AddPending(j)') <=> (j \notin used \/ AddPending(j))
      <4>1. CASE AddOf(w, i) /\ i \notin used /\ used' = used \cup {i}
        <5>1. \A k \in Items : AddOf(w, k) => k = i
          BY <4>1, ItemDocs DEF AddOf
        <5> QED BY <4>1, <5>1, <2>1 DEF AddPending, AddOf
      <4>2. CASE used' = used /\ (w.doc = boughtgoods(i) \/ w.val = Absent)
        <5>1. \A k \in Items : ~AddOf(w, k)
          BY <4>2, ItemDocs DEF AddOf
        <5> QED BY <4>2, <5>1, <2>1 DEF AddPending, AddOf
      <4> QED BY <1>2, <4>1, <4>2 DEF LogTapped
    <3> QED BY <3>1, <2>1 DEF Phase, Listed, Bought
  <2>3. CASE UNCHANGED <<dropped, asked>>
    BY <2>2, <2>3, LogNobodyMoves
  <2>4. ASSUME NEW what \in {"remove", "delete", "revert"},
               AskedOf' = [AskedOf EXCEPT ![i] = @ \cup {what}]
        PROVE  LogLifecycle!LifecycleNext
    <3>1. PhaseOf' = PhaseOf
      BY <2>2 DEF PhaseOf
    <3>2. LogLifecycle!Ask(i)
      BY <2>4, <3>1 DEF LogLifecycle!Ask, LogLifecycle!Requests, PhaseOf, AskedOf
    <3> QED BY <3>2 DEF LogLifecycle!LifecycleNext
  <2>5. CASE dropped' = dropped \cup {i} /\ asked' = asked
    <3>1. AskedOf' = [AskedOf EXCEPT ![i] = @ \cup {"remove"}]
      BY <2>5 DEF AskedOf
    <3> QED BY <3>1, <2>4
  <2>6. ASSUME NEW what \in {"delete", "revert"}, dropped' = dropped,
               asked' = [asked EXCEPT ![i] = @ \cup {what}]
        PROVE  LogLifecycle!LifecycleNext
    <3>1. AskedOf' = [AskedOf EXCEPT ![i] = @ \cup {what}]
      BY <1>0, <2>6 DEF AskedOf
    <3> QED BY <3>1, <2>4
  <2> QED BY <1>2, <2>3, <2>5, <2>6 DEF LogTapped
<1>3. CASE LogSettled
  <2>0. UNCHANGED <<used, dropped, asked>>
    BY <1>3 DEF LogSettled
  <2>1. /\ \A i \in Items : AddPending(i)' =>
              \/ AddPending(i)
              \/ Head(queue).doc = boughtgoods(i) /\ "revert" \in asked[i]
        /\ \A i \in Items : AddPending(i) => AddPending(i)' \/ AddOf(Head(queue), i)
        /\ \/ srv' = srv
           \/ \A d \in Docs : srv'[d] = IF d = Head(queue).doc THEN Head(queue).val ELSE srv[d]
    BY <1>3, SettledLog
  <2>2. ASSUME NEW i \in Items, Head(queue).doc \notin DocsOf(i)
        PROVE  Phase(i)' = Phase(i)
    <3>1. Listed(i)' = Listed(i) /\ Bought(i)' = Bought(i)
      BY <2>1, <2>2, ItemDocs DEF Listed, Bought, DocsOf
    <3>2. AddPending(i)' <=> AddPending(i)
      BY <2>1, <2>2 DEF AddOf, DocsOf
    <3> QED BY <2>0, <3>1, <3>2 DEF Phase
  <2>3. CASE \A i \in Items : Phase(i)' = Phase(i)
    BY <2>0, <2>3, LogNobodyMoves
  <2>4. ASSUME NEW i \in Items, Phase(i)' # Phase(i)
        PROVE  LogLifecycle!LifecycleNext
    <3>1. Head(queue).doc \in DocsOf(i)
      BY <2>2, <2>4
    <3>2. \A j \in Items : j # i => Phase(j)' = Phase(j)
      BY <2>2, <3>1, ItemDocs
    <3>3. Advances(i, Phase(i), Phase(i)')
      BY <1>3, <2>4, <3>1, HeadAdvances
    <3> QED BY <1>0, <2>0, <3>2, <3>3, AdvanceIsAStep
  <2> QED BY <2>3, <2>4
<1> QED BY <1>0, <1>1, <1>2, <1>3 DEF LogItemMove

\* The application with its purchase log implements ItemLifecycle: whatever is
\* refused, lost or submitted twice, no item leaves the list without a purchase
\* record and no purchase record disappears but where the user asked for it, and
\* only a reverted purchase comes back to the list.
THEOREM LogLifecycleImplemented == BuyLogSpec => ImplementsLogLifecycle
<1>1. LogInv /\ LogItems /\ [BuyLogNext]_buyLogVars =>
        /\ LogItems'
        /\ [LogLifecycle!LifecycleNext]_<<[i \in Items |-> Phase(i)],
             [i \in Items |-> asked[i] \cup IF i \in dropped THEN {"remove"} ELSE {}]>>
  BY LogItemsStep, LogLifecycleStep DEF PhaseOf, AskedOf
<1> QED BY <1>1, LogItemsInit, LogLifecycleInit, LogInvHolds, PTL
        DEF BuyLogSpec, ImplementsLogLifecycle, LogLifecycle!LifecycleSpec

-----------------------------------------------------------------------------
(* No item is lost while nothing is refused and nobody is interrupted.     *)

\* Not removed and not deleted by the user.
Wanted == {i \in used : i \notin dropped /\ "delete" \notin asked[i]}

TakesOff(w, i) == w.doc = goods(i) /\ w.val = Absent

\* A pending write that takes the item off the list finds it stored as bought,
\* or a write of its purchase record goes before it, or the item is listed
\* again after it.
OutlivesDeletes(i) ==
  \A n \in DOMAIN queue :
    TakesOff(queue[n], i) =>
      \/ Bought(i)
      \/ \E m \in 1 .. n - 1 : queue[m].doc = boughtgoods(i)
      \/ \E m \in n + 1 .. Len(queue) : AddOf(queue[m], i)

Kept ==
  ~interrupted =>
    /\ \A w \in Pending :
         /\ w.done # Lost
         /\ w.done.step = "deleteBoughtGoods" => "delete" \in asked[vms[w.done.owner].item]
    /\ \A i \in Wanted :
         /\ Listed(i) \/ Bought(i) \/ AddPending(i)
         /\ OutlivesDeletes(i)

LEMMA KeptInit == BuyLogInit => Kept
<1> SUFFICES ASSUME BuyLogInit PROVE Kept
  OBVIOUS
<1>1. /\ srv = [doc \in Docs |-> StoredBefore(doc)] /\ queue = <<>>
      /\ used = ListedBefore \cup {p[1] : p \in BoughtBefore}
  BY DEF BuyLogInit
<1>2. Pending = {} /\ DOMAIN queue = {}
  BY <1>1 DEF Pending, Range
<1>3. ASSUME NEW i \in used PROVE Listed(i) \/ Bought(i)
  <2>0. i \in Items
    BY <1>1, BuyLogAssumption
  <2>1. srv[goods(i)] = StoredBefore(goods(i)) /\ srv[boughtgoods(i)] = StoredBefore(boughtgoods(i))
    BY <1>1, <2>0, ItemDocs
  <2>2. CASE i \in ListedBefore
    BY <2>0, <2>1, <2>2, StoredDocs, GoodsModelAssumption DEF Listed
  <2>3. CASE \E p \in BoughtBefore : p[1] = i
    <3>1. StoredBefore(boughtgoods(i)) \in Dates /\ Absent \notin Dates
      BY <2>0, <2>3, StoredDocs, GoodsModelAssumption DEF Dates
    <3> QED BY <2>1, <3>1 DEF Bought
  <2> QED BY <1>1, <2>2, <2>3
<1> QED BY <1>2, <1>3 DEF Kept, Wanted, OutlivesDeletes

\* Where the writes are after the oldest one is settled.
LEMMA TailShifts ==
  ASSUME NEW q \in Seq(Write), q # <<>>
  PROVE  /\ Len(q) \in Nat \ {0} /\ Tail(q) \in Seq(Write) /\ Head(q) = q[1]
         /\ Len(Tail(q)) = Len(q) - 1
         /\ \A n \in 1 .. Len(q) - 1 : Tail(q)[n] = q[n + 1]
BY LenProperties

LEMMA AppendExtends ==
  ASSUME NEW t \in Seq(Write), NEW w \in Write
  PROVE  /\ t \o <<w>> \in Seq(Write) /\ Len(t \o <<w>>) = Len(t) + 1
         /\ (t \o <<w>>)[Len(t) + 1] = w
         /\ \A n \in 1 .. Len(t) : (t \o <<w>>)[n] = t[n]
OBVIOUS

LEMMA TailAppendShifts ==
  ASSUME NEW q \in Seq(Write), q # <<>>, NEW w \in Write, NEW r, r = Tail(q) \o <<w>>
  PROVE  /\ r \in Seq(Write) /\ Len(r) = Len(q) /\ r[Len(q)] = w
         /\ \A n \in 1 .. Len(q) - 1 : r[n] = q[n + 1]
<1> DEFINE t == Tail(q)
<1>1. /\ Len(q) \in Nat \ {0} /\ t \in Seq(Write) /\ Len(t) = Len(q) - 1
      /\ \A n \in 1 .. Len(q) - 1 : t[n] = q[n + 1]
  BY TailShifts
<1>2. r = t \o <<w>>
  OBVIOUS
<1> HIDE DEF t
<1>3. /\ r \in Seq(Write) /\ Len(r) = Len(t) + 1 /\ r[Len(t) + 1] = w
      /\ \A n \in 1 .. Len(t) : r[n] = t[n]
  BY <1>1, <1>2, AppendExtends
<1>4. Len(t) + 1 = Len(q)
  BY <1>1
<1>5. ASSUME NEW n \in 1 .. Len(q) - 1 PROVE r[n] = q[n + 1]
  BY <1>1, <1>3
<1> QED BY <1>3, <1>4, <1>5

\* What OutlivesDeletes says of a queue from which the oldest write is taken.
LEMMA TakenKeeps ==
  ASSUME NEW q \in Seq(Write), NEW r \in Seq(Write), q # <<>>, NEW i \in Items, NEW bought \in BOOLEAN,
         \A n \in 1 .. Len(q) - 1 : r[n] = q[n + 1], Len(r) >= Len(q) - 1,
         \A n \in DOMAIN q : TakesOff(q[n], i) =>
           \/ bought
           \/ \E m \in 1 .. n - 1 : q[m].doc = boughtgoods(i)
           \/ \E m \in n + 1 .. Len(q) : AddOf(q[m], i)
  PROVE  \A n \in 1 .. Len(q) - 1 : TakesOff(r[n], i) =>
           \/ bought \/ Head(q).doc = boughtgoods(i)
           \/ \E m \in 1 .. n - 1 : r[m].doc = boughtgoods(i)
           \/ \E m \in n + 1 .. Len(r) : AddOf(r[m], i)
<1> SUFFICES ASSUME NEW n \in 1 .. Len(q) - 1, TakesOff(r[n], i), ~bought, Head(q).doc # boughtgoods(i)
             PROVE  \/ \E m \in 1 .. n - 1 : r[m].doc = boughtgoods(i)
                    \/ \E m \in n + 1 .. Len(r) : AddOf(r[m], i)
  OBVIOUS
<1>0. Len(q) \in Nat \ {0} /\ Len(r) \in Nat /\ n + 1 \in DOMAIN q /\ Head(q) = q[1] /\ r[n] = q[n + 1]
  BY TailShifts, LenProperties
<1>1. \/ \E m \in 1 .. n : q[m].doc = boughtgoods(i)
      \/ \E m \in n + 2 .. Len(q) : AddOf(q[m], i)
  BY <1>0
<1>2. ASSUME NEW m \in 1 .. n, q[m].doc = boughtgoods(i)
      PROVE  \E k \in 1 .. n - 1 : r[k].doc = boughtgoods(i)
  <2>1. m # 1 /\ m - 1 \in 1 .. n - 1 /\ r[m - 1] = q[m]
    BY <1>0, <1>2
  <2> QED BY <1>2, <2>1
<1>3. ASSUME NEW m \in n + 2 .. Len(q), AddOf(q[m], i)
      PROVE  \E k \in n + 1 .. Len(r) : AddOf(r[k], i)
  <2>1. m - 1 \in n + 1 .. Len(r) /\ r[m - 1] = q[m]
    BY <1>0, <1>3
  <2> QED BY <1>3, <2>1
<1> QED BY <1>1, <1>2, <1>3

\* Which step a pending write belongs to, and whose it is.
LEMMA WhoseWrite ==
  ASSUME LogInv, NEW w \in Pending, w.done # Lost
  PROVE  /\ w.done.owner \in DOMAIN vms
         /\ w.done.step # "addGoods" => vms[w.done.owner].item \in Items
         /\ StepWrites(w, vms[w.done.owner])
BY DEF LogInv, TypeInv, CallbacksMatch, CallbackMatches, WritesMatch, Awaited

\* A purchase record is deleted for good only where the user asked for it.
LEMMA WantedIsReverted ==
  ASSUME LogInv, Kept, ~interrupted, NEW w \in Pending, NEW i \in Wanted, i \in Items,
         w.doc = boughtgoods(i), w.val = Absent
  PROVE  w.done.step = "revertBoughtGoods"
<1>1. /\ w.done # Lost
      /\ w.done.step = "deleteBoughtGoods" => "delete" \in asked[vms[w.done.owner].item]
  BY DEF Kept
<1>2. /\ w.done.step # "addGoods" => vms[w.done.owner].item \in Items
      /\ StepWrites(w, vms[w.done.owner])
  BY <1>1, WhoseWrite
<1>3. \A j \in Items : goods(j) # boughtgoods(i) /\ (boughtgoods(j) = boughtgoods(i) => j = i)
  BY ItemDocs
<1>4. Absent \notin Dates /\ \A d : datecount(d) # boughtgoods(i)
  BY GoodsModelAssumption DEF Dates, datecount, boughtgoods
<1>5. CASE w.done.step = "addGoods"
  BY <1>2, <1>3, <1>5 DEF StepWrites
<1>6. CASE w.done.step = "deleteBoughtGoods"
  <2>1. vms[w.done.owner].item \in Items /\ w.doc = boughtgoods(vms[w.done.owner].item)
    BY <1>2, <1>6 DEF StepWrites
  <2> QED BY <1>1, <1>3, <1>6, <2>1 DEF Wanted
<1>7. CASE w.done.step \in {"addBoughtGoods", "updateBoughtGoods"}
  <2>1. vms[w.done.owner].kind = "editBought" => vms[w.done.owner].date \in Dates
    <3>1. w.done.owner \in DOMAIN vms
      BY <1>1, WhoseWrite
    <3>2. vms[w.done.owner] \in ViewModel
      BY <3>1, ViewModelsDomain, ElementOfSeq DEF LogInv, TypeInv, TypeOK, ScreensTypeOK
    <3> QED BY <3>2 DEF ViewModel
  <2> QED BY <1>2, <1>4, <1>7, <2>1 DEF StepWrites
<1>8. CASE w.done.step \in {"deleteGoods", "updateDateCount", "revertAddGoods", "updateBoughtCount"}
  BY <1>2, <1>3, <1>4, <1>8 DEF StepWrites
<1> QED BY <1>2, <1>5, <1>6, <1>7, <1>8 DEF StepWrites

LEMMA KeptTapped ==
  ASSUME LogInv, LogItems, Kept, ~interrupted,
         NEW w \in Write, NEW i \in Items, LogTapped(w, i)
  PROVE  Kept'
<1>0. /\ queue \in Seq(Write) /\ Drawn /\ asked \in [Items -> SUBSET {"delete", "revert"}]
      /\ used \subseteq Items
  BY DEF LogItems, LogInv, TypeInv, TypeOK, FsTypeOK, BoughtTypeOK, EditTypeOK
<1>1. /\ queue' = queue \o <<w>> /\ srv' = srv /\ vms' = vms
      /\ used \subseteq used' /\ used' \subseteq used \cup {i} /\ dropped \subseteq dropped'
      /\ \A j \in Items : asked[j] \subseteq asked'[j]
  BY <1>0 DEF LogTapped
<1>2. Pending' = Pending \cup {w}
  BY <1>0, <1>1, PendingAppended
<1>3. /\ Len(queue') = Len(queue) + 1 /\ queue'[Len(queue) + 1] = w /\ queue' \in Seq(Write)
      /\ \A n \in 1 .. Len(queue) : queue'[n] = queue[n]
  BY <1>0, <1>1, AppendExtends
<1>4. /\ w.done # Lost
      /\ w.done.step = "deleteBoughtGoods" => "delete" \in asked'[vms[w.done.owner].item]
  BY <1>0 DEF LogTapped, Lost
<1>5. ASSUME NEW v \in Pending
      PROVE  /\ v.done # Lost
             /\ v.done.step = "deleteBoughtGoods" => "delete" \in asked'[vms[v.done.owner].item]
  <2>1. /\ v.done # Lost
        /\ v.done.step = "deleteBoughtGoods" => "delete" \in asked[vms[v.done.owner].item]
    BY DEF Kept
  <2>2. v.done.step # "addGoods" => vms[v.done.owner].item \in Items
    BY <2>1, WhoseWrite
  <2> QED BY <1>1, <2>1, <2>2
<1>6. ASSUME NEW j \in Items, j \in used', j \notin dropped', "delete" \notin asked'[j]
      PROVE  (Listed(j) \/ Bought(j) \/ AddPending(j))' /\ OutlivesDeletes(j)'
  <2>1. ~TakesOff(w, j)
    BY <1>6, ItemDocs DEF LogTapped, TakesOff, AddOf
  <2>2. CASE j \in used
    <3>1. /\ Listed(j) \/ Bought(j) \/ AddPending(j)
          /\ OutlivesDeletes(j)
      BY <1>1, <1>6, <2>2 DEF Kept, Wanted
    <3>2. (Listed(j) \/ Bought(j) \/ AddPending(j))'
      BY <1>1, <1>2, <3>1 DEF Listed, Bought, AddPending, AddOf
    <3>3. ASSUME NEW n \in DOMAIN queue', TakesOff(queue'[n], j)
          PROVE  \/ Bought(j)'
                 \/ \E m \in 1 .. n - 1 : queue'[m].doc = boughtgoods(j)
                 \/ \E m \in n + 1 .. Len(queue') : AddOf(queue'[m], j)
      <4>1. n \in 1 .. Len(queue) /\ n \in DOMAIN queue /\ queue'[n] = queue[n]
        BY <1>0, <1>3, <2>1, <3>3
      <4>2. \/ Bought(j)
            \/ \E m \in 1 .. n - 1 : queue[m].doc = boughtgoods(j)
            \/ \E m \in n + 1 .. Len(queue) : AddOf(queue[m], j)
        BY <3>1, <3>3, <4>1 DEF OutlivesDeletes
      <4>3. Bought(j)' <=> Bought(j)
        BY <1>1 DEF Bought
      <4>4. Len(queue) \in Nat
        BY <1>0
      <4>5. ASSUME NEW m \in 1 .. n - 1, queue[m].doc = boughtgoods(j)
            PROVE  queue'[m].doc = boughtgoods(j)
        <5>1. m \in 1 .. Len(queue)
          BY <4>1, <4>4
        <5> QED BY <1>3, <4>5, <5>1
      <4>6. ASSUME NEW m \in n + 1 .. Len(queue), AddOf(queue[m], j)
            PROVE  m \in n + 1 .. Len(queue') /\ AddOf(queue'[m], j)
        <5>1. m \in 1 .. Len(queue) /\ m \in n + 1 .. Len(queue) + 1
          BY <4>1, <4>4
        <5> QED BY <1>3, <4>6, <5>1
      <4> QED BY <4>2, <4>3, <4>5, <4>6
    <3> QED BY <3>2, <3>3 DEF OutlivesDeletes, TakesOff, AddOf
  <2>3. CASE j \notin used
    <3>1. j = i /\ AddOf(w, j)
      BY <1>1, <1>6, <2>3 DEF LogTapped
    <3>2. AddPending(j)'
      BY <1>2, <3>1 DEF AddPending, AddOf
    <3>3. \A n \in DOMAIN queue : queue[n].doc # goods(j)
      BY <2>3 , <1>0 DEF Drawn, Pending, Range, DocsOf
    <3>4. \A n \in DOMAIN queue' : ~TakesOff(queue'[n], j)
      BY <1>0, <1>3, <2>1, <3>3 DEF TakesOff
    <3> QED BY <3>2, <3>4 DEF OutlivesDeletes, TakesOff
  <2> QED BY <2>2, <2>3
<1>7. \A j \in Wanted' : j \in Items /\ j \in used' /\ j \notin dropped' /\ "delete" \notin asked'[j]
  BY <1>0, <1>1 DEF Wanted
<1> QED BY <1>1, <1>2, <1>4, <1>5, <1>6, <1>7 DEF Kept

LEMMA KeptSettled ==
  ASSUME LogInv, LogItems, Kept, ~interrupted, signedIn', LogSettled, ~Refuse
  PROVE  Kept'
<1>0. /\ queue \in Seq(Write) /\ FsTypeOK /\ used \subseteq Items
      /\ UNCHANGED <<vms, used, dropped, asked>>
  BY DEF LogItems, LogInv, TypeInv, TypeOK, FsTypeOK, EditTypeOK, LogSettled
<1>1. /\ Head(queue) \in Pending /\ Head(queue) \in Write
      /\ \A v \in Pending' : v \in Pending \/ (Commit(<<v>>) /\ LogFollows(v))
      /\ \A i \in Items : AddPending(i) => AddPending(i)' \/ AddOf(Head(queue), i)
  BY SettledLog
<1>2. ASSUME NEW v \in Pending'
      PROVE  /\ v.done # Lost
             /\ v.done.step = "deleteBoughtGoods" => "delete" \in asked[vms[v.done.owner].item]
  <2>1. CASE v \in Pending
    BY <2>1 DEF Kept
  <2>2. CASE LogFollows(v)
    BY <2>2 DEF LogFollows, Lost
  <2> QED BY <1>1, <2>1, <2>2
<1>3. /\ queue # <<>>
      /\ srv' = [srv EXCEPT ![Head(queue).doc] = Head(queue).val]
      /\ \/ queue' = Tail(queue) /\ Head(queue).done.step # "revertBoughtGoods"
         \/ \E w \in Write : queue' = Tail(queue) \o <<w>> /\ LogFollows(w)
  <2>1. CASE Commit(<<>>) /\ (Head(queue).done.step = "revertBoughtGoods" => ~signedIn')
    <3>1. Tail(queue) \o <<>> = Tail(queue)
      BY <1>0, <2>1, TailShifts DEF Commit
    <3> QED BY <2>1, <3>1 DEF Commit
  <2>2. ASSUME NEW w \in Write, Commit(<<w>>), LogFollows(w)
        PROVE  /\ queue # <<>>
               /\ srv' = [srv EXCEPT ![Head(queue).doc] = Head(queue).val]
               /\ queue' = Tail(queue) \o <<w>>
    BY <2>2 DEF Commit
  <2> QED BY <2>1, <2>2 DEF LogSettled
<1>4. /\ Len(queue) \in Nat \ {0} /\ queue' \in Seq(Write)
      /\ Len(queue') \in {Len(queue) - 1, Len(queue)}
      /\ \A n \in 1 .. Len(queue) - 1 : queue'[n] = queue[n + 1]
      /\ Len(queue') = Len(queue) => queue'[Len(queue)] \in Write /\ LogFollows(queue'[Len(queue)])
      /\ Head(queue).done.step = "revertBoughtGoods" => Len(queue') = Len(queue)
  <2>0. Len(queue) \in Nat \ {0}
    BY <1>0, <1>3, TailShifts
  <2>1. CASE queue' = Tail(queue) /\ Head(queue).done.step # "revertBoughtGoods"
    <3>1. /\ Len(queue') = Len(queue) - 1 /\ queue' \in Seq(Write)
          /\ \A n \in 1 .. Len(queue) - 1 : queue'[n] = queue[n + 1]
      BY <1>0, <1>3, <2>1, TailShifts
    <3>2. Len(queue') # Len(queue)
      BY <2>0, <3>1
    <3>3. Head(queue).done.step # "revertBoughtGoods"
      BY <2>1
    <3> QED BY <2>0, <3>1, <3>2, <3>3
  <2>2. ASSUME NEW w \in Write, queue' = Tail(queue) \o <<w>>, LogFollows(w)
        PROVE  /\ queue' \in Seq(Write) /\ Len(queue') = Len(queue) /\ queue'[Len(queue)] = w
               /\ \A n \in 1 .. Len(queue) - 1 : queue'[n] = queue[n + 1]
    BY <1>0, <1>3, <2>2, TailAppendShifts
  <2> QED BY <1>3, <2>0, <2>1, <2>2
<1>5. ASSUME NEW i \in Wanted
      PROVE  (Listed(i) \/ Bought(i) \/ AddPending(i))' /\ OutlivesDeletes(i)'
  <2>0. /\ i \in Items /\ goods(i) \in Docs /\ boughtgoods(i) \in Docs /\ goods(i) # boughtgoods(i)
        /\ \A j \in Items : goods(j) # boughtgoods(i) /\ goods(i) # boughtgoods(j)
        /\ \A j \in Items : boughtgoods(i) = boughtgoods(j) => i = j
    BY <1>0, ItemDocs DEF Wanted
  <2>1. /\ Listed(i) \/ Bought(i) \/ AddPending(i)
        /\ OutlivesDeletes(i)
    BY DEF Kept
  <2>2. \A d \in Docs : srv'[d] = IF d = Head(queue).doc THEN Head(queue).val ELSE srv[d]
    BY <1>0, <1>3 DEF FsTypeOK
  <2>3. \A n \in DOMAIN queue' :
          n \in 1 .. Len(queue) - 1 \/ (n = Len(queue) /\ Len(queue') = Len(queue))
    BY <1>4
  <2>4. CASE Head(queue).doc = boughtgoods(i) /\ Head(queue).val # Absent
    <3>1. Bought(i)'
      BY <2>0, <2>2, <2>4 DEF Bought
    <3> QED BY <3>1 DEF OutlivesDeletes
  <2>5. CASE Head(queue).doc = boughtgoods(i) /\ Head(queue).val = Absent
    <3>1. Head(queue).done.step = "revertBoughtGoods"
      BY <1>1, <2>0, <2>5, WantedIsReverted
    <3>2. Len(queue') = Len(queue) /\ AddOf(queue'[Len(queue)], i)
      BY <1>4, <2>0, <2>5, <3>1 DEF LogFollows
    <3>3. AddPending(i)'
      <4>1. queue'[Len(queue)] \in Pending'
        BY <1>4, <3>2 DEF Pending, Range
      <4> QED BY <3>2, <4>1 DEF AddPending, AddOf
    <3>4. ASSUME NEW n \in DOMAIN queue', TakesOff(queue'[n], i)
          PROVE  \E m \in n + 1 .. Len(queue') : AddOf(queue'[m], i)
      <4>1. n # Len(queue)
        BY <3>2, <3>4 DEF TakesOff, AddOf
      <4>2. Len(queue) \in n + 1 .. Len(queue')
        BY <1>4, <2>3, <3>2, <4>1
      <4> QED BY <3>2, <4>2
    <3> QED BY <3>3, <3>4 DEF OutlivesDeletes, TakesOff, AddOf
  <2>6. CASE Head(queue).doc # boughtgoods(i)
    <3>1. Bought(i)' <=> Bought(i)
      BY <2>0, <2>2, <2>6 DEF Bought
    <3>2. \A n \in 1 .. Len(queue) - 1 : TakesOff(queue'[n], i) =>
            \/ Bought(i)
            \/ \E m \in 1 .. n - 1 : queue'[m].doc = boughtgoods(i)
            \/ \E m \in n + 1 .. Len(queue') : AddOf(queue'[m], i)
      <4>1. \A n \in DOMAIN queue : TakesOff(queue[n], i) =>
              \/ Bought(i)
              \/ \E m \in 1 .. n - 1 : queue[m].doc = boughtgoods(i)
              \/ \E m \in n + 1 .. Len(queue) : AddOf(queue[m], i)
        BY <2>1 DEF OutlivesDeletes
      <4>2. Len(queue') >= Len(queue) - 1 /\ Bought(i) \in BOOLEAN
        BY <1>4 DEF Bought
      <4> QED BY <1>0, <1>3, <1>4, <2>0, <2>6, <4>1, <4>2, TakenKeeps
    <3>3. Len(queue') = Len(queue) => ~TakesOff(queue'[Len(queue)], i)
      <4>1. ASSUME NEW w, LogFollows(w), TakesOff(w, i) PROVE FALSE
        <5>1. ~AddOf(w, i) /\ w.doc \in DocsOf(i) /\ w.val = Absent
          BY <4>1 DEF TakesOff, AddOf, DocsOf
        <5>2. \A j \in Items : w.doc = goods(j) => j = i
          BY <2>0, <4>1, ItemDocs DEF TakesOff
        <5> QED BY <2>0, <2>6, <4>1, <5>1, <5>2 DEF LogFollows, AddOf
      <4> QED BY <1>4, <4>1
    <3>4. OutlivesDeletes(i)'
      BY <2>3, <3>1, <3>2, <3>3 DEF OutlivesDeletes, TakesOff, AddOf
    <3>5. CASE Head(queue).doc = goods(i) /\ Head(queue).val # Absent
      BY <2>0, <2>2, <3>4, <3>5 DEF Listed
    <3>6. CASE Head(queue).doc = goods(i) /\ Head(queue).val = Absent
      <4>1. 1 \in DOMAIN queue /\ TakesOff(queue[1], i)
        BY <1>0, <1>4, <3>6 DEF TakesOff
      <4>2. Bought(i) \/ \E m \in 2 .. Len(queue) : AddOf(queue[m], i)
        BY <2>1, <4>1 DEF OutlivesDeletes
      <4>3. ASSUME NEW m \in 2 .. Len(queue), AddOf(queue[m], i)
            PROVE  AddPending(i)'
        <5>1. m - 1 \in 1 .. Len(queue) - 1 /\ m - 1 \in DOMAIN queue' /\ queue'[m - 1] = queue[m]
          BY <1>4
        <5>2. queue[m] \in Pending'
          BY <5>1 DEF Pending, Range
        <5> QED BY <4>3, <5>2 DEF AddPending, AddOf
      <4> QED BY <3>1, <3>4, <4>2, <4>3
    <3>7. CASE Head(queue).doc # goods(i)
      <4>1. Listed(i)' <=> Listed(i)
        BY <2>0, <2>2, <3>7 DEF Listed
      <4>2. AddPending(i) => AddPending(i)'
        BY <1>1, <2>0, <3>7 DEF AddOf
      <4> QED BY <2>1, <3>1, <3>4, <4>1, <4>2
    <3> QED BY <3>5, <3>6, <3>7
  <2> QED BY <2>4, <2>5, <2>6
<1>6. Wanted' = Wanted
  BY <1>0 DEF Wanted
<1> QED BY <1>0, <1>2, <1>5, <1>6 DEF Kept

LEMMA KeptStep ==
  ASSUME LogInv, LogItems, Kept, [BuyLogNext]_buyLogVars
  PROVE  Kept'
<1>1. CASE UNCHANGED buyLogVars
  <2>1. UNCHANGED <<srv, queue, vms, used, dropped, asked, interrupted>>
    BY <1>1 DEF buyLogVars, vars, fsVars, editVars, screenVars, boughtVars, logVars
  <2> QED BY <2>1 DEF Kept, Wanted, OutlivesDeletes, TakesOff, AddOf, Pending, AddPending, Listed, Bought
<1>2. ASSUME BuyLogNext, ~interrupted' PROVE Kept'
  <2>1. ~interrupted /\ ~Refused /\ signedIn' /\ restarts' = restarts
    BY <1>2, Zenon DEF BuyLogNext, Observe
  <2>2. ~Refuse
    <3>1. FsTypeOK
      BY DEF LogInv, TypeInv, TypeOK
    <3>2. queue \in Seq(Write) /\ faults \in Nat
      BY <3>1 DEF FsTypeOK
    <3> SUFFICES ASSUME Refuse PROVE Refused
      BY <2>1
    <3>3. queue # <<>> /\ queue' = Tail(queue) /\ faults' = faults + 1
      BY DEF Refuse, Fault
    <3>4. Len(queue) \in Nat /\ Len(queue') = Len(queue) - 1
      BY <3>2, <3>3, TailShifts
    <3>5. Len(queue') # Len(queue)
      BY <3>4
    <3>6. queue' # queue
      BY <3>5, Zenon
    <3>7. faults' = faults + 1
      BY <3>3
    <3>8. faults \in Nat
      BY <3>2
    <3>9. faults' # faults
      BY <3>7, <3>8
    <3> QED BY <3>6, <3>9 DEF Refused
  <2>3. CASE LogElsewhere
    <3>1. /\ UNCHANGED <<srv, queue, used, dropped, asked>>
          /\ \A o \in DOMAIN vms : vms'[o] = vms[o]
      BY <2>1, <2>3 DEF LogElsewhere
    <3>2. ASSUME NEW w \in Pending
          PROVE  /\ w.done # Lost
                 /\ w.done.step = "deleteBoughtGoods" => "delete" \in asked[vms'[w.done.owner].item]
      <4>1. /\ w.done # Lost
            /\ w.done.step = "deleteBoughtGoods" => "delete" \in asked[vms[w.done.owner].item]
        BY <2>1 DEF Kept
      <4>2. w.done.owner \in DOMAIN vms
        BY <4>1, WhoseWrite
      <4> QED BY <3>1, <4>1, <4>2
    <3>3. Wanted' = Wanted /\ Pending' = Pending
      BY <3>1 DEF Wanted, Pending
    <3>4. ASSUME NEW i \in Wanted
          PROVE  (Listed(i) \/ Bought(i) \/ AddPending(i))' /\ OutlivesDeletes(i)'
      <4>1. /\ Listed(i) \/ Bought(i) \/ AddPending(i)
            /\ OutlivesDeletes(i)
        BY <2>1 DEF Kept
      <4> QED BY <3>1, <3>3, <4>1 DEF Listed, Bought, AddPending, OutlivesDeletes, TakesOff, AddOf
    <3> QED BY <3>1, <3>2, <3>3, <3>4 DEF Kept
  <2>4. CASE \E w \in Write, i \in Items : LogTapped(w, i)
    BY <2>1, <2>4, KeptTapped
  <2>5. CASE LogSettled
    BY <2>1, <2>2, <2>5, KeptSettled
  <2> QED BY <2>3, <2>4, <2>5, LogItemMoves DEF LogItemMove
<1> QED BY <1>1, <1>2 DEF Kept

\* As long as no write is refused, the user stays signed in and the process
\* alive, no order of taps, callbacks and chains that outlive their screen
\* loses an item the user did not ask to remove or to delete, although
\* revertBoughtGoods deletes the purchase before it lists the item again.
THEOREM ItemsAreConserved == BuyLogSpec => []Conserved
<1>1. LogInv /\ LogItems /\ Kept /\ [BuyLogNext]_buyLogVars => LogItems' /\ Kept'
  BY LogItemsStep, KeptStep
<1>2. Kept => Conserved
  BY DEF Kept, Conserved, Wanted
<1> QED BY <1>1, <1>2, LogItemsInit, KeptInit, LogInvHolds, PTL DEF BuyLogSpec
=============================================================================
