-------------------------------- MODULE Graph --------------------------------
(***************************************************************************)
(* The Graph screen (Screen/Graph): all purchases, shown as one bar per    *)
(* month of the selected year or, once a month is selected, as one bar per *)
(* day of that month.                                                      *)
(*                                                                         *)
(* A purchase stores three date keys, yyyy, yyyyMM and yyyyMMdd, written   *)
(* here as numbers.  EditGoodsViewModel reads the clock once for each, so  *)
(* around midnight they need not agree.  A selection is held by relays     *)
(* whose observers run at once, so a tap with all it sets off is one step. *)
(* Prices, titles and the order of purchases within a bar are left out.    *)
(***************************************************************************)
EXTENDS KeyOrder, SequencesExt

CONSTANTS
  Purchases,  \* purchases that may be stored: [id, year, yearMonth, boughtDate]
  Nil

ASSUME GraphAssumption ==
  /\ IsFiniteSet(Purchases)
  /\ \A g \in Purchases :
       g.year \in Nat \ {0} /\ g.yearMonth \in Nat /\ g.boughtDate \in Nat
  /\ Nil \notin Nat

VARIABLES
  screen,               \* "closed", "loading", "loaded" or "failed"
  boughtGoods,          \* GraphViewModel.boughtGoods
  selectedYear,         \* a year, "" (as EmptyYear), or Nil
  selectedMonth,        \* a yearMonth, or Nil
  selectedBoughtGoods,  \* the bars, each a set of purchases
  yearsButtons,         \* buttons: their key and whether they are highlighted
  monthsButtons,
  opened                \* the day ClosableHistory shows, or Nil

contents == <<boughtGoods, selectedYear, selectedMonth, selectedBoughtGoods,
              yearsButtons, monthsButtons, opened>>

vars == <<screen, contents>>

EmptyYear == 0

Keys(goods, key) == {g[key] : g \in goods}

\* Dictionary(grouping:by:), sorted by key.
GroupBy(goods, key) ==
  LET keys == Ascending(Keys(goods, key))
  IN  [r \in DOMAIN keys |-> {g \in goods : g[key] = keys[r]}]

\* boughtGoodsMonthList and boughtGoodsDateList: [[]] when the key is unknown.
boughtGoodsMonthList(goods, year) ==
  IF year \in Keys(goods, "year")
    THEN GroupBy({g \in goods : g.year = year}, "yearMonth")
    ELSE <<{}>>

boughtGoodsDateList(goods, month) ==
  IF month \in Keys(goods, "yearMonth")
    THEN GroupBy({g \in goods : g.yearMonth = month}, "boughtDate")
    ELSE <<{}>>

\* A yearMonth starts with its year's digits, and everything with no digits.
StartsWith(yearMonth, year) == year = EmptyYear \/ yearMonth \div 100 = year

yearKeys(goods) == Ascending(Keys(goods, "year"))

yearMonthKeys(goods, year) ==
  Ascending({m \in Keys(goods, "yearMonth") : StartsWith(m, year)})

Buttons(keys) == [r \in DOMAIN keys |-> [key |-> keys[r], on |-> FALSE]]

graphType == IF selectedMonth = Nil THEN "month" ELSE "date"

\* graphStackView is hidden until purchases have been loaded.
Tappable == screen = "loaded" /\ boughtGoods # {} /\ opened = Nil

-----------------------------------------------------------------------------

Init ==
  /\ screen = "closed"
  /\ boughtGoods = {}
  /\ selectedYear = Nil
  /\ selectedMonth = Nil
  /\ selectedBoughtGoods = <<{}>>
  /\ yearsButtons = <<>>
  /\ monthsButtons = <<>>
  /\ opened = Nil

\* HomeViewController.graph gives a new GraphViewModel to a new controller,
\* whose viewDidLoad fetches.
graph ==
  /\ screen = "closed"
  /\ screen' = "loading"
  /\ UNCHANGED contents

\* Faulty variant: the buttons of the year before are kept.
selectYearKeepingButtons(goods, year) ==
  /\ selectedYear' = year
  /\ monthsButtons' = monthsButtons \o Buttons(yearMonthKeys(goods, year))
  /\ selectedBoughtGoods' = boughtGoodsMonthList(goods, year)

\* What the observers of selectedYear do: setupMonthButtons, then the bars.
selectYear(goods, year) ==
  /\ selectedYear' = year
  /\ monthsButtons' = Buttons(yearMonthKeys(goods, year))
  /\ selectedBoughtGoods' = boughtGoodsMonthList(goods, year)

\* The load succeeds with whatever is stored: the last year is selected.
loadBoughtGoodsSucceeds ==
  /\ screen = "loading"
  /\ screen' = "loaded"
  /\ \E goods \in SUBSET Purchases :
       LET keys == yearKeys(goods)
       IN  /\ boughtGoods' = goods
           /\ yearsButtons' = [r \in DOMAIN keys |-> [key |-> keys[r], on |-> r = Len(keys)]]
           /\ selectYear(goods, IF keys = <<>> THEN EmptyYear ELSE Last(keys))
  /\ UNCHANGED <<selectedMonth, opened>>

loadBoughtGoodsFails ==
  /\ screen = "loading"
  /\ screen' = "failed"
  /\ UNCHANGED contents

\* Faulty variant: the selected month survives the change of year.
onTapYearButtonKeepingMonth(r) ==
  /\ Tappable
  /\ yearsButtons' = [s \in DOMAIN yearsButtons |-> [yearsButtons[s] EXCEPT !.on = s = r]]
  /\ selectYear(boughtGoods, yearsButtons[r].key)
  /\ UNCHANGED <<screen, boughtGoods, selectedMonth, opened>>

onTapYearButton(r) ==
  /\ Tappable
  /\ yearsButtons' = [s \in DOMAIN yearsButtons |-> [yearsButtons[s] EXCEPT !.on = s = r]]
  /\ selectedMonth' = Nil
  /\ selectYear(boughtGoods, yearsButtons[r].key)
  /\ UNCHANGED <<screen, boughtGoods, opened>>

\* GraphViewModel.onTapMonth with the observer of selectedMonth: a second tap
\* on the selected month goes back to the year.
onTapMonth(month) ==
  LET newMonth == IF selectedMonth = month THEN Nil ELSE month
  IN  /\ selectedMonth' = newMonth
      /\ selectedBoughtGoods' =
           IF newMonth = Nil THEN boughtGoodsMonthList(boughtGoods, selectedYear)
                             ELSE boughtGoodsDateList(boughtGoods, newMonth)

\* Faulty variant: the tapped button is highlighted even when it deselects.
onTapMonthButtonAlwaysOn(r) ==
  /\ Tappable
  /\ monthsButtons' = [s \in DOMAIN monthsButtons |-> [monthsButtons[s] EXCEPT !.on = s = r]]
  /\ onTapMonth(monthsButtons[r].key)
  /\ UNCHANGED <<screen, boughtGoods, selectedYear, yearsButtons, opened>>

onTapMonthButton(r) ==
  /\ Tappable
  /\ monthsButtons' = [s \in DOMAIN monthsButtons |->
       [monthsButtons[s] EXCEPT !.on = s = r /\ selectedMonth # monthsButtons[r].key]]
  /\ onTapMonth(monthsButtons[r].key)
  /\ UNCHANGED <<screen, boughtGoods, selectedYear, yearsButtons, opened>>

\* A tap on a bar: it stands for the month button of the same index, or opens
\* the day of its first purchase.
didSelectItemAt(r) ==
  \/ /\ graphType = "month"
     /\ r \in DOMAIN monthsButtons
     /\ onTapMonthButton(r)
  \/ /\ graphType = "date"
     /\ Tappable
     /\ \E first \in selectedBoughtGoods[r] : opened' = first.boughtDate
     /\ UNCHANGED <<screen, boughtGoods, selectedYear, selectedMonth,
                    selectedBoughtGoods, yearsButtons, monthsButtons>>

\* The close button of ClosableHistory, and Graph's own.
closeHistory ==
  /\ opened # Nil
  /\ opened' = Nil
  /\ UNCHANGED <<screen, boughtGoods, selectedYear, selectedMonth,
                 selectedBoughtGoods, yearsButtons, monthsButtons>>

dismiss ==
  /\ screen # "closed"
  /\ opened = Nil
  /\ screen' = "closed"
  /\ boughtGoods' = {}
  /\ selectedYear' = Nil
  /\ selectedMonth' = Nil
  /\ selectedBoughtGoods' = <<{}>>
  /\ yearsButtons' = <<>>
  /\ monthsButtons' = <<>>
  /\ UNCHANGED opened

Next ==
  \/ graph
  \/ loadBoughtGoodsSucceeds
  \/ loadBoughtGoodsFails
  \/ \E r \in DOMAIN yearsButtons : onTapYearButton(r)
  \/ \E r \in DOMAIN monthsButtons : onTapMonthButton(r)
  \/ \E r \in DOMAIN selectedBoughtGoods : didSelectItemAt(r)
  \/ closeHistory
  \/ dismiss

Spec == Init /\ [][Next]_vars

-----------------------------------------------------------------------------
(* Properties.                                                             *)

\* A purchase whose three keys were read on one day.
OneDay(g) == g.yearMonth = g.boughtDate \div 100 /\ g.year = g.yearMonth \div 100

\* The bars follow the selection through any sequence of taps: in month view
\* they hold the purchases of the selected year and no other, in date view
\* those of the selected month, which is a month of the selected year; no bar
\* is empty and the bars are in the order of their days.  Purchases that
\* disagree about their keys are shown too.
BarsFollowSelection ==
  Tappable =>
    /\ UNION ToSet(selectedBoughtGoods)
         = {g \in boughtGoods : IF selectedMonth = Nil THEN g.year = selectedYear
                                                       ELSE g.yearMonth = selectedMonth}
    /\ selectedMonth # Nil => selectedMonth \div 100 = selectedYear
    /\ \A r \in DOMAIN selectedBoughtGoods : selectedBoughtGoods[r] # {}
    /\ \A r, s \in DOMAIN selectedBoughtGoods :
         \A g \in selectedBoughtGoods[r], h \in selectedBoughtGoods[s] :
           r < s => IF selectedMonth = Nil THEN g.yearMonth < h.yearMonth
                                           ELSE g.boughtDate < h.boughtDate

\* Exactly the selected year's button and, in date view, exactly the selected
\* month's button are highlighted (YearButton and MonthButton buttonState).
HighlightFollowsSelection ==
  Tappable =>
    /\ \A r \in DOMAIN yearsButtons : yearsButtons[r].on <=> yearsButtons[r].key = selectedYear
    /\ \A r \in DOMAIN monthsButtons : monthsButtons[r].on <=> monthsButtons[r].key = selectedMonth
    /\ \E r \in DOMAIN yearsButtons : yearsButtons[r].on
    /\ selectedMonth # Nil => \E r \in DOMAIN monthsButtons : monthsButtons[r].on

\* didSelectItemAt indexes monthsButtons by the row of a bar and opens a day
\* by the bar's first purchase: as long as every purchase's keys were read on
\* one day, the row has a button, the button is that of the month the bar
\* shows, and the day that is opened has exactly the purchases of one bar.
BarsLeadToTheirPurchases ==
  (screen = "loaded" /\ boughtGoods # {} /\ \A g \in boughtGoods : OneDay(g)) =>
    /\ graphType = "month" =>
         \A r \in DOMAIN selectedBoughtGoods :
           /\ r \in DOMAIN monthsButtons
           /\ selectedBoughtGoods[r] = {g \in boughtGoods : g.yearMonth = monthsButtons[r].key}
    /\ opened # Nil =>
         {g \in boughtGoods : g.boughtDate = opened} \in ToSet(selectedBoughtGoods)
=============================================================================
