----------------------------- MODULE GraphProofs -----------------------------
(***************************************************************************)
(* Proofs about Graph, for every finite set of purchases: after any        *)
(* sequence of taps the bars, the highlighted buttons and the opened day   *)
(* agree with the selection.                                               *)
(***************************************************************************)
EXTENDS Graph, KeyOrderProofs

DateKeys == {"year", "yearMonth", "boughtDate"}

-----------------------------------------------------------------------------
(* Grouping.                                                               *)

\* Finitely many purchases have finitely many keys.
LEMMA KeysFinite ==
  ASSUME NEW goods \in SUBSET Purchases, NEW key \in DateKeys
  PROVE  IsFiniteSet(goods) /\ IsFiniteSet(Keys(goods, key)) /\ Keys(goods, key) \in SUBSET Nat
<1>1. IsFiniteSet(goods)
  BY GraphAssumption, FS_Subset
<1> DEFINE f == [g \in goods |-> g[key]]
<1>2. f \in Surjection(goods, Keys(goods, key))
  BY DEF Surjection, Keys
<1>3. IsFiniteSet(Keys(goods, key))
  <2> HIDE DEF f
  <2> QED BY <1>1, <1>2, FS_Surjection
<1>4. Keys(goods, key) \in SUBSET Nat
  BY GraphAssumption DEF Keys, DateKeys
<1> QED BY <1>1, <1>3, <1>4

\* A group per key, in the order of the keys.
LEMMA GroupProperties ==
  ASSUME NEW goods \in SUBSET Purchases, NEW key \in DateKeys
  PROVE  LET ks == Ascending(Keys(goods, key))
             gs == GroupBy(goods, key)
         IN  /\ DOMAIN gs = DOMAIN ks
             /\ \A r \in DOMAIN gs : /\ ks[r] \in Keys(goods, key)
                                     /\ gs[r] = {g \in goods : g[key] = ks[r]}
                                     /\ gs[r] # {}
             /\ \A r, s \in DOMAIN gs : r < s => ks[r] < ks[s]
             /\ \A k \in Keys(goods, key) : \E r \in DOMAIN gs : ks[r] = k
             /\ UNION ToSet(gs) = goods
<1> DEFINE ks == Ascending(Keys(goods, key))
           gs == GroupBy(goods, key)
<1>1. /\ DOMAIN ks = 1 .. Cardinality(Keys(goods, key))
      /\ \A r \in DOMAIN ks : ks[r] \in Keys(goods, key)
      /\ \A r, s \in DOMAIN ks : r < s => ks[r] < ks[s]
      /\ \A k \in Keys(goods, key) : \E r \in DOMAIN ks : ks[r] = k
  <2> DEFINE K == Keys(goods, key)
  <2>1. IsFiniteSet(K) /\ K \in SUBSET Nat
    BY KeysFinite
  <2>2. K \in SUBSET Int
    BY <2>1
  <2> HIDE DEF K
  <2> QED BY <2>1, <2>2, AscendingProperties DEF K
<1>2. gs = [r \in DOMAIN ks |-> {g \in goods : g[key] = ks[r]}]
  BY DEF GroupBy
<1> HIDE DEF ks, gs
<1>3. DOMAIN gs = DOMAIN ks /\ \A r \in DOMAIN gs : gs[r] = {g \in goods : g[key] = ks[r]}
  BY <1>2
<1>4. ASSUME NEW r \in DOMAIN gs PROVE gs[r] # {}
  <2>1. PICK g \in goods : g[key] = ks[r]
    BY <1>1, <1>3 DEF Keys
  <2> QED BY <1>3, <2>1
<1>5. UNION ToSet(gs) = goods
  <2>1. ASSUME NEW g \in goods PROVE \E r \in DOMAIN gs : g \in gs[r]
    <3>1. g[key] \in Keys(goods, key)
      BY DEF Keys
    <3> QED BY <1>1, <1>3, <3>1
  <2> QED BY <1>3, <2>1 DEF ToSet
<1> QED BY <1>1, <1>3, <1>4, <1>5 DEF ks, gs

-----------------------------------------------------------------------------
(* The inductive invariant: what is on the screen is a function of the     *)
(* purchases, the selected year and the selected month.                    *)

MonthsOf(goods, year) == {m \in Keys(goods, "yearMonth") : StartsWith(m, year)}

ButtonsFor(keys, selected) ==
  [r \in DOMAIN keys |-> [key |-> keys[r], on |-> keys[r] = selected]]

ShownConsistently ==
  /\ selectedYear \in Keys(boughtGoods, "year")
  /\ selectedMonth = Nil \/ selectedMonth \in MonthsOf(boughtGoods, selectedYear)
  /\ yearsButtons = ButtonsFor(yearKeys(boughtGoods), selectedYear)
  /\ monthsButtons = ButtonsFor(yearMonthKeys(boughtGoods, selectedYear), selectedMonth)
  /\ selectedBoughtGoods =
       IF selectedMonth = Nil THEN boughtGoodsMonthList(boughtGoods, selectedYear)
                              ELSE boughtGoodsDateList(boughtGoods, selectedMonth)
  /\ opened # Nil =>
       /\ selectedMonth # Nil
       /\ \E g \in boughtGoods : g.yearMonth = selectedMonth /\ g.boughtDate = opened

GInv ==
  /\ boughtGoods \in SUBSET Purchases
  /\ screen \in {"closed", "loading", "loaded", "failed"}
  /\ screen # "loaded" => selectedMonth = Nil
  /\ screen # "loaded" \/ boughtGoods = {} => opened = Nil
  /\ screen = "loaded" /\ boughtGoods # {} => ShownConsistently

LEMMA InitGInv == Init => GInv
BY DEF Init, GInv

\* The buttons a selection of keys is shown with.
LEMMA YearKeys ==
  ASSUME NEW goods \in SUBSET Purchases
  PROVE  /\ DOMAIN yearKeys(goods) = 1 .. Cardinality(Keys(goods, "year"))
         /\ Len(yearKeys(goods)) = Cardinality(Keys(goods, "year"))
         /\ Cardinality(Keys(goods, "year")) \in Nat
         /\ \A r \in DOMAIN yearKeys(goods) : yearKeys(goods)[r] \in Keys(goods, "year")
         /\ \A r, s \in DOMAIN yearKeys(goods) : (r = s) = (yearKeys(goods)[r] = yearKeys(goods)[s])
         /\ \A k \in Keys(goods, "year") : \E r \in DOMAIN yearKeys(goods) : yearKeys(goods)[r] = k
<1> DEFINE K == Keys(goods, "year")
<1>1. IsFiniteSet(K) /\ K \in SUBSET Nat
  BY KeysFinite DEF DateKeys
<1>2. K \in SUBSET Int
  BY <1>1
<1> HIDE DEF K
<1>3. \A r, s \in DOMAIN Ascending(K) : (r = s) = (Ascending(K)[r] = Ascending(K)[s])
  BY <1>1, <1>2, AscendingDistinct
<1> QED BY <1>1, <1>2, <1>3, AscendingProperties DEF K, yearKeys

LEMMA MonthKeys ==
  ASSUME NEW goods \in SUBSET Purchases, NEW year
  PROVE  LET ms == yearMonthKeys(goods, year)
         IN  /\ DOMAIN ms = 1 .. Cardinality(MonthsOf(goods, year))
             /\ \A r \in DOMAIN ms : ms[r] \in MonthsOf(goods, year) /\ ms[r] \in Nat
             /\ \A r, s \in DOMAIN ms : (r = s) = (ms[r] = ms[s])
             /\ \A m \in MonthsOf(goods, year) : \E r \in DOMAIN ms : ms[r] = m
<1> DEFINE M == MonthsOf(goods, year)
<1>1. IsFiniteSet(Keys(goods, "yearMonth")) /\ Keys(goods, "yearMonth") \in SUBSET Nat
  BY KeysFinite DEF DateKeys
<1>2. M \in SUBSET Keys(goods, "yearMonth") /\ M \in SUBSET Int /\ M \in SUBSET Nat
  BY <1>1 DEF MonthsOf
<1>3. IsFiniteSet(M)
  <2> HIDE DEF M
  <2> QED BY <1>1, <1>2, FS_Subset
<1>4. yearMonthKeys(goods, year) = Ascending(M)
  BY DEF yearMonthKeys, MonthsOf
<1> HIDE DEF M
<1>5. \A r, s \in DOMAIN Ascending(M) : (r = s) = (Ascending(M)[r] = Ascending(M)[s])
  BY <1>2, <1>3, AscendingDistinct
<1> QED BY <1>2, <1>3, <1>4, <1>5, AscendingProperties DEF M

\* setupMonthButtons highlights no button, and no month is selected then.
LEMMA FreshMonthButtons ==
  ASSUME NEW goods \in SUBSET Purchases, NEW year
  PROVE  Buttons(yearMonthKeys(goods, year)) = ButtonsFor(yearMonthKeys(goods, year), Nil)
<1> DEFINE ms == yearMonthKeys(goods, year)
<1>1. \A r \in DOMAIN ms : ms[r] \in Nat
  BY MonthKeys
<1>2. \A r \in DOMAIN ms : (ms[r] = Nil) = FALSE
  BY <1>1, GraphAssumption
<1> HIDE DEF ms
<1> QED BY <1>2 DEF Buttons, ButtonsFor, ms

LEMMA NextGInv == GInv /\ [Next]_vars => GInv'
<1> SUFFICES ASSUME GInv, [Next]_vars
             PROVE  GInv'
  OBVIOUS
<1>1. CASE graph
  BY <1>1 DEF graph, contents, GInv, ShownConsistently
<1>2. CASE loadBoughtGoodsSucceeds
  <2>1. PICK goods \in SUBSET Purchases :
          /\ boughtGoods' = goods
          /\ yearsButtons' = [r \in DOMAIN yearKeys(goods) |->
                                [key |-> yearKeys(goods)[r], on |-> r = Len(yearKeys(goods))]]
          /\ selectYear(goods, IF yearKeys(goods) = <<>> THEN EmptyYear ELSE Last(yearKeys(goods)))
    BY <1>2 DEF loadBoughtGoodsSucceeds
  <2>2. screen' = "loaded" /\ selectedMonth = Nil /\ selectedMonth' = Nil /\ opened = Nil
        /\ opened' = Nil
    BY <1>2 DEF loadBoughtGoodsSucceeds, GInv
  <2>3. ASSUME goods # {} PROVE ShownConsistently'
    <3> DEFINE ks == yearKeys(goods)
               n == Len(ks)
    <3>1. /\ n \in Nat /\ DOMAIN ks = 1 .. n
          /\ \A r \in 1 .. n : ks[r] \in Keys(goods, "year")
          /\ \A r, s \in 1 .. n : (r = s) = (ks[r] = ks[s])
          /\ \A k \in Keys(goods, "year") : \E r \in 1 .. n : ks[r] = k
      BY YearKeys
    <3>2. Keys(goods, "year") # {} /\ Keys(goods, "year") \in SUBSET Nat
      BY <2>3, KeysFinite DEF Keys, DateKeys
    <3>3. n > 0 /\ ks # <<>> /\ n \in 1 .. n
      <4>1. n > 0
        BY <3>1, <3>2
      <4>2. ks # <<>>
        BY <3>1, <4>1
      <4> QED BY <4>1, <4>2, <3>1
    <3>4. Last(ks) = ks[n]
      BY DEF Last
    <3> HIDE DEF ks, n
    <3>5. \A r \in 1 .. n : (r = n) = (ks[r] = ks[n])
      BY <3>1, <3>3
    <3>6. selectedYear' = ks[n] /\ selectedYear' \in Keys(goods, "year")
      BY <2>1, <3>1, <3>3, <3>4 DEF selectYear, ks
    <3>7. yearsButtons' = ButtonsFor(yearKeys(goods), ks[n])
      <4>1. \A r \in DOMAIN ks : [key |-> ks[r], on |-> r = n]
                                 = [key |-> ks[r], on |-> ks[r] = ks[n]]
        BY <3>1, <3>5
      <4>2. yearsButtons' = [r \in DOMAIN ks |-> [key |-> ks[r], on |-> r = n]]
        BY <2>1 DEF ks, n
      <4> QED BY <4>1, <4>2 DEF ButtonsFor, ks
    <3>8. monthsButtons' = ButtonsFor(yearMonthKeys(goods, ks[n]), Nil)
      BY <2>1, <3>3, <3>4, FreshMonthButtons DEF selectYear, ks
    <3>9. selectedBoughtGoods' = boughtGoodsMonthList(goods, ks[n])
      BY <2>1, <3>3, <3>4 DEF selectYear, ks
    <3> QED BY <2>1, <2>2, <3>6, <3>7, <3>8, <3>9 DEF ShownConsistently
  <2> QED BY <2>1, <2>2, <2>3 DEF GInv
<1>3. CASE loadBoughtGoodsFails
  BY <1>3 DEF loadBoughtGoodsFails, contents, GInv, ShownConsistently
<1>4. ASSUME NEW r \in DOMAIN yearsButtons, onTapYearButton(r)
      PROVE  GInv'
  <2> DEFINE ks == yearKeys(boughtGoods)
             year == ks[r]
  <2>1. Tappable /\ boughtGoods \in SUBSET Purchases /\ ShownConsistently
    BY <1>4 DEF onTapYearButton, Tappable, GInv
  <2>2. yearsButtons = ButtonsFor(ks, selectedYear) /\ DOMAIN yearsButtons = DOMAIN ks
    BY <2>1 DEF ShownConsistently, ButtonsFor
  <2>3. /\ year \in Keys(boughtGoods, "year")
        /\ \A s \in DOMAIN ks : (s = r) = (ks[s] = year)
    BY <2>1, <2>2, YearKeys
  <2>4. yearsButtons[r].key = year
    BY <2>2 DEF ButtonsFor
  <2> HIDE DEF ks, year
  <2>5. yearsButtons' = ButtonsFor(ks, year)
    <3>1. \A s \in DOMAIN ks : [yearsButtons[s] EXCEPT !.on = s = r]
                               = [key |-> ks[s], on |-> ks[s] = year]
      BY <2>2, <2>3 DEF ButtonsFor
    <3> QED BY <1>4, <2>2, <3>1 DEF onTapYearButton, ButtonsFor
  <2>6. /\ selectedYear' = year /\ selectedMonth' = Nil
        /\ monthsButtons' = ButtonsFor(yearMonthKeys(boughtGoods, year), Nil)
        /\ selectedBoughtGoods' = boughtGoodsMonthList(boughtGoods, year)
        /\ UNCHANGED <<screen, boughtGoods, opened>> /\ opened = Nil
    BY <1>4, <2>1, <2>4, FreshMonthButtons DEF onTapYearButton, selectYear, Tappable
  <2>7. ShownConsistently'
    BY <2>3, <2>5, <2>6 DEF ShownConsistently, ks
  <2> QED BY <2>1, <2>6, <2>7 DEF GInv, Tappable
<1>5. ASSUME NEW r \in DOMAIN monthsButtons, onTapMonthButton(r)
      PROVE  GInv'
  <2> DEFINE ms == yearMonthKeys(boughtGoods, selectedYear)
             new == IF selectedMonth = ms[r] THEN Nil ELSE ms[r]
  <2>1. Tappable /\ boughtGoods \in SUBSET Purchases /\ ShownConsistently
    BY <1>5 DEF onTapMonthButton, Tappable, GInv
  <2>2. monthsButtons = ButtonsFor(ms, selectedMonth) /\ DOMAIN monthsButtons = DOMAIN ms
    BY <2>1 DEF ShownConsistently, ButtonsFor
  <2>3. /\ ms[r] \in MonthsOf(boughtGoods, selectedYear)
        /\ \A s \in DOMAIN ms : (s = r) = (ms[s] = ms[r])
        /\ \A s \in DOMAIN ms : ms[s] \in Nat
    BY <2>1, <2>2, MonthKeys
  <2>4. monthsButtons[r].key = ms[r]
    BY <2>2 DEF ButtonsFor
  <2>5. \A s \in DOMAIN ms : (s = r /\ selectedMonth # ms[r]) = (ms[s] = new)
    BY <2>2, <2>3, GraphAssumption
  <2> HIDE DEF ms
  <2>6. monthsButtons' = ButtonsFor(ms, new)
    <3>1. monthsButtons' = [s \in DOMAIN ms |->
            [monthsButtons[s] EXCEPT !.on = s = r /\ selectedMonth # ms[r]]]
      BY <1>5, <2>2, <2>4 DEF onTapMonthButton
    <3> HIDE DEF new
    <3>2. \A s \in DOMAIN ms :
            [monthsButtons[s] EXCEPT !.on = s = r /\ selectedMonth # ms[r]]
              = [key |-> ms[s], on |-> ms[s] = new]
      BY <2>2, <2>5 DEF ButtonsFor
    <3> QED BY <3>1, <3>2 DEF ButtonsFor
  <2>7. /\ selectedMonth' = new
        /\ selectedBoughtGoods' =
             IF new = Nil THEN boughtGoodsMonthList(boughtGoods, selectedYear)
                          ELSE boughtGoodsDateList(boughtGoods, new)
        /\ UNCHANGED <<screen, boughtGoods, selectedYear, yearsButtons, opened>>
        /\ opened = Nil
    BY <1>5, <2>1, <2>4 DEF onTapMonthButton, onTapMonth, Tappable
  <2>8. new = Nil \/ new \in MonthsOf(boughtGoods, selectedYear)
    BY <2>3
  <2> HIDE DEF new
  <2>9. ShownConsistently'
    BY <2>1, <2>6, <2>7, <2>8 DEF ShownConsistently, ms
  <2> QED BY <2>1, <2>7, <2>9 DEF GInv, Tappable
<1>6. ASSUME NEW r \in DOMAIN selectedBoughtGoods, didSelectItemAt(r)
      PROVE  GInv'
  <2>1. CASE r \in DOMAIN monthsButtons /\ onTapMonthButton(r)
    BY <1>5, <2>1
  <2>2. CASE /\ graphType = "date"
             /\ Tappable
             /\ \E first \in selectedBoughtGoods[r] : opened' = first.boughtDate
             /\ UNCHANGED <<screen, boughtGoods, selectedYear, selectedMonth,
                            selectedBoughtGoods, yearsButtons, monthsButtons>>
    <3> DEFINE goods == {g \in boughtGoods : g.yearMonth = selectedMonth}
    <3>1. /\ boughtGoods \in SUBSET Purchases /\ ShownConsistently
          /\ selectedMonth # Nil /\ selectedMonth \in Keys(boughtGoods, "yearMonth")
      BY <2>2 DEF Tappable, GInv, ShownConsistently, graphType, MonthsOf
    <3>2. selectedBoughtGoods = GroupBy(goods, "boughtDate")
      BY <3>1 DEF ShownConsistently, boughtGoodsDateList
    <3>3. goods \in SUBSET Purchases
      BY <3>1
    <3>4. selectedBoughtGoods[r] \subseteq goods
      <4> HIDE DEF goods
      <4> QED BY <3>2, <3>3, GroupProperties DEF DateKeys
    <3>5. PICK first \in goods : opened' = first.boughtDate
      BY <2>2, <3>4
    <3>6. ShownConsistently'
      BY <2>2, <3>1, <3>5 DEF ShownConsistently
    <3> QED BY <2>2, <3>1, <3>6 DEF GInv, Tappable
  <2> QED BY <1>6, <2>1, <2>2 DEF didSelectItemAt
<1>7. CASE closeHistory
  BY <1>7 DEF closeHistory, GInv, ShownConsistently
<1>8. CASE dismiss
  BY <1>8 DEF dismiss, GInv
<1>9. CASE UNCHANGED vars
  BY <1>9 DEF vars, contents, GInv, ShownConsistently
<1> QED
  BY <1>1, <1>2, <1>3, <1>4, <1>5, <1>6, <1>7, <1>8, <1>9 DEF Next

\* Through every load and every sequence of taps, all that the screen shows is
\* a function of the purchases and of the selection.
THEOREM GInvHolds == Spec => []GInv
BY InitGInv, NextGInv, PTL DEF Spec

-----------------------------------------------------------------------------
(* What follows from it.                                                   *)

\* The bars of a month selection and of a year selection.
LEMMA BarsShown ==
  ASSUME GInv, screen = "loaded", boughtGoods # {}
  PROVE  /\ boughtGoods \in SUBSET Purchases
         /\ ShownConsistently
         /\ selectedYear \in Nat \ {0}
         /\ selectedMonth # Nil =>
              /\ selectedBoughtGoods =
                   GroupBy({g \in boughtGoods : g.yearMonth = selectedMonth}, "boughtDate")
              /\ selectedMonth \in Nat /\ selectedMonth \div 100 = selectedYear
         /\ selectedMonth = Nil =>
              selectedBoughtGoods =
                GroupBy({g \in boughtGoods : g.year = selectedYear}, "yearMonth")
<1>1. boughtGoods \in SUBSET Purchases /\ ShownConsistently
  BY DEF GInv
<1>2. selectedYear \in Nat \ {0}
  BY <1>1, GraphAssumption DEF ShownConsistently, Keys
<1>3. ASSUME selectedMonth # Nil
      PROVE  /\ selectedMonth \in Keys(boughtGoods, "yearMonth")
             /\ selectedMonth \in Nat /\ selectedMonth \div 100 = selectedYear
  <2>1. selectedMonth \in Keys(boughtGoods, "yearMonth") /\ StartsWith(selectedMonth, selectedYear)
    BY <1>1, <1>3 DEF ShownConsistently, MonthsOf
  <2>2. selectedMonth \in Nat
    BY <1>1, <2>1, GraphAssumption DEF Keys
  <2> QED BY <1>2, <2>1, <2>2 DEF StartsWith, EmptyYear
<1> QED BY <1>1, <1>2, <1>3 DEF ShownConsistently, boughtGoodsMonthList, boughtGoodsDateList

\* After any sequence of taps the bars hold the purchases of the selection
\* (BarsFollowSelection), whatever purchases are stored and whether or not the
\* keys of a purchase agree.
THEOREM BarsFollowSelectionHolds == Spec => []BarsFollowSelection
<1>1. GInv => BarsFollowSelection
  <2> SUFFICES ASSUME GInv, Tappable
               PROVE  BarsFollowSelection
    BY DEF BarsFollowSelection
  <2>1. screen = "loaded" /\ boughtGoods # {}
    BY DEF Tappable
  <2>2. CASE selectedMonth = Nil
    <3> DEFINE goods == {g \in boughtGoods : g.year = selectedYear}
               ks == Ascending(Keys(goods, "yearMonth"))
    <3>1. goods \in SUBSET Purchases /\ selectedBoughtGoods = GroupBy(goods, "yearMonth")
      BY <2>1, <2>2, BarsShown
    <3> HIDE DEF goods
    <3>2. /\ UNION ToSet(selectedBoughtGoods) = goods
          /\ \A r \in DOMAIN selectedBoughtGoods :
               /\ selectedBoughtGoods[r] = {g \in goods : g["yearMonth"] = ks[r]}
               /\ selectedBoughtGoods[r] # {}
          /\ \A r, s \in DOMAIN selectedBoughtGoods : r < s => ks[r] < ks[s]
      BY <3>1, GroupProperties DEF DateKeys
    <3> HIDE DEF ks
    <3> QED BY <2>2, <3>2 DEF BarsFollowSelection, goods
  <2>3. CASE selectedMonth # Nil
    <3> DEFINE goods == {g \in boughtGoods : g.yearMonth = selectedMonth}
               ks == Ascending(Keys(goods, "boughtDate"))
    <3>1. /\ goods \in SUBSET Purchases /\ selectedBoughtGoods = GroupBy(goods, "boughtDate")
          /\ selectedMonth \div 100 = selectedYear
      BY <2>1, <2>3, BarsShown
    <3> HIDE DEF goods
    <3>2. /\ UNION ToSet(selectedBoughtGoods) = goods
          /\ \A r \in DOMAIN selectedBoughtGoods :
               /\ selectedBoughtGoods[r] = {g \in goods : g["boughtDate"] = ks[r]}
               /\ selectedBoughtGoods[r] # {}
          /\ \A r, s \in DOMAIN selectedBoughtGoods : r < s => ks[r] < ks[s]
      BY <3>1, GroupProperties DEF DateKeys
    <3> HIDE DEF ks
    <3>3. \A r, s \in DOMAIN selectedBoughtGoods :
            \A g \in selectedBoughtGoods[r], h \in selectedBoughtGoods[s] :
              r < s => g.boughtDate < h.boughtDate
      BY <3>2
    <3>4. UNION ToSet(selectedBoughtGoods)
            = {g \in boughtGoods : IF selectedMonth = Nil THEN g.year = selectedYear
                                                         ELSE g.yearMonth = selectedMonth}
      BY <2>3, <3>2 DEF goods
    <3>5. \A r, s \in DOMAIN selectedBoughtGoods :
            \A g \in selectedBoughtGoods[r], h \in selectedBoughtGoods[s] :
              r < s => IF selectedMonth = Nil THEN g.yearMonth < h.yearMonth
                                              ELSE g.boughtDate < h.boughtDate
      BY <2>3, <3>3
    <3> QED BY <3>1, <3>2, <3>4, <3>5, Zenon DEF BarsFollowSelection
  <2> QED BY <2>2, <2>3
<1> QED BY <1>1, GInvHolds, PTL

\* After any sequence of taps exactly the selected year and exactly the
\* selected month are highlighted (HighlightFollowsSelection).
THEOREM HighlightFollowsSelectionHolds == Spec => []HighlightFollowsSelection
<1>1. GInv => HighlightFollowsSelection
  <2> SUFFICES ASSUME GInv, Tappable
               PROVE  HighlightFollowsSelection
    BY DEF HighlightFollowsSelection
  <2> DEFINE ks == yearKeys(boughtGoods)
             ms == yearMonthKeys(boughtGoods, selectedYear)
  <2>1. boughtGoods \in SUBSET Purchases /\ ShownConsistently
    BY BarsShown DEF Tappable
  <2>2. \E r \in DOMAIN ks : ks[r] = selectedYear
    BY <2>1, YearKeys DEF ShownConsistently
  <2>3. selectedMonth # Nil => \E r \in DOMAIN ms : ms[r] = selectedMonth
    <3>1. selectedMonth # Nil => selectedMonth \in MonthsOf(boughtGoods, selectedYear)
      BY <2>1 DEF ShownConsistently
    <3>2. \A m \in MonthsOf(boughtGoods, selectedYear) : \E r \in DOMAIN ms : ms[r] = m
      BY <2>1, MonthKeys
    <3> QED BY <3>1, <3>2, Zenon
  <2>4. yearsButtons = ButtonsFor(ks, selectedYear) /\ monthsButtons = ButtonsFor(ms, selectedMonth)
    BY <2>1 DEF ShownConsistently
  <2> HIDE DEF ks, ms
  <2> QED BY <2>2, <2>3, <2>4 DEF HighlightFollowsSelection, ButtonsFor
<1> QED BY <1>1, GInvHolds, PTL

\* Where the keys of each purchase were read on one day, a bar leads to the
\* purchases it shows (BarsLeadToTheirPurchases).
THEOREM BarsLeadToTheirPurchasesHolds == Spec => []BarsLeadToTheirPurchases
<1>1. GInv => BarsLeadToTheirPurchases
  <2> SUFFICES ASSUME GInv, screen = "loaded", boughtGoods # {}, \A g \in boughtGoods : OneDay(g)
               PROVE  BarsLeadToTheirPurchases
    BY DEF BarsLeadToTheirPurchases
  <2>1. boughtGoods \in SUBSET Purchases /\ ShownConsistently /\ selectedYear \in Nat \ {0}
    BY BarsShown
  <2>2. ASSUME graphType = "month", NEW r \in DOMAIN selectedBoughtGoods
        PROVE  /\ r \in DOMAIN monthsButtons
               /\ selectedBoughtGoods[r] = {g \in boughtGoods : g.yearMonth = monthsButtons[r].key}
    <3> DEFINE goods == {g \in boughtGoods : g.year = selectedYear}
               ms == yearMonthKeys(boughtGoods, selectedYear)
    <3>1. /\ goods \in SUBSET Purchases
          /\ selectedMonth = Nil /\ selectedBoughtGoods = GroupBy(goods, "yearMonth")
      BY <2>1, <2>2, BarsShown DEF graphType
    <3>2. Keys(goods, "yearMonth") = MonthsOf(boughtGoods, selectedYear)
      BY <2>1 DEF Keys, MonthsOf, StartsWith, EmptyYear, OneDay
    <3>3. ms = Ascending(Keys(goods, "yearMonth"))
      BY <3>2 DEF yearMonthKeys, MonthsOf
    <3>4. \A g \in boughtGoods, m \in Keys(goods, "yearMonth") : g.yearMonth = m => g \in goods
      BY DEF Keys, OneDay
    <3> HIDE DEF goods, ms
    <3>5. /\ DOMAIN selectedBoughtGoods = DOMAIN ms
          /\ ms[r] \in Keys(goods, "yearMonth")
          /\ selectedBoughtGoods[r] = {g \in goods : g["yearMonth"] = ms[r]}
      BY <2>2, <3>1, <3>3, GroupProperties DEF DateKeys
    <3>6. r \in DOMAIN monthsButtons /\ monthsButtons[r].key = ms[r]
      BY <2>1, <2>2, <3>5 DEF ShownConsistently, ButtonsFor, ms
    <3>7. goods \subseteq boughtGoods
      BY DEF goods
    <3> QED BY <3>4, <3>5, <3>6, <3>7
  <2>3. ASSUME opened # Nil
        PROVE  {g \in boughtGoods : g.boughtDate = opened} \in ToSet(selectedBoughtGoods)
    <3> DEFINE goods == {g \in boughtGoods : g.yearMonth = selectedMonth}
               ks == Ascending(Keys(goods, "boughtDate"))
    <3>1. PICK first \in goods : first.boughtDate = opened
      BY <2>1, <2>3 DEF ShownConsistently
    <3>2. opened \in Keys(goods, "boughtDate")
      BY <3>1 DEF Keys
    <3>3. goods \in SUBSET Purchases /\ selectedBoughtGoods = GroupBy(goods, "boughtDate")
      BY <2>1, <2>3, BarsShown DEF ShownConsistently
    <3>4. {g \in boughtGoods : g.boughtDate = opened} = {g \in goods : g.boughtDate = opened}
      BY <3>1 DEF OneDay
    <3> HIDE DEF goods
    <3>5. PICK r \in DOMAIN selectedBoughtGoods :
            selectedBoughtGoods[r] = {g \in goods : g["boughtDate"] = opened}
      BY <3>2, <3>3, GroupProperties DEF DateKeys
    <3> QED BY <3>4, <3>5 DEF ToSet
  <2> QED BY <2>2, <2>3 DEF BarsLeadToTheirPurchases
<1> QED BY <1>1, GInvHolds, PTL
=============================================================================
