--------------------------- MODULE HomeListProofs ---------------------------
(***************************************************************************)
(* Proofs about HomeList, for any finite set of goods and any assignment   *)
(* of categories: the rows of a table and the goods it was loaded with     *)
(* correspond one to one, and a row opens the goods it shows.              *)
(***************************************************************************)
EXTENDS HomeList, KeyOrderProofs

-----------------------------------------------------------------------------
(* Sections and rows.                                                      *)

Of(gs, category) == {g \in gs : Category[g] = category}

LEMMA Sections ==
  /\ GoodsCategory \in Seq(Range(GoodsCategory))
  /\ Len(GoodsCategory) = 4 /\ DOMAIN GoodsCategory = 1 .. 4
  /\ \A m, n \in 1 .. 4 : GoodsCategory[m] = GoodsCategory[n] => m = n
  /\ \A c \in Range(GoodsCategory) : \E n \in 1 .. 4 : GoodsCategory[n] = c
<1>1. GoodsCategory = <<"food", "household", "clothes", "miscellaneous">>
  BY DEF GoodsCategory
<1>2. /\ Len(GoodsCategory) = 4 /\ DOMAIN GoodsCategory = 1 .. 4
      /\ GoodsCategory[1] = "food" /\ GoodsCategory[2] = "household"
      /\ GoodsCategory[3] = "clothes" /\ GoodsCategory[4] = "miscellaneous"
  BY <1>1
<1>3. \A n \in 1 .. 4 : n \in {1, 2, 3, 4}
  OBVIOUS
<1>4. \A n \in 1 .. 4 : GoodsCategory[n] \in Range(GoodsCategory)
  BY <1>2 DEF Range
<1>5. GoodsCategory \in Seq(Range(GoodsCategory))
  <2>1. Range(GoodsCategory) = {"food", "household", "clothes", "miscellaneous"}
    BY <1>2, <1>3 DEF Range
  <2>2. GoodsCategory \in Seq({"food", "household", "clothes", "miscellaneous"})
    BY <1>1
  <2> QED BY <2>1, <2>2
<1>6. \A m, n \in 1 .. 4 : GoodsCategory[m] = GoodsCategory[n] => m = n
  BY <1>2, <1>3
<1>7. \A c \in Range(GoodsCategory) : \E n \in 1 .. 4 : GoodsCategory[n] = c
  BY <1>2 DEF Range
<1> QED BY <1>2, <1>5, <1>6, <1>7

\* The goods of one category, in the order of their ids.
LEMMA CategoryRows ==
  ASSUME NEW gs \in SUBSET Goods, NEW c
  PROVE  /\ IsFiniteSet(gs) /\ Cardinality(gs) \in Nat
         /\ Cardinality(Of(gs, c)) \in Nat /\ Cardinality(Of(gs, c)) <= Cardinality(gs)
         /\ Len(getGoodsData(gs, c)) = Cardinality(Of(gs, c))
         /\ \A r \in 1 .. Cardinality(Of(gs, c)) : getGoodsData(gs, c)[r] \in Of(gs, c)
         /\ \A q, r \in 1 .. Cardinality(Of(gs, c)) :
              getGoodsData(gs, c)[q] = getGoodsData(gs, c)[r] => q = r
         /\ \A g \in Of(gs, c) :
              \E r \in 1 .. Cardinality(Of(gs, c)) : getGoodsData(gs, c)[r] = g
         /\ getGoodsData(gs, c) # <<>> <=> Of(gs, c) # {}
<1> DEFINE S == Of(gs, c)
           a == Ascending(S)
<1>1. getGoodsData(gs, c) = a
  BY DEF getGoodsData, Of
<1>2. IsFiniteSet(gs)
  BY HomeListAssumption, FS_Subset
<1>3. S \in SUBSET gs /\ S \in SUBSET Int
  <2>1. S \in SUBSET gs
    BY DEF Of
  <2>2. gs \in SUBSET Int
    BY HomeListAssumption
  <2> HIDE DEF S
  <2> QED BY <2>1, <2>2
<1> HIDE DEF S
<1>4. IsFiniteSet(S) /\ Cardinality(S) <= Cardinality(gs)
  BY <1>2, <1>3, FS_Subset
<1>5. Cardinality(S) \in Nat /\ Cardinality(gs) \in Nat
  BY <1>2, <1>4, FS_CardinalityType
<1>6. /\ Len(a) = Cardinality(S) /\ DOMAIN a = 1 .. Cardinality(S) /\ a \in Seq(S)
      /\ \A r \in 1 .. Cardinality(S) : a[r] \in S
      /\ \A g \in S : \E r \in 1 .. Cardinality(S) : a[r] = g
  BY <1>3, <1>4, AscendingProperties
<1>7. \A q, r \in DOMAIN a : (q = r) = (a[q] = a[r])
  BY <1>3, <1>4, AscendingDistinct
<1> HIDE DEF a
<1>8. a # <<>> <=> S # {}
  <2>1. ASSUME a = <<>>, NEW g \in S PROVE FALSE
    <3>1. Cardinality(S) = 0
      BY <1>6, <2>1
    <3> QED BY <1>6, <2>1, <3>1
  <2>2. ASSUME S = {}, a # <<>> PROVE FALSE
    <3>1. Cardinality(S) # 0
      BY <1>6, <2>2, EmptySeq
    <3>2. 1 \in 1 .. Cardinality(S)
      BY <1>5, <3>1
    <3> QED BY <1>6, <2>2, <3>2
  <2> QED BY <2>1, <2>2
<1> QED BY <1>1, <1>2, <1>4, <1>5, <1>6, <1>7, <1>8 DEF S

\* The sections are the categories with goods, each once.
LEMMA SectionsOf ==
  ASSUME NEW gs \in SUBSET Goods
  PROVE  /\ Len(categorys(gs)) = getSectionCount(gs) /\ getSectionCount(gs) \in Nat
         /\ \A s, t \in 1 .. getSectionCount(gs) : categorys(gs)[s] = categorys(gs)[t] => s = t
         /\ \A g \in gs : \E s \in 1 .. getSectionCount(gs) : categorys(gs)[s] = Category[g]
<1> DEFINE F == Filled(gs)
           c == Cardinality(F)
           a == Ascending(F)
<1>1. F \in SUBSET (1 .. Len(GoodsCategory)) /\ getSectionCount(gs) = c
  BY Sections DEF Filled, getSectionCount
<1>2. \A n \in F : n \in 1 .. 4
  BY <1>1, Sections
<1>3. \A n \in 1 .. 4 : n \in F <=> getGoodsData(gs, GoodsCategory[n]) # <<>>
  BY Sections DEF Filled
<1> HIDE DEF F
<1>4. /\ IsFiniteSet(F) /\ F \in SUBSET Int
      /\ Len(categorys(gs)) = c
      /\ \A s \in 1 .. c : a[s] \in F /\ categorys(gs)[s] = GoodsCategory[a[s]]
  <2>1. categorys(gs) = KeptAt(GoodsCategory, F)
    BY DEF categorys, F
  <2> QED BY <1>1, <2>1, Sections, KeptAtProperties
<1>5. /\ c \in Nat /\ DOMAIN a = 1 .. c
      /\ \A n \in F : \E s \in 1 .. c : a[s] = n
  BY <1>4, AscendingProperties
<1>6. \A s, t \in 1 .. c : a[s] = a[t] => s = t
  BY <1>4, <1>5, AscendingDistinct
<1> HIDE DEF c, a
<1>7. ASSUME NEW s \in 1 .. c, NEW t \in 1 .. c, categorys(gs)[s] = categorys(gs)[t]
      PROVE  s = t
  <2>1. GoodsCategory[a[s]] = GoodsCategory[a[t]] /\ a[s] \in 1 .. 4 /\ a[t] \in 1 .. 4
    BY <1>2, <1>4, <1>7
  <2> QED BY <1>6, <2>1, Sections
<1>8. ASSUME NEW g \in gs
      PROVE  \E s \in 1 .. c : categorys(gs)[s] = Category[g]
  <2>1. Category[g] \in Range(GoodsCategory)
    BY HomeListAssumption
  <2>2. PICK n \in 1 .. 4 : GoodsCategory[n] = Category[g]
    BY <2>1, Sections
  <2>3. g \in Of(gs, GoodsCategory[n])
    BY <2>2 DEF Of
  <2>4. n \in F
    BY <1>3, <2>3, CategoryRows
  <2> QED BY <1>4, <1>5, <2>2, <2>4
<1> QED BY <1>1, <1>4, <1>5, <1>7, <1>8

\* Rows and goods correspond one to one.
LEMMA RowsProperties ==
  ASSUME NEW gs \in SUBSET Goods
  PROVE  /\ \A row \in Rows(gs) : didSelectRowAt(gs, row[1], row[2]) \in gs
         /\ \A g \in gs : \E row \in Rows(gs) : didSelectRowAt(gs, row[1], row[2]) = g
         /\ \A p, q \in Rows(gs) :
              didSelectRowAt(gs, p[1], p[2]) = didSelectRowAt(gs, q[1], q[2]) => p = q
         /\ Cardinality(Rows(gs)) = Cardinality(gs)
<1> DEFINE n == getSectionCount(gs)
           m == Cardinality(gs)
           cat(s) == categorys(gs)[s]
           at(p) == didSelectRowAt(gs, p[1], p[2])
<1>1. n \in Nat /\ m \in Nat /\ IsFiniteSet(gs)
  BY SectionsOf, CategoryRows
<1>2. ASSUME NEW p \in Rows(gs)
      PROVE  /\ p = <<p[1], p[2]>> /\ p[1] \in 1 .. n
             /\ p[2] \in 1 .. Cardinality(Of(gs, cat(p[1])))
             /\ at(p) = getGoodsData(gs, cat(p[1]))[p[2]]
             /\ at(p) \in Of(gs, cat(p[1]))
  <2>1. /\ p = <<p[1], p[2]>> /\ p[1] \in 1 .. n /\ p[2] \in 1 .. m
        /\ p[2] <= Len(getGoodsData(gs, cat(p[1])))
    BY DEF Rows, numberOfRowsInSection
  <2>2. p[2] \in 1 .. Cardinality(Of(gs, cat(p[1])))
    BY <2>1, CategoryRows
  <2>3. at(p) = getGoodsData(gs, cat(p[1]))[p[2]]
    BY DEF didSelectRowAt
  <2> QED BY <2>1, <2>2, <2>3, CategoryRows
<1>3. ASSUME NEW p \in Rows(gs) PROVE at(p) \in gs /\ Category[at(p)] = cat(p[1])
  BY <1>2 DEF Of
<1>4. ASSUME NEW g \in gs PROVE \E p \in Rows(gs) : at(p) = g
  <2>1. PICK s \in 1 .. n : cat(s) = Category[g]
    BY SectionsOf
  <2>2. g \in Of(gs, cat(s))
    BY <2>1 DEF Of
  <2>3. PICK r \in 1 .. Cardinality(Of(gs, cat(s))) : getGoodsData(gs, cat(s))[r] = g
    BY <2>2, CategoryRows
  <2>4. r \in 1 .. m /\ r <= Len(getGoodsData(gs, cat(s)))
    BY <1>1, <2>3, CategoryRows
  <2>5. <<s, r>> \in Rows(gs)
    BY <2>1, <2>4 DEF Rows, numberOfRowsInSection
  <2>6. at(<<s, r>>) = g
    BY <2>3 DEF didSelectRowAt
  <2> QED BY <2>5, <2>6
<1>5. ASSUME NEW p \in Rows(gs), NEW q \in Rows(gs), at(p) = at(q)
      PROVE  p = q
  <2>1. cat(p[1]) = cat(q[1])
    BY <1>3, <1>5
  <2>2. p[1] = q[1]
    BY <1>2, <2>1, SectionsOf
  <2>3. p[2] = q[2]
    <3> DEFINE d == getGoodsData(gs, cat(p[1]))
    <3>1. d[p[2]] = d[q[2]]
      BY <1>2, <1>5, <2>2
    <3>2. /\ p[2] \in 1 .. Cardinality(Of(gs, cat(p[1])))
          /\ q[2] \in 1 .. Cardinality(Of(gs, cat(p[1])))
      BY <1>2, <2>2
    <3>3. \A i, j \in 1 .. Cardinality(Of(gs, cat(p[1]))) : d[i] = d[j] => i = j
      BY CategoryRows
    <3> HIDE DEF d, cat
    <3> QED BY <3>1, <3>2, <3>3
  <2> QED BY <1>2, <2>2, <2>3
<1>6. Cardinality(Rows(gs)) = m
  <2> DEFINE f == [p \in Rows(gs) |-> at(p)]
  <2>1. IsFiniteSet(Rows(gs))
    <3>1. IsFiniteSet(1 .. n) /\ IsFiniteSet(1 .. m)
      BY <1>1, FS_Interval
    <3>2. IsFiniteSet((1 .. n) \X (1 .. m))
      <4> HIDE DEF n, m
      <4> QED BY <3>1, FS_Product
    <3>3. Rows(gs) \in SUBSET ((1 .. n) \X (1 .. m))
      BY DEF Rows
    <3> HIDE DEF n, m
    <3> QED BY <3>2, <3>3, FS_Subset
  <2>2. /\ f \in [Rows(gs) -> gs]
        /\ \A p, q \in Rows(gs) : f[p] = f[q] => p = q
        /\ \A g \in gs : \E p \in Rows(gs) : f[p] = g
    BY <1>3, <1>4, <1>5
  <2> HIDE DEF f
  <2>3. f \in Bijection(Rows(gs), gs)
    BY <2>2 DEF Bijection, Injection, Surjection, IsInjective
  <2> QED BY <2>1, <2>3, FS_Bijection DEF ExistsBijection
<1> QED BY <1>3, <1>4, <1>5, <1>6

-----------------------------------------------------------------------------
(* The inductive invariant: the table is as old as its cell, except after  *)
(* a load that failed, or while a layout pass is to come.                  *)

Bound ==
  /\ ~needsLayout /\ bound # NotBound /\ reloadState # "failed" => table = bound
  /\ needsLayout /\ reloadState = "loading" => bound = NotBound

HLInv == TypeOK /\ Bound

LEMMA InitHLInv == Init => HLInv
<1> SUFFICES ASSUME Init PROVE HLInv
  OBVIOUS
<1>1. TypeOK
  <2>1. reads \in 0 .. MaxReads /\ changes \in 0 .. MaxChanges /\ faults \in 0 .. MaxFaults
    BY HomeListAssumption DEF Init
  <2> QED BY <2>1, Zenon DEF Init, TypeOK
<1>2. Bound
  BY DEF Init, Bound
<1> QED BY <1>1, <1>2 DEF HLInv

LEMMA NextHLInv == HLInv /\ [Next]_vars => HLInv'
<1> SUFFICES ASSUME HLInv, [Next]_vars
             PROVE  HLInv'
  OBVIOUS
<1> USE HomeListAssumption DEF HLInv, Bound, TypeOK, listVars
<1>1. CASE observeGoodsData
  BY <1>1 DEF observeGoodsData
<1>2. CASE loadGoodsSucceeds
  BY <1>2 DEF loadGoodsSucceeds
<1>3. CASE loadGoodsFails
  BY <1>3 DEF loadGoodsFails
<1>4. CASE cellForItemAt
  BY <1>4 DEF cellForItemAt
<1>5. CASE add \/ addGoods \/ addGoodsDone
  <2>1. /\ UNCHANGED <<stored, reads, goods, reloadState, needsLayout, bound, table, changes, faults>>
        /\ host' \in {"none", "home", "screen"} /\ screen' \in BOOLEAN
    <3>1. CASE add
      BY <3>1, Zenon DEF add
    <3>2. CASE addGoods
      BY <3>2, Zenon DEF addGoods
    <3>3. CASE addGoodsDone
      BY <3>3, Zenon DEF addGoodsDone
    <3> QED BY <1>5, <3>1, <3>2, <3>3
  <2> QED BY <2>1
<1>6. CASE UNCHANGED vars
  BY <1>6 DEF vars
<1> QED BY <1>1, <1>2, <1>3, <1>4, <1>5, <1>6 DEF Next

\* Loads, layout passes and failures in any order preserve the invariant.
THEOREM HLInvHolds == Spec => []HLInv
BY InitHLInv, NextHLInv, PTL DEF Spec

\* The types of Home's list, the goods it keeps after a failed load included.
THEOREM HomeListTyped == Spec => []TypeOK
<1>1. HLInv => TypeOK
  BY DEF HLInv
<1> QED BY <1>1, HLInvHolds, PTL

\* The sections of any table lose and repeat nothing (EveryGoodsHasOneRow).
THEOREM EveryGoodsHasOneRowHolds == Spec => []EveryGoodsHasOneRow
<1>1. HLInv => EveryGoodsHasOneRow
  <2> SUFFICES ASSUME HLInv PROVE EveryGoodsHasOneRow
    OBVIOUS
  <2>1. table \in SUBSET Goods
    BY DEF HLInv, TypeOK
  <2>2. getSectionCount(table) = Len(categorys(table))
    BY <2>1, SectionsOf
  <2>3. /\ \A g \in table : \E row \in Rows(table) : didSelectRowAt(table, row[1], row[2]) = g
        /\ \A p, q \in Rows(table) :
             didSelectRowAt(table, p[1], p[2]) = didSelectRowAt(table, q[1], q[2]) => p = q
        /\ Cardinality(Rows(table)) = Cardinality(table)
    BY <2>1, RowsProperties
  <2>4. ASSUME NEW g \in table
        PROVE  \E row \in Rows(table) :
                 /\ didSelectRowAt(table, row[1], row[2]) = g
                 /\ \A other \in Rows(table) \ {row} : didSelectRowAt(table, other[1], other[2]) # g
    BY <2>3, Zenon
  <2> QED BY <2>2, <2>3, <2>4 DEF EveryGoodsHasOneRow
<1> QED BY <1>1, HLInvHolds, PTL

\* A row that can be tapped opens the goods it shows, unless the last load
\* failed (RowOpensWhatItShows).
THEOREM RowOpensWhatItShowsHolds == Spec => []RowOpensWhatItShows
<1>1. HLInv => RowOpensWhatItShows
  BY DEF HLInv, Bound, RowOpensWhatItShows, Tappable
<1> QED BY <1>1, HLInvHolds, PTL
=============================================================================
