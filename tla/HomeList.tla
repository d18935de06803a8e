------------------------------- MODULE HomeList -------------------------------
(***************************************************************************)
(* The rows of Home: HomeCollectionViewModel sorts the goods into category *)
(* sections, HomeCollectionViewCell shows them in a table.                 *)
(*                                                                         *)
(* A load that succeeds asks the collection view to reload, which happens  *)
(* at the next layout pass: HomeViewController.cellForItemAt then binds a  *)
(* new view model to the cell, and reloads the cell's table only if the    *)
(* last answer was a success.  The table keeps the numbers of sections and *)
(* rows of its last reload; everything else, a tap included, is looked up  *)
(* in the view model the cell has now.                                     *)
(*                                                                         *)
(* What Home has to do with AddGoods here is the shared overlay: the one   *)
(* screen moves it away from the other.                                    *)
(***************************************************************************)
EXTENDS KeyOrder, SequencesExt

CONSTANTS
  Goods,        \* ids, ordered as Firestore orders them
  Category,     \* the category of each: what AddGoods and revert can store
  MaxReads,     \* bound: loads in flight at a time
  MaxChanges,   \* bound: writes, of this device or another one
  MaxFaults     \* bound: loads that fail

GoodsCategory == <<"food", "household", "clothes", "miscellaneous">>

ASSUME HomeListAssumption ==
  /\ Goods \subseteq Nat \ {0} /\ IsFiniteSet(Goods)
  /\ Category \in [Goods -> Range(GoodsCategory)]
  /\ MaxReads \in Nat \ {0} /\ MaxChanges \in Nat /\ MaxFaults \in Nat

VARIABLES
  stored,        \* the goods collection, as loadGoods would return it
  reads,         \* loads in flight
  goods,         \* HomeViewModel.goods
  reloadState,   \* HomeViewModel.reloadState
  needsLayout,   \* reloadData was called, the layout pass is to come
  bound,         \* the goods of the cell's view model; NotBound before the first
  table,         \* the goods the table was last loaded with
  screen,        \* AddGoods is presented
  host,          \* what the overlay is on: "none", "home" or "screen"
  changes,
  faults

listVars == <<goods, reloadState, needsLayout, bound, table>>
vars == <<stored, reads, listVars, screen, host, changes, faults>>

NotBound == {0}

TypeOK ==
  /\ stored \subseteq Goods /\ goods \subseteq Goods /\ table \subseteq Goods
  /\ bound \in (SUBSET Goods) \cup {NotBound}
  /\ reloadState \in {"loading", "success", "failed"}
  /\ needsLayout \in BOOLEAN
  /\ screen \in BOOLEAN /\ host \in {"none", "home", "screen"}
  /\ reads \in 0 .. MaxReads /\ changes \in 0 .. MaxChanges /\ faults \in 0 .. MaxFaults

-----------------------------------------------------------------------------
(* HomeCollectionViewModel.                                                *)

\* lifeGoods, fashionGoods, hobbyGoods and miscellaneousGoods.
getGoodsData(gs, category) ==
  Ascending({g \in gs : Category[g] = category})

\* The positions in GoodsCategory.allCases of the categories with goods.
Filled(gs) == {n \in DOMAIN GoodsCategory : getGoodsData(gs, GoodsCategory[n]) # <<>>}

\* Faulty variant: the last category is not asked for.
categorysOfThree(gs) == KeptAt(GoodsCategory, Filled(gs) \ {4})

categorys(gs) == KeptAt(GoodsCategory, Filled(gs))

getSectionCount(gs) == Cardinality(Filled(gs))

(* HomeCollectionViewCell, for a table view that asks about section s.     *)

numberOfRowsInSection(gs, s) == Len(getGoodsData(gs, categorys(gs)[s]))

\* didSelectRowAt and cellForRowAt.
didSelectRowAt(gs, s, r) == getGoodsData(gs, categorys(gs)[s])[r]

Rows(gs) ==
  {row \in (1 .. getSectionCount(gs)) \X (1 .. Cardinality(gs)) :
     row[2] <= numberOfRowsInSection(gs, row[1])}

-----------------------------------------------------------------------------
(* HomeViewModel and HomeViewController.                                   *)

\* viewDidLoad: the listener's first snapshot is handled.
Init ==
  /\ stored \in SUBSET Goods
  /\ reads = 1
  /\ goods = {}
  /\ reloadState = "loading"
  /\ needsLayout = TRUE
  /\ bound = NotBound
  /\ table = {}
  /\ screen = FALSE
  /\ host = "home"
  /\ changes = 0
  /\ faults = 0

\* A write changes the collection; the listener loads the goods.
observeGoodsData ==
  /\ reads < MaxReads
  /\ changes < MaxChanges
  /\ changes' = changes + 1
  /\ \E g \in Goods : stored' \in {stored \cup {g}, stored \ {g}} \ {stored}
  /\ reads' = reads + 1
  /\ host' = "home"
  /\ UNCHANGED <<listVars, screen, faults>>

\* Faulty variant: bindViewModel does not reload the collection view.
loadGoodsSucceedsUnseen ==
  /\ reads > 0
  /\ reads' = reads - 1
  /\ goods' = stored
  /\ reloadState' = "success"
  /\ host' = "none"
  /\ UNCHANGED <<stored, needsLayout, bound, table, screen, changes, faults>>

loadGoodsSucceeds ==
  /\ reads > 0
  /\ reads' = reads - 1
  /\ goods' = stored
  /\ needsLayout' = TRUE
  /\ reloadState' = "success"
  /\ host' = "none"
  /\ UNCHANGED <<stored, bound, table, screen, changes, faults>>

\* Faulty variant: the response is assigned without a look at it.
loadGoodsFailsNil ==
  /\ reads > 0
  /\ reads' = reads - 1
  /\ goods' = NotBound
  /\ reloadState' = "failed"
  /\ host' = "home"
  /\ faults < MaxFaults
  /\ faults' = faults + 1
  /\ UNCHANGED <<stored, needsLayout, bound, table, screen, changes>>

loadGoodsFails ==
  /\ reads > 0
  /\ reads' = reads - 1
  /\ reloadState' = "failed"
  /\ host' = "home"
  /\ faults < MaxFaults
  /\ faults' = faults + 1
  /\ UNCHANGED <<stored, goods, needsLayout, bound, table, screen, changes>>

\* Faulty variant: the cell is bound and never reloaded.
cellForItemAtBindOnly ==
  /\ needsLayout
  /\ needsLayout' = FALSE
  /\ bound' = goods
  /\ table' = IF bound = NotBound THEN goods ELSE table
  /\ UNCHANGED <<stored, reads, goods, reloadState, screen, host, changes, faults>>

\* The layout pass.  A new cell's table loads itself.
cellForItemAt ==
  /\ needsLayout
  /\ needsLayout' = FALSE
  /\ bound' = goods
  /\ table' = IF reloadState = "success" \/ bound = NotBound THEN goods ELSE table
  /\ UNCHANGED <<stored, reads, goods, reloadState, screen, host, changes, faults>>

-----------------------------------------------------------------------------
(* AddGoods, as far as the overlay goes.                                   *)

Tappable == ~screen /\ host # "home" /\ bound # NotBound

add ==
  /\ Tappable
  /\ screen' = TRUE
  /\ UNCHANGED <<stored, reads, listVars, host, changes, faults>>

\* .loading of AddGoods: addSubview takes the overlay away from Home.
addGoods ==
  /\ screen
  /\ host' = "screen"
  /\ UNCHANGED <<stored, reads, listVars, screen, changes, faults>>

\* .success or .failed: stop takes it away from whatever it is on.
addGoodsDone ==
  /\ screen
  /\ host' = "none"
  /\ screen' = FALSE
  /\ UNCHANGED <<stored, reads, listVars, changes, faults>>

Next ==
  \/ observeGoodsData \/ loadGoodsSucceeds \/ loadGoodsFails \/ cellForItemAt
  \/ add \/ addGoods \/ addGoodsDone

Spec == Init /\ [][Next]_vars

\* Loads are answered and layout passes come.
FairSpec == Spec /\ WF_vars(loadGoodsSucceeds \/ loadGoodsFails) /\ WF_vars(cellForItemAt)

-----------------------------------------------------------------------------
(* Properties.                                                             *)

\* The sections lose and repeat nothing: every row of a table is in range of
\* the view model it was loaded with, and rows and goods correspond one to
\* one.  getSectionCount and categorys count the sections separately.
EveryGoodsHasOneRow ==
  /\ getSectionCount(table) = Len(categorys(table))
  /\ \A g \in table : \E row \in Rows(table) :
       /\ didSelectRowAt(table, row[1], row[2]) = g
       /\ \A other \in Rows(table) \ {row} : didSelectRowAt(table, other[1], other[2]) # g
  /\ Cardinality(Rows(table)) = Cardinality(table)

\* A row that can be tapped opens the goods it shows, unless the last load
\* failed: only then can the table be older than the view model of its cell
\* (HomeViewController.cellForItemAt, line 207).
RowOpensWhatItShows ==
  Tappable /\ ~needsLayout /\ reloadState # "failed" =>
    \A row \in Rows(table) :
      /\ row \in Rows(bound)
      /\ didSelectRowAt(bound, row[1], row[2]) = didSelectRowAt(table, row[1], row[2])

\* The table comes to show the collection once it stops changing, unless the
\* last load failed.
ListCatchesUp ==
  <>[](table = stored \/ reloadState = "failed")
=============================================================================
