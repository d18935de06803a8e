------------------------- MODULE ShoppingListProofs -------------------------
(***************************************************************************)
(* Proofs about ShoppingList: type correctness, the inductive invariant,   *)
(* and from it NoLoss and CountBounded, for every set of items and every   *)
(* bound.                                                                  *)
(***************************************************************************)
EXTENDS ShoppingList, FirebaseManagerProofs, FiniteSetTheorems

TypeInv == TypeOK /\ CallbacksMatch

-----------------------------------------------------------------------------
(* The screens.                                                            *)

LEMMA ViewModelsDomain ==
  ASSUME ScreensTypeOK
  PROVE  DOMAIN vms = 1 .. Len(vms) /\ Len(vms) \in Nat
BY LenProperties DEF ScreensTypeOK

\* A controller that is told the outcome closes itself and nothing else moves.
LEMMA ReportStep ==
  ASSUME ScreensTypeOK, NEW o, Report(o)
  PROVE  ScreensTypeOK' /\ vms' = vms /\ root' = root
<1>1. CASE o \in shown /\ Stop /\ Dismiss(o) /\ UNCHANGED <<root, vms>>
  BY <1>1 DEF ScreensTypeOK, Stop, Dismiss
<1>2. CASE UNCHANGED screenVars
  BY <1>2 DEF ScreensTypeOK, screenVars
<1> QED BY <1>1, <1>2 DEF Report

\* Presenting a controller keeps the view models of the earlier ones.
LEMMA PresentStep ==
  ASSUME ScreensTypeOK, NEW vm \in ViewModel, Present(vm), UNCHANGED <<root, host>>
  PROVE  /\ ScreensTypeOK'
         /\ DOMAIN vms' = DOMAIN vms \cup {Len(vms) + 1}
         /\ \A o \in DOMAIN vms : vms'[o] = vms[o]
         /\ Len(vms) + 1 \notin DOMAIN vms
         /\ vms'[Len(vms) + 1] = vm
<1>1. DOMAIN vms = 1 .. Len(vms) /\ Len(vms) \in Nat
  BY ViewModelsDomain
<1>2. /\ vms' \in Seq(ViewModel)
      /\ Len(vms') = Len(vms) + 1
      /\ \A i \in 1 .. Len(vms) : vms'[i] = vms[i]
      /\ vms'[Len(vms) + 1] = vm
  BY AppendProperties DEF Present, ScreensTypeOK
<1>3. DOMAIN vms' = DOMAIN vms \cup {Len(vms) + 1}
  <2>1. DOMAIN vms' = 1 .. (Len(vms) + 1)
    BY <1>2, LenProperties
  <2> QED BY <2>1, <1>1
<1>4. Len(vms) + 1 \notin DOMAIN vms
  BY <1>1
<1>5. ScreensTypeOK'
  BY <1>2, <1>3 DEF Present, ScreensTypeOK
<1> QED BY <1>1, <1>2, <1>3, <1>4, <1>5

-----------------------------------------------------------------------------
(* The writes of the chains.                                               *)

LEMMA GoodsDocs ==
  ASSUME NEW i \in Items
  PROVE  /\ goods(i) \in Docs /\ boughtgoods(i) \in Docs
         /\ Fits(goods(i), Absent) /\ Fits(goods(i), GoodsData)
         /\ \A d \in Dates : Fits(boughtgoods(i), d)
BY DEF Docs, Fits, goods, boughtgoods, datecount

LEMMA CountDocs ==
  ASSUME NEW d \in Dates, NEW n \in Int
  PROVE  datecount(d) \in Docs /\ Fits(datecount(d), n)
BY DEF Docs, Fits, goods, boughtgoods, datecount

LEMMA DoneIsCallback ==
  ASSUME NEW step \in Steps, NEW o \in Nat \ {0}
  PROVE  /\ Done(step, o) \in Callbacks
         /\ Done(step, o).step = step /\ Done(step, o).owner = o
BY DEF Done, Callbacks

LEMMA DatesAreValues == Dates \subseteq Values /\ Absent \in Values /\ GoodsData \in Values
BY DEF Dates, Values

\* The write behind each call a screen makes.
LEMMA ScreenCalls ==
  ASSUME ScreensTypeOK, NEW o \in DOMAIN vms, NEW i \in Items, NEW d \in Dates
  PROVE  /\ addGoods(i, Done("addGoods", o)) \in Seq(Write)
         /\ Range(addGoods(i, Done("addGoods", o))) \subseteq
              {[doc |-> goods(i), val |-> GoodsData, done |-> Done("addGoods", o)]}
         /\ addBoughtGoods(i, d, Done("addBoughtGoods", o)) \in Seq(Write)
         /\ Range(addBoughtGoods(i, d, Done("addBoughtGoods", o))) \subseteq
              {[doc |-> boughtgoods(i), val |-> d, done |-> Done("addBoughtGoods", o)]}
         /\ deleteGoods(i, Done("deleteGoods", o)) \in Seq(Write)
         /\ Range(deleteGoods(i, Done("deleteGoods", o))) \subseteq
              {[doc |-> goods(i), val |-> Absent, done |-> Done("deleteGoods", o)]}
         /\ updateDateCount(o) \in Seq(Write)
         /\ Range(updateDateCount(o)) \subseteq
              {[doc |-> datecount(vms[o].date), val |-> vms[o].count + 1,
                done |-> Done("updateDateCount", o)]}
<1>1. o \in Nat \ {0}
  BY ViewModelsDomain
<1>2. \A step \in Steps : Done(step, o) \in Callbacks
  BY <1>1, DoneIsCallback
<1>3. {"addGoods", "addBoughtGoods", "deleteGoods", "updateDateCount"} \subseteq Steps
  BY DEF Steps
<1>4. vms[o] \in ViewModel
  BY ViewModelsDomain, ElementOfSeq DEF ScreensTypeOK
<1>5. vms[o].date \in Dates /\ vms[o].count + 1 \in Int
  BY <1>4 DEF ViewModel
<1>6. vms[o].count + 1 \in Values
  BY <1>5 DEF Values
<1>7. /\ Calls(goods(i), GoodsData, Done("addGoods", o)) \in Seq(Write)
      /\ Range(Calls(goods(i), GoodsData, Done("addGoods", o))) \subseteq
           {[doc |-> goods(i), val |-> GoodsData, done |-> Done("addGoods", o)]}
  BY <1>2, <1>3, CallsQueueOne, GoodsDocs, DatesAreValues
<1>8. /\ Calls(boughtgoods(i), d, Done("addBoughtGoods", o)) \in Seq(Write)
      /\ Range(Calls(boughtgoods(i), d, Done("addBoughtGoods", o))) \subseteq
           {[doc |-> boughtgoods(i), val |-> d, done |-> Done("addBoughtGoods", o)]}
  BY <1>2, <1>3, CallsQueueOne, GoodsDocs, DatesAreValues
<1>9. /\ Calls(goods(i), Absent, Done("deleteGoods", o)) \in Seq(Write)
      /\ Range(Calls(goods(i), Absent, Done("deleteGoods", o))) \subseteq
           {[doc |-> goods(i), val |-> Absent, done |-> Done("deleteGoods", o)]}
  BY <1>2, <1>3, CallsQueueOne, GoodsDocs, DatesAreValues
<1>10. /\ Calls(datecount(vms[o].date), vms[o].count + 1, Done("updateDateCount", o))
            \in Seq(Write)
       /\ Range(Calls(datecount(vms[o].date), vms[o].count + 1, Done("updateDateCount", o)))
            \subseteq {[doc |-> datecount(vms[o].date), val |-> vms[o].count + 1,
                        done |-> Done("updateDateCount", o)]}
  BY <1>2, <1>3, <1>5, <1>6, CallsQueueOne, CountDocs
<1> QED BY <1>7, <1>8, <1>9, <1>10
        DEF addGoods, addBoughtGoods, deleteGoods, updateDateCount, updateGoodsCountForDate

-----------------------------------------------------------------------------
(* Type correctness, together with the match of callbacks and view models. *)

\* The oldest write's callback, when it was not lost, knows its view model.
LEMMA OldestOwner ==
  ASSUME TypeInv, NEW step \in Steps, Oldest(step)
  PROVE  /\ Owner \in DOMAIN vms
         /\ vms[Owner] \in ViewModel
         /\ Head(queue) \in Pending /\ Head(queue) \in Write
         /\ step # "addGoods" => vms[Owner].item \in Items
         /\ step = "addBoughtGoods" => Head(queue).doc = boughtgoods(vms[Owner].item)
<1>1. Head(queue) \in Pending /\ Head(queue) \in Write
  BY RangeTail DEF TypeInv, TypeOK, FsTypeOK, Oldest, Pending
<1>2. Head(queue).done # Lost
  BY DEF Oldest, Lost, Steps
<1>3. /\ Owner \in DOMAIN vms
      /\ step # "addGoods" => vms[Owner].item \in Items
      /\ step = "addBoughtGoods" => Head(queue).doc = boughtgoods(vms[Owner].item)
  BY <1>1, <1>2 DEF TypeInv, CallbacksMatch, CallbackMatches, Owner, Oldest
<1>4. vms[Owner] \in ViewModel
  BY <1>3, ViewModelsDomain, ElementOfSeq DEF TypeInv, TypeOK, ScreensTypeOK
<1> QED BY <1>1, <1>3, <1>4

LEMMA HomeWaitsType ==
  ASSUME HomeTypeOK, HomeWaits, UNCHANGED today
  PROVE  HomeTypeOK'
BY DEF HomeTypeOK, HomeWaits, GoodsListener

\* A store step that queues only writes with matching callbacks, while no view
\* model is added, preserves the match.
LEMMA CallbacksKept ==
  ASSUME CallbacksMatch, vms' = vms, NEW N, Pending' \subseteq Pending \cup N,
         \A w \in N : CallbackMatches(w)
  PROVE  CallbacksMatch'
BY DEF CallbacksMatch, CallbackMatches

LEMMA CallbacksSettled ==
  ASSUME CallbacksMatch, vms' = vms, Pending' \subseteq Pending
  PROVE  CallbacksMatch'
BY DEF CallbacksMatch, CallbackMatches

\* Every callback of a settled write: the store, the screens and the pending
\* writes after it.
LEMMA SettleSummary ==
  ASSUME TypeInv, SettleWrite
  PROVE  /\ FsTypeOK' /\ ScreensTypeOK' /\ HomeWaits
         /\ vms' = vms /\ root' = root
         /\ used' = used /\ dropped' = dropped
         /\ committed' \in SUBSET DOMAIN vms
         /\ CallbacksMatch'
<1> USE DEF TypeInv
<1>0. <<>> \in Seq(Write) /\ Range(<<>>) = {}
  BY DEF Range
<1>a. FsTypeOK /\ ScreensTypeOK /\ CallbacksMatch /\ committed \in SUBSET DOMAIN vms
  BY DEF TypeOK, EditTypeOK
<1>b. ASSUME Commit(<<>>) \/ Refuse PROVE FsTypeOK' /\ Pending' \subseteq Pending
  BY <1>0, <1>a, <1>b, CommitStep, RefuseStep
<1>c. UNCHANGED screenVars => ScreensTypeOK' /\ vms' = vms /\ root' = root
  BY <1>a DEF screenVars, ScreensTypeOK
<1>d. 1 \in Dates
  BY GoodsModelAssumption DEF Dates
<1>1. CASE addGoodsDone
  <2>1. FsTypeOK' /\ Pending' \subseteq Pending
    BY <1>1, <1>b DEF addGoodsDone
  <2>2. ScreensTypeOK' /\ vms' = vms /\ root' = root
    BY <1>1, <1>a, ReportStep DEF addGoodsDone
  <2>3. CallbacksMatch'
    BY <2>1, <2>2, <1>a, CallbacksSettled
  <2> QED BY <1>1, <1>a, <2>1, <2>2, <2>3 DEF addGoodsDone, editVars
<1>2. CASE addBoughtGoodsDone
  <2> DEFINE ws == deleteGoods(vms[Owner].item, Done("deleteGoods", Owner))
  <2>1. Owner \in DOMAIN vms /\ vms[Owner].item \in Items
    BY <1>2, OldestOwner DEF addBoughtGoodsDone, Steps
  <2>2. /\ ws \in Seq(Write)
        /\ Range(ws) \subseteq {[doc |-> goods(vms[Owner].item), val |-> Absent,
                                 done |-> Done("deleteGoods", Owner)]}
    BY <2>1, <1>a, <1>d, ScreenCalls
  <2>3. \A w \in Range(ws) : CallbackMatches(w)
    BY <2>1, <2>2 DEF CallbackMatches, Done
  <2> HIDE DEF ws
  <2>4. CASE Continue(Owner, ws)
    <3>1. FsTypeOK' /\ Pending' \subseteq Pending \cup Range(ws)
      BY <2>2, <2>4, <1>a, CommitStep DEF Continue
    <3>2. ScreensTypeOK' /\ vms' = vms /\ root' = root
      BY <2>4, <1>a, <1>c, ReportStep DEF Continue
    <3>3. CallbacksMatch'
      BY <3>1, <3>2, <2>3, <1>a, CallbacksKept
    <3> QED BY <1>2, <1>a, <3>1, <3>2, <3>3 DEF addBoughtGoodsDone, editVars
  <2>5. CASE Refuse /\ Report(Owner)
    <3>1. FsTypeOK' /\ Pending' \subseteq Pending
      BY <2>5, <1>b
    <3>2. ScreensTypeOK' /\ vms' = vms /\ root' = root
      BY <2>5, <1>a, ReportStep
    <3>3. CallbacksMatch'
      BY <3>1, <3>2, <1>a, CallbacksSettled
    <3> QED BY <1>2, <1>a, <3>1, <3>2, <3>3 DEF addBoughtGoodsDone, editVars
  <2> QED BY <1>2, <2>4, <2>5 DEF addBoughtGoodsDone, ws
<1>3. CASE deleteGoodsDone
  <2> DEFINE ws == updateDateCount(Owner)
  <2>1. Owner \in DOMAIN vms /\ vms[Owner].item \in Items
    BY <1>3, OldestOwner DEF deleteGoodsDone, Steps
  <2>2. /\ ws \in Seq(Write)
        /\ Range(ws) \subseteq {[doc |-> datecount(vms[Owner].date), val |-> vms[Owner].count + 1,
                                 done |-> Done("updateDateCount", Owner)]}
    BY <2>1, <1>a, <1>d, ScreenCalls
  <2>3. \A w \in Range(ws) : CallbackMatches(w)
    BY <2>1, <2>2 DEF CallbackMatches, Done
  <2> HIDE DEF ws
  <2>4. CASE Continue(Owner, ws) /\ committed' = committed \cup {Owner}
    <3>1. FsTypeOK' /\ Pending' \subseteq Pending \cup Range(ws)
      BY <2>2, <2>4, <1>a, CommitStep DEF Continue
    <3>2. ScreensTypeOK' /\ vms' = vms /\ root' = root
      BY <2>4, <1>a, <1>c, ReportStep DEF Continue
    <3>3. CallbacksMatch'
      BY <3>1, <3>2, <2>3, <1>a, CallbacksKept
    <3> QED BY <1>3, <1>a, <2>1, <2>4, <3>1, <3>2, <3>3 DEF deleteGoodsDone
  <2>5. CASE Refuse /\ Report(Owner) /\ UNCHANGED committed
    <3>1. FsTypeOK' /\ Pending' \subseteq Pending
      BY <2>5, <1>b
    <3>2. ScreensTypeOK' /\ vms' = vms /\ root' = root
      BY <2>5, <1>a, ReportStep
    <3>3. CallbacksMatch'
      BY <3>1, <3>2, <1>a, CallbacksSettled
    <3> QED BY <1>3, <1>a, <2>5, <3>1, <3>2, <3>3 DEF deleteGoodsDone
  <2> QED BY <1>3, <2>4, <2>5 DEF deleteGoodsDone, ws
<1>4. CASE updateDateCountDone
  <2>1. FsTypeOK' /\ Pending' \subseteq Pending
    BY <1>4, <1>b DEF updateDateCountDone
  <2>2. ScreensTypeOK' /\ vms' = vms /\ root' = root
    BY <1>4, <1>a, ReportStep DEF updateDateCountDone
  <2>3. CallbacksMatch'
    BY <2>1, <2>2, <1>a, CallbacksSettled
  <2> QED BY <1>4, <1>a, <2>1, <2>2, <2>3 DEF updateDateCountDone, editVars
<1>5. CASE lostWriteDone
  <2>1. FsTypeOK' /\ Pending' \subseteq Pending
    BY <1>5, <1>b DEF lostWriteDone
  <2>2. ScreensTypeOK' /\ vms' = vms /\ root' = root
    BY <1>5, <1>c DEF lostWriteDone
  <2>3. CallbacksMatch'
    BY <2>1, <2>2, <1>a, CallbacksSettled
  <2> QED BY <1>5, <1>a, <2>1, <2>2, <2>3 DEF lostWriteDone, editVars
<1> QED BY <1>1, <1>2, <1>3, <1>4, <1>5 DEF SettleWrite

\* A tap that submits a write whose callback matches its view model.
LEMMA SubmitStep ==
  ASSUME TypeInv, NEW o \in DOMAIN vms, NEW ws \in Seq(Write), Submit(o, ws),
         \A w \in Range(ws) : CallbackMatches(w)
  PROVE  /\ FsTypeOK' /\ ScreensTypeOK' /\ HomeWaits /\ CallbacksMatch'
         /\ vms' = vms /\ root' = root /\ srv' = srv
         /\ Pending' = Pending \cup Range(ws)
<1>1. FsTypeOK /\ ScreensTypeOK /\ CallbacksMatch
  BY DEF TypeInv, TypeOK
<1>2. FsTypeOK' /\ Pending' = Pending \cup Range(ws) /\ srv' = srv
  BY <1>1, EnqueueStep DEF Submit, Enqueue
<1>3. ScreensTypeOK' /\ vms' = vms /\ root' = root /\ HomeWaits
  BY <1>1 DEF Submit, Start, ScreensTypeOK
<1>4. CallbacksMatch'
  BY <1>1, <1>2, <1>3, CallbacksKept
<1> QED BY <1>2, <1>3, <1>4

\* The writes the three submitting taps queue.
LEMMA TapWrites ==
  ASSUME TypeInv, NEW o \in shown, NEW i \in Items
  PROVE  /\ o \in DOMAIN vms
         /\ addGoods(i, Done("addGoods", o)) \in Seq(Write)
         /\ \A w \in Range(addGoods(i, Done("addGoods", o))) :
              CallbackMatches(w) /\ w.doc = goods(i) /\ w.val = GoodsData
         /\ vms[o].item = i =>
              /\ addBoughtGoods(i, today, Done("addBoughtGoods", o)) \in Seq(Write)
              /\ \A w \in Range(addBoughtGoods(i, today, Done("addBoughtGoods", o))) :
                   CallbackMatches(w) /\ w.doc = boughtgoods(i) /\ w.val \in Dates
              /\ deleteGoods(i, Done("deleteGoods", o)) \in Seq(Write)
              /\ \A w \in Range(deleteGoods(i, Done("deleteGoods", o))) :
                   CallbackMatches(w) /\ w.doc = goods(i) /\ w.val = Absent
<1>1. o \in DOMAIN vms /\ today \in Dates /\ ScreensTypeOK
  BY DEF TypeInv, TypeOK, ScreensTypeOK, HomeTypeOK
<1>2. o \in Nat \ {0}
  BY <1>1, ViewModelsDomain
<1> DEFINE A == addGoods(i, Done("addGoods", o))
           B == addBoughtGoods(i, today, Done("addBoughtGoods", o))
           D == deleteGoods(i, Done("deleteGoods", o))
<1>3. /\ A \in Seq(Write) /\ B \in Seq(Write) /\ D \in Seq(Write)
      /\ Range(A) \subseteq {[doc |-> goods(i), val |-> GoodsData, done |-> Done("addGoods", o)]}
      /\ Range(B) \subseteq {[doc |-> boughtgoods(i), val |-> today, done |-> Done("addBoughtGoods", o)]}
      /\ Range(D) \subseteq {[doc |-> goods(i), val |-> Absent, done |-> Done("deleteGoods", o)]}
  BY <1>1, ScreenCalls
<1> HIDE DEF A, B, D
<1>4. \A w \in Range(A) : CallbackMatches(w) /\ w.doc = goods(i) /\ w.val = GoodsData
  BY <1>1, <1>3 DEF CallbackMatches, Done
<1>5. vms[o].item = i =>
        \A w \in Range(B) : CallbackMatches(w) /\ w.doc = boughtgoods(i) /\ w.val \in Dates
  BY <1>1, <1>3 DEF CallbackMatches, Done
<1>6. vms[o].item = i =>
        \A w \in Range(D) : CallbackMatches(w) /\ w.doc = goods(i) /\ w.val = Absent
  BY <1>1, <1>3 DEF CallbackMatches, Done
<1> QED BY <1>1, <1>3, <1>4, <1>5, <1>6 DEF A, B, D

\* The view model an edit screen is opened with, and those of the others.
LEMMA NewViewModels ==
  ASSUME TypeInv
  PROVE  /\ \A k \in {"add", "logout"} :
              [kind |-> k, item |-> NoItem, date |-> today, count |-> 0] \in ViewModel
         /\ \A i \in Items :
              [kind |-> "edit", item |-> i, date |-> getDateCount.date,
               count |-> getDateCount.count] \in ViewModel
BY DEF TypeInv, TypeOK, HomeTypeOK, ViewModel, getDateCount

\* Tap handlers keep the types, and the callbacks' match with the view models.
LEMMA TapsType ==
  ASSUME TypeInv, UserTaps, UNCHANGED <<signedIn, today, restarts>>
  PROVE  TypeInv'
<1>a. /\ FsTypeOK /\ signedIn \in BOOLEAN /\ ScreensTypeOK /\ HomeTypeOK /\ EditTypeOK
      /\ restarts \in 0 .. MaxRestarts /\ CallbacksMatch
  BY DEF TypeInv, TypeOK
<1>b. ASSUME FsTypeOK', ScreensTypeOK', HomeTypeOK', EditTypeOK', CallbacksMatch'
      PROVE  TypeInv'
  BY <1>a, <1>b DEF TypeInv, TypeOK
<1>c. ASSUME UNCHANGED <<fsVars, homeVars, editVars>>, UNCHANGED <<root, host>>,
             NEW vm \in ViewModel, Present(vm)
      PROVE  TypeInv'
  <2>1. /\ ScreensTypeOK'
        /\ DOMAIN vms' = DOMAIN vms \cup {Len(vms) + 1}
        /\ \A o \in DOMAIN vms : vms'[o] = vms[o]
    BY <1>a, <1>c, PresentStep
  <2>2. FsTypeOK' /\ HomeTypeOK' /\ EditTypeOK' /\ Pending' = Pending
    BY <1>a, <1>c, <2>1
       DEF FsTypeOK, fsVars, HomeTypeOK, homeVars, EditTypeOK, editVars, Pending
  <2>3. CallbacksMatch'
    BY <1>a, <2>1, <2>2 DEF CallbacksMatch, CallbackMatches
  <2> QED BY <1>b, <2>1, <2>2, <2>3
<1>1. CASE add \/ logoutMenuTapped
  BY <1>1, <1>c, NewViewModels DEF add, logoutMenuTapped
<1>2. ASSUME NEW i \in Items, edit(i) PROVE TypeInv'
  BY <1>2, <1>c, NewViewModels DEF edit
<1>3. ASSUME NEW o \in DOMAIN vms, dismiss(o) PROVE TypeInv'
  <2>1. ScreensTypeOK'
    BY <1>3, <1>a DEF dismiss, Dismiss, ScreensTypeOK
  <2>2. /\ FsTypeOK' /\ HomeTypeOK' /\ EditTypeOK'
        /\ Pending' = Pending /\ vms' = vms
    BY <1>3, <1>a
       DEF dismiss, FsTypeOK, fsVars, HomeTypeOK, homeVars, EditTypeOK, editVars, Pending
  <2>3. CallbacksMatch'
    BY <1>a, <2>2, CallbacksSettled
  <2> QED BY <1>b, <2>1, <2>2, <2>3
<1>d. ASSUME NEW o \in DOMAIN vms, NEW ws \in Seq(Write), Submit(o, ws),
             \A w \in Range(ws) : CallbackMatches(w),
             used' \in SUBSET Items, dropped' \in SUBSET Items, UNCHANGED committed
      PROVE  TypeInv'
  <2>1. /\ FsTypeOK' /\ ScreensTypeOK' /\ HomeWaits /\ CallbacksMatch' /\ vms' = vms
    BY <1>d, SubmitStep
  <2>2. HomeTypeOK'
    BY <2>1, <1>a, HomeWaitsType
  <2>3. EditTypeOK'
    BY <2>1, <1>a, <1>d DEF EditTypeOK
  <2> QED BY <1>b, <2>1, <2>2, <2>3
<1>4. ASSUME NEW o \in DOMAIN vms, addGoodsTapped(o) PROVE TypeInv'
  <2>1. PICK i \in Items \ used :
          used' = used \cup {i} /\ Submit(o, addGoods(i, Done("addGoods", o)))
    BY <1>4 DEF addGoodsTapped
  <2>2. o \in shown /\ UNCHANGED <<dropped, committed>>
    BY <1>4 DEF addGoodsTapped
  <2>3. /\ addGoods(i, Done("addGoods", o)) \in Seq(Write)
        /\ \A w \in Range(addGoods(i, Done("addGoods", o))) : CallbackMatches(w)
    BY <2>2, TapWrites
  <2>4. used' \in SUBSET Items /\ dropped' \in SUBSET Items
    BY <2>1, <2>2, <1>a DEF EditTypeOK
  <2> QED BY <2>1, <2>2, <2>3, <2>4, <1>d
<1>e. ASSUME NEW o \in DOMAIN vms, vms[o].kind = "edit" PROVE vms[o].item \in Items
  <2>1. vms[o] \in ViewModel
    BY <1>a, ViewModelsDomain, ElementOfSeq DEF ScreensTypeOK
  <2> QED BY <2>1, <1>e DEF ViewModel
<1>5. ASSUME NEW o \in DOMAIN vms, complete(o) PROVE TypeInv'
  <2>1. /\ o \in shown /\ vms[o].item \in Items /\ UNCHANGED <<used, dropped, committed>>
        /\ Submit(o, addBoughtGoods(vms[o].item, today, Done("addBoughtGoods", o)))
    BY <1>5, <1>e DEF complete, editVars
  <2>2. /\ addBoughtGoods(vms[o].item, today, Done("addBoughtGoods", o)) \in Seq(Write)
        /\ \A w \in Range(addBoughtGoods(vms[o].item, today, Done("addBoughtGoods", o))) :
             CallbackMatches(w)
    BY <2>1, TapWrites
  <2>3. used' \in SUBSET Items /\ dropped' \in SUBSET Items
    BY <2>1, <1>a DEF EditTypeOK
  <2> QED BY <2>1, <2>2, <2>3, <1>d
<1>6. ASSUME NEW o \in DOMAIN vms, remove(o) PROVE TypeInv'
  <2>1. /\ o \in shown /\ vms[o].item \in Items /\ UNCHANGED <<used, committed>>
        /\ dropped' = dropped \cup {vms[o].item}
        /\ Submit(o, deleteGoods(vms[o].item, Done("deleteGoods", o)))
    BY <1>6, <1>e DEF remove
  <2>2. /\ deleteGoods(vms[o].item, Done("deleteGoods", o)) \in Seq(Write)
        /\ \A w \in Range(deleteGoods(vms[o].item, Done("deleteGoods", o))) :
             CallbackMatches(w)
    BY <2>1, TapWrites
  <2>3. used' \in SUBSET Items /\ dropped' \in SUBSET Items
    BY <2>1, <1>a DEF EditTypeOK
  <2> QED BY <2>1, <2>2, <2>3, <1>d
<1> QED BY <1>1, <1>2, <1>3, <1>4, <1>5, <1>6 DEF UserTaps

\* The handlers of Home.
LEMMA HomeStepType ==
  ASSUME TypeInv, HomeStep
  PROVE  TypeInv' /\ UNCHANGED <<srv, queue, vms, editVars>>
<1>a. /\ FsTypeOK /\ signedIn \in BOOLEAN /\ ScreensTypeOK /\ HomeTypeOK /\ EditTypeOK
      /\ restarts \in 0 .. MaxRestarts /\ CallbacksMatch
  BY DEF TypeInv, TypeOK
<1>1. UNCHANGED <<srv, queue, vms, root, shown>> /\ UNCHANGED <<signedIn, today, editVars, restarts>>
  BY DEF HomeStep, HomeNext, observeGoodsData, loadGoodsSucceeds, loadGoodsFails,
         loadCountsSucceeds, loadCountsFails, fsVars, screenVars
<1>2. faults' \in 0 .. MaxFaults
  BY <1>a, FirestoreAssumption
     DEF HomeStep, HomeNext, observeGoodsData, loadGoodsSucceeds, loadGoodsFails,
         loadCountsSucceeds, loadCountsFails, fsVars, Fault, FsTypeOK
<1>3. host' \in {NoView, Home} \cup DOMAIN vms
  BY <1>a DEF HomeStep, HomeNext, observeGoodsData, loadGoodsSucceeds, loadGoodsFails,
         loadCountsSucceeds, loadCountsFails, screenVars, Start, Stop, ScreensTypeOK
<1>4. HomeTypeOK'
  <2>1. loadGoodsCountForDate \in [Dates -> Int]
    BY <1>a, LoadedCountsType
  <2>2. loadGoods \in SUBSET Items
    BY DEF loadGoods
  <2> HIDE DEF loadGoodsCountForDate, loadGoods
  <2> QED BY <2>1, <2>2, <1>1, <1>a
       DEF HomeStep, HomeNext, observeGoodsData, loadGoodsSucceeds, loadGoodsFails,
           loadCountsSucceeds, loadCountsFails, HomeTypeOK
<1>5. FsTypeOK' /\ ScreensTypeOK' /\ EditTypeOK' /\ Pending' = Pending
  BY <1>1, <1>2, <1>3, <1>a DEF FsTypeOK, ScreensTypeOK, EditTypeOK, editVars, Pending
<1>6. CallbacksMatch'
  BY <1>1, <1>5, <1>a, CallbacksSettled
<1> QED BY <1>1, <1>4, <1>5, <1>6, <1>a DEF TypeInv, TypeOK

\* Signing in and out, restarts and days.
LEMMA AppStepType ==
  ASSUME TypeInv, logout \/ login \/ Restart \/ DayPasses
  PROVE  TypeInv'
<1>a. /\ FsTypeOK /\ signedIn \in BOOLEAN /\ ScreensTypeOK /\ HomeTypeOK /\ EditTypeOK
      /\ restarts \in 0 .. MaxRestarts /\ CallbacksMatch
  BY DEF TypeInv, TypeOK
<1>1. CASE logout \/ login
  <2>0. signedIn' \in BOOLEAN
    BY <1>1, Zenon DEF logout, login
  <2>1. /\ UNCHANGED <<fsVars, vms, today, editVars, restarts>>
        /\ root' \in {"login", "home"} /\ shown' \in {shown, {}}
        /\ host' \in {host, NoView}
        /\ BlankHome /\ snaps' \in Nat
    BY <1>1 DEF logout, login, HomeGone, HomeAppears
  <2>2. HomeTypeOK'
    BY <2>1, <1>a DEF BlankHome, HomeTypeOK
  <2>3. FsTypeOK' /\ ScreensTypeOK' /\ EditTypeOK' /\ Pending' = Pending /\ vms' = vms
    BY <2>1, <1>a DEF FsTypeOK, fsVars, ScreensTypeOK, EditTypeOK, editVars, Pending
  <2>4. CallbacksMatch'
    BY <2>3, <1>a, CallbacksSettled
  <2> QED BY <2>0, <2>1, <2>2, <2>3, <2>4, <1>a DEF TypeInv, TypeOK
<1>2. CASE Restart
  <2>1. /\ LoseCallbacks /\ shown' = {} /\ host' = NoView
        /\ root' \in {"login", "home"} /\ BlankHome /\ snaps' \in Nat
        /\ UNCHANGED <<signedIn, vms, today, editVars>>
        /\ restarts' \in 0 .. MaxRestarts
    BY <1>2, <1>a, ShoppingListAssumption DEF Restart, HomeGone, HomeAppears
  <2>2. HomeTypeOK'
    BY <2>1, <1>a DEF BlankHome, HomeTypeOK
  <2>3. FsTypeOK' /\ \A v \in Pending' : v.done = Lost
    BY <2>1, <1>a, LoseCallbacksStep
  <2>4. ScreensTypeOK' /\ EditTypeOK'
    BY <2>1, <1>a DEF ScreensTypeOK, EditTypeOK, editVars
  <2>5. CallbacksMatch'
    BY <2>3 DEF CallbacksMatch, CallbackMatches
  <2> QED BY <2>1, <2>2, <2>3, <2>4, <2>5, <1>a DEF TypeInv, TypeOK
<1>3. CASE DayPasses
  <2>1. today' \in Dates
    BY <1>3, <1>a, GoodsModelAssumption DEF DayPasses, HomeTypeOK, Dates
  <2>2. FsTypeOK' /\ ScreensTypeOK' /\ EditTypeOK' /\ HomeTypeOK' /\ Pending' = Pending
    BY <1>3, <2>1, <1>a DEF DayPasses, FsTypeOK, fsVars, ScreensTypeOK, screenVars,
       EditTypeOK, editVars, HomeTypeOK, homeVars, Pending
  <2>3. CallbacksMatch'
    BY <1>3, <2>2, <1>a, CallbacksSettled DEF DayPasses, screenVars
  <2> QED BY <1>3, <2>2, <2>3, <1>a DEF TypeInv, TypeOK, DayPasses
<1> QED BY <1>1, <1>2, <1>3

LEMMA TypeInvStep ==
  ASSUME TypeInv, [Next]_vars
  PROVE  TypeInv'
<1>a. /\ FsTypeOK /\ signedIn \in BOOLEAN /\ ScreensTypeOK /\ HomeTypeOK /\ EditTypeOK
      /\ restarts \in 0 .. MaxRestarts /\ CallbacksMatch
  BY DEF TypeInv, TypeOK
<1>1. CASE SettleWrite /\ UNCHANGED <<signedIn, today, restarts>>
  <2>1. /\ FsTypeOK' /\ ScreensTypeOK' /\ HomeWaits
        /\ vms' = vms
        /\ used' = used /\ dropped' = dropped
        /\ committed' \in SUBSET DOMAIN vms
        /\ CallbacksMatch'
    BY <1>1, SettleSummary
  <2>2. HomeTypeOK'
    BY <2>1, <1>1, <1>a, HomeWaitsType
  <2>3. EditTypeOK'
    BY <2>1, <1>a DEF EditTypeOK
  <2> QED BY <2>1, <2>2, <2>3, <1>1, <1>a DEF TypeInv, TypeOK
<1>2. CASE UNCHANGED vars
  <2>1. UNCHANGED <<fsVars, signedIn, screenVars, homeVars, today, editVars, restarts>>
    BY <1>2 DEF vars
  <2>2. FsTypeOK' /\ ScreensTypeOK' /\ EditTypeOK' /\ HomeTypeOK' /\ Pending' = Pending
    BY <2>1, <1>a DEF FsTypeOK, fsVars, ScreensTypeOK, screenVars,
       EditTypeOK, editVars, HomeTypeOK, homeVars, Pending
  <2>3. CallbacksMatch'
    BY <2>1, <2>2, <1>a, CallbacksSettled DEF screenVars
  <2> QED BY <2>1, <2>2, <2>3, <1>a DEF TypeInv, TypeOK
<1>3. CASE UserTaps /\ UNCHANGED <<signedIn, today, restarts>>
  BY <1>3, TapsType
<1>4. CASE HomeStep
  BY <1>4, HomeStepType
<1>5. CASE logout \/ login \/ Restart \/ DayPasses
  BY <1>5, AppStepType
<1> QED BY <1>1, <1>2, <1>3, <1>4, <1>5 DEF Next, GoodsStep

LEMMA TypeInvInit == Init => TypeInv
<1> SUFFICES ASSUME Init PROVE TypeInv
  OBVIOUS
<1>1. FsTypeOK /\ Pending = {}
  BY FirestoreAssumption DEF Init, Launched, FsInit, FsTypeOK, Fits, Values, Pending, Range
<1>2. ScreensTypeOK /\ EditTypeOK
  BY DEF Init, Launched, ScreensTypeOK, EditTypeOK
<1>3. HomeTypeOK
  BY GoodsModelAssumption DEF Init, Launched, HomeTypeOK, Dates
<1>4. restarts \in 0 .. MaxRestarts /\ signedIn \in BOOLEAN
  BY ShoppingListAssumption DEF Init, Launched
<1> QED BY <1>1, <1>2, <1>3, <1>4 DEF TypeInv, TypeOK, CallbacksMatch

\* In every behaviour of the application, with any number of items, screens,
\* faults and restarts, all state keeps its type: what is stored and what is
\* pending always decodes as the document it is stored under.
THEOREM TypeCorrect == Spec => []TypeOK
<1>1. Spec => []TypeInv
  BY TypeInvInit, TypeInvStep, PTL DEF Spec
<1>2. TypeInv => TypeOK
  BY DEF TypeInv
<1> QED BY <1>1, <1>2, PTL

-----------------------------------------------------------------------------
(* What the steps do to the stored documents, seen from the two invariants *)
(* about data: every step of the queue is one of a few forms.              *)

\* A new pending write that the user's tap may queue.
TapWrite(w) ==
  \E i \in Items :
    \/ w.doc = goods(i) /\ (w.val = GoodsData \/ i \in dropped')
    \/ w.doc = boughtgoods(i) /\ w.val \in Dates

\* No document is committed or refused and no screen is told of a delete.
TapEffect ==
  /\ UNCHANGED <<srv, committed, dateCounts>>
  /\ dropped \subseteq dropped'
  /\ \A w \in Pending' : w \in Pending \/ TapWrite(w)
  /\ \/ vms' = vms
     \/ /\ DOMAIN vms' = DOMAIN vms \cup {Len(vms) + 1}
        /\ \A o \in DOMAIN vms : vms'[o] = vms[o]
        /\ Len(vms) + 1 \notin DOMAIN vms
        /\ vms'[Len(vms) + 1].date = today
        /\ vms'[Len(vms) + 1].count \in {0, dateCounts[today]}

LEMMA TapsEffect ==
  ASSUME TypeInv, UserTaps
  PROVE  TapEffect
<1>a. FsTypeOK /\ ScreensTypeOK /\ HomeTypeOK /\ EditTypeOK /\ CallbacksMatch
  BY DEF TypeInv, TypeOK
<1>b. ASSUME UNCHANGED <<fsVars, homeVars, editVars>>
      PROVE  /\ UNCHANGED <<srv, committed, dateCounts>>
             /\ dropped \subseteq dropped'
             /\ \A w \in Pending' : w \in Pending \/ TapWrite(w)
  BY <1>b DEF fsVars, homeVars, editVars, Pending
<1>c. ASSUME NEW vm \in ViewModel, Present(vm), UNCHANGED <<root, host>>,
             UNCHANGED <<fsVars, homeVars, editVars>>,
             vm.date = today, vm.count \in {0, dateCounts[today]}
      PROVE  TapEffect
  BY <1>a, <1>b, <1>c, PresentStep DEF TapEffect
<1>1. CASE add \/ logoutMenuTapped
  <2>0. PICK k \in {"add", "logout"} :
          /\ Present([kind |-> k, item |-> NoItem, date |-> today, count |-> 0])
          /\ UNCHANGED <<root, host>> /\ UNCHANGED <<fsVars, homeVars, editVars>>
    BY <1>1 DEF add, logoutMenuTapped
  <2> DEFINE vm == [kind |-> k, item |-> NoItem, date |-> today, count |-> 0]
  <2>1. vm \in ViewModel /\ vm.date = today /\ vm.count = 0
    BY NewViewModels
  <2>2. Present(vm) /\ UNCHANGED <<root, host>> /\ UNCHANGED <<fsVars, homeVars, editVars>>
    BY <2>0
  <2> HIDE DEF vm
  <2> QED BY <2>1, <2>2, <1>c
<1>2. ASSUME NEW i \in Items, edit(i) PROVE TapEffect
  <2> DEFINE vm == [kind |-> "edit", item |-> i, date |-> getDateCount.date,
                    count |-> getDateCount.count]
  <2>1. vm \in ViewModel /\ vm.date = today /\ vm.count = dateCounts[today]
    BY NewViewModels DEF getDateCount
  <2>2. Present(vm) /\ UNCHANGED <<root, host>> /\ UNCHANGED <<fsVars, homeVars, editVars>>
    BY <1>2 DEF edit
  <2> HIDE DEF vm
  <2> QED BY <2>1, <2>2, <1>c
<1>3. ASSUME NEW o \in DOMAIN vms, dismiss(o) PROVE TapEffect
  BY <1>3, <1>b DEF dismiss, TapEffect
<1>d. ASSUME NEW o \in DOMAIN vms, NEW ws \in Seq(Write), Submit(o, ws),
             \A w \in Range(ws) : CallbackMatches(w) /\ TapWrite(w),
             dropped \subseteq dropped', UNCHANGED committed
      PROVE  TapEffect
  <2>1. vms' = vms /\ srv' = srv /\ HomeWaits /\ Pending' = Pending \cup Range(ws)
    BY <1>d, SubmitStep
  <2> QED BY <1>d, <2>1 DEF TapEffect, HomeWaits
<1>4. ASSUME NEW o \in DOMAIN vms, addGoodsTapped(o) PROVE TapEffect
  <2>1. PICK i \in Items \ used : Submit(o, addGoods(i, Done("addGoods", o)))
    BY <1>4 DEF addGoodsTapped
  <2>2. o \in shown /\ UNCHANGED <<dropped, committed>>
    BY <1>4 DEF addGoodsTapped
  <2>3. /\ addGoods(i, Done("addGoods", o)) \in Seq(Write)
        /\ \A w \in Range(addGoods(i, Done("addGoods", o))) : CallbackMatches(w) /\ TapWrite(w)
    BY <2>2, TapWrites DEF TapWrite
  <2> QED BY <2>1, <2>2, <2>3, <1>d
<1>e. ASSUME NEW o \in DOMAIN vms, vms[o].kind = "edit" PROVE vms[o].item \in Items
  <2>1. vms[o] \in ViewModel
    BY <1>a, ViewModelsDomain, ElementOfSeq DEF ScreensTypeOK
  <2> QED BY <2>1, <1>e DEF ViewModel
<1>5. ASSUME NEW o \in DOMAIN vms, complete(o) PROVE TapEffect
  <2>1. /\ o \in shown /\ vms[o].item \in Items /\ UNCHANGED <<dropped, committed>>
        /\ Submit(o, addBoughtGoods(vms[o].item, today, Done("addBoughtGoods", o)))
    BY <1>5, <1>e DEF complete, editVars
  <2>2. /\ addBoughtGoods(vms[o].item, today, Done("addBoughtGoods", o)) \in Seq(Write)
        /\ \A w \in Range(addBoughtGoods(vms[o].item, today, Done("addBoughtGoods", o))) :
             CallbackMatches(w) /\ TapWrite(w)
    BY <2>1, TapWrites DEF TapWrite
  <2> QED BY <2>1, <2>2, <1>d
<1>6. ASSUME NEW o \in DOMAIN vms, remove(o) PROVE TapEffect
  <2>1. /\ o \in shown /\ vms[o].item \in Items /\ UNCHANGED committed
        /\ dropped' = dropped \cup {vms[o].item}
        /\ Submit(o, deleteGoods(vms[o].item, Done("deleteGoods", o)))
    BY <1>6, <1>e DEF remove
  <2>2. /\ deleteGoods(vms[o].item, Done("deleteGoods", o)) \in Seq(Write)
        /\ \A w \in Range(deleteGoods(vms[o].item, Done("deleteGoods", o))) :
             CallbackMatches(w) /\ TapWrite(w)
    BY <2>1, TapWrites DEF TapWrite
  <2> QED BY <2>1, <2>2, <1>d
<1> QED BY <1>1, <1>2, <1>3, <1>4, <1>5, <1>6 DEF UserTaps

\* The server refuses a write, or commits it and its callback queues nothing,
\* the delete that follows a purchase record, or the count that follows a
\* delete.
SettleEffect ==
  /\ vms' = vms /\ dropped' = dropped /\ dateCounts' = dateCounts
  /\ \/ Refuse /\ committed' = committed
     \/ \E ws \in Seq(Write) :
          /\ Commit(ws)
          /\ \/ Range(ws) = {} /\ committed' = committed
             \/ /\ committed' = committed
                /\ Head(queue).doc = boughtgoods(vms[Owner].item)
                /\ vms[Owner].item \in Items
                /\ \A w \in Range(ws) : w.doc = goods(vms[Owner].item)
             \/ /\ Owner \in DOMAIN vms
                /\ committed' = committed \cup {Owner}
                /\ \A w \in Range(ws) :
                     w.doc = datecount(vms[Owner].date) /\ w.val = vms[Owner].count + 1

LEMMA SettleEffects ==
  ASSUME TypeInv, SettleWrite
  PROVE  SettleEffect
<1>a. FsTypeOK /\ ScreensTypeOK /\ CallbacksMatch
  BY DEF TypeInv, TypeOK
<1>b. vms' = vms /\ dropped' = dropped /\ dateCounts' = dateCounts
  BY SettleSummary DEF HomeWaits
<1>c. <<>> \in Seq(Write) /\ Range(<<>>) = {}
  BY DEF Range
<1>d. 1 \in Dates
  BY GoodsModelAssumption DEF Dates
<1>1. CASE addGoodsDone \/ updateDateCountDone \/ lostWriteDone
  <2>1. (Commit(<<>>) \/ Refuse) /\ committed' = committed
    BY <1>1 DEF addGoodsDone, updateDateCountDone, lostWriteDone, editVars
  <2> QED BY <2>1, <1>b, <1>c DEF SettleEffect
<1>2. CASE addBoughtGoodsDone
  <2> DEFINE ws == deleteGoods(vms[Owner].item, Done("deleteGoods", Owner))
  <2>1. /\ Owner \in DOMAIN vms /\ vms[Owner].item \in Items
        /\ Head(queue).doc = boughtgoods(vms[Owner].item)
    BY <1>2, OldestOwner DEF addBoughtGoodsDone, Steps
  <2>2. ws \in Seq(Write) /\ \A w \in Range(ws) : w.doc = goods(vms[Owner].item)
    BY <2>1, <1>a, <1>d, ScreenCalls
  <2>3. (Commit(ws) \/ Refuse) /\ committed' = committed
    BY <1>2 DEF addBoughtGoodsDone, editVars, Continue
  <2> HIDE DEF ws
  <2> QED BY <2>1, <2>2, <2>3, <1>b DEF SettleEffect
<1>3. CASE deleteGoodsDone
  <2> DEFINE ws == updateDateCount(Owner)
  <2>1. Owner \in DOMAIN vms /\ vms[Owner].item \in Items
    BY <1>3, OldestOwner DEF deleteGoodsDone, Steps
  <2>2. /\ ws \in Seq(Write)
        /\ \A w \in Range(ws) :
             w.doc = datecount(vms[Owner].date) /\ w.val = vms[Owner].count + 1
    BY <2>1, <1>a, <1>d, ScreenCalls
  <2>3. \/ Commit(ws) /\ committed' = committed \cup {Owner}
        \/ Refuse /\ committed' = committed
    BY <1>3 DEF deleteGoodsDone, Continue
  <2> HIDE DEF ws
  <2> QED BY <2>1, <2>2, <2>3, <1>b DEF SettleEffect
<1> QED BY <1>1, <1>2, <1>3 DEF SettleWrite

\* The steps that neither tap a button nor settle a write.
OtherStep ==
  \/ HomeStep
  \/ logout \/ login \/ Restart \/ DayPasses
  \/ UNCHANGED vars

LEMMA OtherEffect ==
  ASSUME TypeInv, OtherStep
  PROVE  /\ UNCHANGED <<srv, vms, dropped, committed>>
         /\ \A v \in Pending' : \E w \in Pending : w.doc = v.doc /\ w.val = v.val
         /\ \/ dateCounts' = dateCounts
            \/ dateCounts' = loadGoodsCountForDate
            \/ dateCounts' = [d \in Dates |-> 0]
<1>a. FsTypeOK
  BY DEF TypeInv, TypeOK
<1>1. CASE HomeStep
  <2>1. UNCHANGED <<srv, queue, vms, editVars>>
    BY <1>1, HomeStepType
  <2>2. dateCounts' = dateCounts \/ dateCounts' = loadGoodsCountForDate
    BY <1>1 DEF HomeStep, HomeNext, observeGoodsData, loadGoodsSucceeds, loadGoodsFails,
       loadCountsSucceeds, loadCountsFails
  <2> QED BY <2>1, <2>2 DEF editVars, Pending
<1>2. CASE logout \/ login
  BY <1>2 DEF logout, login, HomeGone, HomeAppears, BlankHome, fsVars, editVars, Pending
<1>3. CASE Restart
  <2>1. /\ LoseCallbacks /\ UNCHANGED <<vms, editVars>> /\ BlankHome
    BY <1>3 DEF Restart, HomeGone, HomeAppears
  <2>2. \A v \in Pending' : \E w \in Pending : w.doc = v.doc /\ w.val = v.val
    BY <2>1, <1>a, LoseCallbacksStep
  <2> QED BY <2>1, <2>2 DEF LoseCallbacks, BlankHome, editVars
<1>4. CASE DayPasses \/ UNCHANGED vars
  BY <1>4 DEF DayPasses, vars, fsVars, screenVars, homeVars, editVars, Pending
<1> QED BY <1>1, <1>2, <1>3, <1>4 DEF OtherStep

LEMMA StepForms ==
  ASSUME [Next]_vars
  PROVE  OtherStep \/ UserTaps \/ SettleWrite
BY DEF Next, GoodsStep, OtherStep

-----------------------------------------------------------------------------
(* No item is lost.                                                        *)

\* Committing a write: a delete that is pending is backed, so what it removes
\* is not lost, and purchase records only grow.
LEMMA CommitKeepsItems ==
  ASSUME TypeInv, DeletesBacked, NEW ws \in Seq(Write), Commit(ws)
  PROVE  /\ KeepsItems
         /\ \A i \in Items : Head(queue).doc = boughtgoods(i) => Bought(i)'
<1>1. /\ Head(queue) \in Pending
      /\ \A d \in Docs : srv'[d] = IF d = Head(queue).doc THEN Head(queue).val ELSE srv[d]
  BY CommitStep DEF TypeInv, TypeOK
<1>2. ASSUME NEW i \in Items
      PROVE  /\ Listed(i) /\ ~Listed(i)' => Bought(i) \/ i \in dropped
             /\ Bought(i) => Bought(i)'
             /\ Head(queue).doc = boughtgoods(i) => Bought(i)'
  <2>1. goods(i) \in Docs /\ boughtgoods(i) \in Docs
    BY GoodsDocs
  <2>2. /\ Head(queue).doc = boughtgoods(i) => Head(queue).val # Absent
        /\ Head(queue).doc = goods(i) /\ Head(queue).val = Absent => Bought(i) \/ i \in dropped
    BY <1>1 DEF DeletesBacked
  <2> QED BY <1>1, <2>1, <2>2 DEF Listed, Bought
<1> QED BY <1>2 DEF KeepsItems

LEMMA SameStoreKeepsItems ==
  ASSUME srv' = srv
  PROVE  KeepsItems
BY DEF KeepsItems, Listed, Bought

LEMMA DeletesBackedStep ==
  ASSUME TypeInv, DeletesBacked, [Next]_vars
  PROVE  DeletesBacked' /\ KeepsItems
<1>a. FsTypeOK
  BY DEF TypeInv, TypeOK
<1>1. CASE OtherStep
  <2>1. /\ srv' = srv /\ dropped' = dropped
        /\ \A v \in Pending' : \E w \in Pending : w.doc = v.doc /\ w.val = v.val
    BY <1>1, OtherEffect
  <2> QED BY <2>1, SameStoreKeepsItems DEF DeletesBacked, Bought
<1>2. CASE UserTaps
  <2>1. /\ srv' = srv /\ dropped \subseteq dropped'
        /\ \A w \in Pending' : w \in Pending \/ TapWrite(w)
    BY <1>2, TapsEffect DEF TapEffect
  <2>2. ASSUME NEW w, TapWrite(w), NEW i \in Items
        PROVE  /\ w.doc = boughtgoods(i) => w.val # Absent
               /\ w.doc = goods(i) /\ w.val = Absent => i \in dropped'
    BY <2>2, GoodsModelAssumption DEF TapWrite, goods, boughtgoods, Dates
  <2>3. DeletesBacked'
    BY <2>1, <2>2 DEF DeletesBacked, Bought
  <2> QED BY <2>1, <2>3, SameStoreKeepsItems
<1>3. CASE SettleWrite
  <2>0. SettleEffect
    BY <1>3, SettleEffects
  <2>1. CASE Refuse
    <3>1. srv' = srv /\ dropped' = dropped /\ Pending' \subseteq Pending
      BY <2>0, <2>1, <1>a, RefuseStep DEF Refuse, SettleEffect
    <3> QED BY <3>1, SameStoreKeepsItems DEF DeletesBacked, Bought
  <2>2. ASSUME NEW ws \in Seq(Write), Commit(ws),
               \A w \in Range(ws), i \in Items :
                 /\ w.doc = boughtgoods(i) => w.val # Absent
                 /\ w.doc = goods(i) => Bought(i)'
        PROVE  DeletesBacked' /\ KeepsItems
    <3>1. KeepsItems /\ dropped' = dropped
      BY <2>0, <2>2, CommitKeepsItems DEF SettleEffect
    <3>2. Pending' \subseteq Pending \cup Range(ws)
      BY <2>2, <1>a, CommitStep
    <3>3. DeletesBacked'
      BY <2>2, <3>1, <3>2 DEF DeletesBacked, KeepsItems
    <3> QED BY <3>1, <3>3
  <2>3. ASSUME NEW ws \in Seq(Write), Commit(ws), Range(ws) = {}
        PROVE  DeletesBacked' /\ KeepsItems
    BY <2>2, <2>3
  <2>4. ASSUME NEW ws \in Seq(Write), Commit(ws),
               Head(queue).doc = boughtgoods(vms[Owner].item), vms[Owner].item \in Items,
               \A w \in Range(ws) : w.doc = goods(vms[Owner].item)
        PROVE  DeletesBacked' /\ KeepsItems
    <3>1. \A j \in Items : j = vms[Owner].item => Bought(j)'
      BY <2>4, CommitKeepsItems
    <3>2. ASSUME NEW w \in Range(ws), NEW i \in Items
          PROVE  /\ w.doc = boughtgoods(i) => w.val # Absent
                 /\ w.doc = goods(i) => Bought(i)'
      <4>1. w.doc # boughtgoods(i)
        BY <2>4 DEF goods, boughtgoods
      <4>2. w.doc = goods(i) => i = vms[Owner].item
        BY <2>4 DEF goods
      <4> QED BY <4>1, <4>2, <3>1
    <3> QED BY <2>2, <2>4, <3>2
  <2>5. ASSUME NEW ws \in Seq(Write), Commit(ws),
               \A w \in Range(ws) : w.doc = datecount(vms[Owner].date)
        PROVE  DeletesBacked' /\ KeepsItems
    <3>1. \A w \in Range(ws), i \in Items : w.doc # boughtgoods(i) /\ w.doc # goods(i)
      BY <2>5 DEF goods, boughtgoods, datecount
    <3> QED BY <2>2, <2>5, <3>1
  <2> QED BY <2>0, <2>1, <2>3, <2>4, <2>5 DEF SettleEffect
<1> QED BY <1>1, <1>2, <1>3, StepForms

-----------------------------------------------------------------------------
(* Counts are covered.                                                     *)

LEMMA CommittedFinite ==
  ASSUME TypeInv, NEW d
  PROVE  IsFiniteSet(CommittedOn(d)) /\ Cardinality(CommittedOn(d)) \in Nat
<1>1. CommittedOn(d) \in SUBSET (1 .. Len(vms)) /\ Len(vms) \in Nat
  BY ViewModelsDomain DEF TypeInv, TypeOK, EditTypeOK, CommittedOn
<1>2. IsFiniteSet(1 .. Len(vms))
  BY <1>1, FS_Interval
<1> QED BY <1>1, <1>2, FS_Subset, FS_CardinalityType

\* No screen is told of a delete: the cover stays as it was.
LEMMA SameCover ==
  ASSUME TypeInv, committed' = committed, \A o \in DOMAIN vms : vms'[o] = vms[o], NEW d
  PROVE  CommittedOn(d)' = CommittedOn(d)
BY DEF CommittedOn, TypeInv, TypeOK, EditTypeOK

\* A screen is told of its delete: the cover of its day grows unless it had
\* been told before.
LEMMA GrownCover ==
  ASSUME TypeInv, NEW o \in DOMAIN vms, committed' = committed \cup {o}, vms' = vms,
         NEW d \in Dates
  PROVE  /\ Cardinality(CommittedOn(d)') \in Nat
         /\ Cardinality(CommittedOn(d)) <= Cardinality(CommittedOn(d)')
         /\ vms[o].date = d /\ o \notin committed =>
              Cardinality(CommittedOn(d)') = Cardinality(CommittedOn(d)) + 1
<1>1. IsFiniteSet(CommittedOn(d)) /\ Cardinality(CommittedOn(d)) \in Nat
  BY CommittedFinite
<1>2. CASE vms[o].date = d
  <2>1. CommittedOn(d)' = CommittedOn(d) \cup {o}
    BY <1>2 DEF CommittedOn
  <2>2. o \in CommittedOn(d) <=> o \in committed
    BY <1>2 DEF CommittedOn
  <2>3. Cardinality(CommittedOn(d) \cup {o})
          = IF o \in CommittedOn(d) THEN Cardinality(CommittedOn(d))
                                    ELSE Cardinality(CommittedOn(d)) + 1
    BY <1>1, FS_AddElement
  <2> DEFINE n == Cardinality(CommittedOn(d))
             n1 == Cardinality(CommittedOn(d)')
  <2>4. n1 = IF o \in committed THEN n ELSE n + 1
    BY <2>1, <2>2, <2>3
  <2>5. n \in Nat
    BY <1>1
  <2> HIDE DEF n, n1
  <2>6. n1 \in Nat /\ n <= n1 /\ (o \notin committed => n1 = n + 1)
    BY <2>4, <2>5
  <2> QED BY <2>6 DEF n, n1
<1>3. CASE vms[o].date # d
  <2>1. CommittedOn(d)' = CommittedOn(d)
    BY <1>3 DEF CommittedOn
  <2> QED BY <1>1, <1>3, <2>1
<1> QED BY <1>2, <1>3

LEMMA CountInInt ==
  ASSUME NEW d \in Dates, NEW val, Fits(datecount(d), val)
  PROVE  CountIn(val) \in Int
BY DEF Fits, CountIn

\* What the device reads as a count is covered when what is stored and what is
\* pending is.
LEMMA LoadedCovered ==
  ASSUME TypeInv, CountsCovered, NEW d \in Dates
  PROVE  loadGoodsCountForDate[d] <= Cardinality(CommittedOn(d))
<1>1. \/ LocalView(datecount(d)) = srv[datecount(d)]
      \/ \E n \in DOMAIN queue :
           queue[n].doc = datecount(d) /\ LocalView(datecount(d)) = queue[n].val
  BY LocalViewOrigin DEF TypeInv, TypeOK, FsTypeOK
<1>2. CountIn(LocalView(datecount(d))) <= Cardinality(CommittedOn(d))
  BY <1>1 DEF CountsCovered, CoveredOn, Pending, Range
<1> QED BY <1>2 DEF loadGoodsCountForDate

LEMMA CountsCoveredStep ==
  ASSUME TypeInv, CountsCovered, [Next]_vars
  PROVE  CountsCovered'
<1>a. FsTypeOK /\ ScreensTypeOK /\ HomeTypeOK
  BY DEF TypeInv, TypeOK
<1> SUFFICES ASSUME NEW d \in Dates PROVE CoveredOn(d)'
  BY DEF CountsCovered
<1> DEFINE c == Cardinality(CommittedOn(d))
<1>b. c \in Nat
  BY CommittedFinite
<1>c. CoveredOn(d)
  BY DEF CountsCovered
<1>1. CASE OtherStep
  <2>1. /\ UNCHANGED <<srv, vms, committed>>
        /\ \A v \in Pending' : \E w \in Pending : w.doc = v.doc /\ w.val = v.val
        /\ \/ dateCounts' = dateCounts
           \/ dateCounts' = loadGoodsCountForDate
           \/ dateCounts' = [e \in Dates |-> 0]
    BY <1>1, OtherEffect
  <2>2. CommittedOn(d)' = CommittedOn(d)
    BY <2>1, SameCover
  <2>3. dateCounts'[d] <= c
    BY <2>1, <1>b, <1>c, LoadedCovered DEF CoveredOn
  <2> QED BY <2>1, <2>2, <2>3, <1>c DEF CoveredOn
<1>2. CASE UserTaps
  <2>1. TapEffect
    BY <1>2, TapsEffect
  <2>2. \A o \in DOMAIN vms : vms'[o] = vms[o]
    BY <2>1 DEF TapEffect
  <2>3. CommittedOn(d)' = CommittedOn(d)
    BY <2>1, <2>2, SameCover DEF TapEffect
  <2>4. \A w \in Pending' : w.doc = datecount(d) => w \in Pending
    BY <2>1 DEF TapEffect, TapWrite, goods, boughtgoods, datecount
  <2>5. ASSUME NEW o \in DOMAIN vms', vms'[o].date = d
        PROVE  vms'[o].count + (IF o \in committed' THEN 1 ELSE 0) <= c
    <3>1. CASE o \in DOMAIN vms
      BY <3>1, <2>1, <2>2, <2>5, <1>c DEF TapEffect, CoveredOn
    <3>2. CASE o \notin DOMAIN vms
      <4>1. o \notin committed'
        BY <2>1, <3>2 DEF TapEffect, TypeInv, TypeOK, EditTypeOK
      <4>2. today = d /\ vms'[o].count \in {0, dateCounts[d]}
        BY <2>1, <2>5, <3>2 DEF TapEffect
      <4>3. 0 <= c /\ dateCounts[d] <= c /\ dateCounts[d] \in Int
        BY <1>a, <1>b, <1>c DEF CoveredOn, HomeTypeOK
      <4> HIDE DEF c
      <4> QED BY <4>1, <4>2, <4>3, <1>b
    <3> QED BY <3>1, <3>2
  <2>6. srv' = srv /\ dateCounts' = dateCounts
    BY <2>1 DEF TapEffect
  <2> QED BY <2>3, <2>4, <2>5, <2>6, <1>c DEF CoveredOn
<1>3. CASE SettleWrite
  <2>0. SettleEffect
    BY <1>3, SettleEffects
  <2>1. vms' = vms /\ dateCounts' = dateCounts
    BY <2>0 DEF SettleEffect
  <2>2. CASE Refuse /\ committed' = committed
    <3>1. srv' = srv /\ Pending' \subseteq Pending
      BY <2>2, <1>a, RefuseStep DEF Refuse
    <3>2. CommittedOn(d)' = CommittedOn(d)
      BY <2>1, <2>2, SameCover
    <3> QED BY <2>1, <2>2, <3>1, <3>2, <1>c DEF CoveredOn
  \* The committed write was covered while it was pending.
  <2>3. ASSUME NEW ws \in Seq(Write), Commit(ws)
        PROVE  /\ CountIn(srv'[datecount(d)]) <= c
               /\ CountIn(srv'[datecount(d)]) \in Int
               /\ Pending' \subseteq Pending \cup Range(ws)
    <3>1. /\ Head(queue) \in Pending /\ FsTypeOK'
          /\ Pending' \subseteq Pending \cup Range(ws)
          /\ \A e \in Docs : srv'[e] = IF e = Head(queue).doc THEN Head(queue).val ELSE srv[e]
      BY <2>3, <1>a, CommitStep
    <3>2. datecount(d) \in Docs
      BY CountDocs
    <3>3. Fits(datecount(d), srv'[datecount(d)])
      BY <3>1, <3>2 DEF FsTypeOK, Fits
    <3>4. CountIn(srv'[datecount(d)]) \in Int
      BY <3>3, CountInInt
    <3>5. CountIn(srv'[datecount(d)]) <= c
      BY <3>1, <3>2, <1>c DEF CoveredOn
    <3> QED BY <3>1, <3>4, <3>5
  <2>4. ASSUME NEW ws \in Seq(Write), Commit(ws), committed' = committed,
               \A w \in Range(ws) : w.doc # datecount(d)
        PROVE  CoveredOn(d)'
    <3>1. CommittedOn(d)' = CommittedOn(d)
      BY <2>1, <2>4, SameCover
    <3> QED BY <2>1, <2>3, <2>4, <3>1, <1>c DEF CoveredOn
  <2>5. ASSUME NEW ws \in Seq(Write), Commit(ws), Owner \in DOMAIN vms,
               committed' = committed \cup {Owner},
               \A w \in Range(ws) :
                 w.doc = datecount(vms[Owner].date) /\ w.val = vms[Owner].count + 1
        PROVE  CoveredOn(d)'
    <3> DEFINE c1 == Cardinality(CommittedOn(d)')
    <3>1. PICK p \in DOMAIN vms : p = Owner
      BY <2>5
    <3>2. /\ c1 \in Nat /\ c <= c1
          /\ vms[p].date = d /\ p \notin committed => c1 = c + 1
      BY <2>1, <2>5, <3>1, GrownCover
    <3>3. \A o \in DOMAIN vms : vms[o].count \in Int
      <4>1. \A o \in DOMAIN vms : vms[o] \in ViewModel
        BY <1>a, ViewModelsDomain, ElementOfSeq DEF ScreensTypeOK
      <4> QED BY <4>1 DEF ViewModel
    <3>4. /\ dateCounts[d] <= c /\ dateCounts[d] \in Int
          /\ \A w \in Pending : w.doc = datecount(d) => CountIn(w.val) <= c
          /\ \A o \in DOMAIN vms :
               vms[o].date = d => vms[o].count + (IF o \in committed THEN 1 ELSE 0) <= c
      BY <1>a, <1>c DEF CoveredOn, HomeTypeOK
    <3>5. \A w \in Pending : w.doc = datecount(d) => CountIn(w.val) \in Int
      <4>1. \A w \in Pending : w \in Write
        BY <1>a, LenProperties, ElementOfSeq DEF FsTypeOK, Pending, Range
      <4> QED BY <4>1, CountInInt DEF Write
    <3> HIDE DEF c, c1
    <3>6. dateCounts[d] <= c1 /\ CountIn(srv'[datecount(d)]) <= c1
      BY <2>3, <2>5, <3>2, <3>4, <1>b
    <3>7. ASSUME NEW o \in DOMAIN vms, vms[o].date = d
          PROVE  vms[o].count + (IF o \in committed' THEN 1 ELSE 0) <= c1
      <4>1. CASE o = p
        BY <4>1, <2>5, <3>1, <3>2, <3>3, <3>4, <3>7, <1>b
      <4>2. CASE o # p
        BY <4>2, <2>5, <3>1, <3>2, <3>3, <3>4, <3>7, <1>b
      <4> QED BY <4>1, <4>2
    <3>8. ASSUME NEW w \in Pending', w.doc = datecount(d)
          PROVE  CountIn(w.val) <= c1
      <4>1. CASE w \in Pending
        BY <4>1, <3>2, <3>4, <3>5, <3>8, <1>b
      <4>2. CASE w \in Range(ws)
        <5>1. w.val = vms[p].count + 1 /\ datecount(vms[p].date) = datecount(d)
          BY <4>2, <2>5, <3>1, <3>8
        <5>2. vms[p].date = d
          BY <5>1 DEF datecount
        <5>3. vms[p].count + 1 <= c1
          BY <5>2, <3>7, <3>1, <2>5
        <5>4. w.val # Absent
          BY <5>1, <3>3, GoodsModelAssumption
        <5> QED BY <5>1, <5>3, <5>4 DEF CountIn
      <4> QED BY <4>1, <4>2, <3>8, <2>3, <2>5
    <3> QED BY <2>1, <3>6, <3>7, <3>8 DEF CoveredOn, c1
  <2>6. ASSUME NEW ws \in Seq(Write), Commit(ws), committed' = committed,
               \A w \in Range(ws) : w.doc = goods(vms[Owner].item)
        PROVE  CoveredOn(d)'
    <3>1. \A w \in Range(ws) : w.doc # datecount(d)
      BY <2>6 DEF goods, datecount
    <3> QED BY <2>4, <2>6, <3>1
  <2>7. ASSUME NEW ws \in Seq(Write), Commit(ws), committed' = committed, Range(ws) = {}
        PROVE  CoveredOn(d)'
    BY <2>4, <2>7
  <2> HIDE DEF c
  <2> QED BY <2>0, <2>2, <2>5, <2>6, <2>7 DEF SettleEffect
<1> QED BY <1>1, <1>2, <1>3, StepForms

-----------------------------------------------------------------------------
(* The theorems.                                                           *)

LEMMA DataInit == Init => DeletesBacked /\ CountsCovered
<1> SUFFICES ASSUME Init PROVE DeletesBacked /\ CountsCovered
  OBVIOUS
<1>1. Pending = {} /\ DOMAIN vms = {}
  BY DEF Init, Launched, FsInit, Pending, Range
<1>2. ASSUME NEW d \in Dates
      PROVE  CoveredOn(d)
  <2>1. CommittedOn(d) = {}
    BY DEF Init, Launched, CommittedOn
  <2>2. Cardinality(CommittedOn(d)) = 0
    BY <2>1, FS_EmptySet
  <2>3. datecount(d) \in Docs
    BY DEF Docs, datecount
  <2> QED BY <1>1, <2>2, <2>3 DEF Init, Launched, FsInit, CoveredOn, CountIn
<1> QED BY <1>1, <1>2 DEF DeletesBacked, CountsCovered

\* The inductive invariant holds in every reachable state.
THEOREM InvHolds == Spec => []Inv
<1>1. Init => Inv
  BY TypeInvInit, DataInit DEF Inv, TypeInv
<1>2. Inv /\ [Next]_vars => Inv'
  BY TypeInvStep, DeletesBackedStep, CountsCoveredStep DEF Inv, TypeInv
<1> QED BY <1>1, <1>2, PTL DEF Spec

\* No step of the application, whatever fails and in whatever order the
\* callbacks of EditGoodsViewModel's chain arrive, loses an item that was
\* neither recorded as bought nor removed by the user, or a purchase record.
THEOREM NothingLost == Spec => NoLoss
<1>1. Inv /\ [Next]_vars => [KeepsItems]_vars
  BY DeletesBackedStep DEF Inv, TypeInv
<1> QED BY <1>1, InvHolds, PTL DEF Spec, NoLoss

\* A day's stored count is at most the number of EditGoods screens of that day
\* which were told their item is off the list: EditGoodsViewModel's captured
\* count is never applied twice.
THEOREM CountsAreBounded == Spec => []CountBounded
<1>1. Inv => CountBounded
  BY LoadedCovered DEF Inv, TypeInv, CountBounded
<1> QED BY <1>1, InvHolds, PTL

-----------------------------------------------------------------------------
(* Home's rows.                                                            *)

LEMMA SameStoreSameGoods ==
  ASSUME UNCHANGED <<srv, queue>>
  PROVE  loadGoods' = loadGoods
BY DEF loadGoods, LocalView, WritesTo

\* The tail of every handler that writes raises a snapshot when it must.
LEMMA ListenerKeepsCoherence ==
  ASSUME HomeCoherent, HomeTypeOK, HomeWaits, root' = root
  PROVE  HomeCoherent'
<1>1. CASE root = "home" /\ loadGoods' # loadGoods
  BY <1>1 DEF HomeWaits, GoodsListener, HomeCoherent, HomeTypeOK
<1>2. CASE ~(root = "home" /\ loadGoods' # loadGoods)
  BY <1>2 DEF HomeWaits, GoodsListener, HomeCoherent
<1> QED BY <1>1, <1>2

LEMMA HomeCoherentStep ==
  ASSUME TypeInv, HomeCoherent, [Next]_vars
  PROVE  HomeCoherent'
<1>a. HomeTypeOK
  BY DEF TypeInv, TypeOK
<1>b. ASSUME UNCHANGED <<srv, queue, root, homeGoods, snaps, goodsReads, reloadState>>
      PROVE  HomeCoherent'
  BY <1>b, SameStoreSameGoods DEF HomeCoherent
<1>1. CASE SettleWrite
  BY <1>1, <1>a, SettleSummary, ListenerKeepsCoherence
<1>2. CASE UserTaps
  <2>1. CASE add \/ logoutMenuTapped \/ (\E i \in Items : edit(i)) \/ (\E o \in DOMAIN vms : dismiss(o))
    BY <2>1, <1>b DEF add, logoutMenuTapped, edit, dismiss, fsVars, homeVars
  <2>2. CASE \E o \in DOMAIN vms : addGoodsTapped(o) \/ complete(o) \/ remove(o)
    <3>1. HomeWaits /\ root' = root
      BY <2>2 DEF addGoodsTapped, complete, remove, Submit
    <3> QED BY <3>1, <1>a, ListenerKeepsCoherence
  <2> QED BY <1>2, <2>1, <2>2 DEF UserTaps
<1>3. CASE HomeNext
  <2>1. CASE observeGoodsData
    BY <2>1, <1>a DEF observeGoodsData, HomeCoherent, HomeTypeOK
  <2>2. CASE loadGoodsSucceeds
    BY <2>2, SameStoreSameGoods DEF loadGoodsSucceeds, HomeCoherent, fsVars
  <2>3. CASE loadGoodsFails
    BY <2>3 DEF loadGoodsFails, HomeCoherent
  <2>4. CASE loadCountsSucceeds \/ loadCountsFails
    BY <2>4, <1>b DEF loadCountsSucceeds, loadCountsFails, fsVars, screenVars
  <2> QED BY <1>3, <2>1, <2>2, <2>3, <2>4 DEF HomeNext
<1>4. CASE logout \/ login \/ Restart
  BY <1>4 DEF logout, login, Restart, HomeAppears, HomeGone, HomeCoherent
<1>5. CASE DayPasses \/ UNCHANGED vars
  BY <1>5, <1>b DEF DayPasses, vars, fsVars, screenVars, homeVars
<1> QED BY <1>1, <1>2, <1>3, <1>4, <1>5 DEF Next, HomeStep, GoodsStep

\* Home's rows are those of the collection whenever no snapshot and no load is
\* on its way and the last load did not fail (HomeViewModel.observeGoodsData).
THEOREM HomeIsCoherent == Spec => []HomeCoherent
<1>1. Init => HomeCoherent
  BY DEF Init, Launched, HomeCoherent
<1>2. Inv /\ HomeCoherent /\ [Next]_vars => HomeCoherent'
  BY HomeCoherentStep DEF Inv, TypeInv
<1> QED BY <1>1, <1>2, InvHolds, PTL DEF Spec

-----------------------------------------------------------------------------
(* The overlay.                                                            *)

\* Home is on the screen only while a user is signed in, so the first call of
\* a chain always queues its write (checkLogin, showHomeScreen).
UserAtHome == root = "home" => signedIn

LEMMA UserAtHomeStep ==
  ASSUME TypeInv, UserAtHome, [Next]_vars
  PROVE  UserAtHome'
<1>1. CASE SettleWrite /\ UNCHANGED <<signedIn, today, restarts>>
  BY <1>1, SettleSummary DEF UserAtHome
<1>2. CASE UserTaps /\ UNCHANGED <<signedIn, today, restarts>>
  <2>1. root' = root
    BY <1>2 DEF UserTaps, add, logoutMenuTapped, edit, dismiss, addGoodsTapped, complete,
       remove, Submit
  <2> QED BY <1>2, <2>1 DEF UserAtHome
<1>3. CASE HomeStep
  BY <1>3 DEF HomeStep, HomeNext, observeGoodsData, loadGoodsSucceeds, loadGoodsFails,
     loadCountsSucceeds, loadCountsFails, screenVars, UserAtHome
<1>4. CASE logout \/ login
  BY <1>4 DEF logout, login, UserAtHome
<1>5. CASE Restart
  BY <1>5 DEF Restart, UserAtHome
<1>6. CASE DayPasses \/ UNCHANGED vars
  BY <1>6 DEF DayPasses, vars, screenVars, UserAtHome
<1> QED BY <1>1, <1>2, <1>3, <1>4, <1>5, <1>6 DEF Next, GoodsStep

\* A controller that has been told the outcome has removed the overlay from
\* wherever it was, or is gone itself.
LEMMA ReportStopsOverlay ==
  ASSUME NEW o, Report(o)
  PROVE  \/ host' = NoView
         \/ o \notin shown /\ UNCHANGED screenVars
BY DEF Report, Stop

\* The oldest write leaves the queue, the writes ws of its callback join it.
LEMMA SettledQueue ==
  ASSUME FsTypeOK, NEW ws \in Seq(Write), Commit(ws) \/ (Refuse /\ ws = <<>>)
  PROVE  /\ Pending = {Head(queue)} \cup Range(Tail(queue))
         /\ Pending' = Range(Tail(queue)) \cup Range(ws)
         /\ Head(queue) \in Write
<1>1. /\ queue # <<>>
      /\ queue' = Tail(queue) \o ws \/ (queue' = Tail(queue) /\ ws = <<>>)
  BY DEF Commit, Refuse
<1>2. /\ Tail(queue) \in Seq(Write) /\ Head(queue) \in Write
      /\ Range(queue) = {Head(queue)} \cup Range(Tail(queue))
  BY <1>1, RangeTail DEF FsTypeOK
<1>3. CASE queue' = Tail(queue) \o ws
  <2>0. Tail(queue) \in Seq(Write)
    BY <1>2
  <2>1. /\ Tail(queue) \o ws \in Seq(Write)
        /\ Range(Tail(queue) \o ws) = Range(Tail(queue)) \cup Range(ws)
    BY <2>0, RangeConcat
  <2> QED BY <1>2, <1>3, <2>1 DEF Pending
<1>4. CASE queue' = Tail(queue) /\ ws = <<>>
  <2>1. Range(<<>>) = {}
    BY DEF Range
  <2> QED BY <1>2, <1>4, <2>1 DEF Pending
<1> QED BY <1>1, <1>2, <1>3, <1>4

\* A callback that reports an outcome leaves the overlay justified: it belongs
\* to nobody any more, or to a controller that waits for another write.
LEMMA ReportJustified ==
  ASSUME TypeInv, OverlayJustified, vms' = vms, Report(Owner),
         Pending = {Head(queue)} \cup Range(Tail(queue)), Range(Tail(queue)) \subseteq Pending'
  PROVE  OverlayJustified'
<1>1. \A o \in DOMAIN vms : o # NoView
  BY ViewModelsDomain DEF TypeInv, TypeOK, NoView
<1>2. CASE host' = NoView
  BY <1>1, <1>2 DEF OverlayJustified
<1>3. CASE Owner \notin shown /\ UNCHANGED screenVars
  <2> SUFFICES ASSUME NEW o \in DOMAIN vms, host = o
               PROVE  Waits(o)'
    BY <1>3 DEF OverlayJustified, screenVars
  <2>1. o \in shown /\ \E w \in Pending : w.done # Lost /\ w.done.owner = o
    BY DEF OverlayJustified, Waits
  <2>2. PICK w \in Pending : w.done # Lost /\ w.done.owner = o
    BY <2>1
  <2>3. w \in Pending'
    BY <2>1, <2>2, <1>3 DEF Owner
  <2> QED BY <2>1, <2>2, <2>3, <1>3 DEF Waits, screenVars
<1> QED BY <1>2, <1>3, ReportStopsOverlay

\* The next write of a chain keeps its screen waiting, and so does every
\* pending write of another screen.
LEMMA ContinueJustified ==
  ASSUME TypeInv, OverlayJustified, vms' = vms, UNCHANGED screenVars,
         Pending = {Head(queue)} \cup Range(Tail(queue)), Range(Tail(queue)) \subseteq Pending',
         Head(queue).done = Lost \/ \E w \in Pending' : w.done # Lost /\ w.done.owner = Owner
  PROVE  OverlayJustified'
<1> SUFFICES ASSUME NEW o \in DOMAIN vms, host = o
             PROVE  Waits(o)'
  BY DEF OverlayJustified, screenVars
<1>1. o \in shown /\ \E w \in Pending : w.done # Lost /\ w.done.owner = o
  BY DEF OverlayJustified, Waits
<1>2. PICK w \in Pending : w.done # Lost /\ w.done.owner = o
  BY <1>1
<1>3. \E v \in Pending' : v.done # Lost /\ v.done.owner = o
  BY <1>2 DEF Owner
<1> QED BY <1>1, <1>3 DEF Waits, screenVars

\* Every callback, whether its write was committed or refused.
LEMMA SettleJustified ==
  ASSUME TypeInv, OverlayJustified, SettleWrite
  PROVE  OverlayJustified'
<1>a. FsTypeOK /\ ScreensTypeOK
  BY DEF TypeInv, TypeOK
<1>b. vms' = vms
  BY SettleSummary
<1>c. <<>> \in Seq(Write) /\ Range(<<>>) = {} /\ 1 \in Dates
  BY GoodsModelAssumption DEF Range, Dates
<1>d. ASSUME Commit(<<>>) \/ Refuse
      PROVE  /\ Pending = {Head(queue)} \cup Range(Tail(queue))
             /\ Range(Tail(queue)) \subseteq Pending'
             /\ Head(queue) \in Write
  BY <1>a, <1>c, <1>d, SettledQueue
<1>e. ASSUME NEW ws \in Seq(Write), NEW w, Range(ws) \subseteq {w}, Continue(Owner, ws),
             w.done # Lost, w.done.owner = Owner
      PROVE  OverlayJustified'
  <2>1. /\ Pending = {Head(queue)} \cup Range(Tail(queue))
        /\ Range(Tail(queue)) \subseteq Pending' /\ Range(ws) \subseteq Pending'
    BY <1>a, <1>e, SettledQueue DEF Continue
  <2>2. CASE ws = <<>>
    BY <2>1, <2>2, <1>b, <1>e, ReportJustified DEF Continue
  <2>3. CASE ws # <<>>
    <3>1. ws[1] \in Range(ws)
      BY <2>3, EmptySeq, LenProperties DEF Range
    <3>2. w \in Pending'
      BY <3>1, <2>1, <1>e
    <3> QED BY <2>1, <2>3, <3>2, <1>b, <1>e, ContinueJustified DEF Continue
  <2> QED BY <2>2, <2>3
<1>f. \A step \in Steps : Done(step, Owner) # Lost /\ Done(step, Owner).owner = Owner
  BY DEF Done, Lost, Steps
<1>1. CASE addGoodsDone
  BY <1>1, <1>b, <1>d, ReportJustified DEF addGoodsDone
<1>2. CASE addBoughtGoodsDone
  <2> DEFINE ws == deleteGoods(vms[Owner].item, Done("deleteGoods", Owner))
             w == [doc |-> goods(vms[Owner].item), val |-> Absent, done |-> Done("deleteGoods", Owner)]
  <2>1. Owner \in DOMAIN vms /\ vms[Owner].item \in Items
    BY <1>2, OldestOwner DEF addBoughtGoodsDone, Steps
  <2>2. ws \in Seq(Write) /\ Range(ws) \subseteq {w}
    BY <2>1, <1>a, <1>c, ScreenCalls
  <2>3. w.done # Lost /\ w.done.owner = Owner
    BY <1>f DEF Steps
  <2>4. Continue(Owner, ws) \/ (Refuse /\ Report(Owner))
    BY <1>2 DEF addBoughtGoodsDone
  <2> HIDE DEF ws, w
  <2>5. CASE Continue(Owner, ws)
    BY <2>2, <2>3, <2>5, <1>e
  <2>6. CASE Refuse /\ Report(Owner)
    BY <2>6, <1>b, <1>d, ReportJustified
  <2> QED BY <2>4, <2>5, <2>6
<1>3. CASE deleteGoodsDone
  <2> DEFINE ws == updateDateCount(Owner)
             w == [doc |-> datecount(vms[Owner].date), val |-> vms[Owner].count + 1,
                   done |-> Done("updateDateCount", Owner)]
  <2>1. Owner \in DOMAIN vms /\ vms[Owner].item \in Items
    BY <1>3, OldestOwner DEF deleteGoodsDone, Steps
  <2>2. ws \in Seq(Write) /\ Range(ws) \subseteq {w}
    BY <2>1, <1>a, <1>c, ScreenCalls
  <2>3. w.done # Lost /\ w.done.owner = Owner
    BY <1>f DEF Steps
  <2>4. Continue(Owner, ws) \/ (Refuse /\ Report(Owner))
    BY <1>3 DEF deleteGoodsDone
  <2> HIDE DEF ws, w
  <2>5. CASE Continue(Owner, ws)
    BY <2>2, <2>3, <2>5, <1>e
  <2>6. CASE Refuse /\ Report(Owner)
    BY <2>6, <1>b, <1>d, ReportJustified
  <2> QED BY <2>4, <2>5, <2>6
<1>4. CASE updateDateCountDone
  BY <1>4, <1>b, <1>d, ReportJustified DEF updateDateCountDone
<1>5. CASE lostWriteDone
  <2>1. /\ Pending = {Head(queue)} \cup Range(Tail(queue))
        /\ Range(Tail(queue)) \subseteq Pending'
        /\ Head(queue) \in Write
    BY <1>5, <1>d DEF lostWriteDone
  <2>2. Head(queue).done = Lost
    BY <1>5, <2>1 DEF lostWriteDone, Oldest, Write, Callbacks, Steps
  <2> QED BY <1>5, <1>b, <2>1, <2>2, ContinueJustified DEF lostWriteDone
<1> QED BY <1>1, <1>2, <1>3, <1>4, <1>5 DEF SettleWrite

\* A tap that submits covers the tapped screen, which then waits.
LEMMA SubmitJustified ==
  ASSUME TypeInv, UserAtHome, NEW o \in shown, NEW doc, NEW val, NEW step \in Steps,
         Calls(doc, val, Done(step, o)) \in Seq(Write),
         Submit(o, Calls(doc, val, Done(step, o)))
  PROVE  OverlayJustified'
<1> DEFINE w == [doc |-> doc, val |-> val, done |-> Done(step, o)]
<1>1. Calls(doc, val, Done(step, o)) = <<w>>
  BY DEF Submit, Touchable, UserAtHome, Calls, currentUser
<1>2. w.done # Lost /\ w.done.owner = o
  BY DEF Done, Lost, Steps
<1>3. host' = o /\ shown' = shown /\ vms' = vms
  BY DEF Submit, Start
<1> HIDE DEF w
<1>4. Range(<<w>>) = {w}
  BY DEF Range
<1>5. w \in Pending'
  BY <1>1, <1>4, EnqueueStep DEF Submit, TypeInv, TypeOK
<1> QED BY <1>2, <1>3, <1>5 DEF OverlayJustified, Waits

\* Nothing but the screens' own steps covers them.
LEMMA UncoveredJustified ==
  ASSUME TypeInv, vms' = vms, host' \in {NoView, Home}
  PROVE  OverlayJustified'
<1>1. \A o \in DOMAIN vms : o # NoView /\ o # Home
  BY ViewModelsDomain DEF TypeInv, TypeOK, NoView, Home
<1> QED BY <1>1 DEF OverlayJustified

LEMMA OverlayJustifiedStep ==
  ASSUME TypeInv, UserAtHome, OverlayJustified, [Next]_vars
  PROVE  OverlayJustified'
<1>a. FsTypeOK /\ ScreensTypeOK
  BY DEF TypeInv, TypeOK
<1>b. ASSUME UNCHANGED <<queue, vms, host>>, \A o \in shown : o = host => o \in shown'
      PROVE  OverlayJustified'
  BY <1>b DEF OverlayJustified, Waits, Pending
<1>c. ASSUME UNCHANGED <<fsVars, host>>, NEW vm \in ViewModel, Present(vm), UNCHANGED root
      PROVE  OverlayJustified'
  <2>1. /\ DOMAIN vms' = DOMAIN vms \cup {Len(vms) + 1}
        /\ Len(vms) + 1 \notin DOMAIN vms
    BY <1>a, <1>c, PresentStep
  <2>2. shown \subseteq shown' /\ queue' = queue /\ host' = host
    BY <1>c DEF Present, fsVars
  <2>3. host # Len(vms) + 1
    BY <2>1, <1>a, ViewModelsDomain DEF ScreensTypeOK, NoView, Home
  <2> QED BY <2>1, <2>2, <2>3 DEF OverlayJustified, Waits, Pending
<1>1. CASE SettleWrite
  BY <1>1, SettleJustified
<1>2. CASE UserTaps
  <2>1. CASE add \/ logoutMenuTapped
    BY <2>1, <1>c, NewViewModels DEF add, logoutMenuTapped
  <2>2. ASSUME NEW i \in Items, edit(i) PROVE OverlayJustified'
    BY <2>2, <1>c, NewViewModels DEF edit
  <2>3. ASSUME NEW o \in DOMAIN vms, dismiss(o) PROVE OverlayJustified'
    <3>1. UNCHANGED <<queue, vms, host>> /\ o # host /\ o \in Nat
      BY <2>3, <1>a, ViewModelsDomain DEF dismiss, fsVars, Touchable
    <3>2. ASSUME NEW p \in shown, p = host PROVE p \in shown'
      <4>1. p <= o /\ p # o /\ p \in Nat
        BY <2>3, <3>1, <3>2, <1>a, ViewModelsDomain DEF dismiss, Touchable, ScreensTypeOK
      <4>2. p < o
        BY <4>1, <3>1
      <4> QED BY <4>2, <2>3 DEF dismiss, Dismiss
    <3> QED BY <3>1, <3>2, <1>b
  <2>4. ASSUME NEW o \in DOMAIN vms, addGoodsTapped(o) PROVE OverlayJustified'
    <3>1. PICK i \in Items : Submit(o, addGoods(i, Done("addGoods", o)))
      BY <2>4 DEF addGoodsTapped
    <3>2. o \in shown /\ addGoods(i, Done("addGoods", o)) \in Seq(Write)
      BY <2>4, TapWrites DEF addGoodsTapped
    <3> QED BY <3>1, <3>2, SubmitJustified DEF addGoods, Steps
  <2>e. ASSUME NEW o \in DOMAIN vms, vms[o].kind = "edit" PROVE vms[o].item \in Items
    <3>1. vms[o] \in ViewModel
      BY <1>a, ViewModelsDomain, ElementOfSeq DEF ScreensTypeOK
    <3> QED BY <3>1, <2>e DEF ViewModel
  <2>5. ASSUME NEW o \in DOMAIN vms, complete(o) PROVE OverlayJustified'
    <3>1. /\ o \in shown
          /\ Submit(o, addBoughtGoods(vms[o].item, today, Done("addBoughtGoods", o)))
      BY <2>5 DEF complete
    <3>2. addBoughtGoods(vms[o].item, today, Done("addBoughtGoods", o)) \in Seq(Write)
      BY <2>5, <2>e, <3>1, TapWrites DEF complete
    <3> QED BY <3>1, <3>2, SubmitJustified DEF addBoughtGoods, Steps
  <2>6. ASSUME NEW o \in DOMAIN vms, remove(o) PROVE OverlayJustified'
    <3>1. o \in shown /\ Submit(o, deleteGoods(vms[o].item, Done("deleteGoods", o)))
      BY <2>6 DEF remove
    <3>2. deleteGoods(vms[o].item, Done("deleteGoods", o)) \in Seq(Write)
      BY <2>6, <2>e, <3>1, TapWrites DEF remove
    <3> QED BY <3>1, <3>2, SubmitJustified DEF deleteGoods, Steps
  <2> QED BY <1>2, <2>1, <2>2, <2>3, <2>4, <2>5, <2>6 DEF UserTaps
<1>3. CASE HomeNext
  <2>1. CASE observeGoodsData \/ loadGoodsSucceeds \/ loadGoodsFails
    BY <2>1, UncoveredJustified
       DEF observeGoodsData, loadGoodsSucceeds, loadGoodsFails, Start, Stop
  <2>2. CASE loadCountsSucceeds \/ loadCountsFails
    BY <2>2, <1>b DEF loadCountsSucceeds, loadCountsFails, fsVars, screenVars
  <2> QED BY <1>3, <2>1, <2>2 DEF HomeNext
<1>4. CASE logout \/ Restart
  BY <1>4, UncoveredJustified DEF logout, Restart
<1>5. CASE login \/ DayPasses \/ UNCHANGED vars
  BY <1>5, <1>b DEF login, DayPasses, vars, fsVars, screenVars
<1> QED BY <1>1, <1>2, <1>3, <1>4, <1>5 DEF Next, HomeStep, GoodsStep

\* The overlay covers AddGoods or EditGoods only while that screen waits for a
\* write of its own: every end of addGoods, addBoughtGoods, deleteGoods and
\* updateDateCount, a call that fails on the spot included, takes it away.
THEOREM OverlayIsJustified == Spec => []OverlayJustified
<1>1. Init => UserAtHome /\ OverlayJustified
  BY DEF Init, Launched, UserAtHome, OverlayJustified
<1>2. Inv /\ UserAtHome /\ OverlayJustified /\ [Next]_vars => (UserAtHome /\ OverlayJustified)'
  BY UserAtHomeStep, OverlayJustifiedStep DEF Inv, TypeInv
<1> QED BY <1>1, <1>2, InvHolds, PTL DEF Spec

-----------------------------------------------------------------------------
(* The life of an item.                                                    *)

\* Removing the oldest write keeps the order, and no add of an item follows a
\* write about it.
LEMMA AddsFirstTail ==
  ASSUME NEW S, NEW q \in Seq(Write), q # <<>>, AddsFirst(q, S)
  PROVE  /\ AddsFirst(Tail(q), S)
         /\ \A i \in S : Head(q).doc \in DocsOf(i) =>
              \A w \in Range(Tail(q)) : ~AddOf(w, i)
<1>1. /\ Len(q) \in Nat \ {0} /\ DOMAIN q = 1 .. Len(q) /\ Head(q) = q[1]
      /\ DOMAIN Tail(q) = 1 .. (Len(q) - 1)
      /\ \A n \in 1 .. (Len(q) - 1) : Tail(q)[n] = q[n + 1]
  BY HeadTailProperties, LenProperties, EmptySeq
<1>2. \A n \in DOMAIN Tail(q) : n \in Nat /\ n + 1 \in DOMAIN q /\ n + 1 > 1 /\ Tail(q)[n] = q[n + 1]
  BY <1>1
<1>3. AddsFirst(Tail(q), S)
  <2> SUFFICES ASSUME NEW m \in DOMAIN Tail(q), NEW n \in DOMAIN Tail(q), NEW i \in S,
                      AddOf(Tail(q)[n], i), Tail(q)[m].doc \in DocsOf(i)
               PROVE  n <= m
    BY DEF AddsFirst
  <2>1. n + 1 <= m + 1
    BY <1>2 DEF AddsFirst
  <2> QED BY <2>1, <1>2
<1>4. ASSUME NEW i \in S, Head(q).doc \in DocsOf(i), NEW w \in Range(Tail(q)), AddOf(w, i)
      PROVE  FALSE
  <2>1. PICK n \in DOMAIN Tail(q) : w = Tail(q)[n]
    BY <1>4 DEF Range
  <2>2. n + 1 <= 1
    BY <1>1, <1>2, <1>4, <2>1 DEF AddsFirst
  <2> QED BY <2>2, <1>2
<1> QED BY <1>3, <1>4

\* One write joins the queue: about a new item, or not an add.
LEMMA AddsFirstAppend ==
  ASSUME NEW S, NEW q \in Seq(Write), NEW w \in Write, AddsFirst(q, S),
         \A i \in S : AddOf(w, i) => \A v \in Range(q) : v.doc \notin DocsOf(i)
  PROVE  AddsFirst(q \o <<w>>, S)
<1>1. /\ Len(q) \in Nat /\ DOMAIN q = 1 .. Len(q)
      /\ <<w>> \in Seq(Write) /\ Len(<<w>>) = 1 /\ <<w>>[1] = w
  BY LenProperties
<1>2. /\ DOMAIN (q \o <<w>>) = 1 .. (Len(q) + 1)
      /\ \A n \in 1 .. (Len(q) + 1) : (q \o <<w>>)[n] = IF n <= Len(q) THEN q[n] ELSE <<w>>[n - Len(q)]
  BY <1>1, ConcatProperties, LenProperties
<1>3. \A n \in 1 .. Len(q) : (q \o <<w>>)[n] = q[n] /\ q[n] \in Range(q)
  BY <1>1, <1>2 DEF Range
<1>4. (q \o <<w>>)[Len(q) + 1] = w
  BY <1>1, <1>2
<1> SUFFICES ASSUME NEW m \in 1 .. (Len(q) + 1), NEW n \in 1 .. (Len(q) + 1), NEW i \in S,
                    AddOf((q \o <<w>>)[n], i), (q \o <<w>>)[m].doc \in DocsOf(i)
             PROVE  n <= m
  BY <1>2 DEF AddsFirst
<1>5. CASE m = Len(q) + 1
  BY <1>5, <1>1
<1>6. CASE m \in 1 .. Len(q) /\ n = Len(q) + 1
  BY <1>3, <1>4, <1>6
<1>7. CASE m \in 1 .. Len(q) /\ n \in 1 .. Len(q)
  BY <1>1, <1>3, <1>7 DEF AddsFirst
<1> QED BY <1>1, <1>5, <1>6, <1>7

\* A restart forgets the callbacks and nothing else.
LEMMA AddsFirstLost ==
  ASSUME NEW S, FsTypeOK, LoseCallbacks, AddsFirst(queue, S)
  PROVE  AddsFirst(queue', S) /\ \A i \in Items : AddPending(i)' <=> AddPending(i)
<1>1. DOMAIN queue' = DOMAIN queue
  BY DEF LoseCallbacks
<1>2. \A n \in DOMAIN queue : queue'[n].doc = queue[n].doc /\ queue'[n].val = queue[n].val
  <2>1. \A n \in DOMAIN queue : queue[n] \in Write
    BY LenProperties, ElementOfSeq DEF FsTypeOK
  <2> QED BY <2>1 DEF LoseCallbacks, Write
<1>3. AddsFirst(queue', S)
  BY <1>1, <1>2 DEF AddsFirst, AddOf
<1>4. ASSUME NEW i \in Items PROVE AddPending(i)' <=> AddPending(i)
  BY <1>1, <1>2 DEF AddPending, AddOf, Pending, Range
<1> QED BY <1>3, <1>4

\* What the device reads of an item that was never drawn.
LEMMA LoadedDrawn ==
  ASSUME TypeInv, Drawn
  PROVE  loadGoods \subseteq used
<1> SUFFICES ASSUME NEW i \in Items, i \notin used, LocalView(goods(i)) # Absent
             PROVE  FALSE
  BY DEF loadGoods
<1>1. srv[goods(i)] = Absent /\ \A n \in DOMAIN queue : queue[n].doc # goods(i)
  BY DEF Drawn, Listed, Pending, Range, DocsOf
<1> QED BY <1>1, LocalViewOrigin DEF TypeInv, TypeOK, FsTypeOK

\* What a tap does to the items: nothing, or it queues one write, which adds a
\* new item, records a purchase or removes an item that was drawn before.
TapOnItem(w, i) ==
  /\ queue' = queue \o <<w>>
  /\ \/ /\ i \notin used
        /\ AddOf(w, i)
        /\ used' = used \cup {i} /\ dropped' = dropped
     \/ /\ i \in used
        /\ w.doc = boughtgoods(i)
        /\ used' = used /\ dropped' = dropped
     \/ /\ i \in used
        /\ w.doc = goods(i) /\ w.val = Absent
        /\ used' = used /\ dropped' = dropped \cup {i}

TapOnItems ==
  /\ srv' = srv /\ homeGoods' = homeGoods
  /\ \A o \in DOMAIN vms' : vms'[o].item \in Items =>
       vms'[o].item \in homeGoods \/ \E p \in DOMAIN vms : vms[p].item = vms'[o].item
  /\ \/ UNCHANGED <<queue, used, dropped>>
     \/ \E w \in Write, i \in Items : TapOnItem(w, i)

LEMMA TapsOnItems ==
  ASSUME TypeInv, UserAtHome, Drawn, UserTaps
  PROVE  TapOnItems
<1>a. FsTypeOK /\ ScreensTypeOK /\ HomeTypeOK /\ today \in Dates
  BY DEF TypeInv, TypeOK, HomeTypeOK
<1>c. ASSUME NEW vm \in ViewModel, Present(vm), UNCHANGED <<root, host>>,
             UNCHANGED <<fsVars, homeVars, editVars>>,
             vm.item \in Items => vm.item \in homeGoods
      PROVE  TapOnItems
  <2>1. /\ DOMAIN vms' = DOMAIN vms \cup {Len(vms) + 1}
        /\ \A o \in DOMAIN vms : vms'[o] = vms[o]
        /\ vms'[Len(vms) + 1] = vm
    BY <1>a, <1>c, PresentStep
  <2> QED BY <1>c, <2>1 DEF TapOnItems, fsVars, homeVars, editVars
<1>1. CASE add \/ logoutMenuTapped
  <2>0. PICK k \in {"add", "logout"} :
          /\ Present([kind |-> k, item |-> NoItem, date |-> today, count |-> 0])
          /\ UNCHANGED <<root, host>> /\ UNCHANGED <<fsVars, homeVars, editVars>>
    BY <1>1 DEF add, logoutMenuTapped
  <2> DEFINE vm == [kind |-> k, item |-> NoItem, date |-> today, count |-> 0]
  <2>1. vm \in ViewModel /\ vm.item \notin Items
    BY NewViewModels, GoodsModelAssumption
  <2>2. Present(vm) /\ UNCHANGED <<root, host>> /\ UNCHANGED <<fsVars, homeVars, editVars>>
    BY <2>0
  <2> HIDE DEF vm
  <2> QED BY <2>1, <2>2, <1>c
<1>2. ASSUME NEW i \in Items, edit(i) PROVE TapOnItems
  <2> DEFINE vm == [kind |-> "edit", item |-> i, date |-> getDateCount.date,
                    count |-> getDateCount.count]
  <2>1. vm \in ViewModel /\ vm.item \in homeGoods
    BY <1>2, NewViewModels DEF edit
  <2>2. Present(vm) /\ UNCHANGED <<root, host>> /\ UNCHANGED <<fsVars, homeVars, editVars>>
    BY <1>2 DEF edit
  <2> HIDE DEF vm
  <2> QED BY <2>1, <2>2, <1>c
<1>3. ASSUME NEW o \in DOMAIN vms, dismiss(o) PROVE TapOnItems
  BY <1>3 DEF dismiss, TapOnItems, fsVars, homeVars, editVars
<1>d. ASSUME NEW o \in DOMAIN vms, NEW w, <<w>> \in Seq(Write), Submit(o, <<w>>),
             NEW i \in Items, queue' = queue \o <<w>> => TapOnItem(w, i)
      PROVE  TapOnItems
  <2>1. vms' = vms /\ srv' = srv /\ homeGoods' = homeGoods /\ queue' = queue \o <<w>>
    BY <1>d DEF Submit, Enqueue, HomeWaits
  <2>2. w \in Write
    <3>1. Len(<<w>>) = 1 /\ <<w>>[1] = w
      OBVIOUS
    <3> QED BY <1>d, <3>1, ElementOfSeq
  <2> QED BY <1>d, <2>1, <2>2 DEF TapOnItems
<1>f. ASSUME NEW o, NEW ws, Submit(o, ws), NEW doc, NEW val, NEW done, ws = Calls(doc, val, done)
      PROVE  ws = <<[doc |-> doc, val |-> val, done |-> done]>>
  BY <1>f DEF Submit, Touchable, UserAtHome, Calls, currentUser
<1>4. ASSUME NEW o \in DOMAIN vms, addGoodsTapped(o) PROVE TapOnItems
  <2>1. PICK i \in Items \ used :
          used' = used \cup {i} /\ Submit(o, addGoods(i, Done("addGoods", o)))
    BY <1>4 DEF addGoodsTapped
  <2>2. o \in shown /\ dropped' = dropped
    BY <1>4 DEF addGoodsTapped
  <2> DEFINE w == [doc |-> goods(i), val |-> GoodsData, done |-> Done("addGoods", o)]
  <2>3. addGoods(i, Done("addGoods", o)) = <<w>>
    BY <2>1, <1>f DEF addGoods
  <2>4. <<w>> \in Seq(Write) /\ AddOf(w, i)
    BY <2>2, <2>3, TapWrites, GoodsModelAssumption DEF AddOf
  <2> HIDE DEF w
  <2> QED BY <2>1, <2>2, <2>3, <2>4, <1>d DEF TapOnItem
<1>e. ASSUME NEW o \in DOMAIN vms, vms[o].kind = "edit"
      PROVE  vms[o].item \in Items /\ vms[o].item \in used
  <2>1. vms[o] \in ViewModel
    BY <1>a, ViewModelsDomain, ElementOfSeq DEF ScreensTypeOK
  <2> QED BY <2>1, <1>e DEF ViewModel, Drawn
<1>5. ASSUME NEW o \in DOMAIN vms, complete(o) PROVE TapOnItems
  <2>0. PICK i \in Items : i = vms[o].item /\ i \in used
    BY <1>5, <1>e DEF complete
  <2>1. /\ o \in shown /\ used' = used /\ dropped' = dropped
        /\ Submit(o, addBoughtGoods(i, today, Done("addBoughtGoods", o)))
    BY <1>5, <2>0 DEF complete, editVars
  <2> DEFINE w == [doc |-> boughtgoods(i), val |-> today, done |-> Done("addBoughtGoods", o)]
  <2>3. addBoughtGoods(i, today, Done("addBoughtGoods", o)) = <<w>>
    BY <2>1, <1>f DEF addBoughtGoods
  <2>4. <<w>> \in Seq(Write) /\ w.doc = boughtgoods(i)
    BY <2>0, <2>1, <2>3, TapWrites
  <2> HIDE DEF w
  <2> QED BY <2>0, <2>1, <2>3, <2>4, <1>d DEF TapOnItem
<1>6. ASSUME NEW o \in DOMAIN vms, remove(o) PROVE TapOnItems
  <2>0. PICK i \in Items : i = vms[o].item /\ i \in used
    BY <1>6, <1>e DEF remove
  <2>1. /\ o \in shown /\ used' = used /\ dropped' = dropped \cup {i}
        /\ Submit(o, deleteGoods(i, Done("deleteGoods", o)))
    BY <1>6, <2>0 DEF remove
  <2> DEFINE w == [doc |-> goods(i), val |-> Absent, done |-> Done("deleteGoods", o)]
  <2>3. deleteGoods(i, Done("deleteGoods", o)) = <<w>>
    BY <2>1, <1>f DEF deleteGoods
  <2>4. <<w>> \in Seq(Write) /\ w.doc = goods(i) /\ w.val = Absent
    BY <2>0, <2>1, <2>3, TapWrites
  <2> HIDE DEF w
  <2> QED BY <2>0, <2>1, <2>3, <2>4, <1>d DEF TapOnItem
<1> QED BY <1>1, <1>2, <1>3, <1>4, <1>5, <1>6 DEF UserTaps

\* What a settled write does to the items: its callback queues no add of an
\* item of S, and nothing about an item that was never drawn.
SettleOnItems(S) ==
  /\ UNCHANGED <<vms, homeGoods, used, dropped>>
  /\ \/ Refuse
     \/ Commit(<<>>)
     \/ \E w \in Write :
          /\ Commit(<<w>>)
          /\ \A i \in S : ~AddOf(w, i)
          /\ \A i \in Items : w.doc \in DocsOf(i) => i \in used

LEMMA SettlesOnItems ==
  ASSUME TypeInv, Drawn, SettleWrite
  PROVE  SettleOnItems(Items)
<1>a. FsTypeOK /\ ScreensTypeOK
  BY DEF TypeInv, TypeOK
<1>b. UNCHANGED <<vms, homeGoods, used, dropped>>
  BY SettleSummary DEF HomeWaits
<1>c. 1 \in Dates
  BY GoodsModelAssumption DEF Dates
<1>d. ASSUME NEW doc, NEW val, NEW done, Calls(doc, val, done) \in Seq(Write),
             \A i \in Items : /\ doc = goods(i) => val = Absent
                              /\ doc \in DocsOf(i) => i \in used,
             Commit(Calls(doc, val, done))
      PROVE  SettleOnItems(Items)
  <2> DEFINE w == [doc |-> doc, val |-> val, done |-> done]
  <2>1. CASE Calls(doc, val, done) = <<>>
    BY <1>b, <1>d, <2>1 DEF SettleOnItems
  <2>2. CASE Calls(doc, val, done) = <<w>>
    <3>1. \A i \in Items : ~AddOf(w, i) /\ (w.doc \in DocsOf(i) => i \in used)
      BY <1>d DEF AddOf
    <3> HIDE DEF w
    <3>2. Len(<<w>>) = 1 /\ <<w>>[1] = w
      OBVIOUS
    <3>3. w \in Write
      BY <1>d, <2>2, <3>2, ElementOfSeq
    <3> QED BY <1>b, <1>d, <2>2, <3>1, <3>3 DEF SettleOnItems
  <2> QED BY <2>1, <2>2 DEF Calls
<1>1. CASE addGoodsDone \/ updateDateCountDone \/ lostWriteDone
  BY <1>1, <1>b DEF addGoodsDone, updateDateCountDone, lostWriteDone, SettleOnItems
<1>2. CASE addBoughtGoodsDone
  <2>1. Owner \in DOMAIN vms /\ vms[Owner].item \in Items
    BY <1>2, OldestOwner DEF addBoughtGoodsDone, Steps
  <2>2. deleteGoods(vms[Owner].item, Done("deleteGoods", Owner)) \in Seq(Write)
    BY <2>1, <1>a, <1>c, ScreenCalls
  <2>3. Refuse \/ Commit(deleteGoods(vms[Owner].item, Done("deleteGoods", Owner)))
    BY <1>2 DEF addBoughtGoodsDone, Continue
  <2>4. \A i \in Items : goods(vms[Owner].item) \in DocsOf(i) => i \in used
    BY <2>1 DEF DocsOf, goods, boughtgoods, Drawn
  <2>5. CASE Refuse
    BY <1>b, <2>5 DEF SettleOnItems
  <2> QED BY <2>2, <2>3, <2>4, <2>5, <1>d DEF deleteGoods
<1>3. CASE deleteGoodsDone
  <2>1. Owner \in DOMAIN vms /\ vms[Owner].item \in Items
    BY <1>3, OldestOwner DEF deleteGoodsDone, Steps
  <2>2. updateDateCount(Owner) \in Seq(Write)
    BY <2>1, <1>a, <1>c, ScreenCalls
  <2>3. Refuse \/ Commit(updateDateCount(Owner))
    BY <1>3 DEF deleteGoodsDone, Continue
  <2>4. \A i \in Items : datecount(vms[Owner].date) # goods(i) /\ datecount(vms[Owner].date) \notin DocsOf(i)
    BY DEF DocsOf, goods, boughtgoods, datecount
  <2>5. CASE Refuse
    BY <1>b, <2>5 DEF SettleOnItems
  <2> QED BY <2>2, <2>3, <2>4, <2>5, <1>d DEF updateDateCount, updateGoodsCountForDate
<1> QED BY <1>1, <1>2, <1>3 DEF SettleWrite

\* The other steps leave the store and its pending contents alone.
OtherOnItems(S) ==
  /\ UNCHANGED <<srv, vms, used, dropped>>
  /\ homeGoods' \subseteq used
  /\ AddsFirst(queue', S)
  /\ \A i \in Items : AddPending(i)' <=> AddPending(i)
  /\ \A v \in Pending' : \E w \in Pending : w.doc = v.doc

LEMMA OthersOnItems ==
  ASSUME NEW S, TypeInv, Drawn, AddsFirst(queue, S), OtherStep
  PROVE  OtherOnItems(S)
<1>a. FsTypeOK /\ homeGoods \subseteq used
  BY DEF TypeInv, TypeOK, Drawn
<1>b. /\ UNCHANGED <<srv, vms, dropped>>
      /\ \A v \in Pending' : \E w \in Pending : w.doc = v.doc
  BY OtherEffect
<1>c. ASSUME UNCHANGED <<queue, used>>, homeGoods' \in {homeGoods, {}, loadGoods}
      PROVE  OtherOnItems(S)
  <2>1. loadGoods \subseteq used
    BY LoadedDrawn
  <2> HIDE DEF loadGoods
  <2> QED BY <1>a, <1>b, <1>c, <2>1 DEF OtherOnItems, AddPending, Pending, AddOf
<1>1. CASE HomeStep
  <2>1. UNCHANGED <<queue, used>>
    BY <1>1, HomeStepType DEF editVars
  <2>2. homeGoods' \in {homeGoods, loadGoods}
    BY <1>1 DEF HomeStep, HomeNext, observeGoodsData, loadGoodsSucceeds, loadGoodsFails,
       loadCountsSucceeds, loadCountsFails
  <2> QED BY <2>1, <2>2, <1>c
<1>2. CASE logout \/ login
  BY <1>2, <1>c DEF logout, login, HomeGone, HomeAppears, BlankHome, fsVars, editVars
<1>3. CASE Restart
  <2>1. LoseCallbacks /\ used' = used /\ homeGoods' = {}
    BY <1>3 DEF Restart, HomeGone, HomeAppears, BlankHome, editVars
  <2> QED BY <2>1, <1>a, <1>b, AddsFirstLost DEF OtherOnItems
<1>4. CASE DayPasses \/ UNCHANGED vars
  BY <1>4, <1>c DEF DayPasses, vars, fsVars, homeVars, editVars
<1> QED BY <1>1, <1>2, <1>3, <1>4 DEF OtherStep

\* The queue after the oldest write was settled, seen item by item.
LEMMA SettledItems ==
  ASSUME NEW S \in SUBSET Items, TypeInv, Drawn, AddsFirst(queue, S), SettleOnItems(S)
  PROVE  /\ Head(queue) \in Pending /\ Head(queue) \in Write
         /\ AddsFirst(queue', S)
         /\ \A v \in Pending' : \A i \in Items : v \in Pending \/ v.doc \notin DocsOf(i) \/ i \in used
         /\ \A i \in S : AddPending(i)' => AddPending(i)
         /\ \A i \in Items : AddPending(i) => AddPending(i)' \/ AddOf(Head(queue), i)
         /\ \A i \in S : Head(queue).doc \in DocsOf(i) => ~AddPending(i)'
         /\ \/ srv' = srv
            \/ \A d \in Docs : srv'[d] = IF d = Head(queue).doc THEN Head(queue).val ELSE srv[d]
<1>a. FsTypeOK /\ queue \in Seq(Write) /\ <<>> \in Seq(Write)
  BY DEF TypeInv, TypeOK, FsTypeOK
<1>b. queue # <<>>
  BY DEF SettleOnItems, Commit, Refuse
<1>1. /\ Tail(queue) \in Seq(Write) /\ Head(queue) \in Write /\ Head(queue) \in Pending
      /\ Pending = {Head(queue)} \cup Range(Tail(queue))
      /\ AddsFirst(Tail(queue), S)
      /\ \A i \in S : Head(queue).doc \in DocsOf(i) =>
           \A w \in Range(Tail(queue)) : ~AddOf(w, i)
  BY <1>a, <1>b, RangeTail, AddsFirstTail DEF Pending
<1>2. \/ srv' = srv
      \/ \A d \in Docs : srv'[d] = IF d = Head(queue).doc THEN Head(queue).val ELSE srv[d]
  <2>1. CASE Refuse
    BY <2>1 DEF Refuse
  <2>2. CASE \E ws \in Seq(Write) : Commit(ws)
    BY <2>2, <1>a, CommitStep
  <2>3. \A w \in Write : <<w>> \in Seq(Write)
    OBVIOUS
  <2> QED BY <2>1, <2>2, <2>3, <1>a DEF SettleOnItems
<1>3. /\ AddsFirst(queue', S)
      /\ Range(Tail(queue)) \subseteq Pending'
      /\ \A v \in Pending' : \/ v \in Range(Tail(queue))
                             \/ /\ \A i \in S : ~AddOf(v, i)
                                /\ \A i \in Items : v.doc \in DocsOf(i) => i \in used
  <2>1. CASE Refuse \/ Commit(<<>>)
    <3>1. queue' = Tail(queue) \/ queue' = Tail(queue) \o <<>>
      BY <2>1 DEF Refuse, Commit
    <3>2. queue' = Tail(queue)
      BY <3>1, <1>1, ConcatEmptySeq
    <3> QED BY <3>2, <1>1 DEF Pending
  <2>2. ASSUME NEW w \in Write, Commit(<<w>>),
               \A i \in S : ~AddOf(w, i), \A i \in Items : w.doc \in DocsOf(i) => i \in used
        PROVE  /\ AddsFirst(queue', S)
               /\ Range(Tail(queue)) \subseteq Pending'
               /\ \A v \in Pending' :
                    \/ v \in Range(Tail(queue))
                    \/ /\ \A i \in S : ~AddOf(v, i)
                       /\ \A i \in Items : v.doc \in DocsOf(i) => i \in used
    <3>1. queue' = Tail(queue) \o <<w>> /\ <<w>> \in Seq(Write)
      BY <2>2 DEF Commit
    <3>2. /\ Tail(queue) \o <<w>> \in Seq(Write)
          /\ Range(Tail(queue) \o <<w>>) = Range(Tail(queue)) \cup Range(<<w>>)
      BY <1>1, <3>1, RangeConcat
    <3>3. Range(<<w>>) = {w}
      BY DEF Range
    <3>4. AddsFirst(Tail(queue) \o <<w>>, S)
      BY <1>1, <2>2, AddsFirstAppend
    <3> QED BY <2>2, <3>1, <3>2, <3>3, <3>4 DEF Pending
  <2> QED BY <2>1, <2>2 DEF SettleOnItems
<1>4. /\ \A v \in Pending' : \A i \in Items : v \in Pending \/ v.doc \notin DocsOf(i) \/ i \in used
      /\ \A i \in S : AddPending(i)' => AddPending(i)
      /\ \A i \in Items : AddPending(i) => AddPending(i)' \/ AddOf(Head(queue), i)
      /\ \A i \in S : Head(queue).doc \in DocsOf(i) => ~AddPending(i)'
  BY <1>1, <1>3 DEF AddPending, AddOf
<1> QED BY <1>1, <1>2, <1>3, <1>4

LEMMA ItemDocs ==
  ASSUME NEW i \in Items
  PROVE  /\ goods(i) \in Docs /\ boughtgoods(i) \in Docs /\ goods(i) # boughtgoods(i)
         /\ \A j \in Items : goods(j) # boughtgoods(i)
         /\ \A j \in Items : (goods(i) = goods(j) => i = j) /\ (boughtgoods(i) = boughtgoods(j) => i = j)
         /\ \A j \in Items : j # i => DocsOf(i) \cap DocsOf(j) = {}
BY DEF Docs, goods, boughtgoods, DocsOf

\* An id is drawn before anything is written under it, by every step.
LEMMA DrawnStep ==
  ASSUME TypeInv, UserAtHome, Drawn, ListedOnce(Items), [Next]_vars
  PROVE  Drawn' /\ ListedOnce(Items)'
<1>a. FsTypeOK /\ queue \in Seq(Write) /\ AddsFirst(queue, Items)
  BY DEF TypeInv, TypeOK, FsTypeOK, ListedOnce
<1>1. CASE OtherStep
  <2>1. OtherOnItems(Items)
    BY <1>1, <1>a, OthersOnItems
  <2>2. Drawn'
    BY <2>1 DEF OtherOnItems, Drawn, Listed, Bought, DocsOf
  <2>3. ListedOnce(Items)'
    BY <2>1 DEF OtherOnItems, ListedOnce, Listed, Bought, AddsFirst, DocsOf, AddOf
  <2> QED BY <2>2, <2>3
<1>2. CASE UserTaps
  <2>1. TapOnItems
    BY <1>2, TapsOnItems
  <2>2. CASE UNCHANGED <<queue, used, dropped>>
    <3>1. Drawn'
      BY <2>1, <2>2 DEF TapOnItems, Drawn, Listed, Bought, DocsOf, Pending
    <3>2. ListedOnce(Items)'
      BY <2>1, <2>2 DEF TapOnItems, ListedOnce, Listed, Bought, AddsFirst, DocsOf, AddOf,
         AddPending, Pending
    <3> QED BY <3>1, <3>2
  <2>3. ASSUME NEW w \in Write, NEW i \in Items, TapOnItem(w, i)
        PROVE  Drawn' /\ ListedOnce(Items)'
    <3>1. queue' = queue \o <<w>> /\ i \in used' /\ used \subseteq used' /\ used' \subseteq used \cup {i}
      BY <2>3 DEF TapOnItem
    <3>2. w.doc \in DocsOf(i)
      BY <2>3 DEF TapOnItem, DocsOf, AddOf
    <3>3. Pending' = Pending \cup {w}
      <4>1. <<w>> \in Seq(Write) /\ Range(<<w>>) = {w}
        BY DEF Range
      <4>2. /\ queue \o <<w>> \in Seq(Write)
            /\ Range(queue \o <<w>>) = Range(queue) \cup Range(<<w>>)
        BY <1>a, <4>1, RangeConcat
      <4> QED BY <3>1, <4>1, <4>2 DEF Pending
    <3>4. \A j \in Items : AddOf(w, j) => j = i /\ i \notin used
      BY <2>3, ItemDocs, GoodsModelAssumption DEF TapOnItem, AddOf
    <3>5. AddsFirst(queue', Items)
      <4>1. \A j \in Items : AddOf(w, j) => \A v \in Range(queue) : v.doc \notin DocsOf(j)
        BY <3>4 DEF Drawn, Pending
      <4> QED BY <1>a, <3>1, <4>1, AddsFirstAppend
    <3>6. ListedOnce(Items)'
      <4>1. ASSUME NEW j \in Items, AddPending(j)' PROVE ~Listed(j) /\ ~Bought(j)
        BY <4>1, <3>3, <3>4 DEF AddPending, ListedOnce, Drawn
      <4>2. srv' = srv
        BY <2>1 DEF TapOnItems
      <4>3. AddsFirst(queue, Items)'
        BY <3>5 DEF AddsFirst, AddOf, DocsOf
      <4> QED BY <4>1, <4>2, <4>3 DEF ListedOnce, Listed, Bought
    <3>7. Drawn'
      <4>1. \A j \in Items \ used' : ~Listed(j)' /\ ~Bought(j)' /\ \A v \in Pending' : v.doc \notin DocsOf(j)
        <5>1. \A j \in Items \ used' : j \in Items \ used /\ j # i
          BY <3>1
        <5>2. \A j \in Items \ used' : w.doc \notin DocsOf(j)
          BY <5>1, <3>2, ItemDocs
        <5> QED BY <5>1, <5>2, <2>1, <3>3 DEF TapOnItems, Drawn, Listed, Bought
      <4>2. \A o \in DOMAIN vms' : vms'[o].item \in Items => vms'[o].item \in used'
        BY <2>1, <3>1 DEF TapOnItems, Drawn
      <4>3. homeGoods' \subseteq used'
        BY <2>1, <3>1 DEF TapOnItems, Drawn
      <4> QED BY <4>1, <4>2, <4>3 DEF Drawn, DocsOf
    <3> QED BY <3>6, <3>7
  <2> QED BY <2>1, <2>2, <2>3 DEF TapOnItems
<1>3. CASE SettleWrite
  <2>0. SettleOnItems(Items) /\ UNCHANGED <<vms, homeGoods, used, dropped>>
    BY <1>3, SettlesOnItems DEF SettleOnItems
  <2>1. /\ Head(queue) \in Pending
        /\ AddsFirst(queue', Items)
        /\ \A v \in Pending' : \A i \in Items : v \in Pending \/ v.doc \notin DocsOf(i) \/ i \in used
        /\ \A i \in Items : AddPending(i)' => AddPending(i)
        /\ \A i \in Items : Head(queue).doc \in DocsOf(i) => ~AddPending(i)'
        /\ \/ srv' = srv
           \/ \A d \in Docs : srv'[d] = IF d = Head(queue).doc THEN Head(queue).val ELSE srv[d]
    BY <2>0, <1>a, SettledItems
  <2>2. ASSUME NEW i \in Items, Head(queue).doc \notin DocsOf(i)
        PROVE  Listed(i)' = Listed(i) /\ Bought(i)' = Bought(i)
    BY <2>1, <2>2, ItemDocs DEF Listed, Bought, DocsOf
  <2>3. Drawn'
    <3>1. \A i \in Items \ used : Head(queue).doc \notin DocsOf(i)
      BY <2>1 DEF Drawn
    <3>2. \A i \in Items \ used' : ~Listed(i)' /\ ~Bought(i)' /\ \A v \in Pending' : v.doc \notin DocsOf(i)
      BY <2>0, <2>1, <2>2, <3>1 DEF Drawn
    <3> QED BY <2>0, <3>2 DEF Drawn, DocsOf
  <2>4. ListedOnce(Items)'
    <3>1. ASSUME NEW i \in Items, AddPending(i)'
          PROVE  ~Listed(i)' /\ ~Bought(i)'
      <4>1. AddPending(i) /\ Head(queue).doc \notin DocsOf(i)
        BY <2>1, <3>1
      <4> QED BY <4>1, <2>2 DEF ListedOnce
    <3>2. AddsFirst(queue, Items)'
      BY <2>1 DEF AddsFirst, AddOf, DocsOf
    <3> QED BY <3>1, <3>2 DEF ListedOnce
  <2> QED BY <2>3, <2>4
<1> QED BY <1>1, <1>2, <1>3, StepForms

\* The refinement mapping: nobody's phase moves, or one item's does.
LEMMA NobodyMoves ==
  ASSUME \A i \in Items : Phase(i)' = Phase(i), dropped' = dropped
  PROVE  UNCHANGED <<[i \in Items |-> Phase(i)],
                     [i \in Items |-> IF i \in dropped THEN {"remove"} ELSE {}]>>
OBVIOUS

LEMMA OneMoves ==
  ASSUME NEW i \in Items, NEW from, NEW to, Phase(i) = from, Phase(i)' = to,
         \A j \in Items : j # i => Phase(j)' = Phase(j), dropped' = dropped
  PROVE  Lifecycle!Moves(i, from, to)
<1>1. [j \in Items |-> Phase(j)]' = [[j \in Items |-> Phase(j)] EXCEPT ![i] = to]
  OBVIOUS
<1> QED BY <1>1 DEF Lifecycle!Moves

\* Every step is a step of ItemLifecycle.
LEMMA LifecycleStep ==
  ASSUME TypeInv, UserAtHome, DeletesBacked, Drawn, ListedOnce(Items), [Next]_vars
  PROVE  [Lifecycle!LifecycleNext]_<<[i \in Items |-> Phase(i)],
                     [i \in Items |-> IF i \in dropped THEN {"remove"} ELSE {}]>>
<1>a. FsTypeOK /\ queue \in Seq(Write) /\ AddsFirst(queue, Items)
  BY DEF TypeInv, TypeOK, FsTypeOK, ListedOnce
<1>1. CASE OtherStep
  <2>1. OtherOnItems(Items)
    BY <1>1, <1>a, OthersOnItems
  <2>2. \A i \in Items : Phase(i)' = Phase(i)
    BY <2>1 DEF OtherOnItems, Phase, Listed, Bought
  <2> QED BY <2>1, <2>2, NobodyMoves DEF OtherOnItems
<1>2. CASE UserTaps
  <2>1. TapOnItems
    BY <1>2, TapsOnItems
  <2>2. CASE UNCHANGED <<queue, used, dropped>>
    <3>1. \A i \in Items : Phase(i)' = Phase(i)
      BY <2>1, <2>2 DEF TapOnItems, Phase, Listed, Bought, AddPending, AddOf, Pending
    <3> QED BY <2>2, <3>1, NobodyMoves
  <2>3. ASSUME NEW w \in Write, NEW i \in Items, TapOnItem(w, i)
        PROVE  [Lifecycle!LifecycleNext]_<<[j \in Items |-> Phase(j)],
                     [j \in Items |-> IF j \in dropped THEN {"remove"} ELSE {}]>>
    <3>1. Pending' = Pending \cup {w}
      <4>1. <<w>> \in Seq(Write) /\ Range(<<w>>) = {w}
        BY DEF Range
      <4>2. /\ queue \o <<w>> \in Seq(Write)
            /\ Range(queue \o <<w>>) = Range(queue) \cup Range(<<w>>)
        BY <1>a, <4>1, RangeConcat
      <4> QED BY <2>3, <4>1, <4>2 DEF Pending, TapOnItem
    <3>2. \A j \in Items : Listed(j)' = Listed(j) /\ Bought(j)' = Bought(j)
      BY <2>1 DEF TapOnItems, Listed, Bought
    <3>3. ASSUME NEW j \in Items PROVE Phase(j)' = Phase(j)
      <4>1. (j \notin used' \/ AddPending(j)') <=> (j \notin used \/ AddPending(j))
        <5>1. CASE AddOf(w, i) /\ i \notin used /\ used' = used \cup {i}
          <6>1. \A k \in Items : AddOf(w, k) => k = i
            BY <5>1, ItemDocs DEF AddOf
          <6> QED BY <5>1, <6>1, <3>1 DEF AddPending, AddOf
        <5>2. CASE used' = used /\ (w.doc = boughtgoods(i) \/ w.val = Absent)
          <6>1. \A k \in Items : ~AddOf(w, k)
            BY <5>2, ItemDocs DEF AddOf
          <6> QED BY <5>2, <6>1, <3>1 DEF AddPending, AddOf
        <5> QED BY <2>3, <5>1, <5>2 DEF TapOnItem
      <4> QED BY <4>1, <3>2 DEF Phase
    <3>4. CASE dropped' = dropped
      BY <3>3, <3>4, NobodyMoves
    <3>5. CASE dropped' = dropped \cup {i}
      <4> DEFINE ph == [j \in Items |-> Phase(j)]
                 rq == [j \in Items |-> IF j \in dropped THEN {"remove"} ELSE {}]
      <4>1. ph' = ph
        BY <3>3
      <4>2. rq' = [rq EXCEPT ![i] = @ \cup {"remove"}]
        BY <3>5
      <4>3. Lifecycle!Ask(i)
        BY <4>1, <4>2 DEF Lifecycle!Ask, Lifecycle!Requests
      <4> QED BY <4>3 DEF Lifecycle!LifecycleNext
    <3> QED BY <2>3, <3>4, <3>5 DEF TapOnItem
  <2> QED BY <2>1, <2>2, <2>3 DEF TapOnItems
<1>3. CASE SettleWrite
  <2>0. SettleOnItems(Items) /\ UNCHANGED <<used, dropped>>
    BY <1>3, SettlesOnItems DEF SettleOnItems
  <2>1. /\ Head(queue) \in Pending /\ Head(queue) \in Write
        /\ \A i \in Items : AddPending(i)' => AddPending(i)
        /\ \A i \in Items : AddPending(i) => AddPending(i)' \/ AddOf(Head(queue), i)
        /\ \A i \in Items : Head(queue).doc \in DocsOf(i) => ~AddPending(i)'
        /\ \/ srv' = srv
           \/ \A d \in Docs : srv'[d] = IF d = Head(queue).doc THEN Head(queue).val ELSE srv[d]
    BY <2>0, <1>a, SettledItems
  <2>2. ASSUME NEW i \in Items, Head(queue).doc \notin DocsOf(i)
        PROVE  Phase(i)' = Phase(i)
    <3>1. Listed(i)' = Listed(i) /\ Bought(i)' = Bought(i)
      BY <2>1, <2>2, ItemDocs DEF Listed, Bought, DocsOf
    <3>2. AddPending(i)' <=> AddPending(i)
      BY <2>1, <2>2 DEF AddOf, DocsOf
    <3> QED BY <2>0, <3>1, <3>2 DEF Phase
  <2>3. CASE \A i \in Items : Head(queue).doc \notin DocsOf(i)
    BY <2>0, <2>2, <2>3, NobodyMoves
  <2>4. ASSUME NEW i \in Items, Head(queue).doc \in DocsOf(i)
        PROVE  [Lifecycle!LifecycleNext]_<<[j \in Items |-> Phase(j)],
                     [j \in Items |-> IF j \in dropped THEN {"remove"} ELSE {}]>>
    <3>1. \A j \in Items : j # i => Phase(j)' = Phase(j)
      BY <2>2, <2>4, ItemDocs
    <3>2. /\ i \in used /\ ~AddPending(i)'
          /\ AddPending(i) => AddOf(Head(queue), i) /\ ~Listed(i) /\ ~Bought(i)
      BY <2>1, <2>4 DEF Drawn, ListedOnce
    <3>3. ASSUME NEW from, NEW to, Phase(i) = from, Phase(i)' = to
          PROVE  Lifecycle!Moves(i, from, to)
      BY <2>0, <3>1, <3>3, OneMoves
    <3>4. CASE Phase(i)' = Phase(i)
      <4>1. \A j \in Items : Phase(j)' = Phase(j)
        BY <3>1, <3>4
      <4> QED BY <2>0, <4>1, NobodyMoves
    <3>5. CASE srv' = srv /\ Phase(i)' # Phase(i)
      <4>1. Listed(i)' = Listed(i) /\ Bought(i)' = Bought(i)
        BY <3>5 DEF Listed, Bought
      <4>2. Phase(i) = "unlisted" /\ Phase(i)' = "gone"
        BY <4>1, <2>0, <3>2, <3>5 DEF Phase
      <4>3. Lifecycle!Forget(i)
        BY <4>2, <3>3 DEF Lifecycle!Forget
      <4> QED BY <4>3 DEF Lifecycle!LifecycleNext
    <3>6. CASE /\ \A d \in Docs : srv'[d] = IF d = Head(queue).doc THEN Head(queue).val ELSE srv[d]
               /\ Phase(i)' # Phase(i)
      <4>1. CASE Head(queue).doc = goods(i) /\ Head(queue).val # Absent
        <5>1. Listed(i)' /\ Bought(i)' = Bought(i)
          BY <4>1, <3>6, ItemDocs DEF Listed, Bought
        <5>2. AddPending(i)
          BY <4>1, <2>1 DEF AddPending, AddOf
        <5>3. Phase(i) = "unlisted" /\ Phase(i)' = "listed"
          BY <5>1, <5>2, <3>2 DEF Phase
        <5>4. Lifecycle!List(i)
          BY <5>3, <3>3 DEF Lifecycle!List
        <5> QED BY <5>4 DEF Lifecycle!LifecycleNext
      <4>2. CASE Head(queue).doc = goods(i) /\ Head(queue).val = Absent
        <5>1. ~Listed(i)' /\ Bought(i)' = Bought(i)
          BY <4>2, <3>6, ItemDocs DEF Listed, Bought
        <5>2. ~AddPending(i) /\ (Bought(i) \/ i \in dropped)
          BY <4>2, <2>1, <3>2 DEF AddOf, DeletesBacked
        <5>3. \/ Phase(i) = "both" /\ Phase(i)' = "bought"
              \/ i \in dropped /\ Phase(i) = "listed" /\ Phase(i)' = "gone"
          BY <5>1, <5>2, <2>0, <3>2, <3>6 DEF Phase
        <5>4. i \in dropped => Lifecycle!Asked(i, Lifecycle!Requests)
          BY DEF Lifecycle!Asked, Lifecycle!Requests
        <5>5. Lifecycle!Unlist(i)
          BY <5>3, <5>4, <3>3 DEF Lifecycle!Unlist
        <5> QED BY <5>5 DEF Lifecycle!LifecycleNext
      <4>3. CASE Head(queue).doc = boughtgoods(i)
        <5>1. Listed(i)' = Listed(i) /\ Bought(i)'
          BY <4>3, <2>1, <3>6, ItemDocs DEF Listed, Bought, DeletesBacked
        <5>2. ~AddPending(i)
          BY <4>3, <3>2, ItemDocs DEF AddOf
        <5>3. \/ Phase(i) = "listed" /\ Phase(i)' = "both"
              \/ Phase(i) = "gone" /\ Phase(i)' = "bought"
          BY <5>1, <5>2, <2>0, <3>2, <3>6 DEF Phase
        <5>4. Lifecycle!Buy(i)
          BY <5>3, <3>3 DEF Lifecycle!Buy
        <5> QED BY <5>4 DEF Lifecycle!LifecycleNext
      <4> QED BY <2>4, <4>1, <4>2, <4>3 DEF DocsOf
    <3> QED BY <2>1, <3>4, <3>5, <3>6
  <2> QED BY <2>3, <2>4
<1> QED BY <1>1, <1>2, <1>3, StepForms

\* The shopping list implements ItemLifecycle: whatever is refused, lost or
\* submitted twice, each stored item is listed once, goes from the list to the
\* purchases by way of being in both, and never comes back.
THEOREM LifecycleImplemented == Spec => ImplementsLifecycle
<1>1. Init => UserAtHome /\ Drawn /\ ListedOnce(Items)
  <2> SUFFICES ASSUME Init PROVE UserAtHome /\ Drawn /\ ListedOnce(Items)
    OBVIOUS
  <2>1. Pending = {} /\ DOMAIN vms = {} /\ DOMAIN queue = {} /\ homeGoods = {}
    BY DEF Init, Launched, FsInit, Pending, Range
  <2>2. \A i \in Items : ~Listed(i) /\ ~Bought(i)
    BY ItemDocs DEF Init, FsInit, Listed, Bought
  <2>3. UserAtHome
    BY DEF Init, Launched, UserAtHome
  <2> QED BY <2>1, <2>2, <2>3 DEF Drawn, ListedOnce, AddsFirst
<1>2. Init => Lifecycle!LifecycleInit
  <2> SUFFICES ASSUME Init PROVE Lifecycle!LifecycleInit
    OBVIOUS
  <2>1. \A i \in Items : Phase(i) = "unlisted"
    BY ItemDocs DEF Init, FsInit, Phase, Listed, Bought
  <2>2. [i \in Items |-> Phase(i)] \in [Items -> {"unlisted", "listed", "bought"}]
    BY <2>1
  <2>3. dropped = {}
    BY DEF Init, Launched
  <2> QED BY <2>2, <2>3 DEF Lifecycle!LifecycleInit
<1>3. Inv /\ UserAtHome /\ Drawn /\ ListedOnce(Items) /\ [Next]_vars =>
        /\ (UserAtHome /\ Drawn /\ ListedOnce(Items))'
        /\ [Lifecycle!LifecycleNext]_<<[i \in Items |-> Phase(i)],
                     [i \in Items |-> IF i \in dropped THEN {"remove"} ELSE {}]>>
  BY UserAtHomeStep, DrawnStep, LifecycleStep DEF Inv, TypeInv
<1> QED BY <1>1, <1>2, <1>3, InvHolds, PTL DEF Spec, ImplementsLifecycle, Lifecycle!LifecycleSpec
=============================================================================
