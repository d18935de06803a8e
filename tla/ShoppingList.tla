---------------------------- MODULE ShoppingList ----------------------------
(***************************************************************************)
(* The shopping list as a whole: Home, AddGoods and EditGoods over         *)
(* Firestore, with signing in and out, restarts of the application and the *)
(* passing of days, and the properties that make it correct.               *)
(***************************************************************************)
EXTENDS GoodsScreens

CONSTANT
  MaxRestarts   \* bound: how often the process is killed

ASSUME ShoppingListAssumption == MaxRestarts \in Nat

VARIABLE restarts

vars == <<fsVars, signedIn, screenVars, homeVars, today, editVars, restarts>>

\* A launch: SplashViewController asks checkLogin.
Launched ==
  /\ signedIn \in BOOLEAN
  /\ root = IF signedIn THEN "home" ELSE "login"
  /\ shown = {}
  /\ vms = <<>>
  /\ host = NoView
  /\ homeGoods = {}
  /\ dateCounts = [d \in Dates |-> 0]
  /\ reloadState = "loading"
  /\ snaps = IF signedIn THEN 1 ELSE 0
  /\ goodsReads = 0
  /\ countReads = 0
  /\ dropped = {}
  /\ committed = {}
  /\ restarts = 0

\* The first launch finds an empty database.
Init == FsInit /\ used = {} /\ today = 1 /\ Launched

\* The OK button of the logout alert, under which Home may have begun a load.
\* signOut is try?: it may not work.
logout ==
  /\ \E o \in shown : Touchable(o) /\ vms[o].kind = "logout"
  /\ signedIn' \in BOOLEAN
  /\ root' = "login"
  /\ shown' = {}
  /\ host' = NoView
  /\ HomeGone
  /\ UNCHANGED <<fsVars, vms, today, editVars, restarts>>

\* A sign-in that succeeds, by the same user: showHomeScreen.
login ==
  /\ root = "login"
  /\ signedIn' = TRUE
  /\ root' = "home"
  /\ HomeAppears
  /\ UNCHANGED <<fsVars, shown, vms, host, today, editVars, restarts>>

\* The process is killed and launched again.
Restart ==
  /\ restarts < MaxRestarts
  /\ restarts' = restarts + 1
  /\ LoseCallbacks
  /\ shown' = {}
  /\ host' = NoView
  /\ root' = IF signedIn THEN "home" ELSE "login"
  /\ IF signedIn THEN HomeAppears ELSE HomeGone
  /\ UNCHANGED <<signedIn, vms, today, editVars>>

DayPasses ==
  /\ today < MaxDay
  /\ today' = today + 1
  /\ UNCHANGED <<fsVars, signedIn, screenVars, homeVars, editVars, restarts>>

HomeStep == HomeNext /\ UNCHANGED <<signedIn, today, editVars, restarts>>

GoodsStep == (UserTaps \/ SettleWrite) /\ UNCHANGED <<signedIn, today, restarts>>

Next ==
  \/ HomeStep
  \/ GoodsStep
  \/ logout
  \/ login
  \/ Restart
  \/ DayPasses

Spec == Init /\ [][Next]_vars

(***************************************************************************)
(* The network answers every request in the end, with success or failure,  *)
(* and the main run loop delivers every snapshot.  Nothing is assumed of   *)
(* the user, of restarts or of the clock.                                  *)
(***************************************************************************)
Fairness ==
  /\ WF_vars(SettleWrite /\ UNCHANGED <<signedIn, today, restarts>>)
  /\ WF_vars(observeGoodsData /\ UNCHANGED <<signedIn, today, editVars, restarts>>)
  /\ WF_vars((loadGoodsSucceeds \/ loadGoodsFails)
               /\ UNCHANGED <<signedIn, today, editVars, restarts>>)

FairSpec == Spec /\ Fairness

-----------------------------------------------------------------------------
(* Properties.                                                             *)

\* Every variable stays in its type: in particular every pending write names
\* a document of the schema with a content that decodes as that document.
TypeOK ==
  /\ FsTypeOK
  /\ signedIn \in BOOLEAN
  /\ ScreensTypeOK
  /\ HomeTypeOK
  /\ EditTypeOK
  /\ restarts \in 0 .. MaxRestarts

Listed(i) == srv[goods(i)] # Absent
Bought(i) == srv[boughtgoods(i)] # Absent

\* Completing a purchase never loses the item (EditGoodsViewModel chains
\* addBoughtGoods before deleteGoods): whatever is refused, lost in a restart,
\* submitted twice or continued after its screen or its user is gone, an item
\* leaves the stored list only when it is stored as bought or when the user
\* asked to remove it, and no purchase record disappears.
KeepsItems ==
  \A i \in Items :
    /\ Listed(i) /\ ~Listed(i)' => Bought(i) \/ i \in dropped
    /\ Bought(i) => Bought(i)'

NoLoss == [][KeepsItems]_vars

\* A day's count never exceeds the number of EditGoods screens, opened on that
\* day, that were told their item is off the list.  Submitting one screen
\* twice adds nothing to the count, and neither does a retry after a failure,
\* because updateDateCount writes a captured value and does not increment.
CommittedOn(d) == {o \in committed : vms[o].date = d}

CountBounded ==
  \A d \in Dates : loadGoodsCountForDate[d] <= Cardinality(CommittedOn(d))

\* Home never shows an outdated list in peace: while its rows differ from the
\* local collection, a snapshot or a load that will replace them is on its
\* way, unless the last load to answer failed (HomeViewModel.loadGoods).
HomeCoherent ==
  root = "home" /\ homeGoods # loadGoods =>
    snaps > 0 \/ goodsReads > 0 \/ reloadState = "failed"

\* A presented screen that waits for the callback of a write of its own.
Waits(o) == o \in shown /\ \E w \in Pending : w.done # Lost /\ w.done.owner = o

\* The overlay blocks AddGoods or EditGoods only while that screen is still
\* waiting for one of its writes: every way a chain can end removes it.
OverlayJustified == \A o \in DOMAIN vms : host = o => Waits(o)

\* A screen that has submitted something is closed in the end, whichever
\* write of its chain fails and whoever moves the overlay meanwhile.
SubmissionEnds ==
  \A o \in 1 .. MaxOpens : Waits(o) ~> o \notin shown

\* Home catches up with the collection, or shows that a load failed.
HomeCatchesUp ==
  (root = "home" /\ homeGoods # loadGoods)
    ~> (root = "login" \/ homeGoods = loadGoods \/ reloadState = "failed")

(***************************************************************************)
(* The stored items go through the phases of ItemLifecycle.                *)
(***************************************************************************)
AddOf(w, i) == w.doc = goods(i) /\ w.val # Absent

AddPending(i) == \E w \in Pending : AddOf(w, i)

Phase(i) ==
  IF Listed(i)
    THEN IF Bought(i) THEN "both" ELSE "listed"
    ELSE IF Bought(i) THEN "bought"
    ELSE IF i \notin used \/ AddPending(i) THEN "unlisted" ELSE "gone"

Lifecycle == INSTANCE ItemLifecycle WITH
  phase <- [i \in Items |-> Phase(i)],
  requested <- [i \in Items |-> IF i \in dropped THEN {"remove"} ELSE {}]

\* Every step of the application is a step of one item's life or leaves all
\* items where they are: an item is listed once, moves from the list to the
\* purchases by way of being in both, and never comes back.
ImplementsLifecycle == Lifecycle!LifecycleSpec

-----------------------------------------------------------------------------
(***************************************************************************)
(* The inductive invariant behind NoLoss and CountBounded: what a pending  *)
(* write and a captured view model may assume about the stored data.       *)
(***************************************************************************)

\* A callback belongs to a view model that can make the call it reports on,
\* and the callback that will delete an item belongs to its purchase record.
CallbackMatches(w) ==
  w.done # Lost =>
    /\ w.done.owner \in DOMAIN vms
    /\ w.done.step # "addGoods" => vms[w.done.owner].item \in Items
    /\ w.done.step = "addBoughtGoods" => w.doc = boughtgoods(vms[w.done.owner].item)

CallbacksMatch == \A w \in Pending : CallbackMatches(w)

\* No pending write removes a purchase record, and a pending delete of an
\* item was asked for or is backed by the stored purchase record.
DeletesBacked ==
  \A w \in Pending, i \in Items :
    /\ w.doc = boughtgoods(i) => w.val # Absent
    /\ w.doc = goods(i) /\ w.val = Absent => Bought(i) \/ i \in dropped

\* Wherever a day's count is kept - stored, pending, loaded or captured - it
\* is covered by the screens that were told of a delete.  The screen that
\* captured a count and was told of its own delete has one to spare.
CoveredOn(d) ==
  /\ CountIn(srv[datecount(d)]) <= Cardinality(CommittedOn(d))
  /\ dateCounts[d] <= Cardinality(CommittedOn(d))
  /\ \A w \in Pending :
       w.doc = datecount(d) => CountIn(w.val) <= Cardinality(CommittedOn(d))
  /\ \A o \in DOMAIN vms :
       vms[o].date = d =>
         vms[o].count + (IF o \in committed THEN 1 ELSE 0) <= Cardinality(CommittedOn(d))

CountsCovered == \A d \in Dates : CoveredOn(d)

Inv == TypeOK /\ CallbacksMatch /\ DeletesBacked /\ CountsCovered

(***************************************************************************)
(* The inductive invariant behind ImplementsLifecycle: an item is added    *)
(* once, before anything else is written about it.                         *)
(***************************************************************************)
DocsOf(i) == {goods(i), boughtgoods(i)}

\* Only ids that were drawn are stored, pending, shown or edited.
Drawn ==
  /\ homeGoods \subseteq used
  /\ \A o \in DOMAIN vms : vms[o].item \in Items => vms[o].item \in used
  /\ \A i \in Items \ used :
       ~Listed(i) /\ ~Bought(i) /\ \A w \in Pending : w.doc \notin DocsOf(i)

\* In the queue q no write about an item of S comes before the write that adds
\* it.
AddsFirst(q, S) ==
  \A m, n \in DOMAIN q, i \in S : AddOf(q[n], i) /\ q[m].doc \in DocsOf(i) => n <= m

ListedOnce(S) ==
  /\ AddsFirst(queue, S)
  /\ \A i \in S : AddPending(i) => ~Listed(i) /\ ~Bought(i)

-----------------------------------------------------------------------------
(* What the comments at the overlay calls say.                             *)

\* "Show indicator when loading" (HomeViewController.bindViewModel): Home is
\* covered by the overlay only while it is loading.
HomeIndicatorOnlyWhenLoading ==
  host = Home => goodsReads > 0

\* "Show indicator when loading" (AddGoodsViewController and
\* EditGoodsViewController.bindViewModel): a screen whose write is under way
\* is covered by the overlay.
WaitingScreenIsCovered == \A o \in DOMAIN vms : Waits(o) => host = o
=============================================================================
