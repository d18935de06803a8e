# Buylog: TLA+ models and proofs

Buylog is an iOS shopping list. Items are added on Home, moved to the purchases
from EditGoods, and looked at again in History and Graph. All data lives in
Firestore; the application is MVVM with RxSwift and has no persistent state of
its own except the Firestore SDK's cache. Paths below are relative to
`src/Project_2Q_2019/Project_2Q_2019/`.

Everything the application does runs on the main thread, one handler at a time.
What makes it hard is the order of the handlers: taps, snapshots of a
collection, answers of loads and completions of writes interleave freely, any
request may fail, and the process may be killed between two of them.

## Inventory

| Component | State | Operations | Interacts with |
|---|---|---|---|
| Stored data (`API/Model/Goods.swift`) | documents `goods/id`, `boughtgoods/id`, `datecount/date` under the user | - | everything |
| Firestore SDK and server (vendored) | server documents, local queue of writes | query, set, delete, snapshot | FirebaseManager |
| `API/FirebaseManager.swift` | none (the signed-in user is in Firebase Auth) | add/load/delete goods, add/fetch/update/delete/revert bought goods, load/update counts, observe, signOut | view models, by completion closures |
| `SharedObject/ActivityIndicator.swift` | the one overlay view and its superview | start, stop | all screens with writes or loads |
| Home (`Screen/Home`) | `goods`, `dateCounts`, `reloadState`; listener | observeGoodsData, loadGoods, loadGoodsCountForDate, add, edit, logout, menu, history, graph | presents the others |
| AddGoods (`Screen/AddGoods`) | name | addGoods, dismiss | one write |
| EditGoods (`Screen/EditGoods`) | the item, the captured `DateCount` | complete, remove, dismiss | chain of up to three writes |
| Home's list and cover | category sections, the cell's view model and table; cover, side menu | layout pass, select a row; menu, tap the cover | AddGoods and EditGoods hide the cover |
| History, HistoryContentView, ClosableHistory | days with a count, current index, a page's purchases | load, page, select | presents EditBoughtGoods |
| EditBoughtGoods | the purchase, the captured `DateCount`, `dataDidChanged` | update, delete, revert | chain of writes; tells History on deinit |
| Graph | purchases, selected year and month | load, select | presents ClosableHistory |
| Root, Splash, Login | the child controllers, swaps under way, sign-ins in flight | showHome, showLogin, sign in, register | Auth, `users/uid` |
| Old login, Register, drop-down, HUD, extensions, Pods | - | layout, validation, third-party | not modelled |

What makes each correct, and the hard part of it:

* **Purchase chain** (EditGoods): an item is never lost between the list and the
  purchases, whichever of the three writes fails or is interrupted, and the
  screen always ends. Hard: partial failure, restart, sign-out in the middle,
  double submission.
* **Day counts**: written from a value captured earlier. They must not be
  inflated. Lost updates are possible by design of that code, so the model
  states the bound that does hold.
* **Home**: the rows end up those of the collection. Hard: snapshots, loads and
  writes out of step.
* **Overlay**: one view for all screens, moved by `start`, removed by `stop`
  from wherever it is. It must not outlive the work it stands for.

* **Reverting and deleting purchases** (EditBoughtGoods): the way back from the
  purchases to the list, in an order that is not safe: the record is deleted
  before the item is listed again. What is promised is that nothing but a
  failure in that gap loses an item.
* **History**: pages and index stay in step with the counts while purchases are
  edited. Hard: reloads that remove pages, a release that comes before the
  chain's last write, an index computed from a scroll offset.
* **Signing in**: a new user is registered before Home is shown, and ends up on
  Home. Hard: two requests, two sign-ins at a time, swaps of the root's children
  that overlap.
* **Home's rows and cover**: a tap opens what the row shows; the cover, which
  two features share, never blocks Home for good. Hard: a layout pass or an
  animation between a cause and its effect.

The hazards, each with its line and the properties that cover it, are in
`PROJECT.json`.

## Modules

```
GoodsModel ── Firestore ── FirebaseManager ─┐
     └─────── Screens ──────────────────────┴─ HomeScreen ── GoodsScreens ─┬─ ShoppingList ─────┬─ MCShoppingList
                                                                           │                    │
                                             BoughtGoodsScreen ── HistoryScreen                 │
                                                     └──────────────────────────── BuyLog ──────┘
                                                                                     ├─ MCBuyLog
                                                                                     └─ MCHistoryPages
ItemLifecycle            refined by ShoppingList and by BuyLog
Graph, Login, HomeCover, HomeList      on their own
KeyOrder                 used by HistoryScreen, Graph, Login and HomeList

FirebaseManagerProofs ── ShoppingListProofs ─┐
KeyOrderProofs ──────────────────────────────┼─ BuyLogProofs
                                             └─ GraphProofs, LoginProofs, HomeListProofs
HomeCoverProofs
```

(`BuyLog` extends `ShoppingList` and `BoughtGoodsScreen`, which extends
`HistoryScreen`, which extends `GoodsScreens`.)

**GoodsModel**: document paths and what decodes as each document. Names,
categories, prices and amounts are left out: no handler modelled here looks at
them. A bought item keeps its date, a count document its count. A callback is
the call it reports on and the view model that made it.

**Firestore** (external): `srv` are the server's documents and `queue` the
device's pending writes. `Enqueue` is `setData`/`delete`, `Commit` and `Refuse`
the server's answer to the oldest write. A query returns `LocalView`: the newest
pending write of a document, or else the server's. A refused write is rolled
back by leaving the queue. `LoseCallbacks` is a restart: the queue is on disk,
the closures are not.

**FirebaseManager**: one operator per call. Each call begins with the guard on
`Auth.auth().currentUser`; without a user it fails on the spot, which is the
empty sequence of writes.

**Screens**: `root`, the presented controllers `shown`, the view models `vms` of
every controller ever presented (number `o`; the closures of a chain keep the
struct alive after the controller is gone), and `host`, the superview of the
overlay. `Touchable(o)` says when a tap can reach `o`.

**HomeScreen**: `snaps`, `goodsReads` and `countReads` count the snapshots not
yet handled and the loads not yet answered. `GoodsListener` is raised by every
step that changes what the device sees of the `goods` collection, which is what
`addSnapshotListener` does without metadata changes: at once for a local write,
again for a rollback, not for a confirmation.

**GoodsScreens**: taps (`add`, `edit`, `dismiss`, `addGoodsTapped`, `complete`,
`remove`, `logoutMenuTapped`) and the completions of the writes. A completion
is one step with everything the closure does: settle the write, queue the next
one or report, stop the overlay, close the screen.

**ShoppingList**: the composition with `logout`, `login`, `Restart`,
`DayPasses`, the properties and the inductive invariant.

**Graph**: the Graph screen, on its own: the purchases it loaded, the selected
year and month, the bars and the two rows of buttons. It only reads the stored
purchases, so a load may return any set of them (`Purchases`). A purchase has
its three date keys, `year`, `yearMonth` and `boughtDate`, as numbers, and they
need not agree: `EditGoodsViewModel` reads the clock once for each. The prefix
test on strings is `yearMonth \div 100 = year`, and the empty string, selected
when there are no purchases, is a prefix of everything.

**HistoryScreen**: the pager. `dates` are the days with a positive count,
`currentIndex` what the view model remembers, `page` the row in the middle;
`cells` and `pageGoods` the content views. Rows count from 0. `PageOffset` is
where `scrollViewWillEndDragging` stops the pager, `DecelerationIndex` what
`scrollViewDidEndDecelerating` makes of it, both in points. `reloadData` drops
the cells; a page out of view may be made anew at any time.

**BoughtGoodsScreen**: EditBoughtGoods. The sheet can be swiped down under the
overlay; the release of the controller tells History to load again if a button
was tapped (`changed`), while the chain may still be running.

**BuyLog**: ShoppingList, History and EditBoughtGoods over one Firestore, one
overlay and one set of day counts, started from what an undisturbed earlier
session stored. `stray` and `interrupted` are history variables: some write was
pending with no screen waiting for it; a write was refused, the user signed out
or the process killed.

**Login**: the root's subviews in order, the swaps under way, the sign-ins in
flight with the closures that hold their Login, the registration. A swap
captures `current` when it begins and sets it when it ends, half a second later.
The Apple account is known to the server or not; `isNewUser` is told once.

**HomeCover**: `coverView`, the side menu and what is presented, with the two
animations and the deferred presentation of EditGoods as steps of their own.
A hidden, transparent or animated view gets no touches (no animation of Home
sets `.allowUserInteraction`), so taps get through the cover while it moves.

**HomeList**: the category sections as operators, and the three copies of the
goods that must agree: the view model's, the one the cell is bound to at a
layout pass, and the one its table was last loaded with.

**ItemLifecycle**: the abstract promise about one item: unlisted, listed, in
both places, bought or gone. An item is recorded as bought before it leaves the
list; it leaves the list with no record only if the user asked to remove it or
asked to delete or revert its record; a purchase record disappears only when its
deletion or its reversal was asked for. The middle clause is weaker than one
would like. A purchase can be submitted twice (finding 2): if the first delete
is refused, and the record is then deleted or reverted in History, the delete of
the second submission takes the item off the list with no record left.

**KeyOrder**: sets of numbers as ascending sequences (`Ascending`), the order in
which Firestore returns documents and `sorted()` the keys of a dictionary, and
`KeptAt`, what `filter` leaves of a sequence. They are defined by ranks instead
of `SelectSeq` or `SetToSortSeq`, so that they can be proved about.

**...Proofs**: lemmas and theorems, see *Proofs*.

Three variables are history, not program state: `used` (ids drawn so far: two
calls of `UUID()` never agree), `dropped` (items on whose screen *remove* was
tapped), `committed` (screens that were told their item is off the list). No
guard of the program's actions reads `dropped` or `committed`.

### Abstractions

* One user and one device. A login is by the same user as before.
* Except in HomeCover and Login, animations are atomic; presenting is one step
  although `edit` defers it by one turn of the main queue.
* A load answers with the local view at the moment its answer is delivered. The
  SDK's answer can be older only by writes that raise another snapshot.
* Offline queries against a cold cache are not modelled (see the hazards).
* Writes pending at sign-out may still be settled, and then call back. (The SDK
  keeps a queue per user and sends it when that user is back: fewer orders.)
* `signOut` is `try?`: it may leave the user signed in.
* In ShoppingList only a successful sign-in is a step; module Login has the rest.
* The logout alert is a presented controller, so Home may begin a load under it.
* HomeList knows of AddGoods only that it moves and removes the overlay, and lets
  the collection change at any time.
* One touch at a time: two fingers on two buttons are not modelled.
* The *add* and *complete* buttons are enabled while the name is not empty; the
  user controls that, so they are always enabled in the model.

### Bounds

`MaxDay`, `MaxFaults`, `MaxOpens`, `MaxRestarts` cap days, failing requests,
presented controllers and restarts. `MaxPending` stops the *user* from
submitting while that many writes wait; chains queue theirs regardless. With two
pending writes a screen can submit twice, and two screens can have chains in
flight together (a screen dismissed after the overlay moved, then the next one).
Three screens are what it takes to add an item, buy it, and buy it again from a
stale row or from a second chain; two faults let one chain fail and the retry
fail too. The theorems hold without bounds on the values of these constants.

BuyLog starts from stored purchases, so two screens (History and EditBoughtGoods)
reach every chain and three let a second chain or a purchase on Home overlap it.
`history_faults` was also run once with three screens, one fault and one restart
(2.9 million states), `history` from two purchases on two days (6.5 million), and
ShoppingList with two items over two days and no faults, without error. The
inductive invariants were model-checked before they were proved, on larger
instances than the kept ones where that was feasible: `Drawn` and `ListedOnce`
on 8.9 million states of ShoppingList, `LogItems` on 2.2 million of BuyLog, and
`Kept` on 12.0 million (four screens, three pending writes, no faults). The kept
instances are smaller to stay within minutes. Login has six view
controllers per process, enough for two sign-ins, a logout and a third sign-in
with their overlapping swaps. HomeCover allows two menu openings and two tapped
rows in flight. HomeList has four goods, two alike, with one category empty, two
loads in flight, three changes and two failures: a success, a failure before the
layout pass, and a recovery.

## Runs

| Run | Instance | Checks |
|---|---|---|
| `faults` | 1 item, 3 screens, 2 faults, 1 restart | `TypeOK`, `NoLoss`, `OverlayJustified`, `CountBounded`, `HomeCoherent`, `ImplementsLifecycle` |
| `liveness` | 1 item, 2 screens, 2 days, 1 fault, 1 restart, fairness | `SubmissionEnds`, `HomeCatchesUp` |
| `graph` | every set of 7 purchases over 2 years and 3 months | `BarsFollowSelection`, `HighlightFollowsSelection`, `BarsLeadToTheirPurchases` |
| `history_faults` | 1 purchase, 2 screens, 2 faults, 1 restart | `BuyLogTypeOK`, `OverlayExplained`, `ImplementsLogLifecycle` |
| `history` | 1 purchase of the day before, 1 listed item, 3 screens, no faults | `Conserved`, `DayCountWithin`, `HistoryFresh`, `PagerFollows`, `IndexKept` |
| `history_liveness` | 1 purchase, fairness | `SubmissionEnds`, `HistoryCatchesUp` |
| `login` | 2 sign-ins in flight, a fault, a restart, fairness | `TypeOK`, `TopIsCurrent`, `NothingLeftBehind`, `HomeMeansRegistered`, `StrandedOnlyByMishap`, `OverlayWhileRegistering`, `SignInReachesHome` |
| `home_cover` | 2 openings, 2 rows | `TypeOK`, `NeverStuck`, `BareMenuOnlyByRace` |
| `home_list` | 4 goods, fairness | `TypeOK`, `EveryGoodsHasOneRow`, `RowOpensWhatItShows`, `ListCatchesUp` |
| `home_indicator` | a failing load | `HomeIndicatorOnlyWhenLoading`, violated |
| `waiting_screen` | no faults | `WaitingScreenIsCovered`, violated |
| `pager_drift` | 12 days, a pager 375 points wide | `PagerFollows`, violated |

* `NoLoss`: an item leaves the stored list only when stored as bought or asked
  for, and no purchase record disappears. (In ShoppingList, which has no
  EditBoughtGoods; with it, `Conserved` and the lifecycle take over.)
* `CountBounded`: a day's count, as the device reads it, is at most the number
  of that day's EditGoods screens that were told of their delete. The captured
  value looks like a defect and is one for lost updates, yet it is also what
  keeps a double submission from counting twice. The mutant that re-reads the
  count when writing breaks the property.
* `HomeCoherent` and `HomeCatchesUp`: Home's rows are out of date only while a
  snapshot or load is under way or after a failed load, and catch up in the end.
* `OverlayJustified`: the overlay is on AddGoods or EditGoods only while that
  screen waits for a write. `SubmissionEnds`: the waiting ends with the screen
  closed.
* `ImplementsLifecycle`: refinement of ItemLifecycle, with the phase of an item
  computed from the stored documents and the pending creation.

* `BarsFollowSelection`, `HighlightFollowsSelection`: after any sequence of taps
  the bars hold the purchases of the selection, in order, and exactly its
  buttons are highlighted.
* `BarsLeadToTheirPurchases`: a bar's row indexes a month button, and it is the
  bar's own; the day a bar opens has the bar's purchases. It is stated for
  purchases whose keys were read on one day. The code does not guarantee that:
  for a purchase with year 2019 and yearMonth 202001 (the clock read across New
  Year's midnight) the year 2019 has a bar without a button, and
  `monthsButtons[indexPath.row]` (`Screen/Graph/GraphViewController.swift:223`)
  is out of range when that bar is tapped.

* `Conserved`: as long as no write is refused, the user stays signed in and the
  process lives, every item ever used is listed, bought or about to be listed,
  or was removed or deleted on request. The condition is needed: revert deletes
  first, and a failure before its `addGoods` loses the item.
* `ImplementsLogLifecycle` holds under all faults: what revert may lose, it loses
  only after it was asked for, and so does a purchase submitted twice.
* `DayCountWithin`: the captured counts of two screens are written in any order,
  and the day's count stays between zero and the purchases of the earlier
  session plus the screens that took an item off the list. Not more is true: a
  count can lag behind the purchases (lost updates; Home reloads the counts only
  on snapshots of the goods), and a day can lose its page in History while it
  still has purchases.
* `HistoryFresh`, `HistoryCatchesUp`: History shows the stored counts and
  purchases, or is about to, as long as every write had its screen waiting. A
  sheet swiped away in the middle of a chain makes History load too early.
* `PagerFollows`, `IndexKept`: the remembered index is the page in the middle,
  and leaves the range of rows only when a load removes rows.
* `OverlayExplained`: as `OverlayJustified`, for all screens of BuyLog.
* `TopIsCurrent`, `NothingLeftBehind`: overlapping swaps leave the right child on
  top, and a child behind it only if they did overlap.
* `HomeMeansRegistered`, `StrandedOnlyByMishap`, `SignInReachesHome`: registration
  and Home go together unless a request fails, `signOut` does not work or the
  process dies. After a failed or interrupted registration the next launch shows
  Home to a user without a `users` document: the code never registers again.
* `NeverStuck`, `BareMenuOnlyByRace`: a cover that takes touches has a menu to
  close or a screen to come; an open menu without cover is left only by a tap
  during an animation, and the menu button brings the cover back.
* `EveryGoodsHasOneRow`: sections and rows against the plain statement that rows
  and goods correspond one to one. `RowOpensWhatItShows`: table and view model
  agree unless the last load failed. That exception is real: after a success, a
  failure answered before the layout pass binds the new goods to a table that is
  not reloaded (`Screen/Home/HomeViewController.swift:207`). The overlay that the
  failure puts on Home hides this until the end of another screen's write takes
  it off.

Deadlock checking is off where the system may rest: with the bounds used up and
the user idle (ShoppingList, BuyLog), or with Home blocked after a failed load
(HomeList).

Fairness (`FairSpec`): every pending write is settled in the end, every snapshot
is delivered, every load of the list answers, successfully or not. Writes made
offline wait until the device is online; the assumption is that it eventually
is. Nothing is assumed of the user, of restarts, of the clock or of logins.

In BuyLog (`FairBuyLog`) the same is assumed of the writes of EditBoughtGoods and
the loads of History; in Login of the answers of Auth and Firestore and of the
completion of UIKit's transitions; in HomeList of the loads and of the layout
pass after `reloadData`.

Each property of a passing run has a mutant in `PROJECT.json`: a faulty variant
of one handler (the definitions commented *Faulty variant*), under which TLC
finds the property violated.

### Findings

1. **A failed load blocks Home** (`Screen/Home/HomeViewController.swift:149`).
   `case .failed` calls `start` where the sibling screens call `stop`. With no
   load in flight nothing takes the overlay away, and it swallows all touches.
   History makes the same call when its counts cannot be loaded
   (`Screen/History/HistoryViewController.swift:91`), its dismiss button covered.
2. **A waiting screen loses its overlay** (`SharedObject/ActivityIndicator.swift:30`).
   A screen's own write raises a snapshot; Home reacts by loading, and `start`
   moves the overlay from the screen to Home. The screen's buttons can be tapped
   again while its chain runs. `NoLoss` and `CountBounded` hold in spite of it.
3. **History's page index drifts** (`Screen/History/HistoryViewController.swift:169`).
   The offset is divided by the width of a cell, without the gap. Pages `k` with
   `40 * k < width` are right by rounding (proved), the later ones are one off:
   on a 375 point screen from the eleventh day on.

Observed while modelling, with no comment or test to hold it against: *remove* in
EditGoods increments the day's count although nothing was bought; *complete* in
EditBoughtGoods after the record was deleted by an earlier tap stores it again;
a revert interrupted between its two writes loses the item.

## Proofs

Every invariant, action property and refinement that a passing run checks is
also a theorem (`PagerFollows` and `IndexKept` under a hypothesis, see below),
for every set of items and goods, any finite set of purchases, any number of
days, screens, faults and restarts. The assumptions are the named `ASSUME`s of
the modules: model values are distinct, bounds are natural numbers (at least one
view controller in Login, one load in HomeList), the purchases of the earlier
session are finite and each item is listed or bought at most once
(`BuyLogAssumption`), years are positive (`GraphAssumption`), goods are finite
and each has one of the categories (`HomeListAssumption`), the pager is wider
than its margins (`HistoryScreenAssumption`).

### The list

`FirebaseManagerProofs` holds the facts about the queue: what `Enqueue`,
`Commit`, `Refuse` and `LoseCallbacks` do to the set of pending writes and to
the types. `ShoppingListProofs` proves:

| Theorem | Statement | Invariant it rests on |
|---|---|---|
| `TypeCorrect` | `Spec => []TypeOK` | with `CallbacksMatch` |
| `InvHolds` | `Spec => []Inv` | itself |
| `NothingLost` | `Spec => NoLoss` | `DeletesBacked` |
| `CountsAreBounded` | `Spec => []CountBounded` | `CountsCovered` |
| `HomeIsCoherent` | `Spec => []HomeCoherent` | itself |
| `OverlayIsJustified` | `Spec => []OverlayJustified` | with `UserAtHome` |
| `LifecycleImplemented` | `Spec => ImplementsLifecycle` | `Drawn`, `ListedOnce` |

* `CallbacksMatch`: a callback's owner exists, has an item when its step needs
  one, and the callback that continues with `deleteGoods` sits on the purchase
  record of its own item. Without it the type of the next write is unknown:
  `TypeOK` alone is not inductive.
* `DeletesBacked`: a pending delete of an item is backed by a *stored* purchase
  record or by a request, and no pending write removes a purchase record. It is
  what the order "purchase first, delete in its callback" buys, and it gives
  `NoLoss` at the step that commits the delete.
* `CountsCovered`: every copy of a day's count (stored, pending, loaded by Home,
  captured by a screen) is at most the number of committed screens of the day,
  and a captured one is smaller still, by one, once its own screen is committed.
  `CountBounded` speaks only of what the device reads and is not inductive.
* `UserAtHome`: Home is shown only to a signed-in user. Without a user, a tap
  would fail on the spot and leave the overlay with no write to wait for.
* `Drawn`: whatever is stored, pending, on Home or on a screen was drawn before.
  `ListedOnce`: no write about an item is queued before the write that adds it,
  and until that one is settled nothing of the item is stored. Together they make the phase of an item change as ItemLifecycle says.

The argument sorts the steps by what they do to the documents (`StepForms`): a
tap queues at most one write (`TapsEffect`), a settled write changes one
document and queues at most one (`SettleEffects`), all others leave the
documents alone (`OtherEffect`). Each data invariant is then three cases.
`loadGoods` stays opaque in `HomeIsCoherent`: only "the same store gives the
same list" is needed.

### The purchase log

`BuyLogProofs` extends the above to History and EditBoughtGoods. The lemmas about
the list are reused for the steps that BuyLog takes over from ShoppingList.

| Theorem | Statement | Invariant it rests on |
|---|---|---|
| `LogInvHolds` | `BuyLogSpec => []LogInv` | itself |
| `BuyLogTyped` | `BuyLogSpec => []BuyLogTypeOK` | `LogInv` |
| `OverlayIsExplained` | `BuyLogSpec => []OverlayExplained` | `LogInv` |
| `HistoryIsFresh` | `BuyLogSpec => []HistoryFresh` | `ChangedWaits`, `Attended` |
| `DayCountsAreWithin` | `BuyLogSpec => []DayCountWithin` | `LogCounts` |
| `LogLifecycleImplemented` | `BuyLogSpec => ImplementsLogLifecycle` | `LogItems` |
| `ItemsAreConserved` | `BuyLogSpec => []Conserved` | `Kept` |
| `DecelerationIsExact` | page `k` is computed as `k` while `40 * k < ViewWidth` | - |
| `PagerFollowsIfPagesFit` | `BuyLogSpec /\ []PagesFit => []PagerFollows` | `PagerInv` |
| `IndexIsKept` | `BuyLogSpec /\ []PagesFit => IndexKept` | `PagerInv` |
| `PagerFollowsOnFewDays` | `40 * (MaxDay - 1) < ViewWidth` gives both outright | a page a day at most |

* `LogInv`: the types, every callback on a write that its owner can have made
  (`WritesMatch`), EditBoughtGoods presented only on top of History
  (`ScreenStack`), the state of a History that is not open (`HistoryOpen`).
* `ChangedWaits`: a presented EditBoughtGoods with a write under way has been
  tapped, so its release makes History load. `Attended`: `stray` has recorded
  every write without a screen waiting for it.
* `LogCounts`: wherever a day's count is kept (stored, pending, loaded by Home or
  History, captured) it is between zero and the day's cover, the purchases of
  the earlier session plus the committed screens. A screen that was told of its
  delete has one to spare for its increment, an EditBoughtGoods has a positive
  count to decrement.
* `LogItems`: `Drawn`, also for the pages of History; `ListedOnce` for the items
  nobody asked to revert; every pending delete asked for or backed by a stored
  record, every reversal's callback by the request.
* `Kept`, as long as nothing failed: no callback is lost; a wanted item is
  listed, bought or about to be listed; and every pending write that takes it
  off the list finds it bought, or comes after a write of its purchase record,
  or is followed by one that lists it again. The order in the queue matters
  here, which the set of pending writes does not show.
* `PagerInv`: an index within the rows is the page in the middle, and there are
  no rows before the first answer.

`DecelerationIsExact` is arithmetic: twice the offset plus a cell is `k` times
two cells plus a remainder, and the remainder is below two cells exactly while
`40 * k < ViewWidth`. `PagesFit` (no page lies further right than that) is a
hypothesis because the code does not provide it; run `pager_drift` shows what
happens without it, and `PagerFollowsOnFewDays` is the part that needs no
hypothesis on the behaviour: the rows are different days, so few days are few
rows.

### Graph, Login, Home

`KeyOrderProofs`: `Ascending` of a finite set of numbers is a strictly
increasing sequence of exactly its members (`AscendingProperties`), and `KeptAt`
keeps order and members. The library's theorems about cardinality carry these;
no induction over sequences is needed.

| Module | Theorems | Invariant |
|---|---|---|
| `GraphProofs` | `GInvHolds`, `BarsFollowSelectionHolds`, `HighlightFollowsSelectionHolds`, `BarsLeadToTheirPurchasesHolds` | `GInv` |
| `LoginProofs` | `LInvHolds`, `TypeOKHolds`, `TopIsCurrentHolds`, `NothingLeftBehindHolds`, `HomeMeansRegisteredHolds`, `StrandedOnlyByMishapHolds`, `OverlayWhileRegisteringHolds` | `LInv` |
| `HomeListProofs` | `HLInvHolds`, `HomeListTyped`, `EveryGoodsHasOneRowHolds`, `RowOpensWhatItShowsHolds` | `HLInv` |
| `HomeCoverProofs` | `HomeCoverTyped`, `HomeNeverStuck`, `BareMenuIsARace` | `CoverHasOwner`, `RaceRecorded` |

* `GInv`: bars, buttons and the opened day are functions of the purchases and
  the selection.
* `LInv`: the newest controller is on top and the last swap leads to it
  (`Stacked`, `Swapping`), without an overlap there is at most one swap and the
  stack holds its two views (`OneByOne`), every sign-in has an owner and room for
  what it leads to (`Owned`), one sign-in at most is told that the user is new
  (`Accounted`), and until something fails a known account is registered or
  about to be (`Registered`) and a signed-in user on Login is about to leave it
  (`OnTheWay`). Login is covered by its own registration only (`Uncovered`).
* `HLInv`: the table is as old as its cell, except after a failed load or before
  a layout pass.
* `CoverHasOwner`: every shown cover has someone who will hide it, and the
  windows in which taps get through belong to an open or closing menu.
  `RaceRecorded`: whatever will hide the cover of an open menu was let in by a
  race.

### Only model-checked

The liveness properties `SubmissionEnds`, `HomeCatchesUp`, `HistoryCatchesUp`,
`SignInReachesHome` and `ListCatchesUp`: fairness and ENABLED are outside the
prover. The three violated properties are counterexamples of TLC.

## Plan

1. *Done*: the shopping list (Home, AddGoods, EditGoods) over Firestore, its
   lifecycle refinement, the first theorems; Graph.
2. *Done*: History and EditBoughtGoods composed with the list, the lifecycle
   extended by deletion and the way back; Login and the root's swaps; Home's
   category sections, layout pass and cover; proofs about the pager and the cover.
3. *Done*: every invariant, action property and refinement of the passing runs
   as a theorem: `OverlayJustified` and the lifecycle of ShoppingList; the
   invariant of BuyLog, and from it its overlay, freshness, counts, lifecycle and
   conservation; Graph, Login and HomeList.
4. Next: consequences of ItemLifecycle at the abstract level (a listed item that
   nobody asked anything about stays listed or ends up bought), carried to BuyLog
   through the refinement.

## Not modelled, and why

Layout, keyboard handling, colours, message drop-downs, the HUD animation, the
pie chart and text formatting change no application state. The old email login
and Register screens are unreachable and their calls commented out; Menu is an
empty screen. Prices and amounts are data no handler decides on. The vendored
Pods (gRPC, BoringSSL, Firebase, RxSwift, Charts), by far most of the files in
the repository and all of its C and C++, are third-party: what the application
relies on of Firestore, FirebaseAuth and UIKit is modelled from how its own Swift
code uses them and marked external. The map therefore covers the application's
code and none of the Pods. Offline queries against a cold cache would need the
SDK's cache as a third copy of the documents; see the hazards.
