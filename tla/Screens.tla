------------------------------- MODULE Screens -------------------------------
(***************************************************************************)
(* What is on the screen: the root child (AppRootViewController), the view *)
(* controllers presented above Home, and the one activity overlay that all *)
(* screens share (SharedObject/ActivityIndicator.swift).                   *)
(*                                                                         *)
(* View controller 0 is Home.  Every presented controller gets the next    *)
(* number, so that a larger number is presented above a smaller one;       *)
(* vms[o] is the view model controller o was given.  The view models stay  *)
(* in vms after their controller is gone, as the structs do in the         *)
(* closures that captured them.                                            *)
(*                                                                         *)
(* Presentations and dismissals are steps; their animations are not        *)
(* modelled (UIKit delivers no touches while they run).                    *)
(***************************************************************************)
EXTENDS GoodsModel

CONSTANT
  MaxOpens   \* bound: how many view controllers are ever presented

ASSUME ScreensAssumption == MaxOpens \in Nat

VARIABLES
  root,    \* the child of the root view controller
  shown,   \* the controllers presented above Home that are alive
  vms,     \* the view models of all controllers presented so far
  host     \* the view the shared overlay is a subview of, or NoView

screenVars == <<root, shown, vms, host>>

Home == 0
NoView == -1

\* AddGoodsViewModel, HistoryViewModel (whose state is in module
\* HistoryScreen) or the logout alert, which has none; EditGoodsViewModel and
\* EditBoughtGoodsViewModel with their item and their dateCount.
ViewModel ==
  [kind : {"add", "logout", "history"}, item : {NoItem}, date : Dates, count : {0}]
    \cup [kind : {"edit", "editBought"}, item : Items, date : Dates, count : Int]

ScreensTypeOK ==
  /\ root \in {"login", "home"}
  /\ shown \in SUBSET (DOMAIN vms)
  /\ vms \in Seq(ViewModel)
  /\ host \in {NoView, Home} \cup DOMAIN vms

\* A touch reaches o: nothing is presented above it, no overlay covers it.
Touchable(o) ==
  /\ root = "home"
  /\ o \in shown \cup {Home}
  /\ \A p \in shown : p <= o
  /\ host # o

\* ActivityIndicator.start adds the one overlay to the given view, which
\* takes it away from the view that had it; stop removes it from any view.
Start(o) == host' = o
Stop == host' = NoView

Present(vm) ==
  /\ Len(vms) < MaxOpens
  /\ vms' = Append(vms, vm)
  /\ shown' = shown \cup {Len(vms) + 1}

Dismiss(o) == shown' = {p \in shown : p < o}
=============================================================================
