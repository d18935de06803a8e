------------------------------ MODULE HomeCover ------------------------------
(***************************************************************************)
(* The dimmed cover of Home and the side menu (HomeViewController.swift).  *)
(*                                                                         *)
(* One view, coverView, serves two purposes: it closes the side menu when  *)
(* tapped, and it dims Home below AddGoods and EditGoods, which hide it    *)
(* through their closure dismissed.  Both hide it without asking who else  *)
(* needs it, one of them 0.3 s late, and a cover left on with neither a    *)
(* menu nor a screen would block Home for good: a tap on it does nothing.  *)
(*                                                                         *)
(* UIKit gives a view that is hidden, transparent or being animated no     *)
(* touches: they reach what lies below it.  An alpha is recorded at the    *)
(* value it is animated to.                                                *)
(***************************************************************************)
EXTENDS Naturals

CONSTANT
  MaxTaps   \* bound: openings of the menu, and rows tapped, at a time

ASSUME HomeCoverAssumption == MaxTaps \in Nat

VARIABLES
  coverHidden,   \* coverView.isHidden
  transparent,   \* coverView.alpha = 0
  menuOpen,      \* sideMenuViewTrailingConstraints.constant # 0
  opening,       \* animations that bring the menu in, under way
  closing,       \* animations that take it out, their completions to run
  queued,        \* edit's blocks on the main queue, to present EditGoods
  presented,     \* the screen presented on Home
  raced          \* history: a tap got through during an animation, or before
                 \* the screen a row asked for

vars == <<coverHidden, transparent, menuOpen, opening, closing, queued, presented, raced>>

TypeOK ==
  /\ coverHidden \in BOOLEAN /\ transparent \in BOOLEAN /\ menuOpen \in BOOLEAN
  /\ opening \in 0 .. MaxTaps /\ closing \in 0 .. 1 /\ queued \in 0 .. MaxTaps
  /\ presented \in {"none", "add", "edit", "graph", "history", "logout"}
  /\ raced \in BOOLEAN

Init ==
  /\ coverHidden = TRUE
  /\ transparent = FALSE
  /\ menuOpen = FALSE
  /\ opening = 0
  /\ closing = 0
  /\ queued = 0
  /\ presented = "none"
  /\ raced = FALSE

CoverTouchable == ~coverHidden /\ ~transparent /\ opening = 0 /\ closing = 0

\* What lies below the cover gets the touches.
HomeTouchable == presented = "none" /\ ~CoverTouchable

-----------------------------------------------------------------------------

menu ==
  /\ HomeTouchable
  /\ opening < MaxTaps
  /\ coverHidden' = FALSE
  /\ transparent' = FALSE
  /\ menuOpen' = TRUE
  /\ opening' = opening + 1
  /\ raced' = (raced \/ closing > 0 \/ queued > 0)
  /\ UNCHANGED <<closing, queued, presented>>

menuDone ==
  /\ opening > 0
  /\ opening' = opening - 1
  /\ UNCHANGED <<coverHidden, transparent, menuOpen, closing, queued, presented, raced>>

\* The completion of coverViewTapped's animation.
coverViewTappedDone ==
  /\ closing > 0
  /\ closing' = closing - 1
  /\ coverHidden' = TRUE
  /\ transparent' = FALSE
  /\ UNCHANGED <<menuOpen, opening, queued, presented, raced>>

\* Faulty variant: the constraint of the side menu is not reset.
coverViewTappedOpen ==
  /\ presented = "none"
  /\ CoverTouchable
  /\ menuOpen
  /\ transparent' = TRUE
  /\ closing' = closing + 1
  /\ UNCHANGED <<coverHidden, menuOpen, opening, queued, presented, raced>>

\* Faulty variant: the animations use .allowUserInteraction.
coverViewTappedMoving ==
  /\ presented = "none"
  /\ ~coverHidden
  /\ menuOpen
  /\ menuOpen' = FALSE
  /\ transparent' = TRUE
  /\ closing' = closing + 1
  /\ UNCHANGED <<coverHidden, opening, queued, presented, raced>>

coverViewTapped ==
  /\ presented = "none"
  /\ CoverTouchable
  /\ menuOpen
  /\ menuOpen' = FALSE
  /\ transparent' = TRUE
  /\ closing' = closing + 1
  /\ UNCHANGED <<coverHidden, opening, queued, presented, raced>>

graph ==
  /\ HomeTouchable
  /\ presented' = "graph"
  /\ UNCHANGED <<coverHidden, transparent, menuOpen, opening, closing, queued, raced>>

history ==
  /\ HomeTouchable
  /\ presented' = "history"
  /\ UNCHANGED <<coverHidden, transparent, menuOpen, opening, closing, queued, raced>>

add ==
  /\ HomeTouchable
  /\ coverHidden' = FALSE
  /\ presented' = "add"
  /\ raced' = (raced \/ menuOpen)
  /\ UNCHANGED <<transparent, menuOpen, opening, closing, queued>>

\* A row is tapped: the cover is shown now, the screen presented later.
edit ==
  /\ HomeTouchable
  /\ queued < MaxTaps
  /\ coverHidden' = FALSE
  /\ queued' = queued + 1
  /\ raced' = (raced \/ menuOpen)
  /\ UNCHANGED <<transparent, menuOpen, opening, closing, presented>>

\* edit's block.  UIKit refuses to present on a controller that presents.
editPresents ==
  /\ queued > 0
  /\ queued' = queued - 1
  /\ presented' = IF presented = "none" THEN "edit" ELSE presented
  /\ UNCHANGED <<coverHidden, transparent, menuOpen, opening, closing, raced>>

\* Faulty variant: AddGoods and EditGoods do not call dismissed.
dismissedSilent ==
  /\ presented \in {"add", "edit"}
  /\ presented' = "none"
  /\ UNCHANGED <<coverHidden, transparent, menuOpen, opening, closing, queued, raced>>

\* AddGoods or EditGoods closes: by its button, or when its writes are
\* reported, well or not.
dismissed ==
  /\ presented \in {"add", "edit"}
  /\ presented' = "none"
  /\ coverHidden' = TRUE
  /\ UNCHANGED <<transparent, menuOpen, opening, closing, queued, raced>>

\* Graph, History or the alert's Cancel button: they know nothing of a cover.
dismissOther ==
  /\ presented \in {"graph", "history", "logout"}
  /\ presented' = "none"
  /\ UNCHANGED <<coverHidden, transparent, menuOpen, opening, closing, queued, raced>>

logoutMenuTapped ==
  /\ presented = "none"
  /\ menuOpen /\ opening = 0 /\ closing = 0
  /\ presented' = "logout"
  /\ UNCHANGED <<coverHidden, transparent, menuOpen, opening, closing, queued, raced>>

\* The alert's OK button: showLoginScreen.  The next Home is a new one, and
\* the closures of this one hold it weakly.
logout ==
  /\ presented = "logout"
  /\ coverHidden' = TRUE
  /\ transparent' = FALSE
  /\ menuOpen' = FALSE
  /\ opening' = 0
  /\ closing' = 0
  /\ queued' = 0
  /\ presented' = "none"
  /\ raced' = FALSE

Next ==
  \/ menu \/ menuDone
  \/ coverViewTapped \/ coverViewTappedDone
  \/ graph \/ history \/ add
  \/ edit \/ editPresents
  \/ dismissed \/ dismissOther
  \/ logoutMenuTapped \/ logout

Spec == Init /\ [][Next]_vars

-----------------------------------------------------------------------------
(* Properties.                                                             *)

\* The cover never blocks Home for good: while it takes the touches there is
\* a menu that a tap on it closes, a screen that hides it when it closes, or
\* a screen about to be presented.  However taps, the late completion of the
\* closing menu (line 166) and the delayed presentation (line 120) interleave.
NeverStuck ==
  presented = "none" /\ CoverTouchable => menuOpen \/ queued > 0

\* The menu lies open without the cover that closes it only if a tap got
\* through while the menu was moving or a tapped row had yet to open.
BareMenuOnlyByRace ==
  menuOpen /\ coverHidden => raced
=============================================================================
