--------------------------- MODULE HomeCoverProofs ---------------------------
(***************************************************************************)
(* Proofs about module HomeCover: its properties hold for every bound on   *)
(* the taps.  Neither property is inductive by itself; CoverHasOwner and   *)
(* RaceRecorded are what they rest on.                                     *)
(***************************************************************************)
EXTENDS HomeCover, TLAPS

\* Every shown cover has someone who will hide it, and the windows in which
\* taps get through it belong to a menu that is open or is being closed.
CoverHasOwner ==
  /\ opening > 0 => menuOpen
  /\ transparent => closing > 0
  /\ ~coverHidden => \/ menuOpen
                     \/ closing > 0
                     \/ presented \in {"add", "edit"}
                     \/ queued > 0 /\ presented = "none"

\* Whatever will hide the cover while the menu is open was let in by a race.
RaceRecorded ==
  menuOpen /\ (coverHidden \/ closing > 0 \/ queued > 0 \/ presented \in {"add", "edit"})
    => raced

IInv == TypeOK /\ CoverHasOwner /\ RaceRecorded

\* The two parts of the type invariant.
FlagsOK ==
  /\ coverHidden \in BOOLEAN /\ transparent \in BOOLEAN /\ menuOpen \in BOOLEAN
  /\ raced \in BOOLEAN

CountsOK ==
  /\ opening \in 0 .. MaxTaps /\ closing \in 0 .. 1 /\ queued \in 0 .. MaxTaps
  /\ presented \in {"none", "add", "edit", "graph", "history", "logout"}

LEMMA TypeParts == (FlagsOK /\ CountsOK)' => TypeOK'
BY DEF FlagsOK, CountsOK, TypeOK

LEMMA InitIInv == Init => IInv
<1> SUFFICES ASSUME Init PROVE IInv
  OBVIOUS
<1>1. TypeOK
  <2>1. FlagsOK
    BY Zenon DEF Init, FlagsOK
  <2>2. CountsOK
    BY HomeCoverAssumption DEF Init, CountsOK
  <2> QED
    BY <2>1, <2>2 DEF TypeOK, FlagsOK, CountsOK
<1>2. CoverHasOwner
  BY DEF Init, CoverHasOwner
<1>3. RaceRecorded
  BY DEF Init, RaceRecorded
<1> QED
  BY <1>1, <1>2, <1>3 DEF IInv

LEMMA NextIInv == IInv /\ [Next]_vars => IInv'
<1> SUFFICES ASSUME IInv, [Next]_vars PROVE IInv'
  OBVIOUS
<1> USE HomeCoverAssumption DEF IInv
<1>1. CASE menu
  <2>1. TypeOK'
    <3>1. FlagsOK'
      BY <1>1, Zenon DEF menu, HomeTouchable, CoverTouchable, TypeOK, FlagsOK
    <3>2. CountsOK'
      BY <1>1 DEF menu, HomeTouchable, CoverTouchable, TypeOK, CountsOK
    <3> QED
      BY <3>1, <3>2, TypeParts
  <2>2. CoverHasOwner'
    BY <1>1 DEF menu, HomeTouchable, CoverTouchable, TypeOK, CoverHasOwner
  <2>3. RaceRecorded'
    BY <1>1 DEF menu, HomeTouchable, CoverTouchable, TypeOK, RaceRecorded
  <2> QED
    BY <2>1, <2>2, <2>3
<1>2. CASE menuDone
  <2>1. TypeOK'
    <3>1. FlagsOK'
      BY <1>2, Zenon DEF menuDone, TypeOK, FlagsOK
    <3>2. CountsOK'
      BY <1>2 DEF menuDone, TypeOK, CountsOK
    <3> QED
      BY <3>1, <3>2, TypeParts
  <2>2. CoverHasOwner'
    BY <1>2 DEF menuDone, TypeOK, CoverHasOwner
  <2>3. RaceRecorded'
    BY <1>2 DEF menuDone, TypeOK, RaceRecorded
  <2> QED
    BY <2>1, <2>2, <2>3
<1>3. CASE coverViewTapped
  <2>1. TypeOK'
    <3>1. FlagsOK'
      BY <1>3, Zenon DEF coverViewTapped, CoverTouchable, TypeOK, FlagsOK
    <3>2. CountsOK'
      BY <1>3 DEF coverViewTapped, CoverTouchable, TypeOK, CountsOK
    <3> QED
      BY <3>1, <3>2, TypeParts
  <2>2. CoverHasOwner'
    BY <1>3 DEF coverViewTapped, CoverTouchable, TypeOK, CoverHasOwner
  <2>3. RaceRecorded'
    BY <1>3 DEF coverViewTapped, CoverTouchable, TypeOK, RaceRecorded
  <2> QED
    BY <2>1, <2>2, <2>3
<1>4. CASE coverViewTappedDone
  <2>1. TypeOK'
    <3>1. FlagsOK'
      BY <1>4, Zenon DEF coverViewTappedDone, TypeOK, FlagsOK
    <3>2. CountsOK'
      BY <1>4 DEF coverViewTappedDone, TypeOK, CountsOK
    <3> QED
      BY <3>1, <3>2, TypeParts
  <2>2. CoverHasOwner'
    BY <1>4 DEF coverViewTappedDone, TypeOK, CoverHasOwner
  <2>3. RaceRecorded'
    BY <1>4 DEF coverViewTappedDone, TypeOK, RaceRecorded
  <2> QED
    BY <2>1, <2>2, <2>3
<1>5. CASE graph
  <2>1. TypeOK'
    <3>1. FlagsOK'
      BY <1>5, Zenon DEF graph, HomeTouchable, CoverTouchable, TypeOK, FlagsOK
    <3>2. CountsOK'
      BY <1>5 DEF graph, HomeTouchable, CoverTouchable, TypeOK, CountsOK
    <3> QED
      BY <3>1, <3>2, TypeParts
  <2>2. CoverHasOwner'
    BY <1>5 DEF graph, HomeTouchable, CoverTouchable, TypeOK, CoverHasOwner
  <2>3. RaceRecorded'
    BY <1>5 DEF graph, HomeTouchable, CoverTouchable, TypeOK, RaceRecorded
  <2> QED
    BY <2>1, <2>2, <2>3
<1>6. CASE history
  <2>1. TypeOK'
    <3>1. FlagsOK'
      BY <1>6, Zenon DEF history, HomeTouchable, CoverTouchable, TypeOK, FlagsOK
    <3>2. CountsOK'
      BY <1>6 DEF history, HomeTouchable, CoverTouchable, TypeOK, CountsOK
    <3> QED
      BY <3>1, <3>2, TypeParts
  <2>2. CoverHasOwner'
    BY <1>6 DEF history, HomeTouchable, CoverTouchable, TypeOK, CoverHasOwner
  <2>3. RaceRecorded'
    BY <1>6 DEF history, HomeTouchable, CoverTouchable, TypeOK, RaceRecorded
  <2> QED
    BY <2>1, <2>2, <2>3
<1>7. CASE add
  <2>1. TypeOK'
    <3>1. FlagsOK'
      BY <1>7, Zenon DEF add, HomeTouchable, CoverTouchable, TypeOK, FlagsOK
    <3>2. CountsOK'
      BY <1>7 DEF add, HomeTouchable, CoverTouchable, TypeOK, CountsOK
    <3> QED
      BY <3>1, <3>2, TypeParts
  <2>2. CoverHasOwner'
    BY <1>7 DEF add, HomeTouchable, CoverTouchable, TypeOK, CoverHasOwner
  <2>3. RaceRecorded'
    BY <1>7 DEF add, HomeTouchable, CoverTouchable, TypeOK, RaceRecorded
  <2> QED
    BY <2>1, <2>2, <2>3
<1>8. CASE edit
  <2>1. TypeOK'
    <3>1. FlagsOK'
      BY <1>8, Zenon DEF edit, HomeTouchable, CoverTouchable, TypeOK, FlagsOK
    <3>2. CountsOK'
      BY <1>8 DEF edit, HomeTouchable, CoverTouchable, TypeOK, CountsOK
    <3> QED
      BY <3>1, <3>2, TypeParts
  <2>2. CoverHasOwner'
    BY <1>8 DEF edit, HomeTouchable, CoverTouchable, TypeOK, CoverHasOwner
  <2>3. RaceRecorded'
    BY <1>8 DEF edit, HomeTouchable, CoverTouchable, TypeOK, RaceRecorded
  <2> QED
    BY <2>1, <2>2, <2>3
<1>9. CASE editPresents
  <2>1. TypeOK'
    <3>1. FlagsOK'
      BY <1>9, Zenon DEF editPresents, TypeOK, FlagsOK
    <3>2. CountsOK'
      BY <1>9 DEF editPresents, TypeOK, CountsOK
    <3> QED
      BY <3>1, <3>2, TypeParts
  <2>2. CoverHasOwner'
    BY <1>9 DEF editPresents, TypeOK, CoverHasOwner
  <2>3. RaceRecorded'
    BY <1>9 DEF editPresents, TypeOK, RaceRecorded
  <2> QED
    BY <2>1, <2>2, <2>3
<1>10. CASE dismissed
  <2>1. TypeOK'
    <3>1. FlagsOK'
      BY <1>10, Zenon DEF dismissed, TypeOK, FlagsOK
    <3>2. CountsOK'
      BY <1>10 DEF dismissed, TypeOK, CountsOK
    <3> QED
      BY <3>1, <3>2, TypeParts
  <2>2. CoverHasOwner'
    BY <1>10 DEF dismissed, TypeOK, CoverHasOwner
  <2>3. RaceRecorded'
    BY <1>10 DEF dismissed, TypeOK, RaceRecorded
  <2> QED
    BY <2>1, <2>2, <2>3
<1>11. CASE dismissOther
  <2>1. TypeOK'
    <3>1. FlagsOK'
      BY <1>11, Zenon DEF dismissOther, TypeOK, FlagsOK
    <3>2. CountsOK'
      BY <1>11 DEF dismissOther, TypeOK, CountsOK
    <3> QED
      BY <3>1, <3>2, TypeParts
  <2>2. CoverHasOwner'
    BY <1>11 DEF dismissOther, TypeOK, CoverHasOwner
  <2>3. RaceRecorded'
    BY <1>11 DEF dismissOther, TypeOK, RaceRecorded
  <2> QED
    BY <2>1, <2>2, <2>3
<1>12. CASE logoutMenuTapped
  <2>1. TypeOK'
    <3>1. FlagsOK'
      BY <1>12, Zenon DEF logoutMenuTapped, TypeOK, FlagsOK
    <3>2. CountsOK'
      BY <1>12 DEF logoutMenuTapped, TypeOK, CountsOK
    <3> QED
      BY <3>1, <3>2, TypeParts
  <2>2. CoverHasOwner'
    BY <1>12 DEF logoutMenuTapped, TypeOK, CoverHasOwner
  <2>3. RaceRecorded'
    BY <1>12 DEF logoutMenuTapped, TypeOK, RaceRecorded
  <2> QED
    BY <2>1, <2>2, <2>3
<1>13. CASE logout
  <2>1. TypeOK'
    <3>1. FlagsOK'
      BY <1>13, Zenon DEF logout, TypeOK, FlagsOK
    <3>2. CountsOK'
      BY <1>13 DEF logout, TypeOK, CountsOK
    <3> QED
      BY <3>1, <3>2, TypeParts
  <2>2. CoverHasOwner'
    BY <1>13 DEF logout, TypeOK, CoverHasOwner
  <2>3. RaceRecorded'
    BY <1>13 DEF logout, TypeOK, RaceRecorded
  <2> QED
    BY <2>1, <2>2, <2>3
<1>14. CASE UNCHANGED vars
  <2>1. TypeOK'
    <3>1. FlagsOK'
      BY <1>14, Zenon DEF vars, TypeOK, FlagsOK
    <3>2. CountsOK'
      BY <1>14 DEF vars, TypeOK, CountsOK
    <3> QED
      BY <3>1, <3>2, TypeParts
  <2>2. CoverHasOwner'
    BY <1>14 DEF vars, TypeOK, CoverHasOwner
  <2>3. RaceRecorded'
    BY <1>14 DEF vars, TypeOK, RaceRecorded
  <2> QED
    BY <2>1, <2>2, <2>3
<1> QED
  BY <1>1, <1>2, <1>3, <1>4, <1>5, <1>6, <1>7, <1>8, <1>9, <1>10, <1>11, <1>12, <1>13, <1>14
  DEF Next

LEMMA IInvHolds == Spec => []IInv
BY InitIInv, NextIInv, PTL DEF Spec

\* The types of Home's cover state: at most one closing animation at a time,
\* as many opening animations and queued closures as there were taps.
THEOREM HomeCoverTyped == Spec => []TypeOK
<1>1. IInv => TypeOK
  BY DEF IInv
<1> QED
  BY IInvHolds, <1>1, PTL

\* Home is never blocked for good by its own cover (HomeViewController's
\* coverViewTapped does nothing while the menu is closed).
THEOREM HomeNeverStuck == Spec => []NeverStuck
<1>1. IInv => NeverStuck
  BY HomeCoverAssumption
  DEF IInv, TypeOK, CoverHasOwner, NeverStuck, CoverTouchable
<1> QED
  BY IInvHolds, <1>1, PTL

\* The late completion of the closing menu and the closure dismissed leave
\* an open menu without its cover only after a tap that got through.
THEOREM BareMenuIsARace == Spec => []BareMenuOnlyByRace
<1>1. IInv => BareMenuOnlyByRace
  BY DEF IInv, RaceRecorded, BareMenuOnlyByRace
<1> QED
  BY IInvHolds, <1>1, PTL
=============================================================================
