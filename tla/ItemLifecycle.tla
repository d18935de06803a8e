---------------------------- MODULE ItemLifecycle ----------------------------
(***************************************************************************)
(* What the application promises about one item, as the server stores it:  *)
(* an item is recorded as bought before it leaves the list, it leaves the  *)
(* list with no record of its purchase only when the user asked to remove  *)
(* it or asked to delete or to revert that record, and a purchase record   *)
(* disappears only when the user asked to delete or to revert it.  The     *)
(* abstract specification that ShoppingList and BuyLog implement.          *)
(***************************************************************************)
CONSTANT Items

VARIABLES
  phase,     \* where each item is
  requested  \* what the user has asked for, item by item

Phases == {"unlisted", "listed", "both", "bought", "gone"}

Requests == {"remove", "delete", "revert"}

LifecycleTypeOK ==
  /\ phase \in [Items -> Phases]
  /\ requested \in [Items -> SUBSET Requests]

\* An earlier session may have left items on the list and among the purchases.
LifecycleInit ==
  /\ phase \in [Items -> {"unlisted", "listed", "bought"}]
  /\ requested = [i \in Items |-> {}]

Moves(i, from, to) ==
  /\ phase[i] = from
  /\ phase' = [phase EXCEPT ![i] = to]
  /\ UNCHANGED requested

Asked(i, what) == requested[i] \cap what # {}

\* The item's creation reaches the server, or the server refuses it.
List(i) == Moves(i, "unlisted", "listed")
Forget(i) == Moves(i, "unlisted", "gone")

\* The purchase is recorded.  An item off the list can still be bought: a row
\* on the screen may be older than the list.
Buy(i) == Moves(i, "listed", "both") \/ Moves(i, "gone", "bought")

\* The item leaves the list.  The delete of a purchase submitted twice may
\* come when the record the first one made has been deleted again.
Unlist(i) ==
  \/ Moves(i, "both", "bought")
  \/ Asked(i, Requests) /\ Moves(i, "listed", "gone")

\* The purchase record is deleted, for good or to list the item again.
Unbuy(i) ==
  /\ Asked(i, {"delete", "revert"})
  /\ Moves(i, "both", "listed") \/ Moves(i, "bought", "gone")

\* A reverted purchase is on its way back to the list, where it may meet the
\* record of a new purchase or the delete of an earlier one.
Relist(i) ==
  /\ Asked(i, {"revert"})
  /\ \/ Moves(i, "bought", "unlisted")
     \/ Moves(i, "gone", "unlisted")
     \/ Moves(i, "unlisted", "bought")
     \/ Moves(i, "bought", "both")
     \/ Moves(i, "listed", "unlisted")

Ask(i) ==
  /\ \E what \in Requests : requested' = [requested EXCEPT ![i] = @ \cup {what}]
  /\ UNCHANGED phase

LifecycleNext ==
  \E i \in Items :
    \/ List(i) \/ Forget(i) \/ Buy(i) \/ Unlist(i)
    \/ Unbuy(i) \/ Relist(i) \/ Ask(i)

LifecycleSpec == LifecycleInit /\ [][LifecycleNext]_<<phase, requested>>
=============================================================================
