------------------------------ MODULE KeyOrder ------------------------------
(***************************************************************************)
(* Sets of numbers as sequences, the way Firestore returns documents in    *)
(* the order of their keys and Swift's sorted() orders a dictionary's.     *)
(***************************************************************************)
EXTENDS Integers, FiniteSets

Rank(S, x) == Cardinality({y \in S : y < x})

\* The members of a finite set of numbers, the smallest first.
Ascending(S) ==
  [n \in 1 .. Cardinality(S) |-> CHOOSE x \in S : Rank(S, x) = n - 1]

\* filter: what a sequence holds at the positions P, in its order.
KeptAt(s, P) == [n \in 1 .. Cardinality(P) |-> s[Ascending(P)[n]]]
=============================================================================
