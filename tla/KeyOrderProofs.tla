--------------------------- MODULE KeyOrderProofs ---------------------------
(***************************************************************************)
(* What Ascending and KeptAt return, for every finite set.  No induction   *)
(* is needed: the rank is an injection into as many numbers.               *)
(***************************************************************************)
EXTENDS KeyOrder, SequenceTheorems, FiniteSetTheorems, TLAPS

\* A larger member of the set has a larger rank.
LEMMA RankMonotonic ==
  ASSUME NEW S \in SUBSET Int, IsFiniteSet(S), NEW x \in S, NEW z \in S, x < z
  PROVE  Rank(S, x) \in Nat /\ Rank(S, z) \in Nat /\ Rank(S, x) < Rank(S, z)
<1> DEFINE X == {y \in S : y < x}
           Z == {y \in S : y < z}
<1>1. X \in SUBSET S /\ Z \in SUBSET S
  OBVIOUS
<1>2. IsFiniteSet(X) /\ IsFiniteSet(Z)
  BY <1>1, FS_Subset
<1>3. IsFiniteSet(X \cup {x}) /\ Cardinality(X \cup {x}) = Cardinality(X) + 1
  <2>1. x \notin X
    OBVIOUS
  <2> HIDE DEF X
  <2> QED BY <1>2, <2>1, FS_AddElement
<1>4. X \cup {x} \in SUBSET Z
  <2>1. ASSUME NEW y \in X PROVE y \in Z
    <3>1. y \in Int /\ x \in Int /\ z \in Int /\ y < x
      OBVIOUS
    <3> QED BY <3>1
  <2>2. x \in Z
    OBVIOUS
  <2> QED BY <2>1, <2>2
<1>5. Cardinality(X \cup {x}) <= Cardinality(Z)
  <2> HIDE DEF X, Z
  <2> QED BY <1>2, <1>4, FS_Subset
<1>6. Cardinality(X) \in Nat /\ Cardinality(Z) \in Nat
  <2> HIDE DEF X, Z
  <2> QED BY <1>2, FS_CardinalityType
<1>7. Cardinality(X) < Cardinality(Z)
  <2> HIDE DEF X, Z
  <2> QED BY <1>3, <1>5, <1>6
<1> QED BY <1>6, <1>7 DEF Rank

LEMMA RankRange ==
  ASSUME NEW S \in SUBSET Int, IsFiniteSet(S), NEW x \in S
  PROVE  Rank(S, x) \in 0 .. Cardinality(S) - 1
<1> DEFINE X == {y \in S : y < x}
<1>1. X \in SUBSET S /\ X # S
  OBVIOUS
<1>2. /\ IsFiniteSet(X)
      /\ Cardinality(X) <= Cardinality(S)
      /\ Cardinality(S) # Cardinality(X)
  <2> HIDE DEF X
  <2> QED BY <1>1, FS_Subset
<1>3. Cardinality(X) \in Nat /\ Cardinality(S) \in Nat
  <2> HIDE DEF X
  <2> QED BY <1>2, FS_CardinalityType
<1>4. Cardinality(X) \in 0 .. Cardinality(S) - 1
  <2> HIDE DEF X
  <2> QED BY <1>2, <1>3
<1> QED BY <1>4 DEF Rank

\* Every rank is taken: as many members as ranks, no two with the same.
LEMMA RankTaken ==
  ASSUME NEW S \in SUBSET Int, IsFiniteSet(S), NEW m \in 0 .. Cardinality(S) - 1
  PROVE  \E x \in S : Rank(S, x) = m
<1> DEFINE T == 0 .. Cardinality(S) - 1
           f == [x \in S |-> Rank(S, x)]
<1>1. Cardinality(S) \in Nat
  BY FS_CardinalityType
<1>2. f \in [S -> T]
  BY RankRange
<1>3. ASSUME NEW x \in S, NEW z \in S, f[x] = f[z] PROVE x = z
  <2>1. CASE x < z
    BY <1>3, <2>1, RankMonotonic
  <2>2. CASE z < x
    BY <1>3, <2>2, RankMonotonic
  <2> QED BY <2>1, <2>2
<1>4. f \in Injection(S, T)
  <2>1. DOMAIN f = S
    OBVIOUS
  <2> HIDE DEF f, T
  <2> QED BY <1>2, <1>3, <2>1 DEF Injection, IsInjective
<1>5. IsFiniteSet(T) /\ Cardinality(T) = Cardinality(S)
  BY <1>1, FS_Interval
<1>6. f \in Surjection(S, T)
  <2> HIDE DEF f, T
  <2> QED BY <1>4, <1>5, FS_Injection
<1>7. PICK x \in S : f[x] = m
  <2>1. m \in T
    OBVIOUS
  <2> HIDE DEF f, T
  <2> QED BY <1>6, <2>1 DEF Surjection
<1> QED BY <1>7

\* Ascending lists the members of the set, each once, in increasing order.
THEOREM AscendingProperties ==
  ASSUME NEW S \in SUBSET Int, IsFiniteSet(S)
  PROVE  /\ Cardinality(S) \in Nat
         /\ Ascending(S) \in Seq(S)
         /\ Len(Ascending(S)) = Cardinality(S)
         /\ DOMAIN Ascending(S) = 1 .. Cardinality(S)
         /\ \A n \in 1 .. Cardinality(S) : Ascending(S)[n] \in S
         /\ \A m, n \in 1 .. Cardinality(S) : m < n => Ascending(S)[m] < Ascending(S)[n]
         /\ \A x \in S : \E n \in 1 .. Cardinality(S) : Ascending(S)[n] = x
<1> DEFINE c == Cardinality(S)
           a == Ascending(S)
<1>1. c \in Nat
  BY FS_CardinalityType
<1>2. a = [n \in 1 .. c |-> CHOOSE x \in S : Rank(S, x) = n - 1]
  BY DEF Ascending
<1>a. \A x, z \in S :
        x < z => Rank(S, x) \in Nat /\ Rank(S, z) \in Nat /\ Rank(S, x) < Rank(S, z)
  BY RankMonotonic
<1>3. ASSUME NEW n \in 1 .. c PROVE a[n] \in S /\ Rank(S, a[n]) = n - 1
  <2>1. n - 1 \in 0 .. c - 1
    BY <1>1
  <2>2. \E x \in S : Rank(S, x) = n - 1
    BY <2>1, RankTaken
  <2>3. a[n] = CHOOSE x \in S : Rank(S, x) = n - 1
    BY <1>2
  <2> HIDE DEF a
  <2> QED BY <2>2, <2>3
<1>4. a \in Seq(S) /\ Len(a) = c /\ DOMAIN a = 1 .. c
  <2>1. a \in [1 .. c -> S]
    BY <1>2, <1>3
  <2> HIDE DEF a, c
  <2> QED BY <1>1, <2>1, SeqDef
<1>5. ASSUME NEW m \in 1 .. c, NEW n \in 1 .. c, m < n PROVE a[m] < a[n]
  <2>1. a[m] \in S /\ a[n] \in S /\ Rank(S, a[m]) < Rank(S, a[n])
    BY <1>1, <1>3, <1>5
  <2>2. a[m] \in Int /\ a[n] \in Int
    BY <2>1
  <2>3. ~ (a[n] < a[m])
    <3>1. a[n] < a[m] => /\ Rank(S, a[m]) \in Nat
                         /\ Rank(S, a[n]) \in Nat
                         /\ Rank(S, a[n]) < Rank(S, a[m])
      BY <2>1, <1>a, Zenon
    <3> HIDE DEF a
    <3> QED BY <2>1, <3>1
  <2>4. a[n] # a[m]
    BY <1>1, <1>3, <1>5
  <2> HIDE DEF a
  <2> QED BY <2>1, <2>2, <2>3, <2>4
<1>6. ASSUME NEW x \in S PROVE \E n \in 1 .. c : a[n] = x
  <2> DEFINE n == Rank(S, x) + 1
  <2>1. n \in 1 .. c /\ n - 1 = Rank(S, x)
    BY <1>1, RankRange
  <2>2. a[n] \in S /\ Rank(S, a[n]) = Rank(S, x)
    BY <2>1, <1>3
  <2>3. ~ (a[n] < x) /\ ~ (x < a[n])
    <3>1. a[n] < x => Rank(S, a[n]) \in Nat /\ Rank(S, a[n]) < Rank(S, x)
      BY <2>2, <1>a, Zenon
    <3>2. x < a[n] => Rank(S, a[n]) \in Nat /\ Rank(S, x) < Rank(S, a[n])
      BY <2>2, <1>a, Zenon
    <3> HIDE DEF a, n
    <3> QED BY <2>2, <3>1, <3>2
  <2>4. a[n] \in Int /\ x \in Int
    BY <2>2
  <2>5. a[n] = x
    <3> HIDE DEF a, n
    <3> QED BY <2>3, <2>4
  <2> QED BY <2>1, <2>5
<1> QED BY <1>1, <1>3, <1>4, <1>5, <1>6

\* Two positions hold the same member only if they are the same.
LEMMA AscendingDistinct ==
  ASSUME NEW S \in SUBSET Int, IsFiniteSet(S)
  PROVE  \A m, n \in DOMAIN Ascending(S) : (m = n) = (Ascending(S)[m] = Ascending(S)[n])
<1>1. /\ Cardinality(S) \in Nat
      /\ DOMAIN Ascending(S) = 1 .. Cardinality(S)
      /\ \A n \in DOMAIN Ascending(S) : Ascending(S)[n] \in Int
      /\ \A m, n \in DOMAIN Ascending(S) : m < n => Ascending(S)[m] < Ascending(S)[n]
  BY AscendingProperties
<1> QED BY <1>1

\* What KeptAt keeps is what the sequence holds at those positions.
LEMMA KeptAtProperties ==
  ASSUME NEW T, NEW s \in Seq(T), NEW P \in SUBSET (1 .. Len(s))
  PROVE  /\ IsFiniteSet(P) /\ P \in SUBSET Int
         /\ KeptAt(s, P) \in Seq(T)
         /\ Len(KeptAt(s, P)) = Cardinality(P)
         /\ DOMAIN KeptAt(s, P) = 1 .. Cardinality(P)
         /\ \A n \in 1 .. Cardinality(P) :
              Ascending(P)[n] \in P /\ KeptAt(s, P)[n] = s[Ascending(P)[n]]
<1>1. Len(s) \in Nat /\ P \in SUBSET Int
  BY LenProperties
<1>2. IsFiniteSet(P)
  <2>1. IsFiniteSet(1 .. Len(s))
    BY <1>1, FS_Interval
  <2> QED BY <2>1, FS_Subset
<1>3. Cardinality(P) \in Nat /\ \A n \in 1 .. Cardinality(P) : Ascending(P)[n] \in P
  BY <1>1, <1>2, AscendingProperties
<1>4. \A n \in 1 .. Cardinality(P) :
        KeptAt(s, P)[n] = s[Ascending(P)[n]] /\ KeptAt(s, P)[n] \in T
  BY <1>3, ElementOfSeq DEF KeptAt
<1>5. KeptAt(s, P) \in [1 .. Cardinality(P) -> T]
  BY <1>4 DEF KeptAt
<1>6. /\ KeptAt(s, P) \in Seq(T)
      /\ Len(KeptAt(s, P)) = Cardinality(P)
      /\ DOMAIN KeptAt(s, P) = 1 .. Cardinality(P)
  BY <1>3, <1>5, SeqDef
<1> QED BY <1>1, <1>2, <1>3, <1>4, <1>6
=============================================================================
