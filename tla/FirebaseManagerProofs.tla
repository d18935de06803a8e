------------------------ MODULE FirebaseManagerProofs ------------------------
(***************************************************************************)
(* What the write queue and the local view guarantee, for any queue.       *)
(***************************************************************************)
EXTENDS FirebaseManager, SequenceTheorems, WellFoundedInduction, TLAPS

\* A non-empty set of positions of a sequence has a largest member: the
\* newest of several pending writes exists.
LEMMA MaxOfPositions ==
  ASSUME NEW N \in Nat, NEW S \in SUBSET (1 .. N), S # {}
  PROVE  Max(S) \in S /\ \A n \in S : n <= Max(S)
<1> DEFINE T == {m \in 0 .. N : N - m \in S}
           R == OpToRel(<, Nat)
<1>1. T \subseteq Nat /\ T # {}
  <2>1. PICK s \in S : TRUE
    OBVIOUS
  <2>2. N - s \in T
    BY <2>1
  <2>3. \A m \in T : m \in Nat
    OBVIOUS
  <2> HIDE DEF T
  <2> QED BY <2>2, <2>3
<1>2. PICK t \in T : \A y \in T : ~ (<<y, t>> \in R)
  <2> HIDE DEF T, R
  <2> QED BY <1>1, WFMin, NatLessThanWellFounded DEF R
<1>3. \A y \in T : ~ (y < t)
  BY <1>1, <1>2 DEF OpToRel
<1>4. N - t \in S /\ \A n \in S : n <= N - t
  <2>1. N - t \in S /\ t \in 0 .. N
    OBVIOUS
  <2>2. ASSUME NEW n \in S PROVE n <= N - t
    <3>1. n \in 1 .. N
      OBVIOUS
    <3>2. N - n \in 0 .. N /\ N - (N - n) = n
      BY <3>1
    <3>3. N - n \in T
      BY <3>2
    <3>4. ~ (N - n < t)
      BY <3>3, <1>3
    <3> QED BY <3>1, <3>4, <2>1
  <2> QED BY <2>1, <2>2
<1>5. \E x \in S : \A y \in S : x >= y
  BY <1>4
<1> QED BY <1>5 DEF Max

\* The local view of a document is its stored value or the value of a pending
\* write to it (Firestore's latency compensation).
LEMMA LocalViewOrigin ==
  ASSUME queue \in Seq(Write), NEW d
  PROVE  \/ LocalView(d) = srv[d]
         \/ \E n \in DOMAIN queue : queue[n].doc = d /\ LocalView(d) = queue[n].val
<1>1. CASE WritesTo(d) = {}
  BY <1>1 DEF LocalView
<1>2. CASE WritesTo(d) # {}
  <2>1. Len(queue) \in Nat /\ WritesTo(d) \in SUBSET (1 .. Len(queue))
    BY LenProperties DEF WritesTo
  <2>2. Max(WritesTo(d)) \in WritesTo(d)
    BY <2>1, <1>2, MaxOfPositions
  <2> QED BY <2>2, <1>2 DEF LocalView, WritesTo
<1> QED BY <1>1, <1>2

\* The members of a concatenation and of a tail.
LEMMA RangeConcat ==
  ASSUME NEW S, NEW q \in Seq(S), NEW ws \in Seq(S)
  PROVE  q \o ws \in Seq(S) /\ Range(q \o ws) = Range(q) \cup Range(ws)
<1>1. /\ q \o ws \in Seq(S)
      /\ Len(q \o ws) = Len(q) + Len(ws)
      /\ \A i \in 1 .. Len(q) + Len(ws) :
           (q \o ws)[i] = IF i <= Len(q) THEN q[i] ELSE ws[i - Len(q)]
  BY ConcatProperties
<1>2. /\ DOMAIN q = 1 .. Len(q) /\ Len(q) \in Nat
      /\ DOMAIN ws = 1 .. Len(ws) /\ Len(ws) \in Nat
      /\ DOMAIN (q \o ws) = 1 .. (Len(q) + Len(ws))
  BY <1>1, LenProperties
<1>3. ASSUME NEW i \in 1 .. (Len(q) + Len(ws))
      PROVE  (q \o ws)[i] \in Range(q) \cup Range(ws)
  <2>1. CASE i <= Len(q)
    BY <2>1, <1>1, <1>2 DEF Range
  <2>2. CASE ~ (i <= Len(q))
    <3>1. i - Len(q) \in DOMAIN ws /\ (q \o ws)[i] = ws[i - Len(q)]
      BY <2>2, <1>1, <1>2
    <3> QED BY <3>1 DEF Range
  <2> QED BY <2>1, <2>2
<1>4. ASSUME NEW i \in 1 .. Len(q) PROVE q[i] \in Range(q \o ws)
  BY <1>1, <1>2 DEF Range
<1>5. ASSUME NEW i \in 1 .. Len(ws) PROVE ws[i] \in Range(q \o ws)
  <2>1. Len(q) + i \in DOMAIN (q \o ws) /\ (q \o ws)[Len(q) + i] = ws[i]
    BY <1>1, <1>2
  <2> QED BY <2>1 DEF Range
<1> QED BY <1>1, <1>2, <1>3, <1>4, <1>5 DEF Range

LEMMA RangeTail ==
  ASSUME NEW S, NEW q \in Seq(S), q # <<>>
  PROVE  /\ Tail(q) \in Seq(S)
         /\ Head(q) \in S
         /\ Head(q) \in Range(q)
         /\ Range(q) = {Head(q)} \cup Range(Tail(q))
<1>1. /\ Head(q) \in S
      /\ Tail(q) \in Seq(S)
      /\ Len(Tail(q)) = Len(q) - 1
      /\ \A i \in 1 .. Len(Tail(q)) : Tail(q)[i] = q[i + 1]
  BY HeadTailProperties
<1>2. /\ Len(q) \in Nat \ {0} /\ DOMAIN q = 1 .. Len(q)
      /\ DOMAIN Tail(q) = 1 .. (Len(q) - 1)
  BY <1>1, LenProperties, EmptySeq
<1>3. Head(q) = q[1] /\ 1 \in DOMAIN q
  BY <1>2
<1>4. ASSUME NEW i \in DOMAIN Tail(q) PROVE Tail(q)[i] \in Range(q)
  <2>1. i + 1 \in DOMAIN q /\ Tail(q)[i] = q[i + 1]
    BY <1>1, <1>2
  <2> QED BY <2>1 DEF Range
<1>5. ASSUME NEW i \in DOMAIN q, i # 1 PROVE q[i] \in Range(Tail(q))
  <2>1. i - 1 \in DOMAIN Tail(q) /\ Tail(q)[i - 1] = q[i]
    BY <1>1, <1>2, <1>5
  <2> QED BY <2>1 DEF Range
<1> QED BY <1>1, <1>3, <1>4, <1>5 DEF Range

\* A call queues at most the one write it stands for.
LEMMA CallsQueueOne ==
  ASSUME NEW doc \in Docs, NEW val \in Values, NEW done \in Callbacks, Fits(doc, val)
  PROVE  /\ Calls(doc, val, done) \in Seq(Write)
         /\ Range(Calls(doc, val, done))
              \subseteq {[doc |-> doc, val |-> val, done |-> done]}
<1> DEFINE w == [doc |-> doc, val |-> val, done |-> done]
<1>1. w \in Write
  BY DEF Write
<1> HIDE DEF w
<1>2. <<w>> \in Seq(Write) /\ <<>> \in Seq(Write)
  BY <1>1
<1>3. Range(<<w>>) = {w} /\ Range(<<>>) = {}
  BY DEF Range
<1> QED BY <1>2, <1>3 DEF Calls, w

\* What the device reads decodes as the document it is read from.
LEMMA LocalViewFits ==
  ASSUME FsTypeOK, NEW d \in Docs
  PROVE  LocalView(d) \in Values /\ Fits(d, LocalView(d))
<1>1. \A n \in DOMAIN queue : queue[n] \in Write
  BY LenProperties, ElementOfSeq DEF FsTypeOK
<1> QED BY <1>1, LocalViewOrigin DEF FsTypeOK, Write

LEMMA LoadedCountsType ==
  ASSUME FsTypeOK
  PROVE  loadGoodsCountForDate \in [Dates -> Int]
<1>1. ASSUME NEW d \in Dates PROVE CountIn(LocalView(datecount(d))) \in Int
  <2>1. datecount(d) \in Docs
    BY DEF Docs, datecount
  <2>2. LocalView(datecount(d)) \in Int \cup {Absent}
    BY <2>1, LocalViewFits DEF Fits
  <2> QED BY <2>2 DEF CountIn
<1> QED BY <1>1 DEF loadGoodsCountForDate

-----------------------------------------------------------------------------
(* Steps of the store: they keep its type, and every write that is pending *)
(* afterwards was pending before or has just been queued.                  *)

LEMMA EnqueueStep ==
  ASSUME FsTypeOK, NEW ws \in Seq(Write), Enqueue(ws)
  PROVE  FsTypeOK' /\ Pending' = Pending \cup Range(ws)
<1>1. queue' \in Seq(Write) /\ Range(queue') = Range(queue) \cup Range(ws)
  BY RangeConcat DEF Enqueue, FsTypeOK
<1> QED BY <1>1 DEF Enqueue, FsTypeOK, Pending

LEMMA CommitStep ==
  ASSUME FsTypeOK, NEW ws \in Seq(Write), Commit(ws)
  PROVE  /\ FsTypeOK'
         /\ Head(queue) \in Write
         /\ Head(queue) \in Pending
         /\ Pending' \subseteq Pending \cup Range(ws)
         /\ Range(ws) \subseteq Pending'
         /\ \A d \in Docs : srv'[d] = IF d = Head(queue).doc THEN Head(queue).val ELSE srv[d]
<1>1. /\ Tail(queue) \in Seq(Write)
      /\ Head(queue) \in Write
      /\ Head(queue) \in Pending
      /\ Pending = {Head(queue)} \cup Range(Tail(queue))
  BY RangeTail DEF Commit, FsTypeOK, Pending
<1>2. queue' \in Seq(Write) /\ Pending' = Range(Tail(queue)) \cup Range(ws)
  <2>1. queue' = Tail(queue) \o ws
    BY DEF Commit
  <2>2. /\ Tail(queue) \o ws \in Seq(Write)
        /\ Range(Tail(queue) \o ws) = Range(Tail(queue)) \cup Range(ws)
    BY <1>1, RangeConcat
  <2> QED BY <2>1, <2>2 DEF Pending
<1>3. /\ srv' \in [Docs -> Values]
      /\ \A d \in Docs : srv'[d] = IF d = Head(queue).doc THEN Head(queue).val ELSE srv[d]
  BY <1>1 DEF Commit, FsTypeOK, Write
<1>4. \A d \in Docs : Fits(d, srv'[d])
  BY <1>1, <1>3 DEF FsTypeOK, Write
<1>5. FsTypeOK'
  BY <1>2, <1>3, <1>4 DEF Commit, FsTypeOK, Fits, Write
<1> QED BY <1>1, <1>2, <1>3, <1>5

LEMMA RefuseStep ==
  ASSUME FsTypeOK, Refuse
  PROVE  FsTypeOK' /\ Head(queue) \in Pending /\ Pending' \subseteq Pending
<1>1. /\ Tail(queue) \in Seq(Write)
      /\ Head(queue) \in Pending
      /\ Range(Tail(queue)) \subseteq Pending
  BY RangeTail DEF Refuse, FsTypeOK, Pending
<1>2. faults' \in 0 .. MaxFaults
  BY FirestoreAssumption DEF Refuse, Fault, FsTypeOK
<1> QED BY <1>1, <1>2 DEF Refuse, FsTypeOK, Pending

LEMMA LoseCallbacksStep ==
  ASSUME FsTypeOK, LoseCallbacks
  PROVE  /\ FsTypeOK'
         /\ \A v \in Pending' : v.done = Lost /\ \E w \in Pending : w.doc = v.doc /\ w.val = v.val
<1>1. /\ Len(queue) \in Nat
      /\ DOMAIN queue = 1 .. Len(queue)
      /\ queue' = [n \in 1 .. Len(queue) |-> [queue[n] EXCEPT !.done = Lost]]
  BY LenProperties DEF FsTypeOK, LoseCallbacks
<1>2. ASSUME NEW n \in 1 .. Len(queue)
      PROVE  /\ queue'[n] \in Write
             /\ queue'[n].done = Lost
             /\ queue'[n].doc = queue[n].doc /\ queue'[n].val = queue[n].val
  <2>1. queue[n] \in Write
    BY <1>1, ElementOfSeq DEF FsTypeOK
  <2> QED BY <1>1, <2>1 DEF Write, Callbacks
<1>3. DOMAIN queue' = 1 .. Len(queue)
  BY <1>1
<1>4. queue' \in Seq(Write)
  <2>1. queue' \in [1 .. Len(queue) -> Write]
    BY <1>1, <1>2
  <2> QED BY <2>1, <1>1, SeqDef
<1>5. \A v \in Pending' : v.done = Lost /\ \E w \in Pending : w.doc = v.doc /\ w.val = v.val
  BY <1>1, <1>2, <1>3 DEF Pending, Range
<1> QED BY <1>4, <1>5 DEF LoseCallbacks, FsTypeOK
=============================================================================
