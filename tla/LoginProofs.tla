---------------------------- MODULE LoginProofs ----------------------------
(***************************************************************************)
(* Proofs about Login, for any number of screens, sign-ins, failures and   *)
(* kills: which screen is shown, what is left below it, and who is stuck.  *)
(***************************************************************************)
EXTENDS Login, KeyOrderProofs

-----------------------------------------------------------------------------
(* The inductive invariant.  The newest view controller, Len(kinds), is    *)
(* the one the screen is at or on its way to.                              *)

Newest == Len(kinds)

\* The newest view is on top, the others below it in the order of their making.
Stacked ==
  /\ Newest \in DOMAIN kinds
  /\ \A m, n \in DOMAIN views : m < n => views[m] < views[n]
  /\ \E n \in DOMAIN views : views[n] = Newest

\* Swaps lead to newer controllers, the last one to the newest.
Swapping ==
  /\ IF transitions = <<>> THEN current = Newest
                           ELSE transitions[Len(transitions)][2] = Newest
  /\ \A n \in DOMAIN transitions : transitions[n][1] < transitions[n][2]

\* One swap at a time: the stack holds the two views it is about.
OneByOne ==
  ~overlapped =>
    /\ Len(transitions) <= 1
    /\ \A n \in DOMAIN transitions : transitions[n][1] = current
    /\ \A n \in DOMAIN views : views[n] \in {current, Newest}

\* Every sign-in belongs to a screen, and there is room for what it leads to.
Owned ==
  /\ \A n \in DOMAIN signIns : signIns[n].owner \in DOMAIN kinds
  /\ Len(kinds) + Len(signIns) + (IF registering = NoView THEN 0 ELSE 1) <= MaxViews

\* Whatever follows from a sign-in means the server knows the account, and it
\* tells one sign-in only that the user is new.
Accounted ==
  /\ \/ signedIn
     \/ userDoc # "none"
     \/ registering # NoView
     \/ Len(kinds) # 1
     \/ \E v \in DOMAIN kinds : kinds[v] = "home"
     \/ \E n \in DOMAIN signIns : signIns[n].answer # "none"
     => accountKnown
  /\ \A m, n \in DOMAIN signIns : signIns[m].answer = "new" /\ signIns[n].answer = "new" => m = n
  /\ registering # NoView => \A n \in DOMAIN signIns : signIns[n].answer # "new"

\* Until something fails, a known account is registered or about to be.
Registered ==
  ~mishap /\ accountKnown =>
    userDoc # "none" \/ \E n \in DOMAIN signIns : signIns[n].answer = "new"

\* Until something fails, a signed-in user whose newest screen is a Login will
\* leave it: for a closure of a known user, or for that Login's registration.
OnTheWay ==
  ~mishap /\ signedIn /\ kinds[Newest] = "login" =>
    \/ \E n \in DOMAIN signIns : signIns[n].answer = "known"
    \/ \E n \in DOMAIN signIns : signIns[n].answer = "new" /\ signIns[n].owner = Newest
    \/ registering = Newest

Uncovered == host = Newest => registering = host

LInv ==
  /\ TypeOK
  /\ Stacked /\ Swapping /\ OneByOne
  /\ Owned /\ Accounted /\ Registered /\ OnTheWay /\ Uncovered

-----------------------------------------------------------------------------
(* What the steps do to the sequences.                                     *)

LEMMA RemoveAtProperties ==
  ASSUME NEW T, NEW s \in Seq(T), NEW n \in DOMAIN s
  PROVE  /\ RemoveAt(s, n) \in Seq(T)
         /\ Len(RemoveAt(s, n)) = Len(s) - 1
         /\ \A m \in 1 .. Len(s) - 1 : RemoveAt(s, n)[m] = IF m < n THEN s[m] ELSE s[m + 1]
<1> DEFINE a == SubSeq(s, 1, n - 1)
           b == SubSeq(s, n + 1, Len(s))
<1>1. Len(s) \in Nat /\ DOMAIN s = 1 .. Len(s) /\ n \in 1 .. Len(s)
  BY LenProperties
<1>2. /\ a \in Seq(T) /\ Len(a) = n - 1
      /\ \A i \in 1 .. n - 1 : a[i] = s[i]
  BY <1>1, SubSeqProperties
<1>3. /\ b \in Seq(T) /\ Len(b) = Len(s) - n
      /\ \A i \in 1 .. Len(s) - n : b[i] = s[n + i]
  BY <1>1, SubSeqProperties
<1>4. RemoveAt(s, n) = a \o b
  BY DEF RemoveAt
<1> HIDE DEF a, b
<1>5. /\ a \o b \in Seq(T) /\ Len(a \o b) = Len(a) + Len(b)
      /\ \A i \in 1 .. Len(a) + Len(b) : (a \o b)[i] = IF i <= Len(a) THEN a[i] ELSE b[i - Len(a)]
  BY <1>2, <1>3, ConcatProperties
<1>6. Len(a) + Len(b) = Len(s) - 1
  BY <1>1, <1>2, <1>3
<1>7. ASSUME NEW m \in 1 .. Len(s) - 1
      PROVE  (a \o b)[m] = IF m < n THEN s[m] ELSE s[m + 1]
  <2>1. CASE m < n
    BY <1>1, <1>2, <1>5, <1>6, <2>1
  <2>2. CASE ~ (m < n)
    <3>1. m - (n - 1) \in 1 .. Len(s) - n /\ n + (m - (n - 1)) = m + 1 /\ ~ (m <= Len(a))
      BY <1>1, <1>2, <2>2
    <3>2. (a \o b)[m] = b[m - (n - 1)]
      BY <1>1, <1>2, <1>5, <1>6, <3>1
    <3> QED BY <1>3, <2>2, <3>1, <3>2
  <2> QED BY <2>1, <2>2
<1> QED BY <1>4, <1>5, <1>6, <1>7

\* A closure has run: the other sign-ins are still in flight, in their order.
LEMMA SignInEnded ==
  ASSUME LInv, NEW n \in DOMAIN signIns, signIns' = RemoveAt(signIns, n)
  PROVE  /\ signIns' \in Seq(SignIn)
         /\ Len(signIns') = Len(signIns) - 1
         /\ Len(signIns) \in Nat
         /\ \A m \in DOMAIN signIns' : \E k \in DOMAIN signIns \ {n} : signIns'[m] = signIns[k]
         /\ \A k \in DOMAIN signIns \ {n} : \E m \in DOMAIN signIns' : signIns'[m] = signIns[k]
         /\ \A l, m \in DOMAIN signIns' :
              signIns'[l].answer = "new" /\ signIns'[m].answer = "new" => l = m
         /\ \A m \in DOMAIN signIns' : signIns'[m].owner \in DOMAIN kinds
<1>1. /\ signIns \in Seq(SignIn) /\ Len(signIns) \in Nat
      /\ DOMAIN signIns = 1 .. Len(signIns) /\ n \in 1 .. Len(signIns)
  BY LenProperties DEF LInv, TypeOK
<1>2. /\ signIns' \in Seq(SignIn) /\ Len(signIns') = Len(signIns) - 1
      /\ \A m \in 1 .. Len(signIns) - 1 :
           signIns'[m] = IF m < n THEN signIns[m] ELSE signIns[m + 1]
  BY <1>1, RemoveAtProperties
<1>3. DOMAIN signIns' = 1 .. Len(signIns) - 1
  BY <1>2, LenProperties
<1>4. ASSUME NEW m \in DOMAIN signIns'
      PROVE  \E k \in DOMAIN signIns \ {n} : signIns'[m] = signIns[k]
  <2>1. CASE m < n
    BY <1>1, <1>2, <1>3, <2>1
  <2>2. CASE ~ (m < n)
    <3>1. m + 1 \in DOMAIN signIns \ {n} /\ signIns'[m] = signIns[m + 1]
      BY <1>1, <1>2, <1>3, <2>2
    <3> QED BY <3>1
  <2> QED BY <2>1, <2>2
<1>5. ASSUME NEW k \in DOMAIN signIns \ {n}
      PROVE  \E m \in DOMAIN signIns' : signIns'[m] = signIns[k]
  <2>1. CASE k < n
    <3>1. k \in DOMAIN signIns' /\ signIns'[k] = signIns[k]
      BY <1>1, <1>2, <1>3, <2>1
    <3> QED BY <3>1
  <2>2. CASE ~ (k < n)
    <3>1. k - 1 \in DOMAIN signIns' /\ signIns'[k - 1] = signIns[k]
      BY <1>1, <1>2, <1>3, <2>2
    <3> QED BY <3>1
  <2> QED BY <2>1, <2>2
<1>6. ASSUME NEW l \in DOMAIN signIns', NEW m \in DOMAIN signIns',
             signIns'[l].answer = "new", signIns'[m].answer = "new"
      PROVE  l = m
  <2> DEFINE at(i) == IF i < n THEN i ELSE i + 1
  <2>1. /\ at(l) \in DOMAIN signIns /\ at(m) \in DOMAIN signIns
        /\ signIns[at(l)].answer = "new" /\ signIns[at(m)].answer = "new"
    BY <1>1, <1>2, <1>3, <1>6
  <2>2. at(l) = at(m)
    <3> HIDE DEF at
    <3> QED BY <2>1 DEF LInv, Accounted
  <2> QED BY <1>1, <1>3, <2>2
<1>7. ASSUME NEW m \in DOMAIN signIns' PROVE signIns'[m].owner \in DOMAIN kinds
  <2>1. PICK k \in DOMAIN signIns : signIns'[m] = signIns[k]
    BY <1>4
  <2> QED BY <2>1 DEF LInv, Owned
<1> QED BY <1>1, <1>2, <1>4, <1>5, <1>6, <1>7

\* A swap begins: a new controller, and its view on top of the others.
LEMMA ChangeChildStep ==
  ASSUME LInv, NEW kind \in {"login", "home"}, changeChild(kind)
  PROVE  /\ kinds' \in Seq({"login", "home"})
         /\ Len(kinds) \in Nat /\ Len(kinds') = Len(kinds) + 1
         /\ DOMAIN kinds = 1 .. Len(kinds) /\ DOMAIN kinds' = 1 .. Len(kinds) + 1
         /\ \A v \in DOMAIN kinds : kinds'[v] = kinds[v]
         /\ kinds'[Newest'] = kind
         /\ views' \in Seq(DOMAIN kinds')
         /\ current' \in DOMAIN kinds' \cup {NoView}
         /\ transitions' \in Seq((DOMAIN kinds' \cup {NoView}) \X DOMAIN kinds')
         /\ overlapped' \in BOOLEAN
         /\ Stacked' /\ Swapping' /\ OneByOne'
<1> DEFINE N == Len(kinds)
           V == DOMAIN kinds'
<1>1. /\ N \in Nat /\ DOMAIN kinds = 1 .. N
      /\ kinds \in Seq({"login", "home"})
  BY LenProperties DEF LInv, TypeOK
<1>2. /\ kinds' \in Seq({"login", "home"}) /\ Len(kinds') = N + 1
      /\ \A v \in 1 .. N : kinds'[v] = kinds[v]
      /\ kinds'[N + 1] = kind
  BY <1>1, AppendProperties DEF changeChild
<1>3. V = 1 .. N + 1
  BY <1>1, <1>2, LenProperties
<1>4. views \in Seq(V) /\ Len(views) \in Nat /\ DOMAIN views = 1 .. Len(views)
      /\ \A n \in DOMAIN views : views[n] \in 1 .. N
  <2>1. views \in Seq(1 .. N)
    BY <1>1 DEF LInv, TypeOK
  <2>2. \A n \in DOMAIN views : views[n] \in 1 .. N
    BY <2>1, ElementOfSeq, LenProperties
  <2>3. views \in Seq(V)
    BY <2>1, <1>1, <1>3, SeqMonotonic
  <2> QED BY <2>1, <2>2, <2>3, LenProperties
<1>5. N + 1 \in V
  BY <1>1, <1>3
<1> HIDE DEF V
<1>6. /\ views' \in Seq(V) /\ Len(views') = Len(views) + 1
      /\ \A n \in 1 .. Len(views) : views'[n] = views[n]
      /\ views'[Len(views) + 1] = N + 1
  BY <1>4, <1>5, AppendProperties DEF changeChild
<1>7. DOMAIN views' = 1 .. Len(views) + 1
  BY <1>4, <1>6, LenProperties
<1>8. Stacked'
  <2>1. Newest' \in DOMAIN kinds'
    BY <1>2, <1>5 DEF V, Newest
  <2>2. ASSUME NEW m \in DOMAIN views', NEW n \in DOMAIN views', m < n
        PROVE  views'[m] < views'[n]
    <3>1. CASE n \in 1 .. Len(views)
      BY <1>4, <1>6, <1>7, <2>2, <3>1 DEF LInv, Stacked
    <3>2. CASE n = Len(views) + 1
      BY <1>1, <1>4, <1>6, <1>7, <2>2, <3>2
    <3> QED BY <1>4, <1>7, <3>1, <3>2
  <2>3. \E n \in DOMAIN views' : views'[n] = Newest'
    BY <1>2, <1>4, <1>6, <1>7 DEF Newest
  <2> QED BY <2>1, <2>2, <2>3 DEF Stacked
<1>9. current \in V \cup {NoView} /\ current' = current /\ current < N + 1 /\ current \in Int
  BY <1>1, <1>3 DEF LInv, TypeOK, changeChild, NoView
<1>10. transitions \in Seq((V \cup {NoView}) \X V)
  <2>1. DOMAIN kinds \subseteq V
    BY <1>1, <1>3
  <2>2. (DOMAIN kinds \cup {NoView}) \X DOMAIN kinds \subseteq (V \cup {NoView}) \X V
    BY <2>1
  <2> QED BY <2>2, SeqMonotonic DEF LInv, TypeOK
<1>11. <<current, N + 1>> \in (V \cup {NoView}) \X V
  BY <1>5, <1>9
<1>12. /\ transitions' \in Seq((V \cup {NoView}) \X V)
       /\ Len(transitions) \in Nat /\ DOMAIN transitions = 1 .. Len(transitions)
       /\ Len(transitions') = Len(transitions) + 1
       /\ \A n \in 1 .. Len(transitions) : transitions'[n] = transitions[n]
       /\ transitions'[Len(transitions) + 1] = <<current, N + 1>>
  BY <1>10, <1>11, AppendProperties, LenProperties DEF changeChild
<1>13. DOMAIN transitions' = 1 .. Len(transitions) + 1 /\ transitions' # <<>>
  BY <1>12, LenProperties
<1>14. Swapping'
  <2>1. transitions'[Len(transitions')][2] = Newest'
    BY <1>2, <1>12 DEF Newest
  <2>2. ASSUME NEW n \in DOMAIN transitions'
        PROVE  transitions'[n][1] < transitions'[n][2]
    <3>1. CASE n \in 1 .. Len(transitions)
      BY <1>12, <3>1 DEF LInv, Swapping
    <3>2. CASE n = Len(transitions) + 1
      BY <1>9, <1>12, <3>2
    <3> QED BY <1>12, <1>13, <3>1, <3>2
  <2> QED BY <1>13, <2>1, <2>2 DEF Swapping
<1>15. OneByOne'
  <2> SUFFICES ASSUME ~ overlapped'
               PROVE  /\ Len(transitions') <= 1
                      /\ \A n \in DOMAIN transitions' : transitions'[n][1] = current'
                      /\ \A n \in DOMAIN views' : views'[n] \in {current', Newest'}
    BY DEF OneByOne
  <2>1. ~ overlapped /\ transitions = <<>>
    BY DEF changeChild
  <2>2. Len(transitions) = 0 /\ current = N
    BY <2>1 DEF LInv, Swapping, Newest
  <2>3. \A n \in DOMAIN views : views[n] = current
    BY <2>1, <2>2 DEF LInv, OneByOne, Newest
  <2>4. Newest' = N + 1
    BY <1>2 DEF Newest
  <2> QED BY <1>4, <1>6, <1>7, <1>9, <1>12, <1>13, <2>2, <2>3, <2>4
<1>16. overlapped' \in BOOLEAN
  BY DEF LInv, TypeOK, changeChild
<1>17. kinds'[Newest'] = kind
  BY <1>2 DEF Newest
<1> QED BY <1>1, <1>2, <1>3, <1>6, <1>8, <1>9, <1>12, <1>14, <1>15, <1>16, <1>17 DEF V

\* A swap ends: the newest view stays, and becomes current with the last swap.
LEMMA ChangeChildDoneStep ==
  ASSUME LInv, changeChildDone
  PROVE  /\ views' \in Seq(DOMAIN kinds)
         /\ current' \in DOMAIN kinds
         /\ transitions' \in Seq((DOMAIN kinds \cup {NoView}) \X DOMAIN kinds)
         /\ Stacked' /\ Swapping' /\ OneByOne'
         /\ \A n \in DOMAIN views' : \E m \in DOMAIN views : views'[n] = views[m]
<1> DEFINE N == Len(kinds)
           V == DOMAIN kinds
           old == Head(transitions)[1]
           P == {n \in DOMAIN views : views[n] # old}
<1>1. N \in Nat /\ V = 1 .. N /\ kinds' = kinds /\ Newest' = Newest /\ Newest = N
  BY LenProperties DEF LInv, TypeOK, changeChildDone, Newest
<1>2. /\ views \in Seq(V) /\ Len(views) \in Nat /\ DOMAIN views = 1 .. Len(views)
      /\ \A n \in DOMAIN views : views[n] \in V
  BY LenProperties, ElementOfSeq DEF LInv, TypeOK
<1>3. transitions \in Seq((V \cup {NoView}) \X V) /\ transitions # <<>>
  BY DEF LInv, TypeOK, changeChildDone
<1>4. /\ Len(transitions) \in Nat \ {0} /\ DOMAIN transitions = 1 .. Len(transitions)
      /\ Head(transitions) = transitions[1]
      /\ transitions[1] \in (V \cup {NoView}) \X V
      /\ transitions' \in Seq((V \cup {NoView}) \X V)
      /\ Len(transitions') = Len(transitions) - 1
      /\ \A n \in 1 .. Len(transitions) - 1 : transitions'[n] = transitions[n + 1]
  <2>1. transitions' = Tail(transitions)
    BY DEF changeChildDone
  <2> HIDE DEF V
  <2> QED BY <1>3, <2>1, HeadTailProperties, LenProperties, EmptySeq, ElementOfSeq
<1>5. DOMAIN transitions' = 1 .. Len(transitions) - 1
  <2> HIDE DEF V
  <2> QED BY <1>4, LenProperties
<1>6. current' = transitions[1][2] /\ current' \in V /\ old = transitions[1][1]
  BY <1>4 DEF changeChildDone
<1>7. old # Newest
  <2>1. transitions[1][1] < transitions[1][2]
    BY <1>4 DEF LInv, Swapping
  <2>2. transitions[1][1] \in Int /\ transitions[1][2] \in 1 .. N
    BY <1>1, <1>4 DEF NoView
  <2> QED BY <1>1, <1>6, <2>1, <2>2
<1>8. views' = KeptAt(views, P)
  BY DEF changeChildDone
<1> HIDE DEF V, old
<1>9. P \in SUBSET (1 .. Len(views))
  BY <1>2
<1> DEFINE c == Cardinality(P)
           a == Ascending(P)
<1> HIDE DEF P
<1>10. /\ views' \in Seq(V) /\ DOMAIN views' = 1 .. c /\ IsFiniteSet(P) /\ P \in SUBSET Int
       /\ \A n \in 1 .. c : a[n] \in P /\ views'[n] = views[a[n]]
  BY <1>2, <1>8, <1>9, KeptAtProperties
<1>11. /\ c \in Nat
       /\ \A m, n \in 1 .. c : m < n => a[m] < a[n]
       /\ \A x \in P : \E n \in 1 .. c : a[n] = x
  BY <1>10, AscendingProperties
<1> HIDE DEF a, c
<1>12. \A m, n \in DOMAIN views : m < n => views[m] < views[n]
  BY DEF LInv, Stacked
<1>13. Stacked'
  <2>1. PICK x \in DOMAIN views : views[x] = Newest
    BY DEF LInv, Stacked
  <2>2. x \in P
    BY <1>7, <2>1 DEF P
  <2>3. PICK n \in 1 .. c : a[n] = x
    BY <1>11, <2>2
  <2>4. n \in DOMAIN views' /\ views'[n] = Newest'
    BY <1>1, <1>10, <2>1, <2>3
  <2>5. \A k, l \in DOMAIN views' : k < l => views'[k] < views'[l]
    <3>1. \A k \in 1 .. c : a[k] \in DOMAIN views
      BY <1>10 DEF P
    <3> QED BY <1>10, <1>11, <1>12, <3>1
  <2>6. Newest' \in DOMAIN kinds'
    BY <1>1 DEF LInv, Stacked
  <2> QED BY <2>4, <2>5, <2>6 DEF Stacked
<1>14. IF transitions' = <<>> THEN current' = Newest'
                              ELSE transitions'[Len(transitions')][2] = Newest'
  <2>1. transitions[Len(transitions)][2] = Newest
    BY <1>3 DEF LInv, Swapping
  <2>2. CASE Len(transitions) = 1
    <3>1. transitions' = <<>>
      <4>1. Len(transitions') = 0
        BY <1>4, <2>2
      <4> QED BY <1>4, <4>1, EmptySeq
    <3> QED BY <1>1, <1>6, <2>1, <2>2, <3>1
  <2>3. CASE Len(transitions) # 1
    <3>1. Len(transitions') \in 1 .. Len(transitions) - 1 /\ Len(transitions') + 1 = Len(transitions)
      BY <1>4, <2>3
    <3>2. transitions'[Len(transitions')] = transitions[Len(transitions)]
      BY <1>4, <3>1
    <3>3. transitions' # <<>>
      BY <3>1, EmptySeq
    <3> QED BY <1>1, <2>1, <3>2, <3>3
  <2> QED BY <2>2, <2>3
<1>15. Swapping'
  <2>1. ASSUME NEW n \in DOMAIN transitions'
        PROVE  transitions'[n][1] < transitions'[n][2]
    <3>1. n + 1 \in DOMAIN transitions /\ transitions'[n] = transitions[n + 1]
      BY <1>4, <1>5
    <3> QED BY <3>1 DEF LInv, Swapping
  <2> QED BY <1>14, <2>1 DEF Swapping
<1>16. OneByOne'
  <2> SUFFICES ASSUME ~ overlapped'
               PROVE  /\ Len(transitions') <= 1
                      /\ \A n \in DOMAIN transitions' : transitions'[n][1] = current'
                      /\ \A n \in DOMAIN views' : views'[n] \in {current', Newest'}
    BY DEF OneByOne
  <2>1. /\ Len(transitions) <= 1
        /\ \A n \in DOMAIN transitions : transitions[n][1] = current
        /\ \A n \in DOMAIN views : views[n] \in {current, Newest}
    BY DEF changeChildDone, LInv, OneByOne
  <2>2. Len(transitions) = 1 /\ old = current
    BY <1>4, <1>6, <2>1
  <2>3. \A x \in P : views[x] = Newest
    BY <2>1, <2>2 DEF P
  <2>4. DOMAIN transitions' = {} /\ Len(transitions') = 0
    BY <1>4, <1>5, <2>2
  <2>5. \A n \in DOMAIN views' : views'[n] = Newest'
    BY <1>1, <1>10, <2>3
  <2> QED BY <2>4, <2>5
<1>17. \A n \in DOMAIN views' : \E m \in DOMAIN views : views'[n] = views[m]
  BY <1>10 DEF P
<1> QED BY <1>4, <1>6, <1>10, <1>13, <1>15, <1>16, <1>17 DEF V

-----------------------------------------------------------------------------
(* The invariant holds initially and every step preserves it.              *)

LEMMA InitLInv == Init => LInv
<1> SUFFICES ASSUME Init PROVE LInv
  OBVIOUS
<1>1. kinds = <<"login">>
  BY DEF Init, LaunchScreen
<1>2. Len(kinds) = 1 /\ DOMAIN kinds = {1} /\ kinds[1] = "login" /\ kinds \in Seq({"login", "home"})
  BY <1>1
<1>3. /\ views \in Seq({1}) /\ DOMAIN views = {1} /\ views[1] = 1
      /\ transitions \in Seq({1, NoView} \X {1}) /\ DOMAIN transitions = {1} /\ Len(transitions) = 1
      /\ transitions[1][1] = NoView /\ transitions[1][2] = 1 /\ transitions # <<>>
      /\ signIns \in Seq(SignIn) /\ DOMAIN signIns = {} /\ Len(signIns) = 0
  BY DEF Init
<1>4. TypeOK
  <2>1. faults \in 0 .. MaxFaults /\ restarts \in 0 .. MaxRestarts
    BY LoginAssumption DEF Init
  <2>2. /\ views \in Seq(DOMAIN kinds)
        /\ transitions \in Seq((DOMAIN kinds \cup {NoView}) \X DOMAIN kinds)
    <3>1. DOMAIN kinds \cup {NoView} = {1, NoView}
      BY <1>2
    <3> QED BY <1>2, <1>3, <3>1
  <2> QED BY <1>2, <1>3, <2>1, <2>2 DEF Init, TypeOK
<1>5. Stacked /\ Swapping /\ OneByOne
  BY <1>2, <1>3 DEF Init, Stacked, Swapping, OneByOne, Newest, NoView
<1>6. Owned /\ Accounted /\ Registered /\ OnTheWay /\ Uncovered
  BY <1>2, <1>3, LoginAssumption DEF Init, Owned, Accounted, Registered, OnTheWay, Uncovered, Newest, NoView
<1> QED BY <1>4, <1>5, <1>6 DEF LInv

\* Steps that leave the root view controller alone.
LEMMA RootUnchanged ==
  ASSUME LInv, UNCHANGED rootVars
  PROVE  /\ Stacked' /\ Swapping' /\ OneByOne' /\ Newest' = Newest
         /\ kinds' = kinds /\ views' = views
         /\ Newest \in DOMAIN kinds /\ Len(kinds) \in Nat \ {0}
         /\ DOMAIN kinds = 1 .. Len(kinds)
BY LenProperties DEF LInv, TypeOK, Stacked, Swapping, OneByOne, Newest, rootVars

\* What the steps below need of the types.
LEMMA Typed ==
  ASSUME LInv
  PROVE  /\ Len(kinds) \in Nat \ {0} /\ DOMAIN kinds = 1 .. Len(kinds)
         /\ Newest = Len(kinds) /\ Newest \in DOMAIN kinds /\ Newest # NoView
         /\ Len(signIns) \in Nat /\ DOMAIN signIns = 1 .. Len(signIns)
         /\ \A n \in DOMAIN signIns : /\ signIns[n] \in SignIn
                                      /\ signIns[n].owner \in DOMAIN kinds
         /\ MaxViews \in Nat
<1>1. Len(kinds) \in Nat /\ DOMAIN kinds = 1 .. Len(kinds)
  BY LenProperties DEF LInv, TypeOK
<1>2. Newest = Len(kinds) /\ Newest \in DOMAIN kinds
  BY DEF LInv, Stacked, Newest
<1>3. Len(signIns) \in Nat /\ DOMAIN signIns = 1 .. Len(signIns)
  BY LenProperties DEF LInv, TypeOK
<1>4. \A n \in DOMAIN signIns : signIns[n] \in SignIn
  BY <1>3, ElementOfSeq DEF LInv, TypeOK
<1>5. \A n \in DOMAIN signIns : signIns[n].owner \in DOMAIN kinds
  BY DEF LInv, Owned
<1> QED BY <1>1, <1>2, <1>3, <1>4, <1>5, LoginAssumption DEF NoView

LEMMA SheetStep ==
  ASSUME LInv, didTapLoginButton \/ didCompleteWithError
  PROVE  LInv'
<1>1. /\ UNCHANGED <<authVars, userDoc, signIns, registering, rootVars, host, mishap, faults, restarts>>
      /\ sheet' \in {current, NoView}
  BY DEF didTapLoginButton, didCompleteWithError
<1>2. UNCHANGED <<signedIn, accountKnown, userDoc, signIns, registering, kinds, views, current,
                  transitions, overlapped, host, mishap, faults, restarts>>
  BY <1>1 DEF authVars, rootVars
<1>3. TypeOK'
  BY <1>1, <1>2 DEF LInv, TypeOK
<1>4. (Stacked /\ Swapping /\ OneByOne)'
  BY <1>1, RootUnchanged
<1>5. (Owned /\ Accounted /\ Registered /\ OnTheWay /\ Uncovered)'
  BY <1>2 DEF LInv, Owned, Accounted, Registered, OnTheWay, Uncovered, Newest
<1> QED BY <1>3, <1>4, <1>5 DEF LInv

LEMMA SignInSent ==
  ASSUME LInv, didCompleteWithAuthorization
  PROVE  LInv'
<1> DEFINE w == [owner |-> sheet, answer |-> "none"]
<1>1. /\ UNCHANGED <<authVars, userDoc, registering, rootVars, host, mishap, faults, restarts>>
      /\ sheet' = NoView /\ sheet # NoView /\ Room
      /\ signIns' = Append(signIns, w)
  BY DEF didCompleteWithAuthorization
<1>2. UNCHANGED <<signedIn, accountKnown, userDoc, registering, kinds, views, current,
                  transitions, overlapped, host, mishap, faults, restarts>>
  BY <1>1 DEF authVars, rootVars
<1>3. sheet \in DOMAIN kinds /\ DOMAIN kinds \subseteq 1 .. MaxViews
  <2>1. sheet \in DOMAIN kinds
    BY <1>1 DEF LInv, TypeOK
  <2>2. Len(kinds) <= MaxViews
    BY Typed DEF LInv, Owned
  <2> QED BY <2>1, <2>2, Typed
<1>4. w \in SignIn /\ w.owner \in DOMAIN kinds /\ w.answer = "none"
  BY <1>3 DEF SignIn
<1> HIDE DEF w
<1>5. /\ signIns' \in Seq(SignIn) /\ Len(signIns') = Len(signIns) + 1
      /\ \A n \in 1 .. Len(signIns) : signIns'[n] = signIns[n]
      /\ signIns'[Len(signIns) + 1] = w
  BY <1>1, <1>4, AppendProperties DEF LInv, TypeOK
<1>6. DOMAIN signIns' = 1 .. Len(signIns) + 1
  BY <1>5, LenProperties, Typed
<1>7. /\ \A n \in DOMAIN signIns' :
           \/ n \in DOMAIN signIns /\ signIns'[n] = signIns[n]
           \/ signIns'[n] = w
      /\ \A n \in DOMAIN signIns : n \in DOMAIN signIns' /\ signIns'[n] = signIns[n]
  BY <1>5, <1>6, Typed
<1>8. TypeOK'
  BY <1>1, <1>2, <1>5 DEF LInv, TypeOK
<1>9. (Stacked /\ Swapping /\ OneByOne)'
  BY <1>1, RootUnchanged
<1>10. Owned'
  <2>1. \A n \in DOMAIN signIns' : signIns'[n].owner \in DOMAIN kinds'
    BY <1>2, <1>4, <1>7 DEF LInv, Owned
  <2>2. Len(kinds) + (Len(signIns) + 1) + (IF registering = NoView THEN 0 ELSE 1) <= MaxViews
    BY <1>1, Typed DEF Room
  <2> QED BY <1>2, <1>5, <2>1, <2>2 DEF Owned
<1>11. (Accounted /\ Registered /\ OnTheWay /\ Uncovered)'
  BY <1>2, <1>4, <1>7 DEF LInv, Accounted, Registered, OnTheWay, Uncovered, Newest
<1> QED BY <1>8, <1>9, <1>10, <1>11 DEF LInv

\* The first answer of all is the one for a new user, and then there is one
\* Login only, the newest.
LEMMA SignInAnswered ==
  ASSUME LInv, NEW n \in DOMAIN signIns, signInAnswered(n)
  PROVE  LInv'
<1> DEFINE answer == IF accountKnown THEN "known" ELSE "new"
<1>1. /\ UNCHANGED <<userDoc, registering, rootVars, sheet, host, mishap, faults, restarts>>
      /\ signIns[n].answer = "none" /\ accountKnown' = TRUE /\ signedIn' = TRUE
      /\ signIns' = [signIns EXCEPT ![n] = [signIns[n] EXCEPT !.answer = answer]]
  BY DEF signInAnswered
<1>2. UNCHANGED <<userDoc, registering, kinds, views, current,
                  transitions, overlapped, sheet, host, mishap, faults, restarts>>
  BY <1>1 DEF rootVars
<1>3. signIns \in Seq(SignIn) /\ signIns[n] \in SignIn
  BY Typed DEF LInv, TypeOK
<1>4. [signIns[n] EXCEPT !.answer = answer] \in SignIn
  BY <1>3 DEF SignIn
<1>5. /\ signIns' \in Seq(SignIn) /\ Len(signIns') = Len(signIns) /\ DOMAIN signIns' = DOMAIN signIns
      /\ \A m \in DOMAIN signIns \ {n} : signIns'[m] = signIns[m]
      /\ signIns'[n].owner = signIns[n].owner /\ signIns'[n].answer = answer
  <2>1. signIns' \in Seq(SignIn) /\ Len(signIns') = Len(signIns)
    BY <1>1, <1>3, <1>4, ExceptSeq
  <2>2. /\ DOMAIN signIns' = DOMAIN signIns
        /\ \A m \in DOMAIN signIns \ {n} : signIns'[m] = signIns[m]
        /\ signIns'[n] = [signIns[n] EXCEPT !.answer = answer]
    BY <1>1
  <2> QED BY <1>3, <2>1, <2>2 DEF SignIn
<1>6. TypeOK'
  BY <1>1, <1>2, <1>5 DEF LInv, TypeOK
<1>7. (Stacked /\ Swapping /\ OneByOne)'
  BY <1>1, RootUnchanged
<1>8. \A m \in DOMAIN signIns : signIns'[m].owner = signIns[m].owner
  BY <1>5
<1>9. Owned'
  BY <1>2, <1>5, <1>8 DEF LInv, Owned
<1>10. CASE accountKnown
  <2>1. answer = "known"
    BY <1>10
  <2> HIDE DEF answer
  <2>2. Accounted' /\ Registered'
    BY <1>1, <1>2, <1>5, <1>10, <2>1 DEF LInv, Accounted, Registered
  <2>3. OnTheWay' /\ Uncovered'
    BY <1>2, <1>5, <2>1 DEF LInv, OnTheWay, Uncovered, Newest
  <2> QED BY <1>6, <1>7, <1>9, <2>2, <2>3 DEF LInv
<1>11. CASE ~ accountKnown
  <2>1. answer = "new"
    BY <1>11
  <2> HIDE DEF answer
  <2>2. /\ registering = NoView /\ Len(kinds) = 1
        /\ \A m \in DOMAIN signIns : signIns[m].answer = "none"
    BY <1>11 DEF LInv, Accounted
  <2>3. signIns'[n].owner = Newest
    BY <1>5, <2>2, Typed
  <2>4. Accounted' /\ Registered'
    BY <1>1, <1>2, <1>5, <2>1, <2>2 DEF LInv, Accounted, Registered
  <2>5. OnTheWay' /\ Uncovered'
    BY <1>2, <1>5, <2>1, <2>3 DEF LInv, OnTheWay, Uncovered, Newest
  <2> QED BY <1>6, <1>7, <1>9, <2>4, <2>5 DEF LInv
<1> QED BY <1>10, <1>11

LEMMA SignInFailed ==
  ASSUME LInv, NEW n \in DOMAIN signIns, signInFails(n)
  PROVE  LInv'
<1>1. /\ UNCHANGED <<signedIn, accountKnown, userDoc, registering, kinds, views, current,
                     transitions, overlapped, sheet, host, restarts>>
      /\ UNCHANGED rootVars
      /\ signIns' = RemoveAt(signIns, n)
      /\ mishap' = TRUE /\ faults' = faults + 1 /\ faults < MaxFaults
  BY DEF signInFails, Fault, authVars, rootVars
<1>2. TypeOK'
  BY <1>1, SignInEnded, LoginAssumption DEF LInv, TypeOK
<1>3. (Stacked /\ Swapping /\ OneByOne)'
  BY <1>1, RootUnchanged
<1>4. Owned'
  <2>1. \A m \in DOMAIN signIns' : signIns'[m].owner \in DOMAIN kinds
    BY <1>1, SignInEnded
  <2>2. Len(signIns') = Len(signIns) - 1 /\ Len(signIns) \in Nat
    BY <1>1, SignInEnded
  <2> QED BY <1>1, <2>1, <2>2, Typed DEF LInv, Owned
<1>5. Accounted'
  BY <1>1, SignInEnded DEF LInv, Accounted
<1>6. Registered' /\ OnTheWay' /\ Uncovered'
  BY <1>1 DEF LInv, Registered, OnTheWay, Uncovered, Newest
<1> QED BY <1>2, <1>3, <1>4, <1>5, <1>6 DEF LInv

\* The screens made before a swap keep their kinds.
LEMMA HomeMade ==
  ASSUME LInv, changeChild("home")
  PROVE  /\ Stacked' /\ Swapping' /\ OneByOne'
         /\ kinds'[Newest'] = "home" /\ Newest' \notin DOMAIN kinds /\ Newest' # NoView
         /\ DOMAIN kinds \subseteq DOMAIN kinds'
         /\ Len(kinds') = Len(kinds) + 1
BY ChangeChildStep, Typed DEF Newest, NoView

LEMMA SignInKnown ==
  ASSUME LInv, NEW n \in DOMAIN signIns, signInDoneKnown(n)
  PROVE  LInv'
<1>1. /\ UNCHANGED <<signedIn, accountKnown, userDoc, registering, sheet, host, mishap, faults, restarts>>
      /\ signIns' = RemoveAt(signIns, n)
      /\ signIns[n].answer = "known"
      /\ changeChild("home")
  BY DEF signInDoneKnown, authVars
<1>2. TypeOK'
  <2>1. /\ kinds' \in Seq({"login", "home"}) /\ views' \in Seq(DOMAIN kinds')
        /\ current' \in DOMAIN kinds' \cup {NoView} /\ overlapped' \in BOOLEAN
        /\ transitions' \in Seq((DOMAIN kinds' \cup {NoView}) \X DOMAIN kinds')
    BY <1>1, ChangeChildStep
  <2>2. {registering', sheet', host'} \subseteq DOMAIN kinds' \cup {NoView}
    BY <1>1, HomeMade DEF LInv, TypeOK
  <2> QED BY <1>1, <2>1, <2>2, SignInEnded DEF LInv, TypeOK
<1>3. Owned'
  <2>1. \A m \in DOMAIN signIns' : signIns'[m].owner \in DOMAIN kinds'
    BY <1>1, SignInEnded, HomeMade
  <2>2. Len(signIns') = Len(signIns) - 1 /\ Len(kinds') = Len(kinds) + 1
    BY <1>1, SignInEnded, HomeMade
  <2> QED BY <1>1, <2>1, <2>2, Typed DEF LInv, Owned
<1>4. Accounted'
  <2>1. accountKnown
    BY <1>1 DEF LInv, Accounted
  <2> QED BY <1>1, <2>1, SignInEnded DEF LInv, Accounted
<1>5. Registered'
  <2>1. \A k \in DOMAIN signIns : signIns[k].answer = "new" =>
          \E m \in DOMAIN signIns' : signIns'[m].answer = "new"
    BY <1>1, SignInEnded
  <2> QED BY <1>1, <2>1 DEF LInv, Registered
<1>6. OnTheWay' /\ Uncovered'
  BY <1>1, HomeMade DEF LInv, TypeOK, OnTheWay, Uncovered
<1> QED BY <1>1, <1>2, <1>3, <1>4, <1>5, <1>6, HomeMade DEF LInv

LEMMA SignInNew ==
  ASSUME LInv, NEW n \in DOMAIN signIns, signInDoneNew(n)
  PROVE  LInv'
<1>1. /\ UNCHANGED <<signedIn, accountKnown, kinds, views, current, transitions, overlapped,
                     sheet, mishap, faults, restarts>>
      /\ UNCHANGED rootVars
      /\ signIns' = RemoveAt(signIns, n)
      /\ signIns[n].answer = "new" /\ userDoc' = "pending"
      /\ registering' = signIns[n].owner /\ host' = signIns[n].owner
  BY DEF signInDoneNew, authVars, rootVars
<1>2. /\ registering = NoView /\ accountKnown
      /\ \A m \in DOMAIN signIns \ {n} : signIns[m].answer # "new"
  BY <1>1 DEF LInv, Accounted
<1>3. \A m \in DOMAIN signIns' : signIns'[m].answer # "new"
  BY <1>1, <1>2, SignInEnded
<1>4. TypeOK'
  BY <1>1, Typed, SignInEnded DEF LInv, TypeOK
<1>5. (Stacked /\ Swapping /\ OneByOne)'
  BY <1>1, RootUnchanged
<1>6. Owned'
  <2>1. \A m \in DOMAIN signIns' : signIns'[m].owner \in DOMAIN kinds
    BY <1>1, SignInEnded
  <2>2. Len(signIns') = Len(signIns) - 1
    BY <1>1, SignInEnded
  <2> QED BY <1>1, <1>2, <2>1, <2>2, Typed DEF LInv, Owned
<1>7. Accounted' /\ Registered'
  BY <1>1, <1>2, <1>3 DEF LInv, Accounted, Registered
<1>8. OnTheWay'
  <2>1. \A k \in DOMAIN signIns : signIns[k].answer = "known" =>
          \E m \in DOMAIN signIns' : signIns'[m].answer = "known"
    BY <1>1, SignInEnded
  <2>2. Newest' = Newest /\ Newest # NoView
    BY <1>1, Typed DEF Newest
  <2> QED BY <1>1, <1>2, <2>1, <2>2 DEF LInv, OnTheWay
<1>9. Uncovered'
  BY <1>1 DEF Uncovered
<1> QED BY <1>4, <1>5, <1>6, <1>7, <1>8, <1>9 DEF LInv

\* The newest view is in the stack, so a registering Login that is gone is not
\* the newest.
LEMMA NewestAlive ==
  ASSUME LInv
  PROVE  Alive(Newest)
BY DEF LInv, Stacked, Alive

LEMMA RegistUserInfoDoneStep ==
  ASSUME LInv, registUserInfoDone
  PROVE  LInv'
<1>1. /\ UNCHANGED <<signedIn, accountKnown, signIns, sheet, mishap, faults, restarts>>
      /\ userDoc = "pending" /\ userDoc' = "stored" /\ registering' = NoView
  BY DEF registUserInfoDone, authVars
<1>2. accountKnown
  BY <1>1 DEF LInv, Accounted
<1>3. CASE registering # NoView /\ Alive(registering)
  <2>1. host' = NoView /\ changeChild("home")
    BY <1>3 DEF registUserInfoDone
  <2>2. TypeOK'
    <3>1. /\ kinds' \in Seq({"login", "home"}) /\ views' \in Seq(DOMAIN kinds')
          /\ current' \in DOMAIN kinds' \cup {NoView} /\ overlapped' \in BOOLEAN
          /\ transitions' \in Seq((DOMAIN kinds' \cup {NoView}) \X DOMAIN kinds')
      BY <2>1, ChangeChildStep
    <3>2. {registering', sheet', host'} \subseteq DOMAIN kinds' \cup {NoView}
      BY <1>1, <2>1, HomeMade DEF LInv, TypeOK
    <3> QED BY <1>1, <3>1, <3>2 DEF LInv, TypeOK
  <2>3. Owned'
    <3>1. Len(kinds') = Len(kinds) + 1 /\ DOMAIN kinds \subseteq DOMAIN kinds'
      BY <2>1, HomeMade
    <3> QED BY <1>1, <1>3, <3>1, Typed DEF LInv, Owned
  <2>4. Accounted' /\ Registered'
    BY <1>1, <1>2 DEF LInv, Accounted, Registered
  <2>5. OnTheWay' /\ Uncovered'
    BY <2>1, HomeMade DEF OnTheWay, Uncovered
  <2> QED BY <2>1, <2>2, <2>3, <2>4, <2>5, HomeMade DEF LInv
<1>4. CASE ~ (registering # NoView /\ Alive(registering))
  <2>1. UNCHANGED <<kinds, views, current, transitions, overlapped, host>> /\ UNCHANGED rootVars
    BY <1>4 DEF registUserInfoDone, rootVars
  <2>2. registering # Newest /\ Newest' = Newest
    BY <1>4, <2>1, NewestAlive, Typed DEF Newest
  <2>3. TypeOK'
    BY <1>1, <2>1 DEF LInv, TypeOK
  <2>4. (Stacked /\ Swapping /\ OneByOne)'
    BY <2>1, RootUnchanged
  <2>5. Owned'
    BY <1>1, <2>1, Typed DEF LInv, Owned
  <2>6. Accounted' /\ Registered'
    BY <1>1, <1>2 DEF LInv, Accounted, Registered
  <2>7. OnTheWay' /\ Uncovered'
    BY <1>1, <2>1, <2>2 DEF LInv, OnTheWay, Uncovered
  <2> QED BY <2>3, <2>4, <2>5, <2>6, <2>7 DEF LInv
<1> QED BY <1>3, <1>4

LEMMA RegistUserInfoFailsStep ==
  ASSUME LInv, registUserInfoFails
  PROVE  LInv'
<1>1. /\ UNCHANGED <<signedIn, accountKnown, signIns, kinds, views, current, transitions,
                     overlapped, sheet, restarts>>
      /\ UNCHANGED rootVars
      /\ userDoc = "pending" /\ userDoc' = "none" /\ registering' = NoView
      /\ mishap' = TRUE /\ faults' = faults + 1 /\ faults < MaxFaults
      /\ host' = IF registering # NoView /\ Alive(registering) THEN NoView ELSE host
  BY DEF registUserInfoFails, Fault, authVars, rootVars
<1>2. TypeOK'
  BY <1>1, LoginAssumption DEF LInv, TypeOK
<1>3. (Stacked /\ Swapping /\ OneByOne)'
  BY <1>1, RootUnchanged
<1>4. Owned'
  BY <1>1, Typed DEF LInv, Owned
<1>5. Accounted' /\ Registered' /\ OnTheWay'
  BY <1>1 DEF LInv, Accounted, Registered, OnTheWay
<1>6. Uncovered'
  <2>1. Newest' = Newest /\ Newest # NoView
    BY <1>1, Typed DEF Newest
  <2> QED BY <1>1, <2>1, NewestAlive DEF LInv, Uncovered
<1> QED BY <1>2, <1>3, <1>4, <1>5, <1>6 DEF LInv

LEMMA LogoutStep ==
  ASSUME LInv, logout
  PROVE  LInv'
<1>1. /\ UNCHANGED <<accountKnown, userDoc, signIns, registering, sheet, host, faults, restarts>>
      /\ Touchable("home") /\ Room /\ changeChild("login")
      /\ signedIn' \in BOOLEAN /\ mishap' = (mishap \/ signedIn')
  BY DEF logout
<1>2. /\ kinds' \in Seq({"login", "home"}) /\ views' \in Seq(DOMAIN kinds')
      /\ current' \in DOMAIN kinds' \cup {NoView} /\ overlapped' \in BOOLEAN
      /\ transitions' \in Seq((DOMAIN kinds' \cup {NoView}) \X DOMAIN kinds')
      /\ Stacked' /\ Swapping' /\ OneByOne'
      /\ Len(kinds') = Len(kinds) + 1
      /\ DOMAIN kinds \subseteq DOMAIN kinds' /\ Newest' \notin DOMAIN kinds /\ Newest' # NoView
  BY <1>1, ChangeChildStep, Typed DEF Newest, NoView
<1>3. accountKnown
  <2>1. current = Newest /\ kinds[current] = "home"
    BY <1>1 DEF Touchable, LInv, Swapping
  <2> QED BY <2>1, Typed DEF LInv, Accounted
<1>4. TypeOK'
  <2>1. {registering', sheet', host'} \subseteq DOMAIN kinds' \cup {NoView}
    BY <1>1, <1>2 DEF LInv, TypeOK
  <2>2. mishap' \in BOOLEAN
    BY <1>1 DEF LInv, TypeOK
  <2> QED BY <1>1, <1>2, <2>1, <2>2 DEF LInv, TypeOK
<1>5. Owned'
  BY <1>1, <1>2, Typed DEF LInv, Owned, Room
<1>6. Accounted' /\ Registered'
  BY <1>1, <1>3 DEF LInv, Accounted, Registered
<1>7. OnTheWay'
  BY <1>1 DEF OnTheWay
<1>8. Uncovered'
  BY <1>1, <1>2 DEF LInv, TypeOK, Uncovered
<1> QED BY <1>2, <1>4, <1>5, <1>6, <1>7, <1>8 DEF LInv

LEMMA RestartStep ==
  ASSUME LInv, Restart
  PROVE  LInv'
<1> DEFINE k == LaunchScreen
<1>1. /\ UNCHANGED <<signedIn, accountKnown, userDoc, overlapped, faults>>
      /\ restarts' = restarts + 1 /\ restarts < MaxRestarts
      /\ signIns' = <<>> /\ registering' = NoView /\ kinds' = <<k>> /\ views' = <<1>>
      /\ current' = NoView /\ transitions' = <<<<NoView, 1>>>>
      /\ sheet' = NoView /\ host' = NoView /\ mishap' = TRUE
  BY DEF Restart, authVars
<1>2. k \in {"login", "home"} /\ (k = "home" => accountKnown)
  BY DEF LInv, Accounted, LaunchScreen
<1> HIDE DEF k
<1>3. Len(kinds') = 1 /\ DOMAIN kinds' = {1} /\ kinds'[1] = k /\ kinds' \in Seq({"login", "home"})
  BY <1>1, <1>2
<1>4. /\ views' \in Seq({1}) /\ DOMAIN views' = {1} /\ views'[1] = 1
      /\ transitions' \in Seq({1, NoView} \X {1}) /\ DOMAIN transitions' = {1} /\ Len(transitions') = 1
      /\ transitions'[1][1] = NoView /\ transitions'[1][2] = 1 /\ transitions' # <<>>
      /\ signIns' \in Seq(SignIn) /\ DOMAIN signIns' = {} /\ Len(signIns') = 0
  BY <1>1
<1>5. TypeOK'
  <2>1. restarts' \in 0 .. MaxRestarts
    BY <1>1, LoginAssumption DEF LInv, TypeOK
  <2>2. /\ views' \in Seq(DOMAIN kinds')
        /\ transitions' \in Seq((DOMAIN kinds' \cup {NoView}) \X DOMAIN kinds')
    <3>1. DOMAIN kinds' \cup {NoView} = {1, NoView}
      BY <1>3
    <3> QED BY <1>3, <1>4, <3>1
  <2> QED BY <1>1, <1>3, <1>4, <2>1, <2>2 DEF LInv, TypeOK
<1>6. (Stacked /\ Swapping /\ OneByOne)'
  BY <1>1, <1>3, <1>4 DEF Stacked, Swapping, OneByOne, Newest, NoView
<1>7. (Owned /\ Registered /\ OnTheWay /\ Uncovered)'
  BY <1>1, <1>3, <1>4, LoginAssumption DEF Owned, Registered, OnTheWay, Uncovered, Newest, NoView
<1>8. Accounted'
  BY <1>1, <1>2, <1>3, <1>4 DEF LInv, Accounted
<1> QED BY <1>5, <1>6, <1>7, <1>8 DEF LInv

LEMMA NextLInv == LInv /\ [Next]_vars => LInv'
<1> SUFFICES ASSUME LInv, [Next]_vars
             PROVE  LInv'
  OBVIOUS
<1>1. CASE UserActs
  BY <1>1, SheetStep, SignInSent, LogoutStep DEF UserActs
<1>2. CASE Answers
  BY <1>2, SignInAnswered, SignInFailed, SignInKnown, SignInNew, RegistUserInfoDoneStep,
     RegistUserInfoFailsStep DEF Answers
<1>3. CASE changeChildDone
  <2>1. UNCHANGED <<signedIn, accountKnown, userDoc, signIns, registering, kinds, overlapped,
                    sheet, host, mishap, faults, restarts>>
    BY <1>3 DEF changeChildDone, authVars
  <2>2. TypeOK' /\ (Stacked /\ Swapping /\ OneByOne)'
    BY <1>3, <2>1, ChangeChildDoneStep DEF LInv, TypeOK
  <2>3. (Owned /\ Accounted /\ Registered /\ OnTheWay /\ Uncovered)'
    BY <2>1 DEF LInv, Owned, Accounted, Registered, OnTheWay, Uncovered, Newest
  <2> QED BY <2>2, <2>3 DEF LInv
<1>4. CASE Restart
  BY <1>4, RestartStep
<1>5. CASE UNCHANGED vars
  BY <1>5 DEF vars, authVars, rootVars, LInv, TypeOK, Stacked, Swapping, OneByOne, Owned,
     Accounted, Registered, OnTheWay, Uncovered, Newest
<1> QED BY <1>1, <1>2, <1>3, <1>4, <1>5 DEF Next

\* The invariant holds through every interleaving of sign-ins, swaps,
\* failures and kills.
THEOREM LInvHolds == Spec => []LInv
BY InitLInv, NextLInv, PTL DEF Spec

-----------------------------------------------------------------------------
(* What follows from it.                                                   *)

\* The types of Login's state, the bounds on its counters included.
THEOREM TypeOKHolds == Spec => []TypeOK
<1>1. LInv => TypeOK
  BY DEF LInv
<1> QED BY <1>1, LInvHolds, PTL

\* Strictly increasing numbers that end at the newest.
LEMMA TopIsNewest ==
  ASSUME LInv
  PROVE  /\ Len(views) \in Nat \ {0} /\ DOMAIN views = 1 .. Len(views)
         /\ views[Len(views)] = Newest
<1>1. /\ Len(views) \in Nat /\ DOMAIN views = 1 .. Len(views)
      /\ \A n \in DOMAIN views : views[n] \in DOMAIN kinds
  BY LenProperties, ElementOfSeq DEF LInv, TypeOK
<1>2. PICK n \in DOMAIN views : views[n] = Newest
  BY DEF LInv, Stacked
<1>3. Len(views) \in DOMAIN views /\ Len(views) # 0
  BY <1>1, <1>2
<1>4. views[Len(views)] <= Newest
  BY <1>1, <1>3, Typed
<1>5. n = Len(views)
  <2>1. n < Len(views) => views[n] < views[Len(views)]
    BY <1>2, <1>3 DEF LInv, Stacked
  <2>2. views[Len(views)] \in Int /\ Newest \in Int
    BY <1>1, <1>3, Typed
  <2> QED BY <1>1, <1>2, <1>4, <2>1, <2>2
<1> QED BY <1>1, <1>2, <1>3, <1>5

\* At rest the topmost view is the current one, however many swaps of screens
\* overlapped (TopIsCurrent).
THEOREM TopIsCurrentHolds == Spec => []TopIsCurrent
<1>1. LInv => TopIsCurrent
  BY TopIsNewest DEF LInv, Swapping, TopIsCurrent, AtRest, Last
<1> QED BY <1>1, LInvHolds, PTL

\* At rest nothing is below the current view unless swaps overlapped
\* (NothingLeftBehind).
THEOREM NothingLeftBehindHolds == Spec => []NothingLeftBehind
<1>1. LInv => NothingLeftBehind
  <2> SUFFICES ASSUME LInv, AtRest, ~ overlapped
               PROVE  views = <<current>>
    BY DEF NothingLeftBehind
  <2>1. current = Newest /\ \A n \in DOMAIN views : views[n] = current
    BY DEF LInv, Swapping, OneByOne, AtRest
  <2>2. current \in Int
    BY <2>1, Typed
  <2>3. \A m, n \in DOMAIN views : ~ (m < n)
    BY <2>1, <2>2 DEF LInv, Stacked
  <2>4. Len(views) = 1
    <3>1. Len(views) \in Nat \ {0} /\ DOMAIN views = 1 .. Len(views)
      BY TopIsNewest
    <3>2. 1 \in DOMAIN views /\ Len(views) \in DOMAIN views
      BY <3>1
    <3>3. ~ (1 < Len(views))
      BY <2>3, <3>2
    <3> QED BY <3>1, <3>3
  <2>5. views \in Seq(DOMAIN kinds) /\ views[1] = current
    BY <2>1, <2>4, TopIsNewest DEF LInv, TypeOK
  <2> QED BY <2>4, <2>5
<1> QED BY <1>1, LInvHolds, PTL

\* Until something fails, a user who sees Home is registered or about to be
\* (HomeMeansRegistered).
THEOREM HomeMeansRegisteredHolds == Spec => []HomeMeansRegistered
<1>1. LInv => HomeMeansRegistered
  <2> SUFFICES ASSUME LInv, Shows("home"), ~ mishap
               PROVE  userDoc # "none" \/ \E n \in DOMAIN signIns : signIns[n].answer = "new"
    BY DEF HomeMeansRegistered
  <2>1. current = Newest /\ kinds[current] = "home"
    BY DEF Shows, AtRest, LInv, Swapping
  <2>2. accountKnown
    BY <2>1, Typed DEF LInv, Accounted
  <2> QED BY <2>2 DEF LInv, Registered
<1> QED BY <1>1, LInvHolds, PTL

\* A signed-in user stays at Login with nothing under way only after something
\* failed (StrandedOnlyByMishap).
THEOREM StrandedOnlyByMishapHolds == Spec => []StrandedOnlyByMishap
<1>1. LInv => StrandedOnlyByMishap
  <2> SUFFICES ASSUME LInv, Shows("login"), signedIn, signIns = <<>>, registering = NoView
               PROVE  mishap
    BY DEF StrandedOnlyByMishap
  <2>1. kinds[Newest] = "login"
    BY DEF Shows, AtRest, LInv, Swapping
  <2>2. DOMAIN signIns = {} /\ registering # Newest
    BY Typed
  <2> QED BY <2>1, <2>2 DEF LInv, OnTheWay
<1> QED BY <1>1, LInvHolds, PTL

\* The overlay blocks a Login only while its registration is under way
\* (OverlayWhileRegistering).
THEOREM OverlayWhileRegisteringHolds == Spec => []OverlayWhileRegistering
<1>1. LInv => OverlayWhileRegistering
  BY DEF LInv, Swapping, Uncovered, OverlayWhileRegistering, AtRest
<1> QED BY <1>1, LInvHolds, PTL
=============================================================================
