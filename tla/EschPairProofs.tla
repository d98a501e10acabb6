--------------------------- MODULE EschPairProofs ---------------------------
(***************************************************************************)
(* Proofs about EschPair: the types, that the cached flag can be trusted,  *)
(* that esch_pair_is_list answers right and never returns from a circle,   *)
(* and that the iterator yields the list, for any number of pairs and any  *)
(* values.                                                                 *)
(***************************************************************************)
EXTENDS EschPair, WellOrdering

\* No pair that exists has a tail that was freed.
TailsExist == \A p \in alive : tail[p] \in Pairs => tail[p] \in alive

\* esch_pair_is_list has a pair in hand exactly while it runs.
EachExists == IF pc = "is_list" THEN each \in alive ELSE each = None

PairInv == TypeOK /\ TailsAreTrusted /\ TailsExist /\ EachExists

\* The constants the steps need of PairAssumption.
LEMMA Kinds ==
  /\ None \notin Pairs /\ End \notin Pairs
  /\ \A v \in Chars \cup Prims : v \notin Pairs
BY PairAssumption

\* Nothing exists at first.
LEMMA PairInit == Init => PairInv
<1> SUFFICES ASSUME Init PROVE PairInv
  OBVIOUS
<1> USE DEF Init, NoIter, HEAD_ID
<1>1. TypeOK
  <2>1. alive \subseteq Pairs /\ seen \in Seq(Values)
    OBVIOUS
  <2>2. End \in Values
    BY DEF Values
  <2>3. head \in [Pairs -> Values] /\ tail \in [Pairs -> Values]
    BY <2>2
  <2>4. next_is_pair \in [Pairs -> {0, 1}]
    OBVIOUS
  <2>5. iter \in [container : Pairs \cup {None}, idx : {0, 1, 2}]
    OBVIOUS
  <2>6. QED
    BY <2>1, <2>3, <2>4, <2>5 DEF TypeOK
<1>2. TailsAreTrusted
  BY DEF TailsAreTrusted
<1>3. TailsExist /\ EachExists
  BY DEF TailsExist, EachExists
<1>4. QED
  BY <1>1, <1>2, <1>3 DEF PairInv

\* The flag of a value says whether it is a pair.
LEMMA FlagRight ==
  ASSUME NEW v
  PROVE  Flag(v) \in {0, 1} /\ (Flag(v) = 1 <=> v \in Pairs)
BY DEF Flag

\* A new pair: the flag is computed from its tail, which exists.
LEMMA NewStep ==
  ASSUME PairInv, NEW p \in Pairs, NEW h \in Values, NEW t \in Values,
         New(p, h, t)
  PROVE  PairInv'
<1> USE DEF New, walk, loop, PairInv
<1>1. Flag(t) \in {0, 1} /\ (Flag(t) = 1 <=> t \in Pairs)
  BY FlagRight
<1>2. TypeOK'
  BY <1>1 DEF TypeOK
<1>3. t \in Pairs => t \in alive
  BY Kinds DEF Storable
<1>4. TailsAreTrusted'
  BY <1>1 DEF TailsAreTrusted, TypeOK
<1>5. TailsExist'
  BY <1>3 DEF TailsExist, TypeOK
<1>6. EachExists'
  BY DEF EachExists
<1>7. QED
  BY <1>2, <1>4, <1>5, <1>6

\* The head has no flag.
LEMMA SetHeadStep ==
  ASSUME PairInv, NEW p \in alive, NEW v \in Values, SetHead(p, v)
  PROVE  PairInv'
<1> USE DEF SetHead, Disturb, loop, PairInv
<1>1. TypeOK'
  BY DEF TypeOK
<1>2. TailsAreTrusted'
  BY DEF TailsAreTrusted
<1>3. TailsExist' /\ EachExists'
  BY DEF TailsExist, EachExists
<1>4. QED
  BY <1>1, <1>2, <1>3

\* The flag is computed again from the new tail, which exists.
LEMMA SetTailStep ==
  ASSUME PairInv, NEW p \in alive, NEW v \in Values, SetTail(p, v)
  PROVE  PairInv'
<1> USE DEF SetTail, NewFlag, Disturb, loop, PairInv
<1>1. Flag(v) \in {0, 1} /\ (Flag(v) = 1 <=> v \in Pairs)
  BY FlagRight
<1>2. TypeOK'
  BY <1>1 DEF TypeOK
<1>3. v \in Pairs => v \in alive
  BY Kinds DEF Settable
<1>4. TailsAreTrusted'
  BY <1>1 DEF TailsAreTrusted, TypeOK
<1>5. TailsExist'
  BY <1>3 DEF TailsExist, TypeOK
<1>6. EachExists'
  BY DEF EachExists
<1>7. QED
  BY <1>2, <1>4, <1>5, <1>6

\* Nobody who stays refers to the pair that goes.
LEMMA DeleteStep ==
  ASSUME PairInv, NEW p \in alive, Delete(p)
  PROVE  PairInv'
<1> USE DEF Delete, loop, PairInv
<1>1. TypeOK'
  BY DEF TypeOK, Values
<1>2. TailsAreTrusted'
  BY DEF TailsAreTrusted, TypeOK, EachExists
<1>3. TailsExist'
  BY DEF TailsExist, TypeOK, Holders
<1>4. EachExists'
  BY DEF EachExists
<1>5. QED
  BY <1>1, <1>2, <1>3, <1>4

\* The iterator starts at a pair that exists.
LEMMA GetIteratorStep ==
  ASSUME PairInv, NEW p \in alive, GetIterator(p)
  PROVE  PairInv'
<1> USE DEF GetIterator, heap, loop, HEAD_ID, PairInv
<1>1. TypeOK'
  BY DEF TypeOK
<1>2. TailsAreTrusted'
  BY DEF TailsAreTrusted
<1>3. TailsExist' /\ EachExists'
  BY DEF TailsExist, EachExists
<1>4. QED
  BY <1>1, <1>2, <1>3

\* Where the flag sends the iterator there is a pair, and it exists.
LEMMA NextPositionExists ==
  ASSUME PairInv, iter.container # None
  PROVE  /\ NextPosition \in [container : Pairs \cup {None}, idx : {0, 1, 2}]
         /\ NextPosition.container \in alive \cup {None}
<1> USE DEF HEAD_ID, TAIL_ID, EMPTY_ID, PairInv
<1>1. /\ iter \in [container : Pairs \cup {None}, idx : {0, 1, 2}]
      /\ iter.container \in alive /\ alive \subseteq Pairs
      /\ next_is_pair[iter.container] \in {0, 1}
  BY DEF TypeOK, TailsAreTrusted
<1>2. CASE iter.idx # HEAD_ID
  BY <1>1, <1>2 DEF NextPosition
<1>3. CASE iter.idx = HEAD_ID /\ next_is_pair[iter.container] = 0
  BY <1>1, <1>3 DEF NextPosition
<1>4. CASE iter.idx = HEAD_ID /\ next_is_pair[iter.container] = 1
  <2>1. tail[iter.container] \in alive
    BY <1>1, <1>4 DEF TailsAreTrusted, TailsExist
  <2>2. NextPosition = [container |-> tail[iter.container], idx |-> HEAD_ID]
    BY <1>4 DEF NextPosition
  <2>3. QED
    BY <1>1, <2>1, <2>2
<1>5. QED
  BY <1>1, <1>2, <1>3, <1>4

\* What the iterator gives is a value.
LEMMA GetValueType ==
  ASSUME TypeOK, iter.container # None
  PROVE  GetValue \in Values
<1>1. iter.container \in Pairs /\ iter.idx \in {0, 1, 2}
  BY DEF TypeOK
<1>2. head[iter.container] \in Values /\ tail[iter.container] \in Values
  BY <1>1 DEF TypeOK
<1>3. End \in Values
  BY DEF Values
<1>4. QED
  BY <1>1, <1>2, <1>3 DEF GetValue, HEAD_ID, TAIL_ID, EMPTY_ID

LEMMA GetNextStep ==
  ASSUME PairInv, GetNext
  PROVE  PairInv'
<1> USE DEF GetNext, heap, loop, PairInv
<1>1. /\ iter' \in [container : Pairs \cup {None}, idx : {0, 1, 2}]
      /\ iter'.container \in alive \cup {None}
  BY NextPositionExists
<1>2. seen' \in Seq(Values)
  BY GetValueType DEF TypeOK
<1>3. TypeOK'
  BY <1>1, <1>2 DEF TypeOK
<1>4. TailsAreTrusted'
  BY <1>1 DEF TailsAreTrusted
<1>5. TailsExist' /\ EachExists'
  BY DEF TailsExist, EachExists
<1>6. QED
  BY <1>3, <1>4, <1>5

LEMMA DropIteratorStep ==
  ASSUME PairInv, DropIterator
  PROVE  PairInv'
<1> USE DEF DropIterator, heap, loop, NoIter, HEAD_ID, PairInv
<1>1. TypeOK'
  BY DEF TypeOK
<1>2. TailsAreTrusted'
  BY DEF TailsAreTrusted
<1>3. TailsExist' /\ EachExists'
  BY DEF TailsExist, EachExists
<1>4. QED
  BY <1>1, <1>2, <1>3

\* The loop of esch_pair_is_list goes from pair to pair.
LEMMA IsListSteps ==
  ASSUME PairInv,
         \/ \E p \in alive : CallIsList(p)
         \/ IsListLoop
  PROVE  PairInv'
<1> USE DEF heap, walk, PairInv
<1>1. CASE \E p \in alive : CallIsList(p)
  <2> PICK p \in alive : CallIsList(p)
    BY <1>1
  <2> USE DEF CallIsList
  <2>1. TypeOK'
    BY DEF TypeOK
  <2>2. TailsAreTrusted' /\ TailsExist' /\ EachExists'
    BY DEF TailsAreTrusted, TailsExist, EachExists
  <2>3. QED
    BY <2>1, <2>2
<1>2. CASE IsListStep
  <2> USE <1>2 DEF IsListStep, NextEach
  <2>1. each \in alive
    BY DEF EachExists
  <2>2. tail[each] \in alive
    BY <2>1 DEF TailsAreTrusted, TailsExist
  <2>3. TypeOK'
    BY <2>2 DEF TypeOK
  <2>4. TailsAreTrusted' /\ TailsExist' /\ EachExists'
    BY <2>2 DEF TailsAreTrusted, TailsExist, EachExists
  <2>5. QED
    BY <2>3, <2>4
<1>3. CASE IsListReturn
  <2> USE <1>3 DEF IsListReturn, EndsEmpty
  <2>1. TypeOK'
    BY DEF TypeOK
  <2>2. TailsAreTrusted' /\ TailsExist' /\ EachExists'
    BY DEF TailsAreTrusted, TailsExist, EachExists
  <2>3. QED
    BY <2>1, <2>2
<1>4. QED
  BY <1>1, <1>2, <1>3 DEF IsListLoop

\* A call that reads the object at address NULL leaves the pairs as they are.
LEMMA LooksAtNullStep ==
  ASSUME PairInv, LooksAtNull
  PROVE  PairInv'
BY DEF LooksAtNull, heap, walk, PairInv, TypeOK, TailsAreTrusted, TailsExist,
   EachExists

\* What a step is: one that changes pairs, a loop, or undefined behaviour.
LEMMA NextCases ==
  ASSUME Next
  PROVE  \/ \E p \in Pairs, h, t \in Values : New(p, h, t)
         \/ \E p \in alive, v \in Values : SetHead(p, v) \/ SetTail(p, v)
         \/ \E p \in alive : Delete(p) \/ GetIterator(p) \/ CallIsList(p)
         \/ GetNext \/ DropIterator
         \/ IsListLoop
         \/ LooksAtNull
         \/ UNCHANGED vars
BY DEF Next, NewNullTail, SetNullTail, Crashed

\* Every step keeps the invariant.
LEMMA PairStep == PairInv /\ [Next]_vars => PairInv'
<1> SUFFICES ASSUME PairInv, [Next]_vars PROVE PairInv'
  OBVIOUS
<1>1. CASE UNCHANGED vars
  BY <1>1 DEF vars, heap, walk, loop, PairInv, TypeOK, TailsAreTrusted,
     TailsExist, EachExists
<1>2. CASE \E p \in Pairs, h, t \in Values : New(p, h, t)
  BY <1>2, NewStep
<1>3. CASE \E p \in alive, v \in Values : SetHead(p, v) \/ SetTail(p, v)
  BY <1>3, SetHeadStep, SetTailStep
<1>4. CASE \E p \in alive : Delete(p) \/ GetIterator(p) \/ CallIsList(p)
  BY <1>4, DeleteStep, GetIteratorStep, IsListSteps
<1>5. CASE GetNext \/ DropIterator
  BY <1>5, GetNextStep, DropIteratorStep
<1>6. CASE IsListLoop
  BY <1>6, IsListSteps
<1>7. CASE LooksAtNull
  BY <1>7, LooksAtNullStep
<1>8. QED
  BY <1>1, <1>2, <1>3, <1>4, <1>5, <1>6, <1>7, NextCases

\* The invariant holds for any pairs and values, whatever the program does.
THEOREM PairInvariant == Spec => []PairInv
<1>1. Init => PairInv
  BY PairInit
<1>2. PairInv /\ [Next]_vars => PairInv'
  BY PairStep
<1>3. QED
  BY <1>1, <1>2, PTL DEF Spec

\* Every variable of the pairs keeps its type.
THEOREM PairTypes == Spec => []TypeOK
<1>1. PairInv => TypeOK
  BY DEF PairInv
<1>2. QED
  BY <1>1, PairInvariant, PTL

\* next_is_pair never lies, and neither the iterator nor esch_pair_is_list
\* ever stands on a pair that was freed.
THEOREM TailsTrusted == Spec => []TailsAreTrusted
<1>1. PairInv => TailsAreTrusted
  BY DEF PairInv
<1>2. QED
  BY <1>1, PairInvariant, PTL

-----------------------------------------------------------------------------
(***************************************************************************)
(* Lists.  Nth is defined by recursion; it is taken apart here for any     *)
(* function t in the place of tail, so that what is found holds before a   *)
(* step and after it.                                                      *)
(***************************************************************************)
Follow(t, p) == IF p \in Pairs /\ t[p] \in Pairs THEN t[p] ELSE None

NthOf(t, p, k) ==
  LET nth[i \in 0 .. k] == IF i = 0 THEN p ELSE Follow(t, nth[i - 1])
  IN nth[k]

\* What the function nth of a list satisfies.
IsNth(t, p, k, g) ==
  g = [i \in 0 .. k |-> IF i = 0 THEN p ELSE Follow(t, g[i - 1])]

\* Nth follows the tails.
LEMMA NthIsNthOf == \A p, k : Nth(p, k) = NthOf(tail, p, k)
BY DEF Nth, NthOf, Following, Follow

\* There is such a function, of any length.
LEMMA NthExists ==
  ASSUME NEW t, NEW p, NEW k \in Nat
  PROVE  \E g : IsNth(t, p, k, g)
<1> DEFINE S == {n \in Nat : \E g : IsNth(t, p, n, g)}
<1>1. 0 \in S
  <2>1. IsNth(t, p, 0, [i \in 0 .. 0 |-> p])
    BY DEF IsNth
  <2>2. QED
    BY <2>1
<1>2. ASSUME NEW n \in Nat, n \in S PROVE n + 1 \in S
  <2>1. PICK g : IsNth(t, p, n, g)
    BY <1>2
  <2> DEFINE h == [i \in 0 .. n + 1 |->
                     IF i = n + 1 THEN Follow(t, g[n]) ELSE g[i]]
  <2>2. \A i \in 0 .. n : g[i] = IF i = 0 THEN p ELSE Follow(t, g[i - 1])
    BY <2>1 DEF IsNth
  <2>3. \A i \in 0 .. n + 1 :
          h[i] = IF i = 0 THEN p ELSE Follow(t, h[i - 1])
    <3> TAKE i \in 0 .. n + 1
    <3>1. CASE i = 0
      BY <3>1, <2>2
    <3>2. CASE i \in 1 .. n
      BY <3>2, <2>2
    <3>3. CASE i = n + 1
      BY <3>3
    <3>4. QED
      BY <3>1, <3>2, <3>3
  <2>4. h = [i \in 0 .. n + 1 |-> h[i]]
    OBVIOUS
  <2> HIDE DEF h
  <2>5. h = [i \in 0 .. n + 1 |-> IF i = 0 THEN p ELSE Follow(t, h[i - 1])]
    BY <2>3, <2>4, Zenon
  <2>6. IsNth(t, p, n + 1, h)
    BY <2>5 DEF IsNth
  <2>7. QED
    BY <2>6
<1> HIDE DEF S
<1>3. Nat \subseteq S
  BY <1>1, <1>2, SetInduction
<1>4. QED
  BY <1>3 DEF S

\* And two of them agree where both are.
LEMMA NthSame ==
  ASSUME NEW t, NEW p, NEW k \in Nat, NEW m \in Nat, NEW g, NEW h,
         IsNth(t, p, k, g), IsNth(t, p, m, h)
  PROVE  \A i \in 0 .. k : i <= m => g[i] = h[i]
<1> DEFINE S == {i \in Nat : i <= k /\ i <= m => g[i] = h[i]}
<1>1. /\ \A i \in 0 .. k : g[i] = IF i = 0 THEN p ELSE Follow(t, g[i - 1])
      /\ \A i \in 0 .. m : h[i] = IF i = 0 THEN p ELSE Follow(t, h[i - 1])
  BY DEF IsNth
<1>2. 0 \in S
  BY <1>1
<1>3. ASSUME NEW n \in Nat, n \in S PROVE n + 1 \in S
  BY <1>1, <1>3
<1> HIDE DEF S
<1>4. Nat \subseteq S
  BY <1>2, <1>3, SetInduction
<1>5. QED
  BY <1>4 DEF S

LEMMA NthChosen ==
  ASSUME NEW t, NEW p, NEW k \in Nat
  PROVE  \E g : IsNth(t, p, k, g) /\ NthOf(t, p, k) = g[k]
<1> DEFINE g == CHOOSE g : IsNth(t, p, k, g)
<1>1. IsNth(t, p, k, g)
  BY NthExists
<1>2. NthOf(t, p, k) = g[k]
  BY DEF NthOf, IsNth
<1>3. QED
  BY <1>1, <1>2

\* The recursion equations of Nth.
LEMMA NthSteps ==
  ASSUME NEW t, NEW p
  PROVE  /\ NthOf(t, p, 0) = p
         /\ \A k \in Nat : NthOf(t, p, k + 1) = Follow(t, NthOf(t, p, k))
<1>1. NthOf(t, p, 0) = p
  <2>1. PICK g : IsNth(t, p, 0, g) /\ NthOf(t, p, 0) = g[0]
    BY NthChosen
  <2>2. QED
    BY <2>1 DEF IsNth
<1>2. ASSUME NEW k \in Nat
      PROVE  NthOf(t, p, k + 1) = Follow(t, NthOf(t, p, k))
  <2>1. PICK g : IsNth(t, p, k, g) /\ NthOf(t, p, k) = g[k]
    BY NthChosen
  <2>2. k + 1 \in Nat
    OBVIOUS
  <2>3. PICK h : IsNth(t, p, k + 1, h) /\ NthOf(t, p, k + 1) = h[k + 1]
    BY <2>2, NthChosen
  <2>4. g[k] = h[k]
    BY <2>1, <2>2, <2>3, NthSame
  <2>5. h[k + 1] = Follow(t, h[k])
    BY <2>3 DEF IsNth
  <2>6. QED
    BY <2>1, <2>3, <2>4, <2>5
<1>3. QED
  BY <1>1, <1>2

\* Behind the end of a list there is nothing.
LEMMA NoneStays ==
  ASSUME NEW t, NEW p, NEW k \in Nat, NthOf(t, p, k) = None
  PROVE  \A m \in Nat : k <= m => NthOf(t, p, m) = None
<1> DEFINE S == {d \in Nat : NthOf(t, p, k + d) = None}
<1>1. 0 \in S
  OBVIOUS
<1>2. ASSUME NEW d \in Nat, d \in S PROVE d + 1 \in S
  <2>1. NthOf(t, p, (k + d) + 1) = Follow(t, NthOf(t, p, k + d))
    BY NthSteps
  <2>2. k + (d + 1) = (k + d) + 1
    OBVIOUS
  <2>3. NthOf(t, p, k + (d + 1)) = Follow(t, None)
    BY <1>2, <2>1, <2>2
  <2>4. QED
    BY <2>3, Kinds DEF Follow
<1> HIDE DEF S
<1>3. Nat \subseteq S
  BY <1>1, <1>2, SetInduction
<1>4. ASSUME NEW m \in Nat, k <= m PROVE NthOf(t, p, m) = None
  <2>1. m - k \in Nat /\ k + (m - k) = m
    BY <1>4
  <2>2. m - k \in S
    BY <1>3, <2>1
  <2>3. QED
    BY <2>1, <2>2 DEF S
<1>5. QED
  BY <1>4

LEMMA NthInPairs ==
  ASSUME NEW t, NEW p \in Pairs
  PROVE  \A k \in Nat : NthOf(t, p, k) \in Pairs \cup {None}
<1> DEFINE S == {k \in Nat : NthOf(t, p, k) \in Pairs \cup {None}}
<1>1. 0 \in S
  BY NthSteps
<1>2. ASSUME NEW k \in Nat, k \in S PROVE k + 1 \in S
  BY NthSteps DEF Follow
<1> HIDE DEF S
<1>3. Nat \subseteq S
  BY <1>1, <1>2, SetInduction
<1>4. QED
  BY <1>3 DEF S

\* The rest of a list is a list.
LEMMA NthShift ==
  ASSUME NEW t, NEW p, NEW i \in Nat, NEW k \in Nat
  PROVE  NthOf(t, NthOf(t, p, i), k) = NthOf(t, p, i + k)
<1> DEFINE q == NthOf(t, p, i)
           S == {n \in Nat : NthOf(t, q, n) = NthOf(t, p, i + n)}
<1>1. 0 \in S
  BY NthSteps
<1>2. ASSUME NEW n \in Nat, n \in S PROVE n + 1 \in S
  <2>1. /\ NthOf(t, q, n + 1) = Follow(t, NthOf(t, q, n))
        /\ NthOf(t, p, (i + n) + 1) = Follow(t, NthOf(t, p, i + n))
    BY NthSteps
  <2>2. i + (n + 1) = (i + n) + 1
    OBVIOUS
  <2>3. QED
    BY <1>2, <2>1, <2>2
<1> HIDE DEF S
<1>3. Nat \subseteq S
  BY <1>1, <1>2, SetInduction
<1>4. QED
  BY <1>3 DEF S

\* A list with a pair twice repeats itself from there on.
LEMMA Periodic ==
  ASSUME NEW t, NEW p, NEW i \in Nat, NEW j \in Nat, i <= j,
         NthOf(t, p, i) = NthOf(t, p, j)
  PROVE  \A k \in Nat : j <= k => NthOf(t, p, k - (j - i)) = NthOf(t, p, k)
<1> SUFFICES ASSUME NEW k \in Nat, j <= k
             PROVE  NthOf(t, p, k - (j - i)) = NthOf(t, p, k)
  OBVIOUS
<1>1. k - j \in Nat /\ i + (k - j) = k - (j - i) /\ j + (k - j) = k
  OBVIOUS
<1>2. NthOf(t, NthOf(t, p, i), k - j) = NthOf(t, p, i + (k - j))
  BY <1>1, NthShift
<1>3. NthOf(t, NthOf(t, p, j), k - j) = NthOf(t, p, j + (k - j))
  BY <1>1, NthShift
<1>4. QED
  BY <1>1, <1>2, <1>3

\* A list that is longer than there are pairs has one of them twice.
LEMMA Repeats ==
  ASSUME NEW t, NEW p \in Pairs, NthOf(t, p, Cardinality(Pairs)) # None
  PROVE  \E i, j \in 0 .. Cardinality(Pairs) :
           i < j /\ NthOf(t, p, i) = NthOf(t, p, j)
<1> DEFINE N == Cardinality(Pairs)
           f == [k \in 0 .. N |-> NthOf(t, p, k)]
<1>1. IsFiniteSet(Pairs) /\ N \in Nat
  BY PairAssumption, FS_CardinalityType
<1>2. ASSUME NEW k \in 0 .. N PROVE NthOf(t, p, k) \in Pairs
  BY <1>1, NthInPairs, NoneStays
<1>3. f \in [0 .. N -> Pairs]
  BY <1>2
<1>4. IsFiniteSet(0 .. N) /\ Cardinality(0 .. N) = N + 1
  BY <1>1, FS_Interval
<1>5. PICK x \in 0 .. N, y \in 0 .. N : x # y /\ f[x] = f[y]
  <2>1. Cardinality(Pairs) < Cardinality(0 .. N)
    BY <1>1, <1>4
  <2> HIDE DEF N, f
  <2>2. QED
    BY <1>1, <1>3, <1>4, <2>1, FS_PigeonHole
<1>6. CASE x < y
  BY <1>5, <1>6
<1>7. CASE y < x
  BY <1>5, <1>7
<1>8. QED
  BY <1>1, <1>5, <1>6, <1>7

\* So it never ends.
LEMMA LongIsEndless ==
  ASSUME NEW t, NEW p \in Pairs, NthOf(t, p, Cardinality(Pairs)) # None
  PROVE  \A k \in Nat : NthOf(t, p, k) # None
<1> DEFINE N == Cardinality(Pairs)
           T == {k \in Nat : NthOf(t, p, k) = None}
<1> SUFFICES ASSUME T # {} PROVE FALSE
  OBVIOUS
<1>1. N \in Nat
  BY PairAssumption, FS_CardinalityType
<1>2. PICK i \in 0 .. N, j \in 0 .. N :
        i < j /\ NthOf(t, p, i) = NthOf(t, p, j)
  BY Repeats
<1>3. PICK k \in T : \A n \in T : k <= n
  <2>1. T \subseteq Nat
    OBVIOUS
  <2> HIDE DEF T
  <2>2. QED
    BY <2>1, NatMin
<1>4. k \in Nat /\ NthOf(t, p, k) = None
  OBVIOUS
<1>5. k > N
  BY <1>1, <1>4, NoneStays
<1>6. NthOf(t, p, k - (j - i)) = None
  BY <1>1, <1>2, <1>4, <1>5, Periodic
<1>7. k - (j - i) \in Nat /\ k - (j - i) < k
  BY <1>1, <1>2, <1>5
<1>8. QED
  BY <1>3, <1>6, <1>7

\* What is met at all is met among the first pairs.
LEMMA MetEarly ==
  ASSUME NEW t, NEW p \in Pairs, NEW k \in Nat, NthOf(t, p, k) # None
  PROVE  \E m \in 0 .. Cardinality(Pairs) :
           NthOf(t, p, m) = NthOf(t, p, k)
<1> DEFINE N == Cardinality(Pairs)
           T == {m \in Nat : NthOf(t, p, m) = NthOf(t, p, k)}
<1>1. N \in Nat
  BY PairAssumption, FS_CardinalityType
<1>2. PICK m \in T : \A n \in T : m <= n
  <2>1. T \subseteq Nat /\ T # {}
    OBVIOUS
  <2> HIDE DEF T
  <2>2. QED
    BY <2>1, NatMin
<1>3. CASE m <= N
  BY <1>1, <1>3
<1>4. CASE m > N
  <2>1. NthOf(t, p, N) # None
    BY <1>1, <1>4, NoneStays
  <2>2. PICK i \in 0 .. N, j \in 0 .. N :
          i < j /\ NthOf(t, p, i) = NthOf(t, p, j)
    BY <2>1, Repeats
  <2>3. NthOf(t, p, m - (j - i)) = NthOf(t, p, m)
    BY <1>1, <1>4, <2>2, Periodic
  <2>4. m - (j - i) \in Nat /\ m - (j - i) < m
    BY <1>1, <1>4, <2>2
  <2>5. QED
    BY <1>2, <2>3, <2>4
<1>5. QED
  BY <1>1, <1>3, <1>4

-----------------------------------------------------------------------------
(***************************************************************************)
(* The loop of esch_pair_is_list.                                          *)
(***************************************************************************)

\* The first step around a circle stays on the circle.
LEMMA RestOfCircle ==
  ASSUME NEW t, NEW p \in Pairs, NthOf(t, p, Cardinality(Pairs)) # None
  PROVE  t[p] \in Pairs /\ NthOf(t, t[p], Cardinality(Pairs)) # None
<1> DEFINE N == Cardinality(Pairs)
<1>1. N \in Nat
  BY PairAssumption, FS_CardinalityType
<1>2. \A k \in Nat : NthOf(t, p, k) # None
  BY LongIsEndless
<1>3. NthOf(t, p, 0) = p /\ NthOf(t, p, 0 + 1) = Follow(t, NthOf(t, p, 0))
  BY NthSteps
<1>4. NthOf(t, p, 1) = Follow(t, p) /\ NthOf(t, p, 1) # None
  BY <1>2, <1>3
<1>5. t[p] \in Pairs /\ NthOf(t, p, 1) = t[p]
  BY <1>4 DEF Follow
<1>6. NthOf(t, NthOf(t, p, 1), N) = NthOf(t, p, 1 + N)
  BY <1>1, NthShift
<1>7. NthOf(t, p, 1 + N) # None
  BY <1>1, <1>2
<1>8. QED
  BY <1>5, <1>6, <1>7

\* While esch_pair_is_list runs, only its loop does.
LEMMA OnlyLoop ==
  ASSUME [Next]_vars, pc = "is_list"
  PROVE  IsListLoop \/ UNCHANGED vars
BY NextCases DEF New, SetHead, SetTail, Delete, GetIterator, CallIsList,
   GetNext, DropIterator, LooksAtNull

LEMMA CircleStep ==
  ASSUME PairInv, [Next]_vars, pc = "is_list", Circular(each),
         ~UNCHANGED vars
  PROVE  pc' = "is_list" /\ Circular(each')
<1> DEFINE N == Cardinality(Pairs)
<1>1. each \in Pairs /\ each \in alive
  BY DEF PairInv, TypeOK, EachExists
<1>2. NthOf(tail, each, N) # None
  BY NthIsNthOf DEF Circular
<1>3. tail[each] \in Pairs /\ NthOf(tail, tail[each], N) # None
  BY <1>1, <1>2, RestOfCircle
<1>4. next_is_pair[each] = 1
  BY <1>1, <1>3 DEF PairInv, TailsAreTrusted
<1>5. IsListStep
  BY <1>4, OnlyLoop DEF IsListLoop, IsListReturn
<1>6. each' = tail[each] /\ pc' = pc
  BY <1>5 DEF IsListStep, NextEach
<1>7. Nth(each', N) = NthOf(tail, each', N)
  BY NthIsNthOf
<1>8. QED
  BY <1>3, <1>6, <1>7 DEF Circular

\* On a list whose tails come back esch_pair_is_list never returns, however
\* long the way to the circle and around it.
THEOREM CircleForEver == Spec => CircleNeverReturns
<1>1. PairInv /\ [Next]_vars
        => [pc = "is_list" /\ Circular(each)
              => pc' = "is_list" /\ Circular(each')]_vars
  BY CircleStep
<1>2. QED
  BY <1>1, PairInvariant, PTL DEF Spec, CircleNeverReturns

\* No pair of a list that ends is met again behind it.
LEMMA NeverAgain ==
  ASSUME NEW t, NEW p \in Pairs, NEW n \in Nat, NthOf(t, p, n) = None,
         NEW j \in Nat \ {0}
  PROVE  NthOf(t, p, j) # p
<1> SUFFICES ASSUME NthOf(t, p, j) = p PROVE FALSE
  OBVIOUS
<1> DEFINE T == {k \in Nat : NthOf(t, p, k) = None}
<1>1. PICK m \in T : \A k \in T : m <= k
  <2>1. T \subseteq Nat /\ T # {}
    OBVIOUS
  <2> HIDE DEF T
  <2>2. QED
    BY <2>1, NatMin
<1>2. m \in Nat /\ NthOf(t, p, m) = None
  OBVIOUS
<1>3. NthOf(t, p, 0) = p /\ p # None
  BY NthSteps, Kinds
<1>4. CASE m < j
  BY <1>2, <1>3, <1>4, NoneStays
<1>5. CASE j <= m
  <2>1. NthOf(t, p, m - (j - 0)) = NthOf(t, p, m)
    BY <1>2, <1>3, <1>5, Periodic
  <2>2. m - (j - 0) \in Nat /\ m - (j - 0) < m
    BY <1>2, <1>5
  <2>3. QED
    BY <1>1, <1>2, <2>1, <2>2
<1>6. QED
  BY <1>2, <1>4, <1>5

LEMMA ProgressStep ==
  ASSUME PairInv, [Next]_vars, pc = "is_list", pc' = "is_list",
         ~Circular(each), ~UNCHANGED vars
  PROVE  ~Circular(each') /\ Chain(each') \subseteq Chain(each) \ {each}
<1> DEFINE N == Cardinality(Pairs)
<1>1. N \in Nat
  BY PairAssumption, FS_CardinalityType
<1>2. each \in Pairs /\ each \in alive
  BY DEF PairInv, TypeOK, EachExists
<1>3. next_is_pair[each] = 1 /\ each' = tail[each]
  BY OnlyLoop DEF IsListLoop, IsListReturn, IsListStep, NextEach
<1>4. tail[each] \in Pairs
  BY <1>2, <1>3 DEF PairInv, TailsAreTrusted
<1>5. NthOf(tail, each, 1) = each'
  <2>1. NthOf(tail, each, 0) = each /\ NthOf(tail, each, 0 + 1) = Follow(tail, NthOf(tail, each, 0))
    BY NthSteps
  <2>2. QED
    BY <1>2, <1>3, <1>4, <2>1 DEF Follow
<1>6. \A k \in Nat : NthOf(tail, each', k) = NthOf(tail, each, 1 + k)
  BY <1>5, NthShift
<1>7. \A k \in Nat : N <= k => NthOf(tail, each, k) = None
  BY <1>1, NthIsNthOf, NoneStays DEF Circular
<1>8. ~Circular(each')
  BY <1>1, <1>6, <1>7, NthIsNthOf DEF Circular
<1>9. ASSUME NEW q \in Chain(each') PROVE q \in Chain(each) /\ q # each
  <2>1. PICK k \in 0 .. N : q = NthOf(tail, each, 1 + k) /\ q # None
    BY <1>1, <1>6, <1>9, NthIsNthOf DEF Chain
  <2>2. 1 + k \in 0 .. N /\ 1 + k \in Nat \ {0}
    BY <1>1, <1>7, <2>1
  <2>3. q \in Chain(each)
    BY <2>1, <2>2, NthIsNthOf DEF Chain
  <2>4. QED
    BY <1>1, <1>2, <1>7, <2>1, <2>2, <2>3, NeverAgain
<1>10. QED
  BY <1>8, <1>9

\* The loop of esch_pair_is_list cannot go on for ever on a list that ends, for
\* any number of pairs.
THEOREM LoopProgresses == Spec => IsListProgress
<1>1. PairInv /\ [Next]_vars
        => [pc = "is_list" /\ pc' = "is_list" /\ ~Circular(each)
              => ~Circular(each') /\ Chain(each') \subseteq Chain(each) \ {each}]_vars
  BY ProgressStep
<1>2. QED
  BY <1>1, PairInvariant, PTL DEF Spec, IsListProgress

\* The loop stands on a pair of the list it was called with.
EachReached ==
  pc = "is_list" =>
    /\ subject \in Pairs
    /\ \E k \in Nat : each = NthOf(tail, subject, k)

LEMMA EachReachedStep == PairInv /\ EachReached /\ [Next]_vars => EachReached'
<1> SUFFICES ASSUME PairInv, EachReached, [Next]_vars, pc' = "is_list"
             PROVE  /\ subject' \in Pairs
                    /\ \E k \in Nat : each' = NthOf(tail', subject', k)
  BY DEF EachReached
<1>1. CASE pc # "is_list"
  <2>1. PICK p \in alive : CallIsList(p)
    BY <1>1, NextCases DEF New, SetHead, SetTail, Delete, GetIterator, GetNext,
       DropIterator, IsListLoop, IsListStep, IsListReturn, LooksAtNull, loop,
       vars
  <2>2. subject' = p /\ each' = p /\ p \in Pairs
    BY <2>1 DEF CallIsList, PairInv, TypeOK
  <2>3. NthOf(tail', p, 0) = p
    BY NthSteps
  <2>4. QED
    BY <2>2, <2>3
<1>2. CASE pc = "is_list" /\ UNCHANGED vars
  BY <1>2 DEF EachReached, vars, heap, loop
<1>3. CASE pc = "is_list" /\ IsListLoop
  <2>1. IsListStep
    BY <1>3 DEF IsListLoop, IsListReturn
  <2>2. /\ next_is_pair[each] = 1 /\ each' = tail[each]
        /\ subject' = subject /\ tail' = tail
    BY <2>1 DEF IsListStep, NextEach, heap
  <2>3. each \in alive /\ each \in Pairs
    BY <1>3 DEF PairInv, EachExists, TypeOK
  <2>4. each' = Follow(tail, each)
    BY <2>2, <2>3 DEF PairInv, TailsAreTrusted, Follow
  <2>5. PICK k \in Nat : each = NthOf(tail, subject, k)
    BY <1>3 DEF EachReached
  <2>6. each' = NthOf(tail, subject, k + 1)
    BY <2>4, <2>5, NthSteps
  <2>7. QED
    BY <1>3, <2>2, <2>6 DEF EachReached
<1>4. QED
  BY <1>1, <1>2, <1>3, OnlyLoop

\* A list has one last pair.
LEMMA LastIsUnique ==
  ASSUME NEW t, NEW p, NEW i \in Nat, NEW j \in Nat,
         NthOf(t, p, i) # None, Follow(t, NthOf(t, p, i)) = None,
         NthOf(t, p, j) # None, Follow(t, NthOf(t, p, j)) = None
  PROVE  i = j
<1>1. NthOf(t, p, i + 1) = None /\ NthOf(t, p, j + 1) = None
  BY NthSteps
<1>2. ~(i < j) /\ ~(j < i)
  BY <1>1, NoneStays
<1>3. QED
  BY <1>2

LEMMA ReturnRight ==
  ASSUME PairInv, EachReached, [Next]_vars, pc = "is_list", pc' = "idle"
  PROVE  answer' = IsList(subject)
<1> DEFINE N == Cardinality(Pairs)
<1>1. /\ next_is_pair[each] = 0
      /\ answer' = (head[each] = End /\ tail[each] = End)
  BY OnlyLoop DEF IsListLoop, IsListStep, IsListReturn, EndsEmpty, vars, loop
<1>2. each \in alive /\ each \in Pairs /\ each # None
  BY Kinds DEF PairInv, EachExists, TypeOK
<1>3. Follow(tail, each) = None /\ Following(each) = None
  BY <1>1, <1>2 DEF PairInv, TailsAreTrusted, Follow, Following
<1>4. PICK k \in Nat : each = NthOf(tail, subject, k)
  BY DEF EachReached
<1>5. PICK m \in 0 .. N : NthOf(tail, subject, m) = each
  BY <1>2, <1>4, MetEarly DEF EachReached
<1>6. N \in Nat
  BY PairAssumption, FS_CardinalityType
<1>7. each \in Chain(subject)
  BY <1>2, <1>5, NthIsNthOf DEF Chain
<1>8. ASSUME NEW q \in Chain(subject), Following(q) = None PROVE q = each
  <2>1. PICK j \in 0 .. N : q = NthOf(tail, subject, j) /\ q # None
    BY NthIsNthOf DEF Chain
  <2>2. Follow(tail, q) = None
    BY <1>8 DEF Follow, Following
  <2>3. j = m
    BY <1>2, <1>3, <1>5, <1>6, <2>1, <2>2, LastIsUnique
  <2>4. QED
    BY <1>5, <2>1, <2>3
<1>9. LastPair(subject) = each
  BY <1>3, <1>7, <1>8 DEF LastPair
<1>10. QED
  BY <1>1, <1>9 DEF IsList

\* Whatever list esch_pair_is_list is given, when it answers the answer is
\* whether its last pair is the empty pair.
THEOREM AnswersRight == Spec => IsListAnswersRight
<1>1. Init => EachReached
  BY DEF Init, EachReached
<1>2. PairInv /\ EachReached /\ [Next]_vars
        => [pc = "is_list" /\ pc' = "idle" => answer' = IsList(subject)]_vars
  BY ReturnRight
<1>3. QED
  BY <1>1, <1>2, EachReachedStep, PairInvariant, PTL
     DEF Spec, IsListAnswersRight

-----------------------------------------------------------------------------
(***************************************************************************)
(* The iterator.                                                           *)
(***************************************************************************)
ValueOf(h, t, p, k) ==
  IF NthOf(t, p, k) # None THEN h[NthOf(t, p, k)]
  ELSE IF k > 0 /\ NthOf(t, p, k - 1) # None THEN t[NthOf(t, p, k - 1)]
  ELSE End

LEMMA ValueIsValueOf == \A p, k : Value(p, k) = ValueOf(head, tail, p, k)
BY NthIsNthOf DEF Value, ValueOf

\* Where the iterator stands after n values of the list.
Standing(t, p, n, it) ==
  \/ /\ it.idx = HEAD_ID
     /\ NthOf(t, p, n) = it.container
  \/ /\ it.idx = TAIL_ID /\ n > 0
     /\ NthOf(t, p, n - 1) = it.container /\ NthOf(t, p, n) = None
  \/ /\ it.idx = EMPTY_ID /\ n > 1
     /\ NthOf(t, p, n - 1) = None /\ NthOf(t, p, n) = None

\* An iterator has yielded the first values of its list, none of them END.
WalkFollows ==
  start # None =>
    /\ start \in alive /\ iter.container # None
    /\ Standing(tail, start, Len(seen), iter)
    /\ \A k \in 1 .. Len(seen) :
         /\ seen[k] = ValueOf(head, tail, start, k - 1)
         /\ seen[k] # End

\* What it would yield next is the next value of the list.
LEMMA NextValue ==
  ASSUME PairInv, WalkFollows, start # None
  PROVE  GetValue = ValueOf(head, tail, start, Len(seen))
<1>1. Len(seen) \in Nat /\ iter.container # None
  BY DEF PairInv, TypeOK, WalkFollows
<1>2. Standing(tail, start, Len(seen), iter)
  BY DEF WalkFollows
<1>3. CASE iter.idx = HEAD_ID
  BY <1>1, <1>2, <1>3 DEF Standing, GetValue, ValueOf,
     HEAD_ID, TAIL_ID, EMPTY_ID
<1>4. CASE iter.idx = TAIL_ID
  BY <1>1, <1>2, <1>4 DEF Standing, GetValue, ValueOf,
     HEAD_ID, TAIL_ID, EMPTY_ID
<1>5. CASE iter.idx = EMPTY_ID
  BY <1>1, <1>2, <1>5 DEF Standing, GetValue, ValueOf,
     HEAD_ID, TAIL_ID, EMPTY_ID
<1>6. QED
  BY <1>2, <1>3, <1>4, <1>5 DEF Standing

\* Where the dispatch tables send the iterator.
LEMMA NextStands ==
  ASSUME PairInv, WalkFollows, start # None, GetValue # End
  PROVE  Standing(tail, start, Len(seen) + 1, NextPosition)
<1> DEFINE n == Len(seen)
           c == iter.container
<1>1. /\ n \in Nat /\ c # None /\ c \in alive /\ c \in Pairs
      /\ iter \in [container : Pairs \cup {None}, idx : {0, 1, 2}]
      /\ next_is_pair[c] \in {0, 1}
      /\ next_is_pair[c] = 1 <=> tail[c] \in Pairs
  BY DEF PairInv, TypeOK, TailsAreTrusted, WalkFollows
<1>2. Standing(tail, start, n, iter)
  BY DEF WalkFollows
<1>3. NthOf(tail, start, n + 1) = Follow(tail, NthOf(tail, start, n))
  BY <1>1, NthSteps
<1>4. CASE iter.idx = HEAD_ID /\ next_is_pair[c] = 1
  <2>1. NextPosition = [container |-> tail[c], idx |-> HEAD_ID]
    BY <1>4 DEF NextPosition
  <2>2. NthOf(tail, start, n) = c
    BY <1>2, <1>4 DEF Standing, HEAD_ID, TAIL_ID, EMPTY_ID
  <2>3. NthOf(tail, start, n + 1) = tail[c]
    BY <1>1, <1>3, <1>4, <2>2 DEF Follow
  <2>4. QED
    BY <2>1, <2>3 DEF Standing
<1>5. CASE iter.idx = HEAD_ID /\ next_is_pair[c] = 0
  <2>1. NextPosition = [iter EXCEPT !.idx = TAIL_ID]
    BY <1>5 DEF NextPosition
  <2>2. NthOf(tail, start, n) = c
    BY <1>2, <1>5 DEF Standing, HEAD_ID, TAIL_ID, EMPTY_ID
  <2>3. NthOf(tail, start, n + 1) = None
    BY <1>1, <1>3, <1>5, <2>2 DEF Follow
  <2>4. NextPosition.idx = TAIL_ID /\ NextPosition.container = c
    BY <1>1, <2>1
  <2>5. n + 1 > 0 /\ (n + 1) - 1 = n
    BY <1>1
  <2>6. QED
    BY <2>2, <2>3, <2>4, <2>5 DEF Standing
<1>6. CASE iter.idx = TAIL_ID
  <2>1. NextPosition = [iter EXCEPT !.idx = EMPTY_ID]
    BY <1>6 DEF NextPosition, HEAD_ID, TAIL_ID
  <2>2. n > 0 /\ NthOf(tail, start, n) = None
    BY <1>2, <1>6 DEF Standing, HEAD_ID, TAIL_ID, EMPTY_ID
  <2>3. NthOf(tail, start, n + 1) = None
    BY <1>3, <2>2, Kinds DEF Follow
  <2>4. NextPosition.idx = EMPTY_ID
    BY <1>1, <2>1
  <2>5. n + 1 > 1 /\ (n + 1) - 1 = n
    BY <1>1, <2>2
  <2>6. QED
    BY <2>2, <2>3, <2>4, <2>5 DEF Standing
<1>7. CASE iter.idx = EMPTY_ID
  BY <1>7 DEF GetValue, HEAD_ID, TAIL_ID, EMPTY_ID
<1>8. QED
  BY <1>1, <1>2, <1>4, <1>5, <1>6, <1>7 DEF Standing

\* A list is not changed by what happens to pairs that are not in it: A holds
\* its first pair and with each pair the next.
LEMMA UntouchedList ==
  ASSUME NEW t, NEW u, NEW h, NEW g, NEW A \in SUBSET Pairs, NEW p \in A,
         \A a \in A : /\ u[a] = t[a] /\ g[a] = h[a]
                      /\ t[a] \in Pairs => t[a] \in A
  PROVE  \A k \in Nat : /\ NthOf(t, p, k) \in A \cup {None}
                        /\ NthOf(u, p, k) = NthOf(t, p, k)
                        /\ ValueOf(g, u, p, k) = ValueOf(h, t, p, k)
<1> DEFINE S == {k \in Nat : /\ NthOf(t, p, k) \in A \cup {None}
                             /\ NthOf(u, p, k) = NthOf(t, p, k)}
<1>1. 0 \in S
  BY NthSteps
<1>2. ASSUME NEW k \in Nat, k \in S PROVE k + 1 \in S
  <2> DEFINE q == NthOf(t, p, k)
  <2>0. q \in A \cup {None} /\ NthOf(u, p, k) = q
    BY <1>2
  <2>1. /\ NthOf(t, p, k + 1) = Follow(t, NthOf(t, p, k))
        /\ NthOf(u, p, k + 1) = Follow(u, NthOf(u, p, k))
    BY NthSteps
  <2> HIDE DEF q
  <2>2. Follow(u, q) = Follow(t, q) /\ Follow(t, q) \in A \cup {None}
    BY <2>0, Kinds DEF Follow
  <2>3. QED
    BY <2>0, <2>1, <2>2 DEF q
<1> HIDE DEF S
<1>3. Nat \subseteq S
  BY <1>1, <1>2, SetInduction
<1>4. \A k \in Nat : /\ NthOf(t, p, k) \in A \cup {None}
                     /\ NthOf(u, p, k) = NthOf(t, p, k)
  BY <1>3 DEF S
<1>5. ASSUME NEW k \in Nat
      PROVE  ValueOf(g, u, p, k) = ValueOf(h, t, p, k)
  <2>1. CASE k = 0
    BY <1>4, <2>1 DEF ValueOf
  <2>2. CASE k > 0
    <3>1. k - 1 \in Nat
      BY <2>2
    <3>2. QED
      BY <1>4, <3>1 DEF ValueOf
  <2>3. QED
    BY <2>1, <2>2
<1>6. QED
  BY <1>4, <1>5

\* A change elsewhere in the heap does not disturb the iterator.
LEMMA WalkUndisturbed ==
  ASSUME PairInv, WalkFollows, start # None, UNCHANGED walk,
         NEW A \in SUBSET Pairs, start \in A, A \subseteq alive',
         \A a \in A : /\ tail'[a] = tail[a] /\ head'[a] = head[a]
                      /\ tail[a] \in Pairs => tail[a] \in A
  PROVE  WalkFollows'
<1>1. Len(seen) \in Nat
  BY DEF PairInv, TypeOK
<1>2. \A k \in Nat :
        /\ NthOf(tail', start, k) = NthOf(tail, start, k)
        /\ ValueOf(head', tail', start, k) = ValueOf(head, tail, start, k)
  BY UntouchedList
<1>3. start' = start /\ iter' = iter /\ seen' = seen
  BY DEF walk
<1>4. Standing(tail', start, Len(seen), iter)
  <2>1. Standing(tail, start, Len(seen), iter)
    BY DEF WalkFollows
  <2>2. Len(seen) > 0 => Len(seen) - 1 \in Nat
    BY <1>1
  <2>3. Len(seen) > 1 => Len(seen) > 0
    BY <1>1
  <2>4. QED
    BY <1>1, <1>2, <2>1, <2>2, <2>3 DEF Standing
<1>5. ASSUME NEW k \in 1 .. Len(seen)
      PROVE  seen[k] = ValueOf(head', tail', start, k - 1) /\ seen[k] # End
  <2>1. k - 1 \in Nat
    BY <1>1
  <2>2. QED
    BY <1>2, <2>1 DEF WalkFollows
<1>6. start' \in alive' /\ iter'.container # None
  BY <1>3 DEF WalkFollows
<1>7. QED
  BY <1>3, <1>4, <1>5, <1>6 DEF WalkFollows

LEMMA WalkNew ==
  ASSUME PairInv, WalkFollows, NEW p \in Pairs, NEW h \in Values,
         NEW t \in Values, New(p, h, t)
  PROVE  WalkFollows'
<1>1. /\ p \notin alive /\ alive' = alive \cup {p} /\ UNCHANGED walk
      /\ head' = [head EXCEPT ![p] = h] /\ tail' = [tail EXCEPT ![p] = t]
  BY DEF New
<1>2. CASE start = None
  BY <1>1, <1>2 DEF WalkFollows, walk
<1>3. CASE start # None
  <2>1. start \in alive /\ alive \in SUBSET Pairs
    BY <1>3 DEF WalkFollows, PairInv, TypeOK
  <2>2. \A a \in alive : /\ tail'[a] = tail[a] /\ head'[a] = head[a]
                         /\ tail[a] \in Pairs => tail[a] \in alive
    BY <1>1 DEF PairInv, TypeOK, TailsExist
  <2>3. QED
    BY <1>1, <1>3, <2>1, <2>2, WalkUndisturbed
<1>4. QED
  BY <1>2, <1>3

LEMMA WalkDelete ==
  ASSUME PairInv, WalkFollows, NEW p \in alive, Delete(p)
  PROVE  WalkFollows'
<1>1. /\ alive' = alive \ {p} /\ Holders(p) = {}
      /\ head' = [head EXCEPT ![p] = End] /\ tail' = [tail EXCEPT ![p] = End]
      /\ start' = IF start = p THEN None ELSE start
      /\ seen' = IF start = p THEN <<>> ELSE seen
      /\ iter' = iter
  BY DEF Delete
<1>2. CASE start = None \/ start = p
  BY <1>1, <1>2 DEF WalkFollows
<1>3. CASE start # None /\ start # p
  <2> DEFINE A == alive \ {p}
  <2>1. start \in A /\ A \in SUBSET Pairs /\ A \subseteq alive'
    BY <1>1, <1>3 DEF WalkFollows, PairInv, TypeOK
  <2>2. ASSUME NEW a \in A
        PROVE  /\ tail'[a] = tail[a] /\ head'[a] = head[a]
               /\ tail[a] \in Pairs => tail[a] \in A
    BY <1>1 DEF PairInv, TypeOK, TailsExist, Holders
  <2>3. UNCHANGED walk
    BY <1>1, <1>3 DEF walk
  <2> HIDE DEF A
  <2>4. QED
    BY <1>3, <2>1, <2>2, <2>3, WalkUndisturbed
<1>4. QED
  BY <1>2, <1>3

LEMMA WalkGetIterator ==
  ASSUME PairInv, WalkFollows, NEW p \in alive, GetIterator(p)
  PROVE  WalkFollows'
<1>1. /\ iter' = [container |-> p, idx |-> HEAD_ID]
      /\ start' = p /\ seen' = <<>> /\ alive' = alive
  BY DEF GetIterator, heap
<1>2. p # None
  BY Kinds DEF PairInv, TypeOK
<1>3. NthOf(tail', p, 0) = p
  BY NthSteps
<1>4. Standing(tail', p, 0, iter')
  BY <1>1, <1>3 DEF Standing
<1>5. QED
  BY <1>1, <1>2, <1>4 DEF WalkFollows

LEMMA WalkGetNext ==
  ASSUME PairInv, WalkFollows, GetNext
  PROVE  WalkFollows'
<1>1. /\ GetValue # End /\ iter.container # None /\ iter' = NextPosition
      /\ seen' = IF start = None THEN seen ELSE Append(seen, GetValue)
      /\ alive' = alive /\ head' = head /\ tail' = tail /\ start' = start
  BY DEF GetNext, heap
<1>2. CASE start = None
  BY <1>1, <1>2 DEF WalkFollows
<1>3. CASE start # None
  <2> DEFINE n == Len(seen)
  <2>1. /\ seen \in Seq(Values) /\ n \in Nat
    BY DEF PairInv, TypeOK
  <2>2. GetValue = ValueOf(head, tail, start, n)
    BY <1>3, NextValue
  <2>3. GetValue \in Values
    BY <1>1, GetValueType DEF PairInv
  <2>4. /\ Len(seen') = n + 1
        /\ \A k \in 1 .. n : seen'[k] = seen[k]
        /\ seen'[n + 1] = GetValue
    BY <1>1, <1>3, <2>1, <2>3
  <2>5. Standing(tail, start, n + 1, iter')
    BY <1>1, <1>3, NextStands
  <2>6. \A k \in 1 .. n : /\ seen[k] = ValueOf(head, tail, start, k - 1)
                          /\ seen[k] # End
    BY <1>3 DEF WalkFollows
  <2>7. ASSUME NEW k \in 1 .. n + 1
        PROVE  /\ seen'[k] = ValueOf(head, tail, start, k - 1)
               /\ seen'[k] # End
    <3>1. CASE k \in 1 .. n
      BY <2>4, <2>6, <3>1
    <3>2. CASE k = n + 1
      <4>1. k - 1 = n
        BY <2>1, <3>2
      <4>2. QED
        BY <1>1, <2>2, <2>4, <3>2, <4>1
    <3>3. QED
      BY <2>1, <3>1, <3>2
  <2>8. iter'.container # None
    <3>1. /\ iter.container \in alive /\ iter.container \in Pairs
          /\ iter \in [container : Pairs \cup {None}, idx : {0, 1, 2}]
          /\ next_is_pair[iter.container] \in {0, 1}
      BY <1>1 DEF PairInv, TypeOK, TailsAreTrusted
    <3>2. CASE iter.idx = HEAD_ID /\ next_is_pair[iter.container] = 1
      <4>1. tail[iter.container] \in Pairs
        BY <3>1, <3>2 DEF PairInv, TailsAreTrusted
      <4>2. NextPosition.container = tail[iter.container]
        BY <3>2 DEF NextPosition
      <4>3. QED
        BY <1>1, <4>1, <4>2, Kinds
    <3>3. CASE ~(iter.idx = HEAD_ID /\ next_is_pair[iter.container] = 1)
      <4>1. \/ NextPosition = [iter EXCEPT !.idx = TAIL_ID]
            \/ NextPosition = [iter EXCEPT !.idx = EMPTY_ID]
        BY <3>1, <3>3 DEF NextPosition
      <4>2. NextPosition.container = iter.container
        BY <3>1, <4>1
      <4>3. QED
        BY <1>1, <4>2
    <3>4. QED
      BY <3>2, <3>3
  <2>9. start \in alive
    BY <1>3 DEF WalkFollows
  <2>10. QED
    BY <1>1, <2>4, <2>5, <2>7, <2>8, <2>9 DEF WalkFollows
<1>4. QED
  BY <1>2, <1>3

LEMMA WalkStep == PairInv /\ WalkFollows /\ [Next]_vars => WalkFollows'
<1> SUFFICES ASSUME PairInv, WalkFollows, [Next]_vars PROVE WalkFollows'
  OBVIOUS
<1>1. CASE UNCHANGED <<heap, walk>>
  BY <1>1 DEF WalkFollows, heap, walk
<1>2. CASE \E p \in Pairs, h, t \in Values : New(p, h, t)
  BY <1>2, WalkNew
<1>3. CASE \E p \in alive, v \in Values : SetHead(p, v) \/ SetTail(p, v)
  BY <1>3 DEF SetHead, SetTail, Disturb, WalkFollows
<1>4. CASE \E p \in alive : Delete(p) \/ GetIterator(p)
  BY <1>4, WalkDelete, WalkGetIterator
<1>5. CASE GetNext
  BY <1>5, WalkGetNext
<1>6. CASE DropIterator
  BY <1>6 DEF DropIterator, WalkFollows
<1>7. CASE IsListLoop \/ \E p \in alive : CallIsList(p)
  <2>1. UNCHANGED <<heap, walk>>
    BY <1>7 DEF IsListLoop, IsListStep, IsListReturn, CallIsList
  <2>2. QED
    BY <1>1, <2>1
<1>8. CASE LooksAtNull
  BY <1>1, <1>8 DEF LooksAtNull
<1>9. QED
  BY <1>1, <1>2, <1>3, <1>4, <1>5, <1>6, <1>7, <1>8, NextCases DEF vars

-----------------------------------------------------------------------------
\* The values of a list up to its first END.
LEMMA ContentsBeforeEnd ==
  ASSUME NEW p, NEW n \in Nat, NEW m \in 0 .. n,
         \A k \in 0 .. m - 1 : Value(p, k) # End,
         m < n => Value(p, m) = End
  PROVE  Contents(p, n) = [k \in 1 .. m |-> Value(p, k - 1)]
<1> DEFINE ends == {k \in 0 .. n - 1 : Value(p, k) = End}
           len  == IF ends = {} THEN n
                   ELSE CHOOSE k \in ends : \A j \in ends : k <= j
<1>1. Contents(p, n) = [k \in 1 .. len |-> Value(p, k - 1)]
  BY DEF Contents
<1>2. len = m
  <2>1. CASE m = n
    <3>1. ends = {}
      BY <2>1
    <3>2. QED
      BY <2>1, <3>1
  <2>2. CASE m < n
    <3>1. m \in ends /\ \A j \in ends : m <= j /\ j \in Nat
      BY <2>2
    <3>2. \A k \in ends : (\A j \in ends : k <= j) => k = m
      BY <3>1
    <3> HIDE DEF ends
    <3>3. QED
      BY <3>1, <3>2
  <2>3. QED
    BY <2>1, <2>2
<1> HIDE DEF len
<1>3. QED
  BY <1>1, <1>2

LEMMA WalkIsContents == PairInv /\ WalkFollows => IteratorFollowsList
<1> SUFFICES ASSUME PairInv, WalkFollows, start # None
             PROVE  /\ seen = Contents(start, Len(seen))
                    /\ GetValue = End => seen = Contents(start, Len(seen) + 1)
                    /\ GetValue # End =>
                         Append(seen, GetValue) = Contents(start, Len(seen) + 1)
  BY DEF IteratorFollowsList
<1> DEFINE n == Len(seen)
<1>1. n \in Nat /\ seen \in Seq(Values)
  BY DEF PairInv, TypeOK
<1>2. \A k \in 1 .. n : seen[k] = Value(start, k - 1) /\ seen[k] # End
  BY ValueIsValueOf DEF WalkFollows
<1>3. GetValue = Value(start, n)
  BY NextValue, ValueIsValueOf
<1>4. \A k \in 0 .. n - 1 : Value(start, k) # End
  <2> TAKE k \in 0 .. n - 1
  <2>1. k + 1 \in 1 .. n /\ (k + 1) - 1 = k
    BY <1>1
  <2>2. QED
    BY <1>2, <2>1
<1>5. seen = [k \in 1 .. n |-> Value(start, k - 1)]
  BY <1>1, <1>2
<1>6. Contents(start, n) = [k \in 1 .. n |-> Value(start, k - 1)]
  BY <1>1, <1>4, ContentsBeforeEnd
<1>7. CASE GetValue = End
  <2>1. /\ n + 1 \in Nat /\ n \in 0 .. n + 1
    BY <1>1
  <2>2. Contents(start, n + 1) = [k \in 1 .. n |-> Value(start, k - 1)]
    BY <1>3, <1>4, <1>7, <2>1, ContentsBeforeEnd
  <2>3. QED
    BY <1>5, <1>6, <1>7, <2>2
<1>8. CASE GetValue # End
  <2>1. n + 1 \in Nat /\ n + 1 \in 0 .. n + 1
    BY <1>1
  <2>2. \A k \in 0 .. (n + 1) - 1 : Value(start, k) # End
    BY <1>1, <1>3, <1>4, <1>8
  <2>3. Contents(start, n + 1) = [k \in 1 .. n + 1 |-> Value(start, k - 1)]
    BY <2>1, <2>2, ContentsBeforeEnd
  <2> DEFINE s == Append(seen, GetValue)
  <2>4. s = [k \in 1 .. n + 1 |-> Value(start, k - 1)]
    <3>1. s \in Seq(Values) /\ Len(s) = n + 1
      BY <1>1, GetValueType DEF PairInv, WalkFollows
    <3>2. \A k \in 1 .. n + 1 : s[k] = Value(start, k - 1)
      <4>1. \A k \in 1 .. n : s[k] = seen[k]
        BY <1>1
      <4>2. s[n + 1] = GetValue /\ (n + 1) - 1 = n
        BY <1>1
      <4> HIDE DEF s
      <4>3. QED
        BY <1>1, <1>2, <1>3, <4>1, <4>2
    <3> HIDE DEF s
    <3>3. QED
      BY <3>1, <3>2
  <2>5. QED
    BY <1>5, <1>6, <1>8, <2>3, <2>4
<1>9. QED
  BY <1>7, <1>8

\* Whatever happens to other pairs between two calls, an iterator yields the
\* values of its list in order, each once, and stops at the first END; on a
\* circle it never stops.
THEOREM IteratorRight == Spec => []IteratorFollowsList
<1>1. Init => WalkFollows
  BY DEF Init, WalkFollows
<1>2. QED
  BY <1>1, WalkStep, WalkIsContents, PairInvariant, PTL DEF Spec
=============================================================================
