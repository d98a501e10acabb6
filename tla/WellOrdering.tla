---------------------------- MODULE WellOrdering ----------------------------
(***************************************************************************)
(* Two facts about the natural numbers that the proofs about lists and     *)
(* tables need: a set of numbers has a least one, and a set that holds 0   *)
(* and with a number the next one holds all numbers.  They speak of sets,  *)
(* not of operators, and rest on the fact that finite sets do not shrink   *)
(* for ever.                                                               *)
(***************************************************************************)
EXTENDS Naturals, FiniteSetTheorems, WellFoundedInduction, TLAPS

\* Every non-empty set of numbers has a least one.
LEMMA NatMin ==
  ASSUME NEW T, T \subseteq Nat, T # {}
  PROVE  \E m \in T : \A n \in T : m <= n
<1> DEFINE TT == {0 .. n : n \in T}
<1>1. TT \subseteq FiniteSubsetsOf(Nat) /\ TT # {}
  <2>1. ASSUME NEW n \in T PROVE 0 .. n \in FiniteSubsetsOf(Nat)
    <3>1. IsFiniteSet(0 .. n) /\ 0 .. n \subseteq Nat
      BY FS_Interval
    <3>2. QED
      BY <3>1 DEF FiniteSubsetsOf
  <2>2. QED
    BY <2>1
<1> HIDE DEF TT
<1>2. PICK x \in TT : \A y \in TT : ~(<<y, x>> \in StrictSubsetOrdering(Nat))
  BY <1>1, FS_StrictSubsetOrderingWellFounded, WFMin
<1>3. PICK m \in T : x = 0 .. m
  BY DEF TT
<1>4. ASSUME NEW n \in T, n < m PROVE FALSE
  <2>1. 0 .. n \in TT
    BY DEF TT
  <2>2. 0 .. n \subseteq 0 .. m /\ 0 .. n # 0 .. m
    BY <1>4
  <2>3. <<0 .. n, 0 .. m>> \in StrictSubsetOrdering(Nat)
    BY <2>2 DEF StrictSubsetOrdering
  <2>4. QED
    BY <1>2, <1>3, <2>1, <2>3
<1>5. QED
  BY <1>4

\* Induction over the numbers, for a set.
LEMMA SetInduction ==
  ASSUME NEW S, 0 \in S, \A n \in Nat : n \in S => n + 1 \in S
  PROVE  Nat \subseteq S
<1> SUFFICES ASSUME Nat \ S # {} PROVE FALSE
  OBVIOUS
<1>1. PICK m \in Nat \ S : \A n \in Nat \ S : m <= n
  <2> DEFINE T == Nat \ S
  <2>1. T \subseteq Nat /\ T # {}
    OBVIOUS
  <2> HIDE DEF T
  <2>2. \E m \in T : \A n \in T : m <= n
    BY <2>1, NatMin
  <2>3. QED BY <2>2 DEF T
<1>2. m # 0 /\ m - 1 \in Nat /\ m - 1 \in S
  BY <1>1
<1>3. QED
  BY <1>1, <1>2

\* Induction over the numbers up to n.
LEMMA BoundedInduction ==
  ASSUME NEW n \in Nat, NEW S, 0 \in S,
         \A k \in 0 .. n - 1 : k \in S => k + 1 \in S
  PROVE  \A k \in 0 .. n : k \in S
<1> DEFINE T == {k \in Nat : k <= n => k \in S}
<1>1. 0 \in T
  OBVIOUS
<1>2. ASSUME NEW k \in Nat, k \in T PROVE k + 1 \in T
  <2>1. k + 1 <= n => k \in 0 .. n - 1 /\ k \in S
    BY <1>2
  <2>2. QED
    BY <2>1
<1> HIDE DEF T
<1>3. Nat \subseteq T
  BY <1>1, <1>2, SetInduction
<1>4. QED
  BY <1>3 DEF T

\* it is p, F[p], F[F[p]] and so on.
Iterates(it, D, F, p) ==
  /\ it \in [Nat -> D] /\ it[0] = p
  /\ \A k \in Nat : it[k + 1] = F[it[k]]

\* A function can be applied over and over: what this gives is a sequence.
LEMMA Iteration ==
  ASSUME NEW D, NEW F \in [D -> D], NEW p \in D
  PROVE  \E it : Iterates(it, D, F, p)
<1> DEFINE Upto(n, g) == /\ g \in [0 .. n -> D] /\ g[0] = p
                         /\ \A k \in 0 .. n - 1 : g[k + 1] = F[g[k]]
           S == {n \in Nat : \E g : Upto(n, g)}
<1>1. 0 \in S
  <2>1. Upto(0, [i \in 0 .. 0 |-> p])
    OBVIOUS
  <2> QED BY <2>1
<1>2. ASSUME NEW n \in Nat, n \in S PROVE n + 1 \in S
  <2>1. PICK g : Upto(n, g)
    BY <1>2
  <2> DEFINE h == [i \in 0 .. n + 1 |-> IF i = n + 1 THEN F[g[n]] ELSE g[i]]
  <2>2. g[n] \in D /\ F[g[n]] \in D
    BY <2>1
  <2>3. h \in [0 .. n + 1 -> D] /\ h[0] = p /\ h[n + 1] = F[g[n]]
        /\ \A i \in 0 .. n : h[i] = g[i]
    BY <2>1, <2>2
  <2>4. ASSUME NEW k \in 0 .. n PROVE h[k + 1] = F[h[k]]
    <3>1. CASE k = n
      BY <2>3, <3>1
    <3>2. CASE k # n
      <4>1. k \in 0 .. n - 1 /\ k + 1 \in 0 .. n
        BY <3>2
      <4> QED BY <2>1, <2>3, <4>1
    <3> QED BY <3>1, <3>2
  <2> HIDE DEF h
  <2>5. Upto(n + 1, h)
    BY <2>3, <2>4
  <2> QED BY <2>5
<1>3. Nat \subseteq S
  <2> HIDE DEF S
  <2> QED BY <1>1, <1>2, SetInduction
<1> DEFINE G(n) == CHOOSE g : Upto(n, g)
<1>4. ASSUME NEW n \in Nat PROVE Upto(n, G(n))
  <2>1. \E g : Upto(n, g)
    BY <1>3
  <2> QED BY <2>1
<1>5. ASSUME NEW n \in Nat PROVE \A k \in 0 .. n : G(n)[k] = G(n + 1)[k]
  <2> DEFINE T == {k \in 0 .. n : G(n)[k] = G(n + 1)[k]}
  <2>1. Upto(n, G(n)) /\ Upto(n + 1, G(n + 1))
    <3>1. n + 1 \in Nat
      OBVIOUS
    <3> HIDE DEF Upto, G
    <3> QED BY <1>4, <3>1
  <2> HIDE DEF G
  <2>2. 0 \in T
    BY <2>1
  <2>3. \A k \in 0 .. n - 1 : k \in T => k + 1 \in T
    BY <2>1
  <2> HIDE DEF T
  <2>4. \A k \in 0 .. n : k \in T
    BY <2>2, <2>3, BoundedInduction
  <2> QED BY <2>4 DEF T
<1> DEFINE it == [n \in Nat |-> G(n)[n]]
<1> HIDE DEF G
<1>6. it \in [Nat -> D] /\ it[0] = p
  BY <1>4
<1>7. ASSUME NEW k \in Nat PROVE it[k + 1] = F[it[k]]
  <2>1. G(k + 1)[k + 1] = F[G(k + 1)[k]]
    BY <1>4
  <2>2. G(k + 1)[k] = G(k)[k]
    BY <1>5
  <2> QED BY <2>1, <2>2
<1>8. Iterates(it, D, F, p)
  BY <1>6, <1>7 DEF Iterates
<1> QED BY <1>8
=============================================================================
