---------------------------- MODULE SetInduction ----------------------------
(***************************************************************************)
(* Induction over the natural numbers, stated with sets where the          *)
(* library's theorems take an operator as a parameter, and what it gives   *)
(* for a function that is defined by recursion.                            *)
(***************************************************************************)
EXTENDS Integers, WellFoundedInduction, TLAPS

\* A set of natural numbers has a least one.
LEMMA LeastNumber ==
  ASSUME NEW S \in SUBSET Nat, S # {}
  PROVE  \E n \in S : \A m \in S : n <= m
  <1> DEFINE Less == OpToRel(<, Nat)
  <1>1. \A m, n \in Nat : <<m, n>> \in Less <=> m < n
    BY DEF OpToRel
  <1>2. IsWellFoundedOn(Less, Nat)
    BY NatLessThanWellFounded
  <1> HIDE DEF Less
  <1>3. PICK n \in S : \A m \in S : ~ (<<m, n>> \in Less)
    BY <1>2, WFMin
  <1>4. ASSUME NEW m \in S
        PROVE  n <= m
    <2>1. m \in Nat /\ n \in Nat
      OBVIOUS
    <2>2. ~ (m < n)
      BY <1>1, <1>3, <2>1
    <2> QED BY <2>1, <2>2
  <1> QED
    BY <1>4

\* A set that has zero, and with a number the next one, has them all.
LEMMA SetInduction ==
  ASSUME NEW S, 0 \in S, \A n \in Nat : n \in S => n + 1 \in S
  PROVE  Nat \subseteq S
  <1> SUFFICES ASSUME Nat \ S # {} PROVE FALSE
    OBVIOUS
  <1>1. PICK n \in Nat \ S : \A m \in Nat \ S : n <= m
    BY LeastNumber
  <1>2. n # 0 /\ n - 1 \in Nat /\ (n - 1) + 1 = n
    BY <1>1
  <1>3. n - 1 \in S
    BY <1>1, <1>2
  <1> QED
    BY <1>1, <1>2, <1>3

\* The same up to a bound.
LEMMA BoundedInduction ==
  ASSUME NEW N \in Nat, NEW S, 0 \in S, \A n \in 0 .. N - 1 : n \in S => n + 1 \in S
  PROVE  0 .. N \subseteq S
  <1> DEFINE T == {n \in Nat : n <= N => n \in S}
  <1>1. 0 \in T
    OBVIOUS
  <1>2. ASSUME NEW n \in Nat, n \in T
        PROVE  n + 1 \in T
    <2>1. CASE n + 1 <= N
      <3>1. n \in 0 .. N - 1 /\ n \in S
        BY <1>2, <2>1
      <3> QED BY <3>1
    <2>2. CASE ~ (n + 1 <= N)
      BY <2>2
    <2> QED BY <2>1, <2>2
  <1> HIDE DEF T
  <1>3. Nat \subseteq T
    BY <1>1, <1>2, SetInduction
  <1> QED
    BY <1>3 DEF T

\* The functions that start at a value and take the steps one after the other.
StepByStep(N, V, first, next) ==
    {g \in [0 .. N -> V] : g[0] = first /\ \A i \in 1 .. N : g[i] = next[i][g[i - 1]]}

\* There is one.
LEMMA StepsCanBeTaken ==
  ASSUME NEW N \in Nat, NEW V, NEW first \in V, NEW next \in [1 .. N -> [V -> V]]
  PROVE  StepByStep(N, V, first, next) # {}
  <1> DEFINE Taken(n, g) == g[0] = first /\ \A i \in 1 .. n : g[i] = next[i][g[i - 1]]
             S == {n \in 0 .. N : \E g \in [0 .. n -> V] : Taken(n, g)}
  <1>1. 0 \in S
    <2> DEFINE g == [i \in 0 .. 0 |-> first]
    <2>1. g \in [0 .. 0 -> V] /\ Taken(0, g)
      OBVIOUS
    <2> HIDE DEF g
    <2>2. 0 \in 0 .. N
      OBVIOUS
    <2> QED BY <2>1, <2>2
  <1>2. ASSUME NEW n \in 0 .. N - 1, n \in S
        PROVE  n + 1 \in S
    <2>1. PICK g \in [0 .. n -> V] : Taken(n, g)
      BY <1>2
    <2> DEFINE h == [i \in 0 .. n + 1 |-> IF i <= n THEN g[i] ELSE next[n + 1][g[n]]]
    <2>2. n \in Nat /\ n + 1 \in 1 .. N /\ n \in 0 .. n /\ n + 1 \in 0 .. n + 1
      OBVIOUS
    <2>3. next[n + 1][g[n]] \in V
      BY <2>2
    <2>4. h \in [0 .. n + 1 -> V]
      BY <2>2, <2>3
    <2>5. /\ \A i \in 0 .. n : h[i] = g[i]
          /\ h[n + 1] = next[n + 1][g[n]]
      BY <2>2
    <2> HIDE DEF h
    <2>6. Taken(n + 1, h)
      <3>1. h[0] = first
        BY <2>1, <2>2, <2>5
      <3>2. ASSUME NEW i \in 1 .. n + 1
            PROVE  h[i] = next[i][h[i - 1]]
        <4>1. CASE i \in 1 .. n
          <5>1. i \in 0 .. n /\ i - 1 \in 0 .. n
            BY <4>1, <2>2
          <5> QED BY <2>1, <2>5, <4>1, <5>1
        <4>2. CASE i = n + 1
          <5>1. i - 1 = n
            BY <2>2, <4>2
          <5> QED BY <2>2, <2>5, <4>2, <5>1
        <4> QED BY <2>2, <4>1, <4>2
      <3> QED BY <3>1, <3>2
    <2> QED
      BY <2>4, <2>6, n + 1 \in 0 .. N
  <1> HIDE DEF S
  <1>3. 0 .. N \subseteq S
    BY <1>1, <1>2, BoundedInduction
  <1> QED
    BY <1>3, N \in 0 .. N DEF S, StepByStep
=============================================================================
