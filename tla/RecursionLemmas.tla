--------------------------- MODULE RecursionLemmas ---------------------------
(***************************************************************************)
(* Induction over numbers, stated about sets, and what it says of          *)
(* functions that are defined by recursion over an interval: they exist,   *)
(* and have the type of their steps.                                       *)
(***************************************************************************)
EXTENDS Naturals, WellFoundedInduction, TLAPS

LEMMA LeastNatural ==
    ASSUME NEW S, S \subseteq Nat, S # {}
    PROVE  \E n \in S : \A m \in S : n <= m
<1>1. PICK R : R = OpToRel(<, Nat)
  OBVIOUS
<1>2. IsWellFoundedOn(R, Nat)
  BY <1>1, NatLessThanWellFounded
<1>3. PICK n \in S : \A m \in S : <<m, n>> \notin R
  BY <1>2, WFMin
<1>4. \A i, j \in Nat : i < j => <<i, j>> \in R
  BY <1>1 DEF OpToRel
<1>5. ASSUME NEW m \in S
      PROVE  n <= m
  <2>1. m \in Nat /\ n \in Nat
    OBVIOUS
  <2>2. ~ (m < n)
    BY <1>3, <1>4, <2>1
  <2> QED
    BY <2>1, <2>2
<1> QED
  BY <1>5

LEMMA SetInduction ==
    ASSUME NEW S, 0 \in S, \A n \in Nat : n \in S => n + 1 \in S
    PROVE  Nat \subseteq S
<1>1. SUFFICES ASSUME Nat \ S # {}
               PROVE  FALSE
  OBVIOUS
<1>2. PICK n \in Nat \ S : \A m \in Nat \ S : n <= m
  BY <1>1, LeastNatural
<1>3. n - 1 \in Nat /\ n - 1 \in S
  BY <1>2
<1> QED
  BY <1>2, <1>3

(* Induction that ends at n.                                               *)
LEMMA IntervalInduction ==
    ASSUME NEW n \in Nat, NEW S, 0 \in S, \A k \in 0 .. n - 1 : k \in S => k + 1 \in S
    PROVE  0 .. n \subseteq S
<1> DEFINE T == {k \in Nat : k <= n => k \in S}
<1>1. 0 \in T
  OBVIOUS
<1>2. \A k \in Nat : k \in T => k + 1 \in T
  OBVIOUS
<1>3. Nat \subseteq T
  <2> HIDE DEF T
  <2> QED
    BY <1>1, <1>2, SetInduction
<1> QED
  BY <1>3

(* From a value to begin with, and a function for every step.              *)
Recursive(S, n, e, step, g) ==
    /\ g \in [0 .. n -> S]
    /\ g[0] = e
    /\ \A i \in 1 .. n : g[i] = step[i][g[i - 1]]

LEMMA RecursionExists ==
    ASSUME NEW S, NEW n \in Nat, NEW e \in S, NEW step \in [1 .. n -> [S -> S]]
    PROVE  \E g : Recursive(S, n, e, step, g)
<1> DEFINE Upto(k, g) == /\ g \in [0 .. k -> S]
                         /\ g[0] = e
                         /\ \A i \in 1 .. k : g[i] = step[i][g[i - 1]]
           Good == {k \in 0 .. n : \E g : Upto(k, g)}
<1>1. 0 \in Good
  <2>1. \E g : Upto(0, g)
    <3>1. Upto(0, [i \in 0 .. 0 |-> e])
      OBVIOUS
    <3> HIDE DEF Upto
    <3> QED
      BY <3>1
  <2>2. 0 \in 0 .. n
    OBVIOUS
  <2> QED
    BY <2>1, <2>2
<1>2. ASSUME NEW k \in 0 .. n - 1, k \in Good
      PROVE  k + 1 \in Good
  <2>1. PICK g : Upto(k, g)
    BY <1>2
  <2> DEFINE h == [i \in 0 .. k + 1 |-> IF i = k + 1 THEN step[k + 1][g[k]] ELSE g[i]]
  <2>2. k + 1 \in 1 .. n /\ g[k] \in S /\ k \in Nat
    BY <2>1
  <2>3. step[k + 1][g[k]] \in S
    BY <2>2
  <2>4. h \in [0 .. k + 1 -> S] /\ h[0] = e
    BY <2>1, <2>2, <2>3
  <2>5. ASSUME NEW i \in 1 .. k + 1
        PROVE  h[i] = step[i][h[i - 1]]
    <3>1. i - 1 \in 0 .. k /\ h[i - 1] = g[i - 1]
      BY <2>2
    <3>2. CASE i = k + 1
      BY <2>2, <3>1, <3>2
    <3>3. CASE i # k + 1
      <4>1. i \in 1 .. k
        BY <2>2, <3>3
      <4>2. h[i] = g[i]
        BY <2>2, <4>1
      <4> QED
        BY <2>1, <3>1, <4>1, <4>2
    <3> QED
      BY <3>2, <3>3
  <2>6. Upto(k + 1, h)
    BY <2>4, <2>5
  <2>7. \E f : Upto(k + 1, f)
    <3> HIDE DEF Upto, h
    <3> QED
      BY <2>6
  <2>8. k + 1 \in 0 .. n
    BY <2>2
  <2> QED
    BY <2>7, <2>8
<1>3. 0 .. n \subseteq Good
  <2> HIDE DEF Good
  <2> QED
    BY <1>1, <1>2, IntervalInduction
<1>4. n \in Good
  BY <1>3
<1>5. PICK g : Upto(n, g)
  BY <1>4
<1> QED
  BY <1>5 DEF Recursive
===============================================================================
