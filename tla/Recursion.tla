------------------------------- MODULE Recursion -------------------------------
(******************************************************************************)
(* What the proofs need about loops over a list: induction over a prefix of   *)
(* the naturals, for a set in place of a predicate, and the existence of what *)
(* a loop that takes its result from one element to the next computes.        *)
(******************************************************************************)
EXTENDS Naturals, WellFoundedInduction, TLAPS

(* A set that contains 0 and with each number below n the next one contains   *)
(* every number up to n: the least one it missed would have to be 0 or to     *)
(* follow one it does not miss.                                               *)
LEMMA Induction ==
  ASSUME NEW n \in Nat, NEW S, 0 \in S, \A i \in 0 .. n : i < n /\ i \in S => i + 1 \in S
  PROVE  \A i \in 0 .. n : i \in S
<1>. DEFINE T == (0 .. n) \ S
            R == OpToRel(<, Nat)
<1>1. SUFFICES ASSUME T # {} PROVE FALSE
  OBVIOUS
<1>2. IsWellFoundedOn(R, Nat)
  BY NatLessThanWellFounded
<1>3. T \subseteq Nat
  OBVIOUS
<1>4. PICK m \in T : \A k \in T : ~ (<<k, m>> \in R)
  <2>. HIDE DEF T, R
  <2>. QED BY <1>1, <1>2, <1>3, WFMin
<1>5. m \in 0 .. n /\ m \notin S /\ m # 0
  BY <1>4
<1>6. <<m - 1, m>> \in R
  <2>1. m - 1 \in Nat /\ m \in Nat /\ m - 1 < m
    BY <1>5
  <2>. QED BY <2>1, Zenon DEF OpToRel
<1>. HIDE DEF R
<1>7. m - 1 \in S
  <2>1. m - 1 \notin T
    BY <1>4, <1>6
  <2>. QED BY <1>5, <2>1
<1>. QED BY <1>5, <1>7

(* g[i] is the result of the loop after i steps; it is in D.                  *)
IsLoop(g, n, D, b, h) ==
  g \in [0 .. n -> D] /\ \A i \in 0 .. n : g[i] = IF i = 0 THEN b ELSE h[i][g[i - 1]]

(* A loop over 1 .. n whose result starts as b and goes through h[i] at i has *)
(* a result after each step.                                                  *)
LEMMA LoopExists ==
  ASSUME NEW n \in Nat, NEW D, NEW b \in D, NEW h \in [1 .. n -> [D -> D]]
  PROVE  \E g : IsLoop(g, n, D, b, h)
<1>. DEFINE Is(g, m) == \A i \in 0 .. m : g[i] = IF i = 0 THEN b ELSE h[i][g[i - 1]]
            S == {m \in 0 .. n : \E g \in [0 .. n -> D] : Is(g, m)}
<1>1. 0 \in S
  <2>1. [i \in 0 .. n |-> b] \in [0 .. n -> D] /\ Is([i \in 0 .. n |-> b], 0)
    OBVIOUS
  <2>. HIDE DEF Is
  <2>. QED BY <2>1
<1>2. ASSUME NEW m \in 0 .. n, m < n, m \in S PROVE m + 1 \in S
  <2>1. PICK g \in [0 .. n -> D] : Is(g, m)
    BY <1>2
  <2>. DEFINE k == [g EXCEPT ![m + 1] = h[m + 1][g[m]]]
  <2>2. h[m + 1] \in [D -> D] /\ g[m] \in D
    BY <1>2
  <2>3. k \in [0 .. n -> D]
    BY <2>2
  <2>4. Is(k, m + 1)
    <3>1. SUFFICES ASSUME NEW i \in 0 .. m + 1 PROVE k[i] = IF i = 0 THEN b ELSE h[i][k[i - 1]]
      OBVIOUS
    <3>2. CASE i = m + 1
      BY <1>2, <3>2
    <3>3. CASE i # m + 1
      <4>1. i \in 0 .. m /\ k[i] = g[i] /\ (i # 0 => k[i - 1] = g[i - 1])
        BY <1>2, <3>3
      <4>. QED BY <2>1, <4>1
    <3>. QED BY <3>2, <3>3
  <2>. HIDE DEF k
  <2>5. m + 1 \in 0 .. n
    BY <1>2
  <2>. QED BY <2>3, <2>4, <2>5
<1>3. n \in S
  <2>1. \A m \in 0 .. n : m < n /\ m \in S => m + 1 \in S
    <3>. HIDE DEF S
    <3>. QED BY <1>2
  <2>2. \A m \in 0 .. n : m \in S
    <3>. HIDE DEF S
    <3>. QED BY <1>1, <2>1, Induction
  <2>3. n \in 0 .. n
    OBVIOUS
  <2>. HIDE DEF S
  <2>. QED BY <2>2, <2>3
<1>. QED BY <1>3 DEF IsLoop

================================================================================
