--------------------------- MODULE RecursionLemmas ---------------------------
(***************************************************************************)
(* Induction on natural numbers as a fact about sets, and with it what     *)
(* recursive functions on 0..n compute.  The library states both with an   *)
(* operator for the induction hypothesis or the recursion step; here the   *)
(* one is a set and the other a function.                                  *)
(***************************************************************************)
EXTENDS Integers, FiniteSetTheorems, WellFoundedInduction, TLAPS

LEMMA LeastNat ==
    ASSUME NEW T \in SUBSET Nat, T # {}
    PROVE  \E x \in T : \A y \in T : x <= y
  <1> DEFINE R == OpToRel(<, Nat)
  <1>1. IsWellFoundedOn(R, Nat)
    BY NatLessThanWellFounded, Zenon
  <1> HIDE DEF R
  <1>2. PICK x \in T : \A y \in T : <<y, x>> \notin R
    BY <1>1, WFMin
  <1>3. \A y \in T : ~(y < x)
    BY <1>2 DEF R, OpToRel
  <1>4. QED BY <1>3

LEMMA SetInduction ==
    ASSUME NEW S, 0 \in S, \A n \in Nat : n \in S => n + 1 \in S
    PROVE  Nat \subseteq S
  <1> SUFFICES ASSUME Nat \ S # {} PROVE FALSE
    OBVIOUS
  <1>1. PICK x \in Nat \ S : \A y \in Nat \ S : x <= y
    BY LeastNat
  <1>2. x # 0 /\ x - 1 \in Nat /\ x - 1 \in S
    BY <1>1
  <1>3. QED BY <1>1, <1>2

\* What holds at 0 and is passed on by every step holds up to n.
LEMMA UpTo ==
    ASSUME NEW n \in Nat, NEW S, 0 \in S, \A i \in 1..n : i - 1 \in S => i \in S
    PROVE  0..n \subseteq S
  <1> DEFINE T == {i \in Nat : i <= n => i \in S}
  <1>1. 0 \in T
    OBVIOUS
  <1>2. \A i \in Nat : i \in T => i + 1 \in T
    <2> SUFFICES ASSUME NEW i \in Nat, i \in T, i + 1 <= n PROVE i + 1 \in S
      OBVIOUS
    <2>1. i + 1 \in 1..n /\ (i + 1) - 1 = i /\ i \in S
      OBVIOUS
    <2>2. QED BY <2>1
  <1> HIDE DEF T
  <1>3. Nat \subseteq T
    BY <1>1, <1>2, SetInduction
  <1>4. QED BY <1>3 DEF T

\* A recursion is given by its first value and its step, a function of the place
\* and of the value before it.
Solves(g, n, B, b, step) ==
    /\ g \in [0..n -> B] /\ g[0] = b
    /\ \A i \in 1..n : g[i] = step[<<i, g[i - 1]>>]

LEMMA RecursionExists ==
    ASSUME NEW n \in Nat, NEW B, NEW b \in B, NEW step \in [(1..n) \X B -> B]
    PROVE  \E g : Solves(g, n, B, b, step)
  <1> DEFINE S == {m \in 0..n : \E g : Solves(g, m, B, b, step)}
  <1>1. 0 \in S
    <2> DEFINE f == [i \in 0..0 |-> b]
    <2>1. Solves(f, 0, B, b, step)
      BY DEF Solves
    <2> HIDE DEF f
    <2>2. QED BY <2>1
  <1>2. ASSUME NEW m \in 1..n, m - 1 \in S PROVE m \in S
    <2>1. PICK g : Solves(g, m - 1, B, b, step)
      BY <1>2
    <2> USE DEF Solves
    <2> DEFINE h == [i \in 0..m |-> IF i = m THEN step[<<m, g[m - 1]>>] ELSE g[i]]
    <2>2. g[m - 1] \in B /\ step[<<m, g[m - 1]>>] \in B
      BY <2>1
    <2>3. h \in [0..m -> B] /\ h[0] = b
      <3>1. \A i \in 0..m : i # m => i \in 0..(m - 1) /\ g[i] \in B
        BY <2>1
      <3>2. 0 \in 0..m /\ 0 # m
        OBVIOUS
      <3>3. QED BY <2>1, <2>2, <3>1, <3>2
    <2>4. ASSUME NEW i \in 1..m PROVE h[i] = step[<<i, h[i - 1]>>]
      <3>1. h[i - 1] = g[i - 1] /\ h[m] = step[<<m, g[m - 1]>>] /\ (i # m => h[i] = g[i])
        OBVIOUS
      <3> HIDE DEF h
      <3>2. i # m => i \in 1..(m - 1)
        OBVIOUS
      <3>3. QED BY <2>1, <3>1, <3>2
    <2> HIDE DEF h
    <2>5. Solves(h, m, B, b, step)
      BY <2>3, <2>4
    <2>6. QED BY <2>5
  <1> HIDE DEF S
  <1>3. n \in S
    BY <1>1, <1>2, UpTo
  <1>4. QED BY <1>3 DEF S

\* And what it computes up to n depends on nothing after n.
LEMMA RecursionUnique ==
    ASSUME NEW n \in Nat, NEW g, NEW h, g[0] = h[0],
           \A i \in 1..n : g[i - 1] = h[i - 1] => g[i] = h[i]
    PROVE  \A i \in 0..n : g[i] = h[i]
  <1> DEFINE S == {i \in 0..n : g[i] = h[i]}
  <1>1. 0 \in S /\ \A i \in 1..n : i - 1 \in S => i \in S
    OBVIOUS
  <1> HIDE DEF S
  <1>2. 0..n \subseteq S
    BY <1>1, UpTo
  <1>3. QED BY <1>2 DEF S
=============================================================================
