-------------------------------- MODULE Loops ------------------------------
(***************************************************************************)
(* What the proofs about loops rest on: induction over the numbers, and    *)
(* that a recursive function over 0 .. n has the equation it was given.    *)
(***************************************************************************)
EXTENDS Integers, WellFoundedInduction, TLAPS

(* What holds of 0 and goes on from n to n + 1 holds of every number. *)
LEMMA Induction ==
    ASSUME NEW S, 0 \in S, \A n \in Nat : n \in S => n + 1 \in S
    PROVE  \A n \in Nat : n \in S
<1> SUFFICES ASSUME ~(\A n \in Nat : n \in S) PROVE FALSE
    OBVIOUS
<1> DEFINE T == Nat \ S
<1>1. T \subseteq Nat /\ T # {}
    OBVIOUS
<1>2. PICK n \in T : \A m \in T : ~(<<m, n>> \in OpToRel(<, Nat))
    <2> HIDE DEF T
    <2> QED BY <1>1, WFMin, NatLessThanWellFounded, Zenon
<1>3. n \in Nat /\ n # 0 /\ n - 1 \in Nat
    BY SMT
<1>4. n - 1 \in S
    <2>1. <<n - 1, n>> \in OpToRel(<, Nat)
        BY <1>3, SMT DEF OpToRel
    <2>2. n - 1 \notin T
        BY <2>1, <1>2, Zenon
    <2> QED BY <2>2, <1>3, Zenon
<1>5. (n - 1) + 1 \in S
    BY <1>3, <1>4, Zenon
<1> QED BY <1>3, <1>5, SMT

(* The same up to a number *)
LEMMA InductionUpto ==
    ASSUME NEW S, NEW n \in Nat, 0 \in S, \A k \in 0 .. n - 1 : k \in S => k + 1 \in S
    PROVE  \A k \in 0 .. n : k \in S
<1> DEFINE T == {k \in Nat : k <= n => k \in S}
<1>1. 0 \in T
    OBVIOUS
<1>2. \A k \in Nat : k \in T => k + 1 \in T
    BY SMT
<1> HIDE DEF T
<1>3. \A k \in Nat : k \in T
    BY <1>1, <1>2, Induction
<1> QED BY <1>3 DEF T

(* A set of numbers that is not empty has a least one. *)
LEMMA Smallest ==
    ASSUME NEW S, S \subseteq Nat, S # {}
    PROVE  \E m \in S : \A k \in S : m <= k
<1>1. PICK m \in S : \A k \in S : ~(<<k, m>> \in OpToRel(<, Nat))
    BY WFMin, NatLessThanWellFounded, Zenon
<1>2. ASSUME NEW k \in S PROVE m <= k
    <2>1. k \in Nat /\ m \in Nat
        OBVIOUS
    <2>2. ~(k < m)
        <3>1. k < m => <<k, m>> \in OpToRel(<, Nat)
            BY <2>1, SMT DEF OpToRel
        <3> QED BY <1>1, <3>1
    <2> QED BY <2>1, <2>2, SMT
<1> QED BY <1>2

(* f begins with c and takes n steps, the k-th by g[k]. *)
Follows(f, c, g, n) == f[0] = c /\ \A k \in 1 .. n : f[k] = g[k][f[k - 1]]

(* There is such a function if c is in S and no step leaves it. *)
LEMMA Recursion ==
    ASSUME NEW n \in Nat, NEW S, NEW c \in S, NEW g \in [1 .. n -> [S -> S]]
    PROVE  \E f \in [0 .. n -> S] : Follows(f, c, g, n)
<1> DEFINE T == {m \in Nat : m <= n => \E f \in [0 .. m -> S] : Follows(f, c, g, m)}
<1> USE DEF Follows
<1>1. 0 \in T
    <2> DEFINE f == [k \in 0 .. 0 |-> c]
    <2>1. f \in [0 .. 0 -> S] /\ Follows(f, c, g, 0)
        OBVIOUS
    <2> HIDE DEF f
    <2> QED BY <2>1
<1>2. ASSUME NEW m \in Nat, m \in T PROVE m + 1 \in T
    <2> SUFFICES ASSUME m + 1 <= n PROVE \E f \in [0 .. m + 1 -> S] : Follows(f, c, g, m + 1)
        OBVIOUS
    <2>1. PICK f \in [0 .. m -> S] : Follows(f, c, g, m)
        BY <1>2
    <2> DEFINE h == [k \in 0 .. m + 1 |-> IF k = m + 1 THEN g[m + 1][f[m]] ELSE f[k]]
    <2>2. g[m + 1] \in [S -> S] /\ f[m] \in S
        OBVIOUS
    <2>3. h \in [0 .. m + 1 -> S]
        BY <2>2
    <2>4. h[0] = c
        BY <2>1
    <2>5. ASSUME NEW k \in 1 .. m + 1 PROVE h[k] = g[k][h[k - 1]]
        <3>1. CASE k = m + 1
            BY <3>1
        <3>2. CASE k # m + 1
            BY <3>2, <2>1
        <3> QED BY <3>1, <3>2
    <2> HIDE DEF h
    <2> QED BY <2>3, <2>4, <2>5
<1> HIDE DEF T
<1>3. n \in T
    BY <1>1, <1>2, Induction
<1> QED BY <1>3 DEF T
=============================================================================
