-------------------------- MODULE IterationProofs --------------------------
(***************************************************************************)
(* What the proofs about loops rest on: induction from 0 to a number, and  *)
(* the course of values that steps taken one after the other lead through. *)
(* The induction is for the numbers in a set, which the provers can        *)
(* instantiate, where the library's is for a predicate.                    *)
(***************************************************************************)
EXTENDS Iteration, WellFoundedInduction, TLAPS

(* Every set of natural numbers that is not empty has a least element.     *)
LEMMA LeastNumber ==
  ASSUME NEW A, A \subseteq Nat, A # {}
  PROVE  \E x \in A : \A y \in A : x <= y
<1>1. PICK x \in A : \A y \in A : ~ (<<y, x>> \in OpToRel(<, Nat))
  BY NatLessThanWellFounded, WFMin, Zenon
<1>2. ASSUME NEW y \in A PROVE x <= y
  <2>1. ~ (<<y, x>> \in {ss \in Nat \X Nat : ss[1] < ss[2]})
    BY <1>1, Zenon DEF OpToRel
  <2> QED BY ONLY <2>1, x \in A, y \in A, A \subseteq Nat
<1> QED BY <1>2

(* Induction from 0 to N, for the numbers in a set.                        *)
LEMMA UpTo ==
  ASSUME NEW N \in Nat, NEW S, 0 \in S, \A n \in 1..N : n - 1 \in S => n \in S
  PROVE  \A n \in 0..N : n \in S
<1> SUFFICES ASSUME NEW m \in 0..N, m \notin S PROVE FALSE
  OBVIOUS
<1> DEFINE A == {n \in 0..N : n \notin S}
<1>1. A \subseteq Nat /\ A # {}
  OBVIOUS
<1>2. PICK n \in A : \A y \in A : n <= y
  <2> HIDE DEF A
  <2> QED BY ONLY <1>1, LeastNumber, Zenon
<1>3. n \in 1..N /\ n - 1 \in 0..N
  BY <1>2
<1>4. n - 1 \notin A
  BY <1>2, <1>3
<1> QED BY <1>2, <1>3, <1>4

(* f is the course that steps on a set of values take, one after the other *)
IsCourse(f, V, N, v, step) ==
  f \in [0..N -> V] /\ f[0] = v /\ \A n \in 1..N : f[n] = step[n][f[n - 1]]

(* There is always one.                                                    *)
LEMMA Course ==
  ASSUME NEW V, NEW N \in Nat, NEW v \in V, NEW step \in [1..N -> [V -> V]]
  PROVE  \E f : IsCourse(f, V, N, v, step)
<1> DEFINE P(k) == \E f : IsCourse(f, V, k, v, step)
           S == {k \in 0..N : P(k)}
<1>1. 0 \in S
  <2> DEFINE f == [n \in 0..0 |-> v]
  <2>1. IsCourse(f, V, 0, v, step)
    BY DEF IsCourse
  <2> HIDE DEF f
  <2>2. P(0)
    BY ONLY <2>1, Zenon
  <2> HIDE DEF P
  <2> QED BY <2>2
<1>2. ASSUME NEW k \in 1..N, k - 1 \in S PROVE k \in S
  <2>1. PICK f : IsCourse(f, V, k - 1, v, step)
    BY <1>2
  <2> DEFINE g == [n \in 0..k |-> IF n = k THEN step[k][f[k - 1]] ELSE f[n]]
  <2>2. k \in Nat /\ k - 1 \in 0..(k - 1) /\ \A n \in 0..k : n # k => n \in 0..(k - 1)
    OBVIOUS
  <2>3. f[k - 1] \in V /\ step[k] \in [V -> V] /\ step[k][f[k - 1]] \in V
    BY <2>1, <2>2 DEF IsCourse
  <2>4. g \in [0..k -> V]
    BY <2>1, <2>2, <2>3 DEF IsCourse
  <2>5. g[0] = v
    BY <2>1, <2>2 DEF IsCourse
  <2>6. ASSUME NEW n \in 1..k PROVE g[n] = step[n][g[n - 1]]
    <3>1. n - 1 \in 0..(k - 1) /\ n - 1 # k /\ n \in 0..k /\ n - 1 \in 0..k
      BY <2>2
    <3>2. g[n - 1] = f[n - 1]
      BY <3>1
    <3>3. CASE n = k
      BY <3>1, <3>2, <3>3
    <3>4. CASE n # k
      <4>1. n \in 1..(k - 1) /\ g[n] = f[n]
        BY <2>2, <3>1, <3>4
      <4> QED BY <2>1, <3>2, <4>1 DEF IsCourse
    <3> QED BY <3>3, <3>4
  <2> HIDE DEF g
  <2>7. IsCourse(g, V, k, v, step)
    BY <2>4, <2>5, <2>6 DEF IsCourse
  <2>8. P(k)
    BY <2>7
  <2> HIDE DEF P
  <2> QED BY <2>8
<1>3. N \in 0..N
  OBVIOUS
<1>4. N \in S
  <2> HIDE DEF S
  <2>1. \A k \in 1..N : k - 1 \in S => k \in S
    BY <1>2
  <2> QED BY ONLY <1>1, <1>3, <2>1, N \in Nat, UpTo, Zenon
<1> QED BY <1>4
=============================================================================
