------------------------------ MODULE Recursion ------------------------------
(***************************************************************************)
(* Induction and recursion over 0 .. n for the proof modules.  The         *)
(* library's induction theorems have an operator for a parameter; here the *)
(* property is a set and the step a function, so that they can be cited.   *)
(* A recursive function of a model is what a loop of the code computes:    *)
(* RecursionExists is why it equals its own right-hand side.               *)
(***************************************************************************)
EXTENDS Integers, Sequences, WellFoundedInduction, TLAPS

\* A set of natural numbers that is not empty has a least element.
LEMMA LeastNatural ==
    ASSUME NEW T \in SUBSET Nat, NEW n \in T
    PROVE  \E m \in T : \A k \in T : m <= k
<1>1. PICK m \in T : \A k \in T : ~ (<<k, m>> \in OpToRel(<, Nat))
  <2> DEFINE R == OpToRel(<, Nat)
  <2>1. IsWellFoundedOn(R, Nat) /\ T # {}
    BY NatLessThanWellFounded
  <2> HIDE DEF R
  <2>2. \E x \in T : \A y \in T : ~ (<<y, x>> \in R)
    BY <2>1, WFMin
  <2>3. QED
    BY <2>2 DEF R
<1>2. \A k \in T : ~ (k < m)
  BY <1>1 DEF OpToRel
<1>3. QED
  BY <1>2

\* A set that holds 0, and i whenever it holds i - 1, holds all up to n.
LEMMA UpTo ==
    ASSUME NEW n \in Nat, NEW S,
           0 \in S, \A i \in 1 .. n : i - 1 \in S => i \in S
    PROVE  0 .. n \subseteq S
<1> SUFFICES ASSUME NEW k \in 0 .. n, k \notin S PROVE FALSE
  OBVIOUS
<1>1. (0 .. n) \ S \in SUBSET Nat /\ k \in (0 .. n) \ S
  OBVIOUS
<1>2. PICK m \in (0 .. n) \ S : \A j \in (0 .. n) \ S : m <= j
  BY <1>1, LeastNatural
<1>3. m \in 1 .. n /\ m - 1 \in 0 .. n /\ m - 1 \notin (0 .. n) \ S
  BY <1>2
<1>4. QED
  BY <1>2, <1>3

\* A loop of n turns, each a function from values to values, and a run of it.
Turns(n, V) == [1 .. n -> [V -> V]]

IsRun(f, V, v0, n, step) ==
    /\ f \in [0 .. n -> V]
    /\ f[0] = v0
    /\ \A i \in 1 .. n : f[i] = step[i][f[i - 1]]

\* Every loop has a run.
LEMMA RecursionExists ==
    ASSUME NEW V, NEW v0 \in V, NEW n \in Nat, NEW step \in Turns(n, V)
    PROVE  \E f : IsRun(f, V, v0, n, step)
<1> USE DEF Turns, IsRun
<1> DEFINE Upto(k) == {f \in [0 .. k -> V] :
                         /\ f[0] = v0
                         /\ \A i \in 1 .. k : f[i] = step[i][f[i - 1]]}
           S == {k \in 0 .. n : Upto(k) # {}}
<1>1. 0 \in S
  <2>1. [i \in 0 .. 0 |-> v0] \in Upto(0)
    OBVIOUS
  <2>2. QED
    BY <2>1
<1>2. ASSUME NEW k \in 1 .. n, k - 1 \in S PROVE k \in S
  <2>1. PICK f \in Upto(k - 1) : TRUE
    BY <1>2
  <2> DEFINE g == [i \in 0 .. k |-> IF i = k THEN step[k][f[k - 1]] ELSE f[i]]
  <2>2. f[k - 1] \in V /\ step[k] \in [V -> V]
    BY <2>1
  <2>3. g \in [0 .. k -> V]
    BY <2>1, <2>2
  <2>4. g \in Upto(k)
    BY <2>1, <2>3
  <2>5. QED
    BY <2>4
<1> HIDE DEF S
<1>3. 0 .. n \subseteq S
  BY <1>1, <1>2, UpTo
<1>4. QED
  BY <1>3 DEF S
==============================================================================
