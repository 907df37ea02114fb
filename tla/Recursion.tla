------------------------------ MODULE Recursion ------------------------------
(***************************************************************************)
(* Induction on a set of naturals, and the existence of the recursive      *)
(* functions that the modules define over an interval 0 .. N.  The theorems*)
(* of the library that do the same take an operator as a parameter.        *)
(***************************************************************************)
EXTENDS Integers, FiniteSetTheorems, WellFoundedInduction, TLAPS

(* Induction on a set of naturals.                                         *)
LEMMA SetInduction ==
    ASSUME NEW S \in SUBSET Nat, 0 \in S, \A n \in S : n + 1 \in S
    PROVE  Nat \subseteq S
<1> DEFINE T == {0 .. n : n \in Nat \ S}
<1> SUFFICES ASSUME T # {} PROVE FALSE
  OBVIOUS
<1>1. T \subseteq FiniteSubsetsOf(Nat)
  <2> SUFFICES ASSUME NEW n \in Nat PROVE 0 .. n \in FiniteSubsetsOf(Nat)
    OBVIOUS
  <2>1. IsFiniteSet(0 .. n) /\ 0 .. n \subseteq Nat
    BY FS_Interval
  <2> QED
    BY <2>1 DEF FiniteSubsetsOf
<1>2. PICK X \in T : \A Y \in T : <<Y, X>> \notin StrictSubsetOrdering(Nat)
  <2> HIDE DEF T
  <2> QED
    BY <1>1, FS_StrictSubsetOrderingWellFounded, WFMin
<1>3. PICK n \in Nat \ S : X = 0 .. n
  OBVIOUS
<1>4. n # 0 /\ n - 1 \in Nat \ S
  OBVIOUS
<1>5. 0 .. n - 1 \in T /\ 0 .. n - 1 \subseteq 0 .. n /\ 0 .. n - 1 # 0 .. n /\ 0 .. n \subseteq Nat
  BY <1>4
<1> QED
  BY <1>2, <1>3, <1>5 DEF StrictSubsetOrdering

(* A recursive function over the first N numbers exists.                   *)
LEMMA RecursionExists ==
    ASSUME NEW X, NEW base \in X, NEW N \in Nat, NEW step \in [1 .. N -> [X -> X]]
    PROVE  \E f \in [0 .. N -> X] :
             f[0] = base /\ \A i \in 1 .. N : f[i] = step[i][f[i - 1]]
<1> DEFINE Good(n, f) == f[0] = base /\ \A i \in 1 .. n : f[i] = step[i][f[i - 1]]
           S == {n \in Nat : n <= N => \E f \in [0 .. n -> X] : Good(n, f)}
<1>1. 0 \in S
  <2>1. [i \in 0 .. 0 |-> base] \in [0 .. 0 -> X] /\ Good(0, [i \in 0 .. 0 |-> base])
    OBVIOUS
  <2> QED
    BY <2>1
<1>2. ASSUME NEW n \in S PROVE n + 1 \in S
  <2> SUFFICES ASSUME n + 1 <= N PROVE \E f \in [0 .. n + 1 -> X] : Good(n + 1, f)
    OBVIOUS
  <2>1. PICK g \in [0 .. n -> X] : Good(n, g)
    BY <1>2
  <2> DEFINE f == [i \in 0 .. n + 1 |-> IF i = n + 1 THEN step[n + 1][g[n]] ELSE g[i]]
  <2>2. n \in 0 .. n /\ n + 1 \in 1 .. N /\ g[n] \in X /\ step[n + 1] \in [X -> X]
    OBVIOUS
  <2>3. step[n + 1][g[n]] \in X
    BY <2>2
  <2>4. f \in [0 .. n + 1 -> X]
    BY <2>3
  <2>5. \A i \in 0 .. n : f[i] = g[i]
    OBVIOUS
  <2>6. f[n + 1] = step[n + 1][g[n]]
    OBVIOUS
  <2> HIDE DEF f
  <2>7. ASSUME NEW i \in 1 .. n + 1 PROVE f[i] = step[i][f[i - 1]]
    <3>1. CASE i = n + 1
      BY <2>2, <2>5, <2>6, <3>1
    <3>2. CASE i # n + 1
      <4>1. i \in 1 .. n /\ i \in 0 .. n /\ i - 1 \in 0 .. n
        BY <3>2
      <4> QED
        BY <2>1, <2>5, <4>1
    <3> QED
      BY <3>1, <3>2
  <2>8. f[0] = base
    BY <2>1, <2>5
  <2> QED
    BY <2>4, <2>7, <2>8
<1>3. N \in S
  <2> HIDE DEF S
  <2>1. S \in SUBSET Nat
    BY DEF S
  <2> QED
    BY <1>1, <1>2, <2>1, SetInduction
<1> QED
  BY <1>3
==============================================================================
