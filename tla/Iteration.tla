----------------------------- MODULE Iteration ------------------------------
(* Induction and recursion along an interval of numbers. The library states    *)
(* both with an operator as parameter, which the provers cannot instantiate;   *)
(* here they are about sets and functions.                                     *)
EXTENDS Naturals, FiniteSetTheorems, TLAPS

\* Induction along an interval: what holds at 0 and climbs one step at a time is at the
\* top. The successor would else map a finite set into a smaller one.
LEMMA Climb ==
  ASSUME NEW N \in Nat, NEW S, 0 \in S, \A n \in 0..N : n \in S /\ n # N => n + 1 \in S
  PROVE  N \in S
<1> SUFFICES ASSUME N \notin S PROVE FALSE
  OBVIOUS
<1> DEFINE A == S \cap (0..N)
           f == [n \in A |-> n + 1]
<1>1. IsFiniteSet(A)
  <2>1. IsFiniteSet(0..N)
    BY FS_Interval
  <2> QED
    BY <2>1, FS_Subset
<1>2. f \in Injection(A, A \ {0})
  <2>1. \A n \in A : n + 1 \in A \ {0}
    OBVIOUS
  <2>2. f \in [A -> A \ {0}]
    BY <2>1
  <2>3. \A m, n \in A : f[m] = f[n] => m = n
    OBVIOUS
  <2> QED
    BY <2>2, <2>3 DEF Injection, IsInjective
<1>3. 0 \in A
  OBVIOUS
<1> HIDE DEF A, f
<1>4. /\ IsFiniteSet(A \ {0})
      /\ Cardinality(A \ {0}) = Cardinality(A) - 1
  BY <1>1, <1>3, FS_RemoveElement
<1>5. Cardinality(A) <= Cardinality(A \ {0})
  BY <1>2, <1>4, FS_Injection
<1> QED
  BY <1>1, <1>4, <1>5, FS_CardinalityType

\* Every number of an interval is climbed to.
LEMMA ClimbAll ==
  ASSUME NEW N \in Nat, NEW S, 0 \in S, \A n \in 0..N : n \in S /\ n # N => n + 1 \in S
  PROVE  \A n \in 0..N : n \in S
<1> TAKE n \in 0..N
<1>1. n \in Nat /\ \A m \in 0..n : m \in S /\ m # n => m + 1 \in S
  OBVIOUS
<1> QED
  BY <1>1, Climb

\* Two functions that start alike and stay alike step by step are alike.
LEMMA StepsAgree ==
  ASSUME NEW N \in Nat, NEW f, NEW g, f[0] = g[0],
         \A n \in 0..N : n # N /\ f[n] = g[n] => f[n + 1] = g[n + 1]
  PROVE  \A n \in 0..N : f[n] = g[n]
<1> DEFINE Same == {n \in 0..N : f[n] = g[n]}
<1>1. 0 \in Same
  OBVIOUS
<1>2. \A n \in 0..N : n \in Same /\ n # N => n + 1 \in Same
  OBVIOUS
<1>3. \A n \in 0..N : n \in Same
  <2> HIDE DEF Same
  <2> QED
    BY <1>1, <1>2, ClimbAll
<1> QED
  BY <1>3

\* f takes first through N steps.
Iterates(f, N, U, first, step) ==
  /\ f \in [0..N -> U] /\ f[0] = first
  /\ \A n \in 0..N : n # 0 => f[n] = step[n][f[n - 1]]

IsStepOn(step, N, U) == \A n \in 0..N : step[n] \in [U -> U]

\* A recursion over an interval has a function: a step of the members of U can be done
\* again and again.
LEMMA StepsIterate ==
  ASSUME NEW N \in Nat, NEW U, NEW first \in U, NEW step, IsStepOn(step, N, U)
  PROVE  \E f : Iterates(f, N, U, first, step)
<1> DEFINE Is(f, k) == Iterates(f, k, U, first, step)
           Upto == {k \in 0..N : \E f : Is(f, k)}
<1> USE DEF Iterates, IsStepOn
<1>1. 0 \in Upto
  <2> DEFINE g == [n \in 0..0 |-> first]
  <2>1. Is(g, 0)
    OBVIOUS
  <2> HIDE DEF g, Is
  <2> QED
    BY <2>1
<1>2. ASSUME NEW k \in 0..N, k \in Upto, k # N PROVE k + 1 \in Upto
  <2>1. PICK f : Is(f, k)
    BY <1>2
  <2> DEFINE g == [n \in 0..k + 1 |-> IF n = k + 1 THEN step[k + 1][f[k]] ELSE f[n]]
  <2>2. \A n \in 0..k : g[n] = f[n]
    OBVIOUS
  <2>3. f[k] \in U
    BY <2>1
  <2>4. g \in [0..k + 1 -> U]
    <3>1. step[k + 1] \in [U -> U]
      BY <1>2
    <3> QED
      BY <2>1, <2>3, <3>1
  <2>5. g[k + 1] = step[k + 1][g[k]]
    BY <2>2
  <2>6. g[0] = first
    BY <2>1
  <2>7. \A n \in 0..k : n # 0 => g[n] = step[n][g[n - 1]]
    BY <2>1, <2>2
  <2>8. \A n \in 0..k + 1 : n # 0 => g[n] = step[n][g[n - 1]]
    <3> HIDE DEF g
    <3>1. 0..k + 1 = (0..k) \cup {k + 1}
      OBVIOUS
    <3> QED
      BY <2>5, <2>7, <3>1
  <2>9. k + 1 \in 0..N
    BY <1>2
  <2> HIDE DEF g
  <2> QED
    BY <2>4, <2>6, <2>8, <2>9
<1>3. N \in Upto
  <2> HIDE DEF Upto
  <2> QED
    BY <1>1, <1>2, Climb
<1> QED
  BY <1>3
=============================================================================
