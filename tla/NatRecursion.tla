---------------------------- MODULE NatRecursion ----------------------------
(***************************************************************************)
(* Induction and recursion over the natural numbers, from what the library *)
(* proves of well-founded relations.  A predicate is the set of numbers    *)
(* that have it and an operator is a function, so that the provers can     *)
(* instantiate the lemmas.                                                 *)
(***************************************************************************)
EXTENDS Integers, FiniteSetTheorems, TLAPS

\* A set of numbers that is not empty has a least one: of its initial
\* segments, finite sets, take one that no other is a strict subset of.
LEMMA LeastNat ==
  ASSUME NEW C \in SUBSET Nat, C # {}
  PROVE  \E n \in C : \A m \in C : n <= m
<1> DEFINE T == {0..n : n \in C}
<1>1. IsWellFoundedOn(StrictSubsetOrdering(Nat), FiniteSubsetsOf(Nat))
  BY FS_StrictSubsetOrderingWellFounded
<1>2. \A n \in C : 0..n \in FiniteSubsetsOf(Nat)
  BY FS_Interval DEF FiniteSubsetsOf
<1>3. T \subseteq FiniteSubsetsOf(Nat) /\ T # {}
  BY <1>2
<1>4. PICK x \in T : \A y \in T : <<y, x>> \notin StrictSubsetOrdering(Nat)
  <2> HIDE DEF T
  <2>1. QED
    BY <1>1, <1>3, WFMin
<1>5. PICK n \in C : x = 0..n
  BY <1>4
<1>6. ASSUME NEW m \in C, m < n PROVE FALSE
  <2>1. 0..m \in T /\ 0..m \subseteq 0..n /\ 0..m # 0..n
    BY <1>6
  <2>2. <<0..m, 0..n>> \in StrictSubsetOrdering(Nat)
    BY <2>1, <1>6 DEF StrictSubsetOrdering
  <2>3. QED
    BY <1>4, <1>5, <2>1, <2>2
<1>7. QED
  BY <1>6

\* Induction, for the numbers of a set.
LEMMA NatInd ==
  ASSUME NEW S, 0 \in S, \A n \in Nat : n \in S => n + 1 \in S
  PROVE  \A n \in Nat : n \in S
<1> SUFFICES ASSUME \E n \in Nat : n \notin S PROVE FALSE
  OBVIOUS
<1> DEFINE C == {n \in Nat : n \notin S}
<1>1. PICK n \in C : \A m \in C : n <= m
  BY LeastNat
<1>2. n \in Nat /\ n # 0 /\ n - 1 \in Nat /\ n - 1 \notin C
  BY <1>1
<1>3. n - 1 + 1 \in S
  BY <1>2
<1>4. QED
  BY <1>1, <1>2, <1>3

\* w is the function that starts at b and takes N steps, the n-th with h[n].
Accumulates(w, V, b, h, N) ==
  /\ w \in [0..N -> V]
  /\ w[0] = b
  /\ \A n \in 1..N : w[n] = h[n][w[n - 1]]

\* There is such a function, whatever h is.
LEMMA AccumulatesExists ==
  ASSUME NEW V, NEW b \in V, NEW N \in Nat, NEW h \in [1..N -> [V -> V]]
  PROVE  \E w : Accumulates(w, V, b, h, N)
<1> DEFINE S == {n \in Nat : n <= N => \E w : Accumulates(w, V, b, h, n)}
<1>1. 0 \in S
  <2> DEFINE w == [k \in 0..0 |-> b]
  <2>1. Accumulates(w, V, b, h, 0)
    BY DEF Accumulates
  <2>2. QED
    BY <2>1
<1>2. ASSUME NEW n \in Nat, n \in S PROVE n + 1 \in S
  <2> SUFFICES ASSUME n + 1 <= N PROVE \E w : Accumulates(w, V, b, h, n + 1)
    OBVIOUS
  <2>1. PICK w : Accumulates(w, V, b, h, n)
    BY <1>2
  <2>2. n + 1 \in 1..N /\ w[n] \in V
    BY <2>1 DEF Accumulates
  <2>3. h[n + 1][w[n]] \in V
    BY <2>2
  <2> DEFINE u == [k \in 0..n + 1 |-> IF k <= n THEN w[k] ELSE h[n + 1][w[n]]]
  <2>4. /\ u \in [0..n + 1 -> V]
        /\ u[0] = b
        /\ u[n + 1] = h[n + 1][w[n]]
        /\ \A k \in 0..n : u[k] = w[k]
    BY <2>1, <2>3 DEF Accumulates
  <2> HIDE DEF u
  <2>5. ASSUME NEW k \in 1..n + 1 PROVE u[k] = h[k][u[k - 1]]
    <3>1. CASE k = n + 1
      BY <2>4, <3>1
    <3>2. CASE k # n + 1
      <4>1. k \in 1..n /\ k \in 0..n /\ k - 1 \in 0..n
        BY <3>2
      <4>2. QED
        BY <2>1, <2>4, <4>1 DEF Accumulates
    <3>3. QED
      BY <3>1, <3>2
  <2>6. Accumulates(u, V, b, h, n + 1)
    BY <2>4, <2>5 DEF Accumulates
  <2>7. QED
    BY <2>6
<1>3. N \in S
  <2> HIDE DEF S
  <2>1. QED
    BY <1>1, <1>2, NatInd
<1>4. QED
  BY <1>3

\* A function that takes these steps where they are defined never leaves V.
LEMMA AccumulatesIfSteps ==
  ASSUME NEW V, NEW b \in V, NEW N \in Nat, NEW h \in [1..N -> [V -> V]],
         NEW w, w = [n \in 0..N |-> w[n]], w[0] = b,
         \A n \in 1..N : w[n - 1] \in V => w[n] = h[n][w[n - 1]]
  PROVE  Accumulates(w, V, b, h, N)
<1> DEFINE S == {n \in Nat : n <= N => w[n] \in V}
<1>1. 0 \in S
  OBVIOUS
<1>2. ASSUME NEW n \in Nat, n \in S PROVE n + 1 \in S
  <2> SUFFICES ASSUME n + 1 <= N PROVE w[n + 1] \in V
    OBVIOUS
  <2>1. n + 1 \in 1..N /\ n + 1 - 1 = n /\ w[n] \in V
    BY <1>2
  <2> DEFINE m == n + 1
  <2>2. m \in 1..N /\ w[m - 1] \in V
    BY <2>1
  <2> HIDE DEF m
  <2>3. w[m] = h[m][w[m - 1]] /\ h[m][w[m - 1]] \in V
    BY <2>2
  <2>4. QED
    BY <2>3 DEF m
<1>3. \A n \in Nat : n \in S
  <2> HIDE DEF S
  <2>1. QED
    BY <1>1, <1>2, NatInd
<1>4. \A n \in 0..N : w[n] \in V
  BY <1>3
<1>5. \A n \in 1..N : w[n] = h[n][w[n - 1]]
  <2>1. \A n \in 1..N : n - 1 \in 0..N
    OBVIOUS
  <2>2. QED
    BY <1>4, <2>1
<1>6. w \in [0..N -> V]
  BY <1>4
<1>7. QED
  BY <1>5, <1>6 DEF Accumulates

\* w is the function that starts at b and takes N steps with g.
Iterates(w, V, b, g, N) ==
  /\ w \in [0..N -> V]
  /\ w[0] = b
  /\ \A n \in 1..N : w[n] = g[w[n - 1]]

LEMMA IteratesExists ==
  ASSUME NEW V, NEW b \in V, NEW g \in [V -> V], NEW N \in Nat
  PROVE  \E w : Iterates(w, V, b, g, N)
<1> DEFINE h == [n \in 1..N |-> g]
<1>1. h \in [1..N -> [V -> V]] /\ \A n \in 1..N : h[n] = g
  OBVIOUS
<1> HIDE DEF h
<1>2. PICK w : Accumulates(w, V, b, h, N)
  BY <1>1, AccumulatesExists
<1>3. Iterates(w, V, b, g, N)
  BY <1>1, <1>2 DEF Accumulates, Iterates
<1>4. QED
  BY <1>3
=============================================================================
