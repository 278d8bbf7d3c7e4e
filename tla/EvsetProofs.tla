---------------------------- MODULE EvsetProofs ----------------------------
(***************************************************************************)
(* Proofs about EvsetBuild, for any pages, any answers of the clock and    *)
(* any bounds.  Pools may hold any page any number of times; tests may say *)
(* anything, unless a theorem assumes ~Noisy.                              *)
(***************************************************************************)
EXTENDS EvsetBuild, NatRecursion, SequenceTheorems

\* No set of pages is closed under next.
Acyclic(next) == \A S \in SUBSET Page : S # {} => \E p \in S : next[p] \notin S

\* Linking e behind t, and ending the list at e, closes no circle, whatever
\* t is: e ends every walk that comes to it.
LEMMA LinkAcyclic ==
  ASSUME NEW next \in [Page -> Page \cup {Null}], Acyclic(next), NEW t, NEW e \in Page
  PROVE  LET n == [next EXCEPT ![t] = e, ![e] = Null]
         IN  n \in [Page -> Page \cup {Null}] /\ Acyclic(n)
<1> DEFINE n == [next EXCEPT ![t] = e, ![e] = Null]
<1>1. n \in [Page -> Page \cup {Null}]
  OBVIOUS
<1>2. n[e] = Null
  OBVIOUS
<1>3. \A p \in Page : p # e => n[p] \in {next[p], e}
  OBVIOUS
<1> HIDE DEF n
<1>4. ASSUME NEW S \in SUBSET Page, S # {}
      PROVE  \E p \in S : n[p] \notin S
  <2>1. CASE e \in S
    BY <1>2, <2>1, NullAssumption
  <2>2. CASE e \notin S
    <3>1. PICK p \in S : next[p] \notin S
      BY <1>4 DEF Acyclic
    <3>2. p \in Page /\ p # e
      BY <2>2
    <3>3. n[p] \notin S
      BY <1>3, <2>2, <3>1, <3>2
    <3>4. QED
      BY <3>3
  <2>3. QED
    BY <2>1, <2>2
<1>5. QED
  BY <1>1, <1>4 DEF Acyclic, n

LEMMA AppendAcyclic ==
  ASSUME NEW l \in List, Acyclic(l.next), NEW e \in Page \cup {Null}
  PROVE  list_append(l, e) \in List /\ Acyclic(list_append(l, e).next)
<1>1. CASE e = Null \/ (l.head # Null /\ AlreadyExists(l, e))
  BY <1>1 DEF list_append
<1>2. CASE e # Null /\ l.head = Null
  <2>1. list_append(l, e) = [l EXCEPT !.head = e]
    BY <1>2 DEF list_append
  <2>2. QED
    BY <2>1 DEF List
<1>3. CASE e # Null /\ l.head # Null /\ ~AlreadyExists(l, e)
  <2> DEFINE n == [l.next EXCEPT ![Last(Walk(l))] = e, ![e] = Null]
  <2>1. list_append(l, e) = [l EXCEPT !.next = n]
    BY <1>3 DEF list_append
  <2>2. e \in Page /\ l.next \in [Page -> Page \cup {Null}]
    BY <1>3 DEF List
  <2>3. n \in [Page -> Page \cup {Null}] /\ Acyclic(n)
    BY <2>2, LinkAcyclic
  <2> HIDE DEF n
  <2>4. QED
    BY <2>1, <2>3 DEF List
<1>4. QED
  BY <1>1, <1>2, <1>3

LEMMA PopAcyclic ==
  ASSUME NEW l \in List, Acyclic(l.next)
  PROVE  list_pop(l) \in List /\ Acyclic(list_pop(l).next)
<1>1. CASE l.head = Null
  BY <1>1 DEF list_pop
<1>2. CASE l.head # Null
  <2> DEFINE n == [l.next EXCEPT ![l.head] = Null]
  <2>1. list_pop(l) = [head |-> l.next[l.head], next |-> n]
    BY <1>2 DEF list_pop
  <2>2. l.head \in Page /\ n \in [Page -> Page \cup {Null}] /\ l.next[l.head] \in Page \cup {Null}
    BY <1>2 DEF List
  <2>3. \A p \in Page : n[p] \in {l.next[p], Null}
    BY DEF List
  <2> HIDE DEF n
  <2>4. Acyclic(n)
    BY <2>3, NullAssumption DEF Acyclic
  <2>5. QED
    BY <2>1, <2>2, <2>4 DEF List
<1>3. QED
  BY <1>1, <1>2

-----------------------------------------------------------------------------
\* What the loop of Walk adds to a part s of the walk, and where it starts.
Grow(l) == [s \in Seq(Page) |->
  IF s = <<>> \/ l.next[Last(s)] = Null THEN s ELSE Append(s, l.next[Last(s)])]
From(l) == IF l.head = Null THEN <<>> ELSE <<l.head>>

\* The recursive function in Walk exists, so Walk can be unfolded.
LEMMA WalkSteps ==
  ASSUME NEW l \in List
  PROVE  \E w : /\ Iterates(w, Seq(Page), From(l), Grow(l), Cardinality(Page))
                /\ Walk(l) = w[Cardinality(Page)]
<1> DEFINE N == Cardinality(Page)
           Def(w) == [n \in 0..N |->
                       IF n = 0
                       THEN IF l.head = Null THEN <<>> ELSE <<l.head>>
                       ELSE LET s == w[n - 1]
                            IN  IF s = <<>> \/ l.next[Last(s)] = Null
                                THEN s ELSE Append(s, l.next[Last(s)])]
           W == CHOOSE w : w = Def(w)
<1>1. N \in Nat
  BY PageAssumption, FS_CardinalityType
<1>2. From(l) \in Seq(Page) /\ Grow(l) \in [Seq(Page) -> Seq(Page)]
  BY DEF From, Grow, List, Last
<1> HIDE DEF N
<1>3. PICK v : Iterates(v, Seq(Page), From(l), Grow(l), N)
  <2> DEFINE F == From(l)
             G == Grow(l)
             V == Seq(Page)
  <2>1. F \in V /\ G \in [V -> V]
    BY <1>2
  <2> HIDE DEF F, G, V, Def
  <2>2. \E w : Iterates(w, V, F, G, N)
    BY <1>1, <2>1, IteratesExists
  <2>3. QED
    BY <2>2 DEF F, G, V
<1>4. v = Def(v)
  <2>1. \A n \in 0..N : n # 0 => n \in 1..N /\ v[n - 1] \in Seq(Page)
    BY <1>1, <1>3 DEF Iterates
  <2>2. \A n \in 0..N : v[n] = Def(v)[n]
    BY <1>1, <1>3, <2>1 DEF From, Grow, Iterates
  <2>3. v = [n \in 0..N |-> v[n]]
    BY <1>3 DEF Iterates
  <2>4. QED
    BY <2>2, <2>3
<1>5. W = Def(W)
  <2> HIDE DEF Def
  <2>1. QED
  BY <1>4
<1>6. Walk(l) = W[N]
  BY Zenon DEF Walk, N
<1> HIDE DEF W
<1>7. W[0] = From(l) /\ \A n \in 1..N : W[n - 1] \in Seq(Page) => W[n] = Grow(l)[W[n - 1]]
  <2>1. \A n \in 1..N : n \in 0..N /\ n # 0
    BY <1>1
  <2>2. \A n \in 0..N : W[n] = Def(W)[n]
    BY <1>5
  <2>3. QED
    BY <1>1, <2>1, <2>2 DEF From, Grow
<1>8. DOMAIN W = 0..N
  BY <1>5
<1>9. W = [n \in DOMAIN W |-> W[n]]
  BY <1>5
<1> HIDE DEF W, Def
<1>10. \A n \in 0..N : W[n] \in Seq(Page)
  <2> DEFINE S == {n \in Nat : n <= N => W[n] \in Seq(Page)}
  <2>1. 0 \in S
    BY <1>2, <1>7
  <2>2. ASSUME NEW n \in Nat, n \in S PROVE n + 1 \in S
    BY <1>1, <1>2, <1>7, <2>2
  <2> HIDE DEF S
  <2>3. \A n \in Nat : n \in S
    BY <2>1, <2>2, NatInd
  <2>4. QED
    BY <2>3, <1>1 DEF S
<1>11. QED
  <2>1. \A n \in 1..N : n - 1 \in 0..N
    BY <1>1
  <2>2. \A n \in 1..N : W[n] = Grow(l)[W[n - 1]]
    BY <1>7, <1>10, <2>1
  <2>3. W \in [0..N -> Seq(Page)]
    BY <1>8, <1>9, <1>10
  <2>4. QED
    BY <1>6, <1>7, <2>2, <2>3 DEF N, Iterates

\* The first pages of a list, each linked to the next.
Path(s, l) ==
  /\ s \in Seq(Page) /\ s # <<>>
  /\ s[1] = l.head
  /\ \A k \in 1..Len(s) - 1 : l.next[s[k]] = s[k + 1]

\* All of them: the last one is linked to nothing.
IsWalk(s, l) ==
  IF l.head = Null THEN s = <<>> ELSE Path(s, l) /\ l.next[Last(s)] = Null

\* A path that came back to a page would be a circle ...
LEMMA PathNoRepeat ==
  ASSUME NEW l \in List, Acyclic(l.next), NEW s, Path(s, l),
         NEW i \in 1..Len(s), NEW j \in 1..Len(s), i < j
  PROVE  s[i] # s[j]
<1> SUFFICES ASSUME s[i] = s[j] PROVE FALSE
  OBVIOUS
<1> DEFINE S == {s[k] : k \in i..j - 1}
<1>1. s \in Seq(Page) /\ Len(s) \in Nat /\ \A k \in 1..Len(s) : s[k] \in Page
  BY DEF Path
<1>2. S \in SUBSET Page /\ s[i] \in S
  BY <1>1
<1>3. ASSUME NEW k \in i..j - 1 PROVE l.next[s[k]] \in S
  <2>1. l.next[s[k]] = s[k + 1]
    BY <1>1 DEF Path
  <2>2. CASE k + 1 = j
    BY <1>2, <2>1, <2>2
  <2>3. CASE k + 1 # j
    <3>1. k + 1 \in i..j - 1
      BY <2>3
    <3>2. QED
      BY <2>1, <3>1
  <2>4. QED
    BY <2>2, <2>3
<1>4. QED
  BY <1>2, <1>3 DEF Acyclic

\* ... so it is no longer than there are pages.
LEMMA PathShort ==
  ASSUME NEW l \in List, Acyclic(l.next), NEW s, Path(s, l)
  PROVE  Len(s) <= Cardinality(Page)
<1>1. s \in [1..Len(s) -> Page] /\ Len(s) \in Nat
  BY DEF Path
<1>2. \A i, j \in 1..Len(s) : s[i] = s[j] => i = j
  BY PathNoRepeat, <1>1
<1>3. s \in Injection(1..Len(s), Page)
  BY <1>1, <1>2 DEF Injection, IsInjective
<1>4. Cardinality(1..Len(s)) = Len(s)
  <2> DEFINE n == Len(s)
  <2>1. n \in Nat
    BY <1>1
  <2> HIDE DEF n
  <2>2. Cardinality(1..n) = n
    BY <2>1, FS_Interval
  <2>3. QED
    BY <2>2 DEF n
<1>5. QED
  BY <1>3, <1>4, PageAssumption, FS_Injection

\* The cut-off in Walk is never reached: what it returns ends at Null.
LEMMA WalkIsWalk ==
  ASSUME NEW l \in List, Acyclic(l.next)
  PROVE  IsWalk(Walk(l), l)
<1> DEFINE N == Cardinality(Page)
<1>0. N \in Nat
  BY PageAssumption, FS_CardinalityType
<1>1. PICK w : Iterates(w, Seq(Page), From(l), Grow(l), N) /\ Walk(l) = w[N]
  BY WalkSteps
<1>2. CASE l.head = Null
  <2> DEFINE S == {n \in Nat : n <= N => w[n] = <<>>}
  <2>1. 0 \in S
    BY <1>1, <1>2 DEF Iterates, From
  <2>2. ASSUME NEW n \in Nat, n \in S PROVE n + 1 \in S
    <3>1. SUFFICES ASSUME n + 1 <= N PROVE w[n + 1] = <<>>
      OBVIOUS
    <3>2. w[n + 1] = Grow(l)[w[n]] /\ w[n] = <<>>
      BY <1>0, <1>1, <2>2, <3>1 DEF Iterates
    <3>3. QED
      BY <3>2 DEF Grow
  <2> HIDE DEF S
  <2>3. \A n \in Nat : n \in S
    BY <2>1, <2>2, NatInd
  <2>4. w[N] = <<>>
    BY <2>3, <1>0 DEF S
  <2>5. QED
    BY <1>1, <1>2, <2>4 DEF IsWalk
<1>3. CASE l.head # Null
  <2> DEFINE Good(n) == /\ Path(w[n], l)
                        /\ Len(w[n]) = n + 1 \/ l.next[Last(w[n])] = Null
             S == {n \in Nat : n <= N => Good(n)}
  <2>1. 0 \in S
    <3>1. w[0] = <<l.head>> /\ l.head \in Page
      BY <1>1, <1>3 DEF Iterates, From, List
    <3>2. Path(w[0], l) /\ Len(w[0]) = 0 + 1
      BY <3>1 DEF Path
    <3>3. QED
      BY <3>2
  <2>2. ASSUME NEW n \in Nat, n \in S, n + 1 <= N PROVE Good(n + 1)
    <3>1. Path(w[n], l) /\ (Len(w[n]) = n + 1 \/ l.next[Last(w[n])] = Null)
      BY <1>0, <2>2
    <3> DEFINE s == w[n]
               e == l.next[Last(s)]
    <3>2. w[n + 1] = Grow(l)[s]
      BY <1>0, <1>1, <2>2 DEF Iterates
    <3>3. s \in Seq(Page) /\ s # <<>> /\ Len(s) \in Nat \ {0} /\ Last(s) \in Page /\ e \in Page \cup {Null}
      BY <3>1, EmptySeq DEF Path, Last, List
    <3> HIDE DEF s
    <3>4. CASE e = Null
      <4>1. w[n + 1] = s
        BY <3>2, <3>3, <3>4 DEF Grow
      <4>2. QED
        BY <3>1, <3>4, <4>1 DEF s
    <3>5. CASE e # Null
      <4> DEFINE t == Append(s, e)
      <4>1. w[n + 1] = t
        BY <3>2, <3>3, <3>5 DEF Grow
      <4>2. e \in Page /\ Len(s) = n + 1
        BY <3>1, <3>3, <3>5 DEF s
      <4>3. /\ t \in Seq(Page) /\ t # <<>> /\ Len(t) = n + 2
            /\ t[n + 2] = e
            /\ \A k \in 1..n + 1 : t[k] = s[k]
        BY <3>3, <4>2, AppendProperties
      <4> HIDE DEF t
      <4>4. t[1] = l.head
        BY <3>1, <4>3 DEF Path, s
      <4>5. ASSUME NEW k \in 1..n + 1 PROVE l.next[t[k]] = t[k + 1]
        <5>1. CASE k = n + 1
          BY <4>2, <4>3, <5>1 DEF Last
        <5>2. CASE k < n + 1
          <6>1. l.next[s[k]] = s[k + 1]
            BY <3>1, <4>2, <5>2 DEF Path, s
          <6>2. QED
            BY <4>3, <5>2, <6>1
        <5>3. QED
          BY <5>1, <5>2
      <4>6. QED
        BY <4>1, <4>3, <4>4, <4>5 DEF Path
    <3>6. QED
      BY <3>4, <3>5
  <2>3. \A n \in Nat : n \in S
    <3>1. \A n \in Nat : n \in S => n + 1 \in S
      BY <2>2
    <3> HIDE DEF S
    <3>2. QED
      BY <2>1, <3>1, NatInd
  <2>4. Path(w[N], l) /\ (Len(w[N]) = N + 1 \/ l.next[Last(w[N])] = Null)
    BY <2>3, <1>0
  <2>5. Len(w[N]) <= N
    BY <2>4, PathShort
  <2>6. l.next[Last(w[N])] = Null
    BY <2>4, <2>5, <1>0
  <2>7. QED
    BY <1>1, <1>3, <2>4, <2>6 DEF IsWalk
<1>4. QED
  BY <1>2, <1>3

\* A list has one walk, so the walk of a changed list is known once a
\* sequence with these links is.
LEMMA WalkUnique ==
  ASSUME NEW l \in List, NEW s, IsWalk(s, l), NEW t, IsWalk(t, l)
  PROVE  s = t
<1>1. CASE l.head = Null
  BY <1>1 DEF IsWalk
<1>2. CASE l.head # Null
  <2>1. /\ Path(s, l) /\ l.next[s[Len(s)]] = Null
        /\ Path(t, l) /\ l.next[t[Len(t)]] = Null
    BY <1>2 DEF IsWalk, Last
  <2>2. /\ s \in Seq(Page) /\ Len(s) \in Nat \ {0}
        /\ t \in Seq(Page) /\ Len(t) \in Nat \ {0}
    BY <2>1, EmptySeq DEF Path
  <2> DEFINE S == {n \in Nat : n + 1 <= Len(s) /\ n + 1 <= Len(t) => s[n + 1] = t[n + 1]}
  <2>3. 0 \in S
    BY <2>1 DEF Path
  <2>4. ASSUME NEW n \in Nat, n \in S, n + 2 <= Len(s), n + 2 <= Len(t)
        PROVE  s[n + 2] = t[n + 2]
    <3>1. s[n + 1] = t[n + 1]
      BY <2>2, <2>4
    <3>2. l.next[s[n + 1]] = s[n + 2] /\ l.next[t[n + 1]] = t[n + 2]
      BY <2>1, <2>2, <2>4 DEF Path
    <3>3. QED
      BY <3>1, <3>2
  <2>5. \A n \in Nat : n \in S => n + 1 \in S
    BY <2>4, <2>2
  <2>6. \A n \in Nat : n \in S
    <3> HIDE DEF S
    <3>1. QED
      BY <2>3, <2>5, NatInd
  <2>7. \A k \in 1..Len(s) : k <= Len(t) => s[k] = t[k]
    <3>1. ASSUME NEW k \in 1..Len(s), k <= Len(t) PROVE s[k] = t[k]
      <4>1. k - 1 \in Nat /\ (k - 1) + 1 = k
        BY <2>2
      <4> HIDE DEF S
      <4>2. k - 1 \in S
        BY <2>6, <4>1
      <4>3. QED
        BY <2>2, <3>1, <4>1, <4>2 DEF S
    <3>2. QED
      BY <3>1
  <2>8. ASSUME Len(s) < Len(t) PROVE FALSE
    <3>1. s[Len(s)] = t[Len(s)] /\ l.next[t[Len(s)]] = t[Len(s) + 1] /\ t[Len(s) + 1] \in Page
      BY <2>1, <2>2, <2>7, <2>8 DEF Path
    <3>2. QED
      BY <2>1, <3>1, NullAssumption
  <2>9. ASSUME Len(t) < Len(s) PROVE FALSE
    <3>1. s[Len(t)] = t[Len(t)] /\ l.next[s[Len(t)]] = s[Len(t) + 1] /\ s[Len(t) + 1] \in Page
      BY <2>1, <2>2, <2>7, <2>9 DEF Path
    <3>2. QED
      BY <2>1, <3>1, NullAssumption
  <2>10. QED
    BY <2>2, <2>7, <2>8, <2>9, SeqEqual
<1>3. QED
  BY <1>1, <1>2

\* What the proofs below need of a walk.
LEMMA WalkFacts ==
  ASSUME NEW l \in List, Acyclic(l.next)
  PROVE  /\ Walk(l) \in Seq(Page)
         /\ Len(Walk(l)) \in Nat
         /\ \A i, j \in 1..Len(Walk(l)) : Walk(l)[i] = Walk(l)[j] => i = j
         /\ Elements(l) = {Walk(l)[k] : k \in 1..Len(Walk(l))}
         /\ l.head = Null => Walk(l) = <<>> /\ Len(Walk(l)) = 0
         /\ l.head # Null => /\ Len(Walk(l)) > 0
                             /\ Walk(l)[1] = l.head
                             /\ l.head \in Elements(l)
<1> DEFINE s == Walk(l)
<1>1. IsWalk(s, l)
  BY WalkIsWalk
<1> HIDE DEF s
<1>2. s \in Seq(Page) /\ Len(s) \in Nat
  <2>1. CASE l.head = Null
    BY <1>1, <2>1, EmptySeq DEF IsWalk
  <2>2. CASE l.head # Null
    BY <1>1, <2>2 DEF IsWalk, Path
  <2>3. QED
    BY <2>1, <2>2
<1>3. l.head = Null => s = <<>> /\ Len(s) = 0
  BY <1>1 DEF IsWalk
<1>4. l.head # Null => Path(s, l) /\ Len(s) > 0 /\ s[1] = l.head
  BY <1>1, <1>2, EmptySeq DEF IsWalk, Path
<1>5. \A i, j \in 1..Len(s) : s[i] = s[j] => i = j
  BY <1>2, <1>3, <1>4, PathNoRepeat
<1>6. Elements(l) = {s[k] : k \in 1..Len(s)}
  BY <1>2 DEF Elements, s
<1>7. l.head # Null => l.head \in Elements(l)
  BY <1>2, <1>4, <1>6
<1>8. QED
  BY <1>2, <1>3, <1>4, <1>5, <1>6, <1>7 DEF s

\* list_pop takes the first page of the walk.
LEMMA WalkPop ==
  ASSUME NEW l \in List, Acyclic(l.next), l.head # Null,
         list_pop(l) \in List, Acyclic(list_pop(l).next)
  PROVE  Walk(list_pop(l)) = Tail(Walk(l))
<1> DEFINE s == Walk(l)
           m == list_pop(l)
<1>1. Path(s, l) /\ l.next[s[Len(s)]] = Null
  BY WalkIsWalk DEF IsWalk, Last
<1>2. /\ s \in Seq(Page) /\ Len(s) \in Nat /\ Len(s) > 0 /\ s[1] = l.head
      /\ \A i, j \in 1..Len(s) : s[i] = s[j] => i = j
  BY WalkFacts
<1>3. m = [head |-> l.next[l.head], next |-> [l.next EXCEPT ![l.head] = Null]]
  BY DEF list_pop
<1>4. m.head = l.next[s[1]] /\ \A p \in Page : p # s[1] => m.next[p] = l.next[p]
  BY <1>2, <1>3 DEF List
<1> HIDE DEF s, m
<1>5. /\ Tail(s) \in Seq(Page) /\ Len(Tail(s)) = Len(s) - 1
      /\ \A k \in 1..Len(s) - 1 : Tail(s)[k] = s[k + 1] /\ s[k + 1] # s[1] /\ s[k + 1] \in Page
  BY <1>2, HeadTailProperties, EmptySeq
<1>6. CASE Len(s) = 1
  <2>1. m.head = Null
    BY <1>1, <1>4, <1>6
  <2>2. Tail(s) = <<>>
    <3> DEFINE t == Tail(s)
    <3>1. t \in Seq(Page) /\ Len(t) = 0
      BY <1>5, <1>6
    <3> HIDE DEF t
    <3>2. t = <<>>
      BY <3>1, EmptySeq
    <3>3. QED
      BY <3>2 DEF t
  <2>3. QED
    BY <2>1, <2>2, WalkFacts DEF m, s
<1>7. CASE Len(s) > 1
  <2> DEFINE t == Tail(s)
  <2>0. t \in Seq(Page) /\ Len(t) = Len(s) - 1 /\ \A k \in 1..Len(s) - 1 : t[k] = s[k + 1]
    BY <1>5
  <2> HIDE DEF t
  <2>1. t # <<>> /\ t[1] = m.head /\ m.head # Null
    BY <1>1, <1>2, <1>4, <1>5, <1>7, <2>0, NullAssumption DEF Path
  <2>2. ASSUME NEW k \in 1..Len(t) PROVE m.next[t[k]] = l.next[s[k + 1]]
    BY <1>2, <1>4, <1>5, <2>0
  <2>3. \A k \in 1..Len(t) - 1 : m.next[t[k]] = t[k + 1]
    BY <1>1, <1>2, <2>0, <2>2 DEF Path
  <2>4. m.next[t[Len(t)]] = Null
    BY <1>1, <1>2, <1>7, <2>0, <2>2
  <2>5. IsWalk(t, m)
    BY <2>0, <2>1, <2>3, <2>4 DEF IsWalk, Path, Last
  <2>6. QED
    BY <2>5, WalkUnique, WalkIsWalk DEF m, t, s
<1>8. Len(s) = 1 \/ Len(s) > 1
  <2> DEFINE n == Len(s)
  <2>1. n \in Nat /\ n > 0
    BY <1>2
  <2> HIDE DEF n
  <2>2. n = 1 \/ n > 1
    BY <2>1
  <2>3. QED
    BY <2>2 DEF n
<1>9. QED
  BY <1>6, <1>7, <1>8

\* list_append puts a page that is not in the list at the end of the walk.
LEMMA WalkAppend ==
  ASSUME NEW l \in List, Acyclic(l.next), l.head # Null,
         NEW e \in Page, e \notin Elements(l),
         list_append(l, e) \in List, Acyclic(list_append(l, e).next)
  PROVE  Walk(list_append(l, e)) = Append(Walk(l), e)
<1> DEFINE s == Walk(l)
           m == list_append(l, e)
           t == Append(s, e)
<1>1. Path(s, l) /\ l.next[s[Len(s)]] = Null
  BY WalkIsWalk DEF IsWalk, Last
<1>2. /\ s \in Seq(Page) /\ Len(s) \in Nat /\ Len(s) > 0 /\ s[1] = l.head
      /\ \A i, j \in 1..Len(s) : s[i] = s[j] => i = j
      /\ \A k \in 1..Len(s) : s[k] # e /\ s[k] \in Page
  BY WalkFacts
<1>3. ~AlreadyExists(l, e)
  BY <1>2 DEF AlreadyExists, list_length
<1>4. m = [l EXCEPT !.next = [@ EXCEPT ![Last(s)] = e, ![e] = Null]]
  BY <1>3, NullAssumption DEF list_append
<1>5. /\ m.head = l.head /\ m.next[s[Len(s)]] = e /\ m.next[e] = Null
      /\ \A p \in Page : p # e /\ p # s[Len(s)] => m.next[p] = l.next[p]
  BY <1>2, <1>4 DEF List, Last
<1>6. /\ t \in Seq(Page) /\ t # <<>> /\ Len(t) = Len(s) + 1
      /\ t[Len(s) + 1] = e
      /\ \A k \in 1..Len(s) : t[k] = s[k]
  BY <1>2, AppendProperties
<1> HIDE DEF s, m, t
<1>7. t[1] = m.head /\ m.next[t[Len(t)]] = Null
  BY <1>2, <1>5, <1>6
<1>8. ASSUME NEW k \in 1..Len(t) - 1 PROVE m.next[t[k]] = t[k + 1]
  <2>1. CASE k = Len(s)
    BY <1>2, <1>5, <1>6, <2>1
  <2>2. CASE k < Len(s)
    <3>1. l.next[s[k]] = s[k + 1]
      BY <1>1, <1>2, <2>2 DEF Path
    <3>2. QED
      BY <1>2, <1>5, <1>6, <2>2, <3>1
  <2>3. QED
    BY <1>2, <1>6, <2>1, <2>2
<1>9. IsWalk(t, m)
  BY <1>5, <1>6, <1>7, <1>8 DEF IsWalk, Path, Last
<1>10. QED
  BY <1>9, WalkUnique, WalkIsWalk DEF m, t, s

\* What list_append does to a walk and reports of it, for each kind of page:
\* the first one of a list, one in the list behind its head, the head, a new
\* one.  Appending the head cuts the list down to it and reports one more.
LEMMA AppendCases ==
  ASSUME NEW l \in List, Acyclic(l.next), NEW e \in Page
  PROVE  LET m == list_append(l, e)
             n == list_append_length(l, e)
         IN  /\ l.head = Null => m.head = e /\ n = 1 /\ e \in Elements(m)
             /\ l.head # Null /\ e # l.head /\ e \in Elements(l) => m = l /\ n = list_length(l)
             /\ e = l.head => m.head = e /\ list_length(m) = 1 /\ n = list_length(l) + 1
             /\ l.head # Null /\ e \notin Elements(l) =>
                  /\ m.head = l.head
                  /\ list_length(m) = list_length(l) + 1 /\ n = list_length(m)
                  /\ Elements(m) = Elements(l) \cup {e}
<1> DEFINE m == list_append(l, e)
           n == list_append_length(l, e)
           s == Walk(l)
<1>1. m \in List /\ Acyclic(m.next) /\ e # Null
  BY AppendAcyclic, NullAssumption
<1>2. /\ s \in Seq(Page) /\ Len(s) \in Nat
      /\ \A i, j \in 1..Len(s) : s[i] = s[j] => i = j
      /\ Elements(l) = {s[k] : k \in 1..Len(s)}
      /\ l.head # Null => Len(s) > 0 /\ s[1] = l.head
  BY WalkFacts
<1>3. AlreadyExists(l, e) <=> \E k \in 2..Len(s) : s[k] = e
  BY DEF AlreadyExists, list_length
<1>4. CASE l.head = Null
  <2>1. m = [l EXCEPT !.head = e] /\ n = 1
    BY <1>1, <1>4 DEF list_append, list_append_length
  <2>2. m.head = e /\ e # Null
    BY <1>1, <2>1 DEF List
  <2> HIDE DEF m
  <2>3. e \in Elements(m)
    BY <1>1, <2>2, WalkFacts
  <2>4. QED
    BY <1>1, <1>4, <2>1, <2>2, <2>3 DEF m
<1>5. CASE l.head # Null /\ e # l.head /\ e \in Elements(l)
  <2>1. AlreadyExists(l, e)
    BY <1>2, <1>3, <1>5
  <2>2. m = l /\ n = list_length(l)
    BY <1>1, <1>5, <2>1 DEF list_append, list_append_length
  <2>3. QED
    BY <1>5, <2>2
<1>6. CASE e = l.head
  <2>1. ~AlreadyExists(l, e)
    BY <1>1, <1>2, <1>3, <1>6
  <2>2. /\ m = [l EXCEPT !.next = [@ EXCEPT ![Last(s)] = e, ![e] = Null]]
        /\ n = list_length(l) + 1
    BY <1>1, <1>6, <2>1 DEF list_append, list_append_length
  <2>3. m.head = e /\ m.next[e] = Null
    BY <1>6, <2>2 DEF List
  <2> HIDE DEF m
  <2>4. IsWalk(<<e>>, m)
    BY <1>1, <2>3 DEF IsWalk, Path, Last
  <2>5. Walk(m) = <<e>>
    BY <1>1, <2>4, WalkIsWalk, WalkUnique
  <2>6. e \in Elements(l)
    BY <1>1, <1>6, WalkFacts
  <2>7. QED
    BY <1>1, <1>6, <2>2, <2>3, <2>5, <2>6 DEF m, list_length
<1>7. CASE l.head # Null /\ e \notin Elements(l)
  <2>1. ~AlreadyExists(l, e)
    BY <1>2, <1>3, <1>7
  <2>2. /\ m = [l EXCEPT !.next = [@ EXCEPT ![Last(s)] = e, ![e] = Null]]
        /\ n = list_length(l) + 1
    BY <1>1, <1>7, <2>1 DEF list_append, list_append_length
  <2>3. m.head = l.head
    BY <2>2 DEF List
  <2>4. Walk(m) = Append(s, e)
    BY <1>1, <1>7, WalkAppend
  <2> HIDE DEF m, n
  <2>5. /\ Len(Append(s, e)) = Len(s) + 1
        /\ \A k \in 1..Len(s) : Append(s, e)[k] = s[k]
        /\ Append(s, e)[Len(s) + 1] = e
    BY <1>2, AppendProperties
  <2>6. Elements(m) = {Append(s, e)[k] : k \in 1..Len(s) + 1}
    BY <1>1, <2>4, <2>5, WalkFacts
  <2>7. Elements(m) = Elements(l) \cup {e}
    BY <1>2, <2>5, <2>6
  <2>8. list_length(m) = list_length(l) + 1
    BY <2>4, <2>5 DEF list_length, s
  <2>9. QED
    BY <1>7, <2>2, <2>3, <2>7, <2>8, <1>1, WalkFacts DEF m, n
<1>8. QED
  BY <1>4, <1>5, <1>6, <1>7

LEMMA PopCases ==
  ASSUME NEW l \in List, Acyclic(l.next), l.head # Null
  PROVE  /\ Walk(list_pop(l)) = Tail(Walk(l))
         /\ list_length(list_pop(l)) = list_length(l) - 1
         /\ Elements(list_pop(l)) = Elements(l) \ {l.head}
<1> DEFINE m == list_pop(l)
           s == Walk(l)
           t == Walk(m)
<1>1. m \in List /\ Acyclic(m.next)
  BY PopAcyclic
<1>2. t = Tail(s)
  BY <1>1, WalkPop
<1>3. /\ s \in Seq(Page) /\ Len(s) \in Nat /\ Len(s) > 0 /\ s[1] = l.head
      /\ \A i, j \in 1..Len(s) : s[i] = s[j] => i = j
      /\ Elements(l) = {s[k] : k \in 1..Len(s)}
  BY WalkFacts
<1>4. Elements(m) = {t[k] : k \in 1..Len(t)}
  BY <1>1, WalkFacts
<1> HIDE DEF m, s, t
<1>5. Len(t) = Len(s) - 1 /\ \A k \in 1..Len(s) - 1 : t[k] = s[k + 1]
  BY <1>2, <1>3, HeadTailProperties, EmptySeq
<1>6. Elements(m) = Elements(l) \ {l.head}
  <2>1. ASSUME NEW p \in Elements(m) PROVE p \in Elements(l) \ {l.head}
    <3>1. PICK k \in 1..Len(s) - 1 : p = s[k + 1]
      BY <1>3, <1>4, <1>5, <2>1
    <3>2. QED
      BY <1>3, <3>1
  <2>2. ASSUME NEW p \in Elements(l), p # l.head PROVE p \in Elements(m)
    <3>1. PICK k \in 1..Len(s) : p = s[k]
      BY <1>3, <2>2
    <3>2. k - 1 \in 1..Len(s) - 1 /\ t[k - 1] = p
      BY <1>3, <1>5, <2>2, <3>1
    <3>3. QED
      BY <1>4, <1>5, <3>2
  <2>3. QED
    BY <2>1, <2>2
<1>7. QED
  BY <1>2, <1>5, <1>6 DEF m, s, t, list_length

\* The first page is taken from the list and put back at its end.
LEMMA RotateCases ==
  ASSUME NEW l \in List, Acyclic(l.next)
  PROVE  LET m == list_append(list_pop(l), l.head)
         IN  /\ Elements(m) = Elements(l)
             /\ list_length(m) = list_length(l)
             /\ l.head # Null => Walk(m) = Append(Tail(Walk(l)), l.head)
<1> DEFINE q == list_pop(l)
           m == list_append(q, l.head)
<1>1. q \in List /\ Acyclic(q.next)
  BY PopAcyclic
<1>2. CASE l.head = Null
  BY <1>2 DEF list_append, list_pop
<1>3. CASE l.head # Null
  <2>1. /\ Walk(q) = Tail(Walk(l))
        /\ list_length(q) = list_length(l) - 1
        /\ Elements(q) = Elements(l) \ {l.head}
    BY <1>3, PopCases
  <2>2. l.head \in Page /\ l.head \in Elements(l) /\ list_length(l) \in Nat
    BY <1>3, WalkFacts DEF List, list_length
  <2>3. CASE q.head # Null
    <3> HIDE DEF q
    <3>1. /\ list_length(m) = list_length(q) + 1
          /\ Elements(m) = Elements(q) \cup {l.head}
      BY <1>1, <2>1, <2>2, <2>3, AppendCases
    <3>2. m \in List /\ Acyclic(m.next)
      BY <1>1, <2>2, AppendAcyclic
    <3>3. Walk(m) = Append(Walk(q), l.head)
      BY <1>1, <2>1, <2>2, <2>3, <3>2, WalkAppend
    <3>4. QED
      BY <2>1, <2>2, <3>1, <3>3 DEF q
  <2>4. CASE q.head = Null
    <3>1. m = [q EXCEPT !.head = l.head] /\ q.next[l.head] = Null
      BY <1>3, <2>2, <2>4 DEF list_append, list_pop, List
    <3>2. m \in List /\ Acyclic(m.next)
      BY <1>1, <2>2, AppendAcyclic
    <3>3. Walk(q) = <<>> /\ list_length(q) = 0
      BY <1>1, <2>4, WalkFacts DEF list_length
    <3>4. m.head = l.head /\ m.next[l.head] = Null
      BY <1>1, <3>1 DEF List
    <3> DEFINE u == <<l.head>>
    <3> HIDE DEF q, m
    <3>5. IsWalk(u, m)
      BY <1>3, <2>2, <3>4 DEF IsWalk, Path, Last
    <3>6. Walk(m) = u
      BY <3>2, <3>5, WalkIsWalk, WalkUnique
    <3>7. Walk(m) = Append(Walk(q), l.head)
      BY <3>3, <3>6
    <3>8. list_length(m) = 1 /\ Elements(m) = {l.head}
      BY <3>6 DEF list_length, Elements
    <3>9. Elements(l) = {l.head}
      <4>1. Elements(q) = {}
        BY <3>3 DEF Elements
      <4>2. QED
        BY <2>1, <2>2, <4>1 DEF q
    <3>10. QED
      BY <2>1, <2>2, <3>3, <3>7, <3>8, <3>9 DEF m, q
  <2>5. QED
    BY <2>3, <2>4
<1>4. QED
  BY <1>2, <1>3

-----------------------------------------------------------------------------
\* The part of the type invariant that keeps guesses and links among the
\* pages, whatever the lists look like.
EvsetInv ==
  /\ evset \in List
  /\ Acyclic(evset.next)
  /\ guess_pool \in [0..MAX_POOL_SIZE - 1 -> Page]
  /\ pool_size \in 0..MAX_POOL_SIZE
  /\ guess_index \in 0..MAX_POOL_SIZE - 1
  /\ drawn \in [0..MAX_POOL_SIZE - 1 -> Page]
  /\ cuts \in 0..MAX_POOL_SIZE

LEMMA InitEvset == Init => EvsetInv
BY PoolAssumption, NullAssumption DEF Init, EvsetInv, List, Acyclic

LEMMA GuessType == EvsetInv => guess \in Page
BY DEF EvsetInv, guess

\* A guess ends at an index of the pool.
LEMMA WrapIndex ==
  ASSUME NEW gi \in Nat, NEW ps \in Int, NEW ca, NEW goOn,
         ps <= MAX_POOL_SIZE, Wrap(gi, ps, ca, goOn)
  PROVE  guess_index' \in 0..MAX_POOL_SIZE - 1
BY PoolAssumption DEF Wrap

LEMMA HitInv == EvsetInv /\ Hit => EvsetInv'
<1> SUFFICES ASSUME EvsetInv, Hit PROVE EvsetInv'
  OBVIOUS
<1>1. evset' \in List /\ Acyclic(evset'.next)
  BY AppendAcyclic, GuessType DEF Hit, EvsetInv
<1>2. guess_pool' \in [0..MAX_POOL_SIZE - 1 -> Page]
  <2>1. DOMAIN guess_pool = 0..MAX_POOL_SIZE - 1
    BY DEF EvsetInv
  <2>2. ASSUME NEW k \in 0..MAX_POOL_SIZE - 1, guess_index <= k, k < pool_size - 1
        PROVE  guess_pool[k + 1] \in Page
    <3>1. k + 1 \in 0..MAX_POOL_SIZE - 1
      BY <2>2, PoolAssumption DEF EvsetInv
    <3>2. QED
      BY <3>1 DEF EvsetInv
  <2>3. QED
    BY <2>1, <2>2 DEF Hit, EvsetInv
<1>3. pool_size' \in 0..MAX_POOL_SIZE
  BY PoolAssumption DEF Hit, TakeGuess, EvsetInv
<1>4. guess_index' \in 0..MAX_POOL_SIZE - 1
  <2>1. /\ guess_index \in Nat /\ pool_size - 1 \in Int
        /\ pool_size - 1 <= MAX_POOL_SIZE
    BY PoolAssumption DEF EvsetInv
  <2>2. Wrap(guess_index, pool_size - 1, 0, "place")
    BY DEF Hit, TakeGuess
  <2>3. QED
    BY <2>1, <2>2, WrapIndex
<1>5. drawn' = drawn /\ cuts' \in 0..MAX_POOL_SIZE
  BY PoolAssumption DEF Hit, TakeGuess, EvsetInv
<1>6. QED
  BY <1>1, <1>2, <1>3, <1>4, <1>5 DEF EvsetInv

LEMMA MissInv == EvsetInv /\ Miss => EvsetInv'
<1> SUFFICES ASSUME EvsetInv, Miss PROVE EvsetInv'
  OBVIOUS
<1>1. guess_index' \in 0..MAX_POOL_SIZE - 1
  BY WrapIndex DEF Miss, EvsetInv
<1>2. QED
  BY <1>1 DEF Miss, EvsetInv, history

LEMMA ReduceInv == EvsetInv /\ (ReduceDrop \/ ReduceKeep) => EvsetInv'
<1> SUFFICES ASSUME EvsetInv, ReduceDrop \/ ReduceKeep PROVE EvsetInv'
  OBVIOUS
<1> DEFINE shorter == list_pop(evset)
<1>1. shorter \in List /\ Acyclic(shorter.next)
  BY PopAcyclic DEF EvsetInv
<1>2. evset.head \in Page \cup {Null}
  BY DEF EvsetInv, List
<1> HIDE DEF shorter
<1>3. /\ list_append(shorter, evset.head) \in List
      /\ Acyclic(list_append(shorter, evset.head).next)
  BY <1>1, <1>2, AppendAcyclic
<1>4. evset' \in List /\ Acyclic(evset'.next)
  BY <1>1, <1>3 DEF ReduceDrop, ReduceKeep, shorter
<1>5. QED
  BY <1>4 DEF ReduceDrop, ReduceKeep, EvsetInv, poolVars, history

LEMMA RetryInv == ASSUME EvsetInv, NEW pool \in Pools, ps_evset(pool) PROVE EvsetInv'
<1>1. evset' \in List /\ evset'.next = evset.next
  BY DEF ps_evset, EvsetInv, List
<1>2. QED
  BY <1>1, PoolAssumption DEF ps_evset, EvsetInv

LEMMA EvsetStep == EvsetInv /\ [Next]_vars => EvsetInv'
<1> SUFFICES ASSUME EvsetInv, [Next]_vars PROVE EvsetInv'
  OBVIOUS
<1>1. CASE PlaceTarget \/ Extend \/ Accept \/ ReduceFail \/ CopyOut \/ UNCHANGED vars
  BY <1>1 DEF PlaceTarget, Extend, Accept, ReduceFail, CopyOut, poolVars, history, vars, EvsetInv
<1>2. QED
  BY <1>1, HitInv, MissInv, ReduceInv, RetryInv DEF Next, Trial

\* Whatever is guessed, measured and drawn, over any number of trials, the
\* loops over the list end.
THEOREM ListNeverCycles == Spec => []NoCycle
<1>1. EvsetInv => NoCycle
  BY DEF EvsetInv, Acyclic, NoCycle
<1>2. QED
  BY InitEvset, EvsetStep, <1>1, PTL DEF Spec

-----------------------------------------------------------------------------
\* The rest of the type invariant: a trial that goes on has attempts left.
ControlInv ==
  /\ counter_attempt \in 0..MAX_ATTEMPT
  /\ pc \in {"place", "guess"} => counter_attempt < MAX_ATTEMPT
  /\ list_len \in Nat /\ len \in Nat /\ rounds \in Nat
  /\ pc \in {"retry", "place", "guess", "reduce", "return", "done"}
  /\ result \in {0, PS_SUCCESS, PS_FAIL_CONSTRUCTION, PS_FAIL_EXTENSION, PS_FAIL_REDUCTION}

TypeInv == EvsetInv /\ ControlInv

LEMMA InitType == Init => TypeInv
<1> SUFFICES ASSUME Init PROVE TypeInv
  OBVIOUS
<1>1. EvsetInv
  BY InitEvset
<1>2. ControlInv
  BY PoolAssumption DEF Init, ControlInv
<1>3. QED
  BY <1>1, <1>2 DEF TypeInv

\* How a guess ends: at the index it asks for, or at the start of the pool
\* after one attempt more, and then perhaps with the trial.
LEMMA WrapCases ==
  ASSUME NEW gi \in Nat, NEW ps \in Int, NEW ca \in 0..MAX_ATTEMPT - 1,
         NEW goOn \in {"place", "guess"}, Wrap(gi, ps, ca, goOn)
  PROVE  /\ counter_attempt' \in 0..MAX_ATTEMPT
         /\ pc' \in {"place", "guess", "retry"}
         /\ pc' # "retry" => counter_attempt' < MAX_ATTEMPT /\ result' = result
         /\ pc' = "retry" => result' = PS_FAIL_CONSTRUCTION
         /\ pc' = "guess" => goOn = "guess"
         /\ guess_index' = 0 \/ (guess_index' = gi /\ gi < ps - 1)
<1>1. CASE gi >= ps - 1 /\ ca + 1 >= MAX_ATTEMPT
  BY <1>1, PoolAssumption DEF Wrap, Return, PS_SUCCESS, PS_FAIL_CONSTRUCTION
<1>2. CASE gi >= ps - 1 /\ ca + 1 < MAX_ATTEMPT
  BY <1>2, PoolAssumption DEF Wrap
<1>3. CASE gi < ps - 1
  BY <1>3, PoolAssumption DEF Wrap
<1>4. QED
  BY <1>1, <1>2, <1>3, PoolAssumption

LEMMA ListLengthType == EvsetInv => list_length(evset) \in Nat
BY WalkFacts DEF EvsetInv, list_length

LEMMA ControlStep == TypeInv /\ [Next]_vars => ControlInv'
<1> SUFFICES ASSUME TypeInv, [Next]_vars PROVE ControlInv'
  OBVIOUS
<1> USE DEF TypeInv
<1>1. CASE Hit
  <2>1. /\ counter_attempt' \in 0..MAX_ATTEMPT
        /\ pc' \in {"place", "guess", "retry"}
        /\ pc' # "retry" => counter_attempt' < MAX_ATTEMPT /\ result' = result
        /\ pc' = "retry" => result' = PS_FAIL_CONSTRUCTION
    <3>1. guess_index \in Nat /\ pool_size - 1 \in Int /\ 0 \in 0..MAX_ATTEMPT - 1
      BY PoolAssumption DEF EvsetInv
    <3>2. Wrap(guess_index, pool_size - 1, 0, "place")
      BY <1>1 DEF Hit, TakeGuess
    <3>3. QED
      BY <3>1, <3>2, WrapCases
  <2>2. list_len' \in Nat
    <3> DEFINE n == list_append_length(evset, guess)
    <3>1. evset \in List /\ Acyclic(evset.next) /\ guess \in Page
      BY GuessType DEF EvsetInv
    <3>2. list_length(evset) \in Nat
      BY ListLengthType
    <3>3. n \in {1, list_length(evset), list_length(evset) + 1}
      BY <3>1, NullAssumption DEF list_append_length
    <3>4. QED
      BY <1>1, <3>2, <3>3 DEF Hit
  <2>3. QED
    BY <1>1, <2>1, <2>2 DEF Hit, ControlInv
<1>2. CASE Miss
  <2>1. /\ counter_attempt' \in 0..MAX_ATTEMPT
        /\ pc' \in {"place", "guess", "retry"}
        /\ pc' # "retry" => counter_attempt' < MAX_ATTEMPT /\ result' = result
        /\ pc' = "retry" => result' = PS_FAIL_CONSTRUCTION
    <3>1. guess_index + 1 \in Nat /\ pool_size \in Int /\ counter_attempt \in 0..MAX_ATTEMPT - 1
      BY <1>2, PoolAssumption DEF EvsetInv, ControlInv, Miss
    <3>2. Wrap(guess_index + 1, pool_size, counter_attempt, "guess")
      BY <1>2 DEF Miss
    <3>3. QED
      BY <3>1, <3>2, WrapCases
  <2>2. QED
    BY <1>2, <2>1 DEF Miss, ControlInv
<1>3. CASE PlaceTarget
  BY <1>3 DEF PlaceTarget, ControlInv, poolVars
<1>4. CASE Extend
  BY <1>4 DEF Extend, Return, ControlInv, poolVars, PS_SUCCESS, PS_FAIL_EXTENSION
<1>5. CASE Accept
  BY <1>5, ListLengthType DEF Accept, Return, ControlInv, poolVars, PS_SUCCESS
<1>6. CASE ReduceDrop
  BY <1>6 DEF ReduceDrop, Return, ControlInv, poolVars, PS_SUCCESS
<1>7. CASE ReduceKeep
  BY <1>7 DEF ReduceKeep, ControlInv, poolVars
<1>8. CASE ReduceFail
  BY <1>8 DEF ReduceFail, Return, ControlInv, poolVars, PS_SUCCESS, PS_FAIL_REDUCTION
<1>9. CASE CopyOut
  BY <1>9 DEF CopyOut, ControlInv, poolVars
<1>10. CASE \E pool \in Pools : ps_evset(pool)
  BY <1>10, PoolAssumption DEF ps_evset, ControlInv
<1>11. CASE UNCHANGED vars
  BY <1>11 DEF vars, poolVars, ControlInv
<1>12. QED
  BY <1>1, <1>2, <1>3, <1>4, <1>5, <1>6, <1>7, <1>8, <1>9, <1>10, <1>11 DEF Next, Trial

LEMMA TypeInvariant == Spec => []TypeInv
<1>1. TypeInv /\ [Next]_vars => TypeInv'
  BY EvsetStep, ControlStep DEF TypeInv
<1>2. QED
  BY InitType, <1>1, PTL DEF Spec

\* The counters of a trial stay in range and its list among the pages,
\* whatever is guessed, measured and drawn.
THEOREM EvsetTypeCorrect == Spec => []TypeOK
<1>1. TypeInv => TypeOK
  BY DEF TypeInv, EvsetInv, ControlInv, TypeOK
<1>2. QED
  BY TypeInvariant, <1>1, PTL

-----------------------------------------------------------------------------
\* What is returned was the last thing tested.
TestedInv ==
  /\ pc = "return" => Elements(evset) \in Evicting
  /\ SuccessEvicts

LEMMA TestedStep ==
  ASSUME ~Noisy, TestedInv, [Next]_vars
  PROVE  TestedInv'
<1>1. CASE Accept
  <2>1. Elements(evset) \in Evicting
    BY <1>1 DEF Accept, ps_evset_test
  <2>2. evset' = evset /\ evsetLLC' = evsetLLC /\ (pc' = "done" => pc = "done")
    BY <1>1 DEF Accept, Return
  <2>3. QED
    BY <2>1, <2>2 DEF TestedInv, SuccessEvicts
<1>2. CASE ReduceDrop
  BY <1>2 DEF ReduceDrop, ps_evset_test, Return, TestedInv, SuccessEvicts
<1>3. CASE CopyOut
  <2>1. evsetLLC' = Walk(evset) /\ Elements(evset) \in Evicting /\ pc' = "done"
    BY <1>3 DEF CopyOut, list_to_array, TestedInv
  <2>2. QED
    BY <2>1 DEF Elements, TestedInv, SuccessEvicts
<1>4. CASE Hit \/ Miss
  <2>1. ASSUME NEW gi, NEW ps, NEW ca, NEW goOn \in {"place", "guess"}, Wrap(gi, ps, ca, goOn)
        PROVE  pc' \in {"place", "guess", "retry"}
    BY <2>1 DEF Wrap, Return, PS_SUCCESS, PS_FAIL_CONSTRUCTION
  <2>2. pc' \in {"place", "guess", "retry"}
    BY <1>4, <2>1 DEF Hit, TakeGuess, Miss
  <2>3. QED
    BY <2>2 DEF TestedInv, SuccessEvicts
<1>5. CASE Extend \/ ReduceFail
  <2>1. Extend => pc' \in {"place", "retry"}
    BY DEF Extend, Return, PS_SUCCESS, PS_FAIL_EXTENSION
  <2>2. ReduceFail => pc' = "retry"
    BY DEF ReduceFail, Return, PS_SUCCESS, PS_FAIL_REDUCTION
  <2>3. QED
    BY <1>5, <2>1, <2>2 DEF TestedInv, SuccessEvicts
<1>6. CASE PlaceTarget \/ ReduceKeep
  BY <1>6 DEF PlaceTarget, ReduceKeep, TestedInv, SuccessEvicts
<1>7. CASE (\E pool \in Pools : ps_evset(pool)) \/ UNCHANGED vars
  BY <1>7 DEF ps_evset, vars, TestedInv, SuccessEvicts
<1>8. QED
  BY <1>1, <1>2, <1>3, <1>4, <1>5, <1>6, <1>7 DEF Next, Trial

\* With reliable tests the caller gets an eviction set, however the guesses
\* went and whatever was drawn.
THEOREM ReturnedSetEvicts ==
  ASSUME ~Noisy
  PROVE  Spec => []SuccessEvicts
<1>1. Init => TestedInv
  BY DEF Init, TestedInv, SuccessEvicts
<1>2. TestedInv /\ [Next]_vars => TestedInv'
  BY TestedStep
<1>3. TestedInv => SuccessEvicts
  BY DEF TestedInv
<1>4. QED
  BY <1>1, <1>2, <1>3, PTL DEF Spec

-----------------------------------------------------------------------------
LEMMA HitEnds ==
  TypeInv /\ Hit => /\ pc' \in {"place", "retry"}
                    /\ guess_index' = 0 \/ guess_index' < pool_size'
<1> SUFFICES ASSUME TypeInv, Hit
             PROVE  /\ pc' \in {"place", "retry"}
                    /\ guess_index' = 0 \/ guess_index' < pool_size'
  OBVIOUS
<1>1. guess_index \in Nat /\ pool_size \in Nat /\ pool_size - 1 \in Int /\ 0 \in 0..MAX_ATTEMPT - 1
  BY PoolAssumption DEF TypeInv, EvsetInv
<1>2. /\ Wrap(guess_index, pool_size - 1, 0, "place")
      /\ pool_size > 0 => pool_size' = pool_size - 1
  BY DEF Hit, TakeGuess
<1>3. /\ pc' \in {"place", "guess", "retry"}
      /\ pc' = "guess" => "place" = "guess"
      /\ guess_index' = 0 \/ (guess_index' = guess_index /\ guess_index < pool_size - 1 - 1)
  BY <1>1, <1>2, WrapCases
<1>4. QED
  BY <1>1, <1>2, <1>3

LEMMA MissEnds ==
  TypeInv /\ Miss => /\ pc' \in {"place", "guess", "retry"}
                     /\ guess_index' = 0 \/ guess_index' < pool_size
<1> SUFFICES ASSUME TypeInv, Miss
             PROVE  /\ pc' \in {"place", "guess", "retry"}
                    /\ guess_index' = 0 \/ guess_index' < pool_size
  OBVIOUS
<1>1. guess_index + 1 \in Nat /\ pool_size \in Int /\ counter_attempt \in 0..MAX_ATTEMPT - 1
  BY PoolAssumption DEF TypeInv, EvsetInv, ControlInv, Miss
<1>2. Wrap(guess_index + 1, pool_size, counter_attempt, "guess")
  BY DEF Miss
<1>3. /\ pc' \in {"place", "guess", "retry"}
      /\ guess_index' = 0 \/ (guess_index' = guess_index + 1 /\ guess_index + 1 < pool_size - 1)
  BY <1>1, <1>2, WrapCases
<1>4. QED
  BY <1>1, <1>3

-----------------------------------------------------------------------------
LEMMA KeepStep ==
  ASSUME ~Noisy, TypeInv, ReduceKeepsEvicting, [Next]_vars
  PROVE  ReduceKeepsEvicting'
<1>1. CASE Accept
  BY <1>1 DEF Accept, ps_evset_test, ReduceKeepsEvicting
<1>2. CASE ReduceDrop
  BY <1>2 DEF ReduceDrop, ps_evset_test, ReduceKeepsEvicting
<1>3. CASE ReduceKeep
  <2>1. pc = "reduce" /\ evset' = list_append(list_pop(evset), evset.head)
    BY <1>3 DEF ReduceKeep
  <2>2. Elements(list_append(list_pop(evset), evset.head)) = Elements(evset)
    BY RotateCases DEF TypeInv, EvsetInv
  <2>3. QED
    BY <2>1, <2>2 DEF ReduceKeepsEvicting
<1>4. CASE Hit \/ Miss
  BY <1>4, HitEnds, MissEnds DEF ReduceKeepsEvicting
<1>5. CASE Extend \/ ReduceFail
  BY <1>5 DEF Extend, ReduceFail, Return, ReduceKeepsEvicting
<1>6. CASE PlaceTarget \/ CopyOut \/ (\E pool \in Pools : ps_evset(pool)) \/ UNCHANGED vars
  BY <1>6 DEF PlaceTarget, CopyOut, ps_evset, vars, ReduceKeepsEvicting
<1>7. QED
  BY <1>1, <1>2, <1>3, <1>4, <1>5, <1>6 DEF Next, Trial

\* With reliable tests, the list that is reduced evicts the target after
\* every round: a page that is needed is put back, and nothing else is lost.
THEOREM ReductionKeepsEvicting ==
  ASSUME ~Noisy
  PROVE  Spec => []ReduceKeepsEvicting
<1>1. Init => ReduceKeepsEvicting
  BY DEF Init, ReduceKeepsEvicting
<1>2. TypeInv /\ ReduceKeepsEvicting /\ [Next]_vars => ReduceKeepsEvicting'
  BY KeepStep
<1>3. QED
  BY <1>1, <1>2, TypeInvariant, PTL DEF Spec

-----------------------------------------------------------------------------
\* What the reported length tells of the list while it is built: nothing
\* after the first hit, else its length, unless a hit on the head has cut it
\* down to one page.
LenInv ==
  /\ len >= ways
  /\ pc \in {"place", "guess"} =>
       \/ list_len = 0 /\ evset.head = Null
       \/ list_len = 1
       \/ list_len = list_length(evset)
       \/ list_length(evset) = 1
  /\ pc = "guess" => list_len < len
  /\ pc = "return" => list_length(evset) <= ways
  /\ ListFitsArray

LEMMA InitLen == Init => LenInv
<1> SUFFICES ASSUME Init PROVE LenInv
  OBVIOUS
<1>1. Len(evsetLLC) = 0
  BY DEF Init
<1>2. QED
  BY <1>1, PoolAssumption DEF Init, LenInv, ListFitsArray

LEMMA LenStep == TypeInv /\ LenInv /\ [Next]_vars => LenInv'
<1> SUFFICES ASSUME TypeInv, LenInv, [Next]_vars PROVE LenInv'
  OBVIOUS
<1>0. /\ list_length(evset) \in Nat /\ list_len \in Nat /\ len \in Nat
      /\ evset \in List /\ Acyclic(evset.next) /\ guess \in Page
      /\ ways \in Nat /\ ways >= 2
  BY ListLengthType, GuessType, PoolAssumption DEF TypeInv, EvsetInv, ControlInv
<1>1. CASE Hit
  <2>1. pc' \in {"place", "retry"}
    BY <1>1, HitEnds
  <2>2. evset' = list_append(evset, guess) /\ list_len' = list_append_length(evset, guess)
    BY <1>1 DEF Hit
  <2>3. \/ list_len' = 1
        \/ list_len' = list_length(evset')
        \/ list_length(evset') = 1
    BY <1>0, <2>2, AppendCases
  <2>4. QED
    BY <1>1, <2>1, <2>3 DEF Hit, LenInv, ListFitsArray
<1>2. CASE Miss
  BY <1>2, MissEnds DEF Miss, LenInv, ListFitsArray
<1>3. CASE PlaceTarget
  BY <1>3 DEF PlaceTarget, LenInv, ListFitsArray
<1>4. CASE Extend
  BY <1>0, <1>4 DEF Extend, Return, LenInv, ListFitsArray, PS_SUCCESS, PS_FAIL_EXTENSION
<1>5. CASE Accept
  <2>1. pc = "place" /\ list_len >= len /\ evset' = evset /\ UNCHANGED <<len, evsetLLC>>
    BY <1>5 DEF Accept
  <2>2. list_len >= 2 /\ (list_len = list_length(evset) \/ list_length(evset) = 1)
    BY <1>0, <2>1 DEF LenInv
  <2>3. pc' = "reduce" \/ (pc' = "return" /\ list_len <= ways)
    BY <1>0, <1>5 DEF Accept, Return, PS_SUCCESS
  <2>4. QED
    BY <1>0, <2>1, <2>2, <2>3 DEF LenInv, ListFitsArray
<1>6. CASE ReduceDrop
  BY <1>0, <1>6 DEF ReduceDrop, Return, LenInv, ListFitsArray, PS_SUCCESS
<1>7. CASE ReduceKeep
  BY <1>7 DEF ReduceKeep, LenInv, ListFitsArray
<1>8. CASE ReduceFail
  BY <1>8 DEF ReduceFail, Return, LenInv, ListFitsArray, PS_SUCCESS, PS_FAIL_REDUCTION
<1>9. CASE CopyOut
  BY <1>9 DEF CopyOut, LenInv, ListFitsArray, list_to_array, list_length
<1>10. CASE \E pool \in Pools : ps_evset(pool)
  <2>1. evset'.head = Null /\ list_len' = 0 /\ len' = ways /\ pc' = "place" /\ evsetLLC' = evsetLLC
    BY <1>0, <1>10 DEF ps_evset, List
  <2>2. QED
    BY <1>0, <2>1 DEF LenInv, ListFitsArray
<1>11. CASE UNCHANGED vars
  BY <1>11 DEF vars, LenInv, ListFitsArray
<1>12. QED
  BY <1>1, <1>2, <1>3, <1>4, <1>5, <1>6, <1>7, <1>8, <1>9, <1>10, <1>11 DEF Next, Trial

LEMMA LenInvariant == Spec => []LenInv
BY InitLen, LenStep, TypeInvariant, PTL DEF Spec

\* Whatever is drawn, with duplicates or without, and whatever the clock
\* says: the list that is copied into evsetLLC has no more than `ways' pages.
THEOREM CopyStaysInArray == Spec => []ListFitsArray
<1>1. LenInv => ListFitsArray
  BY DEF LenInv
<1>2. QED
  BY LenInvariant, <1>1, PTL

-----------------------------------------------------------------------------
\* The guesses that are not used up.
Live == {guess_pool[k] : k \in 0..pool_size - 1}

\* What the reported length tells of the list until its head is found again,
\* and where the drawn pages are: every one is a guess to come or in the list.
UncutInv ==
  pc \in {"place", "guess"} =>
    /\ guess_index = 0 \/ guess_index < pool_size
    /\ len < MAX_EXTENSION
    /\ cuts = 0 => /\ Range(drawn) \subseteq Live \cup Elements(evset)
                   /\ list_len \in {0, 1} \/ list_len = list_length(evset)

ExactInv ==
  /\ UncutInv
  /\ pc = "reduce" /\ cuts = 0 => list_length(evset) > ways
  /\ pc = "return" /\ cuts = 0 => list_length(evset) = ways
  /\ SuccessExact

\* A hit takes no other page than its guess from the guesses to come, however
\* many copies of it there are, and takes none when the pool is used up.
LEMMA HitLive ==
  ASSUME TypeInv, UncutInv, Hit
  PROVE  Live \ {guess} \subseteq Live'
<1>1. guess_index = 0 \/ guess_index < pool_size
  BY DEF Hit, UncutInv
<1>2. /\ guess_index \in Nat /\ pool_size \in Nat /\ pool_size <= MAX_POOL_SIZE
      /\ DOMAIN guess_pool = 0..MAX_POOL_SIZE - 1 /\ MAX_POOL_SIZE \in Nat
  BY PoolAssumption DEF TypeInv, EvsetInv
<1>3. SUFFICES ASSUME NEW p \in Live, p # guess PROVE p \in Live'
  OBVIOUS
<1>4. PICK j \in 0..pool_size - 1 : p = guess_pool[j] /\ j # guess_index
  BY <1>3 DEF Live, guess
<1>5. pool_size > 0 /\ pool_size' = pool_size - 1 /\ guess_index < pool_size
  BY <1>1, <1>2, <1>4 DEF Hit, TakeGuess
<1>6. PICK k \in 0..pool_size - 2 : j = IF k < guess_index THEN k ELSE k + 1
  <2> DEFINE k == IF j < guess_index THEN j ELSE j - 1
  <2>1. k \in 0..pool_size - 2 /\ j = IF k < guess_index THEN k ELSE k + 1
    BY <1>2, <1>4, <1>5
  <2>2. QED
    BY <2>1
<1>7. guess_pool'[k] = guess_pool[j]
  BY <1>2, <1>4, <1>6 DEF Hit
<1>8. k \in 0..pool_size' - 1
  BY <1>2, <1>5, <1>6
<1>9. QED
  BY <1>4, <1>7, <1>8 DEF Live

\* A fresh pool is live as a whole.
LEMMA FreshLive ==
  ASSUME NEW pool \in Pools
  PROVE  Range(pool) = {pool[k] : k \in 0..MAX_POOL_SIZE - 1}
BY PoolAssumption DEF Range

LEMMA UncutHit ==
  ASSUME TypeInv, UncutInv, Hit
  PROVE  UncutInv'
<1>1. /\ evset \in List /\ Acyclic(evset.next) /\ guess \in Page
      /\ list_length(evset) \in Nat /\ cuts \in Nat /\ MAX_POOL_SIZE > 0
  BY GuessType, ListLengthType, PoolAssumption DEF TypeInv, EvsetInv
<1>2. Live \ {guess} \subseteq Live'
  BY HitLive
<1>3. guess_index' = 0 \/ guess_index' < pool_size'
  BY HitEnds
<1>4. /\ len' = len /\ len < MAX_EXTENSION /\ drawn' = drawn
      /\ evset' = list_append(evset, guess) /\ list_len' = list_append_length(evset, guess)
      /\ cuts' = 0 => cuts = 0 /\ guess # evset.head
  BY <1>1 DEF Hit, TakeGuess, UncutInv
<1>5. ASSUME cuts' = 0
      PROVE  /\ Range(drawn) \subseteq Live' \cup Elements(evset')
             /\ list_len' \in {0, 1} \/ list_len' = list_length(evset')
  <2>1. Range(drawn) \subseteq Live \cup Elements(evset) /\ guess # evset.head
    BY <1>4, <1>5 DEF Hit, UncutInv
  <2>2. CASE evset.head = Null
    <3>1. list_len' = 1 /\ guess \in Elements(evset') /\ Elements(evset) = {}
      BY <1>1, <1>4, <2>2, AppendCases, WalkFacts
    <3>2. QED
      BY <1>2, <2>1, <3>1
  <2>3. CASE evset.head # Null
    <3>1. /\ list_len' = list_length(evset')
          /\ Elements(evset) \subseteq Elements(evset') /\ guess \in Elements(evset')
      BY <1>1, <1>4, <2>1, <2>3, AppendCases
    <3>2. QED
      BY <1>2, <2>1, <3>1
  <2>4. QED
    BY <2>2, <2>3
<1>6. QED
  BY <1>3, <1>4, <1>5 DEF UncutInv

LEMMA InitExact == Init => ExactInv
<1> SUFFICES ASSUME Init PROVE ExactInv
  OBVIOUS
<1>1. Range(drawn) = Live
  BY FreshLive DEF Init, Live
<1>2. ways < MAX_EXTENSION
  BY PoolAssumption
<1>3. QED
  BY <1>1, <1>2 DEF Init, UncutInv, ExactInv, SuccessExact

LEMMA ExactStep ==
  ASSUME TypeInv, LenInv, ExactInv, [Next]_vars
  PROVE  ExactInv'
<1>0. /\ list_length(evset) \in Nat /\ list_len \in Nat /\ len \in Nat /\ rounds \in Nat
      /\ evset \in List /\ Acyclic(evset.next) /\ UncutInv
      /\ ways \in Nat /\ ways >= 2 /\ ways < MAX_EXTENSION /\ len >= ways
  BY ListLengthType, PoolAssumption DEF TypeInv, EvsetInv, ControlInv, LenInv, ExactInv
<1>1. CASE Hit
  BY <1>0, <1>1, UncutHit, HitEnds DEF ExactInv, SuccessExact
<1>2. CASE Miss
  <2>1. pc = "guess" /\ UNCHANGED <<evset, guess_pool, pool_size, list_len, len, evsetLLC, drawn, cuts>>
    BY <1>2 DEF Miss, history
  <2>2. guess_index' = 0 \/ guess_index' < pool_size
    BY <1>2, MissEnds
  <2>3. Live' = Live
    BY <2>1 DEF Live
  <2>4. UncutInv'
    BY <1>0, <2>1, <2>2, <2>3 DEF UncutInv
  <2>5. QED
    BY <1>2, <2>4, MissEnds DEF ExactInv, SuccessExact
<1>3. CASE PlaceTarget
  BY <1>3 DEF PlaceTarget, poolVars, history, ExactInv, UncutInv, Live, SuccessExact
<1>4. CASE Extend
  <2>1. /\ pc = "place" /\ UNCHANGED <<evset, poolVars, list_len, evsetLLC, history>>
        /\ len' = len + 1
        /\ pc' = "retry" \/ (pc' = "place" /\ len + 1 < MAX_EXTENSION)
    BY <1>4 DEF Extend, Return, PS_SUCCESS, PS_FAIL_EXTENSION
  <2>2. Live' = Live
    BY <2>1 DEF Live, poolVars
  <2>3. UncutInv'
    BY <1>0, <2>1, <2>2 DEF UncutInv, poolVars, history
  <2>4. QED
    BY <2>1, <2>3 DEF ExactInv, SuccessExact
<1>5. CASE Accept
  <2>1. pc = "place" /\ list_len >= len /\ UNCHANGED <<evset, evsetLLC, cuts>>
    BY <1>5 DEF Accept, history
  <2>2. cuts = 0 => list_len = list_length(evset)
    BY <1>0, <2>1 DEF UncutInv
  <2>3. IF list_len > ways THEN pc' = "reduce" ELSE pc' = "return"
    BY <1>5 DEF Accept, Return, PS_SUCCESS
  <2>4. QED
    BY <1>0, <2>1, <2>2, <2>3 DEF ExactInv, UncutInv, SuccessExact
<1>6. CASE ReduceDrop
  <2>1. /\ pc = "reduce" /\ evset' = list_pop(evset) /\ evsetLLC' = evsetLLC /\ cuts' = cuts
        /\ IF list_length(evset') = ways THEN pc' = "return" ELSE pc' = "reduce"
    BY <1>6 DEF ReduceDrop, Return, PS_SUCCESS, history
  <2>2. ASSUME cuts = 0
        PROVE  list_length(evset') = list_length(evset) - 1 /\ list_length(evset) > ways
    <3>1. list_length(evset) > ways
      BY <2>1, <2>2 DEF ExactInv
    <3>2. evset.head # Null
      BY <1>0, <3>1, WalkFacts DEF list_length
    <3>3. QED
      BY <1>0, <2>1, <3>1, <3>2, PopCases
  <2>3. QED
    BY <1>0, <2>1, <2>2 DEF ExactInv, UncutInv, SuccessExact
<1>7. CASE ReduceKeep
  <2>1. /\ pc = "reduce" /\ pc' = "reduce" /\ evsetLLC' = evsetLLC /\ cuts' = cuts
        /\ evset' = list_append(list_pop(evset), evset.head)
    BY <1>7 DEF ReduceKeep, history
  <2>2. list_length(evset') = list_length(evset)
    BY <1>0, <2>1, RotateCases
  <2>3. QED
    BY <2>1, <2>2 DEF ExactInv, UncutInv, SuccessExact
<1>8. CASE ReduceFail
  BY <1>8 DEF ReduceFail, Return, history, ExactInv, UncutInv, SuccessExact,
              PS_SUCCESS, PS_FAIL_REDUCTION
<1>9. CASE CopyOut
  <2>1. pc = "return" /\ pc' = "done" /\ Len(evsetLLC') = list_length(evset) /\ cuts' = cuts
    BY <1>9 DEF CopyOut, list_to_array, list_length, history
  <2>2. QED
    BY <2>1 DEF ExactInv, UncutInv, SuccessExact
<1>10. CASE \E pool \in Pools : ps_evset(pool)
  <2>1. PICK pool \in Pools : ps_evset(pool)
    BY <1>10
  <2>2. /\ guess_pool' = pool /\ drawn' = pool /\ pool_size' = MAX_POOL_SIZE
        /\ guess_index' = 0 /\ list_len' = 0 /\ len' = ways /\ pc' = "place"
    BY <2>1 DEF ps_evset
  <2>3. Range(drawn)' = Live'
    BY <2>2, FreshLive DEF Live
  <2>4. UncutInv'
    BY <1>0, <2>2, <2>3 DEF UncutInv
  <2>5. QED
    BY <2>2, <2>4 DEF ExactInv, SuccessExact
<1>11. CASE UNCHANGED vars
  BY <1>11 DEF vars, poolVars, history, ExactInv, UncutInv, Live, SuccessExact
<1>12. QED
  BY <1>1, <1>2, <1>3, <1>4, <1>5, <1>6, <1>7, <1>8, <1>9, <1>10, <1>11 DEF Next, Trial

LEMMA ExactInvariant == Spec => []ExactInv
<1>1. TypeInv /\ LenInv /\ ExactInv /\ [Next]_vars => ExactInv'
  BY ExactStep
<1>2. QED
  BY InitExact, <1>1, TypeInvariant, LenInvariant, PTL DEF Spec

\* Whatever is drawn, with any page any number of times, and whatever the
\* tests answered: the caller finds as many pages as it asked for, extended
\* and reduced lists included, unless the head of the list was found again.
THEOREM ReturnedSetIsExact == Spec => []SuccessExact
<1>1. ExactInv => SuccessExact
  BY DEF ExactInv
<1>2. QED
  BY ExactInvariant, <1>1, PTL

\* A page that was drawn, and of which the pool has no copy left, is in the
\* list until its head is found again.
THEOREM UsedUpPagesAreListed == Spec => []FoundAreListed
<1>1. ExactInv => FoundAreListed
  BY DEF ExactInv, UncutInv, Live, FoundAreListed
<1>2. QED
  BY ExactInvariant, <1>1, PTL

-----------------------------------------------------------------------------
\* A list holds no more different pages than it is long.
LEMMA ElementsBound ==
  ASSUME NEW l \in List, Acyclic(l.next)
  PROVE  /\ IsFiniteSet(Elements(l)) /\ Cardinality(Elements(l)) \in Nat
         /\ Cardinality(Elements(l)) = list_length(l)
<1> DEFINE s == Walk(l)
           n == Len(s)
           R == Elements(l)
<1>1. s \in Seq(Page) /\ R = {s[k] : k \in 1..n} /\ \A i, j \in 1..n : s[i] = s[j] => i = j
  BY WalkFacts
<1>2. n \in Nat /\ DOMAIN s = 1..n /\ s \in [1..n -> Page]
  BY <1>1, WalkFacts
<1>3. n = list_length(l)
  BY DEF list_length
<1> HIDE DEF s, n, R
<1>4. s \in [1..n -> R]
  BY <1>1, <1>2
<1>5. s \in Surjection(1..n, R) /\ s \in Injection(1..n, R)
  BY <1>1, <1>4 DEF Surjection, Injection, IsInjective
<1>6. IsFiniteSet(1..n) /\ Cardinality(1..n) = n
  BY <1>2, FS_Interval
<1>7. IsFiniteSet(R) /\ Cardinality(R) = n
  BY <1>5, <1>6, FS_Surjection
<1>8. QED
  BY <1>2, <1>3, <1>7 DEF R


\* How many pages one stretch between two hits on the head can find.
Stretch == MAX_EXTENSION - 3

LEMMA StretchType == Stretch \in Nat \ {0} /\ MAX_EXTENSION \in Nat /\ MAX_POOL_SIZE \in Nat \ {0}
BY PoolAssumption DEF Stretch

\* Every drawn page is a guess to come, the head of the list, a page found
\* before the head was last found again, or one found since, which is in the
\* list and counted by its reported length.
Where(before, since) ==
  /\ before \in SUBSET Page /\ IsFiniteSet(before)
  /\ Cardinality(before) <= cuts * Stretch
  /\ since \in SUBSET Elements(evset)
  /\ evset.head \notin since
  /\ since = {} \/ list_len = list_length(evset)
  /\ Range(drawn) \subseteq Live \cup {evset.head} \cup before \cup since

FoundInv ==
  pc \in {"place", "guess"} =>
    cuts = MAX_POOL_SIZE \/ \E before, since : Where(before, since)

\* A trial guesses only while its list is short.
LEMMA SinceBound ==
  ASSUME TypeInv, LenInv, UncutInv, pc = "guess", NEW before, NEW since, Where(before, since)
  PROVE  IsFiniteSet(since) /\ Cardinality(since) \in Nat /\ Cardinality(since) <= Stretch
<1>1. /\ evset \in List /\ Acyclic(evset.next) /\ list_length(evset) \in Nat
      /\ list_len \in Nat /\ len \in Nat /\ MAX_EXTENSION \in Nat /\ Stretch \in Nat
  BY ListLengthType, StretchType DEF TypeInv, EvsetInv, ControlInv
<1>2. list_len < len /\ len < MAX_EXTENSION
  BY DEF LenInv, UncutInv
<1>3. IsFiniteSet(Elements(evset)) /\ Cardinality(Elements(evset)) = list_length(evset)
  BY <1>1, ElementsBound
<1>4. CASE since = {}
  BY <1>1, <1>4, FS_EmptySet
<1>5. CASE since # {}
  <2>1. list_len = list_length(evset) /\ since \subseteq Elements(evset) \ {evset.head}
    BY <1>5 DEF Where
  <2>2. evset.head \in Elements(evset)
    <3>1. Elements(evset) # {}
      BY <1>5, <2>1
    <3>2. QED
      BY <1>1, <3>1, WalkFacts
  <2>3. /\ IsFiniteSet(Elements(evset) \ {evset.head})
        /\ Cardinality(Elements(evset) \ {evset.head}) = list_length(evset) - 1
    BY <1>3, <2>2, FS_RemoveElement
  <2>4. IsFiniteSet(since) /\ Cardinality(since) <= list_length(evset) - 1
    BY <2>1, <2>3, FS_Subset
  <2>5. QED
    BY <1>1, <1>2, <2>1, <2>4, FS_CardinalityType DEF Stretch
<1>6. QED
  BY <1>4, <1>5

\* A hit on the head starts a new stretch; any other hit is one page more in
\* the current one.
LEMMA FoundHit ==
  ASSUME TypeInv, LenInv, UncutInv, FoundInv, Hit
  PROVE  FoundInv'
<1>1. /\ evset \in List /\ Acyclic(evset.next) /\ guess \in Page /\ guess # Null
      /\ list_length(evset) \in Nat /\ cuts \in 0..MAX_POOL_SIZE
  BY GuessType, ListLengthType, NullAssumption DEF TypeInv, EvsetInv
<1>2. Live \ {guess} \subseteq Live' /\ drawn' = drawn
  BY HitLive DEF Hit, TakeGuess
<1>3. /\ evset' = list_append(evset, guess) /\ list_len' = list_append_length(evset, guess)
      /\ cuts' = IF guess = evset.head /\ cuts < MAX_POOL_SIZE THEN cuts + 1 ELSE cuts
  BY DEF Hit, TakeGuess
<1>4. CASE cuts = MAX_POOL_SIZE
  BY <1>3, <1>4, StretchType DEF FoundInv
<1>5. CASE cuts # MAX_POOL_SIZE
  <2>1. PICK before, since : Where(before, since)
    BY <1>5 DEF FoundInv, Hit
  <2>2. Stretch \in Nat /\ Cardinality(before) \in Nat /\ IsFiniteSet(before)
    BY <2>1, StretchType, FS_CardinalityType DEF Where
  <2>3. CASE evset.head = Null
    <3>1. since = {} /\ evset'.head = guess /\ list_len' = 1 /\ cuts' = cuts
      BY <1>1, <1>3, <2>1, <2>3, AppendCases, WalkFacts DEF Where
    <3>2. Null \notin Range(drawn)
      BY NullAssumption DEF TypeInv, EvsetInv, Range
    <3>3. Where(before, {})'
      BY <1>2, <2>1, <2>3, <3>1, <3>2 DEF Where
    <3>4. QED
      BY <3>3 DEF FoundInv
  <2>4. CASE guess = evset.head
    <3> DEFINE found == before \cup since
    <3>1. evset'.head = evset.head /\ cuts' = cuts + 1
      BY <1>1, <1>3, <1>5, <2>4, StretchType, AppendCases
    <3>2. IsFiniteSet(since) /\ Cardinality(since) \in Nat /\ Cardinality(since) <= Stretch
      BY <2>1, SinceBound DEF Hit
    <3>3. IsFiniteSet(found) /\ Cardinality(found) <= Cardinality(before) + Cardinality(since)
      <4>1. /\ IsFiniteSet(found)
            /\ Cardinality(found) = Cardinality(before) + Cardinality(since)
                                     - Cardinality(before \cap since)
        BY <2>2, <3>2, FS_Union
      <4>2. Cardinality(before \cap since) \in Nat
        BY <2>2, FS_Intersection, FS_CardinalityType
      <4> HIDE DEF found
      <4>3. QED
        BY <2>2, <3>2, <4>1, <4>2
    <3>4. Cardinality(found) <= cuts' * Stretch
      <4> DEFINE b == Cardinality(before)
                 c == Cardinality(since)
                 f == Cardinality(found)
      <4>1. b <= cuts * Stretch /\ f \in Nat
        BY <2>1, <3>3, FS_CardinalityType DEF Where
      <4>2. cuts' * Stretch = cuts * Stretch + Stretch
        BY <1>1, <2>2, <3>1
      <4>3. cuts * Stretch \in Nat
        BY <1>1, <2>2
      <4> HIDE DEF found, f
      <4>4. QED
        BY <2>2, <3>2, <3>3, <4>1, <4>2, <4>3 DEF f
    <3>5. found \in SUBSET Page /\ Range(drawn) \subseteq Live' \cup {evset.head} \cup found
      <4>1. Elements(evset) \subseteq Page
        BY <1>1, WalkFacts
      <4>2. QED
        BY <1>2, <2>1, <2>4, <4>1 DEF Where
    <3> HIDE DEF found
    <3>6. Where(found, {})'
      BY <1>2, <3>1, <3>3, <3>4, <3>5 DEF Where
    <3>7. QED
      BY <3>6 DEF FoundInv
  <2>5. CASE evset.head # Null /\ guess # evset.head
    <3>1. /\ evset'.head = evset.head /\ list_len' = list_length(evset') /\ cuts' = cuts
          /\ Elements(evset) \subseteq Elements(evset') /\ guess \in Elements(evset')
      BY <1>1, <1>3, <2>5, AppendCases
    <3>0. PICK more : more = since \cup {guess}
      OBVIOUS
    <3>2. more \in SUBSET Elements(evset') /\ evset'.head \notin more
      BY <2>1, <2>5, <3>0, <3>1 DEF Where
    <3>3. Range(drawn) \subseteq Live' \cup {evset'.head} \cup before \cup more
      BY <1>2, <2>1, <3>0, <3>1 DEF Where
    <3>4. Where(before, more)'
      BY <1>2, <2>1, <3>1, <3>2, <3>3 DEF Where
    <3>5. QED
      BY <3>4 DEF FoundInv
  <2>6. QED
    BY <2>3, <2>4, <2>5
<1>6. QED
  BY <1>4, <1>5

LEMMA FoundFresh ==
  ASSUME evset.head = Null, cuts = 0, Range(drawn) = Live
  PROVE  Where({}, {})
BY FS_EmptySet, StretchType DEF Where

LEMMA FoundStep ==
  ASSUME TypeInv, LenInv, UncutInv, FoundInv, [Next]_vars
  PROVE  FoundInv'
<1>1. CASE Hit
  BY <1>1, FoundHit
<1>2. CASE PlaceTarget \/ Miss \/ Extend \/ UNCHANGED vars
  <2>1. /\ UNCHANGED <<evset, guess_pool, pool_size, list_len, drawn, cuts>>
        /\ pc' \in {"place", "guess"} => pc \in {"place", "guess"}
    BY <1>2 DEF PlaceTarget, Miss, Extend, vars, poolVars, history
  <2>2. Live' = Live
    BY <2>1 DEF Live
  <2>3. ASSUME NEW before, NEW since, Where(before, since) PROVE Where(before, since)'
    BY <2>1, <2>2, <2>3 DEF Where
  <2>4. QED
    BY <2>1, <2>3 DEF FoundInv
<1>3. CASE Accept \/ ReduceDrop \/ ReduceKeep \/ ReduceFail \/ CopyOut
  <2>1. pc' \notin {"place", "guess"}
    BY <1>3 DEF Accept, ReduceDrop, ReduceKeep, ReduceFail, CopyOut, Return
  <2>2. QED
    BY <2>1 DEF FoundInv
<1>4. CASE \E pool \in Pools : ps_evset(pool)
  <2>1. PICK pool \in Pools : ps_evset(pool)
    BY <1>4
  <2>2. /\ guess_pool' = pool /\ drawn' = pool /\ pool_size' = MAX_POOL_SIZE /\ cuts' = 0
        /\ evset'.head = Null
    BY <2>1 DEF ps_evset, TypeInv, EvsetInv, List
  <2>3. Range(drawn)' = Live'
    BY <2>2, FreshLive DEF Live
  <2>4. Where({}, {})'
    BY <2>2, <2>3, FS_EmptySet, StretchType DEF Where
  <2>5. QED
    BY <2>4 DEF FoundInv
<1>5. QED
  BY <1>1, <1>2, <1>3, <1>4 DEF Next, Trial

LEMMA InitFound == Init => FoundInv
<1> SUFFICES ASSUME Init PROVE FoundInv
  OBVIOUS
<1>1. evset.head = Null /\ cuts = 0 /\ Range(drawn) = Live
  BY FreshLive DEF Init, Live
<1>2. QED
  BY <1>1, FoundFresh DEF FoundInv

LEMMA FoundInvariant == Spec => []FoundInv
<1>1. ExactInv => UncutInv
  BY DEF ExactInv
<1>2. TypeInv /\ LenInv /\ UncutInv /\ FoundInv /\ [Next]_vars => FoundInv'
  BY FoundStep
<1>3. QED
  BY InitFound, <1>1, <1>2, TypeInvariant, LenInvariant, ExactInvariant, PTL DEF Spec

\* A used-up pool was drawn from few pages.
LEMMA FewPages ==
  ASSUME TypeInv, LenInv, UncutInv, FoundInv, pc = "guess", pool_size = 0
  PROVE  ~PagesSuffice(Cardinality(Range(drawn)))
<1> DEFINE R == Range(drawn)
           n == Cardinality(R)
<1>1. cuts \in Nat /\ cuts <= MAX_POOL_SIZE /\ Stretch \in Nat /\ Stretch > 0
  BY StretchType DEF TypeInv, EvsetInv
<1>2. CASE cuts = MAX_POOL_SIZE
  <2>1. n \in Nat /\ n <= MAX_POOL_SIZE
    <3> DEFINE M == MAX_POOL_SIZE
               I == 0..M - 1
    <3>1. drawn \in Surjection(I, R)
      <4>1. DOMAIN drawn = I /\ drawn = [k \in I |-> drawn[k]]
        BY DEF TypeInv, EvsetInv
      <4>2. QED
        BY <4>1 DEF Surjection, Range
    <3>2. M \in Nat /\ M - 1 \in Int
      BY StretchType
    <3> HIDE DEF M, R
    <3>3. IsFiniteSet(I) /\ Cardinality(I) = M
      BY <3>2, FS_Interval
    <3> HIDE DEF I
    <3>4. IsFiniteSet(R) /\ Cardinality(R) <= Cardinality(I)
      BY <3>1, <3>3, FS_Surjection
    <3>5. QED
      BY <3>2, <3>3, <3>4, FS_CardinalityType DEF M
  <2> HIDE DEF n
  <2>2. (cuts + 1) * Stretch >= cuts + 1
    BY <1>1
  <2>3. QED
    BY <1>1, <1>2, <2>1, <2>2 DEF PagesSuffice, Stretch, n
<1>3. CASE cuts # MAX_POOL_SIZE
  <2>1. PICK before, since : Where(before, since)
    BY <1>3 DEF FoundInv
  <2>2. IsFiniteSet(since) /\ Cardinality(since) \in Nat /\ Cardinality(since) <= Stretch
    BY <2>1, SinceBound
  <2>3. IsFiniteSet(before) /\ Cardinality(before) \in Nat /\ Cardinality(before) <= cuts * Stretch
    BY <2>1, FS_CardinalityType DEF Where
  <2> DEFINE h == {evset.head}
             U == before \cup since
             V == h \cup U
  <2>4. IsFiniteSet(h) /\ Cardinality(h) = 1
    BY FS_Singleton
  <2>5. IsFiniteSet(U) /\ Cardinality(U) \in Nat /\ Cardinality(U) <= Cardinality(before) + Cardinality(since)
    <3>1. Cardinality(U) = Cardinality(before) + Cardinality(since) - Cardinality(before \cap since)
          /\ IsFiniteSet(U)
      BY <2>2, <2>3, FS_Union
    <3>2. Cardinality(before \cap since) \in Nat
      BY <2>3, FS_Intersection, FS_CardinalityType
    <3> HIDE DEF U
    <3>3. QED
      BY <2>2, <2>3, <3>1, <3>2, FS_CardinalityType
  <2>6. IsFiniteSet(V) /\ Cardinality(V) \in Nat /\ Cardinality(V) <= 1 + Cardinality(U)
    <3> HIDE DEF h, U
    <3>1. Cardinality(V) = Cardinality(h) + Cardinality(U) - Cardinality(h \cap U) /\ IsFiniteSet(V)
      BY <2>4, <2>5, FS_Union
    <3>2. Cardinality(h \cap U) \in Nat
      BY <2>4, FS_Intersection, FS_CardinalityType
    <3> HIDE DEF V
    <3>3. QED
      BY <2>4, <2>5, <3>1, <3>2, FS_CardinalityType
  <2>7. Live = {}
    BY DEF Live
  <2>8. R \subseteq V
    BY <2>1, <2>7 DEF Where
  <2> HIDE DEF R, U, V, h
  <2>9. n \in Nat /\ n <= Cardinality(V)
    BY <2>6, <2>8, FS_Subset, FS_CardinalityType
  <2>10. (cuts + 1) * Stretch = cuts * Stretch + Stretch /\ cuts * Stretch \in Nat
    BY <1>1
  <2> HIDE DEF n
  <2>11. n <= 1 + (cuts + 1) * Stretch
    BY <1>1, <2>2, <2>3, <2>5, <2>6, <2>9, <2>10
  <2>12. QED
    BY <1>1, <2>9, <2>10, <2>11 DEF PagesSuffice, Stretch, n, R
<1>4. QED
  BY <1>2, <1>3

\* As long as a trial drew enough different pages, no guess is a page that a
\* hit has used up: copies in the pool, and lists that were cut down to their
\* head, included.
THEOREM GuessesAreLive == Spec => []GuessIsLive
<1>1. TypeInv /\ LenInv /\ ExactInv /\ FoundInv => GuessIsLive
  <2> SUFFICES ASSUME TypeInv, LenInv, ExactInv, FoundInv, pc = "guess",
                      PagesSuffice(Cardinality(Range(drawn)))
               PROVE  guess_index < pool_size
    BY DEF GuessIsLive
  <2>1. UncutInv
    BY DEF ExactInv
  <2>2. pool_size # 0
    BY <2>1, FewPages
  <2>3. pool_size \in Nat /\ (guess_index = 0 \/ guess_index < pool_size)
    BY <2>1 DEF UncutInv, TypeInv, EvsetInv
  <2>4. QED
    BY <2>2, <2>3
<1>2. QED
  BY ExactInvariant, FoundInvariant, TypeInvariant, LenInvariant, <1>1, PTL

-----------------------------------------------------------------------------
\* The reduction, with reliable tests of a cache in which Assoc congruent
\* pages evict the target.  The pages behind the first `rounds' ones have
\* been tested and kept: each is congruent, and since one was kept the list
\* has no congruent page to spare.
Kept == {Walk(evset)[k] : k \in rounds + 1..list_length(evset)}

RoundInv(Congruent, Assoc) ==
  /\ pc = "reduce" =>
       /\ list_length(evset) > ways
       /\ rounds <= list_length(evset)
       /\ Kept \subseteq Congruent
       /\ Kept # {} => Cardinality(Elements(evset) \cap Congruent) = Assoc
  /\ ReductionSucceeds

LEMMA RoundStep ==
  ASSUME ~Noisy, NEW Congruent, NEW Assoc \in 2..ways,
         Evicting = {S \in SUBSET Page : Cardinality(S \cap Congruent) >= Assoc},
         TypeInv, LenInv, ReduceKeepsEvicting, RoundInv(Congruent, Assoc), [Next]_vars
  PROVE  RoundInv(Congruent, Assoc)'
<1> DEFINE l == evset
           s == Walk(evset)
           n == list_length(evset)
           E == Elements(evset)
           c == Cardinality(E \cap Congruent)
<1>0. /\ l \in List /\ Acyclic(l.next)
      /\ n \in Nat /\ list_len \in Nat /\ len \in Nat /\ rounds \in Nat
      /\ ways \in Nat /\ ways >= 2 /\ Assoc \in Nat /\ Assoc >= 2 /\ Assoc <= ways
      /\ len >= ways
  BY ListLengthType, PoolAssumption DEF TypeInv, EvsetInv, ControlInv, LenInv
<1>1. /\ s \in Seq(Page) /\ n = Len(s)
      /\ E = {s[k] : k \in 1..n}
      /\ n > 0 => l.head # Null /\ s[1] = l.head
  BY <1>0, WalkFacts DEF list_length
<1>2. IsFiniteSet(E) /\ Cardinality(E) = n
  BY <1>0, ElementsBound
<1>3. IsFiniteSet(E \cap Congruent) /\ c \in Nat /\ c <= n
  BY <1>0, <1>2, FS_Intersection, FS_CardinalityType
<1>4. E \in Evicting => c >= Assoc
  OBVIOUS
<1>5. pc = "reduce" => c >= Assoc
  BY <1>4 DEF ReduceKeepsEvicting
<1> HIDE DEF l, s, n, E, c
<1>6. CASE Accept
  <2>1. /\ pc = "place" /\ list_len >= len /\ evset' = evset /\ E \in Evicting
        /\ IF list_len > ways
           THEN pc' = "reduce" /\ rounds' = n /\ result' = result
           ELSE pc' = "return" /\ result' = PS_SUCCESS
    BY <1>6 DEF Accept, Return, ps_evset_test, PS_SUCCESS, E, n
  <2>2. n >= 2 /\ list_len >= 2
    BY <1>0, <1>3, <1>4, <2>1
  <2>3. list_len = n
    BY <2>1, <2>2 DEF LenInv, n
  <2>4. list_length(evset') = n /\ (pc' = "reduce" => n > ways /\ rounds' = n)
    BY <2>1, <2>3 DEF n
  <2>5. pc' = "reduce" => Kept' = {}
    BY <1>0, <2>4 DEF Kept
  <2>6. ReductionSucceeds'
    BY <2>1 DEF RoundInv, ReductionSucceeds, PS_SUCCESS, PS_FAIL_REDUCTION
  <2>7. QED
    BY <1>0, <2>4, <2>5, <2>6 DEF RoundInv
<1>7. CASE ReduceDrop
  <2>1. /\ pc = "reduce" /\ rounds > 0 /\ evset' = list_pop(l) /\ rounds' = rounds - 1
        /\ Elements(list_pop(l)) \in Evicting
        /\ pc' = "return" \/ (pc' = "reduce" /\ list_length(evset') # ways)
        /\ result' = PS_SUCCESS \/ result' = result
    BY <1>7 DEF ReduceDrop, Return, ps_evset_test, PS_SUCCESS, l
  <2>2. /\ n > ways /\ rounds <= n
        /\ Kept \subseteq Congruent
        /\ Kept # {} => c = Assoc
    BY <2>1 DEF RoundInv, n, c, E
  <2>3. /\ l.head # Null
        /\ Walk(evset') = Tail(s)
        /\ list_length(evset') = n - 1
        /\ Elements(evset') = E \ {l.head}
    <3>1. l.head # Null
      BY <1>0, <1>1, <2>2
    <3>2. /\ Walk(list_pop(l)) = Tail(Walk(l))
          /\ list_length(list_pop(l)) = list_length(l) - 1
          /\ Elements(list_pop(l)) = Elements(l) \ {l.head}
      BY <1>0, <3>1, PopCases
    <3>3. QED
      BY <2>1, <3>1, <3>2 DEF l, n, s, E
  <2>4. \A k \in 1..n - 1 : Walk(evset')[k] = s[k + 1]
    BY <1>0, <1>1, <2>2, <2>3, HeadTailProperties, EmptySeq
  <2>5. Kept' = Kept
    <3>1. Kept' = {Walk(evset')[k] : k \in rounds..n - 1}
      <4>1. rounds' + 1 = rounds
        BY <1>0, <2>1
      <4>2. QED
        BY <2>3, <4>1 DEF Kept
    <3>2. Kept = {s[k] : k \in rounds + 1..n}
      BY DEF Kept, s, n
    <3>3. ASSUME NEW p \in Kept' PROVE p \in Kept
      <4>1. PICK k \in rounds..n - 1 : p = Walk(evset')[k]
        BY <3>1, <3>3
      <4>2. k + 1 \in rounds + 1..n /\ p = s[k + 1]
        BY <1>0, <2>1, <2>4, <4>1
      <4>3. QED
        BY <3>2, <4>2
    <3>4. ASSUME NEW p \in Kept PROVE p \in Kept'
      <4>1. PICK k \in rounds + 1..n : p = s[k]
        BY <3>2, <3>4
      <4>2. k - 1 \in rounds..n - 1 /\ p = Walk(evset')[k - 1]
        BY <1>0, <2>1, <2>4, <4>1
      <4>3. QED
        BY <3>1, <4>2
    <3>5. QED
      BY <3>3, <3>4
  <2>6. Kept' # {} => Cardinality(Elements(evset') \cap Congruent) = Assoc
    <3> DEFINE F == Elements(evset') \cap Congruent
    <3>1. Cardinality(F) >= Assoc
      BY <2>1
    <3>2. F \in SUBSET (E \cap Congruent)
      BY <2>3
    <3> HIDE DEF F
    <3>3. Cardinality(F) \in Nat /\ Cardinality(F) <= c
      BY <1>3, <3>2, FS_Subset, FS_CardinalityType DEF c
    <3>4. QED
      BY <1>0, <1>3, <2>2, <2>5, <3>1, <3>3 DEF F
  <2>7. pc' = "reduce" => list_length(evset') > ways /\ rounds' <= list_length(evset')
    BY <1>0, <2>1, <2>2, <2>3
  <2>8. ReductionSucceeds'
    BY <2>1 DEF RoundInv, ReductionSucceeds, PS_SUCCESS, PS_FAIL_REDUCTION
  <2>9. QED
    BY <2>2, <2>5, <2>6, <2>7, <2>8 DEF RoundInv
<1>8. CASE ReduceKeep
  <2>1. /\ pc = "reduce" /\ pc' = "reduce" /\ rounds > 0 /\ rounds' = rounds - 1
        /\ Elements(list_pop(l)) \notin Evicting
        /\ evset' = list_append(list_pop(l), l.head)
        /\ result' = result
    BY <1>8 DEF ReduceKeep, ps_evset_test, l
  <2>2. n > ways /\ rounds <= n /\ Kept \subseteq Congruent
    BY <2>1 DEF RoundInv, n
  <2> DEFINE p == l.head
             F == (E \ {p}) \cap Congruent
  <2>3. /\ p # Null /\ p \in Page /\ p \in E /\ E \subseteq Page
        /\ Elements(list_pop(l)) = E \ {p}
    <3>1. l.head # Null
      BY <1>0, <1>1, <2>2
    <3>2. Elements(list_pop(l)) = Elements(l) \ {l.head} /\ l.head \in Elements(l)
      BY <1>0, <3>1, PopCases, WalkFacts
    <3>3. E \subseteq Page
      BY <1>1
    <3>4. QED
      BY <3>1, <3>2, <3>3 DEF E, l
  <2>4. /\ Elements(evset') = E
        /\ list_length(evset') = n
        /\ Walk(evset') = Append(Tail(s), p)
    BY <1>0, <2>1, <2>3, RotateCases DEF l, n, s, E
  <2>5. ~(Cardinality(F) >= Assoc)
    BY <2>1, <2>3
  <2>6. F \in SUBSET (E \cap Congruent) /\ F = (E \cap Congruent) \ {p}
    OBVIOUS
  <2>7. Cardinality(F) \in Nat
    BY <1>3, <2>6, FS_Subset, FS_CardinalityType
  <2>8. c = IF p \in Congruent THEN Cardinality(F) + 1 ELSE Cardinality(F)
    <3>1. Cardinality((E \cap Congruent) \ {p}) =
            IF p \in E \cap Congruent THEN c - 1 ELSE c
      BY <1>3, FS_RemoveElement DEF c
    <3> HIDE DEF p, F
    <3>2. QED
      BY <1>3, <2>3, <2>6, <2>7, <3>1
  <2> HIDE DEF F, p
  <2>9. p \in Congruent /\ c = Assoc
    BY <1>0, <1>3, <1>5, <2>1, <2>5, <2>7, <2>8
  <2>10. \A k \in 1..n : Walk(evset')[k] = IF k = n THEN p ELSE s[k + 1]
    <3>1. /\ Tail(s) \in Seq(Page) /\ Len(Tail(s)) = n - 1
          /\ \A k \in 1..n - 1 : Tail(s)[k] = s[k + 1]
      BY <1>0, <1>1, <2>2, HeadTailProperties, EmptySeq
    <3> DEFINE t == Tail(s)
    <3> HIDE DEF t
    <3>2. /\ Append(t, p)[n] = p
          /\ \A k \in 1..n - 1 : Append(t, p)[k] = t[k]
      BY <1>0, <2>3, <3>1, AppendProperties DEF t
    <3>3. QED
      BY <1>0, <2>4, <3>1, <3>2 DEF t
  <2>11. Kept' \subseteq Kept \cup {p}
    <3>1. Kept' = {Walk(evset')[k] : k \in rounds..n}
      <4>1. rounds' + 1 = rounds
        BY <1>0, <2>1
      <4>2. QED
        BY <2>4, <4>1 DEF Kept
    <3>2. Kept = {s[k] : k \in rounds + 1..n}
      BY DEF Kept, s, n
    <3>3. ASSUME NEW q \in Kept', q # p PROVE q \in Kept
      <4>1. PICK k \in rounds..n : q = Walk(evset')[k]
        BY <3>1, <3>3
      <4>2. k # n /\ k + 1 \in rounds + 1..n /\ q = s[k + 1]
        BY <1>0, <2>1, <2>10, <3>3, <4>1
      <4>3. QED
        BY <3>2, <4>2
    <3>4. QED
      BY <3>3
  <2>12. Cardinality(Elements(evset') \cap Congruent) = Assoc
    BY <2>4, <2>9 DEF c
  <2>13. rounds' <= list_length(evset') /\ list_length(evset') > ways
    BY <1>0, <2>1, <2>2, <2>4
  <2>14. ReductionSucceeds'
    BY <2>1 DEF RoundInv, ReductionSucceeds
  <2>15. Kept' \subseteq Congruent
    BY <2>2, <2>9, <2>11
  <2>16. QED
    BY <2>12, <2>13, <2>14, <2>15 DEF RoundInv
<1>9. CASE ReduceFail
  <2>1. pc = "reduce" /\ rounds = 0
    BY <1>9 DEF ReduceFail
  <2>2. Kept = E
    BY <1>1, <2>1 DEF Kept, s, n
  <2>3. /\ n > ways
        /\ Kept \subseteq Congruent
        /\ Kept # {} => c = Assoc
    BY <2>1 DEF RoundInv, n, c, E
  <2>4. E # {} /\ E \cap Congruent = E
    BY <1>0, <1>1, <2>2, <2>3
  <2>5. c = n /\ c = Assoc
    BY <1>2, <2>2, <2>3, <2>4 DEF c
  <2>6. QED
    BY <1>0, <2>3, <2>5
<1>10. CASE Hit
  <2>1. pc' # "reduce"
    BY <1>10, HitEnds
  <2>2. result' \in {result, PS_FAIL_CONSTRUCTION}
    BY <1>10 DEF Hit, TakeGuess, Wrap, Return
  <2>3. QED
    BY <2>1, <2>2 DEF RoundInv, ReductionSucceeds, PS_FAIL_CONSTRUCTION, PS_FAIL_REDUCTION
<1>11. CASE Miss
  <2>1. pc' # "reduce"
    BY <1>11, MissEnds
  <2>2. result' \in {result, PS_FAIL_CONSTRUCTION}
    BY <1>11 DEF Miss, Wrap, Return
  <2>3. QED
    BY <2>1, <2>2 DEF RoundInv, ReductionSucceeds, PS_FAIL_CONSTRUCTION, PS_FAIL_REDUCTION
<1>12. CASE Extend
  <2>1. pc' # "reduce" /\ result' \in {result, PS_FAIL_EXTENSION}
    BY <1>12 DEF Extend, Return
  <2>2. QED
    BY <2>1 DEF RoundInv, ReductionSucceeds, PS_FAIL_EXTENSION, PS_FAIL_REDUCTION
<1>13. CASE PlaceTarget \/ CopyOut \/ (\E pool \in Pools : ps_evset(pool))
  <2>1. pc' # "reduce" /\ result' = result
    BY <1>13 DEF PlaceTarget, CopyOut, ps_evset
  <2>2. QED
    BY <2>1 DEF RoundInv, ReductionSucceeds
<1>14. CASE UNCHANGED vars
  <2>1. evset' = evset /\ rounds' = rounds /\ pc' = pc /\ result' = result
    BY <1>14 DEF vars
  <2>2. Kept' = Kept
    BY <2>1 DEF Kept
  <2>3. QED
    BY <2>1, <2>2 DEF RoundInv, ReductionSucceeds
<1>15. QED
  BY <1>6, <1>7, <1>8, <1>9, <1>10, <1>11, <1>12, <1>13, <1>14 DEF Next, Trial

\* With reliable tests, and at least two but no more congruent pages needed
\* than asked for, ps_evset_reduce never gives up: one round for each page is
\* enough, whatever list the guesses made, duplicates included.
THEOREM ReductionNeverFails ==
  ASSUME ~Noisy, NEW Congruent, NEW Assoc \in 2..ways,
         Evicting = {S \in SUBSET Page : Cardinality(S \cap Congruent) >= Assoc}
  PROVE  Spec => []ReductionSucceeds
<1>1. Init => RoundInv(Congruent, Assoc)
  BY DEF Init, RoundInv, ReductionSucceeds, PS_FAIL_REDUCTION
<1>2. /\ TypeInv /\ LenInv /\ ReduceKeepsEvicting
      /\ RoundInv(Congruent, Assoc) /\ [Next]_vars
      => RoundInv(Congruent, Assoc)'
  BY RoundStep
<1>3. RoundInv(Congruent, Assoc) => ReductionSucceeds
  BY DEF RoundInv
<1>4. Spec => []ReduceKeepsEvicting
  BY ReductionKeepsEvicting
<1>5. QED
  BY <1>1, <1>2, <1>3, <1>4, TypeInvariant, LenInvariant, PTL DEF Spec
=============================================================================
