-------------------------- MODULE RecencySetProofs --------------------------
(***************************************************************************)
(* Proofs about RecencySet, for any set of lines: a tree-PLRU set never    *)
(* drops the lines accessed last.  Then what a load does to the seats of   *)
(* such a set, and what the sequences of loads of amplify.c make of it.    *)
(***************************************************************************)
EXTENDS RecencySet, PlruSeats, FiniteSetTheorems, TLAPS

\* The part of the invariant that makes RecentLinesResident inductive: a line
\* sits in a way to which no more nodes of the tree point than accesses were
\* made since its own.
FewNodesToward ==
  \A x \in Line :
    age[x] < Old => \E w \in Way : l1.way[w] = x /\ Toward(l1.tree, w) <= age[x]

SetInv == SetTypeOK /\ FewNodesToward

-----------------------------------------------------------------------------
\* An access leaves the tree well formed.
LEMMA TouchType ==
  ASSUME NEW t \in Tree, NEW w \in Way
  PROVE  Touch(t, w) \in Tree
BY DEF Tree, Touch, Way, Bit, Away

\* After an access to a way no node on its path points to it.
LEMMA TouchedIsSafe ==
  ASSUME NEW t \in Tree, NEW w \in Way
  PROVE  Toward(Touch(t, w), w) = 0
BY DEF Tree, Touch, Toward, Way, Bit, Away

\* An access to another way turns at most one node towards a way: the one
\* where the two paths part.
LEMMA TouchOther ==
  ASSUME NEW t \in Tree, NEW v \in Way, NEW w \in Way, v # w
  PROVE  Toward(Touch(t, v), w) <= Toward(t, w) + 1
<1>1. CASE v[1] # w[1]
  BY <1>1 DEF Tree, Touch, Toward, Way, Bit, Away
<1>2. CASE v[1] = w[1] /\ v[2] # w[2]
  BY <1>2 DEF Tree, Touch, Toward, Way, Bit, Away
<1>3. CASE v[1] = w[1] /\ v[2] = w[2] /\ v[3] # w[3]
  BY <1>3 DEF Tree, Touch, Toward, Way, Bit, Away
<1>4. QED
  BY <1>1, <1>2, <1>3 DEF Way

\* All three nodes point to the victim.
LEMMA VictimToward ==
  ASSUME NEW t \in Tree
  PROVE  Victim(t) \in Way /\ Toward(t, Victim(t)) = 3
BY DEF Tree, Victim, Toward, Way, Bit

LEMMA TowardType ==
  ASSUME NEW t \in Tree, NEW w \in Way
  PROVE  Toward(t, w) \in 0..3
BY DEF Toward

-----------------------------------------------------------------------------
\* A load takes a set to a set.  Every result fills or finds one way w, and
\* leaves the other ways alone; a way is only refilled when it was invalid or
\* the victim.
LEMMA LoadedForm ==
  ASSUME NEW s \in CacheSet, NEW x \in Line, NEW r \in Loaded(s, x)
  PROVE  \E w \in Way :
           /\ r = [way |-> [s.way EXCEPT ![w] = x], tree |-> Touch(s.tree, w)]
           /\ s.way[w] \in {x, NoLine} \/ w = Victim(s.tree)
<1>1. CASE Resident(s, x)
  <2>1. PICK w \in Holders(s, x) : r = [s EXCEPT !.tree = Touch(s.tree, w)]
    BY <1>1 DEF Loaded
  <2>2. w \in Way /\ s.way[w] = x
    BY DEF Holders
  <2>3. r = [way |-> [s.way EXCEPT ![w] = x], tree |-> Touch(s.tree, w)]
    BY <2>1, <2>2 DEF CacheSet
  <2>4. QED
    BY <2>2, <2>3
<1>2. CASE ~Resident(s, x)
  <2>1. PICK w \in FillWays(s) :
          r = [way |-> [s.way EXCEPT ![w] = x], tree |-> Touch(s.tree, w)]
    BY <1>2 DEF Loaded
  <2>2. w \in Way /\ (s.way[w] = NoLine \/ w = Victim(s.tree))
    BY VictimToward DEF FillWays, Holders, CacheSet
  <2>3. QED
    BY <2>1, <2>2
<1>3. QED
  BY <1>1, <1>2

LEMMA LoadedType ==
  ASSUME NEW s \in CacheSet, NEW x \in Line, NEW r \in Loaded(s, x)
  PROVE  r \in CacheSet
BY LoadedForm, TouchType DEF CacheSet

-----------------------------------------------------------------------------
LEMMA InitInv == InitSet => SetInv
BY DEF InitSet, SetInv, SetTypeOK, FewNodesToward, Old

LEMMA AccessInv ==
  ASSUME SetInv, NEW x \in Line, Access(x)
  PROVE  SetInv'
<1>1. l1 \in CacheSet /\ age \in [Line -> 0..Old]
  BY DEF SetInv, SetTypeOK
<1>2. l1' \in Loaded(l1, x)
  BY DEF Access
<1>3. SetTypeOK'
  BY <1>1, <1>2, LoadedType DEF SetTypeOK, Access, Older, Old
<1>4. PICK w \in Way :
        /\ l1' = [way |-> [l1.way EXCEPT ![w] = x], tree |-> Touch(l1.tree, w)]
        /\ l1.way[w] \in {x, NoLine} \/ w = Victim(l1.tree)
  BY <1>1, <1>2, LoadedForm
<1>5. l1.tree \in Tree /\ l1.way \in [Way -> Line \cup {NoLine}]
  BY <1>1 DEF CacheSet
<1>6. FewNodesToward'
  <2>1. SUFFICES ASSUME NEW y \in Line, age'[y] < Old
                 PROVE  \E v \in Way :
                          l1'.way[v] = y /\ Toward(l1'.tree, v) <= age'[y]
    BY DEF FewNodesToward
  <2>2. CASE y = x
    <3>1. l1'.way[w] = y /\ Toward(l1'.tree, w) = 0
      BY <1>4, <1>5, <2>2, TouchedIsSafe
    <3>2. age'[y] = 0
      BY <2>2 DEF Access
    <3>3. QED
      BY <3>1, <3>2
  <2>3. CASE y # x
    <3>1. age[y] < Old /\ age'[y] = age[y] + 1 /\ age[y] \in 0..Old
      BY <1>1, <2>1, <2>3 DEF Access, Older, Old
    <3>2. PICK v \in Way : l1.way[v] = y /\ Toward(l1.tree, v) <= age[y]
      BY <3>1 DEF SetInv, FewNodesToward
    <3>3. age[y] < 3
      BY <2>1, <3>1 DEF Old
    <3>4. v # Victim(l1.tree)
      BY <1>5, <3>1, <3>2, <3>3, VictimToward
    <3>5. v # w
      BY <1>4, <2>3, <3>2, <3>4, NoLineAssumption
    <3>6. l1'.way[v] = y
      BY <1>4, <1>5, <3>2, <3>5
    <3>7. Toward(l1'.tree, v) <= Toward(l1.tree, v) + 1
      BY <1>4, <1>5, <3>5, TouchOther
    <3>8. Toward(l1.tree, v) \in 0..3 /\ Toward(l1'.tree, v) \in 0..3
      BY <1>4, <1>5, TouchType, TowardType
    <3>9. QED
      BY <3>1, <3>2, <3>6, <3>7, <3>8
  <2>4. QED
    BY <2>2, <2>3
<1>7. QED
  BY <1>3, <1>6 DEF SetInv

LEMMA FlushInv ==
  ASSUME SetInv, NEW x \in Line, Flush(x)
  PROVE  SetInv'
<1>1. l1 \in CacheSet /\ age \in [Line -> 0..Old]
  BY DEF SetInv, SetTypeOK
<1>2. l1' = [l1 EXCEPT !.way = [w \in Way |-> IF l1.way[w] = x THEN NoLine ELSE l1.way[w]]]
  BY DEF Flush, Flushed
<1>3. SetTypeOK'
  BY <1>1, <1>2 DEF SetTypeOK, CacheSet, Flush, Old
<1>4. FewNodesToward'
  <2>1. SUFFICES ASSUME NEW y \in Line, age'[y] < Old
                 PROVE  \E v \in Way :
                          l1'.way[v] = y /\ Toward(l1'.tree, v) <= age'[y]
    BY DEF FewNodesToward
  <2>2. y # x /\ age'[y] = age[y]
    BY <1>1, <2>1 DEF Flush, Old
  <2>3. PICK v \in Way : l1.way[v] = y /\ Toward(l1.tree, v) <= age[y]
    BY <2>1, <2>2 DEF SetInv, FewNodesToward
  <2>4. l1'.way[v] = y /\ l1'.tree = l1.tree
    BY <1>1, <1>2, <2>2, <2>3 DEF CacheSet
  <2>5. QED
    BY <2>2, <2>3, <2>4
<1>5. QED
  BY <1>3, <1>4 DEF SetInv

LEMMA StutterInv == SetInv /\ UNCHANGED setVars => SetInv'
BY DEF SetInv, SetTypeOK, FewNodesToward, setVars

\* Type correctness of the abstract set, with the strengthening above.
THEOREM SetInvariant == SpecSet => []SetInv
<1>1. SetInv /\ [NextSet]_setVars => SetInv'
  BY AccessInv, FlushInv, StutterInv DEF NextSet
<1>2. QED
  BY InitInv, <1>1, PTL DEF SpecSet

\* The four lines accessed last are in the set, for any lines, any first
\* content and any sequence of loads and flushes.
THEOREM RecentLinesStay == SpecSet => []RecentLinesResident
<1>1. SetInv => RecentLinesResident
  BY DEF SetInv, FewNodesToward, RecentLinesResident, Resident
<1>2. QED
  BY SetInvariant, <1>1, PTL

-----------------------------------------------------------------------------
\* Every way has a seat, and every seat one way.
LEMMA RankType ==
  ASSUME NEW t \in Tree, NEW w \in Way
  PROVE  Rank(t, w) \in Seats
BY DEF Rank, Off, Seats

LEMMA RankInjective ==
  ASSUME NEW t \in Tree, NEW v \in Way, NEW w \in Way, Rank(t, v) = Rank(t, w)
  PROVE  v = w
BY DEF Tree, Rank, Off, Way, Bit

LEMMA RankOnto ==
  ASSUME NEW t \in Tree, NEW n \in Seats
  PROVE  \E w \in Way : Rank(t, w) = n
<1> DEFINE flip(b, i) == IF i = 0 THEN b ELSE Away(b)
<1>0. PICK i \in Bit, j \in Bit, k \in Bit : n = 1 + 4 * i + 2 * j + k
  <2>1. n - 1 \in 0..7
    BY DEF Seats
  <2>2. \E i, j, k \in Bit : n - 1 = 4 * i + 2 * j + k
    BY <2>1, SMTT(30) DEF Bit
  <2>3. QED
    BY <2>2 DEF Bit, Seats
<1> DEFINE h == flip(t.root, i)
           q == flip(t.mid[h], j)
           w == <<h, q, flip(t.leaf[<<h, q>>], k)>>
<1>1. h \in Bit /\ Off(t.root, h) = i
  BY <1>0 DEF Tree, Bit, Away, Off
<1> HIDE DEF h
<1>2. q \in Bit /\ Off(t.mid[h], q) = j
  BY <1>0, <1>1 DEF Tree, Bit, Away, Off
<1> HIDE DEF q
<1>3. w \in Way /\ Off(t.leaf[<<h, q>>], w[3]) = k
  BY <1>0, <1>1, <1>2 DEF Tree, Bit, Away, Off, Way
<1>4. Rank(t, w) = 1 + 4 * i + 2 * j + k
  BY <1>1, <1>2, <1>3 DEF Rank
<1>5. QED
  BY <1>0, <1>3, <1>4

\* The same in terms of the three bits of two seats.
LEMMA MovedBits ==
  ASSUME NEW i \in Bit, NEW j \in Bit, NEW k \in Bit,
         NEW a \in Bit, NEW b \in Bit, NEW c \in Bit
  PROVE  Moved(1 + 4 * i + 2 * j + k, 1 + 4 * a + 2 * b + c) =
           IF a # i THEN 1 + 2 * b + c
           ELSE IF b # j THEN 5 + c
           ELSE IF c # k THEN 7
           ELSE 8
BY DEF Moved, Quarter, Lower, Odd, Bit

\* An access moves every way from seat to seat, as Moved says.
LEMMA RankTouch ==
  ASSUME NEW t \in Tree, NEW v \in Way, NEW w \in Way
  PROVE  Rank(Touch(t, v), w) = Moved(Rank(t, v), Rank(t, w))
<1> DEFINE i == Off(t.root, v[1])
           j == Off(t.mid[v[1]], v[2])
           k == Off(t.leaf[<<v[1], v[2]>>], v[3])
           a == Off(t.root, w[1])
           b == Off(t.mid[w[1]], w[2])
           c == Off(t.leaf[<<w[1], w[2]>>], w[3])
<1>1. i \in Bit /\ j \in Bit /\ k \in Bit /\ a \in Bit /\ b \in Bit /\ c \in Bit
  BY DEF Off, Bit
<1>2. /\ a # i <=> v[1] # w[1]
      /\ a = i => (b # j <=> v[2] # w[2])
      /\ a = i /\ b = j => (c # k <=> v[3] # w[3])
  BY DEF Tree, Way, Bit, Off
<1>3. Rank(Touch(t, v), w) =
        IF v[1] # w[1] THEN 1 + 2 * b + c
        ELSE IF v[2] # w[2] THEN 5 + c
        ELSE IF v[3] # w[3] THEN 7
        ELSE 8
  <2>1. CASE v[1] # w[1]
    BY <2>1 DEF Tree, Touch, Rank, Off, Way, Bit, Away
  <2>2. CASE v[1] = w[1] /\ v[2] # w[2]
    BY <2>2 DEF Tree, Touch, Rank, Off, Way, Bit, Away
  <2>3. CASE v[1] = w[1] /\ v[2] = w[2] /\ v[3] # w[3]
    BY <2>3 DEF Tree, Touch, Rank, Off, Way, Bit, Away
  <2>4. CASE v[1] = w[1] /\ v[2] = w[2] /\ v[3] = w[3]
    BY <2>4 DEF Tree, Touch, Rank, Off, Way, Bit, Away
  <2>5. QED
    BY <2>1, <2>2, <2>3, <2>4
<1>4. Rank(t, v) = 1 + 4 * i + 2 * j + k /\ Rank(t, w) = 1 + 4 * a + 2 * b + c
  BY DEF Rank
<1> HIDE DEF i, j, k, a, b, c
<1>5. QED
  BY <1>1, <1>2, <1>3, <1>4, MovedBits

\* The line of a way is the line at its seat.
LEMMA AtSeat ==
  ASSUME NEW s \in CacheSet, NEW w \in Way
  PROVE  At(s, Rank(s.tree, w)) = s.way[w]
BY RankInjective DEF At, CacheSet

LEMMA SeatFound ==
  ASSUME NEW s \in CacheSet, NEW n \in Seats
  PROVE  \E w \in Way : Rank(s.tree, w) = n /\ At(s, n) = s.way[w]
BY RankOnto, AtSeat DEF CacheSet

\* A load hits the seat of its line, or fills the victim's, unless there is
\* an invalid way.
LEMMA LoadSeat ==
  ASSUME NEW s \in CacheSet, NEW x \in Line, NEW r \in Loaded(s, x)
  PROVE  \E k \in Seats :
           /\ LoadedAt(s, r, k, x)
           /\ Resident(s, x) => At(s, k) = x
           /\ ~Resident(s, x) =>
                \/ At(s, k) = NoLine
                \/ k = 1 /\ \A n \in Seats : At(s, n) # NoLine
<1>1. \E w \in Way :
        /\ r = [way |-> [s.way EXCEPT ![w] = x], tree |-> Touch(s.tree, w)]
        /\ Resident(s, x) => s.way[w] = x
        /\ ~Resident(s, x) =>
             \/ s.way[w] = NoLine
             \/ w = Victim(s.tree) /\ \A u \in Way : s.way[u] # NoLine
  <2>1. CASE Resident(s, x)
    <3>1. PICK w \in Holders(s, x) : r = [s EXCEPT !.tree = Touch(s.tree, w)]
      BY <2>1 DEF Loaded
    <3>2. w \in Way /\ s.way[w] = x
      BY DEF Holders
    <3>3. r = [way |-> [s.way EXCEPT ![w] = x], tree |-> Touch(s.tree, w)]
      BY <3>1, <3>2 DEF CacheSet
    <3>4. QED
      BY <2>1, <3>2, <3>3
  <2>2. CASE ~Resident(s, x)
    <3>1. PICK w \in FillWays(s) :
            r = [way |-> [s.way EXCEPT ![w] = x], tree |-> Touch(s.tree, w)]
      BY <2>2 DEF Loaded
    <3>2. /\ w \in Way
          /\ \/ s.way[w] = NoLine
             \/ w = Victim(s.tree) /\ \A u \in Way : s.way[u] # NoLine
      BY VictimToward DEF FillWays, Holders, CacheSet
    <3>3. QED
      BY <2>2, <3>1, <3>2
  <2>3. QED
    BY <2>1, <2>2
<1>2. PICK w \in Way :
        /\ r = [way |-> [s.way EXCEPT ![w] = x], tree |-> Touch(s.tree, w)]
        /\ Resident(s, x) => s.way[w] = x
        /\ ~Resident(s, x) =>
             \/ s.way[w] = NoLine
             \/ w = Victim(s.tree) /\ \A u \in Way : s.way[u] # NoLine
  BY <1>1
<1> DEFINE k == Rank(s.tree, w)
<1>3. s.tree \in Tree /\ s.way \in [Way -> Line \cup {NoLine}] /\ r \in CacheSet
  BY LoadedType DEF CacheSet
<1>4. k \in Seats /\ At(s, k) = s.way[w]
  BY <1>3, RankType, AtSeat
<1>5. \A u \in Way : At(r, Moved(k, Rank(s.tree, u))) = IF u = w THEN x ELSE s.way[u]
  <2>1. \A u \in Way : Rank(r.tree, u) = Moved(k, Rank(s.tree, u))
    BY <1>2, <1>3, RankTouch
  <2>2. \A u \in Way : r.way[u] = IF u = w THEN x ELSE s.way[u]
    BY <1>2, <1>3
  <2>3. \A u \in Way : At(r, Rank(r.tree, u)) = r.way[u]
    BY <1>3, AtSeat
  <2>4. QED
    BY <2>1, <2>2, <2>3
<1>6. At(r, 8) = x
  <2>1. Moved(k, k) = 8
    BY DEF Moved
  <2>2. QED
    BY <1>5, <2>1
<1>7. ASSUME NEW n \in Seats \ {k}
      PROVE  At(r, Moved(k, n)) = At(s, n)
  <2>1. PICK u \in Way : Rank(s.tree, u) = n /\ At(s, n) = s.way[u]
    BY SeatFound
  <2>2. u # w
    BY <2>1
  <2>3. QED
    BY <1>5, <2>1, <2>2
<1>8. w = Victim(s.tree) => k = 1
  BY <1>3 DEF Victim, Rank, Off, Tree, Bit
<1>9. (\A u \in Way : s.way[u] # NoLine) => \A n \in Seats : At(s, n) # NoLine
  BY SeatFound
<1>10. QED
  BY <1>2, <1>4, <1>6, <1>7, <1>8, <1>9 DEF LoadedAt

\* A line is in the set when it has a seat.
LEMMA ResidentSeat ==
  ASSUME NEW s \in CacheSet, NEW x
  PROVE  Resident(s, x) <=> \E n \in Seats : At(s, n) = x
<1>1. \A w \in Way : Rank(s.tree, w) \in Seats
  BY RankType DEF CacheSet
<1>2. QED
  BY <1>1, AtSeat, SeatFound DEF Resident

\* Where no line is held twice, none has two seats.
LEMMA OnceSeat ==
  ASSUME NEW s \in CacheSet, HeldOnce(s), NEW m \in Seats, NEW n \in Seats,
         At(s, m) = At(s, n), At(s, m) # NoLine
  PROVE  m = n
<1>1. PICK v \in Way : Rank(s.tree, v) = m /\ At(s, m) = s.way[v]
  BY SeatFound
<1>2. PICK w \in Way : Rank(s.tree, w) = n /\ At(s, n) = s.way[w]
  BY SeatFound
<1>3. QED
  BY <1>1, <1>2 DEF HeldOnce

-----------------------------------------------------------------------------
\* A set without an invalid way has a line at every seat; a load keeps it so.
LEMMA FullSeat ==
  ASSUME NEW s \in CacheSet
  PROVE  Full(s) <=> \A n \in Seats : At(s, n) # NoLine
<1>1. \A w \in Way : Rank(s.tree, w) \in Seats
  BY RankType DEF CacheSet
<1>2. QED
  BY <1>1, AtSeat, SeatFound DEF Full

LEMMA FullKept ==
  ASSUME NEW s \in CacheSet, NEW x \in Line, NEW r \in Loaded(s, x), Full(s)
  PROVE  Full(r)
BY LoadedForm, NoLineAssumption DEF Full, CacheSet

\* Neither a load nor a flush lets a line be held twice.
LEMMA OnceKept ==
  ASSUME NEW s \in CacheSet, NEW x \in Line, NEW r \in Loaded(s, x), HeldOnce(s)
  PROVE  HeldOnce(r)
<1>1. CASE Resident(s, x)
  <2>1. r.way = s.way
    BY <1>1 DEF Loaded, CacheSet
  <2>2. QED
    BY <2>1 DEF HeldOnce
<1>2. CASE ~Resident(s, x)
  <2>1. PICK w \in Way :
          r = [way |-> [s.way EXCEPT ![w] = x], tree |-> Touch(s.tree, w)]
    BY LoadedForm
  <2>2. \A u \in Way : r.way[u] = IF u = w THEN x ELSE s.way[u]
    BY <2>1 DEF CacheSet
  <2>3. QED
    BY <1>2, <2>2 DEF HeldOnce, Resident
<1>3. QED
  BY <1>1, <1>2

LEMMA OnceFlushed ==
  ASSUME NEW s \in CacheSet, NEW x \in Line, HeldOnce(s)
  PROVE  HeldOnce(Flushed(s, x))
BY DEF HeldOnce, Flushed, CacheSet

\* A load brings its own line in, and no other.
LEMMA OnlyComes ==
  ASSUME NEW s \in CacheSet, NEW x \in Line, NEW r \in Loaded(s, x)
  PROVE  /\ Resident(r, x)
         /\ \A y : y # x /\ Resident(r, y) => Resident(s, y)
BY LoadedForm DEF Resident, CacheSet

\* A flush leaves its line's seat empty and moves no other.
LEMMA FlushSeat ==
  ASSUME NEW s \in CacheSet, NEW x \in Line
  PROVE  /\ Flushed(s, x) \in CacheSet
         /\ \A n \in Seats : At(Flushed(s, x), n) = IF At(s, n) = x THEN NoLine ELSE At(s, n)
<1>1. PICK r : r = Flushed(s, x)
  OBVIOUS
<1>2. /\ r \in CacheSet /\ r.tree = s.tree
      /\ \A w \in Way : r.way[w] = IF s.way[w] = x THEN NoLine ELSE s.way[w]
  BY <1>1 DEF Flushed, CacheSet
<1>3. ASSUME NEW n \in Seats
      PROVE  At(r, n) = IF At(s, n) = x THEN NoLine ELSE At(s, n)
  <2>1. PICK w \in Way : Rank(s.tree, w) = n /\ At(s, n) = s.way[w]
    BY SeatFound
  <2>2. At(r, n) = r.way[w]
    BY <1>2, <2>1, AtSeat
  <2>3. QED
    BY <1>2, <2>1, <2>2
<1>4. QED
  BY <1>1, <1>2, <1>3

-----------------------------------------------------------------------------
\* A load of the victim, or of a line that has no seat, when all are taken.
LEMMA MissSeat ==
  ASSUME NEW s \in CacheSet, NEW x \in Line, NEW r \in Loaded(s, x),
         Full(s), \A n \in 2..8 : At(s, n) # x
  PROVE  LoadedAt(s, r, 1, x)
<1>1. PICK k \in Seats :
        /\ LoadedAt(s, r, k, x)
        /\ Resident(s, x) => At(s, k) = x
        /\ ~Resident(s, x) =>
             \/ At(s, k) = NoLine
             \/ k = 1 /\ \A n \in Seats : At(s, n) # NoLine
  BY LoadSeat
<1>2. k = 1
  BY <1>1, FullSeat DEF Seats
<1>3. QED
  BY <1>1, <1>2

\* A load of a line that has a seat.
LEMMA HitSeat ==
  ASSUME NEW s \in CacheSet, NEW x \in Line, NEW r \in Loaded(s, x),
         HeldOnce(s), NEW k \in Seats, At(s, k) = x
  PROVE  LoadedAt(s, r, k, x)
<1>1. PICK m \in Seats : LoadedAt(s, r, m, x) /\ (Resident(s, x) => At(s, m) = x)
  BY LoadSeat
<1>2. m = k
  BY <1>1, ResidentSeat, OnceSeat, NoLineAssumption
<1>3. QED
  BY <1>1, <1>2

\* Where each access takes each seat.
LEMMA MovedTable ==
  /\ Moved(1, 1) = 8 /\ Moved(1, 2) = 7 /\ Moved(1, 3) = 5 /\ Moved(1, 4) = 6
     /\ Moved(1, 5) = 1 /\ Moved(1, 6) = 2 /\ Moved(1, 7) = 3 /\ Moved(1, 8) = 4
  /\ Moved(2, 1) = 7 /\ Moved(2, 2) = 8 /\ Moved(2, 3) = 5 /\ Moved(2, 4) = 6
     /\ Moved(2, 5) = 1 /\ Moved(2, 6) = 2 /\ Moved(2, 7) = 3 /\ Moved(2, 8) = 4
  /\ Moved(3, 1) = 5 /\ Moved(3, 2) = 6 /\ Moved(3, 3) = 8 /\ Moved(3, 4) = 7
     /\ Moved(3, 5) = 1 /\ Moved(3, 6) = 2 /\ Moved(3, 7) = 3 /\ Moved(3, 8) = 4
  /\ Moved(4, 1) = 5 /\ Moved(4, 2) = 6 /\ Moved(4, 3) = 7 /\ Moved(4, 4) = 8
     /\ Moved(4, 5) = 1 /\ Moved(4, 6) = 2 /\ Moved(4, 7) = 3 /\ Moved(4, 8) = 4
  /\ Moved(5, 1) = 1 /\ Moved(5, 2) = 2 /\ Moved(5, 3) = 3 /\ Moved(5, 4) = 4
     /\ Moved(5, 5) = 8 /\ Moved(5, 6) = 7 /\ Moved(5, 7) = 5 /\ Moved(5, 8) = 6
  /\ Moved(6, 1) = 1 /\ Moved(6, 2) = 2 /\ Moved(6, 3) = 3 /\ Moved(6, 4) = 4
     /\ Moved(6, 5) = 7 /\ Moved(6, 6) = 8 /\ Moved(6, 7) = 5 /\ Moved(6, 8) = 6
  /\ Moved(7, 1) = 1 /\ Moved(7, 2) = 2 /\ Moved(7, 3) = 3 /\ Moved(7, 4) = 4
     /\ Moved(7, 5) = 5 /\ Moved(7, 6) = 6 /\ Moved(7, 7) = 8 /\ Moved(7, 8) = 7
  /\ Moved(8, 1) = 1 /\ Moved(8, 2) = 2 /\ Moved(8, 3) = 3 /\ Moved(8, 4) = 4
     /\ Moved(8, 5) = 5 /\ Moved(8, 6) = 6 /\ Moved(8, 7) = 7 /\ Moved(8, 8) = 8
BY DEF Moved, Lower, Odd, Quarter

-----------------------------------------------------------------------------
\* Along Path a load at the victim's seat moves the lines.
LEMMA PathMoves ==
  /\ \A m \in 1..8 : Path[m] \in Seats
  /\ \A m \in 1..7 : Path[m] \in 2..8 /\ Moved(1, Path[m]) = Path[m + 1]
  /\ Moved(4, 8) = Path[2] /\ Path[1] = 8
  /\ \A n \in Seats : n = 8 \/ n <= 4 => Moved(n, 8) \in {4, 8}
  /\ \A k, n \in Seats : Moved(k, n) \in Seats
  /\ \A k, m \in Seats : \E n \in Seats : Moved(k, n) = m
<1>1. \A m \in 1..7 : m = 1 \/ m = 2 \/ m = 3 \/ m = 4 \/ m = 5 \/ m = 6 \/ m = 7
  OBVIOUS
<1>2. \A m \in Seats : m = 8 \/ m \in 1..7
  BY DEF Seats
<1>3. \A k, n \in Seats : Moved(k, n) \in Seats
  BY DEF Moved, Quarter, Lower, Odd, Seats
<1>4. ASSUME NEW k \in Seats, NEW m \in Seats
      PROVE  \E n \in Seats : Moved(k, n) = m
  BY MovedTable DEF Seats
<1>5. QED
  BY <1>1, <1>2, <1>3, <1>4, MovedTable DEF Path, Seats

\* One load of the eight.
LEMMA FillStep ==
  ASSUME NEW s \in CacheSet, HeldOnce(s), NEW q \in [0..7 -> Line],
         \A i, j \in 0..7 : q[i] = q[j] => i = j,
         NEW j \in 0..7, Filling(s, q, j), NEW r \in Loaded(s, q[j])
  PROVE  Filling(r, q, j + 1)
<1>1. q[j] \in Line /\ r \in CacheSet
  BY LoadedType
<1>2. PICK k \in Seats :
        /\ LoadedAt(s, r, k, q[j])
        /\ Resident(s, q[j]) => At(s, k) = q[j]
        /\ ~Resident(s, q[j]) =>
             \/ At(s, k) = NoLine
             \/ k = 1 /\ \A n \in Seats : At(s, n) # NoLine
  BY <1>1, LoadSeat
<1>3. At(r, 8) = q[j] /\ \A n \in Seats \ {k} : At(r, Moved(k, n)) = At(s, n)
  BY <1>2 DEF LoadedAt
<1>4. \A i \in 0..7 : i > 0 /\ i >= j + 1 => ~Resident(r, q[i])
  <2>1. SUFFICES ASSUME NEW i \in 0..7, i >= j + 1, Resident(r, q[i])
                 PROVE  FALSE
    OBVIOUS
  <2>2. q[i] # q[j] /\ ~Resident(s, q[i])
    BY <2>1 DEF Filling
  <2>3. QED
    BY <1>1, <2>1, <2>2, OnlyComes
\* An invalid way, if there is one, lies where the next load takes place.
<1>5. CASE j = 0
  <2>1. \A i \in 0..(j + 1 - 1) : At(r, Path[j + 1 - i]) = q[i]
    <3>1. At(r, Path[1]) = q[0]
      BY <1>3, <1>5, PathMoves
    <3>2. QED
      BY <1>5, <3>1
  <2>2. \A n \in Seats : At(r, n) = NoLine => n = 4
    <3>1. SUFFICES ASSUME NEW n \in Seats, At(r, n) = NoLine PROVE n = 4
      OBVIOUS
    <3>2. PICK m \in Seats : Moved(k, m) = n
      BY PathMoves
    <3>3. m # k
      BY <1>1, <1>3, <3>1, <3>2, NoLineAssumption DEF Moved
    <3>4. At(s, m) = NoLine
      BY <1>3, <3>1, <3>2, <3>3
    <3>5. m = 8
      BY <1>5, <3>4 DEF Filling
    <3>6. ~Full(s)
      BY <3>4, FullSeat
    <3>7. k = 8 \/ k <= 4
      BY <1>2, <1>5, <3>4, <3>6 DEF Filling
    <3>8. n \in {4, 8}
      BY <3>2, <3>5, <3>7, PathMoves
    <3>9. QED
      BY <1>1, <1>3, <3>1, <3>8, NoLineAssumption
  <2>3. QED
    BY <1>4, <1>5, <2>1, <2>2 DEF Filling
<1>6. CASE j > 0
  <2>1. ~Resident(s, q[j])
    BY <1>6 DEF Filling
  <2>2. At(s, 8) # NoLine
    BY <1>6 DEF Filling, Seats
  <2>3. \/ k = 4 /\ j = 1
        \/ k = 1 /\ \A n \in Seats : At(s, n) # NoLine
    BY <1>2, <1>6, <2>1 DEF Filling
  <2>4. ASSUME NEW i \in 0..j
        PROVE  At(r, Path[j + 1 - i]) = q[i]
    <3>1. CASE i = j
      <4>1. j + 1 - i = 1
        BY <3>1
      <4>2. QED
        BY <1>3, <3>1, <4>1, PathMoves
    <3>2. CASE i < j
      <4> DEFINE m == j - i
      <4>1. m \in 1..7 /\ At(s, Path[m]) = q[i] /\ j + 1 - i = m + 1
        BY <3>2 DEF Filling
      <4>2. CASE k = 1
        <5>1. Path[m] \in Seats \ {k} /\ Moved(k, Path[m]) = Path[m + 1]
          BY <4>1, <4>2, PathMoves DEF Seats
        <5>2. QED
          BY <1>3, <4>1, <5>1
      <4>3. CASE k = 4 /\ j = 1
        <5>1. m = 1 /\ 8 \in Seats \ {k}
          BY <3>2, <4>3 DEF Seats
        <5>2. At(r, Path[2]) = At(s, Path[1])
          BY <1>3, <4>3, <5>1, PathMoves
        <5>3. QED
          BY <4>1, <5>1, <5>2
      <4>4. QED
        BY <2>3, <4>2, <4>3
    <3>3. QED
      BY <3>1, <3>2
  <2>5. \A n \in Seats : At(r, n) # NoLine
    <3>1. SUFFICES ASSUME NEW n \in Seats, At(r, n) = NoLine PROVE FALSE
      OBVIOUS
    <3>2. PICK m \in Seats : Moved(k, m) = n
      BY PathMoves
    <3>3. m # k
      BY <1>1, <1>3, <3>1, <3>2, NoLineAssumption DEF Moved
    <3>4. At(s, m) = NoLine
      BY <1>3, <3>1, <3>2, <3>3
    <3>5. QED
      BY <1>6, <2>3, <3>3, <3>4 DEF Filling
  <2>6. QED
    BY <1>4, <1>6, <2>4, <2>5 DEF Filling
<1>7. QED
  BY <1>5, <1>6

\* When all eight are loaded the set holds them and nothing else, each at the
\* seat its turn gives it.
LEMMA FilledStand ==
  ASSUME NEW s, NEW q, Filling(s, q, 8)
  PROVE  Stand(s, q[0], q[4], q[2], q[6], q[1], q[5], q[3], q[7])
<1>1. \A i \in 0..7 : At(s, Path[8 - i]) = q[i]
  BY DEF Filling
<1>2. QED
  BY <1>1 DEF Stand, Path

\* So the set is full, and holds the eight lines alone.
LEMMA FilledLines ==
  ASSUME NEW s \in CacheSet, NEW q \in [0..7 -> Line], Filling(s, q, 8)
  PROVE  /\ Full(s)
         /\ \A i \in 0..7 : Resident(s, q[i])
         /\ \A y : Resident(s, y) => \E i \in 0..7 : y = q[i]
<1>1. Stand(s, q[0], q[4], q[2], q[6], q[1], q[5], q[3], q[7])
  BY FilledStand
<1>2. \A n \in Seats : \E i \in 0..7 : At(s, n) = q[i]
  BY <1>1 DEF Stand, Seats
<1>3. Full(s)
  BY <1>2, FullSeat, NoLineAssumption
<1>4. \A i \in 0..7 : \E n \in Seats : At(s, n) = q[i]
  BY <1>1 DEF Stand, Seats
<1>5. \A i \in 0..7 : Resident(s, q[i])
  BY <1>4, ResidentSeat, Zenon
<1>6. \A y : Resident(s, y) => \E i \in 0..7 : y = q[i]
  <2>1. \A y : Resident(s, y) => \E n \in Seats : At(s, n) = y
    BY ResidentSeat, Zenon
  <2>2. QED
    BY <1>2, <2>1, Zenon
<1>7. QED
  BY <1>3, <1>5, <1>6

-----------------------------------------------------------------------------
\* Where a load finds or puts its line when every way is taken.
LEMMA FullSeatLoaded ==
  ASSUME NEW s \in CacheSet, NEW x \in Line, NEW r \in Loaded(s, x), Full(s)
  PROVE  \E k \in Seats :
           /\ LoadedAt(s, r, k, x)
           /\ At(s, k) = x \/ k = 1
           /\ Resident(s, x) => At(s, k) = x
BY LoadSeat, FullSeat

\* Where the quarter of the pair goes with a load outside it.
LEMMA MatedTable ==
  ASSUME NEW s, NEW r, NEW k \in Seats, NEW z, LoadedAt(s, r, k, z), NEW x, NEW y
  PROVE  /\ k \in 1..6 /\ Mated(s, x, y, {7}) => Mated(r, x, y, {3, 5})
         /\ k \notin {3, 4} /\ Mated(s, x, y, {3}) => Mated(r, x, y, {3, 5})
         /\ k \notin {5, 6} /\ Mated(s, x, y, {5}) => Mated(r, x, y, {1, 5})
         /\ k \notin {1, 2} /\ Mated(s, x, y, {1}) => Mated(r, x, y, {1, 5})
<1>1. \A n \in Seats \ {k} : At(r, Moved(k, n)) = At(s, n)
  BY DEF LoadedAt
<1>2. ASSUME k \in 1..6, Mated(s, x, y, {7}) PROVE Mated(r, x, y, {3, 5})
  BY <1>1, <1>2, MovedTable DEF Mated, Seats
<1>3. ASSUME k \notin {3, 4}, Mated(s, x, y, {3}) PROVE Mated(r, x, y, {3, 5})
  BY <1>1, <1>3, MovedTable DEF Mated, Seats
<1>4. ASSUME k \notin {5, 6}, Mated(s, x, y, {5}) PROVE Mated(r, x, y, {1, 5})
  BY <1>1, <1>4, MovedTable DEF Mated, Seats
<1>5. ASSUME k \notin {1, 2}, Mated(s, x, y, {1}) PROVE Mated(r, x, y, {1, 5})
  BY <1>1, <1>5, MovedTable DEF Mated, Seats
<1>6. QED
  BY <1>2, <1>3, <1>4, <1>5

\* Loads of other lines: after an access to the pair, two of them cannot
\* evict it; hits never do.
LEMMA MatedOther ==
  ASSUME NEW s \in CacheSet, Full(s), NEW z \in Line, NEW r \in Loaded(s, z),
         NEW x, NEW y, z \notin {x, y}
  PROVE  /\ Mated(s, x, y, {7}) => Mated(r, x, y, {3, 5})
         /\ Mated(s, x, y, {3, 5}) => Mated(r, x, y, {1, 3, 5})
         /\ Resident(s, z) /\ Mated(s, x, y, Odd) => Mated(r, x, y, Odd)
<1>1. PICK k \in Seats : /\ LoadedAt(s, r, k, z)
                         /\ At(s, k) = z \/ k = 1
                         /\ Resident(s, z) => At(s, k) = z
  BY FullSeatLoaded
<1>2. \A n \in Odd : k = n \/ k = n + 1 => (k = 1 /\ n = 1) \/ ~Mated(s, x, y, {n})
  BY <1>1 DEF Mated, Odd
<1>3. Resident(s, z) /\ Mated(s, x, y, {1}) => k \notin {1, 2}
  BY <1>1 DEF Mated
<1>4. \A S : Mated(s, x, y, S) => \E n \in S : Mated(s, x, y, {n})
  BY DEF Mated
<1>5. \A S, T : S \subseteq T /\ Mated(r, x, y, S) => Mated(r, x, y, T)
  BY DEF Mated
<1>6. /\ Mated(s, x, y, {7}) => Mated(r, x, y, {3, 5})
      /\ Mated(s, x, y, {3}) => Mated(r, x, y, {3, 5})
      /\ Mated(s, x, y, {5}) => Mated(r, x, y, {1, 5})
      /\ Resident(s, z) /\ Mated(s, x, y, {1}) => Mated(r, x, y, {1, 5})
  BY <1>1, <1>2, <1>3, MatedTable DEF Odd, Seats
<1>7. ASSUME Mated(s, x, y, {7}) PROVE Mated(r, x, y, {3, 5})
  BY <1>6, <1>7
<1>8. ASSUME Mated(s, x, y, {3, 5}) PROVE Mated(r, x, y, {1, 3, 5})
  <2>1. Mated(s, x, y, {3}) \/ Mated(s, x, y, {5})
    BY <1>4, <1>8
  <2>2. Mated(r, x, y, {3, 5}) \/ Mated(r, x, y, {1, 5})
    BY <1>6, <2>1
  <2>3. QED
    BY <1>5, <2>2
<1>9. ASSUME Resident(s, z), Mated(s, x, y, Odd) PROVE Mated(r, x, y, Odd)
  <2>1. \E n \in Odd : Mated(s, x, y, {n})
    BY <1>4, <1>9
  <2>2. Mated(r, x, y, {3, 5}) \/ Mated(r, x, y, {1, 5})
    BY <1>6, <1>9, <2>1 DEF Odd
  <2>3. {3, 5} \subseteq Odd /\ {1, 5} \subseteq Odd
    BY DEF Odd
  <2>4. QED
    BY <1>5, <2>2, <2>3
<1>10. QED
  BY <1>7, <1>8, <1>9

\* An access to one of the two brings both back.
LEMMA MatedSelf ==
  ASSUME NEW s \in CacheSet, HeldOnce(s), NEW y \in Line, NEW r \in Loaded(s, y),
         NEW x, Mated(s, x, y, Odd)
  PROVE  At(r, 7) = x /\ At(r, 8) = y /\ Mated(r, x, y, {7})
<1>1. PICK n \in Odd : \/ At(s, n) = x /\ At(s, n + 1) = y
                       \/ At(s, n) = y /\ At(s, n + 1) = x
  BY DEF Mated
<1>2. n \in Seats /\ n + 1 \in Seats
  BY DEF Odd, Seats
<1>3. CASE At(s, n + 1) = y /\ At(s, n) = x
  <2>1. LoadedAt(s, r, n + 1, y)
    BY <1>2, <1>3, HitSeat
  <2>2. At(r, 7) = x /\ At(r, 8) = y
    BY <1>3, <2>1, MovedTable DEF LoadedAt, Odd, Seats
  <2>3. QED
    BY <2>2 DEF Mated
<1>4. CASE At(s, n) = y /\ At(s, n + 1) = x
  <2>1. LoadedAt(s, r, n, y)
    BY <1>2, <1>4, HitSeat
  <2>2. At(r, 7) = x /\ At(r, 8) = y
    BY <1>4, <2>1, MovedTable DEF LoadedAt, Odd, Seats
  <2>3. QED
    BY <2>2 DEF Mated
<1>5. QED
  BY <1>1, <1>3, <1>4

\* Two lines that share a quarter are in the set.
LEMMA MatedHeld ==
  ASSUME NEW s \in CacheSet, NEW x, NEW y, NEW S, S \subseteq Odd, Mated(s, x, y, S)
  PROVE  Resident(s, x) /\ Resident(s, y)
<1>1. PICK n \in S : \/ At(s, n) = x /\ At(s, n + 1) = y
                     \/ At(s, n) = y /\ At(s, n + 1) = x
  BY DEF Mated
<1>2. n \in Seats /\ n + 1 \in Seats
  BY DEF Odd, Seats
<1>3. QED
  BY <1>1, <1>2, ResidentSeat

-----------------------------------------------------------------------------
\* A load of a line that has no seat but the victim's, seat by seat.
LEMMA MissedSeats ==
  ASSUME NEW s \in CacheSet, NEW x \in Line, NEW r \in Loaded(s, x),
         Full(s), \A n \in 2..8 : At(s, n) # x
  PROVE  /\ At(r, 1) = At(s, 5) /\ At(r, 2) = At(s, 6)
         /\ At(r, 3) = At(s, 7) /\ At(r, 4) = At(s, 8)
         /\ At(r, 5) = At(s, 3) /\ At(r, 6) = At(s, 4)
         /\ At(r, 7) = At(s, 2) /\ At(r, 8) = x
BY MissSeat, MovedTable DEF LoadedAt, Seats

\* A load that hits, seat by seat.
LEMMA HitSeats ==
  ASSUME NEW s \in CacheSet, NEW x \in Line, NEW r \in Loaded(s, x), HeldOnce(s)
  PROVE  /\ At(s, 1) = x =>
              /\ At(r, 1) = At(s, 5) /\ At(r, 2) = At(s, 6) /\ At(r, 3) = At(s, 7) /\ At(r, 4) = At(s, 8)
              /\ At(r, 5) = At(s, 3) /\ At(r, 6) = At(s, 4) /\ At(r, 7) = At(s, 2) /\ At(r, 8) = x
         /\ At(s, 2) = x =>
              /\ At(r, 1) = At(s, 5) /\ At(r, 2) = At(s, 6) /\ At(r, 3) = At(s, 7) /\ At(r, 4) = At(s, 8)
              /\ At(r, 5) = At(s, 3) /\ At(r, 6) = At(s, 4) /\ At(r, 7) = At(s, 1) /\ At(r, 8) = x
         /\ At(s, 3) = x =>
              /\ At(r, 1) = At(s, 5) /\ At(r, 2) = At(s, 6) /\ At(r, 3) = At(s, 7) /\ At(r, 4) = At(s, 8)
              /\ At(r, 5) = At(s, 1) /\ At(r, 6) = At(s, 2) /\ At(r, 7) = At(s, 4) /\ At(r, 8) = x
         /\ At(s, 4) = x =>
              /\ At(r, 1) = At(s, 5) /\ At(r, 2) = At(s, 6) /\ At(r, 3) = At(s, 7) /\ At(r, 4) = At(s, 8)
              /\ At(r, 5) = At(s, 1) /\ At(r, 6) = At(s, 2) /\ At(r, 7) = At(s, 3) /\ At(r, 8) = x
         /\ At(s, 5) = x =>
              /\ At(r, 1) = At(s, 1) /\ At(r, 2) = At(s, 2) /\ At(r, 3) = At(s, 3) /\ At(r, 4) = At(s, 4)
              /\ At(r, 5) = At(s, 7) /\ At(r, 6) = At(s, 8) /\ At(r, 7) = At(s, 6) /\ At(r, 8) = x
         /\ At(s, 6) = x =>
              /\ At(r, 1) = At(s, 1) /\ At(r, 2) = At(s, 2) /\ At(r, 3) = At(s, 3) /\ At(r, 4) = At(s, 4)
              /\ At(r, 5) = At(s, 7) /\ At(r, 6) = At(s, 8) /\ At(r, 7) = At(s, 5) /\ At(r, 8) = x
         /\ At(s, 7) = x =>
              /\ At(r, 1) = At(s, 1) /\ At(r, 2) = At(s, 2) /\ At(r, 3) = At(s, 3) /\ At(r, 4) = At(s, 4)
              /\ At(r, 5) = At(s, 5) /\ At(r, 6) = At(s, 6) /\ At(r, 7) = At(s, 8) /\ At(r, 8) = x
         /\ At(s, 8) = x =>
              /\ At(r, 1) = At(s, 1) /\ At(r, 2) = At(s, 2) /\ At(r, 3) = At(s, 3) /\ At(r, 4) = At(s, 4)
              /\ At(r, 5) = At(s, 5) /\ At(r, 6) = At(s, 6) /\ At(r, 7) = At(s, 7) /\ At(r, 8) = x
<1>1. ASSUME At(s, 1) = x
      PROVE  /\ At(r, 1) = At(s, 5) /\ At(r, 2) = At(s, 6) /\ At(r, 3) = At(s, 7) /\ At(r, 4) = At(s, 8)
             /\ At(r, 5) = At(s, 3) /\ At(r, 6) = At(s, 4) /\ At(r, 7) = At(s, 2) /\ At(r, 8) = x
  <2>1. LoadedAt(s, r, 1, x)
    BY <1>1, HitSeat DEF Seats
  <2>2. QED
    BY <2>1, MovedTable DEF LoadedAt, Seats
<1>2. ASSUME At(s, 2) = x
      PROVE  /\ At(r, 1) = At(s, 5) /\ At(r, 2) = At(s, 6) /\ At(r, 3) = At(s, 7) /\ At(r, 4) = At(s, 8)
             /\ At(r, 5) = At(s, 3) /\ At(r, 6) = At(s, 4) /\ At(r, 7) = At(s, 1) /\ At(r, 8) = x
  <2>1. LoadedAt(s, r, 2, x)
    BY <1>2, HitSeat DEF Seats
  <2>2. QED
    BY <2>1, MovedTable DEF LoadedAt, Seats
<1>3. ASSUME At(s, 3) = x
      PROVE  /\ At(r, 1) = At(s, 5) /\ At(r, 2) = At(s, 6) /\ At(r, 3) = At(s, 7) /\ At(r, 4) = At(s, 8)
             /\ At(r, 5) = At(s, 1) /\ At(r, 6) = At(s, 2) /\ At(r, 7) = At(s, 4) /\ At(r, 8) = x
  <2>1. LoadedAt(s, r, 3, x)
    BY <1>3, HitSeat DEF Seats
  <2>2. QED
    BY <2>1, MovedTable DEF LoadedAt, Seats
<1>4. ASSUME At(s, 4) = x
      PROVE  /\ At(r, 1) = At(s, 5) /\ At(r, 2) = At(s, 6) /\ At(r, 3) = At(s, 7) /\ At(r, 4) = At(s, 8)
             /\ At(r, 5) = At(s, 1) /\ At(r, 6) = At(s, 2) /\ At(r, 7) = At(s, 3) /\ At(r, 8) = x
  <2>1. LoadedAt(s, r, 4, x)
    BY <1>4, HitSeat DEF Seats
  <2>2. QED
    BY <2>1, MovedTable DEF LoadedAt, Seats
<1>5. ASSUME At(s, 5) = x
      PROVE  /\ At(r, 1) = At(s, 1) /\ At(r, 2) = At(s, 2) /\ At(r, 3) = At(s, 3) /\ At(r, 4) = At(s, 4)
             /\ At(r, 5) = At(s, 7) /\ At(r, 6) = At(s, 8) /\ At(r, 7) = At(s, 6) /\ At(r, 8) = x
  <2>1. LoadedAt(s, r, 5, x)
    BY <1>5, HitSeat DEF Seats
  <2>2. QED
    BY <2>1, MovedTable DEF LoadedAt, Seats
<1>6. ASSUME At(s, 6) = x
      PROVE  /\ At(r, 1) = At(s, 1) /\ At(r, 2) = At(s, 2) /\ At(r, 3) = At(s, 3) /\ At(r, 4) = At(s, 4)
             /\ At(r, 5) = At(s, 7) /\ At(r, 6) = At(s, 8) /\ At(r, 7) = At(s, 5) /\ At(r, 8) = x
  <2>1. LoadedAt(s, r, 6, x)
    BY <1>6, HitSeat DEF Seats
  <2>2. QED
    BY <2>1, MovedTable DEF LoadedAt, Seats
<1>7. ASSUME At(s, 7) = x
      PROVE  /\ At(r, 1) = At(s, 1) /\ At(r, 2) = At(s, 2) /\ At(r, 3) = At(s, 3) /\ At(r, 4) = At(s, 4)
             /\ At(r, 5) = At(s, 5) /\ At(r, 6) = At(s, 6) /\ At(r, 7) = At(s, 8) /\ At(r, 8) = x
  <2>1. LoadedAt(s, r, 7, x)
    BY <1>7, HitSeat DEF Seats
  <2>2. QED
    BY <2>1, MovedTable DEF LoadedAt, Seats
<1>8. ASSUME At(s, 8) = x
      PROVE  /\ At(r, 1) = At(s, 1) /\ At(r, 2) = At(s, 2) /\ At(r, 3) = At(s, 3) /\ At(r, 4) = At(s, 4)
             /\ At(r, 5) = At(s, 5) /\ At(r, 6) = At(s, 6) /\ At(r, 7) = At(s, 7) /\ At(r, 8) = x
  <2>1. LoadedAt(s, r, 8, x)
    BY <1>8, HitSeat DEF Seats
  <2>2. QED
    BY <2>1, MovedTable DEF LoadedAt, Seats
<1>9. QED
  BY <1>1, <1>2, <1>3, <1>4, <1>5, <1>6, <1>7, <1>8

LEMMA EightSeats ==
  ASSUME NEW n \in 2..8
  PROVE  n = 2 \/ n = 3 \/ n = 4 \/ n = 5 \/ n = 6 \/ n = 7 \/ n = 8
OBVIOUS

\* The next of the six lines.
LEMMA ComesNext ==
  ASSUME NEW s \in CacheSet, Full(s),
         NEW q \in [0..5 -> Line], \A i, j \in 0..5 : q[i] = q[j] => i = j,
         NEW i \in 0..5, ToCome(s, q, i), NEW r \in Loaded(s, q[i])
  PROVE  /\ ToCome(r, q, i + 1)
         /\ At(r, 1) = At(s, 5) /\ At(r, 2) = At(s, 6)
         /\ At(r, 3) = At(s, 7) /\ At(r, 4) = At(s, 8)
         /\ At(r, 5) = At(s, 3) /\ At(r, 6) = At(s, 4)
         /\ At(r, 7) = At(s, 2) /\ At(r, 8) = q[i]
<1>1. q[i] \in Line
  OBVIOUS
<1>2. \A n \in 2..8 : At(s, n) # q[i]
  BY DEF ToCome
<1>3. /\ At(r, 1) = At(s, 5) /\ At(r, 2) = At(s, 6)
      /\ At(r, 3) = At(s, 7) /\ At(r, 4) = At(s, 8)
      /\ At(r, 5) = At(s, 3) /\ At(r, 6) = At(s, 4)
      /\ At(r, 7) = At(s, 2) /\ At(r, 8) = q[i]
  BY <1>1, <1>2, MissedSeats
<1>4. \A n \in 2..8 : At(r, n) = q[i] \/ \E m \in 2..8 : At(r, n) = At(s, m)
  BY <1>3, EightSeats
<1>5. \A j \in (i + 1)..5 : j \in i..5 /\ j \in 0..5 /\ j # i
  OBVIOUS
<1>6. ToCome(r, q, i + 1)
  BY <1>4, <1>5 DEF ToCome
<1>7. QED
  BY <1>3, <1>6

\* A load of half a refresh.
LEMMA HalfStep ==
  ASSUME NEW s \in CacheSet, Full(s), HeldOnce(s),
         NEW q \in [0..5 -> Line], \A i, j \in 0..5 : q[i] = q[j] => i = j,
         NEW x, NEW y \in Line, x # y, \A i \in 0..5 : q[i] \notin {x, y},
         NEW m \in 1..8, HalfRefresh(s, x, y, q, m), NEW r \in Loaded(s, HalfLoad(y, q, m))
  PROVE  HalfRefresh(r, x, y, q, m + 1)
<1>1. CASE m = 1
  <2>1. ToCome(s, q, 0) /\ r \in Loaded(s, q[0])
    BY <1>1 DEF HalfRefresh, HalfLoad
  <2>2. /\ ToCome(r, q, 0 + 1)
        /\ At(r, 1) = At(s, 5) /\ At(r, 2) = At(s, 6)
        /\ At(r, 3) = At(s, 7) /\ At(r, 4) = At(s, 8)
        /\ At(r, 5) = At(s, 3) /\ At(r, 6) = At(s, 4)
        /\ At(r, 7) = At(s, 2) /\ At(r, 8) = q[0]
    BY <2>1, ComesNext
  <2>3. QED
    BY <1>1, <2>2 DEF HalfRefresh, Stand
<1>2. CASE m = 2
  <2>1. ToCome(s, q, 1) /\ r \in Loaded(s, q[1])
    BY <1>2 DEF HalfRefresh, HalfLoad
  <2>2. /\ ToCome(r, q, 1 + 1)
        /\ At(r, 1) = At(s, 5) /\ At(r, 2) = At(s, 6)
        /\ At(r, 3) = At(s, 7) /\ At(r, 4) = At(s, 8)
        /\ At(r, 5) = At(s, 3) /\ At(r, 6) = At(s, 4)
        /\ At(r, 7) = At(s, 2) /\ At(r, 8) = q[1]
    BY <2>1, ComesNext
  <2>3. QED
    BY <1>2, <2>2 DEF HalfRefresh, Stand
<1>3. CASE m = 3
  <2>1. ToCome(s, q, 2) /\ r \in Loaded(s, q[2])
    BY <1>3 DEF HalfRefresh, HalfLoad
  <2>2. /\ ToCome(r, q, 2 + 1)
        /\ At(r, 1) = At(s, 5) /\ At(r, 2) = At(s, 6)
        /\ At(r, 3) = At(s, 7) /\ At(r, 4) = At(s, 8)
        /\ At(r, 5) = At(s, 3) /\ At(r, 6) = At(s, 4)
        /\ At(r, 7) = At(s, 2) /\ At(r, 8) = q[2]
    BY <2>1, ComesNext
  <2>3. QED
    BY <1>3, <2>2 DEF HalfRefresh, Stand
<1>4. CASE m = 4
  <2>1. At(s, 2) = y /\ r \in Loaded(s, y)
    BY <1>4 DEF HalfRefresh, HalfLoad, Stand
  <2>2. /\ At(r, 1) = At(s, 5) /\ At(r, 2) = At(s, 6)
        /\ At(r, 3) = At(s, 7) /\ At(r, 4) = At(s, 8)
        /\ At(r, 5) = At(s, 3) /\ At(r, 6) = At(s, 4)
        /\ At(r, 7) = At(s, 1) /\ At(r, 8) = y
    BY <2>1, HitSeats
  <2>3. ToCome(r, q, 3)
    BY <1>4, <2>1, <2>2, EightSeats DEF HalfRefresh, ToCome
  <2>4. QED
    BY <1>4, <2>2, <2>3 DEF HalfRefresh
<1>5. CASE m = 5
  <2>1. ToCome(s, q, 3) /\ r \in Loaded(s, q[3])
    BY <1>5 DEF HalfRefresh, HalfLoad
  <2>2. /\ ToCome(r, q, 3 + 1)
        /\ At(r, 1) = At(s, 5) /\ At(r, 2) = At(s, 6)
        /\ At(r, 3) = At(s, 7) /\ At(r, 4) = At(s, 8)
        /\ At(r, 5) = At(s, 3) /\ At(r, 6) = At(s, 4)
        /\ At(r, 7) = At(s, 2) /\ At(r, 8) = q[3]
    BY <2>1, ComesNext
  <2>3. QED
    BY <1>5, <2>2 DEF HalfRefresh, Stand
<1>6. CASE m = 6
  <2>1. ToCome(s, q, 4) /\ r \in Loaded(s, q[4])
    BY <1>6 DEF HalfRefresh, HalfLoad
  <2>2. /\ ToCome(r, q, 4 + 1)
        /\ At(r, 1) = At(s, 5) /\ At(r, 2) = At(s, 6)
        /\ At(r, 3) = At(s, 7) /\ At(r, 4) = At(s, 8)
        /\ At(r, 5) = At(s, 3) /\ At(r, 6) = At(s, 4)
        /\ At(r, 7) = At(s, 2) /\ At(r, 8) = q[4]
    BY <2>1, ComesNext
  <2>3. QED
    BY <1>6, <2>2 DEF HalfRefresh, Stand
<1>7. CASE m = 7
  <2>1. ToCome(s, q, 5) /\ r \in Loaded(s, q[5])
    BY <1>7 DEF HalfRefresh, HalfLoad
  <2>2. /\ ToCome(r, q, 5 + 1)
        /\ At(r, 1) = At(s, 5) /\ At(r, 2) = At(s, 6)
        /\ At(r, 3) = At(s, 7) /\ At(r, 4) = At(s, 8)
        /\ At(r, 5) = At(s, 3) /\ At(r, 6) = At(s, 4)
        /\ At(r, 7) = At(s, 2) /\ At(r, 8) = q[5]
    BY <2>1, ComesNext
  <2>3. QED
    BY <1>7, <2>2 DEF HalfRefresh, Stand
<1>8. CASE m = 8
  <2>1. At(s, 2) = y /\ r \in Loaded(s, y)
    BY <1>8 DEF HalfRefresh, HalfLoad, Stand
  <2>2. /\ At(r, 1) = At(s, 5) /\ At(r, 2) = At(s, 6)
        /\ At(r, 3) = At(s, 7) /\ At(r, 4) = At(s, 8)
        /\ At(r, 5) = At(s, 3) /\ At(r, 6) = At(s, 4)
        /\ At(r, 7) = At(s, 1) /\ At(r, 8) = y
    BY <2>1, HitSeats
  <2>3. QED
    BY <1>8, <2>2 DEF HalfRefresh, Stand
<1>9. QED
  BY <1>1, <1>2, <1>3, <1>4, <1>5, <1>6, <1>7, <1>8

\* A load of the line at seat 5 or 7.
LEMMA UpperSeats ==
  ASSUME NEW s \in CacheSet, NEW x \in Line, NEW r \in Loaded(s, x), HeldOnce(s)
  PROVE  /\ At(s, 5) = x => /\ \A n \in 1..4 : At(r, n) = At(s, n)
                            /\ At(r, 5) = At(s, 7) /\ At(r, 6) = At(s, 8)
                            /\ At(r, 7) = At(s, 6) /\ At(r, 8) = x
         /\ At(s, 7) = x => /\ \A n \in 1..6 : At(r, n) = At(s, n)
                            /\ At(r, 7) = At(s, 8) /\ At(r, 8) = x
<1>1. At(s, 5) = x => LoadedAt(s, r, 5, x)
  BY HitSeat DEF Seats
<1>2. At(s, 7) = x => LoadedAt(s, r, 7, x)
  BY HitSeat DEF Seats
<1>3. \A n \in 1..6 : n = 1 \/ n = 2 \/ n = 3 \/ n = 4 \/ n = 5 \/ n = 6
  OBVIOUS
<1>4. \A n \in 1..4 : n = 1 \/ n = 2 \/ n = 3 \/ n = 4
  OBVIOUS
<1>5. ASSUME LoadedAt(s, r, 5, x)
      PROVE  /\ \A n \in 1..4 : At(r, n) = At(s, n)
             /\ At(r, 5) = At(s, 7) /\ At(r, 6) = At(s, 8)
             /\ At(r, 7) = At(s, 6) /\ At(r, 8) = x
  BY <1>4, <1>5, MovedTable DEF LoadedAt, Seats
<1>6. ASSUME LoadedAt(s, r, 7, x)
      PROVE  /\ \A n \in 1..6 : At(r, n) = At(s, n)
             /\ At(r, 7) = At(s, 8) /\ At(r, 8) = x
  BY <1>3, <1>6, MovedTable DEF LoadedAt, Seats
<1>7. QED
  BY <1>1, <1>2, <1>5, <1>6

\* The same where x is the first of the six lines.
LEMMA OwnStep ==
  ASSUME NEW s \in CacheSet, Full(s), HeldOnce(s),
         NEW q \in [0..5 -> Line], \A i, j \in 0..5 : q[i] = q[j] => i = j,
         NEW y \in Line, \A i \in 0..5 : q[i] # y,
         NEW m \in 1..8, OwnRefresh(s, y, q, m), NEW r \in Loaded(s, HalfLoad(y, q, m))
  PROVE  OwnRefresh(r, y, q, m + 1)
<1>0. q[0] \in Line /\ q[1] \in Line /\ q[2] \in Line /\ q[3] \in Line /\ q[4] \in Line /\ q[5] \in Line
  OBVIOUS
<1>1. CASE m = 1
  <2>1. ToCome(s, q, 1) /\ At(s, 7) = q[0] /\ At(s, 8) = y /\ r \in Loaded(s, q[0])
    BY <1>1 DEF OwnRefresh, HalfLoad
  <2>2. (\A n \in 1..6 : At(r, n) = At(s, n)) /\ At(r, 7) = y /\ At(r, 8) = q[0]
    BY <1>0, <2>1, UpperSeats
  <2>3. ToCome(r, q, 1)
    BY <2>1, <2>2 DEF ToCome
  <2>4. QED
    BY <1>1, <2>2, <2>3 DEF OwnRefresh
<1>2. CASE m = 2
  <2>1. ToCome(s, q, 1) /\ r \in Loaded(s, q[1])
    BY <1>2 DEF OwnRefresh, HalfLoad
  <2>2. /\ ToCome(r, q, 1 + 1)
        /\ At(r, 1) = At(s, 5) /\ At(r, 2) = At(s, 6)
        /\ At(r, 3) = At(s, 7) /\ At(r, 4) = At(s, 8)
        /\ At(r, 5) = At(s, 3) /\ At(r, 6) = At(s, 4)
        /\ At(r, 7) = At(s, 2) /\ At(r, 8) = q[1]
    BY <2>1, ComesNext
  <2>3. QED
    BY <1>2, <2>2 DEF OwnRefresh, Stand
<1>3. CASE m = 3
  <2>1. ToCome(s, q, 2) /\ r \in Loaded(s, q[2])
    BY <1>3 DEF OwnRefresh, HalfLoad
  <2>2. /\ ToCome(r, q, 2 + 1)
        /\ At(r, 1) = At(s, 5) /\ At(r, 2) = At(s, 6)
        /\ At(r, 3) = At(s, 7) /\ At(r, 4) = At(s, 8)
        /\ At(r, 5) = At(s, 3) /\ At(r, 6) = At(s, 4)
        /\ At(r, 7) = At(s, 2) /\ At(r, 8) = q[2]
    BY <2>1, ComesNext
  <2>3. QED
    BY <1>3, <2>2 DEF OwnRefresh, Stand
<1>4. CASE m = 4
  <2>1. ToCome(s, q, 3) /\ At(s, 5) = y /\ r \in Loaded(s, y)
    BY <1>4 DEF OwnRefresh, HalfLoad
  <2>2. /\ \A n \in 1..4 : At(r, n) = At(s, n)
        /\ At(r, 5) = At(s, 7) /\ At(r, 6) = At(s, 8)
        /\ At(r, 7) = At(s, 6) /\ At(r, 8) = y
    BY <2>1, UpperSeats
  <2>3. ToCome(r, q, 3)
    BY <2>1, <2>2, EightSeats DEF ToCome
  <2>4. QED
    BY <1>4, <2>2, <2>3 DEF OwnRefresh
<1>5. CASE m = 5
  <2>1. ToCome(s, q, 3) /\ r \in Loaded(s, q[3])
    BY <1>5 DEF OwnRefresh, HalfLoad
  <2>2. /\ ToCome(r, q, 3 + 1)
        /\ At(r, 1) = At(s, 5) /\ At(r, 2) = At(s, 6)
        /\ At(r, 3) = At(s, 7) /\ At(r, 4) = At(s, 8)
        /\ At(r, 5) = At(s, 3) /\ At(r, 6) = At(s, 4)
        /\ At(r, 7) = At(s, 2) /\ At(r, 8) = q[3]
    BY <2>1, ComesNext
  <2>3. QED
    BY <1>5, <2>2 DEF OwnRefresh, Stand
<1>6. CASE m = 6
  <2>1. ToCome(s, q, 4) /\ r \in Loaded(s, q[4])
    BY <1>6 DEF OwnRefresh, HalfLoad
  <2>2. /\ ToCome(r, q, 4 + 1)
        /\ At(r, 1) = At(s, 5) /\ At(r, 2) = At(s, 6)
        /\ At(r, 3) = At(s, 7) /\ At(r, 4) = At(s, 8)
        /\ At(r, 5) = At(s, 3) /\ At(r, 6) = At(s, 4)
        /\ At(r, 7) = At(s, 2) /\ At(r, 8) = q[4]
    BY <2>1, ComesNext
  <2>3. QED
    BY <1>6, <2>2 DEF OwnRefresh, Stand
<1>7. CASE m = 7
  <2>1. ToCome(s, q, 5) /\ r \in Loaded(s, q[5])
    BY <1>7 DEF OwnRefresh, HalfLoad
  <2>2. /\ ToCome(r, q, 5 + 1)
        /\ At(r, 1) = At(s, 5) /\ At(r, 2) = At(s, 6)
        /\ At(r, 3) = At(s, 7) /\ At(r, 4) = At(s, 8)
        /\ At(r, 5) = At(s, 3) /\ At(r, 6) = At(s, 4)
        /\ At(r, 7) = At(s, 2) /\ At(r, 8) = q[5]
    BY <2>1, ComesNext
  <2>3. QED
    BY <1>7, <2>2 DEF OwnRefresh, Stand
<1>8. CASE m = 8
  <2>1. At(s, 2) = y /\ r \in Loaded(s, y)
    BY <1>8 DEF OwnRefresh, HalfLoad
  <2>2. /\ At(r, 1) = At(s, 5) /\ At(r, 2) = At(s, 6)
        /\ At(r, 3) = At(s, 7) /\ At(r, 4) = At(s, 8)
        /\ At(r, 5) = At(s, 3) /\ At(r, 6) = At(s, 4)
        /\ At(r, 7) = At(s, 1) /\ At(r, 8) = y
    BY <2>1, HitSeats
  <2>3. QED
    BY <1>8, <2>2 DEF OwnRefresh
<1>9. QED
  BY <1>1, <1>2, <1>3, <1>4, <1>5, <1>6, <1>7, <1>8

\* After the first half, the second one finds none of its six lines but at the
\* victim's seat; whichever way the first half went.
LEMMA HalfWay ==
  ASSUME NEW s, NEW x, NEW y, NEW q, NEW p,
         \/ HalfRefresh(s, x, y, q, 9)
         \/ OwnRefresh(s, y, q, 9) /\ x = q[0],
         \A i, j \in 0..5 : p[j] # q[i], \A j \in 0..5 : p[j] \notin {x, y}
  PROVE  HalfRefresh(s, x, y, p, 1)
<1>1. At(s, 7) = x /\ At(s, 8) = y
  BY DEF HalfRefresh, OwnRefresh, Stand
<1>2. At(s, 2) = q[3] /\ At(s, 6) = q[4]
  BY DEF HalfRefresh, OwnRefresh, Stand
<1>3. /\ At(s, 3) \in {q[2], q[1]} /\ At(s, 4) = q[5]
      /\ At(s, 5) \in {q[1], q[2]}
  BY DEF HalfRefresh, OwnRefresh, Stand
<1>4. ToCome(s, p, 0)
  BY <1>1, <1>2, <1>3, EightSeats DEF ToCome
<1>5. QED
  BY <1>1, <1>4 DEF HalfRefresh

-----------------------------------------------------------------------------
\* A load of the next of the seven lines, and one of y.
LEMMA CycleStep ==
  ASSUME NEW s \in CacheSet, Full(s), NEW z \in Line, NEW r \in Loaded(s, z),
         NEW o \in 0..2, NEW x, NEW y,
         NEW g0, NEW g1, NEW g2, NEW g3, NEW g4, NEW g5,
         Cycle(s, o, x, y, g0, g1, g2, g3, g4, g5),
         z \notin {x, y, g0, g1, g2, g3, g4, g5}
  PROVE  Cycle(r, o + 1, x, y, z, g0, g1, g2, g3, g4)
<1>1. \A n \in 2..8 : At(s, n) # z
  BY EightSeats DEF Cycle, Mated
<1>2. /\ At(r, 1) = At(s, 5) /\ At(r, 2) = At(s, 6)
      /\ At(r, 3) = At(s, 7) /\ At(r, 4) = At(s, 8)
      /\ At(r, 5) = At(s, 3) /\ At(r, 6) = At(s, 4)
      /\ At(r, 7) = At(s, 2) /\ At(r, 8) = z
  BY <1>1, MissedSeats
<1>3. CASE o = 0
  BY <1>2, <1>3 DEF Cycle, Mated
<1>4. CASE o = 1
  BY <1>2, <1>4 DEF Cycle, Mated
<1>5. CASE o = 2
  BY <1>2, <1>5 DEF Cycle, Mated
<1>6. QED
  BY <1>3, <1>4, <1>5

LEMMA CycleBack ==
  ASSUME NEW s \in CacheSet, HeldOnce(s), NEW y \in Line, NEW r \in Loaded(s, y), NEW x,
         NEW g0, NEW g1, NEW g2, NEW g3, NEW g4, NEW g5,
         Cycle(s, 3, x, y, g0, g1, g2, g3, g4, g5)
  PROVE  Cycle(r, 0, x, y, g0, g1, g2, g3, g4, g5)
<1>1. /\ Mated(s, x, y, {1})
      /\ At(s, 3) = g4 /\ At(s, 4) = g1 /\ At(s, 5) = g5
      /\ At(s, 6) = g2 /\ At(s, 7) = g3 /\ At(s, 8) = g0
  BY DEF Cycle
<1>2. Mated(r, x, y, {7})
  <2>1. Mated(s, x, y, Odd)
    BY <1>1 DEF Mated, Odd
  <2>2. QED
    BY <2>1, MatedSelf
<1>3. PICK k \in {1, 2} : At(s, k) = y
  BY <1>1 DEF Mated
<1>4. LoadedAt(s, r, k, y)
  BY <1>3, HitSeat DEF Seats
<1>5. /\ At(r, 1) = At(s, 5) /\ At(r, 2) = At(s, 6)
      /\ At(r, 3) = At(s, 7) /\ At(r, 4) = At(s, 8)
      /\ At(r, 5) = At(s, 3) /\ At(r, 6) = At(s, 4)
  <2>1. CASE k = 1
    BY <1>4, <2>1, MovedTable DEF LoadedAt, Seats
  <2>2. CASE k = 2
    BY <1>4, <2>2, MovedTable DEF LoadedAt, Seats
  <2>3. QED
    BY <2>1, <2>2
<1>6. QED
  BY <1>1, <1>2, <1>5 DEF Cycle

-----------------------------------------------------------------------------
\* Eight lines that are all in the set are all there is in it.
LEMMA EightFill ==
  ASSUME NEW s \in CacheSet, NEW q \in [0..7 -> Line],
         \A i, j \in 0..7 : q[i] = q[j] => i = j,
         \A i \in 0..7 : Resident(s, q[i])
  PROVE  \A y : Resident(s, y) => \E i \in 0..7 : y = q[i]
<1> DEFINE f == [i \in 0..7 |-> CHOOSE n \in Seats : At(s, n) = q[i]]
<1>1. \A i \in 0..7 : f[i] \in Seats /\ At(s, f[i]) = q[i]
  <2>1. \A i \in 0..7 : \E n \in Seats : At(s, n) = q[i]
    BY ResidentSeat
  <2>2. QED
    BY <2>1
<1>2. f \in [0..7 -> Seats]
  BY <1>1
<1>3. f \in Injection(0..7, Seats)
  <2>1. \A i, j \in 0..7 : f[i] = f[j] => i = j
    BY <1>1
  <2> HIDE DEF f
  <2>2. QED
    BY <1>2, <2>1 DEF Injection, IsInjective
<1>4. IsFiniteSet(Seats) /\ Cardinality(Seats) = 8 /\ Cardinality(0..7) = 8
  <2>1. 1 \in Int /\ 8 \in Int /\ 0 \in Int /\ 7 \in Int
    OBVIOUS
  <2>2. IsFiniteSet(1..8) /\ Cardinality(1..8) = IF 1 > 8 THEN 0 ELSE 8 - 1 + 1
    BY <2>1, FS_Interval
  <2>3. Cardinality(0..7) = IF 0 > 7 THEN 0 ELSE 7 - 0 + 1
    BY <2>1, FS_Interval
  <2>4. QED
    BY <2>2, <2>3 DEF Seats
<1>5. f \in Surjection(0..7, Seats)
  <2> HIDE DEF f
  <2>1. QED
    BY <1>3, <1>4, FS_Injection
<1>6. \A n \in Seats : \E i \in 0..7 : f[i] = n
  <2> HIDE DEF f
  <2>1. QED
    BY <1>5 DEF Surjection
<1>7. QED
  <2> HIDE DEF f
  <2>1. QED
    BY <1>1, <1>6, ResidentSeat
=============================================================================
