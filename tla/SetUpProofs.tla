---------------------------- MODULE SetUpProofs ----------------------------
(***************************************************************************)
(* Proofs about SetUp, for any offsets of the arrays and of the stack, any *)
(* number of entries and pages, and any draws and times.                   *)
(***************************************************************************)
EXTENDS SetUp, FiniteSetTheorems, SequenceTheorems, TLAPS

-----------------------------------------------------------------------------
\* Where things lie.

Placed == {"measure", "print", "draw", "experiment", "return", "unmap", "done"}

Used(q) == UNION {Location(q, m) : m \in {0, 1, 2, 5}}

PlaceInv ==
  /\ base \in Offsets
  /\ target_index \in {0, base + 136}
  /\ pc \in Placed => target_index = base + 136
  /\ pc = "return" =>
       stack.at \in StackOffsets /\ stack.used = Used(stack.at)

LEMMA PlaceInit == Init => PlaceInv
BY DEF Init, PlaceInv, Placed

LEMMA PlaceStep ==
  ASSUME PlaceInv, [Next]_vars
  PROVE  PlaceInv'
<1>1. CASE mem_map_private \/ MapFails \/ configure_thresholds \/ PrintThresholds
           \/ Return \/ munmap \/ UnmapFails
  BY <1>1 DEF mem_map_private, MapFails, configure_thresholds, PrintThresholds, Return,
     munmap, UnmapFails, PlaceInv, Placed, Used, Location
<1>2. CASE PlaceTarget
  BY <1>2 DEF PlaceTarget, PlaceInv, Placed
<1>3. CASE \E r \in 0..MAX_RAND - 1 : construct_L1_eviction_set(r)
  BY <1>3 DEF construct_L1_eviction_set, PlaceInv, Placed
<1>4. CASE experimentation
  <2>1. PICK q \in StackOffsets : stack' = [at |-> q, used |-> Used(q)]
    BY <1>4 DEF experimentation, Used
  <2>2. pc' = "return" /\ pc = "experiment" /\ UNCHANGED <<base, target_index>>
    BY <1>4 DEF experimentation
  <2>3. Used(q)' = Used(q)
    BY <2>2 DEF Used, Location
  <2>4. stack'.at = q /\ stack'.used = Used(q)
    BY <2>1
  <2>5. QED
    BY <2>2, <2>3, <2>4 DEF PlaceInv, Placed
<1>5. CASE UNCHANGED vars
  BY <1>5 DEF vars, PlaceInv, Placed, Used, Location
<1>6. QED
  BY <1>1, <1>2, <1>3, <1>4, <1>5 DEF Next

\* In the lines of its page: the entries of an array begin in line b of 64,
\* and the targets and the data lie further up, by other numbers of lines.
LEMMA EntryLine ==
  ASSUME NEW b \in 0..127, NEW w \in 0..15
  PROVE  \E m \in 0..2 : L1Set(4 * b + w) = ((b \div 2) + m) % 64
BY DEF L1Set

LEMMA TargetLine ==
  ASSUME NEW b \in 0..127, NEW d \in {136, 272, 296}
  PROVE  L1Set(4 * b + d) = ((b \div 2) + (d \div 8)) % 64
BY DEF L1Set

LEMMA DataLine ==
  ASSUME NEW b \in 0..127, NEW q \in 0..511, NEW w, w \in Used(q), target_index = 4 * b + 136
  PROVE  L1Set(q + w) \in {((b \div 2) + 24) % 64, ((b \div 2) + 25) % 64}
<1>1. PICK m \in {0, 1, 2, 5}, l \in 0..7 : w = 512 - q + target_index + 56 + 512 * m + l
  <2>1. PICK m \in {0, 1, 2, 5} : w \in Location(q, m)
    BY DEF Used
  <2>2. (8 * 512 - 8 * q) \div 8 = 512 - q
    OBVIOUS
  <2>3. QED
    BY <2>1, <2>2 DEF Location, PageWords
<1>2. q + w = 4 * b + 512 * (m + 1) + 192 + l
  BY <1>1
<1>3. (q + w) \div 8 = (b \div 2) + 64 * (m + 1) + 24 + ((4 * (b % 2) + l) \div 8)
  BY <1>1, <1>2
<1>4. (4 * (b % 2) + l) \div 8 \in {0, 1}
  BY <1>1
<1>5. QED
  BY <1>1, <1>3, <1>4 DEF L1Set

LEMMA LinesApart ==
  ASSUME NEW h \in 0..63, NEW m \in {0, 1, 2, 24, 25}, NEW k \in {17, 34, 37}
  PROVE  (h + m) % 64 # (h + k) % 64
OBVIOUS

\* The targets are set off by 17 lines and more so that what the runs read
\* besides their lines never shares an L1 set with them: it does not, for any
\* place of the arrays in the program and of local_array on the stack.
THEOREM HelpersLieElsewhere == Spec => []HelpersElsewhere
<1>1. ASSUME PlaceInv, pc = "return",
             NEW x \in EntrySets \cup DataSets, x \in TargetSets
      PROVE  FALSE
  <2>1. PICK b \in 0..127 : base = 4 * b
    BY <1>1, SetUpAssumption DEF PlaceInv
  <2>2. target_index = 4 * b + 136
    BY <1>1, <2>1 DEF PlaceInv, Placed
  <2> DEFINE h == b \div 2
  <2>3. h \in 0..63
    OBVIOUS
  <2>4. PICK k \in {17, 34, 37} : x = (h + k) % 64
    <3>1. PICK d \in {136, 272, 296} : x = L1Set(4 * b + d)
      BY <1>1, <2>2 DEF TargetSets, target_addr, target_addr_m, target_addr_m2, At
    <3>2. d \div 8 \in {17, 34, 37}
      OBVIOUS
    <3>3. QED
      BY <3>1, <3>2, TargetLine
  <2>5. PICK n2 \in {0, 1, 2, 24, 25} : x = (h + n2) % 64
    <3>1. CASE x \in EntrySets
      <4>1. PICK w \in 0..15 : x = L1Set(4 * b + w)
        BY <3>1, <2>1 DEF EntrySets
      <4>2. PICK l \in 0..2 : x = (h + l) % 64
        BY <4>1, EntryLine
      <4>3. l \in {0, 1, 2, 24, 25}
        OBVIOUS
      <4>4. QED
        BY <4>2, <4>3
    <3>2. CASE x \in DataSets
      <4>1. PICK q \in 0..511 : q = stack.at /\ stack.used = Used(q)
        <5>1. stack.at \in StackOffsets /\ stack.used = Used(stack.at)
          BY <1>1 DEF PlaceInv
        <5>2. StackOffsets \subseteq 0..511
          BY SetUpAssumption DEF PageWords
        <5>3. QED
          BY <5>1, <5>2
      <4>2. PICK w \in Used(q) : x = L1Set(q + w)
        BY <3>2, <4>1 DEF DataSets
      <4>3. x \in {(h + 24) % 64, (h + 25) % 64}
        BY <2>1, <2>2, <4>1, <4>2, DataLine
      <4>4. QED
        BY <4>3
    <3>3. QED
      BY <1>1, <3>1, <3>2
  <2> HIDE DEF h
  <2>6. QED
    BY <2>3, <2>4, <2>5, LinesApart
<1>2. PlaceInv => HelpersElsewhere
  BY <1>1 DEF HelpersElsewhere
<1>3. QED
  BY <1>2, PlaceInit, PlaceStep, PTL DEF Spec

-----------------------------------------------------------------------------
\* What is mapped.

AllRegions == {Regions[m] : m \in DOMAIN Regions}

MapInv ==
  /\ n \in 1..9
  /\ mapped \subseteq AllRegions
  /\ pc = "map" => \A m \in 1..n - 1 : Regions[m] \in mapped
  /\ pc \in Placed \cup {"place"} /\ (pc = "unmap" => n = 1) /\ pc # "done" => mapped = AllRegions
  /\ pc \in {"place", "measure", "print", "experiment", "return"} => n = 1
  /\ pc = "draw" => n \in 1..3
  /\ pc \in {"map", "place", "measure", "print", "draw", "experiment",
             "return", "unmap", "done", "abort"}

LEMMA RegionsForm == Len(Regions) = 9 /\ DOMAIN Regions = 1..9 /\ Len(L1Sets) = 3
BY DEF Regions, L1Sets

LEMMA MapInit == Init => MapInv
BY DEF Init, MapInv, Placed

LEMMA MapStep ==
  ASSUME MapInv, [Next]_vars
  PROVE  MapInv'
<1>1. CASE mem_map_private
  <2>1. mapped' = mapped \cup {Regions[n]} /\ mapped' \subseteq AllRegions
    BY <1>1, RegionsForm DEF mem_map_private, MapInv, AllRegions
  <2>2. \A m \in 1..n : Regions[m] \in mapped'
    BY <1>1, <2>1 DEF mem_map_private, MapInv
  <2>3. CASE n < 9
    <3>1. n' = n + 1 /\ pc' = "map"
      BY <1>1, <2>3, RegionsForm DEF mem_map_private
    <3>2. QED
      BY <2>1, <2>2, <2>3, <3>1 DEF MapInv, Placed
  <2>4. CASE ~(n < 9)
    <3>1. n' = 1 /\ pc' = "place"
      BY <1>1, <2>4, RegionsForm DEF mem_map_private
    <3>2. AllRegions \subseteq mapped'
      BY <2>2, <2>4, RegionsForm DEF MapInv, AllRegions
    <3>3. QED
      BY <2>1, <3>1, <3>2 DEF MapInv, Placed
  <2>5. QED
    BY <2>3, <2>4
<1>2. CASE munmap
  <2>1. mapped' \subseteq mapped /\ pc = "unmap"
    BY <1>2 DEF munmap
  <2>2. CASE n < 9
    <3>1. n' = n + 1 /\ pc' = "unmap"
      BY <1>2, <2>1, <2>2, RegionsForm DEF munmap
    <3>2. QED
      BY <2>1, <2>2, <3>1 DEF MapInv, Placed
  <2>3. CASE ~(n < 9)
    <3>1. n' = 1 /\ pc' = "done"
      BY <1>2, <2>3, RegionsForm DEF munmap
    <3>2. QED
      BY <2>1, <3>1 DEF MapInv, Placed
  <2>4. QED
    BY <2>2, <2>3
<1>3. CASE \E r \in 0..MAX_RAND - 1 : construct_L1_eviction_set(r)
  BY <1>3, RegionsForm DEF construct_L1_eviction_set, MapInv, Placed
<1>4. CASE MapFails \/ PlaceTarget \/ configure_thresholds \/ PrintThresholds \/ Return
           \/ experimentation \/ UnmapFails
  BY <1>4 DEF MapFails, PlaceTarget, configure_thresholds, PrintThresholds, Return,
     experimentation, UnmapFails, MapInv, Placed
<1>5. CASE UNCHANGED vars
  BY <1>5 DEF vars, MapInv
<1>6. QED
  BY <1>1, <1>2, <1>3, <1>4, <1>5 DEF Next

-----------------------------------------------------------------------------
\* What is drawn.

Pages == 0..MAX_RAND - 1

PageOf(x) == x.word \div PageWords
PagesOf(e) == {PageOf(e[m]) : m \in DOMAIN e}

\* The entries of an array: in its memory, at the page offset of its target,
\* each in a page of its own.
Entries(s, e) ==
  /\ e \in Seq([region : {s.page}, word : Nat])
  /\ Len(e) <= SIZE
  /\ \A m \in 1..Len(e) : InPage(e[m].word) = InPage(s.target.word) /\ PageOf(e[m]) \in Pages
  /\ \A l, m \in 1..Len(e) : l # m => PageOf(e[l]) # PageOf(e[m])
  /\ IsFiniteSet(PagesOf(e)) /\ Cardinality(PagesOf(e)) = Len(e)

LEMMA Sizes ==
  /\ SIZE \in Nat \ {0} /\ MAX_RAND \in Nat /\ MAX_RAND > 1
  /\ THRESHOLD_TEST_COUNT \in Nat \ {0}
BY SetUpAssumption

LEMMA NoEntries ==
  ASSUME NEW s
  PROVE  Entries(s, <<>>)
<1>1. PagesOf(<<>>) = {}
  BY DEF PagesOf
<1>2. <<>> \in Seq([region : {s.page}, word : Nat]) /\ Len(<<>>) = 0
  OBVIOUS
<1>3. IsFiniteSet(PagesOf(<<>>)) /\ Cardinality(PagesOf(<<>>)) = 0
  BY <1>1, FS_EmptySet
<1>4. 1..0 = {}
  OBVIOUS
<1>5. QED
  BY <1>2, <1>3, <1>4, Sizes DEF Entries

LEMMA ElementForm ==
  ASSUME NEW s, s.target.word \in Nat, NEW r \in Pages
  PROVE  /\ Element(s, r) \in [region : {s.page}, word : Nat]
         /\ InPage(Element(s, r).word) = InPage(s.target.word)
         /\ PageOf(Element(s, r)) = r
<1> DEFINE w == s.target.word
<1>1. w \in Nat /\ r \in Nat
  BY SetUpAssumption DEF Pages
<1>2. Element(s, r) = [region |-> s.page, word |-> (w % 512) + 512 * r]
  BY DEF Element, At, InPage, PageWords
<1> HIDE DEF w
<1>3. w % 512 \in 0..511
  BY <1>1
<1>4. ((w % 512) + 512 * r) % 512 = w % 512 /\ ((w % 512) + 512 * r) \div 512 = r
  BY <1>1, <1>3
<1>5. QED
  BY <1>1, <1>2, <1>3, <1>4 DEF InPage, PageOf, PageWords, w

LEMMA AddEntry ==
  ASSUME NEW s, s.target.word \in Nat, NEW e, Entries(s, e), Len(e) < SIZE,
         NEW r \in Pages, \A m \in 1..Len(e) : PageOf(e[m]) # r,
         NEW f, f = Append(e, Element(s, r))
  PROVE  /\ Entries(s, f)
         /\ Len(f) = Len(e) + 1
         /\ PageOf(f[Len(f)]) = r
         /\ \A m \in 1..Len(e) : f[m] = e[m]
         /\ r \notin PagesOf(e)
<1> DEFINE R == [region : {s.page}, word : Nat]
<1>1. e \in Seq(R) /\ Element(s, r) \in R
  BY ElementForm DEF Entries
<1>2. /\ f \in Seq(R) /\ Len(f) = Len(e) + 1 /\ Len(e) \in Nat
      /\ \A m \in 1..Len(e) : f[m] = e[m]
      /\ f[Len(e) + 1] = Element(s, r)
      /\ DOMAIN f = 1..Len(e) + 1 /\ DOMAIN e = 1..Len(e)
  <2>1. /\ f \in Seq(R) /\ Len(f) = Len(e) + 1
        /\ \A m \in 1..Len(e) : f[m] = e[m]
        /\ f[Len(e) + 1] = Element(s, r)
    BY <1>1, AppendProperties
  <2>2. QED
    BY <1>1, <2>1, LenProperties
<1>3. PageOf(f[Len(f)]) = r /\ InPage(f[Len(f)].word) = InPage(s.target.word)
  BY <1>2, ElementForm
<1>4. r \notin PagesOf(e)
  BY <1>2 DEF PagesOf
<1>5. PagesOf(f) = PagesOf(e) \cup {r}
  BY <1>2, <1>3 DEF PagesOf
<1>6. IsFiniteSet(PagesOf(f)) /\ Cardinality(PagesOf(f)) = Len(f)
  <2>1. IsFiniteSet(PagesOf(e)) /\ Cardinality(PagesOf(e)) = Len(e)
    BY DEF Entries
  <2>2. /\ IsFiniteSet(PagesOf(e) \cup {r})
        /\ Cardinality(PagesOf(e) \cup {r}) = Cardinality(PagesOf(e)) + 1
    BY <1>4, <2>1, FS_AddElement
  <2>3. QED
    BY <1>2, <1>5, <2>1, <2>2
<1>7. \A m \in 1..Len(f) : m \in 1..Len(e) \/ m = Len(f)
  BY <1>2
<1>8. \A m \in 1..Len(f) : InPage(f[m].word) = InPage(s.target.word) /\ PageOf(f[m]) \in Pages
  BY <1>2, <1>3, <1>7 DEF Entries
<1>9. \A l, m \in 1..Len(f) : l # m => PageOf(f[l]) # PageOf(f[m])
  BY <1>2, <1>3, <1>7 DEF Entries
<1>10. QED
  BY <1>2, <1>3, <1>4, <1>5, <1>6, <1>8, <1>9, Sizes DEF Entries

Array(m) == evsets[L1Sets[m].evset]

\* The pages of e, in the order they were drawn.
DrawnAre(rs, e) == Len(rs) = Len(e) /\ \A m \in 1..Len(rs) : PageOf(e[m]) = rs[m]

DrawInv ==
  /\ target_index \in Nat
  /\ evsets = [a \in Arrays |-> evsets[a]]
  /\ \A m \in 1..3 : Entries(L1Sets[m], Array(m))
  /\ pc \in {"map", "place", "measure", "print"} => \A m \in 1..3 : Array(m) = <<>>
  /\ pc = "draw" =>
       /\ n \in 1..3
       /\ \A m \in 1..3 : /\ m < n => Len(Array(m)) = SIZE
                          /\ m > n => Array(m) = <<>>
       /\ rands \in Seq(Pages) /\ Len(rands) < SIZE
       /\ \A m \in 1..3 : m = n => DrawnAre(rands, Array(m))
  /\ pc # "draw" => rands = <<>>
  /\ pc \in {"experiment", "return", "unmap", "done"} => \A m \in 1..3 : Len(Array(m)) = SIZE

LEMMA SetsForm ==
  ASSUME target_index \in Nat
  PROVE  /\ \A m \in 1..3 : L1Sets[m].evset \in Arrays /\ L1Sets[m].target.word \in Nat
         /\ \A l, m \in 1..3 : l # m => L1Sets[l].evset # L1Sets[m].evset
         /\ \A a \in Arrays : \E m \in 1..3 : L1Sets[m].evset = a
         /\ \A m \in 1..3 : L1Sets[m].page \in AllRegions
<1>1. /\ L1Sets[1] = [evset |-> "s_evsetL1", page |-> Regions[4], target |-> target_addr]
      /\ L1Sets[2] = [evset |-> "s_evsetL1_c", page |-> Regions[5], target |-> target_addr]
      /\ L1Sets[3] = [evset |-> "s_evsetL1_m", page |-> Regions[6], target |-> target_addr_m2]
  BY DEF L1Sets, Regions
<1>2. target_addr.word \in Nat /\ target_addr_m2.word \in Nat
  BY DEF target_addr, target_addr_m2, At
<1>3. {Regions[4], Regions[5], Regions[6]} \subseteq AllRegions
  BY RegionsForm DEF AllRegions
<1>4. \A m \in 1..3 : m = 1 \/ m = 2 \/ m = 3
  OBVIOUS
<1>5. QED
  BY <1>1, <1>2, <1>3, <1>4 DEF Arrays

\* One turn of the loop adds to the array that is next a page that it lacks,
\* and leaves the others alone.
LEMMA TurnAdds ==
  ASSUME DrawInv, NEW r \in Pages, construct_L1_eviction_set(r)
  PROVE  /\ n \in 1..3
         /\ \E f : /\ evsets' = [evsets EXCEPT ![L1Sets[n].evset] = f]
                   /\ evsets'[L1Sets[n].evset] = f
                   /\ Entries(L1Sets[n], f)
                   /\ Len(f) = Len(Array(n)) + 1
                   /\ PageOf(f[Len(f)]) = r
                   /\ \A m \in 1..Len(Array(n)) : f[m] = Array(n)[m]
                   /\ PagesOf(f) = PagesOf(Array(n)) \cup {r}
         /\ r \notin PagesOf(Array(n))
         /\ \A m \in 1..3 : m # n => evsets'[L1Sets[m].evset] = Array(m)
<1> DEFINE s == L1Sets[n]
           e == Array(n)
           f == Append(e, Element(s, r))
<1>1. /\ pc = "draw" /\ n \in 1..3 /\ target_index \in Nat
      /\ Entries(s, e) /\ Len(rands) = Len(e) /\ Len(e) < SIZE
      /\ \A m \in 1..Len(rands) : PageOf(e[m]) = rands[m]
  BY DEF DrawInv, DrawnAre, construct_L1_eviction_set
<1>2. \A m \in 1..Len(e) : PageOf(e[m]) # r
  BY <1>1 DEF construct_L1_eviction_set, IsNew
<1>3. s.evset \in Arrays /\ s.target.word \in Nat
  BY <1>1, SetsForm
<1>4. f = Append(e, Element(s, r)) /\ evsets' = [evsets EXCEPT ![s.evset] = f]
  BY DEF construct_L1_eviction_set, Array
<1> HIDE DEF f, s, e
<1>5. /\ Entries(s, f) /\ r \notin PagesOf(e)
      /\ Len(f) = Len(e) + 1
      /\ PageOf(f[Len(f)]) = r
      /\ \A m \in 1..Len(e) : f[m] = e[m]
      /\ PagesOf(f) = PagesOf(e) \cup {r}
  <2>1. Entries(s, f)
    BY <1>1, <1>2, <1>3, <1>4, AddEntry
  <2>2. r \notin PagesOf(e)
    BY <1>1, <1>2, <1>3, <1>4, AddEntry
  <2>3. Len(f) = Len(e) + 1
    BY <1>1, <1>2, <1>3, <1>4, AddEntry
  <2>4. PageOf(f[Len(f)]) = r
    BY <1>1, <1>2, <1>3, <1>4, AddEntry
  <2>5. \A m \in 1..Len(e) : f[m] = e[m]
    BY <1>1, <1>2, <1>3, <1>4, AddEntry
  <2>6. PagesOf(f) = PagesOf(e) \cup {r}
    <3>1. Len(e) \in Nat /\ DOMAIN e = 1..Len(e) /\ DOMAIN f = 1..Len(e) + 1
      BY <1>1, <2>1, <2>3, LenProperties DEF Entries
    <3>2. \A m \in 1..Len(e) + 1 : m \in 1..Len(e) \/ m = Len(e) + 1
      BY <3>1
    <3>3. QED
      BY <2>3, <2>4, <2>5, <3>1, <3>2 DEF PagesOf
  <2>7. QED
    BY <2>1, <2>2, <2>3, <2>4, <2>5, <2>6
<1>6. DOMAIN evsets = Arrays
  BY DEF DrawInv
<1> USE DEF s, e
<1>7. evsets'[s.evset] = f
  BY <1>3, <1>4, <1>6
<1>8. ASSUME NEW m \in 1..3, m # n
      PROVE  evsets'[L1Sets[m].evset] = Array(m)
  <2>1. L1Sets[m].evset \in Arrays /\ L1Sets[m].evset # s.evset
    BY <1>1, <1>8, SetsForm
  <2>2. QED
    BY <1>4, <1>6, <2>1 DEF Array
<1>9. QED
  BY <1>1, <1>4, <1>5, <1>7, <1>8

LEMMA DrawInit ==
  ASSUME Init
  PROVE  DrawInv
<1>1. target_index = 0 /\ pc = "map" /\ rands = <<>> /\ evsets = [a \in Arrays |-> <<>>]
  BY DEF Init
<1>2. \A m \in 1..3 : Array(m) = <<>>
  BY <1>1, SetsForm DEF Array
<1>3. QED
  BY <1>1, <1>2, NoEntries DEF DrawInv

LEMMA TurnKeepsDraws ==
  ASSUME DrawInv, NEW r \in Pages, construct_L1_eviction_set(r)
  PROVE  DrawInv'
<1>1. /\ pc = "draw" /\ n \in 1..3 /\ target_index \in Nat
      /\ target_index' = target_index /\ L1Sets' = L1Sets
      /\ rands \in Seq(Pages) /\ Len(rands) < SIZE
      /\ DrawnAre(rands, Array(n))
  BY DEF DrawInv, construct_L1_eviction_set, L1Sets, target_addr, target_addr_m2
<1>2. PICK f : /\ evsets' = [evsets EXCEPT ![L1Sets[n].evset] = f]
               /\ evsets'[L1Sets[n].evset] = f
               /\ Entries(L1Sets[n], f)
               /\ Len(f) = Len(Array(n)) + 1
               /\ PageOf(f[Len(f)]) = r
               /\ \A m \in 1..Len(Array(n)) : f[m] = Array(n)[m]
  BY TurnAdds
<1>3. \A m \in 1..3 : Array(m)' = IF m = n THEN f ELSE Array(m)
  BY <1>1, <1>2, TurnAdds DEF Array
<1>4. \A m \in 1..3 : Entries(L1Sets[m], Array(m))'
  <2>1. \A m \in 1..3 : Entries(L1Sets[m], IF m = n THEN f ELSE Array(m))
    BY <1>2 DEF DrawInv
  <2>2. QED
    BY <1>1, <1>3, <2>1
<1>5. evsets' = [a \in Arrays |-> evsets'[a]]
  BY <1>2 DEF DrawInv
<1>6. CASE Len(rands) + 1 < SIZE
  <2>1. rands' = Append(rands, r) /\ n' = n /\ pc' = pc
    BY <1>6 DEF construct_L1_eviction_set
  <2>2. /\ rands' \in Seq(Pages) /\ Len(rands') = Len(rands) + 1 /\ Len(rands) \in Nat
        /\ \A m \in 1..Len(rands) : rands'[m] = rands[m]
        /\ rands'[Len(rands) + 1] = r
    BY <1>1, <2>1, AppendProperties, LenProperties
  <2>3. DrawnAre(rands', f)
    <3>1. \A m \in 1..Len(rands') : m \in 1..Len(rands) \/ m = Len(rands) + 1
      BY <2>2
    <3>2. QED
      BY <1>1, <1>2, <2>2, <3>1 DEF DrawnAre
  <2>4. \A m \in 1..3 : /\ m < n => Len(Array(m)') = SIZE
                        /\ m > n => Array(m)' = <<>>
                        /\ m = n => DrawnAre(rands', Array(m)')
    BY <1>1, <1>3, <2>3 DEF DrawInv
  <2>5. QED
    BY <1>1, <1>4, <1>5, <1>6, <2>1, <2>2, <2>4 DEF DrawInv
<1>7. CASE ~(Len(rands) + 1 < SIZE)
  <2>1. rands' = <<>> /\ Len(f) = SIZE
    BY <1>1, <1>2, <1>7, Sizes, LenProperties DEF construct_L1_eviction_set, DrawnAre
  <2>2. \A m \in 1..3 : /\ m <= n => Len(Array(m)') = SIZE
                        /\ m > n => Array(m)' = <<>>
    BY <1>1, <1>3, <2>1 DEF DrawInv
  <2>3. CASE n < 3
    <3>1. n' = n + 1 /\ pc' = "draw"
      BY <1>1, <1>7, <2>3, RegionsForm DEF construct_L1_eviction_set
    <3>2. n' \in 1..3 /\ DrawnAre(<<>>, <<>>) /\ Len(<<>>) < SIZE /\ <<>> \in Seq(Pages)
      BY <1>1, <2>3, <3>1, Sizes DEF DrawnAre
    <3>3. \A m \in 1..3 : /\ m < n' => Len(Array(m)') = SIZE
                          /\ m > n' => Array(m)' = <<>>
                          /\ m = n' => DrawnAre(rands', Array(m)')
      BY <1>1, <2>1, <2>2, <3>1, <3>2
    <3>4. QED
      BY <1>1, <1>4, <1>5, <2>1, <3>1, <3>2, <3>3 DEF DrawInv
  <2>4. CASE ~(n < 3)
    <3>1. pc' = "experiment"
      BY <1>1, <1>7, <2>4, RegionsForm DEF construct_L1_eviction_set
    <3>2. \A m \in 1..3 : Len(Array(m)') = SIZE
      BY <1>1, <2>2, <2>4
    <3>3. QED
      BY <1>1, <1>4, <1>5, <2>1, <3>1, <3>2 DEF DrawInv
  <2>5. QED
    BY <2>3, <2>4
<1>8. QED
  BY <1>6, <1>7

LEMMA DrawStep ==
  ASSUME PlaceInv, MapInv, DrawInv, [Next]_vars
  PROVE  DrawInv'
<1>1. CASE \E r \in 0..MAX_RAND - 1 : construct_L1_eviction_set(r)
  BY <1>1, TurnKeepsDraws DEF Pages
<1>2. CASE PlaceTarget
  <2>1. /\ pc = "place" /\ pc' = "measure" /\ UNCHANGED <<evsets, rands>>
        /\ target_index' = base + 136
    BY <1>2 DEF PlaceTarget
  <2>2. target_index' \in Nat
    BY <2>1, SetUpAssumption DEF PlaceInv
  <2>3. \A m \in 1..3 : L1Sets'[m].evset = L1Sets[m].evset
    <3>1. \A m \in 1..3 : m = 1 \/ m = 2 \/ m = 3
      OBVIOUS
    <3>2. QED
      BY <3>1 DEF L1Sets
  <2>4. \A m \in 1..3 : Array(m)' = <<>>
    BY <2>1, <2>3 DEF DrawInv, Array
  <2>5. QED
    BY <2>1, <2>2, <2>4, NoEntries DEF DrawInv
<1>3. CASE PrintThresholds
  <2>1. /\ UNCHANGED <<target_index, evsets, rands, n>> /\ L1Sets' = L1Sets
        /\ pc = "print" /\ pc' = "draw" /\ n = 1
    BY <1>3 DEF PrintThresholds, L1Sets, target_addr, target_addr_m2, MapInv
  <2>2. \A m \in 1..3 : Array(m) = <<>> /\ Array(m)' = <<>>
    BY <2>1 DEF DrawInv, Array
  <2>3. rands' = <<>> /\ DrawnAre(<<>>, <<>>) /\ Len(<<>>) < SIZE /\ <<>> \in Seq(Pages)
    BY <2>1, Sizes DEF DrawInv, DrawnAre
  <2>4. QED
    BY <2>1, <2>2, <2>3, NoEntries DEF DrawInv
<1>4. CASE mem_map_private \/ MapFails \/ configure_thresholds \/ Return
           \/ experimentation \/ munmap \/ UnmapFails \/ UNCHANGED vars
  <2>1. UNCHANGED <<target_index, evsets, rands>>
    BY <1>4 DEF mem_map_private, MapFails, configure_thresholds, Return,
       experimentation, munmap, UnmapFails, vars
  <2>2. L1Sets' = L1Sets /\ \A m \in 1..3 : Array(m)' = Array(m)
    BY <2>1 DEF L1Sets, target_addr, target_addr_m2, Array
  <2>3. \A m \in 1..3 : Entries(L1Sets[m], Array(m))'
    BY <2>2 DEF DrawInv
  <2>4. /\ pc' \in {"map", "place", "measure", "print"} => pc \in {"map", "place", "measure", "print"}
        /\ pc' \in {"experiment", "return", "unmap", "done"} => pc \in {"experiment", "return", "unmap", "done"}
        /\ pc = "draw" \/ pc' = "draw" => pc = pc' /\ n' = n
    BY <1>4 DEF mem_map_private, MapFails, configure_thresholds, Return,
       experimentation, munmap, UnmapFails, vars
  <2>5. QED
    BY <2>1, <2>2, <2>3, <2>4 DEF DrawInv
<1>5. QED
  BY <1>1, <1>2, <1>3, <1>4 DEF Next

-----------------------------------------------------------------------------
picked == [a \in Arrays |-> Picked(a)]
ready == {a \in Arrays : Len(evsets[a]) = SIZE}

LEMMA PickedPages ==
  ASSUME DrawInv, NEW m \in 1..3
  PROVE  /\ L1Sets[m].evset \in Arrays
         /\ picked[L1Sets[m].evset] = PagesOf(Array(m))
<1>1. L1Sets[m].evset \in Arrays
  BY SetsForm DEF DrawInv
<1>2. Picked(L1Sets[m].evset) = PagesOf(Array(m))
  BY DEF Picked, PagesOf, PageOf, Array
<1>3. QED
  BY <1>1, <1>2 DEF picked

LEMMA TurnPicks ==
  ASSUME DrawInv, NEW r \in Pages, construct_L1_eviction_set(r)
  PROVE  Picks!Pick(L1Sets[n].evset, r)
<1> DEFINE b == L1Sets[n].evset
<1>1. n \in 1..3 /\ r \notin PagesOf(Array(n))
  BY TurnAdds
<1>2. PICK f : /\ evsets' = [evsets EXCEPT ![b] = f]
               /\ evsets'[b] = f
               /\ Entries(L1Sets[n], f)
               /\ Len(f) = Len(Array(n)) + 1
               /\ PagesOf(f) = PagesOf(Array(n)) \cup {r}
  BY TurnAdds
<1>3. b \in Arrays /\ picked[b] = PagesOf(Array(n)) /\ evsets[b] = Array(n)
  BY <1>1, PickedPages DEF Array
<1>4. DOMAIN evsets = Arrays /\ Len(Array(n)) < SIZE
  BY <1>1 DEF DrawInv, DrawnAre, construct_L1_eviction_set
<1> HIDE DEF b
<1>5. b \notin ready /\ r \notin picked[b]
  BY <1>1, <1>3, <1>4, Sizes DEF ready, DrawInv, Entries
<1>6. \A a \in Arrays : evsets'[a] = IF a = b THEN f ELSE evsets[a]
  BY <1>2, <1>3, <1>4
<1>7. picked' = [picked EXCEPT ![b] = @ \cup {r}]
  <2>1. \A a \in Arrays : picked'[a] = IF a = b THEN PagesOf(f) ELSE picked[a]
    BY <1>6 DEF picked, Picked, PagesOf, PageOf
  <2>2. \A a \in Arrays : picked'[a] = [picked EXCEPT ![b] = @ \cup {r}][a]
    BY <1>2, <1>3, <2>1 DEF picked
  <2>3. QED
    BY <2>2 DEF picked
<1>8. Cardinality(picked'[b]) = Len(f)
  BY <1>2, <1>3, <1>6 DEF picked, Picked, Entries, PagesOf, PageOf
<1>9. ready' = IF Cardinality(picked'[b]) = SIZE THEN ready \cup {b} ELSE ready
  BY <1>3, <1>4, <1>6, <1>8, Sizes DEF ready
<1>10. Picks!Pick(b, r)
  <2> SUFFICES /\ b \notin ready /\ r \notin picked[b]
               /\ picked' = [picked EXCEPT ![b] = @ \cup {r}]
               /\ ready' = IF Cardinality(picked'[b]) = SIZE THEN ready \cup {b} ELSE ready
    BY DEF Picks!Pick, picked, ready, Cardinality, Picks!Cardinality
  <2>1. QED
    BY <1>5, <1>7, <1>9
<1>11. QED
  BY <1>10 DEF b

\* construct_L1_eviction_set gives each of its callers SIZE different pages:
\* the set-up implements the abstract DistinctPicks.
THEOREM PicksAreDistinct == Spec => PicksDistinct
<1> DEFINE Inv == PlaceInv /\ MapInv /\ DrawInv
<1>1. Init => Inv
  BY PlaceInit, MapInit, DrawInit
<1>2. Inv /\ [Next]_vars => Inv'
  BY PlaceStep, MapStep, DrawStep
<1>3. Init => Picks!Init
  BY Sizes DEF Init, Picks!Init, Picked
<1>4. Inv /\ [Next]_vars => [Picks!Next]_<<picked, ready>>
  <2> SUFFICES ASSUME Inv, [Next]_vars
               PROVE  [Picks!Next]_<<picked, ready>>
    OBVIOUS
  <2>1. CASE \E r \in 0..MAX_RAND - 1 : construct_L1_eviction_set(r)
    <3>1. PICK r \in Pages : construct_L1_eviction_set(r)
      BY <2>1 DEF Pages
    <3>2. Picks!Pick(L1Sets[n].evset, r) /\ n \in 1..3
      BY <3>1, TurnPicks, TurnAdds
    <3>3. L1Sets[n].evset \in Arrays
      BY <3>2, PickedPages
    <3>4. QED
      BY <3>1, <3>2, <3>3 DEF Picks!Next, Pages
  <2>2. CASE UNCHANGED evsets
    BY <2>2 DEF picked, ready, Picked
  <2>3. QED
    BY <2>1, <2>2 DEF Next, mem_map_private, MapFails, PlaceTarget, configure_thresholds,
       PrintThresholds, Return, experimentation, munmap, UnmapFails, vars
<1> HIDE DEF Inv
<1>5. QED
  BY <1>1, <1>2, <1>3, <1>4, PTL DEF Spec, PicksDistinct, Picks!Spec, picked, ready

-----------------------------------------------------------------------------
\* The layout that amplify.c is given.

LineAt(a) == [a EXCEPT !.word = @ \div 8]

LEMMA SetOfWord ==
  ASSUME NEW w \in Nat, NEW t \in Nat, InPage(w) = InPage(t)
  PROVE  L1Set(w) = L1Set(t)
<1>1. L1Set(w) = (w % 512) \div 8 /\ L1Set(t) = (t % 512) \div 8
  BY DEF L1Set
<1>2. QED
  BY <1>1 DEF InPage, PageWords

LEMMA LinesOfPages ==
  ASSUME NEW R, NEW a \in [region : R, word : Nat], NEW b \in [region : R, word : Nat],
         LineAt(a) = LineAt(b)
  PROVE  a.region = b.region /\ PageOf(a) = PageOf(b)
<1>1. a.word \in Nat /\ b.word \in Nat
  OBVIOUS
<1>2. LineAt(a).region = a.region /\ LineAt(a).word = a.word \div 8
  BY DEF LineAt
<1>3. LineAt(b).region = b.region /\ LineAt(b).word = b.word \div 8
  BY DEF LineAt
<1>4. a.region = b.region /\ a.word \div 8 = b.word \div 8
  BY <1>2, <1>3
<1>5. a.word \div 512 = b.word \div 512
  BY <1>1, <1>4
<1>6. QED
  BY <1>4, <1>5 DEF PageOf, PageWords

\* The entries that two arrays hold in their first halves lie in as many lines.
LEMMA HalvesCount ==
  ASSUME NEW s, NEW e, Entries(s, e), Len(e) = SIZE,
         NEW t, NEW f, Entries(t, f), Len(f) = SIZE, s.page # t.page
  PROVE  Cardinality({LineAt(a) : a \in {e[m] : m \in 1..SIZE \div 2} \cup {f[m] : m \in 1..SIZE \div 2}})
           = SIZE
<1> DEFINE h == SIZE \div 2
           X == {LineAt(a) : a \in {e[m] : m \in 1..h} \cup {f[m] : m \in 1..h}}
           G == [m \in 1..SIZE |-> IF m <= h THEN LineAt(e[m]) ELSE LineAt(f[m - h])]
           R == {s.page, t.page}
<1>1. h \in Nat /\ SIZE = h + h
  BY SetUpAssumption
<1>2. \A m \in 1..SIZE : /\ e[m] \in [region : R, word : Nat] /\ e[m].region = s.page
                         /\ f[m] \in [region : R, word : Nat] /\ f[m].region = t.page
  <2>1. \A m \in 1..SIZE : e[m] \in [region : {s.page}, word : Nat] /\ f[m] \in [region : {t.page}, word : Nat]
    BY ElementOfSeq DEF Entries
  <2>2. QED
    BY <2>1
<1> HIDE DEF h
<1>3. G \in [1..SIZE -> X]
  <2>1. ASSUME NEW m \in 1..SIZE
        PROVE  (IF m <= h THEN LineAt(e[m]) ELSE LineAt(f[m - h])) \in X
    <3>1. CASE m <= h
      BY <3>1, <1>1
    <3>2. CASE ~(m <= h)
      <4>1. m - h \in 1..h
        BY <3>2, <1>1
      <4>2. QED
        BY <3>2, <4>1
    <3>3. QED
      BY <3>1, <3>2
  <2> HIDE DEF X
  <2>2. QED
    BY <2>1
<1>4. ASSUME NEW x \in X
      PROVE  \E m \in 1..SIZE : G[m] = x
  <2>1. PICK a \in {e[m] : m \in 1..h} \cup {f[m] : m \in 1..h} : x = LineAt(a)
    BY <1>4
  <2>2. CASE a \in {e[m] : m \in 1..h}
    <3>1. PICK m \in 1..h : a = e[m]
      BY <2>2
    <3>2. m \in 1..SIZE /\ m <= h
      BY <1>1, <3>1
    <3>3. G[m] = x
      BY <2>1, <3>1, <3>2
    <3>4. QED
      BY <3>2, <3>3
  <2>3. CASE a \in {f[m] : m \in 1..h}
    <3>1. PICK m \in 1..h : a = f[m]
      BY <2>3
    <3>2. m + h \in 1..SIZE /\ ~(m + h <= h) /\ (m + h) - h = m
      BY <1>1, <3>1
    <3>3. G[m + h] = x
      BY <2>1, <3>1, <3>2
    <3>4. QED
      BY <3>2, <3>3
  <2>4. QED
    BY <2>1, <2>2, <2>3
<1>5. ASSUME NEW l \in 1..SIZE, NEW m \in 1..SIZE, G[l] = G[m]
      PROVE  l = m
  <2> DEFINE A(k) == IF k <= h THEN e[k] ELSE f[k - h]
  <2>1. \A k \in 1..SIZE : ~(k <= h) => k - h \in 1..SIZE
    BY <1>1
  <2>2. A(l) \in [region : R, word : Nat] /\ A(m) \in [region : R, word : Nat]
    BY <1>2, <2>1
  <2>3. LineAt(A(l)) = LineAt(A(m))
    BY <1>5
  <2>4. A(l).region = A(m).region /\ PageOf(A(l)) = PageOf(A(m))
    <3> HIDE DEF A, R
    <3>1. QED
      BY <2>2, <2>3, LinesOfPages
  <2>5. CASE l <= h /\ m <= h
    BY <2>4, <2>5 DEF Entries
  <2>6. CASE ~(l <= h) /\ ~(m <= h)
    <3>1. PageOf(f[l - h]) = PageOf(f[m - h]) /\ l - h \in 1..SIZE /\ m - h \in 1..SIZE
      BY <2>1, <2>4, <2>6
    <3>2. l - h = m - h
      BY <3>1 DEF Entries
    <3>3. QED
      BY <1>1, <3>2
  <2>7. CASE (l <= h) # (m <= h)
    BY <1>2, <2>1, <2>4, <2>7
  <2>8. QED
    BY <2>5, <2>6, <2>7
<1> HIDE DEF G, X
<1>6. G \in Bijection(1..SIZE, X)
  BY <1>3, <1>4, <1>5 DEF Bijection, Injection, Surjection, IsInjective
<1>7. IsFiniteSet(1..SIZE) /\ Cardinality(1..SIZE) = SIZE
  BY FS_Interval, Sizes
<1>8. Cardinality(X) = SIZE
  BY <1>6, <1>7, FS_Bijection DEF ExistsBijection
<1>9. QED
  BY <1>8 DEF X, h

LEMMA HalfOfEntries ==
  ASSUME NEW s, NEW e, Entries(s, e), Len(e) = SIZE, NEW m \in 1..SIZE \div 2
  PROVE  /\ e[m] \in [region : {s.page}, word : Nat]
         /\ InPage(e[m].word) = InPage(s.target.word)
<1>1. m \in 1..SIZE
  BY SetUpAssumption
<1>2. QED
  BY <1>1, ElementOfSeq DEF Entries

\* shared_memory.c gives amplify.c the memory that module Amplify asks for.
THEOREM LayoutSuits == Spec => []LayoutForAmplify
<1> DEFINE Inv == PlaceInv /\ MapInv /\ DrawInv
<1>1. Init => Inv
  BY PlaceInit, MapInit, DrawInit
<1>2. Inv /\ [Next]_vars => Inv'
  BY PlaceStep, MapStep, DrawStep
<1>3. ASSUME Inv, pc = "experiment"
      PROVE  /\ Cardinality({[a EXCEPT !.word = @ \div 8] : a \in L1a \cup L1b}) = SIZE
             /\ \A a \in L1a \cup L1b : L1Set(a.word) = L1Set(target_index)
             /\ L1Set(target_addr_m2.word) # L1Set(target_index)
  <2> DEFINE s == L1Sets[1]
             t == L1Sets[2]
             e == Array(1)
             f == Array(2)
  <2>1. /\ Entries(s, e) /\ Len(e) = SIZE /\ Entries(t, f) /\ Len(f) = SIZE
        /\ target_index \in Nat
    BY <1>3 DEF DrawInv
  <2>2. /\ s.page # t.page /\ s.target.word = target_index /\ t.target.word = target_index
        /\ s.evset = "s_evsetL1" /\ t.evset = "s_evsetL1_c"
    BY DEF L1Sets, target_addr, At
  <2>3. /\ L1a = {e[m] : m \in 1..SIZE \div 2}
        /\ L1b = {f[m] : m \in 1..SIZE \div 2}
    BY <2>2 DEF L1a, L1b, Array
  <2> HIDE DEF s, t, e, f
  <2>4. Cardinality({LineAt(a) : a \in L1a \cup L1b}) = SIZE
    BY <2>1, <2>2, <2>3, HalvesCount
  <2>5. ASSUME NEW a \in L1a \cup L1b
        PROVE  L1Set(a.word) = L1Set(target_index)
    <3>1. a.word \in Nat /\ InPage(a.word) = InPage(target_index)
      BY <2>1, <2>2, <2>3, <2>5, HalfOfEntries
    <3>2. QED
      BY <2>1, <3>1, SetOfWord
  <2>6. L1Set(target_index + 20 * 8) # L1Set(target_index)
    BY <2>1 DEF L1Set
  <2>7. QED
    BY <2>4, <2>5, <2>6 DEF LineAt, target_addr_m2, At
<1>4. Inv => LayoutForAmplify
  BY <1>3 DEF LayoutForAmplify
<1> HIDE DEF Inv
<1>5. QED
  BY <1>1, <1>2, <1>4, PTL DEF Spec

-----------------------------------------------------------------------------
\* What is written.

InMemory(a) == a.region \in AllRegions /\ a.word < MAX_RAND * PageWords

WriteInv ==
  pc = "return" => (\A a \in written : InMemory(a)) /\ stack.used \subseteq 0..4095

LEMMA UsedBounds ==
  ASSUME PlaceInv, pc \in Placed, NEW q \in StackOffsets, NEW w, w \in Used(q)
  PROVE  w \in 0..4095
<1>1. q \in 0..511
  BY SetUpAssumption DEF PageWords
<1>2. target_index \in 136..644
  <2>1. PICK b \in 0..127 : base = 4 * b
    BY SetUpAssumption DEF PlaceInv
  <2>2. QED
    BY <2>1 DEF PlaceInv, Placed
<1>3. PICK m \in {0, 1, 2, 5}, l \in 0..7 : w = 512 - q + target_index + 56 + 512 * m + l
  <2>1. PICK m \in {0, 1, 2, 5} : w \in Location(q, m)
    BY DEF Used
  <2>2. (8 * 512 - 8 * q) \div 8 = 512 - q
    BY <1>1
  <2>3. QED
    BY <2>1, <2>2 DEF Location, PageWords
<1>4. 512 * m \in 0..2560
  BY <1>3
<1>5. QED
  BY <1>1, <1>2, <1>3, <1>4

LEMMA EntryInMemory ==
  ASSUME DrawInv, NEW a \in Arrays, NEW m \in DOMAIN evsets[a]
  PROVE  InMemory(evsets[a][m])
<1>1. PICK k \in 1..3 : L1Sets[k].evset = a
  BY SetsForm DEF DrawInv
<1> DEFINE s == L1Sets[k]
           e == Array(k)
<1>2. Entries(s, e) /\ e = evsets[a] /\ s.page \in AllRegions
  BY <1>1, SetsForm DEF DrawInv, Array
<1> HIDE DEF s, e
<1>3. m \in 1..Len(e)
  BY <1>2, LenProperties DEF Entries
<1>4. e[m] \in [region : {s.page}, word : Nat] /\ PageOf(e[m]) \in Pages
  BY <1>2, <1>3, ElementOfSeq DEF Entries
<1>5. e[m].word \in Nat /\ e[m].word \div 512 \in 0..MAX_RAND - 1
  BY <1>4 DEF PageOf, PageWords, Pages
<1>6. e[m].word < MAX_RAND * 512
  BY <1>5, Sizes
<1>7. QED
  BY <1>2, <1>4, <1>6 DEF InMemory, PageWords

LEMMA TargetInMemory ==
  ASSUME PlaceInv, NEW d \in {0, 136}
  PROVE  InMemory(At("shared_mem", target_index + d))
<1>1. PICK b \in 0..127 : base = 4 * b
  BY SetUpAssumption DEF PlaceInv
<1>2. target_index \in 0..644
  BY <1>1 DEF PlaceInv
<1>3. target_index + d < MAX_RAND * 512
  BY <1>2, Sizes
<1>4. "shared_mem" = Regions[1] /\ 1 \in DOMAIN Regions
  BY DEF Regions
<1>5. QED
  BY <1>3, <1>4 DEF InMemory, AllRegions, At, PageWords

LEMMA WriteStep ==
  ASSUME PlaceInv, DrawInv, WriteInv, [Next]_vars
  PROVE  WriteInv'
<1>1. CASE experimentation
  <2>1. written' = {target_addr, target_addr_m} \cup
          UNION {{evsets[a][m] : m \in DOMAIN evsets[a]} : a \in Arrays}
    BY <1>1 DEF experimentation
  <2>2. InMemory(target_addr) /\ InMemory(target_addr_m)
    <3>1. /\ target_addr = At("shared_mem", target_index + 0)
          /\ target_addr_m = At("shared_mem", target_index + 136)
      <4>1. target_index \in Nat
        BY DEF DrawInv
      <4>2. QED
        BY <4>1 DEF target_addr, target_addr_m
    <3>2. QED
      BY <3>1, TargetInMemory
  <2>3. \A a \in written' : InMemory(a)
    BY <2>1, <2>2, EntryInMemory
  <2>4. \A a \in written' : InMemory(a)'
    BY <2>3 DEF InMemory
  <2>5. PICK q \in StackOffsets : stack' = [at |-> q, used |-> Used(q)]
    BY <1>1 DEF experimentation, Used
  <2>6. stack'.used \subseteq 0..4095
    BY <1>1, <2>5, UsedBounds DEF experimentation, Placed
  <2>7. QED
    BY <2>4, <2>6 DEF WriteInv
<1>2. CASE UNCHANGED vars
  BY <1>2 DEF vars, WriteInv, InMemory
<1>3. CASE \E r \in 0..MAX_RAND - 1 : construct_L1_eviction_set(r)
  <2>1. pc' # "return"
    BY <1>3 DEF construct_L1_eviction_set
  <2>2. QED
    BY <2>1 DEF WriteInv
<1>4. CASE mem_map_private \/ MapFails \/ PlaceTarget \/ configure_thresholds
           \/ PrintThresholds \/ Return \/ munmap \/ UnmapFails
  <2>1. pc' # "return"
    BY <1>4 DEF mem_map_private, MapFails, PlaceTarget, configure_thresholds,
       PrintThresholds, Return, munmap, UnmapFails
  <2>2. QED
    BY <2>1 DEF WriteInv
<1>5. QED
  BY <1>1, <1>2, <1>3, <1>4 DEF Next

\* experimentation() writes and reads nothing but memory that is mapped, and
\* nothing of the stack but its own array.
THEOREM MappedIsTouched == Spec => []TouchesMapped
<1> DEFINE Inv == PlaceInv /\ MapInv /\ DrawInv /\ WriteInv
<1>1. Init => Inv
  BY PlaceInit, MapInit, DrawInit DEF Init, WriteInv
<1>2. Inv /\ [Next]_vars => Inv'
  BY PlaceStep, MapStep, DrawStep, WriteStep
<1>3. Inv => TouchesMapped
  BY DEF TouchesMapped, MapInv, WriteInv, InMemory, Placed
<1> HIDE DEF Inv
<1>4. QED
  BY <1>1, <1>2, <1>3, PTL DEF Spec

-----------------------------------------------------------------------------
\* The times.

LEMMA Multiples ==
  ASSUME NEW w \in Nat \ {0}, NEW d \in Int, NEW k \in Int, 0 <= d + w * k, d + w * k < w, 0 <= d, d < w
  PROVE  w * k = 0
<1>1. CASE k = 0
  BY <1>1
<1>2. CASE k >= 1
  <2>1. PICK l \in Nat : k = l + 1
    <3>1. k - 1 \in Nat /\ k = (k - 1) + 1
      BY <1>2
    <3>2. QED
      BY <3>1
  <2>2. w * k = w * l + w
    BY <2>1
  <2>3. w * l \in Nat
    BY <2>1
  <2>4. QED
    BY <2>2, <2>3
<1>3. CASE k <= -1
  <2>1. PICK l \in Nat : k = -1 - l
    <3>1. -1 - k \in Nat /\ k = -1 - (-1 - k)
      BY <1>3
    <3>2. QED
      BY <3>1
  <2>2. w * k = -w - w * l
    BY <2>1
  <2>3. w * l \in Nat
    BY <2>1
  <2>4. QED
    BY <2>2, <2>3
<1>4. QED
  BY <1>1, <1>2, <1>3

LEMMA ModuloWord ==
  ASSUME NEW w \in Nat \ {0}, NEW d \in Int, 0 <= d, d < w, NEW k \in Int
  PROVE  (d + w * k) % w = d
<1> DEFINE v == d + w * k
           q == v \div w
           r == v % w
<1>1. w * k \in Int /\ v \in Int
  OBVIOUS
<1> HIDE DEF v
<1>2. q \in Int /\ r \in 0..w - 1 /\ v = w * q + r
  BY <1>1
<1> HIDE DEF q, r
<1>3. w * (k - q) = w * k - w * q
  BY <1>2
<1>4. d + w * (k - q) = r
  BY <1>1, <1>2, <1>3 DEF v
<1>5. w * (k - q) = 0
  BY <1>2, <1>4, Multiples
<1>6. r = d
  BY <1>4, <1>5
<1>7. QED
  BY <1>6 DEF r, v

\* comp reads too much of its arguments, but what it returns has the sign of
\* their difference.
LEMMA CompSigns ==
  ASSUME NEW a \in Time, NEW b \in Time, NEW ha \in Time, NEW hb \in Time,
         comp(a, b, ha, hb) <= 0
  PROVE  a <= b
<1>1. /\ Word \in Nat \ {0} /\ a \in Nat /\ b \in Nat /\ ha \in Nat /\ hb \in Nat
      /\ 2 * a - 2 * b < Word
  BY SetUpAssumption
<1> SUFFICES ASSUME a > b PROVE FALSE
  BY <1>1
<1>2. (a + Word * ha) - (b + Word * hb) = (a - b) + Word * (ha - hb)
  <2>1. Word * ha \in Int /\ Word * hb \in Int /\ Word * (ha - hb) = Word * ha - Word * hb
    BY <1>1
  <2>2. QED
    BY <1>1, <2>1
<1>3. a - b \in Int /\ 0 <= a - b /\ a - b < Word /\ ha - hb \in Int
  BY <1>1
<1>4. ((a - b) + Word * (ha - hb)) % Word = a - b
  BY <1>1, <1>3, ModuloWord
<1>5. comp(a, b, ha, hb) = a - b
  BY <1>1, <1>2, <1>4 DEF comp
<1>6. QED
  BY <1>1, <1>5

LEMMA QsortSorts ==
  ASSUME NEW s \in [1..Count -> Time], NEW t, t \in qsort(s)
  PROVE  \A x, y \in 1..Count : x < y => t[x] <= t[y]
<1>1. PICK p \in [1..Count -> 1..Count] : t = [m \in 1..Count |-> s[p[m]]]
  BY DEF qsort
<1>2. \A x \in 1..Count : t[x] \in Time
  BY <1>1
<1>3. ASSUME NEW x \in 1..Count, NEW y \in 1..Count, x < y
      PROVE  t[x] <= t[y]
  <2>1. PICK hx \in Time, hy \in Time : comp(t[x], t[y], hx, hy) <= 0
    BY <1>3 DEF qsort
  <2>2. QED
    BY <1>2, <2>1, CompSigns
<1>4. QED
  BY <1>3

\* Whatever the neighbours of two times are when they are compared, the times
\* are in order before the thresholds are picked: a difference of times fits
\* the lower half of what comp subtracts.
THEOREM SamplesAreSorted == Spec => []SamplesInOrder
<1>1. Init => SamplesInOrder
  BY DEF Init, SamplesInOrder
<1>2. ASSUME SamplesInOrder, [Next]_vars
      PROVE  SamplesInOrder'
  <2>1. CASE configure_thresholds
    <3>1. PICK ram \in [1..Count -> Time], l1 \in [1..Count -> Time] :
            \E sorted0 \in qsort(ram), sorted1 \in qsort(l1) : timing' = <<sorted0, sorted1>>
      BY <2>1 DEF configure_thresholds
    <3>2. PICK sorted0 \in qsort(ram), sorted1 \in qsort(l1) : timing' = <<sorted0, sorted1>>
      BY <3>1
    <3>3. \A z \in 1..2 : timing'[z] = IF z = 1 THEN sorted0 ELSE sorted1
      BY <3>2
    <3>4. \A x, y \in 1..Count : x < y => sorted0[x] <= sorted0[y] /\ sorted1[x] <= sorted1[y]
      BY QsortSorts
    <3>5. QED
      BY <3>3, <3>4 DEF SamplesInOrder, Count
  <2>2. CASE UNCHANGED vars
    BY <1>2, <2>2 DEF vars, SamplesInOrder, Count
  <2>3. CASE Next /\ ~configure_thresholds
    <3>1. pc' # "print"
      BY <2>3 DEF Next, mem_map_private, MapFails, PlaceTarget, PrintThresholds,
         construct_L1_eviction_set, experimentation, Return, munmap, UnmapFails
    <3>2. QED
      BY <3>1 DEF SamplesInOrder
  <2>4. QED
    BY <1>2, <2>1, <2>2, <2>3
<1>3. QED
  BY <1>1, <1>2, PTL DEF Spec

\* Every step keeps the arrays within their bounds.
THEOREM SetUpTypeOK == Spec => []TypeOK
<1> DEFINE Inv == PlaceInv /\ MapInv /\ DrawInv
<1>1. Init => Inv
  BY PlaceInit, MapInit, DrawInit 
<1>2. Inv /\ [Next]_vars => Inv'
  BY PlaceStep, MapStep, DrawStep
<1>3. Inv => TypeOK
  <2> SUFFICES ASSUME Inv PROVE TypeOK
    OBVIOUS
  <2>1. \A a \in Arrays : Len(evsets[a]) <= SIZE
    <3>1. \A a \in Arrays : \E m \in 1..3 : evsets[a] = Array(m)
      BY SetsForm DEF DrawInv, Array
    <3>2. QED
      BY <3>1 DEF DrawInv, Entries
  <2>2. Len(rands) < SIZE
    BY Sizes DEF DrawInv
  <2>3. /\ pc \in {"map", "place", "measure", "print", "draw", "experiment",
                   "return", "unmap", "done", "abort"}
        /\ n \in DOMAIN Regions
        /\ pc = "draw" => n \in DOMAIN L1Sets
        /\ mapped \subseteq {Regions[m] : m \in DOMAIN Regions}
    <3>1. DOMAIN L1Sets = 1..3
      BY DEF L1Sets
    <3>2. QED
      BY <3>1, RegionsForm DEF MapInv, AllRegions
  <2>4. base \in Offsets /\ target_index \in Nat
    BY DEF PlaceInv, DrawInv
  <2>5. QED
    BY <2>1, <2>2, <2>3, <2>4 DEF TypeOK
<1> HIDE DEF Inv
<1>4. QED
  BY <1>1, <1>2, <1>3, PTL DEF Spec
=============================================================================
