------------------------------- MODULE SetUp -------------------------------
(***************************************************************************)
(* main() of shared_memory.c around the data collection: it maps nine      *)
(* regions, chooses the target, measures and sorts the times that give     *)
(* thresholds, draws the pages of three L1 eviction sets, and unmaps the   *)
(* regions.  Of experimentation() it models the writes and the layout on   *)
(* the stack that come before the measurements, which are module Collect's.*)
(* The thresholds themselves are left out: they are printed, and nothing   *)
(* that is compiled in reads them.                                         *)
(*                                                                         *)
(* Memory is counted in words of eight bytes: a line has 8 of them, a page *)
(* 512.  An address is a region and a word in it; regions begin at a page. *)
(***************************************************************************)
EXTENDS Integers, Sequences, FiniteSets

CONSTANTS
  SIZE,                   \* bound: NUMBER_CONGRUENT_L1, 16 in the code
  MAX_RAND,               \* bound: MAX_POOL_SIZE_SMALL, 32768 in the code
  THRESHOLD_TEST_COUNT,   \* bound: 1000 in the code
  Time,                   \* bound: what maccess_t may return
  Word,                   \* bound: the values of an int, 2^32 in the code
  Offsets,                \* where in a page s_evsetL1 may begin
  StackOffsets            \* where in a page local_array may begin

PageWords == 512
InPage(w) == w % PageWords
L1Set(w) == (w \div 8) % 64

ASSUME SetUpAssumption ==
  /\ SIZE \in Nat /\ MAX_RAND \in Nat
  /\ SIZE > 0 /\ SIZE % 2 = 0
  /\ SIZE <= MAX_RAND         \* else get_new_random_index never ends
  /\ MAX_RAND > 1             \* the targets may lie in a region's second page
  /\ THRESHOLD_TEST_COUNT \in Nat \ {0}
  /\ Word \in Nat \ {0}
  /\ Time \subseteq Nat
  /\ \A a, b \in Time : 2 * a - 2 * b < Word
  \* The compiler aligns an array that large to 32 bytes.
  /\ Offsets \subseteq {4 * n : n \in 0..127}
  /\ StackOffsets \subseteq 0..PageWords - 1

Regions == <<"shared_mem", "evict_mem", "evict_mem2", "evict_mem_L1",
             "evict_mem_L1_c", "evict_mem_L1_m", "evict_mem_LLC",
             "evict_mem_LLC_c", "evict_mem_LLC2_c">>

Arrays == {"s_evsetL1", "s_evsetL1_c", "s_evsetL1_m"}

VARIABLES
  pc,             \* where control is
  n,              \* the region, or the array, that is next
  mapped,         \* the regions that are mapped
  base,           \* where in its page s_evsetL1 begins; the other two follow
                  \* it at a distance of whole pages
  target_index,
  timing,         \* timing[0] and timing[1], sorted, while they exist
  rands,          \* the pages drawn for the array
  evsets,         \* the three arrays
  written,        \* the addresses experimentation() sets to 0
  stack           \* the words of local_array it stores pointers in, and where
                  \* in a page local_array begins

vars == <<pc, n, mapped, base, target_index, timing, rands, evsets, written, stack>>

-----------------------------------------------------------------------------
At(region, word) == [region |-> region, word |-> word]

target_addr    == At("shared_mem", target_index)
target_addr_m  == At("shared_mem", target_index + 17 * 8)
target_addr_m2 == At("shared_mem", target_index + 20 * 8)

\* The arrays in the order main() constructs them, with their memory and the
\* target they are congruent to.
L1Sets ==
  <<[evset |-> "s_evsetL1",   page |-> "evict_mem_L1",   target |-> target_addr],
    [evset |-> "s_evsetL1_c", page |-> "evict_mem_L1_c", target |-> target_addr],
    [evset |-> "s_evsetL1_m", page |-> "evict_mem_L1_m", target |-> target_addr_m2]>>

NoFrame == [at |-> 0, used |-> {}]

Init ==
  /\ pc = "map" /\ n = 1
  /\ mapped = {}
  /\ base \in Offsets
  /\ target_index = 0
  /\ timing = <<>>
  /\ rands = <<>>
  /\ evsets = [a \in Arrays |-> <<>>]
  /\ written = {}
  /\ stack = NoFrame

mem_map_private ==
  /\ pc = "map"
  /\ mapped' = mapped \cup {Regions[n]}
  /\ IF n < Len(Regions)
     THEN n' = n + 1 /\ UNCHANGED pc
     ELSE n' = 1 /\ pc' = "place"
  /\ UNCHANGED <<base, target_index, timing, rands, evsets, written, stack>>

\* mem_map_private returns -1, and ASSERT aborts.
MapFails ==
  /\ pc = "map"
  /\ pc' = "abort"
  /\ UNCHANGED <<n, mapped, base, target_index, timing, rands, evsets, written, stack>>

\* Mutant: the seventeen lines are counted in words.
PlaceTarget_words ==
  /\ pc = "place"
  /\ target_index' = base + 17
  /\ pc' = "measure"
  /\ UNCHANGED <<n, mapped, base, timing, rands, evsets, written, stack>>

\* The target is 17 lines behind the arrays that will be read between two
\* runs: not in their L1 sets.
PlaceTarget ==
  /\ pc = "place"
  /\ target_index' = base + 17 * 8
  /\ pc' = "measure"
  /\ UNCHANGED <<n, mapped, base, timing, rands, evsets, written, stack>>

-----------------------------------------------------------------------------
\* Mutant: the difference is returned as it is computed.
comp_wide(a, b, ha, hb) == (a + Word * ha) - (b + Word * hb)

\* comp reads eight bytes at each of two ints, the neighbours ha and hb being
\* their upper halves, and returns the difference cut off to an int.
comp(a, b, ha, hb) ==
  LET d == ((a + Word * ha) - (b + Word * hb)) % Word
  IN  IF 2 * d < Word THEN d ELSE d - Word

Count == THRESHOLD_TEST_COUNT

\* What qsort makes of s: whichever neighbours two elements have when they
\* are compared, the first is not found to be the larger one.
qsort(s) ==
  {t \in {[k \in DOMAIN s |-> s[p[k]]] :
            p \in {f \in [1..Count -> 1..Count] : \A x, y \in 1..Count : x # y => f[x] # f[y]}} :
     \A x, y \in 1..Count :
       x < y => \E hx, hy \in Time : comp(t[x], t[y], hx, hy) <= 0}

configure_thresholds ==
  /\ pc = "measure"
  /\ \E ram, l1 \in [1..Count -> Time] :
       \E sorted0 \in qsort(ram), sorted1 \in qsort(l1) : timing' = <<sorted0, sorted1>>
  /\ pc' = "print"
  /\ UNCHANGED <<n, mapped, base, target_index, rands, evsets, written, stack>>

\* The thresholds are printed; the times went with the stack frame.
PrintThresholds ==
  /\ pc = "print"
  /\ timing' = <<>>
  /\ pc' = "draw"
  /\ UNCHANGED <<n, mapped, base, target_index, rands, evsets, written, stack>>

-----------------------------------------------------------------------------
\* Mutant: the last index drawn is not compared.
IsNew_short(r) == \A m \in 1..Len(rands) - 1 : rands[m] # r

\* get_new_random_index: an r that was drawn before is drawn again, which
\* changes nothing.
IsNew(r) == \A m \in 1..Len(rands) : rands[m] # r

\* Mutant: the stride is that of a line.
Element_lines(s, r) == At(s.page, InPage(s.target.word) + 8 * r)

Element(s, r) == At(s.page, InPage(s.target.word) + PageWords * r)

\* Mutant: the loop makes one turn too many.
construct_overrun(r) ==
  LET s == L1Sets[n] IN
  /\ pc = "draw"
  /\ IsNew(r)
  /\ evsets' = [evsets EXCEPT ![s.evset] = Append(@, Element(s, r))]
  /\ IF Len(rands) < SIZE
     THEN rands' = Append(rands, r) /\ UNCHANGED <<n, pc>>
     ELSE /\ rands' = <<>>
          /\ IF n < Len(L1Sets)
             THEN n' = n + 1 /\ UNCHANGED pc
             ELSE n' = 1 /\ pc' = "experiment"
  /\ UNCHANGED <<mapped, base, target_index, timing, written, stack>>

\* One turn of the loop, with a page that is new.
construct_L1_eviction_set(r) ==
  LET s == L1Sets[n] IN
  /\ pc = "draw"
  /\ IsNew(r)
  /\ evsets' = [evsets EXCEPT ![s.evset] = Append(@, Element(s, r))]
  /\ IF Len(rands) + 1 < SIZE
     THEN rands' = Append(rands, r) /\ UNCHANGED <<n, pc>>
     ELSE /\ rands' = <<>>
          /\ IF n < Len(L1Sets)
             THEN n' = n + 1 /\ UNCHANGED pc
             ELSE n' = 1 /\ pc' = "experiment"
  /\ UNCHANGED <<mapped, base, target_index, timing, written, stack>>

\* Mutant: the beginning of fixed_array is counted in bytes.
Location_bytes(q, m) ==
  LET fixed_array == 8 * PageWords - 8 * q
  IN  {fixed_array + target_index + 7 * 8 + PageWords * m + w : w \in 0..7}

\* The words of local_array at L1a_, L1b_, L1c_ and VAR_LOCATION.  fixed_array
\* is where the next page begins.
Location(q, m) ==
  LET fixed_array == (8 * PageWords - 8 * q) \div 8
  IN  {fixed_array + target_index + 7 * 8 + PageWords * m + w : w \in 0..7}

experimentation ==
  /\ pc = "experiment"
  /\ written' = {target_addr, target_addr_m} \cup
       UNION {{evsets[a][m] : m \in DOMAIN evsets[a]} : a \in Arrays}
  /\ \E q \in StackOffsets :
       stack' = [at |-> q, used |-> UNION {Location(q, m) : m \in {0, 1, 2, 5}}]
  /\ pc' = "return"
  /\ UNCHANGED <<n, mapped, base, target_index, timing, rands, evsets>>

\* Its frame is gone, and what it wrote is not asked for any more.
Return ==
  /\ pc = "return"
  /\ written' = {}
  /\ stack' = NoFrame
  /\ pc' = "unmap"
  /\ UNCHANGED <<n, mapped, base, target_index, timing, rands, evsets>>

\* Mutant: the last of the regions is forgotten.
munmap_forgets ==
  /\ pc = "unmap"
  /\ mapped' = mapped \ {Regions[n]}
  /\ IF n < Len(Regions) - 1
     THEN n' = n + 1 /\ UNCHANGED pc
     ELSE n' = 1 /\ pc' = "done"
  /\ UNCHANGED <<base, target_index, timing, rands, evsets, written, stack>>

munmap ==
  /\ pc = "unmap"
  /\ mapped' = mapped \ {Regions[n]}
  /\ IF n < Len(Regions)
     THEN n' = n + 1 /\ UNCHANGED pc
     ELSE n' = 1 /\ pc' = "done"
  /\ UNCHANGED <<base, target_index, timing, rands, evsets, written, stack>>

UnmapFails ==
  /\ pc = "unmap"
  /\ pc' = "abort"
  /\ UNCHANGED <<n, mapped, base, target_index, timing, rands, evsets, written, stack>>

Next ==
  \/ mem_map_private \/ MapFails \/ PlaceTarget
  \/ configure_thresholds \/ PrintThresholds
  \/ \E r \in 0..MAX_RAND - 1 : construct_L1_eviction_set(r)
  \/ experimentation \/ Return \/ munmap \/ UnmapFails

\* One thread; and rand() does not repeat its old values for ever.
Spec == Init /\ [][Next]_vars /\ WF_vars(Next)

-----------------------------------------------------------------------------
TypeOK ==
  /\ pc \in {"map", "place", "measure", "print", "draw", "experiment",
             "return", "unmap", "done", "abort"}
  /\ n \in DOMAIN Regions
  /\ pc = "draw" => n \in DOMAIN L1Sets
  /\ mapped \subseteq {Regions[m] : m \in DOMAIN Regions}
  /\ base \in Offsets
  /\ target_index \in Nat
  /\ \A a \in Arrays : Len(evsets[a]) <= SIZE
  /\ Len(rands) < SIZE

\* The pages an array has drawn so far.
Picked(a) == {evsets[a][m].word \div PageWords : m \in DOMAIN evsets[a]}

\* Each array gets SIZE pages that differ from each other.
Picks == INSTANCE DistinctPicks WITH
  Pages  <- 0..MAX_RAND - 1,
  picked <- [a \in Arrays |-> Picked(a)],
  ready  <- {a \in Arrays : Len(evsets[a]) = SIZE}

PicksDistinct == Picks!Spec

\* Between them the writes of experimentation() touch nothing but memory that
\* is mapped and its own array.
TouchesMapped ==
  pc = "return" =>
    /\ \A a \in written : a.region \in mapped /\ a.word < MAX_RAND * PageWords
    /\ stack.used \subseteq 0..4095

\* The sixteen entries of an array that are used lie where s_evsetL1 begins.
EntrySets == {L1Set(base + w) : w \in 0..15}

DataSets == {L1Set(stack.at + w) : w \in stack.used}

TargetSets == {L1Set(a.word) : a \in {target_addr, target_addr_m, target_addr_m2}}

\* What the runs read besides their lines, the arrays and the pointers on the
\* stack, lies in other L1 sets than the targets, however the program and the
\* stack are placed.
HelpersElsewhere ==
  pc = "return" => (EntrySets \cup DataSets) \cap TargetSets = {}

\* The halves of an array that are given to the runs.
L1a == {evsets["s_evsetL1"][m] : m \in 1..SIZE \div 2}
L1b == {evsets["s_evsetL1_c"][m] : m \in 1..SIZE \div 2}

\* What module Amplify assumes of shared_memory.c: cacheSet and clearSet are
\* SIZE different lines of the target's L1 set, and llc_candidate, which is
\* target_addr_m2, is in another.
LayoutForAmplify ==
  pc = "experiment" =>
    /\ Cardinality({[a EXCEPT !.word = @ \div 8] : a \in L1a \cup L1b}) = SIZE
    /\ \A a \in L1a \cup L1b : L1Set(a.word) = L1Set(target_index)
    /\ L1Set(target_addr_m2.word) # L1Set(target_index)

\* The times are in order when the thresholds are picked from them by position,
\* though comp reads the next int along with each one it compares.
SamplesInOrder ==
  pc = "print" =>
    \A z \in 1..2 : \A x, y \in 1..Count : x < y => timing[z][x] <= timing[z][y]

\* main() comes to its end, with nothing left mapped, or aborts.
SetUpEnds == <>(pc = "abort" \/ (pc = "done" /\ mapped = {}))
=============================================================================
