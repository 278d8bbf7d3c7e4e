--------------------------- MODULE CollectProofs ---------------------------
(***************************************************************************)
(* Proofs about Collect, for any number of slots, any times and any number *)
(* of repetitions: the rows that are written hold the measurements of      *)
(* their setting, in order, the figures taken from them are cautious, and  *)
(* at the end no file lacks a row.                                         *)
(***************************************************************************)
EXTENDS Collect, TLAPS

\* A row is a function on the slots, with a time in each.
Row(a) == a = [m \in Slot |-> a[m]] /\ \A m \in Slot : a[m].time \in Nat

\* What sort() has achieved after r passes and c exchanges of the next one:
\* the last r slots hold the largest times in order, slot c holds the largest
\* up to it, and the pass has put its own largest time in its place once it
\* went over that place.
Sorted(a, r, c) ==
  /\ \A n \in Slot : n >= arrSize - r => \A m \in 0..n : a[m].time <= a[n].time
  /\ \A m \in 0..c : a[m].time <= a[c].time
  /\ c >= arrSize - 1 - r =>
       \A m \in 0..(arrSize - 1 - r) : a[m].time <= a[arrSize - 1 - r].time

\* Where the two loops stand, at each place of the control.
LoopInv ==
  /\ pc \in {"measure", "sort", "write", "done"}
  /\ pc = "measure" => k \in Slot /\ reps = 0 /\ (i = simple => k = 0)
  /\ pc = "sort" => k \in 0..arrSize - 2 /\ reps \in Slot
  /\ pc \in {"write", "done"} => k = 0 /\ reps = 0

SortInv ==
  /\ pc = "sort" => Sorted(timings1, reps, k) /\ Sorted(timings2, reps, k)
  /\ pc = "write" => Sorted(timings1, arrSize, 0) /\ Sorted(timings2, arrSize, 0)

RowInv == Row(timings1) /\ Row(timings2)

CollectInv == LoopInv /\ RowInv /\ SortInv

LEMMA ExchangeRow ==
  ASSUME NEW a, Row(a), NEW m \in 0..arrSize - 2
  PROVE  /\ Row(Exchange(a, m))
         /\ \A n \in Slot \ {m, m + 1} : Exchange(a, m)[n] = a[n]
         /\ \/ /\ a[m].time <= a[m + 1].time
               /\ Exchange(a, m) = a
            \/ /\ a[m].time > a[m + 1].time
               /\ Exchange(a, m)[m] = a[m + 1]
               /\ Exchange(a, m)[m + 1] = a[m]
<1>1. m \in Slot /\ m + 1 \in Slot /\ m # m + 1
  BY CollectAssumption DEF Slot
<1>2. a[m].time \in Nat /\ a[m + 1].time \in Nat
  BY <1>1 DEF Row
<1>3. CASE a[m].time <= a[m + 1].time
  <2>1. Exchange(a, m) = a
    BY <1>2, <1>3 DEF Exchange
  <2>2. QED
    BY <2>1, <1>3
<1>4. CASE a[m].time > a[m + 1].time
  <2> DEFINE b == [a EXCEPT ![m] = a[m + 1], ![m + 1] = a[m]]
  <2>1. Exchange(a, m) = b
    BY <1>4 DEF Exchange
  <2>2. /\ b = [n \in Slot |-> b[n]]
        /\ \A n \in Slot : b[n] = IF n = m + 1 THEN a[m] ELSE IF n = m THEN a[m + 1] ELSE a[n]
    BY <1>1 DEF Row
  <2>3. Row(b)
    BY <1>1, <2>2 DEF Row
  <2>4. QED
    BY <1>1, <1>4, <2>1, <2>2, <2>3
<1>5. QED
  BY <1>2, <1>3, <1>4

\* The step that carries the argument: an exchange moves the largest time
\* seen so far one slot on.
LEMMA ExchangeSorts ==
  ASSUME NEW a, Row(a), NEW r \in Slot, NEW c \in 0..arrSize - 2, Sorted(a, r, c)
  PROVE  Sorted(Exchange(a, c), r, c + 1)
<1> DEFINE b == Exchange(a, c)
<1>1. Row(b) /\ c \in Slot /\ c + 1 \in Slot /\ arrSize \in Nat
  BY ExchangeRow, CollectAssumption DEF Slot
<1>2. \A n \in Slot \ {c, c + 1} : b[n] = a[n]
  BY ExchangeRow
<1>3. \/ a[c].time <= a[c + 1].time /\ b = a
      \/ a[c].time > a[c + 1].time /\ b[c] = a[c + 1] /\ b[c + 1] = a[c]
  BY ExchangeRow
<1>4. \A n \in Slot : a[n].time \in Nat /\ b[n].time \in Nat
  BY <1>1 DEF Row
<1>5. \A m \in 0..c : a[m].time <= a[c].time
  BY DEF Sorted
<1> HIDE DEF b
<1>6. \A m \in 0..c + 1 : b[m].time <= b[c + 1].time
  <2> TAKE m \in 0..c + 1
  <2>1. m \in Slot
    BY <1>1 DEF Slot
  <2>2. CASE m \notin {c, c + 1}
    <3>1. m \in 0..c /\ b[m] = a[m]
      BY <2>1, <2>2, <1>1, <1>2 DEF Slot
    <3>2. a[m].time <= a[c].time
      BY <3>1, <1>5
    <3>3. QED
      BY <3>1, <3>2, <2>1, <1>1, <1>3, <1>4
  <2>3. CASE m = c
    BY <2>3, <1>1, <1>3, <1>4
  <2>4. CASE m = c + 1
    BY <2>4, <1>1, <1>4
  <2>5. QED
    BY <2>2, <2>3, <2>4
<1>7. ASSUME NEW n \in Slot, n >= arrSize - r, NEW m \in 0..n
      PROVE  b[m].time <= b[n].time
  <2>1. \A l \in 0..n : l \in Slot /\ a[l].time <= a[n].time
    BY <1>1, <1>7 DEF Sorted, Slot
  <2>2. c + 1 >= arrSize - r => a[c].time <= a[c + 1].time
    BY <1>1 DEF Sorted, Slot
  <2>3. CASE b = a
    BY <2>1, <2>3
  <2>4. CASE b # a
    <3>1. a[c].time > a[c + 1].time /\ b[c] = a[c + 1] /\ b[c + 1] = a[c]
      BY <2>4, <1>3
    <3>2. c + 1 < arrSize - r
      BY <2>2, <3>1, <1>1, <1>4 DEF Slot
    <3>3. n # c /\ n # c + 1 /\ c \in 0..n /\ c + 1 \in 0..n
      BY <3>2, <1>7, <1>1 DEF Slot
    <3>4. b[n] = a[n]
      BY <3>3, <1>2
    <3>5. b[m] \in {a[m], a[c], a[c + 1]}
      BY <3>1, <1>2, <2>1
    <3>6. QED
      BY <3>3, <3>4, <3>5, <2>1
  <2>5. QED
    BY <2>3, <2>4
<1>8. ASSUME c + 1 >= arrSize - 1 - r
      PROVE  \A m \in 0..(arrSize - 1 - r) : b[m].time <= b[arrSize - 1 - r].time
  <2> DEFINE p == arrSize - 1 - r
  <2>1. p \in Slot
    BY <1>1 DEF Slot
  <2>2. CASE c + 1 = p
    BY <2>2, <1>6
  <2>3. CASE c >= p
    <3>1. a[c].time <= a[c + 1].time
      BY <2>3, <1>1 DEF Sorted, Slot
    <3>2. b = a
      BY <3>1, <1>1, <1>3, <1>4
    <3>3. QED
      BY <2>3, <3>2 DEF Sorted
  <2>4. QED
    BY <2>1, <2>2, <2>3, <1>1, <1>8 DEF Slot
<1>9. QED
  BY <1>6, <1>7, <1>8 DEF Sorted, b

\* A pass that reached the end leaves one slot more in order ...
LEMMA PassDone ==
  ASSUME NEW a, Row(a), NEW r \in Slot, Sorted(a, r, arrSize - 1)
  PROVE  Sorted(a, r + 1, 0)
<1>1. arrSize \in Nat /\ arrSize > 3 /\ 0 \in Slot
  BY CollectAssumption DEF Slot
<1>2. \A n \in Slot : a[n].time \in Nat
  BY DEF Row
<1>3. \A m \in 0..(arrSize - 1 - r) : a[m].time <= a[arrSize - 1 - r].time
  BY <1>1 DEF Sorted, Slot
<1>4. ASSUME NEW n \in Slot, n >= arrSize - (r + 1), NEW m \in 0..n
      PROVE  a[m].time <= a[n].time
  <2>1. CASE n = arrSize - 1 - r
    BY <2>1, <1>3
  <2>2. CASE n >= arrSize - r
    BY <2>2 DEF Sorted
  <2>3. QED
    BY <1>1, <1>4, <2>1, <2>2 DEF Slot
<1>5. \A m \in 0..0 : a[m].time <= a[0].time
  BY <1>1, <1>2
<1>6. ASSUME 0 >= arrSize - 1 - (r + 1)
      PROVE  \A m \in 0..(arrSize - 1 - (r + 1)) : a[m].time <= a[arrSize - 1 - (r + 1)].time
  BY <1>1, <1>2, <1>6 DEF Slot
<1>7. QED
  BY <1>4, <1>5, <1>6 DEF Sorted

\* ... and the last pass all of them.
LEMMA AllDone ==
  ASSUME NEW a, Sorted(a, arrSize, 0)
  PROVE  \A m \in 1..arrSize - 1 : a[m - 1].time <= a[m].time
BY CollectAssumption DEF Sorted, Slot

LEMMA FillRow ==
  ASSUME NEW a, Row(a), NEW t \in Time, NEW of, NEW m \in Slot
  PROVE  Row([a EXCEPT ![m] = [time |-> t, of |-> of]])
<1> DEFINE b == [a EXCEPT ![m] = [time |-> t, of |-> of]]
<1>1. b = [n \in Slot |-> IF n = m THEN [time |-> t, of |-> of] ELSE a[n]]
  BY DEF Row
<1>2. \A n \in Slot : b[n].time \in Nat
  BY <1>1, CollectAssumption DEF Row
<1>3. QED
  BY <1>1, <1>2 DEF Row

\* A sort starts with nothing achieved.
LEMMA NothingDone ==
  ASSUME NEW a, Row(a)
  PROVE  Sorted(a, 0, 0)
BY CollectAssumption DEF Sorted, Row, Slot

LEMMA FillRows ==
  ASSUME NEW m \in Slot, FillSlot(m), RowInv
  PROVE  RowInv'
<1>1. PICK t1, t2 \in Time :
        /\ timings1' = [timings1 EXCEPT ![m] = [time |-> t1, of |-> <<setting, 1, m>>]]
        /\ timings2' = [timings2 EXCEPT ![m] = [time |-> t2, of |-> <<setting, 2, m>>]]
  BY DEF FillSlot
<1>2. Row(timings1') /\ Row(timings2')
  BY <1>1, FillRow DEF RowInv
<1>3. QED
  BY <1>2 DEF RowInv, Row

LEMMA CollectInductive ==
  ASSUME CollectInv, [Next]_vars
  PROVE  CollectInv'
<1>0. arrSize \in Nat /\ arrSize > 3 /\ 0 \in Slot
  BY CollectAssumption DEF Slot
<1>1. CASE Measure
  <2>1. RowInv'
    BY <1>1, FillRows DEF Measure, CollectInv, LoopInv
  <2>2. LoopInv'
    BY <1>0, <1>1 DEF Measure, CollectInv, LoopInv, Slot, setting, simple, evict, reorder
  <2>3. SortInv'
    <3>1. pc' = "sort" => reps' = 0 /\ k' = 0
      BY <1>1 DEF Measure, CollectInv, LoopInv
    <3>2. pc' # "write"
      BY <1>1 DEF Measure
    <3>3. QED
      BY <2>1, <3>1, <3>2, NothingDone DEF SortInv, RowInv
  <2>4. QED
    BY <2>1, <2>2, <2>3 DEF CollectInv
<1>2. CASE MeasureSimple
  <2>1. simple \in Slot
    BY <1>0 DEF simple, Slot
  <2>2. RowInv'
    BY <1>2, <2>1, FillRows DEF MeasureSimple, CollectInv
  <2>3. pc' = "sort" /\ reps' = 0 /\ k' = 0
    BY <1>2 DEF MeasureSimple, CollectInv, LoopInv
  <2>4. LoopInv'
    BY <1>0, <2>3 DEF LoopInv
  <2>5. SortInv'
    BY <2>2, <2>3, NothingDone DEF SortInv, RowInv
  <2>6. QED
    BY <2>2, <2>4, <2>5 DEF CollectInv
<1>3. CASE SortStep
  <2>1. /\ k \in 0..arrSize - 2 /\ reps \in Slot
        /\ Row(timings1) /\ Row(timings2)
        /\ Sorted(timings1, reps, k) /\ Sorted(timings2, reps, k)
    BY <1>3 DEF SortStep, CollectInv, LoopInv, SortInv, RowInv
  <2>2. RowInv'
    BY <1>3, <2>1, ExchangeRow DEF SortStep, RowInv
  <2>3. Sorted(timings1', reps, k + 1) /\ Sorted(timings2', reps, k + 1)
    BY <1>3, <2>1, ExchangeSorts DEF SortStep
  <2>4. CASE k + 1 < arrSize - 1
    <3>1. k' = k + 1 /\ reps' = reps /\ pc' = "sort"
      BY <1>3, <2>4 DEF SortStep
    <3>2. LoopInv'
      BY <1>0, <2>1, <2>4, <3>1 DEF LoopInv
    <3>3. SortInv'
      BY <2>3, <3>1 DEF SortInv
    <3>4. QED
      BY <2>2, <3>2, <3>3 DEF CollectInv
  <2>5. CASE ~(k + 1 < arrSize - 1)
    <3>1. k + 1 = arrSize - 1
      BY <1>0, <2>1, <2>5
    <3>2. Sorted(timings1', reps + 1, 0) /\ Sorted(timings2', reps + 1, 0)
      BY <2>1, <2>2, <2>3, <3>1, PassDone DEF RowInv
    <3>3. CASE reps + 1 < arrSize
      <4>1. k' = 0 /\ reps' = reps + 1 /\ pc' = "sort"
        BY <1>3, <2>5, <3>3 DEF SortStep
      <4>2. LoopInv'
        BY <1>0, <2>1, <3>3, <4>1 DEF LoopInv, Slot
      <4>3. SortInv'
        BY <3>2, <4>1 DEF SortInv
      <4>4. QED
        BY <2>2, <4>2, <4>3 DEF CollectInv
    <3>4. CASE ~(reps + 1 < arrSize)
      <4>1. k' = 0 /\ reps' = 0 /\ pc' = "write"
        BY <1>3, <2>5, <3>4 DEF SortStep
      <4>2. reps + 1 = arrSize
        BY <1>0, <2>1, <3>4 DEF Slot
      <4>3. Sorted(timings1', arrSize, 0) /\ Sorted(timings2', arrSize, 0)
        BY <3>2, <4>2
      <4>4. LoopInv'
        BY <4>1 DEF LoopInv
      <4>5. QED
        BY <2>2, <4>1, <4>3, <4>4 DEF CollectInv, SortInv
    <3>5. QED
      BY <3>3, <3>4
  <2>6. QED
    BY <2>4, <2>5
<1>4. CASE WriteRows \/ BreakSimple
  <2>1. pc' \in {"measure", "done"}
    BY <1>4 DEF WriteRows, BreakSimple, NextRepetitions
  <2>2. k' = 0 /\ reps' = 0
    BY <1>4 DEF WriteRows, BreakSimple, CollectInv, LoopInv
  <2>3. LoopInv'
    BY <1>0, <2>1, <2>2 DEF LoopInv
  <2>4. RowInv'
    BY <1>4 DEF WriteRows, BreakSimple, CollectInv, RowInv
  <2>5. SortInv'
    BY <2>1 DEF SortInv
  <2>6. QED
    BY <2>3, <2>4, <2>5 DEF CollectInv
<1>5. CASE UNCHANGED vars
  BY <1>5 DEF vars, setting, CollectInv, LoopInv, RowInv, SortInv
<1>6. QED
  BY <1>1, <1>2, <1>3, <1>4, <1>5 DEF Next

LEMMA CollectInit ==
  ASSUME Init
  PROVE  CollectInv
<1>1. RowInv
  BY CollectAssumption DEF Init, RowInv, Row
<1>2. QED
  BY <1>1, CollectAssumption DEF Init, CollectInv, LoopInv, SortInv, Slot, simple, evict

\* The rows that are written are in order: sort() sorts.
THEOREM RowsAreSorted == Spec => []RowsInOrder
<1>1. CollectInv => RowsInOrder
  BY AllDone DEF CollectInv, SortInv, RowsInOrder
<1>2. QED
  BY <1>1, CollectInit, CollectInductive, PTL DEF Spec

-----------------------------------------------------------------------------
\* The figures.

LEMMA Positions ==
  /\ {1 * (arrSize \div 4), arrSize \div 2, 3 * (arrSize \div 4)} \subseteq Slot
  /\ 1 * (arrSize \div 4) <= arrSize \div 2
  /\ arrSize \div 2 <= 3 * (arrSize \div 4)
<1>1. PICK q \in Nat, r \in 0..3 : arrSize = 4 * q + r
  <2>1. arrSize \div 4 \in Nat /\ arrSize % 4 \in 0..3 /\ arrSize = 4 * (arrSize \div 4) + (arrSize % 4)
    BY CollectAssumption
  <2>2. QED
    BY <2>1
<1>2. arrSize \div 4 = q /\ q >= 1
  BY <1>1, CollectAssumption
<1>3. arrSize \div 2 = 2 * q + (r \div 2) /\ r \div 2 \in 0..1
  BY <1>1
<1>4. QED
  BY <1>1, <1>2, <1>3 DEF Slot

\* When a row is written, a later slot never holds a smaller time.
LEMMA RowAscends ==
  ASSUME NEW a, Row(a), Sorted(a, arrSize, 0), NEW n \in Slot, NEW m \in 0..n
  PROVE  a[m].time <= a[n].time
BY CollectAssumption DEF Sorted, Slot

\* The quartiles of a row never show a larger difference than its medians, in
\* cycles.
THEOREM FiguresAreCautious == Spec => []QuartileIsConservative
<1>1. CollectInv => QuartileIsConservative
  <2> SUFFICES ASSUME CollectInv, pc = "write"
               PROVE  DiffOfQuartiles <= DiffOfMedians
    BY DEF QuartileIsConservative
  <2> DEFINE q2 == quartile1(timings2)
             m2 == median(timings2)
             q1 == quartile3(timings1)
             m1 == median(timings1)
  <2>1. Row(timings1) /\ Row(timings2) /\ Sorted(timings1, arrSize, 0) /\ Sorted(timings2, arrSize, 0)
    BY DEF CollectInv, RowInv, SortInv
  <2>2. {q2, m2, q1, m1} \subseteq Nat
    BY <2>1, Positions DEF Row, quartile1, quartile3, median
  <2>3. q2 <= m2
    BY <2>1, Positions, RowAscends DEF Slot, quartile1, median
  <2>4. m1 <= q1
    BY <2>1, Positions, RowAscends DEF Slot, quartile3, median
  <2>5. DiffOfQuartiles = q2 - q1 /\ DiffOfMedians = m2 - m1
    BY DEF DiffOfQuartiles, DiffOfMedians
  <2> HIDE DEF q2, m2, q1, m1
  <2>6. QED
    BY <2>2, <2>3, <2>4, <2>5
<1>2. QED
  BY <1>1, CollectInit, CollectInductive, PTL DEF Spec

-----------------------------------------------------------------------------
\* Where the loops over the settings stand.

SettingInv ==
  /\ i \in {evict, reorder, simple}
  /\ j \in 0..NReps
  /\ dist \in 2..4
  /\ pc \in {"sort", "write"} /\ i = simple => dist = 2
  /\ pc = "done" => i = simple /\ j = NReps

\* The settings the loops have left behind.
Before(x, d, m) == x < i \/ (x = i /\ (m < j \/ (m = j /\ d < dist)))

FiledInv ==
  /\ filed \subseteq {evict, reorder, simple} \X (2..4) \X (0..NReps)
  /\ \A x \in {evict, reorder, simple}, d \in 2..4, m \in 0..NReps - 1 :
       Before(x, d, m) /\ (x = simple => d = 2) => <<x, d, m>> \in filed
  /\ \A d \in 2..4, m \in 0..NReps : <<simple, d, m>> \in filed => d = 2

LEMMA SettingInductive ==
  ASSUME LoopInv, SettingInv, [Next]_vars
  PROVE  SettingInv'
<1>0. NReps \in Nat /\ NReps > 0
  BY CollectAssumption
<1> USE DEF SettingInv, evict, reorder, simple
<1>1. CASE Measure
  BY <1>1 DEF Measure, setting
<1>2. CASE MeasureSimple
  BY <1>2 DEF MeasureSimple, setting
<1>3. CASE SortStep
  BY <1>3 DEF SortStep, setting
<1>4. CASE WriteRows
  BY <1>0, <1>4 DEF WriteRows, NextRepetitions
<1>5. CASE BreakSimple
  BY <1>0, <1>5 DEF BreakSimple, NextRepetitions
<1>6. CASE UNCHANGED vars
  BY <1>6 DEF vars, setting
<1>7. QED
  BY <1>1, <1>2, <1>3, <1>4, <1>5, <1>6 DEF Next

\* A turn of the loops leaves behind only the setting it ends with, and the
\* further distances of "simple", for which there are no rows.
LEMMA NextSetting ==
  ASSUME LoopInv, SettingInv, WriteRows \/ BreakSimple,
         NEW x \in {evict, reorder, simple}, NEW d \in 2..4, NEW m \in 0..NReps - 1,
         Before(x, d, m)', x = simple => d = 2
  PROVE  \/ Before(x, d, m)
         \/ WriteRows /\ <<x, d, m>> = <<i, dist, j>>
<1>0. NReps \in Nat /\ NReps > 0
  BY CollectAssumption
<1> USE DEF Before, SettingInv, evict, reorder, simple
<1>1. CASE WriteRows
  BY <1>0, <1>1 DEF WriteRows, NextRepetitions
<1>2. CASE BreakSimple
  BY <1>0, <1>2 DEF BreakSimple, NextRepetitions
<1>3. QED
  BY <1>1, <1>2

LEMMA FiledInductive ==
  ASSUME LoopInv, SettingInv, FiledInv, [Next]_vars
  PROVE  FiledInv'
<1>0. NReps \in Nat /\ NReps > 0
  BY CollectAssumption
<1>1. CASE WriteRows
  <2>1. filed' = filed \cup {<<i, dist, RepetitionsAt(j)>>}
    BY <1>1 DEF WriteRows
  <2>2. RepetitionsAt(j) \in 0..NReps /\ (j < NReps => RepetitionsAt(j) = j)
    BY <1>0 DEF RepetitionsAt, SettingInv
  <2>3. i = simple => dist = 2
    BY <1>1 DEF WriteRows, SettingInv
  <2>4. filed' \subseteq {evict, reorder, simple} \X (2..4) \X (0..NReps)
    BY <2>1, <2>2 DEF FiledInv, SettingInv
  <2>5. ASSUME NEW x \in {evict, reorder, simple}, NEW d \in 2..4, NEW m \in 0..NReps - 1,
               Before(x, d, m)', x = simple => d = 2
        PROVE  <<x, d, m>> \in filed'
    <3>1. Before(x, d, m) \/ <<x, d, m>> = <<i, dist, j>>
      BY <1>1, <2>5, NextSetting
    <3>2. CASE Before(x, d, m)
      BY <2>1, <2>5, <3>2 DEF FiledInv
    <3>3. CASE <<x, d, m>> = <<i, dist, j>>
      BY <1>0, <2>1, <2>2, <3>3
    <3>4. QED
      BY <3>1, <3>2, <3>3
  <2>6. ASSUME NEW d \in 2..4, NEW m \in 0..NReps, <<simple, d, m>> \in filed'
        PROVE  d = 2
    BY <2>1, <2>3, <2>6 DEF FiledInv
  <2>7. QED
    BY <2>4, <2>5, <2>6 DEF FiledInv
<1>2. CASE BreakSimple
  <2>1. filed' = filed
    BY <1>2 DEF BreakSimple
  <2>2. \A x \in {evict, reorder, simple}, d \in 2..4, m \in 0..NReps - 1 :
          Before(x, d, m)' /\ (x = simple => d = 2) => Before(x, d, m)
    BY <1>2, NextSetting DEF WriteRows, BreakSimple
  <2>3. QED
    BY <2>1, <2>2 DEF FiledInv
<1>3. CASE Measure \/ MeasureSimple \/ SortStep \/ UNCHANGED vars
  <2>1. UNCHANGED <<i, j, dist, filed>>
    BY <1>3 DEF Measure, MeasureSimple, SortStep, vars, setting
  <2>2. QED
    BY <2>1 DEF FiledInv, Before
<1>4. QED
  BY <1>1, <1>2, <1>3 DEF Next

FilesInv == CollectInv /\ SettingInv /\ FiledInv

LEMMA FilesInit ==
  ASSUME Init
  PROVE  FilesInv
<1>1. SettingInv
  BY CollectAssumption DEF Init, SettingInv, evict, reorder, simple
<1>2. FiledInv
  BY CollectAssumption DEF Init, FiledInv, Before, evict, reorder, simple
<1>3. QED
  BY <1>1, <1>2, CollectInit DEF FilesInv

LEMMA FilesInductive == FilesInv /\ [Next]_vars => FilesInv'
BY CollectInductive, SettingInductive, FiledInductive DEF FilesInv, CollectInv

\* At the end no file lacks a row, for any number of repetitions.
THEOREM FilesAreComplete == Spec => []FilesComplete
<1>1. ASSUME FilesInv, pc = "done", NEW m \in 0..NReps - 1
      PROVE  /\ \A x \in {evict, reorder}, d \in 2..4 : <<x, d, m>> \in filed
             /\ \A d \in 2..4 : <<simple, d, m>> \in filed <=> d = 2
  <2>1. NReps \in Nat /\ i = simple /\ j = NReps /\ m \in 0..NReps /\ m < j
    BY <1>1, CollectAssumption DEF FilesInv, SettingInv
  <2>2. \A x \in {evict, reorder, simple}, d \in 2..4 : Before(x, d, m)
    BY <2>1 DEF Before, evict, reorder, simple
  <2>3. \A x \in {evict, reorder, simple}, d \in 2..4 :
          (x = simple => d = 2) => <<x, d, m>> \in filed
    BY <1>1, <2>2 DEF FilesInv, FiledInv
  <2>4. \A d \in 2..4 : <<simple, d, m>> \in filed => d = 2
    BY <1>1, <2>1 DEF FilesInv, FiledInv
  <2>5. evict # simple /\ reorder # simple
    BY DEF evict, reorder, simple
  <2>6. QED
    BY <2>3, <2>4, <2>5
<1>2. FilesInv => FilesComplete
  BY <1>1 DEF FilesComplete
<1>3. QED
  BY <1>2, FilesInit, FilesInductive, PTL DEF Spec

-----------------------------------------------------------------------------
\* Where the times come from.

\* The measurements of arm x of the setting, in the slots of M.
MeasuredIn(a, x, M) == \A m \in M : a[m].of = <<setting, x, m>>

FreshInv ==
  i # simple =>
    /\ pc = "measure" => /\ MeasuredIn(timings1, 1, 0..k - 1)
                         /\ MeasuredIn(timings2, 2, 0..k - 1)
    /\ pc \in {"sort", "write"} => Fresh

\* sort() only rearranges.
LEMMA ExchangeKeeps ==
  ASSUME NEW a, Row(a), NEW m \in 0..arrSize - 2
  PROVE  {Exchange(a, m)[n].of : n \in Slot} = {a[n].of : n \in Slot}
<1> DEFINE b == Exchange(a, m)
<1>1. m \in Slot /\ m + 1 \in Slot
  BY CollectAssumption DEF Slot
<1>2. \A n \in Slot \ {m, m + 1} : b[n] = a[n]
  BY ExchangeRow
<1>3. b = a \/ (b[m] = a[m + 1] /\ b[m + 1] = a[m])
  BY ExchangeRow
<1> HIDE DEF b
<1>4. \A n \in Slot : \E l \in Slot : b[n] = a[l]
  BY <1>1, <1>2, <1>3
<1>5. \A n \in Slot : \E l \in Slot : a[n] = b[l]
  BY <1>1, <1>2, <1>3
<1>6. QED
  BY <1>4, <1>5 DEF b

LEMMA FillMeasured ==
  ASSUME NEW a, Row(a), NEW x, NEW t, k \in Slot, MeasuredIn(a, x, 0..k - 1)
  PROVE  LET b == [a EXCEPT ![k] = [time |-> t, of |-> <<setting, x, k>>]]
         IN  \A m \in 0..k : b[m].of = <<setting, x, m>>
<1> DEFINE b == [a EXCEPT ![k] = [time |-> t, of |-> <<setting, x, k>>]]
<1>1. arrSize \in Nat
  BY CollectAssumption
<1>2. \A m \in Slot : b[m] = IF m = k THEN [time |-> t, of |-> <<setting, x, k>>] ELSE a[m]
  BY DEF Row
<1>3. \A m \in 0..k : m \in Slot
  BY <1>1 DEF Slot
<1> HIDE DEF b
<1>4. ASSUME NEW m \in 0..k
      PROVE  b[m].of = <<setting, x, m>>
  <2>1. CASE m = k
    BY <1>2, <1>3, <2>1
  <2>2. CASE m # k
    <3>1. m \in 0..k - 1
      BY <2>2, <1>1 DEF Slot
    <3>2. QED
      BY <1>2, <1>3, <2>2, <3>1 DEF MeasuredIn
  <2>3. QED
    BY <2>1, <2>2
<1>5. QED
  BY <1>4 DEF b

LEMMA FreshInductive ==
  ASSUME CollectInv, FreshInv, [Next]_vars
  PROVE  FreshInv'
<1>0. arrSize \in Nat /\ arrSize > 3
  BY CollectAssumption
<1>1. CASE Measure
  <2>1. /\ k \in Slot /\ i # simple /\ UNCHANGED setting
        /\ Row(timings1) /\ Row(timings2)
        /\ MeasuredIn(timings1, 1, 0..k - 1) /\ MeasuredIn(timings2, 2, 0..k - 1)
    BY <1>1 DEF Measure, CollectInv, LoopInv, RowInv, FreshInv, simple, evict, reorder
  <2>2. PICK t1, t2 \in Time :
          /\ timings1' = [timings1 EXCEPT ![k] = [time |-> t1, of |-> <<setting, 1, k>>]]
          /\ timings2' = [timings2 EXCEPT ![k] = [time |-> t2, of |-> <<setting, 2, k>>]]
    BY <1>1 DEF Measure, FillSlot
  <2>3. \A m \in 0..k : timings1'[m].of = <<setting, 1, m>> /\ timings2'[m].of = <<setting, 2, m>>
    BY <2>1, <2>2, FillMeasured
  <2>4. CASE k + 1 < arrSize
    <3>1. pc' = "measure" /\ k' = k + 1
      BY <1>1, <2>4 DEF Measure
    <3>2. 0..k' - 1 = 0..k
      BY <2>1, <3>1, <1>0 DEF Slot
    <3>3. QED
      BY <2>1, <2>3, <3>1, <3>2 DEF FreshInv, MeasuredIn
  <2>5. CASE ~(k + 1 < arrSize)
    <3>1. pc' = "sort"
      BY <1>1, <2>5 DEF Measure
    <3>2. Slot = 0..k
      BY <2>1, <2>5, <1>0 DEF Slot
    <3>3. Fresh'
      BY <2>1, <2>3, <3>2 DEF Fresh
    <3>4. QED
      BY <3>1, <3>3 DEF FreshInv
  <2>6. QED
    BY <2>4, <2>5
<1>2. CASE MeasureSimple
  BY <1>2 DEF MeasureSimple, FreshInv, setting
<1>3. CASE SortStep
  <2>1. /\ k \in 0..arrSize - 2 /\ Row(timings1) /\ Row(timings2)
        /\ UNCHANGED setting /\ pc = "sort" /\ pc' \in {"sort", "write"}
        /\ timings1' = Exchange(timings1, k) /\ timings2' = Exchange(timings2, k)
    BY <1>3 DEF SortStep, CollectInv, LoopInv, RowInv
  <2>2. /\ {Exchange(timings1, k)[m].of : m \in Slot} = {timings1[m].of : m \in Slot}
        /\ {Exchange(timings2, k)[m].of : m \in Slot} = {timings2[m].of : m \in Slot}
    BY <2>1, ExchangeKeeps
  <2>3. Fresh => Fresh'
    BY <2>1, <2>2 DEF Fresh
  <2>4. QED
    BY <2>1, <2>3 DEF FreshInv, setting
<1>4. CASE WriteRows \/ BreakSimple
  <2>1. pc' \in {"measure", "done"}
    BY <1>4 DEF WriteRows, BreakSimple, NextRepetitions
  <2>2. k' = 0
    BY <1>4 DEF WriteRows, BreakSimple, CollectInv, LoopInv
  <2>3. QED
    BY <2>1, <2>2 DEF FreshInv, MeasuredIn
<1>5. CASE UNCHANGED vars
  BY <1>5 DEF vars, setting, FreshInv, MeasuredIn, Fresh
<1>6. QED
  BY <1>1, <1>2, <1>3, <1>4, <1>5 DEF Next

\* A row of the two amplifications holds the measurements of its setting and
\* its arm, each once, and no time that was left in the arrays before.
THEOREM RowsAreFresh == Spec => []RowsFresh
<1>1. Init => FreshInv
  BY DEF Init, FreshInv, MeasuredIn
<1>2. CollectInv /\ FreshInv => RowsFresh
  BY DEF FreshInv, RowsFresh
<1>3. QED
  BY <1>1, <1>2, CollectInit, CollectInductive, FreshInductive, PTL DEF Spec

\* Every step keeps the loops within their bounds and every slot filled with a
\* time.
THEOREM TypeCorrect == Spec => []TypeOK
<1> DEFINE Timed == \A m \in Slot : timings1[m].time \in Time /\ timings2[m].time \in Time
<1>1. Init => Timed
  BY DEF Init
<1>2. ASSUME CollectInv, Timed, [Next]_vars
      PROVE  Timed'
  <2>1. CASE \E m \in Slot : FillSlot(m)
    BY <1>2, <2>1 DEF FillSlot, CollectInv, RowInv, Row
  <2>2. CASE SortStep
    <3>1. k \in 0..arrSize - 2 /\ k \in Slot /\ k + 1 \in Slot
      BY <1>2, <2>2, CollectAssumption DEF SortStep, CollectInv, LoopInv, Slot
    <3>2. ASSUME NEW a, Row(a), \A m \in Slot : a[m].time \in Time
          PROVE  \A m \in Slot : Exchange(a, k)[m].time \in Time
      <4> DEFINE b == Exchange(a, k)
      <4>1. \A m \in Slot \ {k, k + 1} : b[m] = a[m]
        BY <3>1, <3>2, ExchangeRow
      <4>2. b = a \/ (b[k] = a[k + 1] /\ b[k + 1] = a[k])
        BY <3>1, <3>2, ExchangeRow
      <4> HIDE DEF b
      <4>3. \A m \in Slot : b[m].time \in Time
        BY <3>1, <3>2, <4>1, <4>2
      <4>4. QED
        BY <4>3 DEF b
    <3>3. QED
      BY <1>2, <2>2, <3>2 DEF SortStep, CollectInv, RowInv
  <2>3. CASE UNCHANGED <<timings1, timings2>>
    BY <1>2, <2>3
  <2>4. QED
    BY <1>2, <2>1, <2>2, <2>3, CollectAssumption
    DEF Next, vars, Measure, MeasureSimple, WriteRows, BreakSimple, CollectInv, LoopInv, Slot, simple
<1>3. ASSUME FilesInv, Timed
      PROVE  TypeOK
  <2>1. 0 \in Slot /\ 0..arrSize - 2 \subseteq Slot
    BY CollectAssumption DEF Slot
  <2>2. pc \in {"measure", "sort", "write", "done"} /\ k \in Slot /\ reps \in Slot
    BY <1>3, <2>1 DEF FilesInv, CollectInv, LoopInv
  <2>3. DOMAIN timings1 = Slot /\ DOMAIN timings2 = Slot
    BY <1>3 DEF FilesInv, CollectInv, RowInv, Row
  <2>4. SettingInv /\ filed \subseteq {evict, reorder, simple} \X (2..4) \X (0..NReps)
    BY <1>3 DEF FilesInv, FiledInv
  <2>5. QED
    BY <1>3, <2>2, <2>3, <2>4 DEF TypeOK, SettingInv
<1> HIDE DEF Timed
<1>4. QED
  BY <1>1, <1>2, <1>3, FilesInit, FilesInductive, PTL DEF Spec, FilesInv
=============================================================================
