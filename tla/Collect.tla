------------------------------ MODULE Collect ------------------------------
(***************************************************************************)
(* shared_memory.c: experimentation() runs every kind of amplification at  *)
(* every distance and number of repetitions, `arrSize' times without and   *)
(* with the disturbance, sorts the two arrays of times and appends a row   *)
(* to the files of the setting.                                            *)
(*                                                                         *)
(* The two arrays outlive a setting.  What a run returns is any Time; a    *)
(* slot also remembers, as history, the measurement that filled it (`of'), *)
(* so that a row can be compared with the setting it is filed under.       *)
(***************************************************************************)
EXTENDS Integers, FiniteSets

CONSTANTS
  Time,      \* what a run may return
  arrSize,   \* bound: measurements per setting, 10000 in the code
  NReps      \* bound: the entries of repetitions[], 11 in the code

ASSUME CollectAssumption ==
  /\ Time \subseteq Nat
  /\ arrSize \in Nat /\ arrSize > 3
  /\ NReps \in Nat \ {0}

Slot == 0..arrSize - 1

\* The loop variable i: run_type[0..2].  The branch of "llc" is never taken.
evict == 0
reorder == 1
simple == 2

Unmeasured == <<>>

VARIABLES
  i, j, dist,   \* the setting: kind, index into repetitions[], distance
  k,            \* the inner loop over the slots
  reps,         \* the outer loop of sort()
  timings1,     \* without the disturbance
  timings2,     \* with it
  pc,           \* where control is
  filed         \* the rows in the files: <<kind, distance, repetitions>>

setting == <<i, j, dist>>
vars == <<setting, k, reps, timings1, timings2, pc, filed>>

-----------------------------------------------------------------------------
\* Mutant: the second of the two neighbours is overwritten.
Exchange_lossy(a, m) ==
  IF a[m].time > a[m + 1].time THEN [a EXCEPT ![m + 1] = a[m]] ELSE a

\* One turn of the inner loop of sort(), at slot m.
Exchange(a, m) ==
  IF a[m].time > a[m + 1].time
  THEN [a EXCEPT ![m] = a[m + 1], ![m + 1] = a[m]]
  ELSE a

-----------------------------------------------------------------------------
Init ==
  /\ i = evict /\ j = 0 /\ dist = 2 /\ k = 0 /\ reps = 0
  /\ timings1 \in [Slot -> [time : Time, of : {Unmeasured}]]
  /\ timings2 \in [Slot -> [time : Time, of : {Unmeasured}]]
  /\ pc = "measure"
  /\ filed = {}

\* The two runs of one slot, each of which returns any time.
FillSlot(m) ==
  \E t1, t2 \in Time :
    /\ timings1' = [timings1 EXCEPT ![m] = [time |-> t1, of |-> <<setting, 1, m>>]]
    /\ timings2' = [timings2 EXCEPT ![m] = [time |-> t2, of |-> <<setting, 2, m>>]]

\* One turn of the measuring loop of "evict" or "reorder".
Measure ==
  /\ pc = "measure"
  /\ i \in {evict, reorder}
  /\ FillSlot(k)
  /\ IF k + 1 < arrSize
     THEN k' = k + 1 /\ UNCHANGED pc
     ELSE k' = 0 /\ pc' = "sort"
  /\ UNCHANGED <<setting, reps, filed>>

\* "simple" has no loop of its own: its slot is the i of the outer loop.
MeasureSimple ==
  /\ pc = "measure"
  /\ i = simple
  /\ dist = 2
  /\ FillSlot(i)
  /\ pc' = "sort"
  /\ UNCHANGED <<setting, k, reps, filed>>

\* Mutant: sort() makes one pass along the array.
SortStep_one_pass ==
  /\ pc = "sort"
  /\ timings1' = Exchange(timings1, k)
  /\ timings2' = Exchange(timings2, k)
  /\ k' = (k + 1) % (arrSize - 1)
  /\ pc' = IF k + 1 < arrSize - 1 THEN "sort" ELSE "write"
  /\ UNCHANGED <<setting, reps, filed>>

\* One step of sort(timings1) and sort(timings2), which do not touch each
\* other: arrSize times along the array, k up to the last neighbours.
SortStep ==
  /\ pc = "sort"
  /\ timings1' = Exchange(timings1, k)
  /\ timings2' = Exchange(timings2, k)
  /\ IF k + 1 < arrSize - 1
     THEN k' = k + 1 /\ UNCHANGED <<reps, pc>>
     ELSE /\ k' = 0
          /\ IF reps + 1 < arrSize
             THEN reps' = reps + 1 /\ UNCHANGED pc
             ELSE reps' = 0 /\ pc' = "write"
  /\ UNCHANGED <<setting, filed>>

\* Mutants: `break' leaves the loop over j as well, j is not advanced, and dist
\* is not set back.
NextRepetitions_break ==
  /\ dist' = 2
  /\ IF i < simple
     THEN j' = 0 /\ i' = i + 1 /\ pc' = "measure"
     ELSE j' = j /\ i' = i /\ pc' = "done"

NextRepetitions_stuck ==
  /\ dist' = 2 /\ pc' = "measure"
  /\ UNCHANGED <<i, j>>

NextRepetitions_dist ==
  /\ dist' = dist + 1
  /\ j' = IF j < NReps THEN j + 1 ELSE 0
  /\ i' = IF j < NReps \/ i = simple THEN i ELSE i + 1
  /\ pc' = IF j < NReps \/ i < simple THEN "measure" ELSE "done"

\* The next turn of the loop over j, or of the loop over i around it.
NextRepetitions ==
  /\ dist' = 2
  /\ IF j < NReps
     THEN j' = j + 1 /\ i' = i /\ pc' = "measure"
     ELSE IF i < simple
     THEN j' = 0 /\ i' = i + 1 /\ pc' = "measure"
     ELSE j' = j /\ i' = i /\ pc' = "done"

\* repetitions[m], by its index.  The loop over j goes one beyond the array:
\* NReps stands for whatever number is found there.
RepetitionsAt(m) == IF m < NReps THEN m ELSE NReps

\* What the rows say of an array that is sorted.
median(t) == t[arrSize \div 2].time
quartile1(t) == t[1 * (arrSize \div 4)].time

\* Mutant: both quartiles are read off the same position.
quartile3_low(t) == t[1 * (arrSize \div 4)].time

quartile3(t) == t[3 * (arrSize \div 4)].time

\* The two differences that are printed and filed in cycles, as signed numbers.
\* The percentages beside them, one by way of a double and one of a float, are
\* left out.
DiffOfMedians == median(timings2) - median(timings1)
DiffOfQuartiles == quartile1(timings2) - quartile3(timings1)

\* The rows are appended to the files of the kind and the distance.
WriteRows ==
  /\ pc = "write"
  /\ filed' = filed \cup {<<i, dist, RepetitionsAt(j)>>}
  /\ IF dist < 4
     THEN dist' = dist + 1 /\ pc' = "measure" /\ UNCHANGED <<i, j>>
     ELSE NextRepetitions
  /\ UNCHANGED <<k, reps, timings1, timings2>>

\* "simple" leaves the loop over the distances.
BreakSimple ==
  /\ pc = "measure"
  /\ i = simple
  /\ dist # 2
  /\ NextRepetitions
  /\ UNCHANGED <<k, reps, timings1, timings2, filed>>

Next == Measure \/ MeasureSimple \/ SortStep \/ WriteRows \/ BreakSimple

\* One thread.
Spec == Init /\ [][Next]_vars /\ WF_vars(Next)

-----------------------------------------------------------------------------
TypeOK ==
  /\ i \in {evict, reorder, simple}
  /\ j \in 0..NReps
  /\ dist \in 2..4
  /\ {k, reps} \subseteq Slot
  /\ \A t \in {timings1, timings2} : DOMAIN t = Slot /\ \A m \in Slot : t[m].time \in Time
  /\ pc \in {"measure", "sort", "write", "done"}
  /\ filed \subseteq {evict, reorder, simple} \X (2..4) \X (0..NReps)

\* A row holds the measurements of the setting, each once, in the array of
\* its arm.
Fresh ==
  /\ {timings1[m].of : m \in Slot} = {<<setting, 1, m>> : m \in Slot}
  /\ {timings2[m].of : m \in Slot} = {<<setting, 2, m>> : m \in Slot}

\* No time of an earlier setting, of the other arm or of no run at all is
\* filed with a row of the two amplifications, and sort() loses none.
RowsFresh == pc = "write" /\ i # simple => Fresh

\* The row of a "Simple Eviction Run" is about simple eviction runs.
SimpleRowsFresh == pc = "write" /\ i = simple => Fresh

\* The minimum, quartiles, median and maximum are read off by position: a row
\* that is written is in order.
RowsInOrder ==
  pc = "write" =>
    \A m \in 1..arrSize - 1 : /\ timings1[m - 1].time <= timings1[m].time
                              /\ timings2[m - 1].time <= timings2[m].time

\* The difference of the quartiles is the cautious figure: the row of a setting
\* never claims more cycles by it than by the difference of the medians.
QuartileIsConservative == pc = "write" => DiffOfQuartiles <= DiffOfMedians

\* At the end every file has a row for every number of repetitions: three
\* distances of the amplifications, one of "simple".
FilesComplete ==
  pc = "done" =>
    \A n \in 0..NReps - 1 :
      /\ \A x \in {evict, reorder}, d \in 2..4 : <<x, d, n>> \in filed
      /\ \A d \in 2..4 : <<simple, d, n>> \in filed <=> d = 2

\* The collection comes to its end.
Collects == <>(pc = "done")
=============================================================================
