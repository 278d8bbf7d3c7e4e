------------------------------ MODULE Amplify ------------------------------
(***************************************************************************)
(* amplify.c: the measured runs over one L1 cache set, one load per step.  *)
(*                                                                         *)
(* A run is a preamble that brings the set into a known state and disturbs *)
(* it (or not), then a timed loop of `repetitions' passes over a fixed     *)
(* traversal, with an optional refresh after a pass.  The number of cycles *)
(* a run returns is abstracted to the misses of each pass: a pass without  *)
(* a miss is fast, and every miss is a slow load inside the timer.         *)
(*                                                                         *)
(* Loads are chained: the value of one load is added to the address of the *)
(* next (`trash'), so a run touches the lines it names only as long as     *)
(* every line it loads holds 0.                                            *)
(***************************************************************************)
EXTENDS RecencySet, Sequences

CONSTANTS
  Address,        \* what the code may load; an address outside Line maps
                  \* to another L1 set
  cacheSet,       \* the two arrays of eight addresses the callers fill
  clearSet,
  evictor,        \* the line the callers pass to leaky_run to evict
  llc_candidate,
  l1b_element,
  Repetitions,    \* bound: the numbers of passes the callers ask for
  Refresh,        \* bound: the refresh rates they ask for
  Dists,          \* bound: the distances they ask for
  Contents,       \* what the set may hold when the program starts
  Foreign         \* lines of other code that runs between two calls

Index == 0..7

\* 2^31 - 1, with no step that leaves the range of TLC's integers.
INT_MAX == 2^30 + (2^30 - 1)

ASSUME SetsAssumption ==
  /\ Line \subseteq Address
  /\ cacheSet \in [Index -> Line]
  /\ clearSet \in [Index -> Line]
  /\ evictor \in Line
  /\ Foreign \subseteq Line
  /\ {llc_candidate, l1b_element} \subseteq Address
  /\ Repetitions \subseteq Nat
  /\ Refresh \subseteq Nat
  /\ \A n \in Repetitions \cup Refresh : n <= INT_MAX
  /\ Dists \subseteq Nat
  /\ \A s \in Contents : s \in CacheSet /\ HeldOnce(s)

VARIABLES
  zeroed,   \* the addresses the callers have set to 0
  trash,    \* the value of the last load: 0, or 1 for any other value
  phase,    \* where control is
  call,     \* the arguments of the running (or last) call
  pos,      \* the next step of the phase's sequence
  rep,      \* the loop counter of the timed loop
  passes    \* the misses of each pass begun so far

callVars == <<phase, call, pos, rep, passes>>
vars == <<l1, age, zeroed, trash, phase, call, pos, rep, passes>>

-----------------------------------------------------------------------------
\* The sequences of accesses, by index into the two arrays.

\* The line the traversals keep in the set ("b" in their comments).
Pinned == 4

leaky_run_b4 ==
  <<0, 1, 2, 4,  3, 5, 6, 4,  7, 0, 1, 4,  2, 3, 5, 4,
    6, 7, 0, 4,  1, 2, 3, 4,  5, 6, 7, 4>>

leaky_run_b3 ==
  <<0, 1, 4,  2, 3, 4,  5, 6, 4,  7, 0, 4,  1, 2, 4,  3, 5, 4,  6, 7, 4>>

leaky_run_b2 ==
  <<0, 4, 1, 4, 2, 4, 3, 4, 5, 4, 6, 4, 7, 4,
    0, 4, 1, 4, 2, 4, 3, 4, 5, 4, 6, 4, 7, 4>>

simple_run == [k \in 1..32 |-> 0]

\* Mutant: leaky_run forgets one of its distances.
Traversal_no_b4(c) ==
  CASE c.dist = 3 -> leaky_run_b3
    [] c.dist = 2 -> leaky_run_b2
    [] OTHER -> IF c.fn = "leaky_run" THEN simple_run ELSE leaky_run_b2

\* The dispatch on dist: only leaky_run falls back to simple_run.
Traversal(c) ==
  CASE c.dist = 4 -> leaky_run_b4
    [] c.dist = 3 -> leaky_run_b3
    [] c.dist = 2 -> leaky_run_b2
    [] OTHER -> IF c.fn = "leaky_run" THEN simple_run ELSE leaky_run_b2

\* The instructions a sequence is made of.
Load(a) == [op |-> "load", at |-> a]
Clflush(a) == [op |-> "clflush", at |-> a]
C(i) == Load(cacheSet[i])
K(i) == Load(clearSet[i])

\* Mutant: the last quarter of the refresh stays with the wrong array.
leaky_refresh_wrong_array ==
  <<K(0), K(1), K(2), C(4),  K(3), K(4), K(5), C(4),
    C(1), C(2), C(3), C(4),  K(5), K(6), K(7), C(4)>>

\* Mutant: the refresh returns to the pinned line only at its end.
leaky_refresh_late_pin ==
  <<K(0), K(1), K(2), K(3),  K(4), K(5), K(6), K(7),
    C(0), C(1), C(2), C(3),  C(5), C(6), C(7), C(4)>>

\* The refresh of every traversal, whatever its distance.
leaky_refresh_b4 ==
  <<K(0), K(1), K(2), C(4),  K(3), K(4), K(5), C(4),
    C(1), C(2), C(3), C(4),  C(5), C(6), C(7), C(4)>>

\* Mutant: the last load names the wrong array.
prepare_wrong_array ==
  [k \in 1..16 |-> IF k <= 8 \/ k = 16 THEN K((k - 1) % 8) ELSE C(k - 9)]

prepare_PLRU_state ==
  [k \in 1..16 |-> IF k <= 8 THEN K(k - 1) ELSE C(k - 9)]

\* Mutant: the pattern ends too early.
AdaptorPattern_short == <<C(5), C(4)>>

\* Both showtime functions end their preamble with it.
AdaptorPattern == <<C(5), C(7), C(4)>>

\* Mutant: the two chains have changed their names.
LlcRace_swapped(at7) ==
  CASE at7 = 3 -> <<Load(llc_candidate), C(7), C(6)>>
    [] at7 = 2 -> <<Load(llc_candidate), C(6), C(7)>>
    [] OTHER   -> <<C(6), Load(llc_candidate), C(7)>>

\* The load of cacheSet[6] waits for llc_candidate, that of cacheSet[7] for
\* the countdown of z; nothing in the code orders the two chains before
\* l1b_element, which waits for both.  The load of cacheSet[7] may be the
\* first, the second or the last of the three.
LlcRace(at7) ==
  CASE at7 = 3 -> <<Load(llc_candidate), C(6), C(7)>>
    [] at7 = 2 -> <<Load(llc_candidate), C(7), C(6)>>
    [] OTHER   -> <<C(7), Load(llc_candidate), C(6)>>

Preamble(c) ==
  CASE c.fn = "leaky_run" ->
         prepare_PLRU_state \o <<Load(c.arg)>>
    [] c.fn = "showtime_reorder" ->
         prepare_PLRU_state
           \o (IF c.arg = 1 THEN <<K(0), C(4)>> ELSE <<C(4), K(0)>>)
           \o AdaptorPattern
    [] c.fn = "showtime_llc_eviction" ->
         <<Load(llc_candidate)>>
           \o (IF c.arg = 1 THEN <<Clflush(llc_candidate)>> ELSE <<>>)
           \o prepare_PLRU_state \o LlcRace(c.at7)
           \o <<Load(l1b_element)>> \o AdaptorPattern

\* The position after prepare_PLRU_state in the preamble.
Prepared(c) ==
  17 + (IF c.fn = "showtime_llc_eviction" THEN 1 + c.arg ELSE 0)

-----------------------------------------------------------------------------
\* refresh & rep: is there a common 1 bit?  (The value bits of an int.)
WordBits == 0..30
CommonBit(m, n) ==
  \E b \in WordBits : (m \div 2^b) % 2 = 1 /\ (n \div 2^b) % 2 = 1

\* Mutant: one refresh in every `refresh' passes.
RefreshDue_period(c, r) ==
  c.refresh # 0 /\ ~(c.refresh > c.repetitions) /\ r % c.refresh = 0

RefreshDue(c, r) ==
  c.refresh # 0 /\ ~(c.refresh > c.repetitions) /\ ~CommonBit(c.refresh, r)

\* One load.  With trash # 0 the sum is an address nobody chose: it is taken
\* to lie outside the set, and the value there may be anything.
maccess(a) ==
  /\ IF trash = 0 /\ a \in Line THEN Access(a) ELSE UNCHANGED setVars
  /\ trash' \in IF trash = 0 /\ a \in zeroed THEN {0} ELSE {0, 1}

clflush(a) ==
  /\ IF a \in Line THEN Flush(a) ELSE UNCHANGED setVars
  /\ UNCHANGED trash

Misses(a) == IF a \in Line /\ ~Resident(l1, a) THEN 1 ELSE 0

-----------------------------------------------------------------------------
NoCall == [fn |-> "none", arg |-> 0, at7 |-> 3, dist |-> 2,
           repetitions |-> 0, refresh |-> 0]

Init ==
  /\ l1 \in Contents
  /\ age = [x \in Line |-> Old]
  /\ zeroed = {}
  /\ trash = 0
  /\ phase = "setup"
  /\ call = NoCall
  /\ pos = 1
  /\ rep = 0
  /\ passes = <<>>

\* Mutant: the last two writes name the same line.
Writes_without_candidate ==
  [k \in 1..19 |->
     CASE k <= 8  -> clearSet[k - 1]
       [] k \in 9..16 -> cacheSet[k - 9]
       [] k = 17 -> evictor
       [] k \in {18, 19} -> l1b_element]

\* The callers' mwrite_v(.., 0), in their order, over everything a run loads.
Writes ==
  [k \in 1..19 |->
     CASE k <= 8  -> clearSet[k - 1]
       [] k \in 9..16 -> cacheSet[k - 9]
       [] k = 17 -> evictor
       [] k = 18 -> llc_candidate
       [] k = 19 -> l1b_element]

mwrite_v ==
  LET a == Writes[pos] IN
  /\ phase = "setup"
  /\ pos <= 19
  /\ IF a \in Line THEN Access(a) ELSE UNCHANGED setVars
  /\ zeroed' = zeroed \cup {a}
  /\ pos' = pos + 1
  /\ UNCHANGED <<trash, phase, call, rep, passes>>

EndSetUp ==
  /\ phase = "setup"
  /\ pos = 20
  /\ phase' = "idle"
  /\ UNCHANGED <<setVars, zeroed, trash, call, pos, rep, passes>>

\* The drivers fill their memory with random values before each new setting.
Refill ==
  /\ phase = "idle"
  /\ phase' = "setup"
  /\ pos' = 1
  /\ zeroed' = {}
  /\ UNCHANGED <<setVars, trash, call, rep, passes>>

\* Other code touches the set between two calls.
OtherCode(x) ==
  /\ phase = "idle"
  /\ Access(x)
  /\ UNCHANGED <<zeroed, trash, callVars>>

Begin(c) ==
  /\ phase = "idle"
  /\ phase' = "preamble"
  /\ call' = c
  /\ pos' = 1
  /\ rep' = 0
  /\ passes' = <<>>
  /\ trash' = 0
  /\ UNCHANGED <<setVars, zeroed>>

leaky_run(evict, d, n, r) ==
  Begin([fn |-> "leaky_run", arg |-> evict, at7 |-> 3, dist |-> d,
         repetitions |-> n, refresh |-> r])

showtime_reorder(reorder, d, n, r) ==
  Begin([fn |-> "showtime_reorder", arg |-> reorder, at7 |-> 3, dist |-> d,
         repetitions |-> n, refresh |-> r])

showtime_llc_eviction(flushed, at7, d, n, r) ==
  Begin([fn |-> "showtime_llc_eviction", arg |-> flushed, at7 |-> at7,
         dist |-> d, repetitions |-> n, refresh |-> r])

PreambleStep ==
  LET pre == Preamble(call) IN
  /\ phase = "preamble"
  /\ pos <= Len(pre)
  /\ IF pre[pos].op = "load" THEN maccess(pre[pos].at) ELSE clflush(pre[pos].at)
  /\ pos' = pos + 1
  /\ UNCHANGED <<zeroed, phase, call, rep, passes>>

\* rdtsc_begin, and the first test of the loop.
StartTimer ==
  /\ phase = "preamble"
  /\ pos = Len(Preamble(call)) + 1
  /\ phase' = "timed"
  /\ pos' = 1
  /\ UNCHANGED <<setVars, zeroed, trash, call, rep, passes>>

StartPass ==
  /\ phase = "timed"
  /\ rep < call.repetitions
  /\ phase' = "traverse"
  /\ passes' = Append(passes, 0)
  /\ UNCHANGED <<setVars, zeroed, trash, call, pos, rep>>

TraverseStep ==
  LET t == Traversal(call)
      a == cacheSet[t[pos]]
  IN
  /\ phase = "traverse"
  /\ pos <= Len(t)
  /\ maccess(a)
  /\ passes' = [passes EXCEPT ![rep + 1] = @ + Misses(a)]
  /\ pos' = pos + 1
  /\ UNCHANGED <<zeroed, phase, call, rep>>

\* Mutant: the counter of the passes runs the wrong way.
EndPass_down ==
  /\ phase = "traverse"
  /\ pos = Len(Traversal(call)) + 1
  /\ pos' = 1
  /\ phase' = "timed"
  /\ rep' = rep - 1
  /\ UNCHANGED <<setVars, zeroed, trash, call, passes>>

EndPass ==
  /\ phase = "traverse"
  /\ pos = Len(Traversal(call)) + 1
  /\ pos' = 1
  /\ IF RefreshDue(call, rep)
     THEN phase' = "refresh" /\ rep' = rep
     ELSE phase' = "timed" /\ rep' = rep + 1
  /\ UNCHANGED <<setVars, zeroed, trash, call, passes>>

RefreshStep ==
  /\ phase = "refresh"
  /\ pos <= Len(leaky_refresh_b4)
  /\ maccess(leaky_refresh_b4[pos].at)
  /\ pos' = pos + 1
  /\ UNCHANGED <<zeroed, phase, call, rep, passes>>

EndRefresh ==
  /\ phase = "refresh"
  /\ pos = Len(leaky_refresh_b4) + 1
  /\ phase' = "timed"
  /\ pos' = 1
  /\ rep' = rep + 1
  /\ UNCHANGED <<setVars, zeroed, trash, call, passes>>

\* rdtsc_end: the caller gets the time the passes took.
Return ==
  /\ phase = "timed"
  /\ rep = call.repetitions
  /\ phase' = "idle"
  /\ UNCHANGED <<setVars, zeroed, trash, call, pos, rep, passes>>

Calling ==
  \E n \in Repetitions, r \in Refresh, d \in Dists :
    \/ \E e \in {cacheSet[0], evictor} : leaky_run(e, d, n, r)
    \/ \E b \in {0, 1} : showtime_reorder(b, d, n, r)
    \/ \E b \in {0, 1}, k \in 1..3 : showtime_llc_eviction(b, k, d, n, r)

Running ==
  \/ PreambleStep \/ StartTimer \/ StartPass \/ TraverseStep \/ EndPass
  \/ RefreshStep \/ EndRefresh \/ Return

Next ==
  \/ mwrite_v \/ EndSetUp \/ Refill
  \/ Calling \/ Running
  \/ \E x \in Foreign : OtherCode(x)

\* The running call is a thread the scheduler does not abandon.
Spec == Init /\ [][Next]_vars /\ WF_vars(Running)

-----------------------------------------------------------------------------
TypeOK ==
  /\ SetTypeOK
  /\ zeroed \subseteq Address
  /\ trash \in {0, 1}
  /\ phase \in {"setup", "idle", "preamble", "timed", "traverse", "refresh"}
  /\ pos \in Nat
  /\ rep \in Nat
  /\ passes \in Seq(Nat)

\* The chain of loads never leaves the lines the code names: every value a
\* load adds to the next address is 0.
ChaseStaysOnLines == trash = 0

\* prepare_PLRU_state brings the whole cacheSet in, whatever the writes of the
\* drivers and earlier runs left in the set.
PrepareFillsSet ==
  (phase = "preamble" /\ pos = Prepared(call)) =>
    \A i \in Index : Resident(l1, cacheSet[i])

InTimer == phase \in {"timed", "traverse", "refresh"}

\* From rdtsc_begin to rdtsc_end no traversal, and no refresh, evicts the
\* line it keeps returning to: the amplification never loses its anchor.
PinnedNeverEvicted ==
  (InTimer /\ Traversal(call) # simple_run) => Resident(l1, cacheSet[Pinned])

\* The traversals return to the pinned line at least once in Gap accesses.
Gap(c) == IF c.dist \in {3, 4} THEN c.dist ELSE 2

\* The pinned line has been loaded, last in the preamble of the showtime
\* functions, or in the timed loop.
Anchored ==
  /\ InTimer
  /\ Traversal(call) # simple_run
  /\ \/ call.fn # "leaky_run" \/ rep > 0 \/ phase = "refresh"
     \/ phase = "traverse" /\ pos > Gap(call)

\* The part of PinnedNeverEvicted that needs nothing of the first content of
\* the set, and holds for any lines, repetitions and refresh rate.
AnchorHeld == Anchored => Resident(l1, cacheSet[Pinned])

Undisturbed(c) ==
  c.fn = "leaky_run" /\ \E i \in Index : c.arg = cacheSet[i]

\* What the preamble leaves missing stays missing: the evictor came in, the
\* two loads were reordered, or cacheSet[6] went before cacheSet[7].  Where
\* llc_candidate is a line of the set as well, its load disturbs the set
\* whatever the order, and nothing is said of the two orders.
Disturbed(c) ==
  \/ c.fn = "leaky_run" /\ c.dist # 1 /\ ~Undisturbed(c)
  \/ c.fn = "showtime_reorder" /\ c.arg = 1
  \/ c.fn = "showtime_llc_eviction" /\ c.at7 = 3 /\ llc_candidate \notin Line

\* What the preamble disturbs heals.
Healing(c) ==
  \/ c.fn = "leaky_run" /\ c.dist = 1
  \/ c.fn = "showtime_reorder" /\ c.arg = 0
  \/ c.fn = "showtime_llc_eviction" /\ c.at7 # 3 /\ llc_candidate \notin Line

\* The baseline of leaky_run is free of misses in every pass, with and
\* without refreshes in between.
BaselineNeverMisses ==
  Undisturbed(call) => \A k \in DOMAIN passes : passes[k] = 0

\* A disturbed run misses again in every pass, however many there are: the
\* difference to the baseline grows with `repetitions'.
DisturbedMissesEveryPass ==
  (InTimer /\ Disturbed(call)) => \A k \in 1..rep : passes[k] > 0

\* The counterpart of a disturbed run, and simple_run, pay for at most one
\* miss in all: what they measure does not depend on `repetitions'.
HealedAfterOneMiss ==
  (Healing(call) /\ call.refresh = 0) =>
    \A k \in DOMAIN passes : passes[k] <= (IF k = 1 THEN 1 ELSE 0)

\* showtime_llc_eviction where llc_candidate is a line of the set, which its
\* own load then disturbs: with distance 2 every pass misses, whatever the
\* order of the two chains; with distances 3 and 4 it is the order with
\* cacheSet[6] first that heals, in its first pass, and the two others miss in
\* every pass.  In a set of its own llc_candidate has it the other way round.
SharedSetConverts ==
  (/\ InTimer /\ call.fn = "showtime_llc_eviction"
   /\ llc_candidate \in Line /\ call.refresh = 0) =>
    IF call.at7 = 3 /\ call.dist \in {3, 4}
    THEN \A k \in DOMAIN passes \ {1} : passes[k] = 0
    ELSE \A k \in 1..rep : passes[k] > 0

\* `!(refresh & rep)' with a rate that is a power of two: the passes come in
\* blocks of `refresh'; each pass of the first block, the third and so on is
\* followed by a refresh, those of the others are not, and none is when the
\* rate is above the number of passes.
RefreshSchedule ==
  [][(/\ phase = "traverse" /\ phase' # "traverse"
      /\ \E b \in WordBits : call.refresh = 2^b) =>
       (phase' = "refresh" <=>
          /\ call.refresh <= call.repetitions
          /\ (rep \div call.refresh) % 2 = 0)]_vars
=============================================================================
