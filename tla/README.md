# Amplification: a verification project

The repository measures how one difference in the state of an L1 cache set, or
of the last-level cache, can be made to cost time in every pass of a loop. This
directory holds TLA+ modules that model its core, TLC configurations that check
them on small instances, and proofs that TLAPS checks.

## 1. The system

| Part | Source | State it keeps | Operations |
|---|---|---|---|
| L1 cache set | hardware; `maccess`, `clflush`, `mwrite_v` in `fr_util.c` | lines in eight ways, replacement tree | load, store, flush |
| Amplification runs | `amplify.c` | `trash`, the loop counters | `leaky_run`, `showtime_reorder`, `showtime_llc_eviction`; called by them: `prepare_PLRU_state`, four traversals, `leaky_refresh_b4` |
| Drivers | `experimentation.c`, `m2_experimentation.c` | the zeros stored at the lines, the loop variables, the arrays of times | sweep over rates and distances: fill memory, set lines to 0, call runs, sort, print |
| Eviction set search | `evset_generation.c` | guess pool, list, counters | `generate_llc_eviction_set`, `ps_evset`, `ps_evset_reduce`, `ps_evset_test`, `construct_L1_eviction_set` |
| Element list | `list_utils.c` | `next` and `prev` in the pages themselves | `list_append`, `list_pop`, `list_length`, `list_to_array` |
| Data collection | `shared_memory.c`, `experimentation()` | two arrays of times, files | loops over settings, `sort`, rows appended to files |
| Set-up | `shared_memory.c`, `main()` | maps, targets, samples, the arrays of lines | `mem_map_private`, `configure_thresholds`, `construct_L1_eviction_set`, `munmap` |
| Memory maps | `memory_utils.c` | none | wrappers of `mmap`, `munmap` |
| Channel helpers | rest of `fr_util.c` | `struct config` | `init_config`, `cc_sync`, `string_to_binary`, `conv_char` |

How they interact: a driver (or the collection) writes 0 to every line a run
will load, calls runs one after the other and orders the times they return. A
run reaches the set only through `maccess` and `clflush`. The search is a
client of the list, whose elements are the pages it guesses; `main()` of
`shared_memory.c` chooses targets and lines, has its calls to the search
commented out, and hands over to the collection. The channel helpers are for
two processes that share a file and otherwise only the time stamp counter; no
program of the repository uses them.

All programs are single threaded. What makes them hard is, mostly, not threads:

- *history*: a run inherits the set from everything before it; pages keep their
  links, and arrays their times, from one trial or setting to the next;
- *long sequences*: a property of pass 10000 has to follow from a property
  every pass keeps;
- *the hardware's order*: two chains of loads in `showtime_llc_eviction` are
  ordered by nothing;
- *the clock*: a measured time can tell anything, and two processes that keep
  in step by it look at it at instants nobody controls;
- *placement*: the linker and the stack decide in which L1 set the program's
  own arrays lie.

What makes each part correct:

- **set and runs**: the line a traversal returns to is never evicted in a timed
  loop; the baseline never misses; a disturbed run misses in every pass, its
  counterpart at most once; loads stay on the lines that were set to 0;
- **search**: the list is not circular, has the length asked for and evicts the
  target when tests are reliable; guesses are pages that were not used up, and
  each trial ends;
- **collection**: a row holds the times of its own setting, in order, and the
  differences derived from it are the cautious ones; the files are complete;
- **drivers**: refreshes fall due when they should; the sweep covers the settings
  of its loops, and what is printed shows the amplification;
- **set-up**: the lines differ and share the target's set, and nothing else the
  runs read lies there; the samples are in order when thresholds are picked from
  them; nothing is used that is not mapped;
- **channel**: a process begins one bit in each window, and the string arrives.

## 2. Modules and how they correspond to the code

**`PlruSet`** (constant operators; external). One set of eight ways under tree
pseudo-LRU, the policy `amplify.c` is written for. `Loaded(s, x)` is the set of
sets a load of `x` may leave (a miss fills any invalid way, else the victim).

**`RecencySet`** is the abstract specification: any client, any access or
flush at any time. `age` is a history variable: how many accesses ago a line
was accessed. Its promise is `RecentLinesResident`: the four lines accessed
last are in the set.

**`PlruSeats`** has the definitions for reasoning about a set line by line. Only
the *seat* of a way matters, from 1, the victim, to 8, the way accessed last;
which way it is does not. `Moved` says how one access changes all seats, `Path`,
`HalfRefresh` and `Cycle` what sequences of accesses do.

**`Amplify`** extends `RecencySet` with `amplify.c`: one action is one load or flush
(`PreambleStep`, `TraverseStep`, `RefreshStep`) or one turn of the control
(`leaky_run`, `showtime_reorder`, `showtime_llc_eviction`, `StartTimer`,
`StartPass`, `EndPass`, `EndRefresh`, `Return`). The bodies that differ only in
the lines they name are sequences, indexed as in the code. The cycles a run
returns are abstracted to the misses of each pass (`passes`). `trash` is the
value of the last load, 0 or not; a load through `trash # 0` touches no line of
the set and may return anything. The driver is in the module too: `mwrite_v`
performs the writes in the drivers' order, `Refill` takes the zeros away again
before a new setting, and any call may follow any other. The order of the two
independent chains (`LlcRace`) is an argument of the call, as nothing in the
program fixes it: the load of `cacheSet[7]`, which waits for a countdown, comes
first, second or third among the loads of `llc_candidate` and `cacheSet[6]`, which
wait for each other. `refresh & rep` is on all 31 value bits of an int
(`CommonBit`).

**`AmplifyPlaces`** adds no behaviour. It states where the lines of a run lie, in
seats, from the first write of a driver to the last load of a run (`PlaceInv`),
and what that takes: lines that differ (`LinesApart`), a first content without the
lines of `clearSet` (`StartsClean`), and calls as the drivers make them (`Suits`).
`MCAmplify` and `MCExperiments` state those about constants as ASSUMEs, so that
TLC evaluates them for the lines and drivers of the programs.

**`ElemList`** is `list_utils.c` as operators on [head, next]; the memory of
all pages is part of the list, so that old links persist. `prev` is never read
and left out. **`EvsetBuild`** is `evset_generation.c` on top of it: one action
per guess (`Hit`, `Miss`), per test of the list (`Extend`, `Accept`), per round
of the reduction (`ReduceDrop`, `ReduceKeep`, `ReduceFail`) and for the copy to
the caller. A guess is answered by one timed access and may come out either
way. A test takes a median of ten: with `Noisy` it may come out either way too;
without, it says whether the list is in `Evicting`. `pool_size` goes below 0 in the
code when the pool is used up; the model stays at 0, where every comparison comes
out the same. Two history variables let properties speak of what was drawn:
`drawn`, the pool as the trial drew it, and `cuts`, how often the head of the
list was found again.

**`Collect`** is `experimentation()` of `shared_memory.c`: one action per turn
of the measuring loop, per exchange of `sort`, and per setting filed. Every slot
carries, as history, the measurement it came from. The two arrays are sorted in
step, as the two calls of `sort` do not touch each other's array. The branch of
"llc" is behind `i < 3` and cannot be reached; it has no action. A percentage
is not modelled: the code computes one by way of a `double` (`shared_memory.c:243`)
and the other by way of a `float` (line 255), and rounding alone can turn their
order round (of the times 3 and 8 it makes 166.666667 and 166.666672). The
differences in cycles, which are printed and filed beside them, are exact.

**`Experiments`** composes `Amplify` with `main()` of both experiments. A
program is a record: the calls of each of its loops, the rate that is set after
0, the last rate, and the number of measurements. `ZeroLines`, `MakeCall`,
`RunStep` are `Amplify`'s actions under the driver's control; `StoreTime` is
`Return` with the store of the time, `Report` the sorting and printing and the
filling of the memory for the next setting. `NextRate` shows what the loop does:
`refresh` is set to the seed and then shifted, so that the seed itself is never
measured. The time of a run is its misses.

**`SetUp`** is `main()` of `shared_memory.c` around the collection, counted in
words of eight bytes: one action per map and unmap, each of which may fail, for
the choice of the target, the samples of `configure_thresholds`, one action per turn of
`construct_L1_eviction_set` with a page that is new (a draw that repeats a page
changes nothing), the writes of `experimentation()` and its layout of the stack. `comp` reads
eight bytes of four-byte elements, so the neighbours of the two elements, whatever
they are at that moment, are part of the comparison; `qsort` returns any
arrangement in which no two elements are seen out of order. What is picked from
the samples is left out: `(int)0.50*COUNT` is index 0 (line 45), the values are
printed, and `thrDET`, which the searches would use, is set to 67 at line 91. `base` and
`StackOffsets` are where the linker and the kernel put the arrays.
**`DistinctPicks`** is the abstract specification of the draws: one page at a
time, never the same twice, until there are enough.

**`Channel`** is two processes that use the helpers of `fr_util.c` as
`struct config` and the comment on `cc_sync` describe. Each is started on its
own, at any time, parses its own options and maps its file, or exits; then, for each
bit, it waits with `cc_sync` and works for the transmission interval, `Tick` by
`Tick`. `cc_sync` is one look at the counter. The comments on it (lines 155 and 163)
wait until the counter "overflows"; the code goes on at once in a window that is
open already, and so does the model. What the sender transmits while the receiver works is what the receiver
may note. The calling processes are external, as is the cache line between
them; the helpers are not. `&` is a constant, `BitAnd`, of which the proofs use
only that the mask keeps a time within the period; `Weight` is `1 << j`.

**`NatRecursion`** models no code. It has the induction and recursion over the
natural numbers that the proofs about lists, sums and strings rest on.

Modules `MC...` give the constants their values. Definitions commented
*Mutant* are plausible mistakes in the code; with any of them in place of the
original, one of the properties fails.

## 3. What the runs check

| Run | Question | Bounds |
|---|---|---|
| `amplify` | do all safety properties of the runs hold in any sequence of calls, on the lines of `shared_memory.c`? | 27 lines, one set, 3 and 4 passes, refresh rates 0, 1, 2 and 4, distances 1 to 4, one line of other code |
| `amplify_experiment` | do the two experiments print the amplification, what do they measure where `llc_candidate` is in the set, when do refreshes fall due, are all settings covered? | 27 lines; the six calls of `experimentation.c` and the four loops of `m2_experimentation.c`, two and three measurements each, rates 0, 4 and 16; 5 passes |
| `evset` | is the search sound when pages are drawn again and the clock may say anything? | 3 pages in every pattern of a pool of 5, lists up to 3, 2 attempts |
| `evset_tested` | is the result an eviction set when tests are reliable? | 4 pages, 2 of them congruent, pools of 6 with two pages drawn twice, lists up to 4, one attempt |
| `evset_append_head`, `evset_append_empty`, `evset_used_up` | findings, below | 4 pages; 3 pages in a pool of 5 |
| `collect` | are rows and figures right and files complete? | 4 slots, 2 times, 2 numbers of repetitions |
| `collect_simple` | finding, below | the same |
| `setup` | do lines, helpers, samples and writes come out as the runs need them, do the draws implement `DistinctPicks`, does `main()` end? | sets of 4 of 4 pages, 2 samples of 3 times, ints of 16 values, 3 places of the arrays and 3 of the stack |
| `channel` | do the processes keep step, does the string arrive, does `cc_sync` return? | strings of two chars of two bits; period, interval and jitter in units of 2048 cycles: 8, 6 and 2; the receiver with options too: interval 1, masks 3 and 5 |
| `channel_tmp` | finding, below | no options |

Why the bounds are enough to be interesting:

- *Amplify*. After three passes every traversal has been through a pass that
  starts from the state a pass leaves. Rate 1 refreshes after every other
  pass, rate 2 after passes 0 and 1 and not after the next two, rate 4 after
  each of the four. Calls follow each other without limit: the model has
  no bound on their number, since the state returns. The set starts full of
  other lines with one state of the tree: an automorphism of the tree that
  swaps the children of a node maps any state of the tree to any other and
  only renames ways, which no property tells apart. For the same reason the two
  runs of *Amplify* take states for the same (`VIEW`) that have the same lines at the
  seats of the tree, from the next victim to the line accessed last (`SetView`):
  a load moves lines between seats in a way that does not depend on which
  ways these are (`LoadSeat`, `LoadedForm` of *RecencySetProofs*), and `age`, which the
  view leaves out, is history. There are 128 such renamings: a view by ways
  (tried with 3 passes and the rates 0 and 2) has 2709376 states for the 21204
  of this one, and the same results. Lines are distinct, as the programs' are; the theorems about the misses of a run assume it, all
  others do not.
- *Layout*. In `shared_memory.c` the evictor and `l1b_element` are
  `clearSet[0]`, and `llc_candidate` lies in another L1 set (`Amplify.cfg`; it
  includes calls of `showtime_llc_eviction`, though the loop of the collection
  stops before that branch. The collection does not write `llc_candidate`, but
  its map is zero-filled, so it holds 0 all the same). In the two experiments
  all three are further lines of the same set (`AmplifyExperiment.cfg`). There
  the load of `llc_candidate` disturbs the set by itself, and the three orders of
  the chains change their roles (`SharedSetConverts`): at distances 3 and 4 the
  order that amplifies elsewhere, `llc_candidate`, `cacheSet[6]`, `cacheSet[7]`, heals in its
  first pass, and the two others miss in every pass; at distance 2 all three miss
  in every pass, and nothing tells them apart. `DisturbedMissesEveryPass`,
  `HealedAfterOneMiss` and `ReportsAmplification` make no claim on
  `showtime_llc_eviction` for this layout.
- *Experiments*. `experimentation.c` has the one rate 0, so its loop turns once;
  `m2_experimentation.c` has 256 as its seed and 4096 as its last rate, divided
  here by 256: 1 and 16, with the rate 4 in between and rate 1 never measured
  (nothing in the repository says that 256 is to be measured, so this is no
  finding). Five passes put a refresh of rate 4 after four of them and not after the
  fifth, and rate 16 is above `repetitions`, so that it turns refreshes off. With
  two measurements each call also follows the last one of the measurement before;
  of the three of `m2_experimentation.c` the median is not at an end.
- *EvsetBuild*. `ways` is 2, the least the module assumes (`main()` asks for
  16 in the call that is commented out; a list of one page is a case of its own, since `list_append` counts
  the first hit without looking at the list); extension goes one or two pages beyond, the
  attempts are at most two: every return of `ps_evset` is reached, and trials
  repeat without limit, with the links of all earlier trials in memory. The pools of
  `evset` are one of each pattern, since which page is which makes no difference: they
  go from three pages with two of them drawn again to one page drawn five times, so the
  pool can be used up, by hits on listed pages and by cuts, and is. `GuessIsLive`
  asks for more than `1 + (cuts + 1) * (MAX_EXTENSION - 3)` different pages, which here
  are all three as long as the head was not found again. In
  `evset_tested` lists of four are reduced to two, with pages that are
  dispensable in front of, between and behind those that are not.
- *Collect*. Four slots are the fewest whose quartiles and median differ.
  Sorting by exchanges of neighbours is covered by two values (0-1 principle).
  `NReps` is 2 and the loop goes one further, as the code does.
- *SetUp*. Offsets in a page are real (512 words): the
  place a build with gcc gives the arrays (word 36) and two where a target or
  the data on the stack wraps around a page. `HelpersLieElsewhere` covers all
  others. Sets of four have two lines in each half, so a page drawn twice would show.
  Ints of 16 values overflow in `comp` as wide ones do.
- *Channel*. The unit keeps the proportions of the default parameters. The
  processes begin at any instants, together or periods apart, inside the window or
  outside, and a spinning one looks at the counter after one or two units. Four bits
  are enough for a process to fall behind or to get ahead by one and to go on from
  there. Whether both begin in the same window is left to chance by the code;
  `together` tells, and `ReceivedIsSent` is about the runs in which they do. With `-i`
  and `-s` anything can happen to the bits, and only `SyncReturns` is claimed.

*Fairness.* All programs are one thread that never waits, so weak fairness of
a call (`Running`), of a driver (`DriverNext`), of a trial (`Trial`) or of the collection (`Next`)
says that the operating system schedules the process. Nothing is assumed about
drivers calling again, about the clock, or about success, but for two things.
`SetUp` assumes that `rand()` does not repeat its old values for ever: a draw
that is not new is a stutter of the model, so weak fairness of `Next` says that
a new one comes in the end. `Channel` assumes that time goes on and that a
spinning process looks at the counter at least every `Gap` units, no more than the
jitter: with one unit more, a process that ends its interval when the window
opens may look at the counter when it has closed. A process that is suspended for longer can miss any number of
windows, and nothing in the code would notice. Deadlock is not checked
(`CHECK_DEADLOCK FALSE`) for the programs that end: the search, the collection, the
experiments, the set-up and the channel; it is for `Amplify`.

*Symmetry* is used for safety only, over pages that no constant tells apart.

## 4. Findings

1. `list_append` (`list_utils.c:65`) does not compare the new element with the
   head. A page drawn again while it is the head is linked behind the last
   element and then loses its own successor: the list is cut to one element,
   and the length returned is that of the old list plus one. The comment (line
   49) promises "add element to the end of the list". The length that is reported
   still counts the pages that were cut off, so `ps_evset` may go on to return
   `PS_SUCCESS` with a list shorter than the length asked for, and the rest of the
   caller's `evsetLLC` stays unset. `evset_generation.c:82` expects duplicates
   ("randomization could be better (e.g., to avoid duplicates)"), and 32768 draws
   from 32768 pages have thousands. Run `evset_append_head`.
2. For an empty list `list_append` (`list_utils.c:58`) keeps `e->next`. The
   comment in `evset_generation.c:59` ("append works the same for empty list, no
   special treatment needed") is right for the first trial only: after a failed
   one the first page brings its old successors along. Run
   `evset_append_empty`.
3. `ps_evset` does not always return. A hit sets the attempts back to 0
   (`evset_generation.c:119`) and shortens the pool, and nothing compares `pool_size`
   with 0 (line 129). Hits on pages that are in the list already, or on its head, use
   the pool up without making a longer list; slot 0 is then guessed for ever. The
   comment in line 139 says "If too many wrap-arounds, return with fail". Run
   `evset_used_up`. It takes very many copies of few pages: `GuessesAreLive` excludes it
   for a trial that draws more than 1 + 29 (cuts + 1) different pages, of the 20000
   or so that 32768 draws make.
4. `conv_char` (`fr_util.c:208`, "Convert 8 bit data stream into character and
   return") gives `strtol` eight digits without a terminator (lines 213 to 220).
   Where the stack has a digit behind `tmp`, the character is another one. Run
   `channel_tmp`.
5. The branch of the simple run (`shared_memory.c:213`) writes one slot, that of
   the outer loop's `i`, and the row filed as a simple run (line 209, "Simple
   Eviction Run (observed to have constant timing differences across all
   repetition amounts)") repeats the times of the last reorder run. Run
   `collect_simple`.

What remains in spite of 1 to 3, and is proved: the list is not circular, fits the
caller's array and, if tests are reliable, evicts the target. As long as the head
of the list is not found again (`cuts = 0`), it has the length asked for
(`SuccessExact`) and no page that was used up is lost (`FoundAreListed`), whatever
else is drawn twice. `TrialReturns` is what is left of 3: a trial returns or uses up
its pool.

## 5. What is proved

All theorems hold for every value of the constants that satisfies the ASSUMEs
of the modules.

- `RecencySetProofs!RecentLinesStay`. The invariant is not inductive by itself.
  The strengthening (`FewNodesToward`) is that a line of age *n* has at most *n*
  of its three tree nodes pointing to it: an access to another line turns at
  most one node of the path towards it, the one where the two paths part, and a
  victim has all three pointing at it. A line younger than four accesses is
  therefore no victim.
  `Amplify` is a client of the set: it shares `l1` and `age` and changes them only
  by an access or a flush (a lemma, `AmplifyImplementsSet`), so it may use this.
- `AmplifyProofs!ControlInvariant`, `ChaseNeverLeaves`: positions stay in their
  sequences, all lines a run names are zeroed before any call is made, so
  every load returns 0.
- `AmplifyProofs!AnchorStays`: once loaded, `cacheSet[4]` stays in the set for
  the rest of the timed loop. Every traversal and the refresh return to it in
  each block of at most four accesses; an auxiliary invariant bounds its age by
  the position within the block, and `RecentLinesStay` does the rest. This holds
  for lines that coincide, any number of passes and any refresh rate of an int.
  `PinnedStays` reads `PinnedNeverEvicted` off it for all passes of the showtime
  functions, and for those of `leaky_run` from the second on.
- `AmplifyProofs!BaselineFromPrepared`: where `prepare_PLRU_state` leaves the
  whole `cacheSet` in the set, a baseline without refreshes never misses, for
  any number of passes. The invariant (`BaselineInv`) says that from the end of
  the preparation on all eight lines are in; the run loads nothing else, and a
  hit replaces no line. `PrepareFillsSet` is a hypothesis here, so that the theorem
  holds for lines that coincide; `PreparationFills` discharges it for others.
- `AmplifyProofs!AmplifyTypeOK`.
- `AmplifyProofs!PlaceInvariant`, the ground of the next five. That all lines of
  `cacheSet` are in the set is not inductive, nor are the counts of misses: with
  the same eight lines in, where they lie in the tree decides which is lost next.
  The lemmas of `RecencySetProofs` give each way a seat, a one-to-one numbering
  by the tree (`Rank`), and show that a load takes the line at seat *n* to
  `Moved(k, n)`, where *k* is the seat of the line loaded, or 1 for a miss. What
  `amplify.c` does then follows seat by seat, without the tree: eight lines
  loaded one after the other into a set that holds none of them evict all
  others (`Filling`; `prepare_PLRU_state` does this twice, and so does the
  set-up); a preamble leaves one of a few orders of the eight (`RaceEnd`); in
  the timed loop the pinned line and its *mate*, the line of the preamble (for a
  baseline `cacheSet[0]`), share a quarter of the set at each return to the pinned
  line (`Mated`), and in a disturbed run at distance 4 the seven other lines take
  turns at being out (`InCycle`); a refresh keeps the two and replaces the other six
  (`HalfRefresh`); and what a run leaves is again a set into which the next
  preparation fits (`Idle`). `PlaceInv` is the conjunction, for every phase. TLC
  finds it an invariant of the instance in `AmplifyExperiment.cfg` as it is, and of
  that in `Amplify.cfg` with `Dists` without 1 or with `Refresh` 0 alone, as the
  hypotheses below ask.
  - `PreparationFills`: `PrepareFillsSet`, from `Filling` for both arrays.
  - `AnchorNeverLost`: `PinnedNeverEvicted` in all functions, also in the first
    pass of `leaky_run`, where the line is not yet the last one accessed.
  - `BaselineStaysFree`: `BaselineNeverMisses` with refreshes at any rate.
  - `AmplificationLasts`: `DisturbedMissesEveryPass`. As long as the mate is in,
    only seven lines of `cacheSet` are; the invariant (`DisturbedInv`) is that a
    pass without a miss so far still has a line ahead of it that is out.
  - `DisturbanceHeals`: `HealedAfterOneMiss`. The one miss brings in
    `cacheSet[1]` or `cacheSet[0]` in the first pass (`IllPlace`), in the place of
    the mate, and then all eight lines are there.

  They hold for any number of passes, any rates, any order of the calls, and for
  these hypotheses:
  - `LinesApart`. With `srand(42)` and the `rand()` of glibc the 19 draws of the
    experiments differ, and
    `LayoutSuits` shows it for the lines of `shared_memory.c`, where
    `clearSet[0]` also plays the evictor and `l1b_element`. Where
    `llc_candidate` is a line of the set, no other code uses it meanwhile
    (`Foreign`); where it is not, other code may load any line between two runs
    but the program's own pages `clearSet[1]` to `clearSet[7]`.
  - `StartsClean`. The program finds the set full, without lines it clears it by:
    they are lines of its own new maps. From a set that holds lines of both
    arrays the sixteen loads of `prepare_PLRU_state` may leave a line of
    `cacheSet` out.
  - `Suits`, for calls: a distance of 1 to 4, and a refresh rate other than 0
    neither with the fall-back traversal `simple_run` (distance 1, which
    `shared_memory.c` calls at rate 0) nor with `showtime_llc_eviction` where `llc_candidate` is in the set.
    `shared_memory.c` and `experimentation.c` have the rate 0 only,
    `m2_experimentation.c` does not call the latter. The refresh then would
    begin with the mate anywhere.
- `EvsetProofs!ListNeverCycles`: the links of all pages have no cycle, although
  they survive trials and appends may lose pages. The invariant is closed under
  each operation: an append adds a link to a page whose own link is cleared.
  `EvsetTypeCorrect` adds the types of the pool and of the counters.
- `EvsetProofs!CopyStaysInArray`: the list that is returned is never longer than
  the caller's array, whatever was drawn and whatever the tests said. The length
  reported while the list is built is not always the length of the list; the
  invariant (`LenInv`) lists the cases in which they may differ, and in none of
  them is the list the longer one when the length asked for is reached.
- `EvsetProofs!ReturnedSetIsExact`: for any draws with repetition the list that is
  returned has the length asked for, unless the head of the list was found again. The
  invariant (`ExactInv`) says that as long as that did not happen, the reported length is
  the real one from the second hit on. `UsedUpPagesAreListed`: until then a page of
  which the pool has no copy left is in the list.
- `EvsetProofs!GuessesAreLive`: each guess is a page that no hit has used up, as long
  as the trial drew enough different pages. Between two hits on the head the list gains at
  most `MAX_EXTENSION - 3` other pages before the trial stops guessing, and a hit
  on the head starts it anew; so a pool that were used up would have at most
  `1 + (cuts + 1) * (MAX_EXTENSION - 3)` different pages.
- `EvsetProofs!ReturnedSetEvicts`, `ReductionKeepsEvicting`: with reliable tests
  (`~Noisy`) what is returned was tested as it is, and the list evicts the target
  in every round of the reduction.
- `EvsetProofs!ReductionNeverFails`: with reliable tests of a cache in which
  `Assoc` congruent pages evict the target, `2 <= Assoc <= ways`, the reduction
  never gives up, whatever was drawn. The invariant (`RoundInv`) says that the
  pages behind the first `rounds` ones have been tested and kept and are
  congruent, and that, once one was kept, exactly `Assoc` congruent pages are
  left. When the rounds are over the list is therefore no longer than `Assoc`.
- `ChannelProofs!ProcessesKeepStep`: a process with the default parameters has begun
  one bit in each window since its first, whenever it is started, inside a window or
  outside, and whatever the other one does, for every length of the text, of the period
  and of the interval. The invariant (`ChannelInv`) bounds the time since a process began
  its bit by the position of the window, so that it begins exactly one per window.
  `TextArrives`: if both have the defaults and begin in the same window (`together`),
  the receiver notes every bit and no other, and `conv_char` undoes `string_to_binary` for chars of any
  width, where nothing on the stack goes on behind `tmp`.
- `CollectProofs!RowsAreSorted`: bubble sort. The invariant (`Sorted`) says
  what *r* passes and *c* exchanges have achieved.
  `FiguresAreCautious` follows: in sorted rows the quartiles bound the medians, so
  their difference in cycles bounds that of the medians.
- `CollectProofs!RowsAreFresh`: exchanges lose no measurement. The invariant
  says that the slots filled so far hold the measurements made so far, and that
  an exchange permutes them. `FilesAreComplete`: everything before the current
  setting, in the order of the loops, is filed. `TypeCorrect`.
- `ExperimentsProofs!SweepsAreSafe`: through all settings of a sweep loads stay on
  lines that are 0 and the pinned line stays in the set. A driver calls `Amplify` and
  does nothing else to it, so the invariants of `AmplifyProofs` carry over, for every
  program.
- `ExperimentsProofs!DriverTypeCorrect`: the indices of the drivers stay in the
  tables of their program. The times they keep are numbers (`TimesInv`), as the
  misses of the passes, which `AmplifyProofs` shows to be numbers, add up to one.
- `ExperimentsProofs!ReportsShowAmplification`: at each setting the medians that
  are printed show the amplification, for any loops, rates and numbers of
  passes and measurements. The drivers make only calls that suit
  (`CallInv`, from `CallsSuit`), so the invariants of `AmplifyProofs` hold; `RunInv`
  and `TimesShow` carry the misses of a pass into the sum of the passes
  (`SumBounds`) and that into the array of its arm, and a median is an entry of
  the array (`MedianIsEntry`). In particular no difference that is printed wraps.
- `SetUpProofs!HelpersLieElsewhere`: arithmetic modulo 64 lines and modulo the
  page, for every place of the arrays and the stack.
  `MappedIsTouched`, `LayoutSuits`: the entries of an array are as many as were
  drawn, in different pages, at the target's offset.
- `SetUpProofs!PicksAreDistinct`: `SetUp` implements `DistinctPicks` under the
  mapping that takes an array to the pages of its entries; the invariant ties
  `rands` to the entries of the array under construction.
- `SetUpProofs!SamplesAreSorted`: whichever neighbours `comp` reads, the
  difference modulo the width of an int has the sign of the difference of the
  two elements, as long as twice that fits; so what `qsort` returns is in order.
  `SetUpTypeOK`.

Several of these need induction over data: a list is as long as its links say,
a sum is a number, bits become chars. The induction theorems of the library take
a predicate as a parameter, which the provers cannot instantiate, so
`NatRecursion` derives what is needed from the well-founded order of finite
sets: a set of numbers that is not empty has a least one (`LeastNat`), induction
for a set of numbers (`NatInd`), and the existence of a function that is defined
step by step (`AccumulatesExists`).

Model-checked only:

- The properties of misses for calls that do not suit: `simple_run` with a refresh
  in between, and `showtime_llc_eviction` with a refresh where `llc_candidate` is in the
  set. The runs cover the first in `amplify`.
- What `showtime_llc_eviction` shows where `llc_candidate` is in the set
  (`SharedSetConverts`), and when refreshes fall due (`RefreshSchedule`).
- Liveness (`TrialReturns`, the ends of the sweep, of the collection and of `main()`,
  `SyncReturns`), and with it `ENABLED`, which the prover does not handle.

## 6. Not modelled

`leaky_refresh_b3`, `leaky_refresh_b2`, `map_or_die`, `list_push`,
`list_set_first`, `print_list`, `mem_map_shared`, `mem_unmap`, `var_map_shared`
and `var_unmap` are called by nothing. The timers of `fr_util.c` return a
counter; what they measure is in the models of their callers.

The loads of the program's own variables are left out of `Amplify`. For the
arrays of addresses in `shared_memory.c`, `HelpersElsewhere` shows that they lie
in other L1 sets than the targets. The comments there say more, that the eight
pointers of a group fit in one line (line 164) and one set (line 143). This
depends on the build: `s_evsetL1` is aligned to 32 bytes, and where it begins in
the middle of a line each group lies in two. The frames of the runs, the loop
variables and the arrays of times are in no such property: where they lie is the
compiler's and the kernel's choice.

The thresholds (`shared_memory.c:45` to 47) and the percentages (lines 243 to 260)
are left out, as section 2 says; of masks given with `-s` that are negative
nothing is shown (hazard at `fr_util.c:268`), nor of the row of the twelfth
repetitions (hazard at `shared_memory.c:190`).

`fopen` in `experimentation()` is taken to succeed: where `data/timings` is
missing, the first row ends the program (line 268). The offset given with `-o`
is compared with nothing, but nothing reads through it. Prefetching and adaptive
replacement policies are not part of the set.

## 7. Plan

Done, in this order: `PlruSet`, `RecencySet`, `Amplify` (composes the two),
`ElemList`, `EvsetBuild` (composes it), `Collect`; proofs of each;
`Experiments` (composes `Amplify`), `SetUp` with `DistinctPicks`, `Channel`, the
figures of `Collect`; proofs of `Experiments`, `SetUp` and the rest of `Collect`;
proofs of the search with and without duplicates, of the channel and of what
holds of the runs in every placement of the lines; `PlruSeats` and
`AmplifyPlaces`, with the proofs of what the runs miss and the drivers print; the
pools as they are drawn, with what duplicates do to a trial, processes that start on
their own, and `llc_candidate` in the set. The safety invariants of the runs have
theorems, but for `SharedSetConverts`.

Next:

1. `Amplify`: a proof of `SharedSetConverts`, distance by distance and for any number
   of passes, from the places the three orders leave in the tree; lines that coincide.
2. `EvsetBuild`: `GuessesAreLive` bounds the different pages a trial needs; how often the
   head can be found again, as a function of its copies, would bound `cuts`.
3. `Experiments`: a proof of `RefreshSchedule`, from the sum of bits that `CommonBit` is.
