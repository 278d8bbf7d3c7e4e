----------------------------- MODULE Experiments -----------------------------
(***************************************************************************)
(* main() of experimentation.c and of m2_experimentation.c, the callers of *)
(* Amplify.  A driver sweeps over refresh rates and distances.  For every  *)
(* setting it fills its memory, sets the lines to 0, makes each of its     *)
(* calls arrSize times, sorts the times and prints them.                   *)
(*                                                                         *)
(* experimentation.c has one loop over the rates, with six calls;          *)
(* m2_experimentation.c has four loops one after the other, with one call  *)
(* each.  The time of a run is what it takes beyond a run without a miss:  *)
(* its misses.                                                             *)
(***************************************************************************)
EXTENDS Amplify, FiniteSets

CONSTANTS
  Programs,      \* the drivers: the calls of each loop, the rate tried after
                 \* 0 (before it is shifted), the last rate, and the number of
                 \* measurements (bound: 1000 and 10000 in the code)
  REPETITIONS    \* bound: 10000 in the code

Arms == {"noevict", "evict", "noreorder", "reorder", "noflush", "flush"}

ASSUME DriverAssumption ==
  /\ Programs \subseteq [loops : Seq(Seq(Arms)), seed : Nat \ {0}, REFRESH : Nat,
                 arrSize : Nat \ {0}]
  /\ \A p \in Programs :
       /\ p.loops # <<>>
       /\ \A n \in DOMAIN p.loops : p.loops[n] # <<>>
       /\ 0..p.REFRESH \subseteq Refresh
       /\ p.REFRESH < 2^29      \* `refresh <<= 2' does not overflow an int
  /\ REPETITIONS \in Repetitions
  /\ 2..4 \subseteq Dists

VARIABLES
  program,    \* the driver that runs
  loop,       \* the loop over the rates it is in; one more at the end
  refresh,    \* the loop variables
  dist,
  slot,       \* how many measurements of the setting are complete
  arm,        \* the call to make next
  timings,    \* the arrays of the setting
  measured    \* history: the settings that were printed

position == <<loop, refresh, dist>>
driverVars == <<program, position, slot, arm, timings, measured>>
allVars == <<vars, driverVars>>

Sum(s) == LET f[n \in 0..Len(s)] == IF n = 0 THEN 0 ELSE f[n - 1] + s[n] IN f[Len(s)]

Calls == program.loops[loop]
arrSize == program.arrSize

\* What the arrays hold in the middle after sort().
Median(t) ==
  CHOOSE v \in {t[n] : n \in DOMAIN t} :
    /\ Cardinality({n \in DOMAIN t : t[n] < v}) <= arrSize \div 2
    /\ Cardinality({n \in DOMAIN t : t[n] <= v}) > arrSize \div 2

NoTimes == [a \in Arms |-> <<>>]

DriverInit ==
  /\ Init
  /\ program \in Programs
  /\ loop = 1 /\ refresh = 0 /\ dist = 2
  /\ slot = 0 /\ arm = 1
  /\ timings = NoTimes
  /\ measured = {}

\* The writes of zeros at the head of a setting.
ZeroLines ==
  /\ mwrite_v \/ EndSetUp
  /\ UNCHANGED driverVars

\* Mutant: "evictor and in_cache_evictor should be swapped".
Call_swapped(a) ==
  CASE a = "noevict"   -> leaky_run(evictor, dist, REPETITIONS, refresh)
    [] a = "evict"     -> leaky_run(cacheSet[0], dist, REPETITIONS, refresh)
    [] a = "noreorder" -> showtime_reorder(0, dist, REPETITIONS, refresh)
    [] a = "reorder"   -> showtime_reorder(1, dist, REPETITIONS, refresh)
    [] OTHER -> \E at7 \in 1..3 :
         showtime_llc_eviction(IF a = "flush" THEN 1 ELSE 0, at7, dist, REPETITIONS, refresh)

Call(a) ==
  CASE a = "noevict"   -> leaky_run(cacheSet[0], dist, REPETITIONS, refresh)
    [] a = "evict"     -> leaky_run(evictor, dist, REPETITIONS, refresh)
    [] a = "noreorder" -> showtime_reorder(0, dist, REPETITIONS, refresh)
    [] a = "reorder"   -> showtime_reorder(1, dist, REPETITIONS, refresh)
    [] OTHER -> \E at7 \in 1..3 :
         showtime_llc_eviction(IF a = "flush" THEN 1 ELSE 0, at7, dist, REPETITIONS, refresh)

MakeCall ==
  /\ loop <= Len(program.loops)
  /\ slot < arrSize
  /\ Call(Calls[arm])
  /\ UNCHANGED driverVars

RunStep ==
  /\ \/ PreambleStep \/ StartTimer \/ StartPass \/ TraverseStep \/ EndPass
     \/ RefreshStep \/ EndRefresh
  /\ UNCHANGED driverVars

\* A run returns, and its time is stored.
StoreTime ==
  /\ Return
  /\ timings' = [timings EXCEPT ![Calls[arm]] = Append(@, Sum(passes))]
  /\ IF arm < Len(Calls)
     THEN arm' = arm + 1 /\ UNCHANGED slot
     ELSE arm' = 1 /\ slot' = slot + 1
  /\ UNCHANGED <<program, position, measured>>

\* `if (refresh == 0) refresh = ..' and then `refresh <<= 2': the rate that
\* is set is never measured.
NextRate(r) == 4 * (IF r = 0 THEN program.seed ELSE r)

\* Mutants: one rate too many, and the last rate is left out.
NextPosition_late ==
  IF dist < 4
  THEN dist' = dist + 1 /\ UNCHANGED <<loop, refresh>>
  ELSE /\ dist' = 2
       /\ IF refresh <= program.REFRESH
          THEN refresh' = NextRate(refresh) /\ UNCHANGED loop
          ELSE refresh' = 0 /\ loop' = loop + 1

NextPosition_early ==
  IF dist < 4
  THEN dist' = dist + 1 /\ UNCHANGED <<loop, refresh>>
  ELSE /\ dist' = 2
       /\ IF NextRate(refresh) < program.REFRESH
          THEN refresh' = NextRate(refresh) /\ UNCHANGED loop
          ELSE refresh' = 0 /\ loop' = loop + 1

NextPosition ==
  IF dist < 4
  THEN dist' = dist + 1 /\ UNCHANGED <<loop, refresh>>
  ELSE /\ dist' = 2
       /\ IF NextRate(refresh) <= program.REFRESH
          THEN refresh' = NextRate(refresh) /\ UNCHANGED loop
          ELSE refresh' = 0 /\ loop' = loop + 1

\* The times are sorted and printed, and the memory is filled for the next
\* setting, if there is one.
Report ==
  /\ loop <= Len(program.loops)
  /\ slot = arrSize
  /\ measured' = measured \cup {position}
  /\ timings' = NoTimes
  /\ slot' = 0
  /\ NextPosition
  /\ IF loop' <= Len(program.loops) THEN Refill ELSE UNCHANGED vars
  /\ UNCHANGED <<program, arm>>

DriverNext == ZeroLines \/ MakeCall \/ RunStep \/ StoreTime \/ Report

\* One thread.
DriverSpec == DriverInit /\ [][DriverNext]_allVars /\ WF_allVars(DriverNext)

-----------------------------------------------------------------------------
\* A driver that refreshes calls showtime_llc_eviction only where llc_candidate
\* is no line of the set: m2_experimentation.c does not call it at all, and
\* experimentation.c and shared_memory.c only try the rate 0.
CallsSuit ==
  llc_candidate \in Line =>
    \A p \in Programs : p.REFRESH # 0 =>
      \A n \in DOMAIN p.loops : \A k \in DOMAIN p.loops[n] :
        p.loops[n][k] \notin {"noflush", "flush"}

DriverTypeOK ==
  /\ program \in Programs
  /\ loop \in 1..Len(program.loops) + 1
  /\ refresh \in 0..program.REFRESH
  /\ dist \in 2..4
  /\ slot \in 0..arrSize
  /\ loop <= Len(program.loops) => arm \in DOMAIN Calls
  /\ timings \in [Arms -> Seq(Nat)]

\* What is printed shows the amplification.  The medians of the two arms of
\* leaky_run are a full REPETITIONS misses apart at every rate and distance;
\* so are those of showtime_reorder, but for one miss, when nothing is
\* refreshed.  So no difference that is printed wraps.
ReportsAmplification ==
  LET Shows(a, S) == slot = arrSize /\ timings[a] # <<>> => Median(timings[a]) \in S
  IN
  /\ Shows("noevict", {0})
  /\ program.REFRESH = 0 => Shows("noreorder", {0, 1})
  /\ \A a \in {"evict", "reorder"} : Shows(a, Nat \ (0..REPETITIONS - 1))

\* The rates that are measured: 0, and the seed shifted twice or more.
Rates(p) == {0} \cup {r \in 1..p.REFRESH : \E n \in 1..15 : r = p.seed * 4^n}

\* The sweep comes to its end, and has by then printed every setting: each
\* loop at each rate and distance, and no other.
SweepCompletes ==
  <>(/\ loop > Len(program.loops)
     /\ measured = (DOMAIN program.loops) \X Rates(program) \X (2..4))
=============================================================================
