------------------------- MODULE ExperimentsProofs -------------------------
(***************************************************************************)
(* Proofs about Experiments, for any drivers, with any loops, rates and    *)
(* numbers of measurements: what is proved of amplify.c for every caller   *)
(* it allows holds of its drivers, and what they print shows what is       *)
(* proved of the misses of a run.                                          *)
(***************************************************************************)
EXTENDS Experiments, AmplifyProofs, NatRecursion

\* Where a driver stands in its sweep.
SweepInv ==
  /\ program \in Programs
  /\ loop \in 1..Len(program.loops) + 1
  /\ refresh \in 0..program.REFRESH
  /\ dist \in 2..4
  /\ slot \in 0..arrSize
  /\ slot = arrSize => arm = 1 /\ phase \in {"setup", "idle"}
  /\ loop <= Len(program.loops) => arm \in DOMAIN Calls

LEMMA ProgramForm ==
  ASSUME NEW p \in Programs
  PROVE  /\ p.seed \in Nat /\ p.REFRESH \in Nat /\ p.arrSize \in Nat \ {0}
         /\ Len(p.loops) \in Nat \ {0}
         /\ \A n \in 1..Len(p.loops) :
              /\ p.loops[n] \in Seq(Arms)
              /\ DOMAIN p.loops[n] = 1..Len(p.loops[n])
              /\ Len(p.loops[n]) \in Nat \ {0}
         /\ 0..p.REFRESH \subseteq Refresh
<1>1. /\ p.seed \in Nat /\ p.REFRESH \in Nat /\ p.arrSize \in Nat \ {0}
      /\ p.loops \in Seq(Seq(Arms)) /\ p.loops # <<>>
      /\ \A n \in DOMAIN p.loops : p.loops[n] # <<>>
      /\ 0..p.REFRESH \subseteq Refresh
  BY DriverAssumption
<1>2. Len(p.loops) \in Nat \ {0} /\ DOMAIN p.loops = 1..Len(p.loops)
  BY <1>1, EmptySeq, LenProperties
<1>3. ASSUME NEW n \in 1..Len(p.loops)
      PROVE  /\ p.loops[n] \in Seq(Arms)
             /\ DOMAIN p.loops[n] = 1..Len(p.loops[n])
             /\ Len(p.loops[n]) \in Nat \ {0}
  <2>1. p.loops[n] \in Seq(Arms) /\ p.loops[n] # <<>>
    BY <1>1, <1>2, ElementOfSeq
  <2>2. QED
    BY <2>1, EmptySeq, LenProperties
<1>4. QED
  BY <1>1, <1>2, <1>3

\* The loop variables stay within the bounds of the loops.
LEMMA NextPositionInv ==
  ASSUME SweepInv, loop <= Len(program.loops), NextPosition
  PROVE  /\ loop' \in 1..Len(program.loops) + 1
         /\ refresh' \in 0..program.REFRESH
         /\ dist' \in 2..4
<1>1. program.seed \in Nat /\ program.REFRESH \in Nat /\ Len(program.loops) \in Nat \ {0}
  BY ProgramForm DEF SweepInv
<1>2. NextRate(refresh) \in Nat
  BY <1>1 DEF NextRate, SweepInv
<1>3. QED
  BY <1>1, <1>2 DEF NextPosition, SweepInv

LEMMA SweepInit ==
  ASSUME DriverInit
  PROVE  SweepInv
<1>1. program \in Programs
  BY DEF DriverInit
<1>2. /\ program.REFRESH \in Nat /\ program.arrSize \in Nat /\ program.arrSize # 0
      /\ Len(program.loops) \in Nat \ {0}
  BY <1>1, ProgramForm
<1>3. 1 \in DOMAIN program.loops[1]
  <2>1. 1 \in 1..Len(program.loops)
    BY <1>2
  <2>2. DOMAIN program.loops[1] = 1..Len(program.loops[1]) /\ Len(program.loops[1]) \in Nat \ {0}
    BY <1>1, <2>1, ProgramForm
  <2>3. QED
    BY <2>2
<1>4. QED
  BY <1>1, <1>2, <1>3 DEF DriverInit, SweepInv, Calls, arrSize

LEMMA SweepStep ==
  ASSUME SweepInv, [DriverNext]_allVars
  PROVE  SweepInv'
<1>0. /\ program \in Programs
      /\ program.arrSize \in Nat \ {0} /\ program.REFRESH \in Nat
      /\ Len(program.loops) \in Nat \ {0}
      /\ \A n \in 1..Len(program.loops) :
           DOMAIN program.loops[n] = 1..Len(program.loops[n]) /\ Len(program.loops[n]) \in Nat \ {0}
  BY ProgramForm DEF SweepInv
<1>1. CASE ZeroLines \/ RunStep \/ UNCHANGED allVars
  <2>1. UNCHANGED driverVars
    BY <1>1 DEF ZeroLines, RunStep, allVars
  <2>2. phase \in {"setup", "idle"} => phase' \in {"setup", "idle"}
    BY <1>1 DEF ZeroLines, mwrite_v, EndSetUp, RunStep, PreambleStep, StartTimer, StartPass,
       TraverseStep, EndPass, RefreshStep, EndRefresh, allVars, vars
  <2>3. QED
    BY <2>1, <2>2 DEF driverVars, position, SweepInv, Calls, arrSize
<1>2. CASE MakeCall
  BY <1>2 DEF MakeCall, driverVars, position, SweepInv, Calls, arrSize
<1>3. CASE StoreTime
  <2>1. UNCHANGED <<program, loop, refresh, dist>> /\ phase' = "idle" /\ phase = "timed"
    BY <1>3 DEF StoreTime, position, Return
  <2>2. slot < arrSize
    BY <1>0, <2>1 DEF SweepInv, arrSize
  <2>3. CASE arm < Len(Calls)
    <3>1. arm' = arm + 1 /\ slot' = slot
      BY <1>3, <2>3 DEF StoreTime
    <3>2. loop <= Len(program.loops) => arm' \in DOMAIN Calls
      BY <1>0, <2>3, <3>1 DEF SweepInv, Calls
    <3>3. QED
      BY <2>1, <2>2, <3>1, <3>2 DEF SweepInv, Calls, arrSize
  <2>4. CASE ~(arm < Len(Calls))
    <3>1. arm' = 1 /\ slot' = slot + 1
      BY <1>3, <2>4 DEF StoreTime
    <3>2. QED
      BY <1>0, <2>1, <2>2, <3>1 DEF SweepInv, Calls, arrSize
  <2>5. QED
    BY <2>3, <2>4
<1>4. CASE Report
  <2>1. /\ loop <= Len(program.loops) /\ NextPosition /\ slot' = 0 /\ arm' = arm
        /\ slot = arrSize /\ program' = program
    BY <1>4 DEF Report
  <2>2. arm = 1
    BY <2>1 DEF SweepInv
  <2>3. /\ loop' \in 1..Len(program.loops) + 1
        /\ refresh' \in 0..program.REFRESH
        /\ dist' \in 2..4
    BY <2>1, NextPositionInv
  <2>4. loop' <= Len(program.loops) => 1 \in DOMAIN program.loops[loop']
    BY <1>0, <2>3
  <2>5. QED
    BY <1>0, <2>1, <2>2, <2>3, <2>4 DEF SweepInv, Calls, arrSize
<1>5. QED
  BY <1>1, <1>2, <1>3, <1>4 DEF DriverNext

-----------------------------------------------------------------------------
\* Every call a driver makes is a call that Amplify allows.
LEMMA CallIsCalling ==
  ASSUME SweepInv, loop <= Len(program.loops), Call(Calls[arm])
  PROVE  Calling
<1>1. dist \in Dists /\ refresh \in Refresh /\ REPETITIONS \in Repetitions
  BY DriverAssumption, ProgramForm DEF SweepInv
<1>2. \/ \E e \in {cacheSet[0], evictor} : leaky_run(e, dist, REPETITIONS, refresh)
      \/ \E b \in {0, 1} : showtime_reorder(b, dist, REPETITIONS, refresh)
      \/ \E b \in {0, 1}, at7 \in 1..3 : showtime_llc_eviction(b, at7, dist, REPETITIONS, refresh)
  BY DEF Call
<1>3. QED
  BY <1>1, <1>2 DEF Calling

LEMMA DriverStep ==
  ASSUME SweepInv, [DriverNext]_allVars
  PROVE  [Next]_vars
<1>1. CASE ZeroLines
  BY <1>1 DEF ZeroLines, Next
<1>2. CASE MakeCall
  BY <1>2, CallIsCalling DEF MakeCall, Next
<1>3. CASE RunStep
  BY <1>3 DEF RunStep, Running, Next
<1>4. CASE StoreTime
  BY <1>4 DEF StoreTime, Running, Next
<1>5. CASE Report
  BY <1>5 DEF Report, Next
<1>6. CASE UNCHANGED allVars
  BY <1>6 DEF allVars
<1>7. QED
  BY <1>1, <1>2, <1>3, <1>4, <1>5, <1>6 DEF DriverNext

\* The drivers, whatever their loops, use amplify.c as module Amplify allows:
\* the state of a driver, without its own variables, is one of Amplify's.
LEMMA DriversRefineAmplify == DriverSpec => (Init /\ [][Next]_vars)
<1>1. DriverInit => Init
  BY DEF DriverInit
<1>2. QED
  BY <1>1, SweepInit, SweepStep, DriverStep, PTL DEF DriverSpec

\* So in a whole sweep no chain of loads leaves the lines it names, and no
\* run loses its anchor.
THEOREM SweepsAreSafe == DriverSpec => [](ChaseStaysOnLines /\ AnchorHeld)
<1>1. AnchorInv => ChaseStaysOnLines
  BY DEF AnchorInv, CtlInv
<1>2. QED
  BY <1>1, AnchorInit, AnchorInvHolds, AnchorStep, DriversRefineAmplify, PTL

-----------------------------------------------------------------------------
\* Sum adds up, from the first to the last.
LEMMA SumSteps ==
  ASSUME NEW s \in Seq(Nat)
  PROVE  \E w : /\ w \in [0..Len(s) -> Nat] /\ w[0] = 0
                /\ \A n \in 1..Len(s) : w[n] = w[n - 1] + s[n]
                /\ Sum(s) = w[Len(s)]
<1> DEFINE N == Len(s)
           h == [n \in 1..N |-> [v \in Nat |-> v + s[n]]]
           Def(w) == [n \in 0..N |-> IF n = 0 THEN 0 ELSE w[n - 1] + s[n]]
           W == CHOOSE w : w = Def(w)
<1>1. N \in Nat
  BY LenProperties
<1>2. \A n \in 1..N : s[n] \in Nat
  BY ElementOfSeq
<1>3. h \in [1..N -> [Nat -> Nat]] /\ \A n \in 1..N, v \in Nat : h[n][v] = v + s[n]
  BY <1>2
<1> HIDE DEF h, N
<1>4. PICK w : Accumulates(w, Nat, 0, h, N)
  BY <1>1, <1>3, AccumulatesExists
<1>5. w = Def(w)
  <2>1. \A n \in 0..N : n # 0 => n \in 1..N /\ w[n - 1] \in Nat
    BY <1>1, <1>4 DEF Accumulates
  <2>2. \A n \in 0..N : w[n] = Def(w)[n]
    BY <1>1, <1>3, <1>4, <2>1 DEF Accumulates
  <2>3. w = [n \in 0..N |-> w[n]]
    BY <1>4 DEF Accumulates
  <2>4. QED
    BY <2>2, <2>3
<1>6. W = Def(W)
  <2> HIDE DEF Def
  <2>1. QED
    BY <1>5
<1>7. Sum(s) = W[N]
  BY Zenon DEF Sum, N
<1>8. W = [n \in 0..N |-> W[n]] /\ W[0] = 0 /\ \A n \in 1..N : W[n] = W[n - 1] + s[n]
  <2> HIDE DEF W
  <2>1. \A n \in 0..N : W[n] = Def(W)[n]
    BY <1>6
  <2>2. W = [n \in 0..N |-> W[n]]
    BY <1>6, <2>1
  <2>3. QED
    BY <1>1, <2>1, <2>2
<1> HIDE DEF W, Def
<1>9. Accumulates(W, Nat, 0, h, N)
  BY <1>1, <1>3, <1>8, AccumulatesIfSteps
<1>10. W \in [0..N -> Nat]
  BY <1>9 DEF Accumulates
<1>11. QED
  BY <1>7, <1>8, <1>10 DEF N

\* The sum of a run without a miss, of one that heals, and of one that misses
\* in every pass.
LEMMA SumBounds ==
  ASSUME NEW s \in Seq(Nat)
  PROVE  /\ Sum(s) \in Nat
         /\ (\A n \in DOMAIN s : s[n] > 0) => Sum(s) >= Len(s)
         /\ \A b \in Nat : (\A n \in DOMAIN s : s[n] <= (IF n = 1 THEN b ELSE 0))
              => Sum(s) <= b
<1>1. PICK N : N = Len(s)
  OBVIOUS
<1>2. N \in Nat /\ DOMAIN s = 1..N /\ \A n \in 1..N : s[n] \in Nat
  BY <1>1, LenProperties, ElementOfSeq
<1>3. PICK w : /\ w \in [0..N -> Nat] /\ w[0] = 0
               /\ \A n \in 1..N : w[n] = w[n - 1] + s[n]
               /\ Sum(s) = w[N]
  BY <1>1, SumSteps
<1>4. ASSUME \A n \in 1..N : s[n] > 0
      PROVE  w[N] >= N
  <2> DEFINE S == {n \in Nat : n <= N => w[n] >= n}
  <2>1. 0 \in S
    BY <1>3
  <2>2. ASSUME NEW n \in Nat, n \in S PROVE n + 1 \in S
    <3> SUFFICES ASSUME n + 1 <= N PROVE w[n + 1] >= n + 1
      OBVIOUS
    <3>1. n + 1 \in 1..N /\ (n + 1) - 1 = n /\ n \in 0..N /\ w[n] >= n
      BY <1>2, <2>2
    <3>2. w[n + 1] = w[n] + s[n + 1] /\ w[n] \in Nat /\ s[n + 1] \in Nat /\ s[n + 1] > 0
      BY <1>2, <1>3, <1>4, <3>1
    <3>3. QED
      BY <3>1, <3>2
  <2>3. N \in S
    <3> HIDE DEF S
    <3>1. QED
      BY <1>2, <2>1, <2>2, NatInd
  <2>4. QED
    BY <2>3
<1>5. ASSUME NEW b \in Nat, \A n \in 1..N : s[n] <= (IF n = 1 THEN b ELSE 0)
      PROVE  w[N] <= b
  <2> DEFINE S == {n \in Nat : n <= N => w[n] <= b}
  <2>1. 0 \in S
    BY <1>3
  <2>2. ASSUME NEW n \in Nat, n \in S PROVE n + 1 \in S
    <3> SUFFICES ASSUME n + 1 <= N PROVE w[n + 1] <= b
      OBVIOUS
    <3>1. n + 1 \in 1..N /\ (n + 1) - 1 = n /\ n \in 0..N /\ w[n] <= b
      BY <1>2, <2>2
    <3>2. w[n + 1] = w[n] + s[n + 1] /\ w[n] \in Nat /\ s[n + 1] \in Nat
      BY <1>2, <1>3, <3>1
    <3>3. CASE n = 0
      <4>1. s[n + 1] <= b /\ w[n] = 0
        BY <1>3, <1>5, <3>1, <3>3
      <4>2. QED
        BY <3>2, <4>1
    <3>4. CASE n # 0
      <4>1. s[n + 1] <= 0
        BY <1>5, <3>1, <3>4
      <4>2. QED
        BY <3>1, <3>2, <4>1
    <3>5. QED
      BY <3>3, <3>4
  <2>3. N \in S
    <3> HIDE DEF S
    <3>1. QED
      BY <1>2, <2>1, <2>2, NatInd
  <2>4. QED
    BY <2>3
<1>6. w[N] \in Nat
  BY <1>2, <1>3
<1>7. QED
  BY <1>1, <1>2, <1>3, <1>4, <1>5, <1>6

\* What a driver keeps of its runs.
TimesInv == timings \in [Arms -> Seq(Nat)]

LEMMA TimesStep ==
  ASSUME SweepInv, PassesInv, TimesInv, [DriverNext]_allVars
  PROVE  TimesInv'
<1>1. CASE StoreTime
  <2>1. /\ timings' = [timings EXCEPT ![Calls[arm]] = Append(@, Sum(passes))]
    BY <1>1 DEF StoreTime
  <2>2. Sum(passes) \in Nat
    BY SumBounds DEF PassesInv
  <2> DEFINE t == Sum(passes)
             a == Calls[arm]
  <2>3. timings' = [timings EXCEPT ![a] = Append(@, t)] /\ t \in Nat
    BY <2>1, <2>2
  <2> HIDE DEF t, a
  <2>4. \A b \in Arms : Append(timings[b], t) \in Seq(Nat)
    BY <2>3, AppendProperties DEF TimesInv
  <2>5. QED
    BY <2>3, <2>4 DEF TimesInv
<1>2. CASE Report
  BY <1>2 DEF Report, NoTimes, TimesInv
<1>3. CASE ZeroLines \/ MakeCall \/ RunStep \/ UNCHANGED allVars
  BY <1>3 DEF ZeroLines, MakeCall, RunStep, allVars, driverVars, TimesInv
<1>4. QED
  BY <1>1, <1>2, <1>3 DEF DriverNext

\* The loop variables, the counters and the arrays of a driver stay within
\* their bounds, for any loops, rates and numbers of measurements.
THEOREM DriverTypeCorrect == DriverSpec => []DriverTypeOK
<1> DEFINE I == SweepInv /\ CtlInv /\ PassesInv /\ TimesInv
<1>1. DriverInit => I
  <2> SUFFICES ASSUME DriverInit PROVE I
    OBVIOUS
  <2>1. SweepInv
    BY SweepInit
  <2>2. CtlInv
    BY AnchorInit DEF DriverInit, AnchorInv
  <2>3. PassesInv
    BY DEF DriverInit, Init, PassesInv
  <2>4. TimesInv
    BY DEF DriverInit, NoTimes, TimesInv
  <2>5. QED
    BY <2>1, <2>2, <2>3, <2>4
<1>2. I /\ [DriverNext]_allVars => I'
  BY SweepStep, DriverStep, CtlStep, PassesStep, TimesStep
<1>3. I => DriverTypeOK
  BY DEF SweepInv, TimesInv, DriverTypeOK
<1>4. QED
  BY <1>1, <1>2, <1>3, PTL DEF DriverSpec

-----------------------------------------------------------------------------
\* Numbers have a bound.
LEMMA MaxExists ==
  ASSUME NEW N \in Nat, NEW t, \A n \in 1..N : t[n] \in Nat
  PROVE  \E m \in Nat : \A n \in 1..N : t[n] <= m
<1> DEFINE S == {k \in Nat : k <= N => \E m \in Nat : \A n \in 1..k : t[n] <= m}
<1>1. 0 \in S
  OBVIOUS
<1>2. ASSUME NEW k \in Nat, k \in S PROVE k + 1 \in S
  <2> SUFFICES ASSUME k + 1 <= N PROVE \E m \in Nat : \A n \in 1..(k + 1) : t[n] <= m
    OBVIOUS
  <2>1. PICK m \in Nat : \A n \in 1..k : t[n] <= m
    BY <1>2
  <2>2. t[k + 1] \in Nat
    OBVIOUS
  <2>3. \A n \in 1..(k + 1) : n \in 1..k \/ n = k + 1
    OBVIOUS
  <2>4. CASE t[k + 1] <= m
    BY <2>1, <2>3, <2>4
  <2>5. CASE ~(t[k + 1] <= m)
    <3>1. \A n \in 1..k : t[n] \in Nat
      OBVIOUS
    <3>2. \A n \in 1..(k + 1) : t[n] <= t[k + 1]
      BY <2>1, <2>2, <2>3, <2>5, <3>1
    <3>3. QED
      BY <2>2, <3>2
  <2>6. QED
    BY <2>4, <2>5
<1>3. N \in S
  <2> HIDE DEF S
  <2>1. QED
    BY <1>1, <1>2, NatInd
<1>4. QED
  BY <1>3

\* With enough entries there is a median, and it is one of them.
LEMMA MedianIsEntry ==
  ASSUME arrSize \in Nat \ {0}, NEW t \in Seq(Nat), Len(t) >= arrSize
  PROVE  \E n \in DOMAIN t : Median(t) = t[n]
<1> DEFINE D == DOMAIN t
           half == arrSize \div 2
           Few(v) == {n \in D : t[n] < v}
           UpTo(v) == {n \in D : t[n] <= v}
           Good == {v \in Nat : Cardinality(UpTo(v)) > half}
<1>1. D = 1..Len(t) /\ Len(t) \in Nat /\ \A n \in D : t[n] \in Nat
  BY LenProperties, ElementOfSeq
<1>2. half \in Nat /\ half < Len(t)
  BY <1>1
<1>3. IsFiniteSet(D) /\ Cardinality(D) = Len(t)
  BY <1>1, FS_Interval
<1>4. \A v \in Nat : Cardinality(UpTo(v)) \in Nat /\ Cardinality(Few(v)) \in Nat
  <2>1. \A v \in Nat : IsFiniteSet(UpTo(v)) /\ IsFiniteSet(Few(v))
    BY <1>3, FS_Subset
  <2>2. QED
    BY <2>1, FS_CardinalityType
<1>5. Good # {}
  <2>1. \E m \in Nat : \A n \in D : t[n] <= m
    BY <1>1, MaxExists
  <2>2. PICK m \in Nat : \A n \in D : t[n] <= m
    BY <2>1
  <2>3. UpTo(m) = D
    BY <2>2
  <2>4. Cardinality(UpTo(m)) > half
    BY <1>2, <1>3, <2>3
  <2>5. QED
    BY <2>4
<1>6. PICK v \in Good : \A m \in Good : v <= m
  <2> HIDE DEF Good
  <2>1. Good \in SUBSET Nat
    BY DEF Good
  <2>2. QED
    BY <1>5, <2>1, LeastNat
<1>7. v \in Nat /\ Cardinality(UpTo(v)) > half
  BY <1>6
<1>8. Cardinality(Few(v)) <= half
  <2>1. CASE v = 0
    <3>1. Few(v) = {}
      BY <1>1, <2>1
    <3>2. Cardinality(Few(v)) = 0
      BY <3>1, FS_EmptySet
    <3>3. QED
      BY <1>2, <3>2
  <2>2. CASE v # 0
    <3>1. v - 1 \in Nat /\ v - 1 \notin Good
      <4> HIDE DEF Good
      <4>1. v - 1 \in Nat /\ ~(v <= v - 1)
        BY <1>7, <2>2
      <4>2. QED
        BY <1>6, <4>1
    <3>2. PICK c : c = Cardinality(UpTo(v - 1))
      OBVIOUS
    <3>3. Few(v) = UpTo(v - 1)
      BY <1>1, <1>7
    <3>4. c \in Nat /\ ~(c > half)
      <4> HIDE DEF UpTo, half
      <4>1. QED
        BY <1>4, <3>1, <3>2
    <3>5. c <= half
      <4> HIDE DEF UpTo, half
      <4>1. QED
        BY <1>2, <3>4
    <3>6. QED
      <4> HIDE DEF UpTo, Few, half
      <4>1. QED
        BY <3>2, <3>3, <3>5
  <2>3. QED
    BY <2>1, <2>2
<1>9. v \in {t[n] : n \in D}
  <2>1. SUFFICES ASSUME \A n \in D : t[n] # v PROVE FALSE
    OBVIOUS
  <2>2. UpTo(v) = Few(v)
    BY <1>1, <1>7, <2>1
  <2> HIDE DEF UpTo, Few, half
  <2>3. Cardinality(UpTo(v)) \in Nat
    BY <1>4, <1>7
  <2>4. QED
    BY <1>2, <1>7, <1>8, <2>2, <2>3
<1>10. \E u \in {t[n] : n \in D} : Cardinality(Few(u)) <= half /\ Cardinality(UpTo(u)) > half
  BY <1>7, <1>8, <1>9
<1>11. Median(t) \in {t[n] : n \in D}
  BY <1>10 DEF Median
<1>12. QED
  BY <1>11

-----------------------------------------------------------------------------
\* The running call is the one the driver is at.
CallInv ==
  phase \notin {"setup", "idle"} =>
    /\ loop <= Len(program.loops) /\ slot < arrSize
    /\ call.repetitions = REPETITIONS /\ call.refresh = refresh /\ call.dist = dist
    /\ Calls[arm] = "noevict"   => call.fn = "leaky_run" /\ call.arg = cacheSet[0]
    /\ Calls[arm] = "evict"     => call.fn = "leaky_run" /\ call.arg = evictor
    /\ Calls[arm] = "noreorder" => call.fn = "showtime_reorder" /\ call.arg = 0
    /\ Calls[arm] = "reorder"   => call.fn = "showtime_reorder" /\ call.arg = 1

\* The call a driver makes next.
LEMMA CallMade ==
  ASSUME SweepInv, CallsSuit, MakeCall
  PROVE  Suits(call)' /\ CallInv'
<1>1. /\ loop <= Len(program.loops) /\ slot < arrSize /\ Call(Calls[arm])
      /\ UNCHANGED <<program, loop, refresh, dist, slot, arm>>
  BY DEF MakeCall, driverVars, position
<1>2. /\ dist \in 2..4 /\ refresh \in 0..program.REFRESH /\ program \in Programs
      /\ loop \in DOMAIN program.loops /\ arm \in DOMAIN program.loops[loop]
      /\ program.REFRESH \in Nat
  <2>1. DOMAIN program.loops = 1..Len(program.loops)
    BY DriverAssumption, LenProperties DEF SweepInv
  <2>2. QED
    BY <1>1, <2>1, ProgramForm DEF SweepInv, Calls
<1>3. PICK a : a = Calls[arm]
  OBVIOUS
<1>4. \E c : /\ Begin(c)
             /\ c.repetitions = REPETITIONS /\ c.refresh = refresh /\ c.dist = dist
             /\ a = "noevict"   => c.fn = "leaky_run" /\ c.arg = cacheSet[0]
             /\ a = "evict"     => c.fn = "leaky_run" /\ c.arg = evictor
             /\ a = "noreorder" => c.fn = "showtime_reorder" /\ c.arg = 0
             /\ a = "reorder"   => c.fn = "showtime_reorder" /\ c.arg = 1
             /\ c.fn = "showtime_llc_eviction" => a \in {"noflush", "flush"}
  <2>1. a \in Arms
    <3>1. loop \in 1..Len(program.loops)
      BY <1>1 DEF SweepInv
    <3>2. program.loops[loop] \in Seq(Arms)
      BY <1>2, <3>1, ProgramForm
    <3>3. arm \in 1..Len(program.loops[loop])
      BY <1>2, <3>2, LenProperties
    <3>4. QED
      BY <1>3, <3>2, <3>3, ElementOfSeq DEF Calls
  <2>2. CASE a = "noevict"
    <3>1. leaky_run(cacheSet[0], dist, REPETITIONS, refresh)
      BY <1>1, <1>3, <2>2 DEF Call
    <3>2. QED
      BY <2>2, <3>1 DEF leaky_run
  <2>3. CASE a = "evict"
    <3>1. leaky_run(evictor, dist, REPETITIONS, refresh)
      BY <1>1, <1>3, <2>3 DEF Call
    <3>2. QED
      BY <2>3, <3>1 DEF leaky_run
  <2>4. CASE a = "noreorder"
    <3>1. showtime_reorder(0, dist, REPETITIONS, refresh)
      BY <1>1, <1>3, <2>4 DEF Call
    <3>2. QED
      BY <2>4, <3>1 DEF showtime_reorder
  <2>5. CASE a = "reorder"
    <3>1. showtime_reorder(1, dist, REPETITIONS, refresh)
      BY <1>1, <1>3, <2>5 DEF Call
    <3>2. QED
      BY <2>5, <3>1 DEF showtime_reorder
  <2>6. CASE a \in {"noflush", "flush"}
    <3>1. \E b, f : showtime_llc_eviction(b, f, dist, REPETITIONS, refresh)
      BY <1>1, <1>3, <2>6 DEF Call
    <3>2. QED
      BY <2>6, <3>1 DEF showtime_llc_eviction
  <2>7. QED
    BY <2>1, <2>2, <2>3, <2>4, <2>5, <2>6 DEF Arms
<1>5. PICK c : /\ Begin(c)
               /\ c.repetitions = REPETITIONS /\ c.refresh = refresh /\ c.dist = dist
               /\ a = "noevict"   => c.fn = "leaky_run" /\ c.arg = cacheSet[0]
               /\ a = "evict"     => c.fn = "leaky_run" /\ c.arg = evictor
               /\ a = "noreorder" => c.fn = "showtime_reorder" /\ c.arg = 0
               /\ a = "reorder"   => c.fn = "showtime_reorder" /\ c.arg = 1
               /\ c.fn = "showtime_llc_eviction" => a \in {"noflush", "flush"}
  BY <1>4
<1>6. call' = c
  BY <1>5 DEF Begin
<1>7. Suits(c)
  <2>1. c.dist \in 1..4 /\ ~Falls(c)
    BY <1>2, <1>5 DEF Falls
  <2>2. ASSUME c.refresh # 0, Blind(c) PROVE FALSE
    <3>1. llc_candidate \in Line /\ a \in {"noflush", "flush"} /\ program.REFRESH # 0
      BY <1>2, <1>5, <2>2 DEF Blind
    <3>2. QED
      BY <1>2, <1>3, <3>1 DEF CallsSuit, Calls
  <2>3. QED
    BY <2>1, <2>2 DEF Suits
<1>8. CallInv'
  BY <1>1, <1>3, <1>5, <1>6 DEF CallInv, Calls, arrSize
<1>9. QED
  BY <1>6, <1>7, <1>8

\* It stays the running call until the run returns.
LEMMA SuitStep ==
  ASSUME SweepInv, CallsSuit, Suits(call), CallInv, [DriverNext]_allVars
  PROVE  Suits(call)' /\ CallInv'
<1>1. CASE MakeCall
  BY <1>1, CallMade
<1>2. CASE ZeroLines \/ RunStep \/ UNCHANGED allVars
  <2>1. /\ UNCHANGED <<program, loop, refresh, dist, slot, arm>> /\ call' = call
        /\ phase \in {"setup", "idle"} => phase' \in {"setup", "idle"}
    BY <1>2 DEF ZeroLines, mwrite_v, EndSetUp, RunStep, PreambleStep, StartTimer, StartPass,
       TraverseStep, EndPass, RefreshStep, EndRefresh, allVars, driverVars, position, vars
  <2>2. QED
    BY <2>1 DEF CallInv, Calls, arrSize
<1>3. CASE StoreTime
  <2>1. call' = call /\ phase' = "idle"
    BY <1>3 DEF StoreTime, Return
  <2>2. QED
    BY <2>1 DEF CallInv
<1>4. CASE Report
  <2>1. call' = call /\ (phase' = "setup" \/ phase' = phase)
    BY <1>4 DEF Report, Refill, vars
  <2>2. phase \in {"setup", "idle"}
    BY <1>4 DEF Report, SweepInv
  <2>3. QED
    BY <2>1, <2>2 DEF CallInv
<1>5. QED
  BY <1>1, <1>2, <1>3, <1>4 DEF DriverNext

\* All that is known of a run of a driver.
RunInv ==
  /\ SetInv /\ CtlInv /\ PassesInv /\ Suits(call) /\ PlaceInv
  /\ BaselineNeverMisses /\ DisturbedInv /\ HealInv

\* From the first state on, and through every step.
LEMMA RunInit ==
  ASSUME LinesApart, StartsClean, Init
  PROVE  RunInv
<1>1. SetInv /\ CtlInv
  BY AnchorInit DEF AnchorInv
<1>2. PlaceInv
  BY PlaceInit
<1>3. PassesInv
  BY EmptySeq DEF Init, PassesInv
<1>4. Suits(call)
  BY DEF Init, NoCall, Suits
<1>5. BaselineNeverMisses /\ DisturbedInv /\ HealInv
  BY DEF Init, BaselineNeverMisses, DisturbedInv, InTimer, HealInv, AtMostOne
<1>6. QED
  BY <1>1, <1>2, <1>3, <1>4, <1>5 DEF RunInv

LEMMA RunKept ==
  ASSUME LinesApart, RunInv, [Next]_vars, Suits(call)'
  PROVE  RunInv'
<1>1. SetInv'
  <2>1. SetInv /\ [NextSet]_setVars => SetInv'
    BY AccessInv, FlushInv, StutterInv DEF NextSet
  <2>2. QED
    BY <2>1, StepRefines DEF RunInv
<1>2. CtlInv' /\ PassesInv' /\ PlaceInv'
  BY CtlStep, PassesStep, PlaceStep DEF RunInv
<1>3. BaselineNeverMisses' /\ DisturbedInv' /\ HealInv'
  BY BaselineCounts, DisturbedStep, HealStep DEF RunInv
<1>4. QED
  BY <1>1, <1>2, <1>3 DEF RunInv

-----------------------------------------------------------------------------
\* The time of a run, as its driver stores it.
LEMMA TimeOfRun ==
  ASSUME LinesApart, SweepInv, CallInv, RunInv, Return
  PROVE  LET a == Calls[arm] IN
         /\ Sum(passes) \in Nat
         /\ a = "noevict" => Sum(passes) = 0
         /\ program.REFRESH = 0 /\ a = "noreorder" => Sum(passes) <= 1
         /\ a \in {"evict", "reorder"} => Sum(passes) >= REPETITIONS
<1>1. /\ phase = "timed" /\ rep = call.repetitions /\ rep \in Nat
      /\ passes \in Seq(Nat) /\ Len(passes) = rep
  BY DEF Return, RunInv, PassesInv, CtlInv
<1>2. DOMAIN passes = 1..rep
  BY <1>1, LenProperties
<1>3. /\ call.repetitions = REPETITIONS /\ call.refresh = refresh /\ call.dist = dist
      /\ dist \in 2..4 /\ refresh \in 0..program.REFRESH
  BY <1>1 DEF CallInv, SweepInv
<1>4. /\ Sum(passes) \in Nat
      /\ (\A n \in DOMAIN passes : passes[n] > 0) => Sum(passes) >= Len(passes)
      /\ \A b \in Nat : (\A n \in DOMAIN passes : passes[n] <= (IF n = 1 THEN b ELSE 0))
           => Sum(passes) <= b
  BY <1>1, SumBounds
<1>5. ASSUME Calls[arm] = "noevict"
      PROVE  Sum(passes) = 0
  <2>1. Undisturbed(call)
    <3>1. call.fn = "leaky_run" /\ call.arg = cacheSet[0] /\ 0 \in Index
      BY <1>1, <1>5 DEF CallInv, Index
    <3>2. QED
      BY <3>1 DEF Undisturbed
  <2>2. \A k \in DOMAIN passes : passes[k] = 0
    BY <2>1 DEF RunInv, BaselineNeverMisses
  <2>3. \A k \in DOMAIN passes : passes[k] <= (IF k = 1 THEN 0 ELSE 0)
    BY <2>2
  <2>4. Sum(passes) <= 0
    BY <1>4, <2>3
  <2>5. QED
    BY <1>4, <2>4
<1>6. ASSUME program.REFRESH = 0, Calls[arm] = "noreorder"
      PROVE  Sum(passes) <= 1
  <2>1. Healing(call) /\ call.refresh = 0
    BY <1>1, <1>3, <1>6 DEF CallInv, Healing
  <2>2. \A k \in DOMAIN passes : passes[k] <= (IF k = 1 THEN 1 ELSE 0)
    BY <2>1 DEF RunInv, HealInv, AtMostOne
  <2>3. QED
    BY <1>4, <2>2
<1>7. ASSUME Calls[arm] \in {"evict", "reorder"}
      PROVE  Sum(passes) >= REPETITIONS
  <2>1. Disturbed(call)
    <3>1. CASE Calls[arm] = "evict"
      <4>1. call.fn = "leaky_run" /\ call.arg = evictor /\ call.dist # 1
        BY <1>1, <1>3, <3>1 DEF CallInv
      <4>2. ~Undisturbed(call)
        BY <4>1 DEF Undisturbed, LinesApart
      <4>3. QED
        BY <4>1, <4>2 DEF Disturbed
    <3>2. CASE Calls[arm] = "reorder"
      BY <1>1, <3>2 DEF CallInv, Disturbed
    <3>3. QED
      BY <1>7, <3>1, <3>2
  <2>2. \A k \in 1..rep : passes[k] > 0
    BY <1>1, <2>1 DEF RunInv, DisturbedInv, InTimer
  <2>3. QED
    BY <1>1, <1>2, <1>3, <1>4, <2>2
<1>8. QED
  BY <1>4, <1>5, <1>6, <1>7

\* The arrays of the setting hold `slot' times of each of its calls, and one
\* more of those it has come to; there are no others.
LengthInv ==
  /\ loop > Len(program.loops) => timings = NoTimes
  /\ loop <= Len(program.loops) =>
       /\ \A k \in DOMAIN Calls :
            Len(timings[Calls[k]]) >= slot + (IF k < arm THEN 1 ELSE 0)
       /\ \A a \in Arms : timings[a] # <<>> => \E k \in DOMAIN Calls : Calls[k] = a

\* Each of the times shows what the median is to show.
TimesShow ==
  /\ \A n \in DOMAIN timings["noevict"] : timings["noevict"][n] = 0
  /\ program.REFRESH = 0 =>
       \A n \in DOMAIN timings["noreorder"] : timings["noreorder"][n] <= 1
  /\ \A a \in {"evict", "reorder"} :
       \A n \in DOMAIN timings[a] : timings[a][n] >= REPETITIONS

\* At the start of a setting there are no times.
LEMMA NoTimesInv ==
  ASSUME program \in Programs, slot = 0, arm = 1, timings = NoTimes
  PROVE  TimesShow /\ (loop \in 1..Len(program.loops) + 1 => LengthInv)
<1>1. \A a \in Arms : timings[a] = <<>> /\ DOMAIN timings[a] = {}
  BY DEF NoTimes
<1>2. TimesShow
  BY <1>1 DEF TimesShow, Arms
<1>3. ASSUME loop \in 1..Len(program.loops) + 1
      PROVE  LengthInv
  <2>1. CASE loop <= Len(program.loops)
    <3>1. /\ Calls \in Seq(Arms) /\ DOMAIN Calls = 1..Len(Calls) /\ Len(Calls) \in Nat
      <4>1. loop \in 1..Len(program.loops)
        BY <1>3, <2>1
      <4>2. QED
        BY <4>1, ProgramForm DEF Calls
    <3>2. \A k \in DOMAIN Calls : Len(timings[Calls[k]]) = 0 /\ ~(k < arm)
      BY <1>1, <3>1, ElementOfSeq, EmptySeq
    <3>3. \A k \in DOMAIN Calls :
            Len(timings[Calls[k]]) >= slot + (IF k < arm THEN 1 ELSE 0)
      BY <3>2
    <3>4. ~(loop > Len(program.loops))
      BY <1>3, <2>1, ProgramForm
    <3>5. QED
      BY <1>1, <3>3, <3>4 DEF LengthInv
  <2>2. CASE ~(loop <= Len(program.loops))
    BY <2>2 DEF LengthInv
  <2>3. QED
    BY <2>1, <2>2
<1>4. QED
  BY <1>2, <1>3

\* A time that is stored is at the end of its array, and moves no other.
LEMMA TimeStored ==
  ASSUME NEW S \in [Arms -> Seq(Nat)], NEW a \in Arms, NEW t \in Nat, NEW b \in Arms,
         NEW U, U = [S EXCEPT ![a] = Append(@, t)]
  PROVE  /\ Len(S[b]) \in Nat
         /\ Len(U[b]) = Len(S[b]) + (IF b = a THEN 1 ELSE 0)
         /\ \A n \in DOMAIN U[b] :
              \/ n \in DOMAIN S[b] /\ U[b][n] = S[b][n]
              \/ b = a /\ U[b][n] = t
<1>1. PICK s : s = S[b]
  OBVIOUS
<1>2. s \in Seq(Nat) /\ Len(s) \in Nat /\ DOMAIN s = 1..Len(s)
  BY <1>1, LenProperties
<1>3. CASE b = a
  <2>1. U[b] = Append(s, t)
    BY <1>1, <1>3
  <2>2. /\ Append(s, t) \in Seq(Nat) /\ Len(Append(s, t)) = Len(s) + 1
        /\ \A n \in 1..Len(s) : Append(s, t)[n] = s[n]
        /\ Append(s, t)[Len(s) + 1] = t
    BY <1>2, AppendProperties
  <2>3. DOMAIN Append(s, t) = 1..Len(s) + 1
    BY <1>2, <2>2, LenProperties
  <2>4. \A n \in DOMAIN Append(s, t) :
          \/ n \in DOMAIN s /\ Append(s, t)[n] = s[n]
          \/ Append(s, t)[n] = t
    <3>1. \A n \in DOMAIN Append(s, t) : n \in 1..Len(s) \/ n = Len(s) + 1
      BY <1>2, <2>3
    <3>2. QED
      BY <1>2, <2>2, <3>1, Zenon
  <2>5. QED
    BY <1>1, <1>2, <1>3, <2>1, <2>2, <2>4
<1>4. CASE b # a
  BY <1>1, <1>2, <1>4
<1>5. QED
  BY <1>3, <1>4

\* A time that is stored keeps the arrays as they should be; so does the
\* rest of a driver.
LEMMA StoreKept ==
  ASSUME LinesApart, SweepInv, CallInv, RunInv, TimesInv, LengthInv, TimesShow, StoreTime
  PROVE  LengthInv' /\ TimesShow'
<1>1. PICK a, t : a = Calls[arm] /\ t = Sum(passes)
  OBVIOUS
<1>2. /\ Return /\ timings' = [timings EXCEPT ![a] = Append(@, t)]
      /\ UNCHANGED <<program, loop, refresh, dist>>
      /\ IF arm < Len(Calls)
         THEN arm' = arm + 1 /\ UNCHANGED slot
         ELSE arm' = 1 /\ slot' = slot + 1
  BY <1>1 DEF StoreTime, position
<1>3. /\ t \in Nat
      /\ a = "noevict" => t = 0
      /\ program.REFRESH = 0 /\ a = "noreorder" => t <= 1
      /\ a \in {"evict", "reorder"} => t >= REPETITIONS
  BY <1>1, <1>2, TimeOfRun
<1>4. loop <= Len(program.loops)
  BY <1>2 DEF CallInv, Return
<1>5. /\ Calls \in Seq(Arms) /\ DOMAIN Calls = 1..Len(Calls) /\ Len(Calls) \in Nat
      /\ Len(program.loops) \in Nat /\ arm \in 1..Len(Calls)
  <2>1. loop \in 1..Len(program.loops)
    BY <1>4 DEF SweepInv
  <2>2. /\ program.loops[loop] \in Seq(Arms)
        /\ DOMAIN program.loops[loop] = 1..Len(program.loops[loop])
        /\ Len(program.loops[loop]) \in Nat \ {0}
        /\ Len(program.loops) \in Nat
    BY <2>1, ProgramForm DEF SweepInv
  <2>3. arm \in DOMAIN Calls
    BY <1>4 DEF SweepInv
  <2>4. QED
    BY <2>2, <2>3 DEF Calls
<1>6. a \in Arms /\ \A k \in DOMAIN Calls : Calls[k] \in Arms
  BY <1>1, <1>5, ElementOfSeq
<1>7. \A b \in Arms :
        /\ Len(timings[b]) \in Nat
        /\ Len(timings'[b]) = Len(timings[b]) + (IF b = a THEN 1 ELSE 0)
        /\ \A n \in DOMAIN timings'[b] :
             \/ n \in DOMAIN timings[b] /\ timings'[b][n] = timings[b][n]
             \/ b = a /\ timings'[b][n] = t
  <2>1. PICK S, U : S = timings /\ U = timings'
    OBVIOUS
  <2>2. S \in [Arms -> Seq(Nat)] /\ U = [S EXCEPT ![a] = Append(@, t)]
    BY <1>2, <2>1 DEF TimesInv
  <2>3. \A b \in Arms :
          /\ Len(S[b]) \in Nat
          /\ Len(U[b]) = Len(S[b]) + (IF b = a THEN 1 ELSE 0)
          /\ \A n \in DOMAIN U[b] :
               \/ n \in DOMAIN S[b] /\ U[b][n] = S[b][n]
               \/ b = a /\ U[b][n] = t
    BY <1>3, <1>6, <2>2, TimeStored
  <2>4. QED
    BY <2>1, <2>3
<1>8. LengthInv'
  <2>1. Calls' = Calls /\ loop' = loop /\ program' = program /\ ~(loop > Len(program.loops))
    BY <1>2, <1>4, <1>5 DEF Calls, SweepInv
  <2>2. ASSUME NEW k \in DOMAIN Calls
        PROVE  Len(timings'[Calls[k]]) >= slot' + (IF k < arm' THEN 1 ELSE 0)
    <3>1. PICK l, m : l = Len(timings[Calls[k]]) /\ m = Len(timings'[Calls[k]])
      OBVIOUS
    <3>2. /\ l \in Nat /\ m \in Nat /\ m >= l /\ (k = arm => m = l + 1)
      <4>1. m = l + (IF Calls[k] = a THEN 1 ELSE 0) /\ l \in Nat
        BY <1>6, <1>7, <3>1
      <4>2. QED
        BY <1>1, <4>1
    <3>3. l >= slot + (IF k < arm THEN 1 ELSE 0)
      BY <1>4, <3>1 DEF LengthInv
    <3>4. k \in 1..Len(Calls) /\ slot \in Nat
      <4>1. arrSize \in Nat
        BY ProgramForm DEF SweepInv, arrSize
      <4>2. QED
        BY <1>5, <4>1 DEF SweepInv
    <3>5. m >= slot' + (IF k < arm' THEN 1 ELSE 0)
      BY <1>2, <1>5, <3>2, <3>3, <3>4
    <3>6. QED
      BY <3>1, <3>5
  <2>3. ASSUME NEW b \in Arms, timings'[b] # <<>>
        PROVE  \E k \in DOMAIN Calls : Calls[k] = b
    <3>1. CASE b = a
      BY <1>1, <1>5, <3>1
    <3>2. CASE b # a
      <4>1. timings'[b] = timings[b]
        BY <1>2, <2>3, <3>2 DEF TimesInv
      <4>2. QED
        BY <1>4, <2>3, <4>1 DEF LengthInv
    <3>3. QED
      BY <3>1, <3>2
  <2>4. QED
    BY <2>1, <2>2, <2>3 DEF LengthInv
<1>9. TimesShow'
  <2>1. \A n \in DOMAIN timings'["noevict"] : timings'["noevict"][n] = 0
    BY <1>3, <1>7 DEF TimesShow, Arms
  <2>2. ASSUME program.REFRESH = 0
        PROVE  \A n \in DOMAIN timings'["noreorder"] : timings'["noreorder"][n] <= 1
    BY <1>3, <1>7, <2>2 DEF TimesShow, Arms
  <2>3. ASSUME NEW b \in {"evict", "reorder"}
        PROVE  \A n \in DOMAIN timings'[b] : timings'[b][n] >= REPETITIONS
    BY <1>3, <1>7, <2>3 DEF TimesShow, Arms
  <2>4. QED
    BY <1>2, <2>1, <2>2, <2>3 DEF TimesShow
<1>10. QED
  BY <1>8, <1>9

LEMMA ShowStep ==
  ASSUME LinesApart, SweepInv, CallInv, RunInv, TimesInv, LengthInv, TimesShow,
         [DriverNext]_allVars
  PROVE  LengthInv' /\ TimesShow'
<1>1. CASE StoreTime
  BY <1>1, StoreKept
<1>2. CASE Report
  <2>1. /\ timings' = NoTimes /\ slot' = 0 /\ arm' = arm /\ program' = program
        /\ slot = arrSize
    BY <1>2 DEF Report
  <2>2. arm = 1 /\ program \in Programs
    BY <2>1 DEF SweepInv
  <2>3. loop' \in 1..Len(program.loops) + 1
    BY <1>2, NextPositionInv DEF Report
  <2>4. \A a \in Arms : timings'[a] = <<>> /\ DOMAIN timings'[a] = {}
    BY <2>1 DEF NoTimes
  <2>5. TimesShow'
    BY <2>4 DEF TimesShow, Arms
  <2>6. LengthInv'
    <3>1. CASE loop' <= Len(program.loops)
      <4>1. PICK calls : calls = program.loops[loop']
        OBVIOUS
      <4>2. /\ calls \in Seq(Arms) /\ DOMAIN calls = 1..Len(calls) /\ Len(calls) \in Nat
        BY <2>2, <2>3, <3>1, <4>1, ProgramForm
      <4>3. \A k \in DOMAIN calls : Len(timings'[calls[k]]) = 0 /\ ~(k < 1)
        BY <2>4, <4>2, ElementOfSeq, EmptySeq
      <4>4. \A k \in DOMAIN calls :
              Len(timings'[calls[k]]) >= slot' + (IF k < arm' THEN 1 ELSE 0)
        BY <2>1, <2>2, <4>3
      <4>5. Calls' = calls
        BY <2>1, <4>1 DEF Calls
      <4>6. QED
        BY <2>1, <2>4, <4>4, <4>5 DEF LengthInv
    <3>2. CASE ~(loop' <= Len(program.loops))
      BY <2>1, <3>2 DEF LengthInv, NoTimes
    <3>3. QED
      BY <3>1, <3>2
  <2>7. QED
    BY <2>5, <2>6
<1>3. CASE ZeroLines \/ MakeCall \/ RunStep \/ UNCHANGED allVars
  <2>1. UNCHANGED <<program, loop, slot, arm, timings>>
    BY <1>3 DEF ZeroLines, MakeCall, RunStep, allVars, driverVars, position
  <2>2. QED
    BY <2>1 DEF LengthInv, TimesShow, Calls
<1>4. QED
  BY <1>1, <1>2, <1>3 DEF DriverNext

\* At the end of a setting the medians show what their times show.
LEMMA MediansShow ==
  ASSUME SweepInv, TimesInv, LengthInv, TimesShow
  PROVE  ReportsAmplification
<1>1. arrSize \in Nat \ {0} /\ Len(program.loops) \in Nat
  BY ProgramForm DEF SweepInv, arrSize
<1>2. ASSUME slot = arrSize, NEW a \in Arms, timings[a] # <<>>
      PROVE  \E n \in DOMAIN timings[a] :
               Median(timings[a]) = timings[a][n] /\ timings[a][n] \in Nat
  <2>1. loop <= Len(program.loops)
    <3>1. CASE loop > Len(program.loops)
      <4>1. timings = NoTimes
        BY <3>1 DEF LengthInv
      <4>2. QED
        BY <1>2, <4>1 DEF NoTimes
    <3>2. QED
      BY <1>1, <3>1 DEF SweepInv
  <2>2. PICK k \in DOMAIN Calls : Calls[k] = a
    BY <1>2, <2>1 DEF LengthInv
  <2>3. PICK t : t = timings[a]
    OBVIOUS
  <2>4. t \in Seq(Nat) /\ Len(t) \in Nat /\ DOMAIN t = 1..Len(t)
    BY <2>3, LenProperties DEF TimesInv
  <2>5. Len(t) >= slot + (IF k < arm THEN 1 ELSE 0)
    BY <2>1, <2>2, <2>3 DEF LengthInv
  <2>6. Len(t) >= arrSize
    BY <1>1, <1>2, <2>4, <2>5
  <2>7. PICK n \in DOMAIN t : Median(t) = t[n]
    BY <1>1, <2>4, <2>6, MedianIsEntry
  <2>8. t[n] \in Nat
    BY <2>4, ElementOfSeq
  <2>9. QED
    BY <2>3, <2>7, <2>8
<1>3. REPETITIONS \in Nat
  BY DriverAssumption, SetsAssumption
<1>4. slot = arrSize /\ timings["noevict"] # <<>> => Median(timings["noevict"]) \in {0}
  BY <1>2 DEF TimesShow, Arms
<1>5. program.REFRESH = 0 =>
        (slot = arrSize /\ timings["noreorder"] # <<>> => Median(timings["noreorder"]) \in {0, 1})
  <2> SUFFICES ASSUME program.REFRESH = 0, slot = arrSize, timings["noreorder"] # <<>>
               PROVE  Median(timings["noreorder"]) \in {0, 1}
    OBVIOUS
  <2>1. PICK n \in DOMAIN timings["noreorder"] :
          /\ Median(timings["noreorder"]) = timings["noreorder"][n]
          /\ timings["noreorder"][n] \in Nat
    BY <1>2 DEF Arms
  <2>2. timings["noreorder"][n] <= 1
    BY <2>1 DEF TimesShow
  <2>3. QED
    BY <2>1, <2>2
<1>6. ASSUME NEW a \in {"evict", "reorder"}, slot = arrSize, timings[a] # <<>>
      PROVE  Median(timings[a]) \in Nat \ (0..REPETITIONS - 1)
  <2>1. PICK n \in DOMAIN timings[a] :
          Median(timings[a]) = timings[a][n] /\ timings[a][n] \in Nat
    BY <1>2, <1>6 DEF Arms
  <2>2. timings[a][n] >= REPETITIONS
    BY <1>6, <2>1 DEF TimesShow
  <2>3. QED
    BY <1>3, <2>1, <2>2
<1>7. QED
  BY <1>4, <1>5, <1>6 DEF ReportsAmplification

\* What a driver prints shows the amplification: at each setting the medians
\* of its baselines are 0, or 1 at most, and those of its disturbed runs are at
\* least a miss for each pass, for any drivers that refresh as CallsSuit allows.
THEOREM ReportsShowAmplification ==
  ASSUME LinesApart, StartsClean, CallsSuit
  PROVE  DriverSpec => []ReportsAmplification
<1> DEFINE I == SweepInv /\ CallInv /\ RunInv /\ TimesInv /\ LengthInv /\ TimesShow
<1>1. DriverInit => I
  <2> SUFFICES ASSUME DriverInit PROVE I
    OBVIOUS
  <2>1. SweepInv
    BY SweepInit
  <2>2. CallInv
    BY DEF DriverInit, Init, CallInv
  <2>3. RunInv
    BY RunInit DEF DriverInit
  <2>4. TimesInv
    BY DEF DriverInit, NoTimes, TimesInv
  <2>5. TimesShow /\ LengthInv
    BY <2>1, NoTimesInv DEF DriverInit, SweepInv
  <2>6. QED
    BY <2>1, <2>2, <2>3, <2>4, <2>5
<1>2. I /\ [DriverNext]_allVars => I'
  <2> SUFFICES ASSUME I, [DriverNext]_allVars PROVE I'
    OBVIOUS
  <2>1. Suits(call)' /\ CallInv'
    BY SuitStep DEF RunInv
  <2>2. SweepInv' /\ [Next]_vars
    BY SweepStep, DriverStep
  <2>3. RunInv'
    BY <2>1, <2>2, RunKept
  <2>4. TimesInv' /\ LengthInv' /\ TimesShow'
    BY TimesStep, ShowStep DEF RunInv
  <2>5. QED
    BY <2>1, <2>2, <2>3, <2>4
<1>3. I => ReportsAmplification
  BY MediansShow
<1>4. QED
  BY <1>1, <1>2, <1>3, PTL DEF DriverSpec
=============================================================================
