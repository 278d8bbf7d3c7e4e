--------------------------- MODULE AmplifyProofs ---------------------------
(***************************************************************************)
(* Proofs about Amplify, for any numbers of passes and refresh rates.  The *)
(* first part is for any lines (they need not be different), any distances *)
(* and any first content of the set.  The second part, from `Where the     *)
(* lines lie' on, is about lines that are different (LinesApart), a set    *)
(* that holds none of clearSet at first (StartsClean) and calls as the     *)
(* drivers make them (Suits): it follows the lines from seat to seat, and  *)
(* proves what the misses of a run are.                                    *)
(***************************************************************************)
EXTENDS AmplifyPlaces, RecencySetProofs, SequenceTheorems

LEMMA MaccessStep ==
  ASSUME NEW a, maccess(a)
  PROVE  [NextSet]_setVars
BY DEF maccess, NextSet

LEMMA ClflushStep ==
  ASSUME NEW a, clflush(a)
  PROVE  [NextSet]_setVars
BY DEF clflush, NextSet

LEMMA RunningStep ==
  ASSUME Running
  PROVE  [NextSet]_setVars
<1>1. CASE PreambleStep
  <2>1. (\E a : maccess(a)) \/ (\E a : clflush(a))
    BY <1>1 DEF PreambleStep
  <2>2. QED
    BY <2>1, MaccessStep, ClflushStep
<1>2. CASE TraverseStep
  <2>1. \E a : maccess(a)
    BY <1>2 DEF TraverseStep
  <2>2. QED
    BY <2>1, MaccessStep
<1>3. CASE RefreshStep
  <2>1. \E a : maccess(a)
    BY <1>3 DEF RefreshStep
  <2>2. QED
    BY <2>1, MaccessStep
<1>4. CASE StartTimer \/ StartPass \/ EndPass \/ EndRefresh \/ Return
  BY <1>4 DEF StartTimer, StartPass, EndPass, EndRefresh, Return
<1>5. QED
  BY <1>1, <1>2, <1>3, <1>4 DEF Running

\* Every step of a run, of a caller and of other code is a step of the
\* abstract set, or leaves it alone.
LEMMA StepRefines ==
  ASSUME [Next]_vars
  PROVE  [NextSet]_setVars
<1>1. CASE mwrite_v \/ EndSetUp \/ Refill
  BY <1>1 DEF mwrite_v, EndSetUp, Refill, NextSet
<1>2. CASE Calling
  BY <1>2 DEF Calling, leaky_run, showtime_reorder, showtime_llc_eviction, Begin
<1>3. CASE Running
  BY <1>3, RunningStep
<1>4. CASE \E x \in Foreign : OtherCode(x)
  BY <1>4, SetsAssumption DEF OtherCode, NextSet
<1>5. CASE UNCHANGED vars
  BY <1>5 DEF vars, setVars
<1>6. QED
  BY <1>1, <1>2, <1>3, <1>4, <1>5 DEF Next

\* amplify.c uses the set as the abstract specification allows.
LEMMA AmplifyImplementsSet == Spec => SpecSet
<1>1. Init => InitSet
  BY SetsAssumption DEF Init, InitSet
<1>2. [Next]_vars => [NextSet]_setVars
  BY StepRefines
<1>3. QED
  BY <1>1, <1>2, PTL DEF Spec, SpecSet

-----------------------------------------------------------------------------
\* What a run may load, and what the callers write: the same addresses.
Zeroed ==
  {clearSet[i] : i \in Index} \cup {cacheSet[i] : i \in Index}
    \cup {evictor, llc_candidate, l1b_element}

LEMMA WritesCover ==
  ASSUME NEW a \in Zeroed
  PROVE  \E k \in 1..19 : Writes[k] = a
<1>1. ASSUME NEW i \in Index
      PROVE  i + 1 \in 1..19 /\ Writes[i + 1] = clearSet[i]
  BY DEF Writes, Index
<1>2. ASSUME NEW i \in Index
      PROVE  i + 9 \in 1..19 /\ Writes[i + 9] = cacheSet[i]
  BY DEF Writes, Index
<1>3. Writes[17] = evictor /\ Writes[18] = llc_candidate /\ Writes[19] = l1b_element
  BY DEF Writes
<1>4. QED
  BY <1>1, <1>2, <1>3 DEF Zeroed

LEMMA WritesType ==
  ASSUME NEW k \in 1..19
  PROVE  Writes[k] \in Address
<1>1. CASE k \in 1..8
  <2>1. Writes[k] = clearSet[k - 1] /\ k - 1 \in Index
    BY <1>1 DEF Writes, Index
  <2>2. QED
    BY <2>1, SetsAssumption
<1>2. CASE k \in 9..16
  <2>1. Writes[k] = cacheSet[k - 9] /\ k - 9 \in Index
    BY <1>2 DEF Writes, Index
  <2>2. QED
    BY <2>1, SetsAssumption
<1>3. CASE k \in {17, 18, 19}
  BY <1>3, SetsAssumption DEF Writes
<1>4. QED
  BY <1>1, <1>2, <1>3

-----------------------------------------------------------------------------
\* The sequences: every index is one of the two arrays', and every Gap-th is
\* the pinned one.
LEMMA Traversal4 ==
  /\ Len(leaky_run_b4) = 28
  /\ \A p \in 1..28 : leaky_run_b4[p] \in Index /\ (p % 4 = 0 => leaky_run_b4[p] = 4)
BY DEF leaky_run_b4, Index

LEMMA Traversal3 ==
  /\ Len(leaky_run_b3) = 21
  /\ \A p \in 1..21 : leaky_run_b3[p] \in Index /\ (p % 3 = 0 => leaky_run_b3[p] = 4)
BY DEF leaky_run_b3, Index

LEMMA Traversal2 ==
  /\ Len(leaky_run_b2) = 28
  /\ \A p \in 1..28 : leaky_run_b2[p] \in Index /\ (p % 2 = 0 => leaky_run_b2[p] = 4)
BY DEF leaky_run_b2, Index

LEMMA Simple ==
  /\ Len(simple_run) = 32
  /\ \A p \in 1..32 : simple_run[p] \in Index
<1>1. simple_run \in Seq({0})
  BY DEF simple_run
<1>2. DOMAIN simple_run = 1..32
  BY DEF simple_run
<1>3. Len(simple_run) = 32
  BY <1>1, <1>2
<1>4. QED
  BY <1>3 DEF simple_run, Index

LEMMA Refreshing ==
  /\ Len(leaky_refresh_b4) = 16
  /\ \A p \in 1..16 : /\ leaky_refresh_b4[p].at \in Zeroed
                      /\ p % 4 = 0 => leaky_refresh_b4[p].at = cacheSet[Pinned]
BY DEF leaky_refresh_b4, C, K, Load, Zeroed, Index, Pinned

LEMMA TraversalForm ==
  ASSUME NEW c, Traversal(c) # simple_run
  PROVE  /\ Gap(c) \in {2, 3, 4}
         /\ Len(Traversal(c)) \in Nat
         /\ Len(Traversal(c)) >= Gap(c)
         /\ Len(Traversal(c)) % Gap(c) = 0
         /\ \A p \in 1..Len(Traversal(c)) :
              p % Gap(c) = 0 => Traversal(c)[p] = Pinned
<1>1. CASE c.dist = 4
  <2>1. Traversal(c) = leaky_run_b4 /\ Gap(c) = 4
    BY <1>1 DEF Traversal, Gap
  <2>2. QED
    BY <2>1, Traversal4 DEF Pinned
<1>2. CASE c.dist = 3
  <2>1. Traversal(c) = leaky_run_b3 /\ Gap(c) = 3
    BY <1>2 DEF Traversal, Gap
  <2>2. QED
    BY <2>1, Traversal3 DEF Pinned
<1>3. CASE c.dist \notin {3, 4}
  <2>1. Traversal(c) = leaky_run_b2 /\ Gap(c) = 2
    BY <1>3 DEF Traversal, Gap
  <2>2. QED
    BY <2>1, Traversal2 DEF Pinned
<1>4. QED
  BY <1>1, <1>2, <1>3

LEMMA TraversalIndex ==
  ASSUME NEW c
  PROVE  /\ Len(Traversal(c)) \in Nat
         /\ \A p \in 1..Len(Traversal(c)) : Traversal(c)[p] \in Index
<1>1. Traversal(c) \in {leaky_run_b4, leaky_run_b3, leaky_run_b2, simple_run}
  BY DEF Traversal
<1>2. CASE Traversal(c) = leaky_run_b4
  BY <1>2, Traversal4
<1>3. CASE Traversal(c) = leaky_run_b3
  BY <1>3, Traversal3
<1>4. CASE Traversal(c) = leaky_run_b2
  BY <1>4, Traversal2
<1>5. CASE Traversal(c) = simple_run
  BY <1>5, Simple
<1>6. QED
  BY <1>1, <1>2, <1>3, <1>4, <1>5

-----------------------------------------------------------------------------
\* What the callers pass.
GoodCall(c) ==
  /\ c.fn \in {"leaky_run", "showtime_reorder", "showtime_llc_eviction"}
  /\ c.fn = "leaky_run" => c.arg \in {cacheSet[0], evictor}
  /\ c.fn # "leaky_run" => c.arg \in {0, 1} /\ c.at7 \in 1..3

\* Every instruction of a preamble is about an address that was set to 0.
Instr == [op : {"load", "clflush"}, at : Zeroed]

LEMMA InstrSets ==
  /\ \A i \in Index : C(i) \in Instr /\ K(i) \in Instr
  /\ \A e \in {cacheSet[0], evictor, llc_candidate, l1b_element} :
       Load(e) \in Instr /\ Clflush(llc_candidate) \in Instr
BY DEF Instr, C, K, Load, Clflush, Zeroed, Index

LEMMA PrepareForm == prepare_PLRU_state \in Seq(Instr)
<1>1. \A k \in 1..16 : (k <= 8 => k - 1 \in Index) /\ (k > 8 => k - 9 \in Index)
  BY DEF Index
<1>2. \A k \in 1..16 : prepare_PLRU_state[k] \in Instr
  BY <1>1, InstrSets DEF prepare_PLRU_state
<1>3. prepare_PLRU_state \in [1..16 -> Instr]
  BY <1>2 DEF prepare_PLRU_state
<1>4. QED
  BY <1>3, SeqDef

\* A sequence that ends with the adaptor pattern ends with the pinned line.
LEMMA EndsPinned ==
  ASSUME NEW s \in Seq(Instr)
  PROVE  LET t == s \o AdaptorPattern
         IN  t \in Seq(Instr) /\ t # <<>> /\ t[Len(t)] = C(Pinned)
<1> DEFINE A == AdaptorPattern
<1>1. A \in Seq(Instr) /\ Len(A) = 3 /\ A[3] = C(Pinned)
  BY InstrSets DEF AdaptorPattern, Pinned, Index
<1> HIDE DEF A
<1>2. /\ s \o A \in Seq(Instr)
      /\ Len(s \o A) = Len(s) + Len(A)
      /\ \A i \in 1..(Len(s) + Len(A)) :
           (s \o A)[i] = IF i <= Len(s) THEN s[i] ELSE A[i - Len(s)]
  BY <1>1, ConcatProperties
<1>3. Len(s) \in Nat
  OBVIOUS
<1>4. (s \o A)[Len(s) + 3] = A[3]
  BY <1>1, <1>2, <1>3
<1>5. s \o A # <<>>
  BY <1>1, <1>2, <1>3
<1>6. QED
  BY <1>1, <1>2, <1>4, <1>5 DEF A

LEMMA PreambleForm ==
  ASSUME NEW c, GoodCall(c)
  PROVE  /\ Preamble(c) \in Seq(Instr)
         /\ c.fn # "leaky_run" =>
              Preamble(c) # <<>> /\ Preamble(c)[Len(Preamble(c))] = C(Pinned)
<1>1. CASE c.fn = "leaky_run"
  <2>1. <<Load(c.arg)>> \in Seq(Instr)
    BY <1>1, InstrSets DEF GoodCall
  <2>2. Preamble(c) = prepare_PLRU_state \o <<Load(c.arg)>>
    BY <1>1 DEF Preamble
  <2>3. QED
    BY <1>1, <2>1, <2>2, PrepareForm
<1>2. CASE c.fn = "showtime_reorder"
  <2> DEFINE r == IF c.arg = 1 THEN <<K(0), C(4)>> ELSE <<C(4), K(0)>>
  <2>1. r \in Seq(Instr)
    BY InstrSets DEF Index
  <2>2. Preamble(c) = (prepare_PLRU_state \o r) \o AdaptorPattern
    BY <1>2 DEF Preamble
  <2>3. prepare_PLRU_state \o r \in Seq(Instr)
    BY <2>1, PrepareForm
  <2>4. QED
    BY <2>2, <2>3, EndsPinned
<1>3. CASE c.fn = "showtime_llc_eviction"
  <2> DEFINE f == IF c.arg = 1 THEN <<Clflush(llc_candidate)>> ELSE <<>>
             p == <<Load(llc_candidate)>> \o f \o prepare_PLRU_state
                    \o LlcRace(c.at7) \o <<Load(l1b_element)>>
  <2>1. f \in Seq(Instr)
    BY InstrSets
  <2>2. <<Load(llc_candidate)>> \in Seq(Instr) /\ <<Load(l1b_element)>> \in Seq(Instr)
    BY InstrSets
  <2>3. LlcRace(c.at7) \in Seq(Instr)
    BY InstrSets DEF LlcRace, Index
  <2>4. p \in Seq(Instr)
    BY <2>1, <2>2, <2>3, PrepareForm
  <2>5. Preamble(c) = p \o AdaptorPattern
    BY <1>3 DEF Preamble
  <2>6. QED
    BY <2>4, <2>5, EndsPinned
<1>4. QED
  BY <1>1, <1>2, <1>3 DEF GoodCall

-----------------------------------------------------------------------------
\* Control: where each phase may stand, and that everything is set to 0
\* before the first run.
CtlInv ==
  /\ phase \in {"setup", "idle", "preamble", "timed", "traverse", "refresh"}
  /\ ChaseStaysOnLines
  /\ phase = "setup" => pos <= 20 /\ \A k \in 1..(pos - 1) : Writes[k] \in zeroed
  /\ phase # "setup" => Zeroed \subseteq zeroed
  /\ phase \notin {"setup", "idle"} => GoodCall(call)
  /\ pos \in Nat \ {0}
  /\ rep \in Nat
  /\ phase = "preamble" => rep = 0
  /\ phase = "timed" => pos = 1
  /\ phase = "traverse" => pos <= Len(Traversal(call)) + 1
  /\ phase = "refresh" => pos <= 17

\* A load of an address that was set to 0 loads 0.
LEMMA LoadsZero ==
  ASSUME CtlInv, phase # "setup", NEW a \in Zeroed, maccess(a)
  PROVE  trash' = 0 /\ (a \in Line => Access(a))
BY DEF CtlInv, maccess, ChaseStaysOnLines

LEMMA PreambleCtl == CtlInv /\ PreambleStep => CtlInv'
<1> SUFFICES ASSUME CtlInv, PreambleStep PROVE CtlInv'
  OBVIOUS
<1> DEFINE i == Preamble(call)[pos]
<1>1. i \in Instr
  BY PreambleForm, ElementOfSeq DEF CtlInv, PreambleStep
<1>2. trash' = 0
  <2>1. CASE i.op = "load"
    BY <1>1, <2>1, LoadsZero DEF PreambleStep, Instr
  <2>2. CASE i.op # "load"
    BY <2>2 DEF PreambleStep, clflush, CtlInv, ChaseStaysOnLines
  <2>3. QED
    BY <2>1, <2>2
<1>3. QED
  BY <1>2 DEF PreambleStep, CtlInv, ChaseStaysOnLines

LEMMA TraverseCtl == CtlInv /\ TraverseStep => CtlInv'
<1> SUFFICES ASSUME CtlInv, TraverseStep PROVE CtlInv'
  OBVIOUS
<1> DEFINE a == cacheSet[Traversal(call)[pos]]
<1>1. a \in Zeroed /\ Len(Traversal(call)) \in Nat
  BY TraversalIndex DEF TraverseStep, CtlInv, Zeroed
<1>2. trash' = 0
  BY <1>1, LoadsZero DEF TraverseStep
<1>3. QED
  BY <1>1, <1>2 DEF TraverseStep, CtlInv, ChaseStaysOnLines

LEMMA RefreshCtl == CtlInv /\ RefreshStep => CtlInv'
<1> SUFFICES ASSUME CtlInv, RefreshStep PROVE CtlInv'
  OBVIOUS
<1>1. leaky_refresh_b4[pos].at \in Zeroed /\ pos <= 16
  BY Refreshing DEF RefreshStep, CtlInv
<1>2. trash' = 0
  BY <1>1, LoadsZero DEF RefreshStep
<1>3. QED
  BY <1>1, <1>2 DEF RefreshStep, CtlInv, ChaseStaysOnLines

LEMMA BeginCtl ==
  ASSUME CtlInv, NEW c, GoodCall(c), Begin(c)
  PROVE  CtlInv'
BY DEF CtlInv, Begin, ChaseStaysOnLines

LEMMA CallingCtl == CtlInv /\ Calling => CtlInv'
<1> SUFFICES ASSUME CtlInv, Calling PROVE CtlInv'
  OBVIOUS
<1>1. PICK c : GoodCall(c) /\ Begin(c)
  BY DEF Calling, leaky_run, showtime_reorder, showtime_llc_eviction, GoodCall
<1>2. QED
  BY <1>1, BeginCtl

LEMMA SetUpCtl == CtlInv /\ (mwrite_v \/ EndSetUp \/ Refill) => CtlInv'
<1> SUFFICES ASSUME CtlInv, mwrite_v \/ EndSetUp \/ Refill PROVE CtlInv'
  OBVIOUS
<1>1. CASE mwrite_v
  <2>1. pos \in 1..19 /\ pos' = pos + 1 /\ zeroed' = zeroed \cup {Writes[pos]}
    BY <1>1 DEF mwrite_v, CtlInv
  <2>2. \A k \in 1..(pos' - 1) : k \in 1..(pos - 1) \/ k = pos
    BY <2>1
  <2>3. \A k \in 1..(pos' - 1) : Writes[k] \in zeroed'
    BY <1>1, <2>1, <2>2 DEF mwrite_v, CtlInv
  <2>4. QED
    BY <1>1, <2>1, <2>3 DEF mwrite_v, CtlInv, ChaseStaysOnLines
<1>2. CASE EndSetUp
  <2>1. Zeroed \subseteq zeroed
    BY <1>2, WritesCover DEF EndSetUp, CtlInv
  <2>2. QED
    BY <1>2, <2>1 DEF EndSetUp, CtlInv, ChaseStaysOnLines
<1>3. CASE Refill
  BY <1>3 DEF Refill, CtlInv, ChaseStaysOnLines
<1>4. QED
  BY <1>1, <1>2, <1>3

LEMMA CtlStep == CtlInv /\ [Next]_vars => CtlInv'
<1> SUFFICES ASSUME CtlInv, [Next]_vars PROVE CtlInv'
  OBVIOUS
<1>1. CASE mwrite_v \/ EndSetUp \/ Refill
  BY <1>1, SetUpCtl
<1>2. CASE StartTimer
  BY <1>2 DEF StartTimer, CtlInv, ChaseStaysOnLines
<1>3. CASE StartPass
  BY <1>3, TraversalIndex DEF StartPass, CtlInv, ChaseStaysOnLines
<1>4. CASE EndPass
  BY <1>4 DEF EndPass, CtlInv, ChaseStaysOnLines
<1>5. CASE EndRefresh
  BY <1>5 DEF EndRefresh, CtlInv, ChaseStaysOnLines
<1>6. CASE Return
  BY <1>6 DEF Return, CtlInv, ChaseStaysOnLines
<1>7. CASE \E x \in Foreign : OtherCode(x)
  BY <1>7 DEF OtherCode, callVars, CtlInv, ChaseStaysOnLines
<1>8. CASE UNCHANGED vars
  BY <1>8 DEF vars, CtlInv, ChaseStaysOnLines
<1>9. QED
  BY <1>1, <1>2, <1>3, <1>4, <1>5, <1>6, <1>7, <1>8, PreambleCtl, TraverseCtl,
     RefreshCtl, CallingCtl DEF Next, Running

\* Positions stay in their sequences, and a call is made with its lines at 0.
THEOREM ControlInvariant == Spec => []CtlInv
<1>1. Init => CtlInv
  BY DEF Init, CtlInv, ChaseStaysOnLines
<1>2. QED
  BY <1>1, CtlStep, PTL DEF Spec

\* No run leaves the lines it names, whatever the lines, the arguments and
\* the number of calls.
THEOREM ChaseNeverLeaves == Spec => []ChaseStaysOnLines
<1>1. CtlInv => ChaseStaysOnLines
  BY DEF CtlInv
<1>2. QED
  BY <1>1, ControlInvariant, PTL

-----------------------------------------------------------------------------
\* How long ago the pinned line was accessed: it is every Gap-th access of a
\* traversal and every fourth of a refresh.
PinnedAge ==
  /\ (phase = "preamble" /\ call.fn # "leaky_run"
        /\ pos = Len(Preamble(call)) + 1) => age[pin] = 0
  /\ (Anchored /\ phase = "timed") => age[pin] = 0
  /\ (Anchored /\ phase = "traverse") => age[pin] <= (pos - 1) % Gap(call)
  /\ (Anchored /\ phase = "refresh") => age[pin] <= (pos - 1) % 4

AnchorInv == SetInv /\ CtlInv /\ PinnedAge

LEMMA PinIsLine == pin \in Line
BY SetsAssumption DEF pin, Index, Pinned

\* An access resets the age of its own line and adds at most one to others'.
LEMMA AccessAge ==
  ASSUME SetInv, NEW x \in Line, Access(x)
  PROVE  /\ age[pin] \in Nat /\ age'[pin] \in Nat
         /\ age'[pin] <= age[pin] + 1
         /\ x = pin => age'[pin] = 0
BY PinIsLine DEF SetInv, SetTypeOK, Access, Older, Old

LEMMA PreamblePinned == AnchorInv /\ PreambleStep => PinnedAge'
<1> SUFFICES ASSUME AnchorInv, PreambleStep PROVE PinnedAge'
  OBVIOUS
<1> USE DEF AnchorInv
<1>1. phase' = "preamble" /\ call' = call /\ pos' = pos + 1
  BY DEF PreambleStep, CtlInv
<1>2. ASSUME call.fn # "leaky_run", pos + 1 = Len(Preamble(call)) + 1
      PROVE  age'[pin] = 0
  <2>1. pos = Len(Preamble(call))
    BY <1>2, PreambleForm, LenProperties DEF CtlInv, PreambleStep
  <2>2. Preamble(call)[pos] = Load(pin)
    BY <1>2, <2>1, PreambleForm DEF CtlInv, PreambleStep, C, pin
  <2>3. maccess(pin)
    BY <2>2 DEF PreambleStep, Load
  <2>4. Access(pin)
    BY <2>3, PinIsLine DEF maccess, CtlInv, ChaseStaysOnLines
  <2>5. QED
    BY <2>4, PinIsLine, AccessAge
<1>3. QED
  BY <1>1, <1>2 DEF PinnedAge, Anchored, InTimer

LEMMA TraversePinned == AnchorInv /\ TraverseStep => PinnedAge'
<1> SUFFICES ASSUME AnchorInv, TraverseStep, Traversal(call) # simple_run
             PROVE  PinnedAge'
  BY DEF PinnedAge, Anchored, InTimer, TraverseStep
<1> USE DEF AnchorInv
<1> DEFINE g == Gap(call)
           a == cacheSet[Traversal(call)[pos]]
<1>1. /\ phase = "traverse" /\ phase' = "traverse" /\ call' = call
      /\ pos' = pos + 1 /\ rep' = rep /\ pos \in 1..Len(Traversal(call))
  BY TraversalIndex DEF TraverseStep, CtlInv
<1>2. /\ g \in {2, 3, 4}
      /\ pos % g = 0 => a = pin
  BY <1>1, TraversalForm DEF pin
<1>3. a \in Line /\ Access(a)
  <2>1. a \in Line
    BY <1>1, TraversalIndex, SetsAssumption
  <2>2. QED
    BY <2>1 DEF TraverseStep, maccess, CtlInv, ChaseStaysOnLines
<1>4. /\ age[pin] \in Nat /\ age'[pin] \in Nat
      /\ age'[pin] <= age[pin] + 1
      /\ a = pin => age'[pin] = 0
  BY <1>3, AccessAge
<1> HIDE DEF g, a
<1>5. CASE pos % g = 0
  <2>1. age'[pin] <= pos % g
    BY <1>2, <1>4, <1>5
  <2>2. QED
    BY <1>1, <2>1 DEF PinnedAge, Anchored, InTimer, g
<1>6. CASE pos % g # 0
  <2>1. pos \in Nat \ {0}
    BY <1>1
  <2>2. pos % g = ((pos - 1) % g) + 1
    BY <1>2, <1>6, <2>1
  <2>3. Anchored' => Anchored
    <3>1. pos + 1 > g /\ pos <= g => pos = g
      BY <1>2, <2>1
    <3>2. pos # g
      BY <1>2, <1>6, <2>1
    <3>3. QED
      BY <1>1, <1>2, <2>1, <3>1, <3>2 DEF Anchored, InTimer, g
  <2>4. Anchored => age'[pin] <= pos % g
    BY <1>1, <1>4, <2>2, <1>2, <2>1 DEF PinnedAge, g
  <2>5. QED
    BY <1>1, <2>1, <2>3, <2>4 DEF PinnedAge, g
<1>7. QED
  BY <1>5, <1>6

LEMMA RefreshPinned == AnchorInv /\ RefreshStep => PinnedAge'
<1> SUFFICES ASSUME AnchorInv, RefreshStep PROVE PinnedAge'
  OBVIOUS
<1> USE DEF AnchorInv
<1> DEFINE a == leaky_refresh_b4[pos].at
<1>1. /\ phase = "refresh" /\ phase' = "refresh" /\ call' = call
      /\ pos' = pos + 1 /\ rep' = rep /\ pos \in 1..16
  BY Refreshing DEF RefreshStep, CtlInv
<1>2. pos % 4 = 0 => a = pin
  BY <1>1, Refreshing DEF pin
<1>3. a \in Line /\ Access(a)
  <2>1. a \in Line
    BY <1>1, SetsAssumption DEF leaky_refresh_b4, C, K, Load, Index
  <2>2. QED
    BY <2>1 DEF RefreshStep, maccess, CtlInv, ChaseStaysOnLines
<1>4. /\ age[pin] \in Nat /\ age'[pin] \in Nat
      /\ age'[pin] <= age[pin] + 1
      /\ a = pin => age'[pin] = 0
  BY <1>3, AccessAge
<1>5. Anchored => age'[pin] <= pos % 4
  BY <1>1, <1>2, <1>4 DEF PinnedAge
<1>6. QED
  BY <1>1, <1>5 DEF PinnedAge, Anchored, InTimer

LEMMA StartPinned ==
  AnchorInv /\ (StartTimer \/ StartPass \/ EndPass \/ EndRefresh) => PinnedAge'
<1> SUFFICES ASSUME AnchorInv, StartTimer \/ StartPass \/ EndPass \/ EndRefresh
             PROVE  PinnedAge'
  OBVIOUS
<1> USE DEF AnchorInv
<1>1. age' = age /\ call' = call
  BY DEF StartTimer, StartPass, EndPass, EndRefresh, setVars
<1>2. CASE StartTimer
  BY <1>1, <1>2 DEF StartTimer, CtlInv, PinnedAge, Anchored, InTimer
<1>3. CASE StartPass
  <2>1. Anchored' => Anchored /\ Gap(call) \in {2, 3, 4}
    BY <1>1, <1>3, TraversalForm DEF StartPass, CtlInv, Anchored, InTimer
  <2>2. Anchored' => age[pin] = 0 /\ (pos' - 1) % Gap(call) = 0
    BY <1>3, <2>1 DEF StartPass, CtlInv, PinnedAge
  <2>3. QED
    BY <1>1, <1>3, <2>2 DEF StartPass, PinnedAge
<1>4. CASE EndPass
  <2>1. ASSUME Traversal(call) # simple_run
        PROVE  age[pin] = 0
    <3>1. /\ Gap(call) \in {2, 3, 4} /\ Len(Traversal(call)) \in Nat
          /\ Len(Traversal(call)) >= Gap(call)
          /\ Len(Traversal(call)) % Gap(call) = 0
      BY <2>1, TraversalForm
    <3>2. Anchored
      BY <1>4, <2>1, <3>1 DEF EndPass, Anchored, InTimer
    <3>3. age[pin] <= Len(Traversal(call)) % Gap(call)
      BY <1>4, <3>1, <3>2 DEF EndPass, PinnedAge
    <3>4. age[pin] \in Nat
      BY PinIsLine DEF SetInv, SetTypeOK, Old
    <3>5. QED
      BY <3>1, <3>3, <3>4
  <2>2. QED
    BY <1>1, <1>4, <2>1 DEF EndPass, PinnedAge, Anchored, InTimer
<1>5. CASE EndRefresh
  <2>1. Len(leaky_refresh_b4) = 16
    BY Refreshing
  <2>2. Anchored => age[pin] <= 16 % 4 /\ age[pin] \in Nat
    BY <1>5, <2>1, PinIsLine DEF EndRefresh, PinnedAge, SetInv, SetTypeOK, Old
  <2>3. Anchored' => Anchored
    BY <1>1, <1>5 DEF EndRefresh, Anchored, InTimer
  <2>4. QED
    BY <1>1, <1>5, <2>2, <2>3 DEF EndRefresh, PinnedAge
<1>6. QED
  BY <1>2, <1>3, <1>4, <1>5

LEMMA AnchorStep == AnchorInv /\ [Next]_vars => AnchorInv'
<1> SUFFICES ASSUME AnchorInv, [Next]_vars PROVE AnchorInv'
  OBVIOUS
<1>1. CtlInv'
  BY CtlStep DEF AnchorInv
<1>2. SetInv'
  <2>1. SetInv /\ [NextSet]_setVars => SetInv'
    BY AccessInv, FlushInv, StutterInv DEF NextSet
  <2>2. QED
    BY <2>1, StepRefines DEF AnchorInv
<1>3. CASE mwrite_v \/ EndSetUp \/ Refill \/ Return \/ \E x \in Foreign : OtherCode(x)
  BY <1>1, <1>2, <1>3
     DEF mwrite_v, EndSetUp, Refill, Return, OtherCode, callVars, PinnedAge, Anchored, InTimer, AnchorInv
<1>4. CASE Calling
  <2>1. PICK c : GoodCall(c) /\ Begin(c)
    BY <1>4 DEF Calling, leaky_run, showtime_reorder, showtime_llc_eviction, GoodCall
  <2>2. c.fn # "leaky_run" => Len(Preamble(c)) \in Nat \ {0}
    BY <2>1, PreambleForm, EmptySeq, LenProperties
  <2>3. QED
    BY <1>1, <1>2, <2>1, <2>2 DEF Begin, PinnedAge, Anchored, InTimer, AnchorInv
<1>5. CASE UNCHANGED vars
  BY <1>1, <1>2, <1>5 DEF vars, AnchorInv, PinnedAge, Anchored, InTimer
<1>6. QED
  BY <1>1, <1>2, <1>3, <1>4, <1>5, PreamblePinned, TraversePinned, RefreshPinned,
     StartPinned DEF Next, Running, AnchorInv

LEMMA AnchorInit == Init => AnchorInv
BY SetsAssumption, InitInv
   DEF Init, InitSet, AnchorInv, CtlInv, ChaseStaysOnLines, PinnedAge, Anchored, InTimer

LEMMA AnchorInvHolds == AnchorInv => AnchorHeld
<1> SUFFICES ASSUME AnchorInv, Anchored PROVE Resident(l1, pin)
  BY DEF AnchorHeld, pin
<1>1. Gap(call) \in {2, 3, 4}
  BY TraversalForm DEF Anchored
<1>2. age[pin] < Old
  BY <1>1, PinIsLine
     DEF AnchorInv, PinnedAge, CtlInv, SetInv, SetTypeOK, Old, Anchored, InTimer
<1>3. QED
  BY <1>2, PinIsLine DEF AnchorInv, SetInv, FewNodesToward, Resident

\* The pinned line is in the set whenever it has been loaded for the run.
THEOREM AnchorStays == Spec => []AnchorHeld
BY AnchorInit, AnchorInvHolds, AnchorStep, PTL DEF Spec

\* In particular it is never evicted from the timed loop of a showtime
\* function, nor from that of leaky_run after the first pass, whatever lines
\* coincide.  For the first pass of leaky_run see AnchorNeverLost.
THEOREM PinnedStays ==
  Spec => [](call.fn # "leaky_run" \/ rep > 0 => PinnedNeverEvicted)
<1>1. AnchorHeld => (call.fn # "leaky_run" \/ rep > 0 => PinnedNeverEvicted)
  BY DEF AnchorHeld, Anchored, PinnedNeverEvicted
<1>2. QED
  BY <1>1, AnchorStays, PTL

-----------------------------------------------------------------------------
\* The misses are counted per pass: one entry for each pass begun.
PassesInv ==
  /\ passes \in Seq(Nat)
  /\ Len(passes) = IF phase \in {"traverse", "refresh"} THEN rep + 1 ELSE rep

LEMMA PassesStep == CtlInv /\ PassesInv /\ [Next]_vars => PassesInv'
<1> SUFFICES ASSUME CtlInv, PassesInv, [Next]_vars PROVE PassesInv'
  OBVIOUS
<1>1. rep \in Nat
  BY DEF CtlInv
<1>2. CASE StartPass
  <2>1. passes' \in Seq(Nat) /\ Len(passes') = Len(passes) + 1
    BY <1>2, AppendProperties DEF StartPass, PassesInv
  <2>2. QED
    BY <1>2, <2>1 DEF StartPass, PassesInv
<1>3. CASE TraverseStep
  <2>1. rep + 1 \in 1..Len(passes) /\ passes[rep + 1] \in Nat
    BY <1>1, <1>3, ElementOfSeq DEF TraverseStep, PassesInv
  <2> DEFINE a == cacheSet[Traversal(call)[pos]]
             n == passes[rep + 1] + Misses(a)
  <2>2. n \in Nat
    BY <2>1 DEF Misses
  <2>3. passes' = [passes EXCEPT ![rep + 1] = n]
    BY <1>3 DEF TraverseStep
  <2> HIDE DEF n
  <2>4. passes' \in Seq(Nat) /\ Len(passes') = Len(passes)
    BY <2>1, <2>2, <2>3, ExceptSeq DEF PassesInv
  <2>5. QED
    BY <1>3, <2>4 DEF TraverseStep, PassesInv
<1>4. CASE Calling
  <2>1. PICK c : Begin(c)
    BY <1>4 DEF Calling, leaky_run, showtime_reorder, showtime_llc_eviction
  <2>2. passes' = <<>> /\ rep' = 0 /\ phase' = "preamble"
    BY <2>1 DEF Begin
  <2>3. QED
    BY <2>2, EmptySeq DEF PassesInv
<1>5. CASE EndPass \/ EndRefresh
  BY <1>1, <1>5 DEF EndPass, EndRefresh, PassesInv
<1>6. CASE PreambleStep \/ StartTimer \/ RefreshStep \/ Return
  BY <1>6 DEF PreambleStep, StartTimer, RefreshStep, Return, PassesInv
<1>7. CASE mwrite_v \/ EndSetUp \/ Refill
            \/ (\E x \in Foreign : OtherCode(x)) \/ UNCHANGED vars
  BY <1>7 DEF mwrite_v, EndSetUp, Refill, OtherCode, callVars, vars, PassesInv
<1>8. QED
  BY <1>2, <1>3, <1>4, <1>5, <1>6, <1>7 DEF Next, Running

\* Type correctness of Amplify.
THEOREM AmplifyTypeOK == Spec => []TypeOK
<1> DEFINE ZeroedType == zeroed \subseteq Address
<1>1. Init => PassesInv /\ ZeroedType
  BY EmptySeq DEF Init, PassesInv
<1>2. ASSUME CtlInv, ZeroedType, mwrite_v PROVE ZeroedType'
  <2>1. pos \in 1..19
    BY <1>2 DEF mwrite_v, CtlInv
  <2>2. QED
    BY <1>2, <2>1, WritesType DEF mwrite_v
<1>3. CtlInv /\ ZeroedType /\ [Next]_vars => ZeroedType'
  BY <1>2 DEF Next, EndSetUp, Refill, Calling, leaky_run, showtime_reorder,
     showtime_llc_eviction, Begin, Running, PreambleStep, StartTimer, StartPass,
     TraverseStep, EndPass, RefreshStep, EndRefresh, Return, OtherCode, vars
<1>4. CtlInv /\ SetInv /\ PassesInv /\ ZeroedType => TypeOK
  BY DEF CtlInv, SetInv, PassesInv, TypeOK, ChaseStaysOnLines
<1>5. Spec => []SetInv
  BY AmplifyImplementsSet, SetInvariant, PTL
<1>6. QED
  BY <1>1, <1>3, <1>4, <1>5, PassesStep, ControlInvariant, PTL DEF Spec

-----------------------------------------------------------------------------
\* A load that hits replaces no line.
LEMMA HitKeepsLines ==
  ASSUME NEW s \in CacheSet, NEW x \in Line, Resident(s, x), NEW r \in Loaded(s, x)
  PROVE  \A y : Resident(s, y) => Resident(r, y)
<1>1. PICK w \in Holders(s, x) : r = [s EXCEPT !.tree = Touch(s.tree, w)]
  BY DEF Loaded
<1>2. r.way = s.way
  BY <1>1 DEF CacheSet
<1>3. QED
  BY <1>2 DEF Resident

\* A baseline without refreshes, and what it needs from the end of
\* prepare_PLRU_state on: all of cacheSet is in, and stays in.
Baseline == Undisturbed(call) /\ call.refresh = 0

Warm ==
  \/ phase = "preamble" /\ pos > Prepared(call)
  \/ phase \in {"timed", "traverse"}

AllIn == \A i \in Index : Resident(l1, cacheSet[i])

BaselineInv ==
  Baseline => /\ phase # "refresh"
              /\ Warm => AllIn
              /\ \A k \in DOMAIN passes : passes[k] = 0

LEMMA HitStep ==
  ASSUME CtlInv, SetInv, phase # "setup", AllIn, NEW i \in Index, maccess(cacheSet[i])
  PROVE  AllIn'
<1>1. cacheSet[i] \in Line /\ cacheSet[i] \in Zeroed /\ l1 \in CacheSet
  BY SetsAssumption DEF Zeroed, SetInv, SetTypeOK
<1>2. l1' \in Loaded(l1, cacheSet[i])
  BY <1>1, LoadsZero DEF Access
<1>3. QED
  BY <1>1, <1>2, HitKeepsLines DEF AllIn

LEMMA BaselinePreamble ==
  ASSUME NEW c, NEW i \in Index, c.fn = "leaky_run", c.arg = cacheSet[i]
  PROVE  /\ Prepared(c) = 17
         /\ Len(Preamble(c)) = 17
         /\ Preamble(c)[17] = Load(cacheSet[i])
<1> DEFINE P == prepare_PLRU_state
           L == <<Load(cacheSet[i])>>
<1>1. Preamble(c) = P \o L
  BY DEF Preamble
<1>2. L \in Seq(Instr) /\ Len(L) = 1 /\ L[1] = Load(cacheSet[i])
  BY DEF Instr, Load, Zeroed
<1>3. P \in Seq(Instr) /\ Len(P) = 16
  BY PrepareForm, LenProperties DEF prepare_PLRU_state
<1> HIDE DEF P, L
<1>4. Len(P \o L) = 17 /\ (P \o L)[17] = L[1]
  <2>1. /\ Len(P) + Len(L) = 17 /\ 17 \in 1..Len(P) + Len(L)
        /\ ~(17 <= Len(P)) /\ 17 - Len(P) = 1
    BY <1>2, <1>3
  <2>2. /\ Len(P \o L) = Len(P) + Len(L)
        /\ \A k \in 1..Len(P) + Len(L) :
             (P \o L)[k] = IF k <= Len(P) THEN P[k] ELSE L[k - Len(P)]
    BY <1>2, <1>3, ConcatProperties
  <2>3. (P \o L)[17] = L[17 - Len(P)]
    BY <2>1, <2>2
  <2>4. QED
    BY <2>1, <2>2, <2>3
<1>5. QED
  BY <1>1, <1>2, <1>4 DEF Prepared

LEMMA BaselineStep ==
  ASSUME CtlInv, SetInv, PassesInv, PrepareFillsSet, BaselineInv, [Next]_vars
  PROVE  BaselineInv'
<1>1. CASE PreambleStep
  <2> SUFFICES ASSUME Baseline PROVE BaselineInv'
    BY <1>1 DEF PreambleStep, BaselineInv, Baseline, Undisturbed
  <2>1. /\ phase = "preamble" /\ phase' = phase /\ call' = call /\ passes' = passes
        /\ pos' = pos + 1 /\ pos \in Nat /\ pos <= Len(Preamble(call))
    BY <1>1 DEF PreambleStep, CtlInv
  <2>2. call.fn = "leaky_run" /\ Prepared(call) = 17
    BY DEF Baseline, Undisturbed, Prepared
  <2>3. PICK i \in Index : call.arg = cacheSet[i]
    BY DEF Baseline, Undisturbed
  <2>4. Len(Preamble(call)) = 17 /\ Preamble(call)[17] = Load(cacheSet[i])
    BY <2>2, <2>3, BaselinePreamble
  <2>5. CASE pos < 17
    BY <2>1, <2>2, <2>5 DEF BaselineInv, Warm
  <2>6. CASE pos = 17
    <3>1. AllIn
      BY <2>1, <2>2, <2>6 DEF PrepareFillsSet, AllIn
    <3>2. maccess(cacheSet[i])
      BY <1>1, <2>4, <2>6 DEF PreambleStep, Load
    <3>3. AllIn'
      BY <2>1, <3>1, <3>2, HitStep
    <3>4. QED
      BY <2>1, <3>3 DEF BaselineInv
  <2>7. QED
    BY <2>1, <2>4, <2>5, <2>6
<1>2. CASE TraverseStep
  <2> SUFFICES ASSUME Baseline PROVE BaselineInv'
    BY <1>2 DEF TraverseStep, BaselineInv, Baseline, Undisturbed
  <2> DEFINE i == Traversal(call)[pos]
  <2>1. i \in Index
    BY <1>2, TraversalIndex DEF TraverseStep, CtlInv
  <2>2. AllIn /\ \A k \in DOMAIN passes : passes[k] = 0
    BY <1>2 DEF TraverseStep, BaselineInv, Warm
  <2>3. AllIn'
    BY <1>2, <2>1, <2>2, HitStep DEF TraverseStep
  <2>4. Misses(cacheSet[i]) = 0
    BY <2>1, <2>2 DEF AllIn, Misses
  <2>5. passes' = [passes EXCEPT ![rep + 1] = @ + 0]
    BY <1>2, <2>4 DEF TraverseStep
  <2>6. \A k \in DOMAIN passes' : passes'[k] = 0
    BY <2>2, <2>5
  <2>7. QED
    BY <1>2, <2>3, <2>6 DEF TraverseStep, BaselineInv
<1>3. CASE StartPass
  <2>1. passes' = Append(passes, 0) /\ passes \in Seq(Nat)
    BY <1>3 DEF StartPass, PassesInv
  <2>2. (\A k \in DOMAIN passes : passes[k] = 0) => \A k \in DOMAIN passes' : passes'[k] = 0
    BY <2>1, AppendProperties
  <2>3. QED
    BY <1>3, <2>2 DEF StartPass, BaselineInv, Baseline, Undisturbed, Warm, AllIn, setVars
<1>4. CASE StartTimer
  <2> SUFFICES ASSUME Baseline PROVE BaselineInv'
    BY <1>4 DEF StartTimer, BaselineInv, Baseline, Undisturbed
  <2>1. Len(Preamble(call)) = 17 /\ Prepared(call) = 17
    BY BaselinePreamble DEF Baseline, Undisturbed
  <2>2. QED
    BY <1>4, <2>1 DEF StartTimer, BaselineInv, Warm, AllIn, setVars
<1>5. CASE EndPass
  BY <1>5 DEF EndPass, RefreshDue, BaselineInv, Baseline, Undisturbed, Warm, AllIn, setVars
<1>6. CASE Calling
  <2>1. PICK c : Begin(c)
    BY <1>6 DEF Calling, leaky_run, showtime_reorder, showtime_llc_eviction
  <2>2. phase' = "preamble" /\ pos' = 1 /\ passes' = <<>>
    BY <2>1 DEF Begin
  <2>3. Baseline' => Prepared(call)' = 17
    BY DEF Baseline, Undisturbed, Prepared
  <2>4. QED
    BY <2>2, <2>3 DEF BaselineInv, Warm
<1>7. CASE RefreshStep \/ EndRefresh
  BY <1>7 DEF RefreshStep, EndRefresh, BaselineInv, Baseline, Undisturbed
<1>8. CASE Return \/ mwrite_v \/ EndSetUp \/ Refill \/ \E x \in Foreign : OtherCode(x)
  BY <1>8 DEF Return, mwrite_v, EndSetUp, Refill, OtherCode, callVars, BaselineInv, Baseline,
     Undisturbed, Warm
<1>9. CASE UNCHANGED vars
  BY <1>9 DEF vars, BaselineInv, Baseline, Undisturbed, Warm, AllIn, Prepared
<1>10. QED
  BY <1>1, <1>2, <1>3, <1>4, <1>5, <1>6, <1>7, <1>8, <1>9 DEF Next, Running

\* Where prepare_PLRU_state has brought the whole cacheSet in, a baseline
\* without refreshes never misses, however many passes it makes: its timed
\* loop and the load before it only hit, and a hit replaces no line.
THEOREM BaselineFromPrepared ==
  Spec /\ []PrepareFillsSet => [](call.refresh = 0 => BaselineNeverMisses)
<1>1. Init => BaselineInv
  BY DEF Init, NoCall, BaselineInv, Baseline, Undisturbed
<1>2. CtlInv /\ SetInv /\ PassesInv /\ PrepareFillsSet /\ BaselineInv /\ [Next]_vars
        => BaselineInv'
  BY BaselineStep
<1>3. Init => PassesInv
  BY EmptySeq DEF Init, PassesInv
<1>4. BaselineInv => (call.refresh = 0 => BaselineNeverMisses)
  BY DEF BaselineInv, Baseline, BaselineNeverMisses
<1>5. Spec => []SetInv
  BY AmplifyImplementsSet, SetInvariant, PTL
<1>6. QED
  BY <1>1, <1>2, <1>3, <1>4, <1>5, PassesStep, ControlInvariant, PTL DEF Spec

-----------------------------------------------------------------------------
(* Where the lines lie. *)

\* The preambles, position by position.
AfterPrepare(c) ==
  CASE c.fn = "leaky_run" -> <<Load(c.arg)>>
    [] c.fn = "showtime_reorder" ->
         IF c.arg = 1 THEN <<K(0), C(4), C(5), C(7), C(4)>>
                      ELSE <<C(4), K(0), C(5), C(7), C(4)>>
    [] OTHER ->
         IF c.at7 = 3
         THEN <<Load(llc_candidate), C(6), C(7), Load(l1b_element), C(5), C(7), C(4)>>
         ELSE IF c.at7 = 2
         THEN <<Load(llc_candidate), C(7), C(6), Load(l1b_element), C(5), C(7), C(4)>>
         ELSE <<C(7), Load(llc_candidate), C(6), Load(l1b_element), C(5), C(7), C(4)>>

\* Where the steps of two sequences end up in their concatenation.
LEMMA ConcatAt ==
  ASSUME NEW s \in Seq(Instr), NEW t \in Seq(Instr)
  PROVE  LET w == s \o t
         IN  /\ w \in Seq(Instr)
             /\ Len(w) = Len(s) + Len(t)
             /\ Len(s) \in Nat /\ Len(t) \in Nat
             /\ \A k \in 1..Len(s) : w[k] = s[k]
             /\ \A k \in 1..Len(t) : w[Len(s) + k] = t[k]
<1>0. PICK w : w = s \o t
  OBVIOUS
<1>1. /\ w \in Seq(Instr)
      /\ Len(w) = Len(s) + Len(t)
      /\ \A i \in 1..(Len(s) + Len(t)) :
           w[i] = IF i <= Len(s) THEN s[i] ELSE t[i - Len(s)]
  BY <1>0, ConcatProperties
<1>2. Len(s) \in Nat /\ Len(t) \in Nat
  OBVIOUS
<1>3. ASSUME NEW k \in 1..Len(t)
      PROVE  w[Len(s) + k] = t[k]
  <2>1. Len(s) + k \in 1..(Len(s) + Len(t)) /\ ~(Len(s) + k <= Len(s)) /\ (Len(s) + k) - Len(s) = k
    BY <1>2
  <2>2. QED
    BY <1>1, <2>1
<1>4. \A k \in 1..Len(s) : k \in 1..(Len(s) + Len(t)) /\ k <= Len(s)
  BY <1>2
<1>5. QED
  BY <1>0, <1>1, <1>2, <1>3, <1>4, Zenon

\* prepare_PLRU_state, step by step.
LEMMA PrepareAt ==
  /\ prepare_PLRU_state \in Seq(Instr) /\ Len(prepare_PLRU_state) = 16
  /\ \A k \in 1..8 : prepare_PLRU_state[k] = K(k - 1)
  /\ \A k \in 9..16 : prepare_PLRU_state[k] = C(k - 9)
<1>1. prepare_PLRU_state \in Seq(Instr)
  BY PrepareForm
<1>2. Len(prepare_PLRU_state) = 16
  BY <1>1, LenProperties DEF prepare_PLRU_state
<1>3. QED
  BY <1>1, <1>2 DEF prepare_PLRU_state

\* h \o prepare_PLRU_state \o t.
LEMMA AroundPrepare ==
  ASSUME NEW h \in Seq(Instr), NEW t \in Seq(Instr)
  PROVE  LET w == h \o prepare_PLRU_state \o t
         IN  /\ Len(w) = Len(h) + 16 + Len(t)
             /\ \A k \in 1..Len(h) : w[k] = h[k]
             /\ \A k \in 1..8 : w[Len(h) + k] = K(k - 1)
             /\ \A k \in 9..16 : w[Len(h) + k] = C(k - 9)
             /\ \A n \in 1..Len(t) : w[Len(h) + 16 + n] = t[n]
<1>1. PICK P : P = prepare_PLRU_state
  OBVIOUS
<1>2. PICK u : u = h \o P
  OBVIOUS
<1>3. /\ P \in Seq(Instr) /\ Len(P) = 16
      /\ \A k \in 1..8 : P[k] = K(k - 1)
      /\ \A k \in 9..16 : P[k] = C(k - 9)
  BY <1>1, PrepareAt
<1>4. /\ u \in Seq(Instr) /\ Len(u) = Len(h) + Len(P) /\ Len(h) \in Nat
      /\ \A k \in 1..Len(h) : u[k] = h[k]
      /\ \A k \in 1..Len(P) : u[Len(h) + k] = P[k]
  BY <1>2, <1>3, ConcatAt, Zenon
<1>0. PICK w : w = u \o t
  OBVIOUS
<1>5. /\ Len(w) = Len(u) + Len(t) /\ Len(t) \in Nat
      /\ \A k \in 1..Len(u) : w[k] = u[k]
      /\ \A k \in 1..Len(t) : w[Len(u) + k] = t[k]
  BY <1>0, <1>4, ConcatAt, Zenon
<1>6. \A k \in 1..16 : w[Len(h) + k] = P[k]
  <2>1. \A k \in 1..16 : Len(h) + k \in 1..Len(u)
    BY <1>3, <1>4
  <2>2. QED
    BY <1>3, <1>4, <1>5, <2>1
<1>7. \A k \in 1..Len(h) : w[k] = h[k]
  <2>1. \A k \in 1..Len(h) : k \in 1..Len(u)
    BY <1>3, <1>4
  <2>2. QED
    BY <1>4, <1>5, <2>1
<1>8. Len(u) = Len(h) + 16
  BY <1>3, <1>4
<1>9. /\ Len(w) = Len(h) + 16 + Len(t)
      /\ \A k \in 1..8 : w[Len(h) + k] = K(k - 1)
      /\ \A k \in 9..16 : w[Len(h) + k] = C(k - 9)
      /\ \A n \in 1..Len(t) : w[Len(h) + 16 + n] = t[n]
  <2>1. Len(w) = Len(h) + 16 + Len(t)
    BY <1>5, <1>8
  <2>3. \A k \in 1..8 : w[Len(h) + k] = K(k - 1)
    <3>1. \A k \in 1..8 : k \in 1..16
      OBVIOUS
    <3>2. QED
      BY <1>3, <1>6, <3>1, Zenon
  <2>4. \A k \in 9..16 : w[Len(h) + k] = C(k - 9)
    <3>1. \A k \in 9..16 : k \in 1..16
      OBVIOUS
    <3>2. QED
      BY <1>3, <1>6, <3>1, Zenon
  <2>5. \A n \in 1..Len(t) : w[Len(h) + 16 + n] = t[n]
    BY <1>5, <1>8
  <2>6. QED
    BY <2>1, <2>3, <2>4, <2>5, Zenon
<1>10. w = h \o prepare_PLRU_state \o t
  BY <1>0, <1>1, <1>2, Zenon
<1>11. QED
  BY <1>7, <1>9, <1>10, Zenon

LEMMA ConcatGrouped ==
  ASSUME NEW s \in Seq(Instr), NEW t \in Seq(Instr), NEW u \in Seq(Instr)
  PROVE  (s \o t) \o u = s \o (t \o u)
BY ConcatAssociative

LEMMA Regrouped ==
  ASSUME NEW x \in Seq(Instr), NEW g \in Seq(Instr), NEW b \in Seq(Instr), NEW a \in Seq(Instr)
  PROVE  x \o g \o b \o a = x \o (g \o b \o a)
<1>1. PICK u : u = g \o b
  OBVIOUS
<1>2. u \in Seq(Instr)
  BY <1>1, ConcatAt, Zenon
<1>3. x \o g \o b = x \o u
  BY <1>1, ConcatGrouped, Zenon
<1>4. x \o u \o a = x \o (u \o a)
  BY <1>2, ConcatGrouped, Zenon
<1>5. QED
  BY <1>1, <1>3, <1>4, Zenon

\* What comes before prepare_PLRU_state.
BeforePrepare(c) ==
  IF c.fn # "showtime_llc_eviction" THEN <<>>
  ELSE IF c.arg = 1 THEN <<Load(llc_candidate), Clflush(llc_candidate)>>
  ELSE <<Load(llc_candidate)>>

LEMMA PreambleParts ==
  ASSUME NEW c, GoodCall(c)
  PROVE  /\ BeforePrepare(c) \in Seq(Instr) /\ AfterPrepare(c) \in Seq(Instr)
         /\ Preamble(c) = BeforePrepare(c) \o prepare_PLRU_state \o AfterPrepare(c)
<1>1. BeforePrepare(c) \in Seq(Instr)
  BY InstrSets DEF BeforePrepare
<1>2. CASE c.fn = "leaky_run"
  <2>1. BeforePrepare(c) = <<>> /\ AfterPrepare(c) = <<Load(c.arg)>>
    BY <1>2 DEF BeforePrepare, AfterPrepare
  <2>2. Load(c.arg) \in Instr
    BY <1>2, InstrSets DEF GoodCall
  <2>3. AfterPrepare(c) \in Seq(Instr)
    BY <2>1, <2>2
  <2>4. <<>> \o prepare_PLRU_state = prepare_PLRU_state
    BY PrepareAt
  <2>5. Preamble(c) = prepare_PLRU_state \o <<Load(c.arg)>>
    BY <1>2 DEF Preamble
  <2>6. QED
    BY <1>1, <2>1, <2>3, <2>4, <2>5, Zenon
<1>3. CASE c.fn = "showtime_reorder"
  <2>1. PICK r : r = IF c.arg = 1 THEN <<K(0), C(4)>> ELSE <<C(4), K(0)>>
    OBVIOUS
  <2>2. r \in Seq(Instr) /\ AdaptorPattern \in Seq(Instr)
    BY <2>1, InstrSets DEF AdaptorPattern, Index
  <2>3. AfterPrepare(c) = r \o AdaptorPattern
    BY <1>3, <2>1 DEF AfterPrepare, AdaptorPattern
  <2>4. Preamble(c) = prepare_PLRU_state \o r \o AdaptorPattern
    BY <1>3, <2>1 DEF Preamble
  <2>5. BeforePrepare(c) = <<>>
    BY <1>3 DEF BeforePrepare
  <2>6. <<>> \o prepare_PLRU_state = prepare_PLRU_state
    BY PrepareAt
  <2>7. prepare_PLRU_state \in Seq(Instr)
    BY PrepareAt
  <2>8. /\ (prepare_PLRU_state \o r) \o AdaptorPattern
             = prepare_PLRU_state \o (r \o AdaptorPattern)
        /\ r \o AdaptorPattern \in Seq(Instr)
    BY <2>2, <2>7, ConcatGrouped, ConcatAt, Zenon
  <2>9. QED
    BY <1>1, <2>3, <2>4, <2>5, <2>6, <2>8, Zenon
<1>4. CASE c.fn = "showtime_llc_eviction"
  <2>1. PICK f : f = IF c.arg = 1 THEN <<Clflush(llc_candidate)>> ELSE <<>>
    OBVIOUS
  <2>2. PICK g : g = LlcRace(c.at7)
    OBVIOUS
  <2>3. PICK b : b = <<Load(l1b_element)>>
    OBVIOUS
  <2>4. /\ g \in Seq(Instr) /\ b \in Seq(Instr) /\ AdaptorPattern \in Seq(Instr)
    BY <2>2, <2>3, InstrSets DEF AdaptorPattern, LlcRace, Index
  <2>5. AfterPrepare(c) = g \o b \o AdaptorPattern
    BY <1>4, <2>2, <2>3 DEF AfterPrepare, AdaptorPattern, LlcRace
  <2>6. BeforePrepare(c) = <<Load(llc_candidate)>> \o f
    <3>1. CASE c.arg = 1
      BY <1>4, <2>1, <3>1 DEF BeforePrepare
    <3>2. CASE c.arg # 1
      <4>1. <<Load(llc_candidate)>> \in Seq(Instr)
        BY InstrSets
      <4>2. <<Load(llc_candidate)>> \o <<>> = <<Load(llc_candidate)>>
        BY <4>1
      <4>3. f = <<>> /\ BeforePrepare(c) = <<Load(llc_candidate)>>
        BY <1>4, <2>1, <3>2, Zenon DEF BeforePrepare
      <4>4. QED
        BY <4>2, <4>3, Zenon
    <3>3. QED
      BY <3>1, <3>2
  <2>7. Preamble(c) = <<Load(llc_candidate)>> \o f \o prepare_PLRU_state \o g \o b \o AdaptorPattern
    BY <1>4, <2>1, <2>2, <2>3 DEF Preamble
  <2>8. PICK u : u = BeforePrepare(c) \o prepare_PLRU_state
    OBVIOUS
  <2>9. u \in Seq(Instr)
    BY <1>1, <2>8, PrepareAt, ConcatAt, Zenon
  <2>10. PICK v : v = g \o b
    OBVIOUS
  <2>11. v \in Seq(Instr) /\ v \o AdaptorPattern \in Seq(Instr)
    BY <2>4, <2>10, ConcatAt, Zenon
  <2>12. Preamble(c) = u \o (g \o b \o AdaptorPattern)
    <3>1. Preamble(c) = u \o g \o b \o AdaptorPattern
      BY <2>6, <2>7, <2>8, Zenon
    <3>2. u \o g \o b \o AdaptorPattern = u \o (g \o b \o AdaptorPattern)
      <4>1. PICK a : a = AdaptorPattern
        OBVIOUS
      <4>2. u \in Seq(Instr) /\ g \in Seq(Instr) /\ b \in Seq(Instr) /\ a \in Seq(Instr)
        BY <2>4, <2>9, <4>1, Zenon
      <4>3. u \o g \o b \o a = u \o (g \o b \o a)
        BY <4>2, Regrouped, SMTT(30)
      <4>4. QED
        BY <4>1, <4>3, Zenon
    <3>3. QED
      BY <3>1, <3>2, Zenon
  <2>13. QED
    BY <1>1, <2>5, <2>8, <2>10, <2>11, <2>12, Zenon
<1>5. QED
  BY <1>2, <1>3, <1>4, Zenon DEF GoodCall

\* The steps of a preamble around prepare_PLRU_state.
LEMMA PreambleAt ==
  ASSUME NEW c, GoodCall(c)
  PROVE  LET w == Preamble(c)
             o == Before(c)
         IN  /\ o = IF c.fn = "showtime_llc_eviction" THEN 1 + c.arg ELSE 0
             /\ o \in 0..2
             /\ Len(w) = o + 16 + Len(AfterPrepare(c))
             /\ \A k \in 1..8 : w[o + k] = K(k - 1)
             /\ \A k \in 9..16 : w[o + k] = C(k - 9)
             /\ \A n \in 1..Len(AfterPrepare(c)) : w[o + 16 + n] = AfterPrepare(c)[n]
             /\ o > 0 => w[1] = Load(llc_candidate)
             /\ o = 2 => w[2] = Clflush(llc_candidate)
<1>1. PICK h : h = BeforePrepare(c)
  OBVIOUS
<1>2. PICK t : t = AfterPrepare(c)
  OBVIOUS
<1>3. PICK w : w = Preamble(c)
  OBVIOUS
<1>4. h \in Seq(Instr) /\ t \in Seq(Instr) /\ w = h \o prepare_PLRU_state \o t
  BY <1>1, <1>2, <1>3, PreambleParts, Zenon
<1>5. /\ Len(w) = Len(h) + 16 + Len(t)
      /\ \A k \in 1..Len(h) : w[k] = h[k]
      /\ \A k \in 1..8 : w[Len(h) + k] = K(k - 1)
      /\ \A k \in 9..16 : w[Len(h) + k] = C(k - 9)
      /\ \A n \in 1..Len(t) : w[Len(h) + 16 + n] = t[n]
  BY <1>4, AroundPrepare, Zenon
<1>6. PICK o : o = Before(c)
  OBVIOUS
<1>7. /\ o = IF c.fn = "showtime_llc_eviction" THEN 1 + c.arg ELSE 0
      /\ o \in 0..2
  BY <1>6 DEF Before, Prepared, GoodCall
<1>8. /\ o = Len(h)
      /\ o > 0 => h[1] = Load(llc_candidate)
      /\ o = 2 => h[2] = Clflush(llc_candidate)
  BY <1>1, <1>7 DEF BeforePrepare, GoodCall
<1>9. (o > 0 => w[1] = Load(llc_candidate)) /\ (o = 2 => w[2] = Clflush(llc_candidate))
  <2>1. (o > 0 => 1 \in 1..Len(h)) /\ (o = 2 => 2 \in 1..Len(h))
    BY <1>7, <1>8
  <2>2. QED
    BY <1>5, <1>8, <2>1, Zenon
<1>10. QED
  BY <1>2, <1>3, <1>5, <1>6, <1>7, <1>8, <1>9, Zenon

\* A load of an address that the callers set to 0 is a load of the set, or
\* passes it by.
LEMMA LoadFacts ==
  ASSUME CtlInv, SetInv, phase # "setup", NEW a \in Zeroed, maccess(a)
  PROVE  /\ l1 \in CacheSet
         /\ a \in Line => l1' \in Loaded(l1, a)
         /\ a \notin Line => l1' = l1
BY LoadsZero DEF Access, maccess, setVars, SetInv, SetTypeOK

\* The lines of cacheSet are lines that were set to 0.
LEMMA CalledLine ==
  ASSUME NEW i \in Index
  PROVE  /\ cacheSet[i] \in Line /\ cacheSet[i] \in Zeroed
         /\ clearSet[i] \in Line /\ clearSet[i] \in Zeroed
         /\ evictor \in Line /\ {evictor, llc_candidate, l1b_element} \subseteq Zeroed
BY SetsAssumption DEF Zeroed

-----------------------------------------------------------------------------
\* No step holds a line twice.
LEMMA OnceStep ==
  ASSUME SetInv, HeldOnce(l1), [Next]_vars
  PROVE  HeldOnce(l1')
<1>1. l1 \in CacheSet
  BY DEF SetInv, SetTypeOK
<1>2. CASE \E x \in Line : Access(x)
  BY <1>1, <1>2, OnceKept DEF Access
<1>3. CASE \E x \in Line : Flush(x)
  BY <1>1, <1>3, OnceFlushed DEF Flush
<1>4. CASE UNCHANGED setVars
  BY <1>4 DEF setVars
<1>5. QED
  BY <1>2, <1>3, <1>4, StepRefines DEF NextSet

\* The two arrays of eight lines.
LEMMA BothArrays ==
  ASSUME LinesApart
  PROVE  /\ cacheSet \in [0..7 -> Line] /\ \A i, j \in 0..7 : cacheSet[i] = cacheSet[j] => i = j
         /\ clearSet \in [0..7 -> Line] /\ \A i, j \in 0..7 : clearSet[i] = clearSet[j] => i = j
         /\ \A i, j \in 0..7 : cacheSet[i] # clearSet[j]
BY SetsAssumption DEF LinesApart, Index

\* When the lines of clearSet are all in, those of cacheSet are all out.
LEMMA FillSwap ==
  ASSUME LinesApart, NEW s \in CacheSet, Filling(s, clearSet, 8)
  PROVE  Filling(s, cacheSet, 0)
<1>1. Full(s) /\ \A y : Resident(s, y) => \E i \in 0..7 : y = clearSet[i]
  BY BothArrays, FilledLines
<1>2. \A i \in 0..7 : ~Resident(s, cacheSet[i])
  BY <1>1, BothArrays
<1>3. \A n \in Seats : At(s, n) # NoLine
  BY <1>1, FullSeat
<1>4. QED
  BY <1>1, <1>2, <1>3 DEF Filling

\* Between two runs the lines of clearSet can be loaded one by one.
LEMMA IdleFills ==
  ASSUME NEW s \in CacheSet, Full(s), \A i \in 1..7 : ~Resident(s, clearSet[i])
  PROVE  Filling(s, clearSet, 0)
<1>1. \A n \in Seats : At(s, n) # NoLine
  BY FullSeat
<1>2. QED
  BY <1>1 DEF Filling

\* A load of another line brings in none of the lines that are out.
LEMMA StaysOut ==
  ASSUME NEW s \in CacheSet, NEW x \in Line, NEW r \in Loaded(s, x), Full(s),
         \A i \in 1..7 : ~Resident(s, clearSet[i]), \A i \in 1..7 : clearSet[i] # x
  PROVE  Full(r) /\ \A i \in 1..7 : ~Resident(r, clearSet[i])
BY FullKept, OnlyComes

\* The writes of a driver, and the loads of other code.
LEMMA SetUpStep ==
  ASSUME LinesApart, SetInv, CtlInv, HeldOnce(l1), SetUpPlace, mwrite_v
  PROVE  SetUpPlace'
<1>1. l1 \in CacheSet /\ pos \in Nat \ {0} /\ pos' = pos + 1 /\ phase = "setup" /\ pos <= 19
  BY DEF SetInv, SetTypeOK, CtlInv, mwrite_v
<1>2. ASSUME NEW a, Writes[pos] = a
      PROVE  IF a \in Line THEN l1' \in Loaded(l1, a) ELSE l1' = l1
  BY <1>2 DEF mwrite_v, Access, setVars
<1>3. CASE pos \in 1..8
  <2>1. Writes[pos] = clearSet[pos - 1] /\ pos - 1 \in 0..7
    BY <1>3 DEF Writes
  <2>2. l1' \in Loaded(l1, clearSet[pos - 1])
    BY <1>2, <2>1, BothArrays
  <2>3. Filling(l1, clearSet, pos - 1)
    BY <1>1, <1>3 DEF SetUpPlace
  <2>4. Filling(l1', clearSet, (pos - 1) + 1)
    BY <1>1, <2>1, <2>2, <2>3, BothArrays, FillStep
  <2>5. (pos - 1) + 1 = pos' - 1
    BY <1>1
  <2>6. l1' \in CacheSet
    BY <1>1, <2>1, <2>2, BothArrays, LoadedType
  <2>7. pos' = 9 => Filling(l1', cacheSet, 0)
    <3>1. pos' = 9 => Filling(l1', clearSet, 8)
      BY <2>4, <2>5
    <3>2. QED
      BY <2>6, <3>1, FillSwap
  <2>8. pos' \in 2..9
    BY <1>1, <1>3
  <2>9. QED
    BY <2>4, <2>5, <2>7, <2>8 DEF SetUpPlace
<1>4. CASE pos \in 9..16
  <2>1. Writes[pos] = cacheSet[pos - 9] /\ pos - 9 \in 0..7
    BY <1>4 DEF Writes
  <2>2. l1' \in Loaded(l1, cacheSet[pos - 9])
    BY <1>2, <2>1, BothArrays
  <2>3. Filling(l1, cacheSet, pos - 9)
    BY <1>1, <1>4 DEF SetUpPlace
  <2>4. Filling(l1', cacheSet, (pos - 9) + 1)
    BY <1>1, <2>1, <2>2, <2>3, BothArrays, FillStep
  <2>5. (pos - 9) + 1 = pos' - 9 /\ pos' \in 10..17
    BY <1>1, <1>4
  <2>6. QED
    BY <2>4, <2>5 DEF SetUpPlace
<1>5. CASE pos = 17
  <2>1. Writes[pos] = evictor
    BY <1>5 DEF Writes
  <2>2. l1' \in Loaded(l1, evictor) /\ evictor \in Line
    BY <1>2, <2>1, SetsAssumption
  <2>3. Filling(l1, cacheSet, 8)
    BY <1>1, <1>5 DEF SetUpPlace
  <2>4. Full(l1) /\ \A y : Resident(l1, y) => \E i \in 0..7 : y = cacheSet[i]
    BY <1>1, <2>3, BothArrays, FilledLines
  <2>5. \A i \in 0..7 : ~Resident(l1, clearSet[i])
    BY <2>4, BothArrays
  <2>6. Full(l1') /\ \A i \in 1..7 : ~Resident(l1', clearSet[i])
    <3>1. /\ \A i \in 1..7 : clearSet[i] # evictor
          /\ \A i \in 1..7 : i \in 0..7
      BY DEF LinesApart
    <3>2. QED
      BY <1>1, <2>5, <2>2, <2>4, <3>1, StaysOut
  <2>7. llc_candidate \in Line => ~Resident(l1', clearSet[0])
    <3>1. llc_candidate \in Line => clearSet[0] # evictor
      BY DEF LinesApart
    <3>2. QED
      BY <1>1, <2>2, <2>5, <3>1, OnlyComes
  <2>8. Idle(l1')
    <3>1. l1' \in CacheSet
      BY <1>1, <2>2, LoadedType
    <3>2. QED
      BY <2>6, <2>7, <3>1, ResidentSeat DEF Idle
  <2>9. QED
    BY <1>1, <1>5, <2>7, <2>8 DEF SetUpPlace
<1>6. CASE pos \in {18, 19}
  <2>1. PICK a \in {llc_candidate, l1b_element} : Writes[pos] = a
    BY <1>6 DEF Writes
  <2>2. Idle(l1) /\ (llc_candidate \in Line => ~Resident(l1, clearSet[0]))
    BY <1>1, <1>6 DEF SetUpPlace
  <2>3. CASE a \notin Line
    BY <1>1, <1>2, <1>6, <2>1, <2>2, <2>3 DEF SetUpPlace
  <2>4. CASE a \in Line
    <3>1. l1' \in Loaded(l1, a)
      BY <1>2, <2>1, <2>4
    <3>2. Full(l1') /\ \A i \in 1..7 : ~Resident(l1', clearSet[i])
      <4>1. /\ \A i \in 1..7 : ~Resident(l1, clearSet[i])
            /\ \A i \in 1..7 : clearSet[i] # a
        BY <2>1, <2>2 DEF LinesApart, Idle
      <4>2. QED
        BY <1>1, <2>2, <2>4, <3>1, <4>1, StaysOut DEF Idle
    <3>3. llc_candidate \in Line => ~Resident(l1', clearSet[0])
      <4>1. llc_candidate \in Line => clearSet[0] # a
        BY <2>1 DEF LinesApart
      <4>2. QED
        BY <1>1, <2>2, <2>4, <3>1, <4>1, OnlyComes
    <3>4. l1' \in CacheSet
      BY <1>1, <2>4, <3>1, LoadedType
    <3>5. Idle(l1')
      BY <3>2, <3>3, <3>4, ResidentSeat DEF Idle
    <3>6. QED
      BY <1>1, <1>6, <3>3, <3>5 DEF SetUpPlace
  <2>5. QED
    BY <2>3, <2>4
<1>7. QED
  BY <1>1, <1>3, <1>4, <1>5, <1>6

LEMMA OtherIdle ==
  ASSUME LinesApart, SetInv, IdlePlace, NEW x \in Foreign, OtherCode(x)
  PROVE  IdlePlace'
<1>1. /\ l1 \in CacheSet /\ x \in Line /\ l1' \in Loaded(l1, x) /\ Idle(l1)
  BY SetsAssumption DEF OtherCode, Access, SetInv, SetTypeOK, IdlePlace
<1>2. llc_candidate \notin Line /\ \A i \in 1..7 : clearSet[i] # x
  BY DEF LinesApart
<1>3. Full(l1') /\ \A i \in 1..7 : ~Resident(l1', clearSet[i])
  <2>1. /\ \A i \in 1..7 : ~Resident(l1, clearSet[i])
        /\ \A i \in 1..7 : clearSet[i] # x
    BY <1>1, <1>2 DEF Idle
  <2>2. QED
    BY <1>1, <2>1, StaysOut DEF Idle
<1>4. QED
  BY <1>2, <1>3 DEF IdlePlace, Idle

\* A call begins with the lines of clearSet, or with a load before them.
LEMMA BeginPlace ==
  ASSUME SetInv, IdlePlace, NEW c, GoodCall(c), Begin(c)
  PROVE  PreamblePlace'
<1>1. /\ l1 \in CacheSet /\ Idle(l1) /\ l1' = l1 /\ pos' = 1 /\ call' = c /\ phase' = "preamble"
  BY DEF SetInv, SetTypeOK, IdlePlace, Begin, setVars
<1>2. Before(c) \in {0, 1, 2}
  BY DEF Before, Prepared, GoodCall
<1>3. Filling(l1, clearSet, 0)
  BY <1>1, IdleFills DEF Idle
<1>4. QED
  BY <1>1, <1>2, <1>3 DEF PreamblePlace, Before, Prepared

-----------------------------------------------------------------------------
\* The intruder comes in at the victim's seat.
LEMMA MissLines ==
  ASSUME LinesApart, NEW s \in CacheSet,
         NEW x \in Line, \A i \in 0..7 : cacheSet[i] # x, NEW r \in Loaded(s, x),
         \A n \in Seats : \E i \in 0..7 : At(s, n) = cacheSet[i]
  PROVE  /\ At(r, 1) = At(s, 5) /\ At(r, 2) = At(s, 6)
         /\ At(r, 3) = At(s, 7) /\ At(r, 4) = At(s, 8)
         /\ At(r, 5) = At(s, 3) /\ At(r, 6) = At(s, 4)
         /\ At(r, 7) = At(s, 2) /\ At(r, 8) = x
<1>1. \A n \in Seats : At(s, n) # NoLine
  BY BothArrays, NoLineAssumption
<1>2. Full(s)
  BY <1>1, FullSeat
<1>3. \A n \in 2..8 : At(s, n) # x
  BY DEF Seats
<1>4. QED
  BY <1>2, <1>3, MissedSeats

\* What a load of any address makes of the set.
LoadsAt(s, r, a) == IF a \in Line THEN r \in Loaded(s, a) ELSE r = s

\* A load of the preambles, after prepare_PLRU_state.
LEMMA ReorderedStep ==
  ASSUME LinesApart, NEW s \in CacheSet, HeldOnce(s),
         NEW x \in Line, \A i \in 0..7 : cacheSet[i] # x, NEW r,
         NEW n \in 0..4, IF n = 0 THEN Lines(s, x, 0, 4, 2, 6, 1, 5, 3, 7)
                       ELSE Reordered(s, x, n),
         LoadsAt(s, r, <<x, cacheSet[4], cacheSet[5], cacheSet[7], cacheSet[4]>>[n + 1])
  PROVE  Reordered(r, x, n + 1)
<1>1. \A i \in 0..7 : cacheSet[i] \in Line
  BY BothArrays
<1>2. CASE n = 0
  <2>1. Lines(s, x, 0, 4, 2, 6, 1, 5, 3, 7) /\ r \in Loaded(s, x)
    BY <1>1, <1>2 DEF Reordered, LoadsAt
  <2>2. \A m \in Seats : \E i \in 0..7 : At(s, m) = cacheSet[i]
    BY <2>1 DEF Lines, Stand, Seats
  <2>3. Lines(r, x, 1, 5, 3, 7, 2, 6, 4, 8)
    BY <2>1, <2>2, MissLines DEF Lines, Stand
  <2>4. QED
    BY <1>2, <2>3 DEF Reordered
<1>3. CASE n = 1
  <2>1. Lines(s, x, 1, 5, 3, 7, 2, 6, 4, 8) /\ r \in Loaded(s, cacheSet[4])
    BY <1>1, <1>3 DEF Reordered, LoadsAt
  <2>2. At(s, 7) = cacheSet[4]
    BY <2>1 DEF Lines, Stand
  <2>3. Lines(r, x, 1, 5, 3, 7, 2, 6, 8, 4)
    BY <1>1, <2>1, <2>2, HitSeats DEF Lines, Stand
  <2>4. QED
    BY <1>3, <2>3 DEF Reordered
<1>4. CASE n = 2
  <2>1. Lines(s, x, 1, 5, 3, 7, 2, 6, 8, 4) /\ r \in Loaded(s, cacheSet[5])
    BY <1>1, <1>4 DEF Reordered, LoadsAt
  <2>2. At(s, 2) = cacheSet[5]
    BY <2>1 DEF Lines, Stand
  <2>3. Lines(r, x, 2, 6, 8, 4, 3, 7, 1, 5)
    BY <1>1, <2>1, <2>2, HitSeats DEF Lines, Stand
  <2>4. QED
    BY <1>4, <2>3 DEF Reordered
<1>5. CASE n = 3
  <2>1. Lines(s, x, 2, 6, 8, 4, 3, 7, 1, 5) /\ r \in Loaded(s, cacheSet[7])
    BY <1>1, <1>5 DEF Reordered, LoadsAt
  <2>2. At(s, 6) = cacheSet[7]
    BY <2>1 DEF Lines, Stand
  <2>3. Lines(r, x, 2, 6, 8, 4, 1, 5, 3, 7)
    BY <1>1, <2>1, <2>2, HitSeats DEF Lines, Stand
  <2>4. QED
    BY <1>5, <2>3 DEF Reordered
<1>6. CASE n = 4
  <2>1. Lines(s, x, 2, 6, 8, 4, 1, 5, 3, 7) /\ r \in Loaded(s, cacheSet[4])
    BY <1>1, <1>6 DEF Reordered, LoadsAt
  <2>2. At(s, 4) = cacheSet[4]
    BY <2>1 DEF Lines, Stand
  <2>3. Lines(r, x, 1, 5, 3, 7, 2, 6, 8, 4)
    BY <1>1, <2>1, <2>2, HitSeats DEF Lines, Stand
  <2>4. QED
    BY <1>6, <2>3 DEF Reordered
<1>7. QED
  BY <1>2, <1>3, <1>4, <1>5, <1>6

LEMMA InOrderStep ==
  ASSUME LinesApart, NEW s \in CacheSet, HeldOnce(s),
         NEW x \in Line, \A i \in 0..7 : cacheSet[i] # x, NEW r,
         NEW n \in 0..4, IF n = 0 THEN Lines(s, x, 0, 4, 2, 6, 1, 5, 3, 7)
                       ELSE InOrder(s, x, n),
         LoadsAt(s, r, <<cacheSet[4], x, cacheSet[5], cacheSet[7], cacheSet[4]>>[n + 1])
  PROVE  InOrder(r, x, n + 1)
<1>1. \A i \in 0..7 : cacheSet[i] \in Line
  BY BothArrays
<1>2. CASE n = 0
  <2>1. Lines(s, x, 0, 4, 2, 6, 1, 5, 3, 7) /\ r \in Loaded(s, cacheSet[4])
    BY <1>1, <1>2 DEF InOrder, LoadsAt
  <2>2. At(s, 2) = cacheSet[4]
    BY <2>1 DEF Lines, Stand
  <2>3. Lines(r, x, 1, 5, 3, 7, 2, 6, 0, 4)
    BY <1>1, <2>1, <2>2, HitSeats DEF Lines, Stand
  <2>4. QED
    BY <1>2, <2>3 DEF InOrder
<1>3. CASE n = 1
  <2>1. Lines(s, x, 1, 5, 3, 7, 2, 6, 0, 4) /\ r \in Loaded(s, x)
    BY <1>1, <1>3 DEF InOrder, LoadsAt
  <2>2. \A m \in Seats : \E i \in 0..7 : At(s, m) = cacheSet[i]
    BY <2>1 DEF Lines, Stand, Seats
  <2>3. Lines(r, x, 2, 6, 0, 4, 3, 7, 5, 8)
    BY <2>1, <2>2, MissLines DEF Lines, Stand
  <2>4. QED
    BY <1>3, <2>3 DEF InOrder
<1>4. CASE n = 2
  <2>1. Lines(s, x, 2, 6, 0, 4, 3, 7, 5, 8) /\ r \in Loaded(s, cacheSet[5])
    BY <1>1, <1>4 DEF InOrder, LoadsAt
  <2>2. At(s, 7) = cacheSet[5]
    BY <2>1 DEF Lines, Stand
  <2>3. Lines(r, x, 2, 6, 0, 4, 3, 7, 8, 5)
    BY <1>1, <2>1, <2>2, HitSeats DEF Lines, Stand
  <2>4. QED
    BY <1>4, <2>3 DEF InOrder
<1>5. CASE n = 3
  <2>1. Lines(s, x, 2, 6, 0, 4, 3, 7, 8, 5) /\ r \in Loaded(s, cacheSet[7])
    BY <1>1, <1>5 DEF InOrder, LoadsAt
  <2>2. At(s, 6) = cacheSet[7]
    BY <2>1 DEF Lines, Stand
  <2>3. Lines(r, x, 2, 6, 0, 4, 8, 5, 3, 7)
    BY <1>1, <2>1, <2>2, HitSeats DEF Lines, Stand
  <2>4. QED
    BY <1>5, <2>3 DEF InOrder
<1>6. CASE n = 4
  <2>1. Lines(s, x, 2, 6, 0, 4, 8, 5, 3, 7) /\ r \in Loaded(s, cacheSet[4])
    BY <1>1, <1>6 DEF InOrder, LoadsAt
  <2>2. At(s, 4) = cacheSet[4]
    BY <2>1 DEF Lines, Stand
  <2>3. Lines(r, x, 8, 5, 3, 7, 2, 6, 0, 4)
    BY <1>1, <2>1, <2>2, HitSeats DEF Lines, Stand
  <2>4. QED
    BY <1>6, <2>3 DEF InOrder
<1>7. QED
  BY <1>2, <1>3, <1>4, <1>5, <1>6

LEMMA SixFirstStep ==
  ASSUME LinesApart, NEW s \in CacheSet, HeldOnce(s),
         NEW x \in Line, \A i \in 0..7 : cacheSet[i] # x, NEW r, llc_candidate \notin Line,
         NEW n \in 0..6, IF n = 0 THEN Lines(s, x, 0, 4, 2, 6, 1, 5, 3, 7)
                       ELSE SixFirst(s, x, n),
         LoadsAt(s, r, <<llc_candidate, cacheSet[6], cacheSet[7], x, cacheSet[5], cacheSet[7], cacheSet[4]>>[n + 1])
  PROVE  SixFirst(r, x, n + 1)
<1>1. \A i \in 0..7 : cacheSet[i] \in Line
  BY BothArrays
<1>2. CASE n = 0
  BY <1>2 DEF SixFirst, LoadsAt
<1>3. CASE n = 1
  <2>1. Lines(s, x, 0, 4, 2, 6, 1, 5, 3, 7) /\ r \in Loaded(s, cacheSet[6])
    BY <1>1, <1>3 DEF SixFirst, LoadsAt
  <2>2. At(s, 4) = cacheSet[6]
    BY <2>1 DEF Lines, Stand
  <2>3. Lines(r, x, 1, 5, 3, 7, 0, 4, 2, 6)
    BY <1>1, <2>1, <2>2, HitSeats DEF Lines, Stand
  <2>4. QED
    BY <1>3, <2>3 DEF SixFirst
<1>4. CASE n = 2
  <2>1. Lines(s, x, 1, 5, 3, 7, 0, 4, 2, 6) /\ r \in Loaded(s, cacheSet[7])
    BY <1>1, <1>4 DEF SixFirst, LoadsAt
  <2>2. At(s, 4) = cacheSet[7]
    BY <2>1 DEF Lines, Stand
  <2>3. Lines(r, x, 0, 4, 2, 6, 1, 5, 3, 7)
    BY <1>1, <2>1, <2>2, HitSeats DEF Lines, Stand
  <2>4. QED
    BY <1>4, <2>3 DEF SixFirst
<1>5. CASE n = 3
  <2>1. Lines(s, x, 0, 4, 2, 6, 1, 5, 3, 7) /\ r \in Loaded(s, x)
    BY <1>1, <1>5 DEF SixFirst, LoadsAt
  <2>2. \A m \in Seats : \E i \in 0..7 : At(s, m) = cacheSet[i]
    BY <2>1 DEF Lines, Stand, Seats
  <2>3. Lines(r, x, 1, 5, 3, 7, 2, 6, 4, 8)
    BY <2>1, <2>2, MissLines DEF Lines, Stand
  <2>4. QED
    BY <1>5, <2>3 DEF SixFirst
<1>6. CASE n = 4
  <2>1. Lines(s, x, 1, 5, 3, 7, 2, 6, 4, 8) /\ r \in Loaded(s, cacheSet[5])
    BY <1>1, <1>6 DEF SixFirst, LoadsAt
  <2>2. At(s, 2) = cacheSet[5]
    BY <2>1 DEF Lines, Stand
  <2>3. Lines(r, x, 2, 6, 4, 8, 3, 7, 1, 5)
    BY <1>1, <2>1, <2>2, HitSeats DEF Lines, Stand
  <2>4. QED
    BY <1>6, <2>3 DEF SixFirst
<1>7. CASE n = 5
  <2>1. Lines(s, x, 2, 6, 4, 8, 3, 7, 1, 5) /\ r \in Loaded(s, cacheSet[7])
    BY <1>1, <1>7 DEF SixFirst, LoadsAt
  <2>2. At(s, 6) = cacheSet[7]
    BY <2>1 DEF Lines, Stand
  <2>3. Lines(r, x, 2, 6, 4, 8, 1, 5, 3, 7)
    BY <1>1, <2>1, <2>2, HitSeats DEF Lines, Stand
  <2>4. QED
    BY <1>7, <2>3 DEF SixFirst
<1>8. CASE n = 6
  <2>1. Lines(s, x, 2, 6, 4, 8, 1, 5, 3, 7) /\ r \in Loaded(s, cacheSet[4])
    BY <1>1, <1>8 DEF SixFirst, LoadsAt
  <2>2. At(s, 3) = cacheSet[4]
    BY <2>1 DEF Lines, Stand
  <2>3. Lines(r, x, 1, 5, 3, 7, 2, 6, 8, 4)
    BY <1>1, <2>1, <2>2, HitSeats DEF Lines, Stand
  <2>4. QED
    BY <1>8, <2>3 DEF SixFirst
<1>9. QED
  BY <1>2, <1>3, <1>4, <1>5, <1>6, <1>7, <1>8

LEMMA SevenFirstStep ==
  ASSUME LinesApart, NEW s \in CacheSet, HeldOnce(s),
         NEW x \in Line, \A i \in 0..7 : cacheSet[i] # x, NEW r, llc_candidate \notin Line,
         NEW n \in 0..6, IF n = 0 THEN Lines(s, x, 0, 4, 2, 6, 1, 5, 3, 7)
                       ELSE SevenFirst(s, x, n),
         LoadsAt(s, r, <<cacheSet[7], llc_candidate, cacheSet[6], x, cacheSet[5], cacheSet[7], cacheSet[4]>>[n + 1])
  PROVE  SevenFirst(r, x, n + 1)
<1>1. \A i \in 0..7 : cacheSet[i] \in Line
  BY BothArrays
<1>2. CASE n = 0
  <2>1. Lines(s, x, 0, 4, 2, 6, 1, 5, 3, 7) /\ r \in Loaded(s, cacheSet[7])
    BY <1>1, <1>2 DEF SevenFirst, LoadsAt
  <2>2. At(s, 8) = cacheSet[7]
    BY <2>1 DEF Lines, Stand
  <2>3. Lines(r, x, 0, 4, 2, 6, 1, 5, 3, 7)
    BY <1>1, <2>1, <2>2, HitSeats DEF Lines, Stand
  <2>4. QED
    BY <1>2, <2>3 DEF SevenFirst
<1>3. CASE n = 1
  BY <1>3 DEF SevenFirst, LoadsAt
<1>4. CASE n = 2
  <2>1. Lines(s, x, 0, 4, 2, 6, 1, 5, 3, 7) /\ r \in Loaded(s, cacheSet[6])
    BY <1>1, <1>4 DEF SevenFirst, LoadsAt
  <2>2. At(s, 4) = cacheSet[6]
    BY <2>1 DEF Lines, Stand
  <2>3. Lines(r, x, 1, 5, 3, 7, 0, 4, 2, 6)
    BY <1>1, <2>1, <2>2, HitSeats DEF Lines, Stand
  <2>4. QED
    BY <1>4, <2>3 DEF SevenFirst
<1>5. CASE n = 3
  <2>1. Lines(s, x, 1, 5, 3, 7, 0, 4, 2, 6) /\ r \in Loaded(s, x)
    BY <1>1, <1>5 DEF SevenFirst, LoadsAt
  <2>2. \A m \in Seats : \E i \in 0..7 : At(s, m) = cacheSet[i]
    BY <2>1 DEF Lines, Stand, Seats
  <2>3. Lines(r, x, 0, 4, 2, 6, 3, 7, 5, 8)
    BY <2>1, <2>2, MissLines DEF Lines, Stand
  <2>4. QED
    BY <1>5, <2>3 DEF SevenFirst
<1>6. CASE n = 4
  <2>1. Lines(s, x, 0, 4, 2, 6, 3, 7, 5, 8) /\ r \in Loaded(s, cacheSet[5])
    BY <1>1, <1>6 DEF SevenFirst, LoadsAt
  <2>2. At(s, 7) = cacheSet[5]
    BY <2>1 DEF Lines, Stand
  <2>3. Lines(r, x, 0, 4, 2, 6, 3, 7, 8, 5)
    BY <1>1, <2>1, <2>2, HitSeats DEF Lines, Stand
  <2>4. QED
    BY <1>6, <2>3 DEF SevenFirst
<1>7. CASE n = 5
  <2>1. Lines(s, x, 0, 4, 2, 6, 3, 7, 8, 5) /\ r \in Loaded(s, cacheSet[7])
    BY <1>1, <1>7 DEF SevenFirst, LoadsAt
  <2>2. At(s, 6) = cacheSet[7]
    BY <2>1 DEF Lines, Stand
  <2>3. Lines(r, x, 0, 4, 2, 6, 8, 5, 3, 7)
    BY <1>1, <2>1, <2>2, HitSeats DEF Lines, Stand
  <2>4. QED
    BY <1>7, <2>3 DEF SevenFirst
<1>8. CASE n = 6
  <2>1. Lines(s, x, 0, 4, 2, 6, 8, 5, 3, 7) /\ r \in Loaded(s, cacheSet[4])
    BY <1>1, <1>8 DEF SevenFirst, LoadsAt
  <2>2. At(s, 2) = cacheSet[4]
    BY <2>1 DEF Lines, Stand
  <2>3. Lines(r, x, 8, 5, 3, 7, 2, 6, 0, 4)
    BY <1>1, <2>1, <2>2, HitSeats DEF Lines, Stand
  <2>4. QED
    BY <1>8, <2>3 DEF SevenFirst
<1>9. QED
  BY <1>2, <1>3, <1>4, <1>5, <1>6, <1>7, <1>8

\* The load of llc_candidate is of another set, so it may as well come first.
LEMMA SevenSecondStep ==
  ASSUME LinesApart, NEW s \in CacheSet, HeldOnce(s),
         NEW x \in Line, \A i \in 0..7 : cacheSet[i] # x, NEW r, llc_candidate \notin Line,
         NEW n \in 0..6, IF n = 0 THEN Lines(s, x, 0, 4, 2, 6, 1, 5, 3, 7)
                       ELSE SevenFirst(s, x, n),
         LoadsAt(s, r, <<llc_candidate, cacheSet[7], cacheSet[6], x, cacheSet[5], cacheSet[7], cacheSet[4]>>[n + 1])
  PROVE  SevenFirst(r, x, n + 1)
<1>1. CASE n = 0
  BY <1>1 DEF SevenFirst, LoadsAt
<1>2. CASE n = 1
  <2>1. Lines(s, x, 0, 4, 2, 6, 1, 5, 3, 7) /\ LoadsAt(s, r, cacheSet[7])
    BY <1>2 DEF SevenFirst
  <2>2. SevenFirst(r, x, 1)
    BY <2>1, SevenFirstStep
  <2>3. QED
    BY <1>2, <2>2 DEF SevenFirst
<1>3. CASE n \in 2..6
  <2>1. <<llc_candidate, cacheSet[7], cacheSet[6], x, cacheSet[5], cacheSet[7], cacheSet[4]>>[n + 1]
          = <<cacheSet[7], llc_candidate, cacheSet[6], x, cacheSet[5], cacheSet[7], cacheSet[4]>>[n + 1]
    BY <1>3
  <2>2. QED
    BY <1>3, <2>1, SevenFirstStep
<1>4. QED
  BY <1>1, <1>2, <1>3

-----------------------------------------------------------------------------
\* The load of llc_candidate before prepare_PLRU_state, and its flush.
LEMMA LlcComes ==
  ASSUME LinesApart, NEW s \in CacheSet, HeldOnce(s), Idle(s),
         NEW r, LoadsAt(s, r, llc_candidate)
  PROVE  LlcIn(r)
<1>1. CASE llc_candidate \notin Line
  BY <1>1 DEF LoadsAt, Idle, LlcIn
<1>2. CASE llc_candidate \in Line
  <2>1. r \in Loaded(s, llc_candidate)
    BY <1>2 DEF LoadsAt
  <2>2. r \in CacheSet
    BY <1>2, <2>1, LoadedType
  <2>3. Full(r) /\ \A i \in 1..7 : ~Resident(r, clearSet[i])
    <3>1. Full(s) /\ \A i \in 1..7 : ~Resident(s, clearSet[i])
      BY DEF Idle
    <3>2. \A i \in 1..7 : clearSet[i] # llc_candidate
      BY DEF LinesApart
    <3>3. QED
      BY <1>2, <2>1, <3>1, <3>2, StaysOut
  <2>4. clearSet[0] # llc_candidate
    BY <1>2 DEF LinesApart
  <2>5. PICK k \in Seats : /\ LoadedAt(s, r, k, llc_candidate)
                           /\ At(s, k) = llc_candidate \/ k = 1
    BY <1>2, <2>1, FullSeatLoaded DEF Idle
  <2>6. At(r, 8) = llc_candidate
    BY <2>5 DEF LoadedAt
  <2>7. ASSUME NEW m \in Seats, At(r, m) = clearSet[0]
        PROVE  m <= 4
    <3>1. m # 8
      BY <2>4, <2>6, <2>7
    <3>2. PICK n \in Seats : Moved(k, n) = m
      BY PathMoves
    <3>3. n # k
      BY <3>1, <3>2 DEF Moved
    <3>4. At(s, n) = clearSet[0]
      BY <2>5, <2>7, <3>2, <3>3 DEF LoadedAt
    <3>5. n \in {1, 7} /\ ~Resident(s, llc_candidate)
      BY <1>2, <3>4 DEF Idle
    <3>6. k = 1
      BY <2>5, <3>5, ResidentSeat
    <3>7. n = 7 /\ m = 3
      BY <3>2, <3>3, <3>5, <3>6, MovedTable
    <3>8. QED
      BY <3>7
  <2>8. QED
    BY <1>2, <2>3, <2>6, <2>7 DEF LlcIn
<1>3. QED
  BY <1>1, <1>2

LEMMA LlcGoes ==
  ASSUME LinesApart, NEW s \in CacheSet, HeldOnce(s), LlcIn(s),
         NEW r, r = IF llc_candidate \in Line THEN Flushed(s, llc_candidate) ELSE s
  PROVE  Filling(r, clearSet, 0)
<1>1. \A n \in Seats : At(s, n) # NoLine
  BY FullSeat DEF LlcIn
<1>2. CASE llc_candidate \notin Line
  BY <1>2, IdleFills DEF LlcIn
<1>3. CASE llc_candidate \in Line
  <2>1. /\ r \in CacheSet
        /\ \A n \in Seats : At(r, n) = IF At(s, n) = llc_candidate THEN NoLine ELSE At(s, n)
    BY <1>3, FlushSeat
  <2>2. \A n \in Seats : At(s, n) = llc_candidate => n = 8
    <3>1. At(s, 8) = llc_candidate /\ 8 \in Seats
      BY <1>3 DEF LlcIn, Seats
    <3>2. QED
      BY <1>1, <3>1, OnceSeat
  <2>3. \A n \in Seats : At(r, n) = NoLine => n = 8
    BY <1>1, <2>1, <2>2
  <2>4. \A i \in 1..7 : ~Resident(r, clearSet[i])
    <3>1. \A i \in 1..7 : clearSet[i] # NoLine
      BY BothArrays, NoLineAssumption
    <3>2. \A i \in 1..7 : \A n \in Seats : At(s, n) # clearSet[i]
      BY ResidentSeat DEF LlcIn
    <3>3. \A i \in 1..7 : \A n \in Seats : At(r, n) # clearSet[i]
      BY <2>1, <3>1, <3>2
    <3>4. QED
      BY <2>1, <3>3, ResidentSeat
  <2>5. \A n \in Seats : At(r, n) = clearSet[0] => n <= 4
    <3>1. clearSet[0] # NoLine
      BY BothArrays, NoLineAssumption
    <3>2. QED
      BY <1>3, <2>1, <3>1 DEF LlcIn
  <2>6. QED
    BY <2>3, <2>4, <2>5 DEF Filling
<1>4. QED
  BY <1>2, <1>3

\* The intruder is none of the lines of cacheSet.
LEMMA IntruderApart ==
  ASSUME LinesApart, NEW c, GoodCall(c), c.fn # "leaky_run" \/ c.arg = evictor
  PROVE  Intruder(c) \in Line /\ \A i \in 0..7 : cacheSet[i] # Intruder(c)
<1>1. \A i \in 0..7 : cacheSet[i] \notin {evictor, llc_candidate, l1b_element}
  BY DEF LinesApart, Index
<1>2. c.fn = "showtime_llc_eviction" => Intruder(c) = l1b_element
  BY DEF Intruder
<1>3. c.fn = "showtime_reorder" => Intruder(c) = clearSet[0]
  BY DEF Intruder
<1>4. c.fn = "leaky_run" => Intruder(c) = c.arg
  BY DEF Intruder
<1>5. evictor \in Line /\ l1b_element \in Line /\ clearSet[0] \in Line
  BY SetsAssumption, BothArrays DEF LinesApart
<1>6. \A i \in 0..7 : cacheSet[i] # clearSet[0]
  BY BothArrays
<1>7. QED
  BY <1>1, <1>2, <1>3, <1>4, <1>5, <1>6, SMT DEF GoodCall

\* The load with which the preamble of leaky_run ends.
LEMMA LeakyEnd ==
  ASSUME LinesApart, NEW s \in CacheSet, HeldOnce(s), NEW c, GoodCall(c), c.fn = "leaky_run",
         Lines(s, c.arg, 0, 4, 2, 6, 1, 5, 3, 7), NEW r, LoadsAt(s, r, c.arg)
  PROVE  Lines(r, c.arg, 1, 5, 3, 7, 2, 6, 4, 8)
<1>1. c.arg \in Line /\ r \in Loaded(s, c.arg)
  BY SetsAssumption, BothArrays DEF GoodCall, LoadsAt
<1>2. CASE c.arg = cacheSet[0]
  <2>1. At(s, 1) = c.arg
    BY <1>2 DEF Lines, Stand
  <2>2. QED
    BY <1>1, <2>1, HitSeats DEF Lines, Stand
<1>3. CASE c.arg = evictor
  <2>1. \A i \in 0..7 : cacheSet[i] # c.arg
    BY <1>3 DEF LinesApart, Index
  <2>2. \A m \in Seats : \E i \in 0..7 : At(s, m) = cacheSet[i]
    BY DEF Lines, Stand, Seats
  <2>3. QED
    BY <1>1, <2>1, <2>2, MissLines DEF Lines, Stand
<1>4. QED
  BY <1>2, <1>3 DEF GoodCall

-----------------------------------------------------------------------------
\* Where llc_candidate is a line of the set, clearSet stays out at least.
LEMMA BlindStep ==
  ASSUME LinesApart, NEW s \in CacheSet, llc_candidate \in Line, ClearOut(s),
         NEW a, \A i \in Index : clearSet[i] # a, NEW r, LoadsAt(s, r, a)
  PROVE  ClearOut(r)
<1>1. CASE a \notin Line
  BY <1>1 DEF LoadsAt
<1>2. CASE a \in Line
  BY <1>2, FullKept, OnlyComes DEF LoadsAt, ClearOut
<1>3. QED
  BY <1>1, <1>2

\* prepare_PLRU_state puts clearSet out and cacheSet in.
LEMMA PreparedClear ==
  ASSUME LinesApart, NEW s \in CacheSet, NEW x, Lines(s, x, 0, 4, 2, 6, 1, 5, 3, 7)
  PROVE  ClearOut(s) /\ \A i \in Index : Resident(s, cacheSet[i])
<1>1. /\ \A n \in Seats : \E i \in 0..7 : At(s, n) = cacheSet[i]
      /\ \A i \in 0..7 : \E n \in Seats : At(s, n) = cacheSet[i]
  BY DEF Lines, Stand, Seats
<1>2. \A n \in Seats : At(s, n) # NoLine
  BY <1>1, BothArrays, NoLineAssumption
<1>3. Full(s)
  BY <1>2, FullSeat
<1>4. \A i \in 0..7 : \A n \in Seats : At(s, n) # clearSet[i]
  BY <1>1, BothArrays
<1>5. \A i \in 0..7 : ~Resident(s, clearSet[i])
  BY <1>4, ResidentSeat, Zenon
<1>6. \A i \in 0..7 : Resident(s, cacheSet[i])
  BY <1>1, ResidentSeat, Zenon
<1>7. QED
  BY <1>3, <1>5, <1>6 DEF ClearOut, Index

\* Each load after prepare_PLRU_state.
LEMMA RaceStep ==
  ASSUME LinesApart, NEW s \in CacheSet, HeldOnce(s), NEW c, GoodCall(c),
         NEW n \in Nat, n < Len(AfterPrepare(c)), RaceEnd(s, c, n),
         NEW r, LoadsAt(s, r, AfterPrepare(c)[n + 1].at)
  PROVE  RaceEnd(r, c, n + 1)
<1> DEFINE x == Intruder(c)
<1>1. n + 1 # 0
  OBVIOUS
<1>2. CASE c.fn = "leaky_run"
  <2>1. AfterPrepare(c) = <<Load(c.arg)>> /\ x = c.arg
    BY <1>2 DEF AfterPrepare, Intruder
  <2>2. n = 0 /\ AfterPrepare(c)[n + 1].at = c.arg
    BY <2>1 DEF Load
  <2>3. Lines(s, c.arg, 0, 4, 2, 6, 1, 5, 3, 7)
    BY <2>1, <2>2 DEF RaceEnd
  <2>4. Lines(r, x, 1, 5, 3, 7, 2, 6, 4, 8)
    BY <1>2, <2>1, <2>2, <2>3, LeakyEnd
  <2>5. QED
    BY <1>2, <2>2, <2>4 DEF RaceEnd
<1>3. CASE c.fn = "showtime_reorder" /\ c.arg = 1
  <2>1. AfterPrepare(c) = <<K(0), C(4), C(5), C(7), C(4)>> /\ x = clearSet[0]
    BY <1>3 DEF AfterPrepare, Intruder
  <2>2. n \in 0..4
    BY <2>1
  <2>3. AfterPrepare(c)[n + 1].at =
          <<x, cacheSet[4], cacheSet[5], cacheSet[7], cacheSet[4]>>[n + 1]
    BY <2>1, <2>2 DEF Load, K, C
  <2>4. x \in Line /\ \A i \in 0..7 : cacheSet[i] # x
    BY <1>3, IntruderApart
  <2>5. IF n = 0 THEN Lines(s, x, 0, 4, 2, 6, 1, 5, 3, 7) ELSE Reordered(s, x, n)
    BY <1>3 DEF RaceEnd
  <2>6. LoadsAt(s, r, <<x, cacheSet[4], cacheSet[5], cacheSet[7], cacheSet[4]>>[n + 1])
    BY <2>3
  <2> HIDE DEF x
  <2>7. Reordered(r, x, n + 1)
    BY <2>2, <2>4, <2>5, <2>6, ReorderedStep
  <2>8. QED
    BY <1>1, <1>3, <2>7 DEF RaceEnd, x
<1>4. CASE c.fn = "showtime_reorder" /\ c.arg # 1
  <2>1. AfterPrepare(c) = <<C(4), K(0), C(5), C(7), C(4)>> /\ x = clearSet[0]
    BY <1>4 DEF AfterPrepare, Intruder
  <2>2. n \in 0..4
    BY <2>1
  <2>3. AfterPrepare(c)[n + 1].at =
          <<cacheSet[4], x, cacheSet[5], cacheSet[7], cacheSet[4]>>[n + 1]
    BY <2>1, <2>2 DEF Load, K, C
  <2>4. x \in Line /\ \A i \in 0..7 : cacheSet[i] # x
    BY <1>4, IntruderApart
  <2>5. IF n = 0 THEN Lines(s, x, 0, 4, 2, 6, 1, 5, 3, 7) ELSE InOrder(s, x, n)
    BY <1>4 DEF RaceEnd
  <2>6. LoadsAt(s, r, <<cacheSet[4], x, cacheSet[5], cacheSet[7], cacheSet[4]>>[n + 1])
    BY <2>3
  <2> HIDE DEF x
  <2>7. InOrder(r, x, n + 1)
    BY <2>2, <2>4, <2>5, <2>6, InOrderStep
  <2>8. QED
    BY <1>1, <1>4, <2>7 DEF RaceEnd, x
<1>5. CASE c.fn = "showtime_llc_eviction" /\ llc_candidate \in Line
  <2>1. ClearOut(s)
    BY <1>5, PreparedClear DEF RaceEnd, Blind
  <2>2. n \in 0..6 /\ AfterPrepare(c)[n + 1].at \in
          {llc_candidate, l1b_element} \cup {cacheSet[i] : i \in 0..7}
    BY <1>5 DEF AfterPrepare, Load, C
  <2>3. \A i \in Index : clearSet[i] \notin {llc_candidate, l1b_element} \cup {cacheSet[j] : j \in 0..7}
    <3>1. \A i \in Index : i = 0 \/ i \in 1..7
      BY DEF Index
    <3>2. \A i \in Index : clearSet[i] \notin {llc_candidate, l1b_element}
      BY <1>5, <3>1 DEF LinesApart
    <3>3. QED
      BY <3>2, BothArrays DEF Index
  <2>4. ClearOut(r)
    BY <1>5, <2>1, <2>2, <2>3, BlindStep
  <2>5. QED
    BY <1>1, <1>5, <2>4 DEF RaceEnd, Blind
<1>6. CASE c.fn = "showtime_llc_eviction" /\ llc_candidate \notin Line /\ c.at7 = 3
  <2>1. AfterPrepare(c) = <<Load(llc_candidate), C(6), C(7), Load(l1b_element), C(5), C(7), C(4)>>
        /\ x = l1b_element
    BY <1>6 DEF AfterPrepare, Intruder
  <2>2. n \in 0..6
    BY <2>1
  <2>3. AfterPrepare(c)[n + 1].at = <<llc_candidate, cacheSet[6], cacheSet[7], x,
          cacheSet[5], cacheSet[7], cacheSet[4]>>[n + 1]
    BY <2>1, <2>2 DEF Load, C
  <2>4. x \in Line /\ \A i \in 0..7 : cacheSet[i] # x
    BY <1>6, IntruderApart
  <2>5. IF n = 0 THEN Lines(s, x, 0, 4, 2, 6, 1, 5, 3, 7) ELSE SixFirst(s, x, n)
    BY <1>6 DEF RaceEnd, Blind
  <2>6. LoadsAt(s, r, <<llc_candidate, cacheSet[6], cacheSet[7], x,
          cacheSet[5], cacheSet[7], cacheSet[4]>>[n + 1])
    BY <2>3
  <2> HIDE DEF x
  <2>7. SixFirst(r, x, n + 1)
    BY <1>6, <2>2, <2>4, <2>5, <2>6, SixFirstStep
  <2>8. QED
    BY <1>1, <1>6, <2>7 DEF RaceEnd, Blind, x
<1>7. CASE c.fn = "showtime_llc_eviction" /\ llc_candidate \notin Line /\ c.at7 = 1
  <2>1. AfterPrepare(c) = <<C(7), Load(llc_candidate), C(6), Load(l1b_element), C(5), C(7), C(4)>>
        /\ x = l1b_element
    BY <1>7 DEF AfterPrepare, Intruder
  <2>2. n \in 0..6
    BY <2>1
  <2>3. AfterPrepare(c)[n + 1].at = <<cacheSet[7], llc_candidate, cacheSet[6], x,
          cacheSet[5], cacheSet[7], cacheSet[4]>>[n + 1]
    BY <2>1, <2>2 DEF Load, C
  <2>4. x \in Line /\ \A i \in 0..7 : cacheSet[i] # x
    BY <1>7, IntruderApart
  <2>5. IF n = 0 THEN Lines(s, x, 0, 4, 2, 6, 1, 5, 3, 7) ELSE SevenFirst(s, x, n)
    BY <1>7 DEF RaceEnd, Blind
  <2>6. LoadsAt(s, r, <<cacheSet[7], llc_candidate, cacheSet[6], x,
          cacheSet[5], cacheSet[7], cacheSet[4]>>[n + 1])
    BY <2>3
  <2> HIDE DEF x
  <2>7. SevenFirst(r, x, n + 1)
    BY <1>7, <2>2, <2>4, <2>5, <2>6, SevenFirstStep
  <2>8. QED
    BY <1>1, <1>7, <2>7 DEF RaceEnd, Blind, x
<1>8. CASE c.fn = "showtime_llc_eviction" /\ llc_candidate \notin Line /\ c.at7 = 2
  <2>1. AfterPrepare(c) = <<Load(llc_candidate), C(7), C(6), Load(l1b_element), C(5), C(7), C(4)>>
        /\ x = l1b_element
    BY <1>8 DEF AfterPrepare, Intruder
  <2>2. n \in 0..6
    BY <2>1
  <2>3. AfterPrepare(c)[n + 1].at = <<llc_candidate, cacheSet[7], cacheSet[6], x,
          cacheSet[5], cacheSet[7], cacheSet[4]>>[n + 1]
    BY <2>1, <2>2 DEF Load, C
  <2>4. x \in Line /\ \A i \in 0..7 : cacheSet[i] # x
    BY <1>8, IntruderApart
  <2>5. IF n = 0 THEN Lines(s, x, 0, 4, 2, 6, 1, 5, 3, 7) ELSE SevenFirst(s, x, n)
    BY <1>8 DEF RaceEnd, Blind
  <2>6. LoadsAt(s, r, <<llc_candidate, cacheSet[7], cacheSet[6], x,
          cacheSet[5], cacheSet[7], cacheSet[4]>>[n + 1])
    BY <2>3
  <2> HIDE DEF x
  <2>7. SevenFirst(r, x, n + 1)
    BY <1>8, <2>2, <2>4, <2>5, <2>6, SevenSecondStep
  <2>8. QED
    BY <1>1, <1>8, <2>7 DEF RaceEnd, Blind, x
<1>9. QED
  BY <1>2, <1>3, <1>4, <1>5, <1>6, <1>7, <1>8 DEF GoodCall

\* After prepare_PLRU_state a preamble only loads.
LEMMA AfterLoads ==
  ASSUME NEW c, GoodCall(c), NEW m \in 1..Len(AfterPrepare(c))
  PROVE  AfterPrepare(c)[m] = Load(AfterPrepare(c)[m].at)
<1>1. CASE c.fn = "leaky_run"
  <2>1. AfterPrepare(c) = <<Load(c.arg)>>
    BY <1>1 DEF AfterPrepare
  <2>2. QED
    BY <2>1 DEF Load
<1>2. CASE c.fn = "showtime_reorder"
  <2>1. AfterPrepare(c) = <<K(0), C(4), C(5), C(7), C(4)>>
          \/ AfterPrepare(c) = <<C(4), K(0), C(5), C(7), C(4)>>
    BY <1>2 DEF AfterPrepare
  <2>2. QED
    BY <2>1 DEF Load, C, K
<1>3. CASE c.fn = "showtime_llc_eviction"
  <2>1. \/ AfterPrepare(c) =
             <<Load(llc_candidate), C(6), C(7), Load(l1b_element), C(5), C(7), C(4)>>
        \/ AfterPrepare(c) =
             <<Load(llc_candidate), C(7), C(6), Load(l1b_element), C(5), C(7), C(4)>>
        \/ AfterPrepare(c) =
             <<C(7), Load(llc_candidate), C(6), Load(l1b_element), C(5), C(7), C(4)>>
    BY <1>3 DEF AfterPrepare
  <2>2. QED
    BY <2>1 DEF Load, C
<1>4. QED
  BY <1>1, <1>2, <1>3 DEF GoodCall

\* Every step of a preamble keeps the lines in their places.
LEMMA PreambleStepPlace ==
  ASSUME LinesApart, SetInv, CtlInv, HeldOnce(l1), PreamblePlace, PreambleStep
  PROVE  PreamblePlace'
<1> DEFINE o == Before(call)
           w == Preamble(call)
<1>1. /\ l1 \in CacheSet /\ GoodCall(call) /\ phase = "preamble" /\ phase' = "preamble"
      /\ call' = call /\ pos \in Nat \ {0} /\ pos' = pos + 1 /\ pos <= Len(w)
  BY DEF SetInv, SetTypeOK, CtlInv, PreambleStep
<1>2. /\ o = IF call.fn = "showtime_llc_eviction" THEN 1 + call.arg ELSE 0
      /\ o \in 0..2
      /\ Len(w) = o + 16 + Len(AfterPrepare(call))
      /\ \A k \in 1..8 : w[o + k] = K(k - 1)
      /\ \A k \in 9..16 : w[o + k] = C(k - 9)
      /\ \A n \in 1..Len(AfterPrepare(call)) : w[o + 16 + n] = AfterPrepare(call)[n]
      /\ o > 0 => w[1] = Load(llc_candidate)
      /\ o = 2 => w[2] = Clflush(llc_candidate)
  BY <1>1, PreambleAt
<1>3. ASSUME NEW a, w[pos] = Load(a)
      PROVE  LoadsAt(l1, l1', a)
  <2>1. w \in Seq(Instr)
    BY <1>1, PreambleForm
  <2>2. w[pos] \in Instr
    BY <1>1, <2>1, ElementOfSeq
  <2>3. a \in Zeroed
    BY <1>3, <2>2 DEF Instr, Load
  <2>4. maccess(a)
    BY <1>3 DEF PreambleStep, Load
  <2>5. QED
    BY <1>1, <2>3, <2>4, LoadFacts DEF LoadsAt
<1>4. Before(call)' = o
  BY <1>1
<1> HIDE DEF o, w
<1>0. o \in {0, 1, 2} /\ pos \in Nat \ {0} /\ pos' = pos + 1
  BY <1>1, <1>2
<1>5. l1' \in CacheSet
  <2>1. SetInv'
    <3>1. SetInv /\ [NextSet]_setVars => SetInv'
      BY AccessInv, FlushInv, StutterInv DEF NextSet
    <3>2. QED
      BY <3>1, StepRefines DEF Next, Running
  <2>2. QED
    BY <2>1 DEF SetInv, SetTypeOK
<1>6. CASE pos = 1 /\ o = 1
  <2>1. LoadsAt(l1, l1', llc_candidate)
    BY <1>2, <1>3, <1>6
  <2>2. Idle(l1)
    BY <1>1, <1>6 DEF PreamblePlace
  <2>3. LlcIn(l1')
    BY <1>1, <2>1, <2>2, LlcComes
  <2>4. Filling(l1', clearSet, 0)
    BY <1>5, <2>3, IdleFills DEF LlcIn
  <2>5. pos' = 2 /\ pos' - o = 1 /\ o # 2
    BY <1>1, <1>6
  <2>6. QED
    BY <1>4, <2>4, <2>5 DEF PreamblePlace
<1>7. CASE pos = 1 /\ o = 2
  <2>1. LoadsAt(l1, l1', llc_candidate)
    BY <1>2, <1>3, <1>7
  <2>2. Idle(l1)
    BY <1>1, <1>7 DEF PreamblePlace
  <2>3. LlcIn(l1')
    BY <1>1, <2>1, <2>2, LlcComes
  <2>4. pos' = 2 /\ pos' - o = 0
    BY <1>1, <1>7
  <2>5. QED
    BY <1>4, <2>3, <2>4 DEF PreamblePlace
<1>8. CASE pos = 2 /\ o = 2
  <2>1. w[pos] = Clflush(llc_candidate)
    BY <1>2, <1>8
  <2>2. clflush(llc_candidate)
    BY <2>1 DEF PreambleStep, Clflush, w
  <2>3. l1' = IF llc_candidate \in Line THEN Flushed(l1, llc_candidate) ELSE l1
    BY <2>2 DEF clflush, Flush, setVars
  <2>4. LlcIn(l1)
    BY <1>1, <1>8 DEF PreamblePlace, o
  <2>5. Filling(l1', clearSet, 0)
    BY <1>1, <2>3, <2>4, LlcGoes
  <2>6. pos' = 3 /\ pos' - o = 1
    BY <1>1, <1>8
  <2>7. QED
    BY <1>4, <2>5, <2>6 DEF PreamblePlace
<1>9. CASE pos - o \in 1..8
  <2> DEFINE k == pos - o
  <2>1. k \in 1..8 /\ pos = o + k /\ k - 1 \in 0..7 /\ pos' - o = k + 1 /\ pos' > 1
        /\ (k - 1) + 1 = (pos' - o) - 1
    BY <1>0, <1>9
  <2>2. w[pos] = Load(clearSet[k - 1])
    BY <1>2, <2>1 DEF K
  <2>3. l1' \in Loaded(l1, clearSet[k - 1])
    BY <1>3, <2>1, <2>2, BothArrays DEF LoadsAt
  <2>4. Filling(l1, clearSet, k - 1)
    BY <1>1, <2>1 DEF PreamblePlace, o
  <2> HIDE DEF k
  <2>5. Filling(l1', clearSet, (k - 1) + 1)
    BY <1>1, <2>1, <2>3, <2>4, BothArrays, FillStep
  <2>6. k = 8 => Filling(l1', cacheSet, 0)
    <3>1. k = 8 => Filling(l1', clearSet, 8)
      BY <2>5
    <3>2. QED
      BY <1>5, <3>1, FillSwap
  <2>7. ~(pos' = 2 /\ o = 2)
    BY <2>1
  <2>8. pos' - o \in 2..9 /\ (k + 1 = 9 => k = 8)
    BY <2>1
  <2>9. QED
    BY <1>4, <2>1, <2>5, <2>6, <2>7, <2>8 DEF PreamblePlace
<1>10. CASE pos - o \in 9..16
  <2> DEFINE k == pos - o
  <2>1. k \in 9..16 /\ pos = o + k /\ k - 9 \in 0..7 /\ pos' - o = k + 1 /\ pos' > 2
        /\ (k - 9) + 1 = (pos' - o) - 9
    BY <1>0, <1>10
  <2>2. w[pos] = Load(cacheSet[k - 9])
    BY <1>2, <2>1 DEF C
  <2>3. l1' \in Loaded(l1, cacheSet[k - 9])
    BY <1>3, <2>1, <2>2, BothArrays DEF LoadsAt
  <2>4. Filling(l1, cacheSet, k - 9)
    BY <1>1, <2>1 DEF PreamblePlace, o
  <2> HIDE DEF k
  <2>5. Filling(l1', cacheSet, (k - 9) + 1)
    BY <1>1, <2>1, <2>3, <2>4, BothArrays, FillStep
  <2>6. k = 16 => RaceEnd(l1', call, 0)
    <3>1. k = 16 => Filling(l1', cacheSet, 8)
      BY <2>5
    <3>2. k = 16 => Stand(l1', cacheSet[0], cacheSet[4], cacheSet[2], cacheSet[6],
                          cacheSet[1], cacheSet[5], cacheSet[3], cacheSet[7])
      BY <3>1, FilledStand
    <3>3. QED
      BY <3>2 DEF RaceEnd, Lines
  <2>7. pos' - o \in 10..17 /\ (pos' - o = 17 => k = 16) /\ (k = 16 => (pos' - o) - 17 = 0)
    BY <2>1
  <2>8. pos' - o >= 17 => RaceEnd(l1', call, (pos' - o) - 17)
    BY <2>6, <2>7
  <2>9. /\ pos' # 1 /\ pos' # 2 /\ pos' - o \notin 1..9
        /\ pos' - o >= 17 => RaceEnd(l1', call', (pos' - o) - 17)
        /\ Filling(l1', cacheSet, (pos' - o) - 9)
    BY <1>1, <2>1, <2>5, <2>7, <2>8
  <2>10. QED
    BY <1>4, <2>9, Zenon DEF PreamblePlace
<1>11. CASE pos - o >= 17
  <2> DEFINE n == (pos - o) - 17
  <2>1. n \in Nat /\ pos = o + 16 + (n + 1) /\ n < Len(AfterPrepare(call))
        /\ n + 1 \in 1..Len(AfterPrepare(call)) /\ (pos' - o) - 17 = n + 1 /\ pos' > 17
        /\ ~(pos' - o \in 1..17) /\ pos - o >= 17
    <3>1. Len(AfterPrepare(call)) \in Nat
      BY <1>1, PreambleParts
    <3>2. pos <= o + 16 + Len(AfterPrepare(call))
      BY <1>1, <1>2
    <3>3. QED
      BY <1>0, <1>11, <3>1, <3>2
  <2>2. w[pos] = AfterPrepare(call)[n + 1]
    BY <1>2, <2>1
  <2>3. AfterPrepare(call)[n + 1] = Load(AfterPrepare(call)[n + 1].at)
    BY <1>1, <2>1, AfterLoads
  <2>4. RaceEnd(l1, call, n)
    BY <1>1, <2>1 DEF PreamblePlace, o
  <2>5. LoadsAt(l1, l1', AfterPrepare(call)[n + 1].at)
    BY <1>3, <2>2, <2>3
  <2> HIDE DEF n
  <2>6. RaceEnd(l1', call, n + 1)
    BY <1>1, <2>1, <2>4, <2>5, RaceStep
  <2>7. /\ pos' # 1 /\ pos' # 2 /\ pos' - o \notin 1..9 /\ pos' - o \notin 9..17
        /\ RaceEnd(l1', call', (pos' - o) - 17)
    <3>1. /\ pos' # 1 /\ pos' # 2 /\ pos' - o \notin 1..9 /\ pos' - o \notin 9..17
      BY <1>0, <2>1
    <3>2. RaceEnd(l1', call', (pos' - o) - 17)
      BY <1>1, <2>1, <2>6
    <3>3. QED
      BY <3>1, <3>2
  <2>8. QED
    BY <1>4, <2>7, Zenon DEF PreamblePlace
<1>12. QED
  BY <1>0, <1>6, <1>7, <1>8, <1>9, <1>10, <1>11

-----------------------------------------------------------------------------
\* The intruder is none of clearSet, but for the first line.
LEMMA IntruderClear ==
  ASSUME LinesApart, NEW c, GoodCall(c)
  PROVE  \A i \in 1..7 : clearSet[i] # Intruder(c)
<1>1. \A i \in 1..7 : clearSet[i] \notin {evictor, l1b_element}
  BY DEF LinesApart
<1>2. \A i \in 1..7 : clearSet[i] # cacheSet[0] /\ clearSet[i] # clearSet[0]
  BY BothArrays
<1>3. Intruder(c) \in {evictor, l1b_element, cacheSet[0], clearSet[0]}
  BY DEF Intruder, GoodCall
<1>4. QED
  BY <1>1, <1>2, <1>3

\* Nor is the mate of the pinned line.
LEMMA MateApart ==
  ASSUME LinesApart, NEW c, GoodCall(c)
  PROVE  /\ Mate(c) \in Line
         /\ \A i \in 1..7 : cacheSet[i] # Mate(c) /\ clearSet[i] # Mate(c)
         /\ Disturbed(c) => Mate(c) = Intruder(c) /\ \A i \in 0..7 : cacheSet[i] # Mate(c)
         /\ ~Disturbed(c) => Mate(c) = cacheSet[0]
         /\ llc_candidate \in Line => Mate(c) # llc_candidate
<1>1. CASE Disturbed(c)
  <2>1. Mate(c) = Intruder(c)
    BY <1>1 DEF Mate
  <2>2. c.fn # "leaky_run" \/ c.arg = evictor
    BY <1>1 DEF Disturbed, Undisturbed, GoodCall, Index
  <2>3. Intruder(c) \in Line /\ \A i \in 0..7 : cacheSet[i] # Intruder(c)
    BY <2>2, IntruderApart
  <2>4. llc_candidate \in Line => Intruder(c) # llc_candidate
    <3>1. Intruder(c) \in {evictor, l1b_element, clearSet[0]}
      BY <2>2 DEF Intruder, GoodCall
    <3>2. QED
      BY <3>1 DEF LinesApart
  <2>5. QED
    BY <1>1, <2>1, <2>3, <2>4, IntruderClear
<1>2. CASE ~Disturbed(c)
  <2>1. Mate(c) = cacheSet[0]
    BY <1>2 DEF Mate
  <2>2. cacheSet[0] # llc_candidate
    BY DEF LinesApart, Index
  <2>3. QED
    BY <1>2, <2>1, <2>2, BothArrays
<1>3. QED
  BY <1>1, <1>2

\* What a set that holds only the lines of cacheSet and one more is free of.
LEMMA OnlyIntruder ==
  ASSUME LinesApart, NEW s \in CacheSet, NEW x \in Line,
         \A n \in Seats : At(s, n) = x \/ \E i \in 0..7 : At(s, n) = cacheSet[i],
         \A i \in 1..7 : clearSet[i] # x
  PROVE  /\ Full(s)
         /\ \A i \in 1..7 : ~Resident(s, clearSet[i])
         /\ Resident(s, clearSet[0]) => clearSet[0] = x
         /\ Resident(s, llc_candidate) => llc_candidate = x
<1>1. \A n \in Seats : At(s, n) # NoLine
  BY BothArrays, NoLineAssumption
<1>2. Full(s)
  BY <1>1, FullSeat
<1>3. \A y : Resident(s, y) => y = x \/ \E i \in 0..7 : y = cacheSet[i]
  <2>1. \A y : Resident(s, y) => \E n \in Seats : At(s, n) = y
    BY ResidentSeat, Zenon
  <2>2. QED
    BY <2>1, Zenon
<1>4. \A i \in 0..7 : Resident(s, clearSet[i]) => clearSet[i] = x
  BY <1>3, BothArrays
<1>5. Resident(s, llc_candidate) => llc_candidate = x
  <2>1. \A i \in 0..7 : cacheSet[i] # llc_candidate
    BY DEF LinesApart, Index
  <2>2. QED
    BY <1>3, <2>1
<1>6. QED
  BY <1>2, <1>4, <1>5

\* The set at the end of a preamble.
LEMMA RaceEnds ==
  ASSUME NEW s, NEW c, GoodCall(c), ~Blind(c), NEW n, n = Len(AfterPrepare(c)),
         RaceEnd(s, c, n)
  PROVE  LET x == Intruder(c) IN
         IF c.fn = "leaky_run" THEN Lines(s, x, 1, 5, 3, 7, 2, 6, 4, 8)
         ELSE IF Disturbed(c) THEN Lines(s, x, 1, 5, 3, 7, 2, 6, 8, 4)
         ELSE Healing(c) /\ Lines(s, x, 8, 5, 3, 7, 2, 6, 0, 4)
<1> DEFINE x == Intruder(c)
<1> HIDE DEF x
<1>1. CASE c.fn = "leaky_run"
  <2>1. AfterPrepare(c) = <<Load(c.arg)>>
    BY <1>1 DEF AfterPrepare
  <2>2. n = 1
    BY <2>1
  <2>3. QED
    BY <1>1, <2>2 DEF RaceEnd
<1>2. CASE c.fn = "showtime_reorder"
  <2>1. AfterPrepare(c) = <<K(0), C(4), C(5), C(7), C(4)>>
          \/ AfterPrepare(c) = <<C(4), K(0), C(5), C(7), C(4)>>
    BY <1>2 DEF AfterPrepare
  <2>2. n = 5
    BY <2>1
  <2>3. IF c.arg = 1 THEN Reordered(s, x, 5) ELSE InOrder(s, x, 5)
    BY <1>2, <2>2 DEF RaceEnd, x
  <2>4. IF c.arg = 1 THEN Lines(s, x, 1, 5, 3, 7, 2, 6, 8, 4)
                     ELSE Lines(s, x, 8, 5, 3, 7, 2, 6, 0, 4)
    BY <2>3 DEF Reordered, InOrder
  <2>5. IF c.arg = 1 THEN Disturbed(c) ELSE ~Disturbed(c) /\ Healing(c)
    BY <1>2 DEF Disturbed, Healing, GoodCall
  <2>6. QED
    BY <1>2, <2>4, <2>5 DEF x
<1>3. CASE c.fn = "showtime_llc_eviction"
  <2>1. \/ AfterPrepare(c) =
             <<Load(llc_candidate), C(6), C(7), Load(l1b_element), C(5), C(7), C(4)>>
        \/ AfterPrepare(c) =
             <<Load(llc_candidate), C(7), C(6), Load(l1b_element), C(5), C(7), C(4)>>
        \/ AfterPrepare(c) =
             <<C(7), Load(llc_candidate), C(6), Load(l1b_element), C(5), C(7), C(4)>>
    BY <1>3 DEF AfterPrepare
  <2>2. n = 7
    BY <2>1
  <2>3. IF c.at7 = 3 THEN SixFirst(s, x, 7) ELSE SevenFirst(s, x, 7)
    BY <1>3, <2>2 DEF RaceEnd, Blind, x
  <2>4. IF c.at7 = 3 THEN Lines(s, x, 1, 5, 3, 7, 2, 6, 8, 4)
                       ELSE Lines(s, x, 8, 5, 3, 7, 2, 6, 0, 4)
    BY <2>3 DEF SixFirst, SevenFirst
  <2>5. IF c.at7 = 3 THEN Disturbed(c) ELSE ~Disturbed(c) /\ Healing(c)
    BY <1>3 DEF Disturbed, Healing, GoodCall, Blind
  <2>6. QED
    BY <1>3, <2>4, <2>5 DEF x
<1>4. QED
  BY <1>1, <1>2, <1>3 DEF GoodCall

\* The lines of the ring at the start of a pass.
LEMMA RingStart ==
  ASSUME NEW m \in {0, 21}
  PROVE  /\ RingLine(m + 6) = cacheSet[7] /\ RingLine(m + 5) = cacheSet[6]
         /\ RingLine(m + 4) = cacheSet[5] /\ RingLine(m + 3) = cacheSet[3]
         /\ RingLine(m + 2) = cacheSet[2] /\ RingLine(m + 1) = cacheSet[1]
BY DEF RingLine, Ring

-----------------------------------------------------------------------------
\* The intruder is a line of the set, and not llc_candidate.
LEMMA IntruderNotLlc ==
  ASSUME LinesApart, NEW c, GoodCall(c), llc_candidate \in Line
  PROVE  Intruder(c) # llc_candidate
<1>1. Intruder(c) \in {evictor, l1b_element, cacheSet[0], clearSet[0]}
  BY DEF Intruder, GoodCall
<1>2. llc_candidate \notin {evictor, l1b_element, cacheSet[0], clearSet[0]}
  BY DEF LinesApart, Index
<1>3. QED
  BY <1>1, <1>2

LEMMA IntruderIsLine ==
  ASSUME LinesApart, NEW c, GoodCall(c)
  PROVE  Intruder(c) \in Line
BY SetsAssumption, BothArrays DEF Intruder, GoodCall, LinesApart

\* A set of the lines of cacheSet and the intruder is tidy.
LEMMA LinesTidy ==
  ASSUME LinesApart, NEW s \in CacheSet, NEW c, GoodCall(c),
         \A n \in Seats : At(s, n) = Intruder(c) \/ \E i \in 0..7 : At(s, n) = cacheSet[i]
  PROVE  Tidy(s, c)
<1>1. /\ Full(s)
      /\ \A i \in 1..7 : ~Resident(s, clearSet[i])
      /\ Resident(s, clearSet[0]) => clearSet[0] = Intruder(c)
      /\ Resident(s, llc_candidate) => llc_candidate = Intruder(c)
  BY IntruderClear, IntruderIsLine, OnlyIntruder
<1>2. QED
  BY <1>1, IntruderNotLlc DEF Tidy

\* The numbers of the first position of a pass.
LEMMA GapStart ==
  ASSUME NEW c
  PROVE  Gap(c) \in {2, 3, 4} /\ (1 - 1) % Gap(c) = 0 /\ 3 * ((1 - 1) \div 4) + 0 = 0
<1>1. Gap(c) \in {2, 3, 4}
  BY DEF Gap
<1>2. QED
  BY <1>1

\* The line up of a disturbed run, and of a baseline, at the start of a pass.
LEMMA DisturbedStart ==
  ASSUME NEW s, NEW c, Disturbed(c),
         At(s, 1) = cacheSet[1], At(s, 2) = cacheSet[5], At(s, 3) = cacheSet[3],
         At(s, 4) = cacheSet[7], At(s, 5) = cacheSet[2], At(s, 6) = cacheSet[6],
         Mated(s, Mate(c), pin, {7})
  PROVE  MatePlace(s, c, 1)
<1>1. InCycle(s, Mate(c), 0, 0)
  BY RingStart DEF InCycle, Cycle
<1>2. QED
  BY <1>1, GapStart DEF MatePlace

\* The same of a run with all its lines in the set.
LEMMA BaselineStart ==
  ASSUME NEW s, NEW c, ~Disturbed(c), AllHeld(s), Mated(s, Mate(c), pin, {7})
  PROVE  MatePlace(s, c, 1)
<1>1. Mated(s, Mate(c), pin, Odd)
  BY DEF Mated, Odd
<1>2. QED
  BY <1>1, GapStart DEF MatePlace

\* When each line of cacheSet has a seat, all are held.
LEMMA LinesAllHeld ==
  ASSUME NEW s \in CacheSet, \A i \in 0..7 : \E n \in Seats : At(s, n) = cacheSet[i]
  PROVE  AllHeld(s)
BY ResidentSeat, Zenon DEF AllHeld, Index

\* From the preamble into the timed loop.
LEMMA LoopStarts ==
  ASSUME LinesApart, NEW s \in CacheSet, HeldOnce(s), NEW c, GoodCall(c), Suits(c),
         NEW n, n = Len(AfterPrepare(c)), RaceEnd(s, c, n)
  PROVE  LoopAt(s, c, 0, 1)
<1> DEFINE x == Intruder(c)
<1>1. CASE Blind(c)
  <2>1. c.fn = "showtime_llc_eviction" /\ ~Falls(c)
    BY <1>1 DEF Blind, Falls
  <2>2. n # 0
    <3>1. \/ AfterPrepare(c) =
               <<Load(llc_candidate), C(6), C(7), Load(l1b_element), C(5), C(7), C(4)>>
          \/ AfterPrepare(c) =
               <<Load(llc_candidate), C(7), C(6), Load(l1b_element), C(5), C(7), C(4)>>
          \/ AfterPrepare(c) =
               <<C(7), Load(llc_candidate), C(6), Load(l1b_element), C(5), C(7), C(4)>>
      BY <2>1 DEF AfterPrepare
    <3>2. QED
      BY <3>1
  <2>3. ClearOut(s)
    BY <1>1, <2>1, <2>2 DEF RaceEnd
  <2>4. Tidy(s, c)
    BY <1>1, <2>3 DEF ClearOut, Tidy, Index
  <2>5. LastPlace(s, c, 1)
    BY <2>1 DEF LastPlace
  <2>6. QED
    BY <1>1, <2>1, <2>4, <2>5 DEF LoopAt
<1>2. CASE ~Blind(c) /\ c.fn = "leaky_run"
  <2>1. Lines(s, x, 1, 5, 3, 7, 2, 6, 4, 8) /\ x = c.arg
    BY <1>2, RaceEnds DEF Intruder
  <2>2. Tidy(s, c)
    <3>1. \A m \in Seats : At(s, m) = Intruder(c) \/ \E i \in 0..7 : At(s, m) = cacheSet[i]
      BY <2>1 DEF Lines, Stand, Seats
    <3>2. QED
      BY <3>1, LinesTidy
  <2>3. LastPlace(s, c, 1)
    BY <1>2 DEF LastPlace
  <2>4. ASSUME c.arg = cacheSet[0]
        PROVE  AllHeld(s)
    <3>1. \A i \in 0..7 : \E m \in Seats : At(s, m) = cacheSet[i]
      BY <2>1, <2>4 DEF Lines, Stand, Seats
    <3>2. QED
      BY <3>1, LinesAllHeld
  <2>5. Undisturbed(c) => c.arg = cacheSet[0]
    BY <1>2 DEF Undisturbed, GoodCall, LinesApart
  <2>6. ASSUME ~Falls(c)
        PROVE  MatePlace(s, c, 1)
    <3>1. Mate(c) = x /\ (Disturbed(c) \/ c.arg = cacheSet[0])
      BY <1>2, <2>1, <2>5, <2>6 DEF Mate, Disturbed, Falls
    <3>2. Mated(s, Mate(c), pin, {7})
      BY <2>1, <3>1 DEF Lines, Stand, Mated, pin, Pinned
    <3>3. QED
      BY <2>1, <2>4, <3>1, <3>2, DisturbedStart, BaselineStart DEF Lines, Stand
  <2>7. ~Ill(c, 0, 1)
    BY <1>2 DEF Ill
  <2>8. QED
    BY <2>2, <2>3, <2>4, <2>5, <2>6, <2>7 DEF LoopAt
<1>3. CASE ~Blind(c) /\ c.fn # "leaky_run" /\ Disturbed(c)
  <2>1. Lines(s, x, 1, 5, 3, 7, 2, 6, 8, 4)
    BY <1>3, RaceEnds
  <2>2. Tidy(s, c)
    <3>1. \A m \in Seats : At(s, m) = Intruder(c) \/ \E i \in 0..7 : At(s, m) = cacheSet[i]
      BY <2>1 DEF Lines, Stand, Seats
    <3>2. QED
      BY <3>1, LinesTidy
  <2>3. LastPlace(s, c, 1)
    BY <2>1 DEF LastPlace, Lines, Stand, pin, Pinned
  <2>4. Mate(c) = x
    BY <1>3 DEF Mate
  <2>5. Mated(s, Mate(c), pin, {7})
    BY <2>1, <2>4 DEF Lines, Stand, Mated, pin, Pinned
  <2>6. MatePlace(s, c, 1)
    BY <1>3, <2>1, <2>5, DisturbedStart DEF Lines, Stand
  <2>7. ~Ill(c, 0, 1) /\ ~Falls(c)
    BY <1>3 DEF Ill, Falls, Healing, Disturbed
  <2>8. QED
    BY <2>2, <2>3, <2>6, <2>7 DEF LoopAt
<1>4. CASE ~Blind(c) /\ c.fn # "leaky_run" /\ ~Disturbed(c)
  <2>1. Lines(s, x, 8, 5, 3, 7, 2, 6, 0, 4) /\ Healing(c)
    BY <1>4, RaceEnds
  <2>2. Tidy(s, c)
    <3>1. \A m \in Seats : At(s, m) = Intruder(c) \/ \E i \in 0..7 : At(s, m) = cacheSet[i]
      BY <2>1 DEF Lines, Stand, Seats
    <3>2. QED
      BY <3>1, LinesTidy
  <2>3. LastPlace(s, c, 1)
    BY <2>1 DEF LastPlace, Lines, Stand, pin, Pinned
  <2>4. Ill(c, 0, 1) /\ ~Falls(c)
    BY <1>4, <2>1 DEF Ill, Falls
  <2>5. IllPlace(s, c, 1)
    BY <2>1 DEF IllPlace
  <2>6. QED
    BY <1>4, <2>2, <2>3, <2>4, <2>5 DEF LoopAt
<1>5. QED
  BY <1>1, <1>2, <1>3, <1>4

\* A pass ends with the pinned line.
LEMMA PassLength ==
  ASSUME NEW c, Traversal(c) # simple_run
  PROVE  LET n == Len(Traversal(c)) IN
         /\ n \in 21..28 /\ n % Gap(c) = 0 /\ Traversal(c)[n] = Pinned
         /\ Gap(c) = 4 => n = 28
<1>1. CASE c.dist = 4
  <2>1. Traversal(c) = leaky_run_b4 /\ Gap(c) = 4
    BY <1>1 DEF Traversal, Gap
  <2>2. QED
    BY <2>1, Traversal4 DEF Pinned
<1>2. CASE c.dist = 3
  <2>1. Traversal(c) = leaky_run_b3 /\ Gap(c) = 3
    BY <1>2 DEF Traversal, Gap
  <2>2. QED
    BY <2>1, Traversal3 DEF Pinned
<1>3. CASE c.dist \notin {3, 4}
  <2>1. Traversal(c) = leaky_run_b2 /\ Gap(c) = 2
    BY <1>3 DEF Traversal, Gap
  <2>2. QED
    BY <2>1, Traversal2 DEF Pinned
<1>4. QED
  BY <1>1, <1>2, <1>3

\* Only the calls that fall back to simple_run do not go round the lines.
LEMMA SuitedTraversal ==
  ASSUME NEW c, Suits(c), ~Falls(c)
  PROVE  Traversal(c) # simple_run
<1>1. Traversal(c) \in {leaky_run_b4, leaky_run_b3, leaky_run_b2}
  BY DEF Traversal, Suits, Falls
<1>2. Len(simple_run) = 32 /\ Len(leaky_run_b4) = 28 /\ Len(leaky_run_b3) = 21 /\ Len(leaky_run_b2) = 28
  BY Simple, Traversal4, Traversal3, Traversal2
<1>3. QED
  BY <1>1, <1>2

\* The numbers of the position after a pass.
LEMMA PassEndNumber ==
  ASSUME NEW n \in 21..28
  PROVE  n + 1 > 1 /\ ~(n + 1 <= 3) /\ ~(n + 1 <= 2) /\ (n + 1) - 1 = n
OBVIOUS

\* From the last load of a pass to the next test of the loop.
LEMMA PassEnds ==
  ASSUME NEW s, NEW c, GoodCall(c), Suits(c), NEW r \in Nat,
         LoopAt(s, c, r, Len(Traversal(c)) + 1)
  PROVE  LoopAt(s, c, r + 1, 1)
<1> DEFINE n == Len(Traversal(c))
<1>1. n \in Nat
  BY TraversalIndex
<1>2. Tidy(s, c) /\ (Falls(c) /\ Undisturbed(c) => AllHeld(s))
  BY DEF LoopAt
<1>3. ~Ill(c, r + 1, 1)
  BY DEF Ill
<1>4. CASE Falls(c)
  BY <1>2, <1>4 DEF LoopAt, LastPlace, Falls
<1>5. CASE ~Falls(c)
  <2>1. n \in 21..28 /\ n % Gap(c) = 0 /\ Traversal(c)[n] = Pinned /\ (Gap(c) = 4 => n = 28)
    BY <1>5, SuitedTraversal, PassLength
  <2>0. n + 1 > 1 /\ ~(n + 1 <= 3) /\ ~(n + 1 <= 2)
    BY <2>1, PassEndNumber, Zenon
  <2>2. At(s, 8) = cacheSet[Traversal(c)[(n + 1) - 1]]
    <3>1. LastPlace(s, c, n + 1)
      BY DEF LoopAt
    <3>2. QED
      BY <2>0, <3>1 DEF LastPlace
  <2>3. (n + 1) - 1 = n
    BY <2>1
  <2>4. At(s, 8) = pin
    BY <2>1, <2>2, <2>3 DEF pin
  <2>5. LastPlace(s, c, 1)
    BY <2>4 DEF LastPlace
  <2>6. ASSUME ~Blind(c)
        PROVE  MatePlace(s, c, 1)
    <3>1. ~Ill(c, r, n + 1)
      BY <2>0, Zenon DEF Ill
    <3>2. MatePlace(s, c, n + 1)
      BY <1>5, <2>6, <3>1 DEF LoopAt
    <3>3. Mated(s, Mate(c), pin, {7})
      BY <2>1, <2>3, <3>2 DEF MatePlace
    <3>4. CASE ~Disturbed(c)
      <4>1. AllHeld(s)
        BY <3>2, <3>4 DEF MatePlace
      <4>2. QED
        BY <3>3, <3>4, <4>1, BaselineStart
    <3>5. CASE Disturbed(c) /\ Gap(c) = 4
      <4>1. (n + 1) - 1 = 28 /\ 3 * (28 \div 4) + 0 = 21 /\ 28 % 4 = 0
        BY <2>1, <3>5
      <4>2. InCycle(s, Mate(c), 0, 21)
        BY <3>2, <3>5, <4>1 DEF MatePlace
      <4>3. /\ At(s, 1) = cacheSet[1] /\ At(s, 2) = cacheSet[5] /\ At(s, 3) = cacheSet[3]
            /\ At(s, 4) = cacheSet[7] /\ At(s, 5) = cacheSet[2] /\ At(s, 6) = cacheSet[6]
        BY <4>2, RingStart DEF InCycle, Cycle
      <4>4. QED
        BY <3>3, <3>5, <4>3, DisturbedStart
    <3>6. CASE Disturbed(c) /\ Gap(c) # 4
      BY <3>3, <3>6, GapStart DEF MatePlace
    <3>7. QED
      BY <3>4, <3>5, <3>6
  <2>7. QED
    BY <1>2, <1>3, <1>5, <2>5, <2>6 DEF LoopAt
<1>6. QED
  BY <1>4, <1>5

-----------------------------------------------------------------------------
\* A refresh finds none of the lines of clearSet, but for the intruder of
\* showtime_reorder, which it then loads first.
LEMMA RefreshStarts ==
  ASSUME LinesApart, NEW s \in CacheSet, HeldOnce(s), NEW c, GoodCall(c), Suits(c),
         c.refresh # 0, NEW r \in Nat, LoopAt(s, c, r, Len(Traversal(c)) + 1)
  PROVE  RefreshAt(s, c, 1)
<1> DEFINE x == Mate(c)
<1>1. ~Falls(c) /\ ~Blind(c)
  BY DEF Suits
<1>2. LET n == Len(Traversal(c)) IN
      n \in 21..28 /\ n % Gap(c) = 0 /\ Traversal(c)[n] = Pinned
  BY <1>1, SuitedTraversal, PassLength
<1>3. At(s, 8) = pin
  <2>1. LastPlace(s, c, Len(Traversal(c)) + 1)
    BY DEF LoopAt
  <2>2. /\ Len(Traversal(c)) + 1 > 1 /\ (Len(Traversal(c)) + 1) - 1 = Len(Traversal(c))
    BY <1>2, PassEndNumber, Zenon
  <2>3. QED
    BY <1>2, <2>1, <2>2 DEF LastPlace, pin
<1>4. MatePlace(s, c, Len(Traversal(c)) + 1)
  <2>1. ~(Len(Traversal(c)) + 1 <= 3) /\ ~(Len(Traversal(c)) + 1 <= 2)
    BY <1>2, PassEndNumber, Zenon
  <2>2. ~Ill(c, r, Len(Traversal(c)) + 1)
    BY <2>1, Zenon DEF Ill
  <2>3. QED
    BY <1>1, <2>2 DEF LoopAt
<1>5. Mated(s, x, pin, {7})
  <2>1. ((Len(Traversal(c)) + 1) - 1) % Gap(c) = 0
    BY <1>2
  <2>2. QED
    BY <1>4, <2>1 DEF MatePlace
<1>6. x # pin
  BY MateApart DEF pin, Pinned
<1>7. At(s, 7) = x
  BY <1>3, <1>5, <1>6 DEF Mated
<1>8. Full(s) /\ \A i \in 1..7 : ~Resident(s, clearSet[i])
  BY DEF LoopAt, Tidy
<1>9. \A i \in 1..5 : \A n \in 2..8 : At(s, n) # FirstHalf[i]
  <2>1. \A i \in 1..7 : \A n \in Seats : At(s, n) # clearSet[i]
    BY <1>8, ResidentSeat
  <2>2. QED
    BY <2>1 DEF FirstHalf, Seats
<1>10. CASE x = clearSet[0]
  <2>1. OwnRefresh(s, pin, FirstHalf, 1)
    BY <1>3, <1>7, <1>9, <1>10 DEF OwnRefresh, ToCome, FirstHalf
  <2>2. QED
    BY <1>8, <1>10, <2>1 DEF RefreshAt
<1>11. CASE x # clearSet[0]
  <2>1. ~Resident(s, clearSet[0])
    <3>1. CASE Disturbed(c)
      BY <1>11, <3>1, MateApart DEF LoopAt, Tidy
    <3>2. CASE ~Disturbed(c)
      <4>1. \A i \in 0..7 : Resident(s, cacheSet[i])
        BY <1>4, <3>2 DEF MatePlace, AllHeld, Index
      <4>2. \A y : Resident(s, y) => \E i \in 0..7 : y = cacheSet[i]
        BY <4>1, BothArrays, EightFill
      <4>3. QED
        BY <4>2, BothArrays
    <3>3. QED
      BY <3>1, <3>2
  <2>2. \A n \in 2..8 : At(s, n) # clearSet[0]
    BY <2>1, ResidentSeat DEF Seats
  <2>3. ToCome(s, FirstHalf, 0)
    <3>1. FirstHalf[0] = clearSet[0] /\ \A j \in 0..5 : j = 0 \/ j \in 1..5
      BY DEF FirstHalf
    <3>2. QED
      BY <1>9, <2>2, <3>1 DEF ToCome
  <2>4. HalfRefresh(s, x, pin, FirstHalf, 1)
    BY <1>3, <1>7, <2>3 DEF HalfRefresh
  <2>5. QED
    BY <1>8, <1>11, <2>4 DEF RefreshAt
<1>12. QED
  BY <1>10, <1>11

\* The lines of the two halves of a refresh.
LEMMA Halves ==
  ASSUME LinesApart
  PROVE  /\ FirstHalf \in [0..5 -> Line] /\ \A i, j \in 0..5 : FirstHalf[i] = FirstHalf[j] => i = j
         /\ SecondHalf \in [0..5 -> Line] /\ \A i, j \in 0..5 : SecondHalf[i] = SecondHalf[j] => i = j
         /\ \A i, j \in 0..5 : SecondHalf[j] # FirstHalf[i]
         /\ \A i \in 0..5 : FirstHalf[i] # pin /\ SecondHalf[i] # pin
         /\ \A i \in 0..5 : \E k \in 1..7 : SecondHalf[i] = cacheSet[k]
         /\ \A i \in 1..5 : \E k \in 1..7 : FirstHalf[i] = clearSet[k]
         /\ FirstHalf[0] = clearSet[0]
<1>1. SecondHalf = [i \in 0..5 |-> cacheSet[<<1, 2, 3, 5, 6, 7>>[i + 1]]]
  BY DEF SecondHalf
<1>2. \A i \in 0..5 : i = 0 \/ i = 1 \/ i = 2 \/ i = 3 \/ i = 4 \/ i = 5
  OBVIOUS
<1>3. /\ SecondHalf[0] = cacheSet[1] /\ SecondHalf[1] = cacheSet[2] /\ SecondHalf[2] = cacheSet[3]
      /\ SecondHalf[3] = cacheSet[5] /\ SecondHalf[4] = cacheSet[6] /\ SecondHalf[5] = cacheSet[7]
  BY <1>1
<1>4. \A i \in 0..5 : \E k \in 1..7 : SecondHalf[i] = cacheSet[k] /\ k # 4
  BY <1>2, <1>3
<1>5. SecondHalf \in [0..5 -> Line]
  <2>1. \A i \in 0..5 : SecondHalf[i] \in Line
    BY <1>4, BothArrays
  <2>2. QED
    BY <1>1, <2>1
<1>6. \A i, j \in 0..5 : SecondHalf[i] = SecondHalf[j] => i = j
  <2>1. /\ cacheSet[1] # cacheSet[2] /\ cacheSet[1] # cacheSet[3] /\ cacheSet[1] # cacheSet[5]
        /\ cacheSet[1] # cacheSet[6] /\ cacheSet[1] # cacheSet[7]
        /\ cacheSet[2] # cacheSet[3] /\ cacheSet[2] # cacheSet[5] /\ cacheSet[2] # cacheSet[6]
        /\ cacheSet[2] # cacheSet[7]
        /\ cacheSet[3] # cacheSet[5] /\ cacheSet[3] # cacheSet[6] /\ cacheSet[3] # cacheSet[7]
        /\ cacheSet[5] # cacheSet[6] /\ cacheSet[5] # cacheSet[7] /\ cacheSet[6] # cacheSet[7]
    BY BothArrays
  <2>2. QED
    BY <1>2, <1>3, <2>1
<1>7. /\ FirstHalf \in [0..5 -> Line] /\ \A i \in 0..5 : FirstHalf[i] = clearSet[i]
  BY BothArrays DEF FirstHalf
<1>8. \A i, j \in 0..5 : FirstHalf[i] = FirstHalf[j] => i = j
  BY <1>7, BothArrays
<1>9. \A i, j \in 0..5 : SecondHalf[j] # FirstHalf[i]
  BY <1>4, <1>7, BothArrays
<1>10. \A i \in 0..5 : FirstHalf[i] # pin /\ SecondHalf[i] # pin
  BY <1>4, <1>7, BothArrays DEF pin, Pinned
<1>11. QED
  BY <1>4, <1>5, <1>6, <1>7, <1>8, <1>9, <1>10

\* leaky_refresh_b4 is the two halves, one after the other.
LEMMA RefreshLines ==
  /\ \A p \in 1..8 : leaky_refresh_b4[p].at = HalfLoad(pin, FirstHalf, p)
  /\ \A p \in 9..16 : leaky_refresh_b4[p].at = HalfLoad(pin, SecondHalf, p - 8)
<1>1. /\ SecondHalf[0] = cacheSet[1] /\ SecondHalf[1] = cacheSet[2] /\ SecondHalf[2] = cacheSet[3]
      /\ SecondHalf[3] = cacheSet[5] /\ SecondHalf[4] = cacheSet[6] /\ SecondHalf[5] = cacheSet[7]
  BY DEF SecondHalf
<1>2. \A i \in 0..5 : FirstHalf[i] = clearSet[i]
  BY DEF FirstHalf
<1>3. \A p \in 1..8 : leaky_refresh_b4[p].at = HalfLoad(pin, FirstHalf, p)
  BY <1>2 DEF leaky_refresh_b4, HalfLoad, C, K, Load, pin, Pinned
<1>4. \A p \in 9..16 : leaky_refresh_b4[p].at = HalfLoad(pin, SecondHalf, p - 8)
  BY <1>1 DEF leaky_refresh_b4, HalfLoad, C, K, Load, pin, Pinned
<1>5. QED
  BY <1>3, <1>4

\* A load of a refresh.
LEMMA RefreshLoads ==
  ASSUME LinesApart, NEW s \in CacheSet, HeldOnce(s), NEW c, GoodCall(c),
         NEW p \in 1..16, RefreshAt(s, c, p), NEW r \in Loaded(s, leaky_refresh_b4[p].at)
  PROVE  RefreshAt(r, c, p + 1)
<1> DEFINE x == Mate(c)
<1>1. /\ x \in Line /\ x # pin
      /\ \A i \in 0..5 : SecondHalf[i] # x
      /\ x # clearSet[0] => \A i \in 0..5 : FirstHalf[i] # x
  <2>1. \A i \in 0..5 : i = 0 \/ i \in 1..5
    OBVIOUS
  <2>2. QED
    BY <2>1, MateApart, Halves DEF pin, Pinned
<1>2. leaky_refresh_b4[p].at \in Line
  BY BothArrays DEF leaky_refresh_b4, C, K, Load
<1>3. Full(s) /\ Full(r)
  BY <1>2, FullKept DEF RefreshAt
<1>4. pin \in Line
  BY PinIsLine
<1>5. CASE p \in 1..8
  <2>1. r \in Loaded(s, HalfLoad(pin, FirstHalf, p))
    BY <1>5, RefreshLines
  <2>2. CASE x = clearSet[0]
    <3>1. OwnRefresh(s, pin, FirstHalf, p)
      BY <1>5, <2>2 DEF RefreshAt
    <3>2. OwnRefresh(r, pin, FirstHalf, p + 1)
      BY <1>3, <1>4, <1>5, <2>1, <3>1, Halves, OwnStep
    <3>3. p = 8 => HalfRefresh(r, x, pin, SecondHalf, 1)
      <4>1. p = 8 => OwnRefresh(r, pin, FirstHalf, 9) /\ x = FirstHalf[0]
        BY <2>2, <3>2, Halves
      <4>2. QED
        BY <1>1, <4>1, Halves, HalfWay
    <3>4. QED
      BY <1>3, <1>5, <2>2, <3>2, <3>3 DEF RefreshAt
  <2>3. CASE x # clearSet[0]
    <3>1. HalfRefresh(s, x, pin, FirstHalf, p)
      BY <1>5, <2>3 DEF RefreshAt
    <3>2. HalfRefresh(r, x, pin, FirstHalf, p + 1)
      BY <1>1, <1>3, <1>4, <1>5, <2>1, <2>3, <3>1, Halves, HalfStep
    <3>3. p = 8 => HalfRefresh(r, x, pin, SecondHalf, 1)
      <4>1. p = 8 => HalfRefresh(r, x, pin, FirstHalf, 9)
        BY <3>2
      <4>2. QED
        BY <1>1, <4>1, Halves, HalfWay
    <3>4. QED
      BY <1>3, <1>5, <2>3, <3>2, <3>3 DEF RefreshAt
  <2>4. QED
    BY <2>2, <2>3
<1>6. CASE p \in 9..16
  <2>1. r \in Loaded(s, HalfLoad(pin, SecondHalf, p - 8))
    BY <1>6, RefreshLines
  <2>2. HalfRefresh(s, x, pin, SecondHalf, p - 8)
    BY <1>6 DEF RefreshAt
  <2>3. p - 8 \in 1..8 /\ (p - 8) + 1 = (p + 1) - 8 /\ p + 1 \notin 1..8
    BY <1>6
  <2>4. HalfRefresh(r, x, pin, SecondHalf, (p - 8) + 1)
    BY <1>1, <1>3, <1>4, <2>1, <2>2, <2>3, Halves, HalfStep
  <2>5. QED
    BY <1>3, <2>3, <2>4 DEF RefreshAt
<1>7. QED
  BY <1>5, <1>6

\* A refresh leaves the set as the preamble of a disturbed run, or of a
\* baseline, does.
LEMMA RefreshEnds ==
  ASSUME LinesApart, NEW s \in CacheSet, HeldOnce(s), NEW c, GoodCall(c), Suits(c),
         c.refresh # 0, RefreshAt(s, c, 17), NEW r \in Nat
  PROVE  LoopAt(s, c, r + 1, 1)
<1> DEFINE x == Mate(c)
<1>1. ~Falls(c) /\ ~Blind(c)
  BY DEF Suits
<1>2. HalfRefresh(s, x, pin, SecondHalf, 9)
  BY DEF RefreshAt
<1>3. /\ SecondHalf[0] = cacheSet[1] /\ SecondHalf[1] = cacheSet[2] /\ SecondHalf[2] = cacheSet[3]
      /\ SecondHalf[3] = cacheSet[5] /\ SecondHalf[4] = cacheSet[6] /\ SecondHalf[5] = cacheSet[7]
  BY DEF SecondHalf
<1>4. Stand(s, cacheSet[1], cacheSet[5], cacheSet[3], cacheSet[7],
            cacheSet[2], cacheSet[6], x, cacheSet[4])
  BY <1>2, <1>3 DEF HalfRefresh, pin, Pinned
<1>5. Tidy(s, c)
  <2>1. x = Intruder(c) \/ x = cacheSet[0]
    BY DEF Mate
  <2>2. \A m \in Seats : At(s, m) = Intruder(c) \/ \E i \in 0..7 : At(s, m) = cacheSet[i]
    BY <1>4, <2>1 DEF Stand, Seats
  <2>3. QED
    BY <2>2, LinesTidy
<1>6. LastPlace(s, c, 1)
  BY <1>4 DEF LastPlace, Stand, pin, Pinned
<1>7. ~Ill(c, r + 1, 1)
  BY DEF Ill
<1>8. Mated(s, Mate(c), pin, {7})
  BY <1>4 DEF Stand, Mated, pin, Pinned
<1>9. CASE Disturbed(c)
  <2>1. MatePlace(s, c, 1)
    BY <1>4, <1>8, <1>9, DisturbedStart DEF Stand
  <2>2. QED
    BY <1>1, <1>5, <1>6, <1>7, <2>1 DEF LoopAt
<1>10. CASE ~Disturbed(c)
  <2>1. x = cacheSet[0]
    BY <1>10 DEF Mate
  <2>2. \A i \in 0..7 : \E m \in Seats : At(s, m) = cacheSet[i]
    BY <1>4, <2>1 DEF Stand, Seats
  <2>3. AllHeld(s)
    BY <2>2, LinesAllHeld
  <2>4. MatePlace(s, c, 1)
    BY <1>8, <1>10, <2>3, BaselineStart
  <2>5. QED
    BY <1>1, <1>5, <1>6, <1>7, <2>4 DEF LoopAt
<1>11. QED
  BY <1>9, <1>10

\* A run leaves the set so that the next one can clear it.
LEMMA RunEnds ==
  ASSUME LinesApart, NEW s \in CacheSet, HeldOnce(s), NEW c, GoodCall(c),
         NEW r, LoopAt(s, c, r, 1)
  PROVE  Idle(s)
<1>1. Tidy(s, c) /\ LastPlace(s, c, 1)
  BY DEF LoopAt
<1>2. SUFFICES ASSUME llc_candidate \in Line, NEW n \in Seats, At(s, n) = clearSet[0]
               PROVE  n \in {1, 7} /\ ~Resident(s, llc_candidate)
  BY <1>1 DEF Idle, Tidy
<1>3. clearSet[0] = Intruder(c)
  BY <1>1, <1>2, ResidentSeat DEF Tidy
<1>4. c.fn = "showtime_reorder"
  <2>1. clearSet[0] \notin {evictor, l1b_element, cacheSet[0]}
    BY <1>2, BothArrays DEF LinesApart
  <2>2. QED
    BY <1>3, <2>1 DEF Intruder, GoodCall
<1>5. ~Falls(c) /\ ~Blind(c)
  BY <1>4 DEF Falls, Blind
<1>6. ~Resident(s, llc_candidate)
  BY <1>1, <1>2, <1>5 DEF Tidy
<1>7. At(s, 8) = pin
  BY <1>1, <1>4 DEF LastPlace
<1>8. n # 8
  BY <1>2, <1>7, BothArrays DEF pin, Pinned
<1>9. CASE Ill(c, r, 1)
  <2>1. Lines(s, clearSet[0], 8, 5, 3, 7, 2, 6, 0, 4)
    BY <1>3, <1>5, <1>9 DEF LoopAt, IllPlace
  <2>2. At(s, 1) = clearSet[0] /\ 1 \in Seats
    BY <2>1 DEF Lines, Stand, Seats
  <2>3. clearSet[0] # NoLine
    BY BothArrays, NoLineAssumption
  <2>4. n = 1
    BY <1>2, <2>2, <2>3, OnceSeat
  <2>5. QED
    BY <1>6, <2>4
<1>10. CASE ~Ill(c, r, 1)
  <2>1. MatePlace(s, c, 1)
    BY <1>5, <1>10 DEF LoopAt
  <2>2. Mated(s, Mate(c), pin, {7})
    BY <2>1, GapStart DEF MatePlace
  <2>3. CASE Disturbed(c)
    <3>1. Mate(c) = clearSet[0]
      BY <1>3, <2>3 DEF Mate
    <3>2. At(s, 7) = clearSet[0] /\ 7 \in Seats
      BY <1>7, <2>2, <3>1, BothArrays DEF Mated, pin, Pinned, Seats
    <3>3. clearSet[0] # NoLine
      BY BothArrays, NoLineAssumption
    <3>4. n = 7
      BY <1>2, <3>2, <3>3, OnceSeat
    <3>5. QED
      BY <1>6, <3>4
  <2>4. CASE ~Disturbed(c)
    <3>1. \A i \in 0..7 : Resident(s, cacheSet[i])
      BY <2>1, <2>4 DEF MatePlace, AllHeld, Index
    <3>2. \A y : Resident(s, y) => \E i \in 0..7 : y = cacheSet[i]
      BY <3>1, BothArrays, EightFill
    <3>3. Resident(s, clearSet[0])
      BY <1>2, ResidentSeat
    <3>4. QED
      BY <3>2, <3>3, BothArrays
  <2>5. QED
    BY <2>3, <2>4
<1>11. QED
  BY <1>9, <1>10

-----------------------------------------------------------------------------
\* A load of the timed loop.
LEMMA TidyKept ==
  ASSUME LinesApart, NEW s \in CacheSet, NEW c, Tidy(s, c),
         NEW i \in Index, NEW r \in Loaded(s, cacheSet[i])
  PROVE  Tidy(r, c) /\ r \in CacheSet /\ At(r, 8) = cacheSet[i]
<1>1. /\ cacheSet[i] \in Line
      /\ \A j \in Index : clearSet[j] # cacheSet[i]
      /\ cacheSet[i] # llc_candidate
  BY SetsAssumption DEF LinesApart
<1>2. \A j \in 1..7 : j \in Index
  BY DEF Index
<1>3. Full(r) /\ \A j \in 1..7 : ~Resident(r, clearSet[j])
  BY <1>1, <1>2, StaysOut DEF Tidy
<1>4. \A y : y # cacheSet[i] /\ Resident(r, y) => Resident(s, y)
  BY <1>1, OnlyComes
<1>5. clearSet[0] # cacheSet[i]
  BY <1>1 DEF Index
<1>6. Tidy(r, c)
  BY <1>1, <1>3, <1>4, <1>5 DEF Tidy
<1>7. At(r, 8) = cacheSet[i]
  BY <1>1, FullSeatLoaded DEF Tidy, LoadedAt
<1>8. QED
  BY <1>1, <1>6, <1>7, LoadedType

\* The indices of a traversal: the pinned one at every Gap-th place and only
\* there, and 0 and 1 at the start.
LEMMA PinnedPlaces ==
  ASSUME NEW c, NEW p \in 1..Len(Traversal(c)), Traversal(c) # simple_run
  PROVE  /\ Traversal(c)[p] \in Index /\ p \in 1..28
         /\ Traversal(c)[p] = 4 <=> p % Gap(c) = 0
         /\ p = 1 => Traversal(c)[p] = 0
         /\ p = 2 /\ Gap(c) # 2 => Traversal(c)[p] = 1
         /\ p = 3 /\ Gap(c) = 2 => Traversal(c)[p] = 1
         /\ Gap(c) = 4 => Traversal(c) = leaky_run_b4
<1>1. CASE c.dist = 4
  <2>1. Traversal(c) = leaky_run_b4 /\ Gap(c) = 4
    BY <1>1 DEF Traversal, Gap
  <2>2. p \in 1..28
    BY <2>1, Traversal4
  <2>3. \A k \in 1..28 : leaky_run_b4[k] = 4 <=> k % 4 = 0
    <3>1. \A k \in 1..28 : k % 4 # 0 => leaky_run_b4[k] # 4
      BY SMTT(60) DEF leaky_run_b4
    <3>2. QED
      BY <3>1, Traversal4
  <2>4. leaky_run_b4[1] = 0 /\ leaky_run_b4[2] = 1
    BY DEF leaky_run_b4
  <2>5. QED
    BY <2>1, <2>2, <2>3, <2>4, Traversal4
<1>2. CASE c.dist = 3
  <2>1. Traversal(c) = leaky_run_b3 /\ Gap(c) = 3
    BY <1>2 DEF Traversal, Gap
  <2>2. p \in 1..21
    BY <2>1, Traversal3
  <2>3. \A k \in 1..21 : leaky_run_b3[k] = 4 <=> k % 3 = 0
    <3>1. \A k \in 1..21 : k % 3 # 0 => leaky_run_b3[k] # 4
      BY SMTT(60) DEF leaky_run_b3
    <3>2. QED
      BY <3>1, Traversal3
  <2>4. leaky_run_b3[1] = 0 /\ leaky_run_b3[2] = 1
    BY DEF leaky_run_b3
  <2>5. QED
    BY <2>1, <2>2, <2>3, <2>4, Traversal3
<1>3. CASE c.dist \notin {3, 4}
  <2>1. Traversal(c) = leaky_run_b2 /\ Gap(c) = 2
    BY <1>3 DEF Traversal, Gap
  <2>2. p \in 1..28
    BY <2>1, Traversal2
  <2>3. \A k \in 1..28 : leaky_run_b2[k] = 4 <=> k % 2 = 0
    <3>1. \A k \in 1..28 : k % 2 # 0 => leaky_run_b2[k] # 4
      BY SMTT(60) DEF leaky_run_b2
    <3>2. QED
      BY <3>1, Traversal2
  <2>4. leaky_run_b2[1] = 0 /\ leaky_run_b2[3] = 1
    BY DEF leaky_run_b2
  <2>5. QED
    BY <2>1, <2>2, <2>3, <2>4, Traversal2
<1>4. QED
  BY <1>1, <1>2, <1>3

\* A load of a line that is in keeps all in, and the pair together.
LEMMA HeldLoad ==
  ASSUME LinesApart, NEW s \in CacheSet, HeldOnce(s), Full(s), AllHeld(s),
         Mated(s, cacheSet[0], pin, Odd),
         NEW i \in Index, NEW r \in Loaded(s, cacheSet[i])
  PROVE  /\ AllHeld(r) /\ Mated(r, cacheSet[0], pin, Odd)
         /\ i = 4 => Mated(r, cacheSet[0], pin, {7})
<1>1. cacheSet[i] \in Line /\ Resident(s, cacheSet[i]) /\ pin = cacheSet[4]
  BY SetsAssumption DEF AllHeld, pin, Pinned
<1>2. AllHeld(r)
  BY <1>1, HitKeepsLines DEF AllHeld
<1>3. CASE i = 4
  <2>1. Mated(r, cacheSet[0], pin, {7})
    BY <1>1, <1>3, MatedSelf
  <2>2. QED
    BY <1>2, <1>3, <2>1 DEF Mated, Odd
<1>4. CASE i = 0
  <2>1. Mated(s, pin, cacheSet[0], Odd)
    BY DEF Mated
  <2>2. Mated(r, pin, cacheSet[0], {7})
    BY <1>1, <1>4, <2>1, MatedSelf
  <2>3. QED
    BY <1>2, <1>4, <2>2 DEF Mated, Odd
<1>5. CASE i \notin {0, 4}
  <2>1. cacheSet[i] \notin {cacheSet[0], pin}
    BY <1>1, <1>5 DEF LinesApart, Index
  <2>2. Mated(r, cacheSet[0], pin, Odd)
    BY <1>1, <2>1, MatedOther
  <2>3. QED
    BY <1>2, <1>5, <2>2
<1>6. QED
  BY <1>3, <1>4, <1>5

\* The pinned line and the intruder, under the traversals that return to the
\* pinned line after one or two others.
LEMMA ShortLoad ==
  ASSUME LinesApart, NEW s \in CacheSet, HeldOnce(s), Full(s), NEW x,
         \A i \in Index : cacheSet[i] # x,
         NEW g \in {2, 3}, NEW o \in 0..(g - 1),
         o = 0 => Mated(s, x, pin, {7}),
         o = 1 => Mated(s, x, pin, {3, 5}),
         o = 2 => Mated(s, x, pin, {1, 3, 5}),
         NEW i \in Index, i = 4 <=> o = g - 1, NEW r \in Loaded(s, cacheSet[i])
  PROVE  /\ o = g - 1 => Mated(r, x, pin, {7})
         /\ o < g - 1 /\ o + 1 = 1 => Mated(r, x, pin, {3, 5})
         /\ o < g - 1 /\ o + 1 = 2 => Mated(r, x, pin, {1, 3, 5})
<1>1. cacheSet[i] \in Line /\ pin = cacheSet[4]
  BY SetsAssumption DEF pin, Pinned
<1>2. CASE i = 4
  <2>1. Mated(s, x, pin, Odd)
    BY <1>2 DEF Mated, Odd
  <2>2. Mated(r, x, pin, {7})
    BY <1>1, <1>2, <2>1, MatedSelf
  <2>3. QED
    BY <1>2, <2>2
<1>3. CASE i # 4
  <2>1. cacheSet[i] \notin {x, pin}
    BY <1>1, <1>3 DEF LinesApart, Index
  <2>2. (o = 0 => Mated(r, x, pin, {3, 5})) /\ (o = 1 => Mated(r, x, pin, {1, 3, 5}))
    BY <1>1, <2>1, MatedOther
  <2>3. QED
    BY <1>3, <2>2
<1>4. QED
  BY <1>2, <1>3

\* leaky_run_b4 is the ring, with the pinned line after each three.
LEMMA RingPlaces ==
  \A p \in 1..28 : p % 4 # 0 =>
    leaky_run_b4[p] = Ring[((3 * ((p - 1) \div 4) + ((p - 1) % 4)) % 7) + 1]
<1> DEFINE t(q, o) == leaky_run_b4[4 * q + o + 1] = Ring[((3 * q + o) % 7) + 1]
<1>1. /\ t(0, 0) /\ t(0, 1) /\ t(0, 2) /\ t(1, 0) /\ t(1, 1) /\ t(1, 2)
      /\ t(2, 0) /\ t(2, 1) /\ t(2, 2) /\ t(3, 0) /\ t(3, 1) /\ t(3, 2)
      /\ t(4, 0) /\ t(4, 1) /\ t(4, 2) /\ t(5, 0) /\ t(5, 1) /\ t(5, 2)
      /\ t(6, 0) /\ t(6, 1) /\ t(6, 2)
  BY DEF leaky_run_b4, Ring
<1>2. \A q \in 0..6, o \in 0..2 : t(q, o)
  <2> HIDE DEF t
  <2>1. \A q \in 0..6, o \in 0..2 :
          /\ q = 0 \/ q = 1 \/ q = 2 \/ q = 3 \/ q = 4 \/ q = 5 \/ q = 6
          /\ o = 0 \/ o = 1 \/ o = 2
    OBVIOUS
  <2>2. QED
    BY <1>1, <2>1, Zenon
<1>3. ASSUME NEW p \in 1..28, p % 4 # 0
      PROVE  /\ (p - 1) \div 4 \in 0..6 /\ (p - 1) % 4 \in 0..2
             /\ p = 4 * ((p - 1) \div 4) + ((p - 1) % 4) + 1
  BY <1>3
<1>4. QED
  <2> HIDE DEF t
  <2>1. ASSUME NEW p \in 1..28, p % 4 # 0
        PROVE  t((p - 1) \div 4, (p - 1) % 4)
    BY <1>2, <1>3, <2>1, Zenon
  <2>2. QED
    BY <1>3, <2>1, Zenon DEF t

\* Seven lines in a row of the ring are different.
LEMMA RingApart ==
  ASSUME LinesApart, NEW m \in Nat
  PROVE  /\ RingLine(m) \in Line /\ RingLine(m) # pin /\ RingLine(m + 7) = RingLine(m)
         /\ \E i \in Index : RingLine(m) = cacheSet[i]
         /\ RingLine(m) \notin {RingLine(m + 6), RingLine(m + 5), RingLine(m + 4),
                                RingLine(m + 3), RingLine(m + 2), RingLine(m + 1)}
<1>1. /\ m % 7 \in 0..6 /\ (m + 7) % 7 = m % 7
      /\ (m + 1) % 7 \in 0..6 /\ (m + 2) % 7 \in 0..6 /\ (m + 3) % 7 \in 0..6
      /\ (m + 4) % 7 \in 0..6 /\ (m + 5) % 7 \in 0..6 /\ (m + 6) % 7 \in 0..6
  OBVIOUS
<1>2. m % 7 \notin {(m + 6) % 7, (m + 5) % 7, (m + 4) % 7, (m + 3) % 7, (m + 2) % 7, (m + 1) % 7}
  OBVIOUS
<1>3. \A k \in 0..6 : Ring[k + 1] \in Index /\ Ring[k + 1] # 4
  BY DEF Ring, Index
<1>4. \A k, n \in 0..6 : Ring[k + 1] = Ring[n + 1] => k = n
  BY DEF Ring
<1>5. \A i, j \in Index : cacheSet[i] = cacheSet[j] => i = j
  BY DEF LinesApart
<1>6. \A k, n \in 0..6 : cacheSet[Ring[k + 1]] = cacheSet[Ring[n + 1]] => k = n
  BY <1>3, <1>4, <1>5
<1>7. RingLine(m) \notin {RingLine(m + 6), RingLine(m + 5), RingLine(m + 4),
                          RingLine(m + 3), RingLine(m + 2), RingLine(m + 1)}
  BY <1>1, <1>2, <1>6 DEF RingLine
<1>8. RingLine(m) # pin /\ RingLine(m) \in Line /\ \E i \in Index : RingLine(m) = cacheSet[i]
  BY <1>1, <1>3, <1>5, SetsAssumption DEF RingLine, pin, Pinned, Index
<1>9. QED
  BY <1>1, <1>7, <1>8 DEF RingLine

\* The pinned line and the intruder under leaky_run_b4.
LEMMA RingLoad ==
  ASSUME LinesApart, NEW s \in CacheSet, HeldOnce(s), Full(s), NEW x,
         \A i \in Index : cacheSet[i] # x,
         NEW p \in 1..28, NEW o, o = (p - 1) % 4,
         InCycle(s, x, o, 3 * ((p - 1) \div 4) + o),
         NEW r \in Loaded(s, cacheSet[leaky_run_b4[p]])
  PROVE  /\ InCycle(r, x, p % 4, 3 * (p \div 4) + (p % 4))
         /\ p % 4 = 0 => Mated(r, x, pin, {7})
<1>1. PICK m : m = 3 * ((p - 1) \div 4) + o
  OBVIOUS
<1>2. m \in Nat /\ o \in 0..3
  BY <1>1
<1>3. Cycle(s, o, x, pin, RingLine(m + 6), RingLine(m + 5), RingLine(m + 4),
            RingLine(m + 3), RingLine(m + 2), RingLine(m + 1))
  BY <1>1, Zenon DEF InCycle
<1>4. CASE o = 3
  <2>1. p % 4 = 0 /\ 3 * (p \div 4) + (p % 4) = m
    BY <1>1, <1>4
  <2>2. leaky_run_b4[p] = 4
    BY <2>1, Traversal4
  <2>3. pin \in Line /\ r \in Loaded(s, pin)
    BY <2>2, PinIsLine DEF pin, Pinned
  <2>4. Cycle(r, 0, x, pin, RingLine(m + 6), RingLine(m + 5), RingLine(m + 4),
              RingLine(m + 3), RingLine(m + 2), RingLine(m + 1))
    BY <1>3, <1>4, <2>3, CycleBack
  <2>5. Mated(r, x, pin, {7})
    BY <2>4 DEF Cycle
  <2>6. QED
    BY <2>1, <2>4, <2>5, Zenon DEF InCycle
<1>5. CASE o # 3
  <2>1. /\ p % 4 # 0 /\ p % 4 = o + 1 /\ 3 * (p \div 4) + (p % 4) = m + 1 /\ o \in 0..2
        /\ (m + 1) + 6 = m + 7 /\ (m + 1) + 5 = m + 6 /\ (m + 1) + 4 = m + 5
        /\ (m + 1) + 3 = m + 4 /\ (m + 1) + 2 = m + 3 /\ (m + 1) + 1 = m + 2
    BY <1>1, <1>2, <1>5
  <2>2. cacheSet[leaky_run_b4[p]] = RingLine(m)
    <3>1. leaky_run_b4[p] = Ring[((3 * ((p - 1) \div 4) + ((p - 1) % 4)) % 7) + 1]
      BY <2>1, RingPlaces, Zenon
    <3>2. QED
      BY <1>1, <3>1, Zenon DEF RingLine
  <2>3. PICK z : z = RingLine(m)
    OBVIOUS
  <2>4. /\ z \in Line /\ r \in Loaded(s, z) /\ z \notin {x, pin}
        /\ z \notin {RingLine(m + 6), RingLine(m + 5), RingLine(m + 4),
                     RingLine(m + 3), RingLine(m + 2), RingLine(m + 1)}
        /\ z = RingLine(m + 7)
    <3>1. \E i \in Index : z = cacheSet[i]
      BY <1>2, <2>3, RingApart
    <3>2. z # x
      BY <3>1
    <3>3. QED
      BY <1>2, <2>2, <2>3, <3>2, RingApart, Zenon
  <2>5. Cycle(r, o + 1, x, pin, z, RingLine(m + 6), RingLine(m + 5), RingLine(m + 4),
              RingLine(m + 3), RingLine(m + 2))
    BY <1>3, <2>1, <2>4, CycleStep
  <2>6. Cycle(r, o + 1, x, pin, RingLine((m + 1) + 6), RingLine((m + 1) + 5),
              RingLine((m + 1) + 4), RingLine((m + 1) + 3), RingLine((m + 1) + 2),
              RingLine((m + 1) + 1))
    BY <2>1, <2>4, <2>5, Zenon
  <2>7. QED
    BY <2>1, <2>6, Zenon DEF InCycle
<1>6. QED
  BY <1>4, <1>5

\* The first loads of a healing run.
LEMMA IllLoad ==
  ASSUME LinesApart, NEW s \in CacheSet, HeldOnce(s), NEW x \in Line,
         \A i \in Index : cacheSet[i] # x
  PROVE  /\ Lines(s, x, 8, 5, 3, 7, 2, 6, 0, 4) =>
              \A r \in Loaded(s, cacheSet[0]) : Lines(r, x, 8, 5, 3, 7, 2, 6, 4, 0)
         /\ Lines(s, x, 8, 5, 3, 7, 2, 6, 4, 0) =>
              \A r \in Loaded(s, cacheSet[4]) : Lines(r, x, 8, 5, 3, 7, 2, 6, 0, 4)
<1>1. cacheSet[0] \in Line /\ cacheSet[4] \in Line
  BY SetsAssumption DEF Index
<1>2. ASSUME Lines(s, x, 8, 5, 3, 7, 2, 6, 0, 4), NEW r \in Loaded(s, cacheSet[0])
      PROVE  Lines(r, x, 8, 5, 3, 7, 2, 6, 4, 0)
  <2>1. At(s, 7) = cacheSet[0]
    BY <1>2 DEF Lines, Stand
  <2>2. QED
    BY <1>1, <1>2, <2>1, HitSeats DEF Lines, Stand
<1>3. ASSUME Lines(s, x, 8, 5, 3, 7, 2, 6, 4, 0), NEW r \in Loaded(s, cacheSet[4])
      PROVE  Lines(r, x, 8, 5, 3, 7, 2, 6, 0, 4)
  <2>1. At(s, 7) = cacheSet[4]
    BY <1>3 DEF Lines, Stand
  <2>2. QED
    BY <1>1, <1>3, <2>1, HitSeats DEF Lines, Stand
<1>4. QED
  BY <1>2, <1>3

\* The load that heals: cacheSet[1] takes the place of the intruder.
LEMMA HealLoad ==
  ASSUME LinesApart, NEW s \in CacheSet, HeldOnce(s), NEW x \in Line,
         \A i \in Index : cacheSet[i] # x,
         \/ Lines(s, x, 8, 5, 3, 7, 2, 6, 0, 4)
         \/ Lines(s, x, 8, 5, 3, 7, 2, 6, 4, 0),
         NEW r \in Loaded(s, cacheSet[1])
  PROVE  /\ AllHeld(r) /\ Mated(r, cacheSet[0], pin, {3})
         /\ ~Resident(s, cacheSet[1])
<1>1. /\ cacheSet \in [0..7 -> Line] /\ pin = cacheSet[4]
      /\ \A i, j \in 0..7 : cacheSet[i] = cacheSet[j] => i = j
      /\ \A i \in 0..7 : cacheSet[i] # x
  BY BothArrays DEF pin, Pinned, Index
<1>2. \A n \in Seats : At(s, n) # NoLine /\ At(s, n) # cacheSet[1]
  BY <1>1, NoLineAssumption DEF Lines, Stand, Seats
<1>3. Full(s) /\ ~Resident(s, cacheSet[1])
  BY <1>2, FullSeat, ResidentSeat
<1>4. \A n \in 2..8 : At(s, n) # cacheSet[1]
  BY <1>2 DEF Seats
<1>5. /\ At(r, 1) = At(s, 5) /\ At(r, 2) = At(s, 6)
      /\ At(r, 3) = At(s, 7) /\ At(r, 4) = At(s, 8)
      /\ At(r, 5) = At(s, 3) /\ At(r, 6) = At(s, 4)
      /\ At(r, 7) = At(s, 2) /\ At(r, 8) = cacheSet[1]
  BY <1>1, <1>3, <1>4, MissedSeats
<1>6. /\ At(r, 1) = cacheSet[2] /\ At(r, 2) = cacheSet[6] /\ At(r, 5) = cacheSet[3]
      /\ At(r, 6) = cacheSet[7] /\ At(r, 7) = cacheSet[5] /\ At(r, 8) = cacheSet[1]
      /\ \/ At(r, 3) = cacheSet[0] /\ At(r, 4) = pin
         \/ At(r, 3) = pin /\ At(r, 4) = cacheSet[0]
  BY <1>1, <1>5 DEF Lines, Stand
<1>7. r \in CacheSet
  BY <1>1, LoadedType
<1>8. \A i \in 0..7 : \E n \in Seats : At(r, n) = cacheSet[i]
  BY <1>1, <1>6 DEF Seats
<1>9. AllHeld(r)
  BY <1>7, <1>8, LinesAllHeld
<1>10. Mated(r, cacheSet[0], pin, {3})
  BY <1>6 DEF Mated
<1>11. QED
  BY <1>3, <1>9, <1>10

\* Where the next position is in its gap.
LEMMA GapNumbers ==
  ASSUME NEW p \in 1..28, NEW g \in {2, 3, 4}
  PROVE  /\ (p + 1) - 1 = p /\ p + 1 > 1 /\ p + 1 # 1
         /\ (p - 1) % g \in 0..(g - 1)
         /\ p % g = 0 <=> (p - 1) % g = g - 1
         /\ (p - 1) % g < g - 1 => p % g = ((p - 1) % g) + 1
OBVIOUS

\* The pair after a load of the timed loop, where it was there before.
LEMMA MateLoads ==
  ASSUME LinesApart, NEW s \in CacheSet, HeldOnce(s), Full(s), NEW c, GoodCall(c),
         Traversal(c) # simple_run, NEW p \in 1..Len(Traversal(c)), MatePlace(s, c, p),
         NEW r \in Loaded(s, cacheSet[Traversal(c)[p]])
  PROVE  MatePlace(r, c, p + 1)
<1>1. /\ Traversal(c)[p] \in Index /\ p \in 1..28
      /\ Traversal(c)[p] = 4 <=> p % Gap(c) = 0
      /\ Gap(c) = 4 => Traversal(c) = leaky_run_b4
      /\ Gap(c) \in {2, 3, 4}
  BY PinnedPlaces, TraversalForm
<1>2. PICK x : x = Mate(c)
  OBVIOUS
<1>3. PICK g : g = Gap(c)
  OBVIOUS
<1>4. PICK o : o = (p - 1) % g
  OBVIOUS
<1>5. /\ (p + 1) - 1 = p /\ o \in 0..(g - 1)
      /\ p % g = 0 <=> o = g - 1
      /\ o < g - 1 => p % g = o + 1
  BY <1>1, <1>3, <1>4, GapNumbers
<1>6. CASE ~Disturbed(c)
  <2>1. AllHeld(s) /\ Mated(s, cacheSet[0], pin, Odd) /\ x = cacheSet[0]
    BY <1>2, <1>6, MateApart DEF MatePlace
  <2>2. /\ AllHeld(r) /\ Mated(r, cacheSet[0], pin, Odd)
        /\ Traversal(c)[p] = 4 => Mated(r, cacheSet[0], pin, {7})
    BY <1>1, <2>1, HeldLoad
  <2>3. QED
    BY <1>1, <1>2, <1>5, <1>6, <2>1, <2>2, Zenon DEF MatePlace
<1>7. CASE Disturbed(c) /\ g = 4
  <2>1. \A i \in Index : cacheSet[i] # x
    BY <1>2, <1>7, MateApart DEF Index
  <2>2. InCycle(s, x, o, 3 * ((p - 1) \div 4) + o)
    BY <1>2, <1>3, <1>4, <1>7, Zenon DEF MatePlace
  <2>3. r \in Loaded(s, cacheSet[leaky_run_b4[p]])
    BY <1>1, <1>3, <1>7
  <2>4. /\ InCycle(r, x, p % 4, 3 * (p \div 4) + (p % 4))
        /\ p % 4 = 0 => Mated(r, x, pin, {7})
    BY <1>1, <1>4, <1>7, <2>1, <2>2, <2>3, RingLoad
  <2>5. QED
    BY <1>2, <1>3, <1>5, <1>7, <2>4, Zenon DEF MatePlace
<1>8. CASE Disturbed(c) /\ g # 4
  <2>1. \A i \in Index : cacheSet[i] # x
    BY <1>2, <1>8, MateApart DEF Index
  <2>2. /\ o = 0 => Mated(s, x, pin, {7})
        /\ o = 1 => Mated(s, x, pin, {3, 5})
        /\ o = 2 => Mated(s, x, pin, {1, 3, 5})
    BY <1>2, <1>3, <1>4, <1>8, Zenon DEF MatePlace
  <2>3. g \in {2, 3} /\ (Traversal(c)[p] = 4 <=> o = g - 1)
    BY <1>1, <1>3, <1>5, <1>8
  <2>4. /\ o = g - 1 => Mated(r, x, pin, {7})
        /\ o < g - 1 /\ o + 1 = 1 => Mated(r, x, pin, {3, 5})
        /\ o < g - 1 /\ o + 1 = 2 => Mated(r, x, pin, {1, 3, 5})
    BY <1>1, <1>5, <2>1, <2>2, <2>3, ShortLoad
  <2>5. /\ p % g = 0 => Mated(r, x, pin, {7})
        /\ p % g = 1 => Mated(r, x, pin, {3, 5})
        /\ p % g = 2 => Mated(r, x, pin, {1, 3, 5})
    <3>1. p % g # 0 => o < g - 1 /\ p % g = o + 1
      BY <1>5, <2>3
    <3>2. g > 0 /\ 1 # 0 /\ 2 # 0
      BY <2>3
    <3>3. QED
      BY <1>5, <2>4, <3>1, <3>2
  <2>6. QED
    BY <1>2, <1>3, <1>5, <1>8, <2>5, Zenon DEF MatePlace
<1>9. QED
  BY <1>6, <1>7, <1>8

\* A healing run up to the load that heals it.
LEMMA IllLoads ==
  ASSUME LinesApart, NEW s \in CacheSet, HeldOnce(s), NEW c, GoodCall(c),
         Traversal(c) # simple_run, NEW p \in 1..Len(Traversal(c)), NEW n \in Nat,
         Ill(c, n, p), IllPlace(s, c, p), NEW r \in Loaded(s, cacheSet[Traversal(c)[p]])
  PROVE  IF Ill(c, n, p + 1) THEN IllPlace(r, c, p + 1) ELSE MatePlace(r, c, p + 1)
<1>1. /\ p \in 1..28 /\ Gap(c) \in {2, 3, 4}
      /\ p = 1 => Traversal(c)[p] = 0
      /\ p = 2 /\ Gap(c) # 2 => Traversal(c)[p] = 1
      /\ p = 3 /\ Gap(c) = 2 => Traversal(c)[p] = 1
      /\ Traversal(c)[p] = 4 <=> p % Gap(c) = 0
  BY PinnedPlaces, TraversalForm
<1>2. PICK x : x = Intruder(c)
  OBVIOUS
<1>3. /\ x \in Line /\ \A i \in Index : cacheSet[i] # x
      /\ ~Disturbed(c) /\ Mate(c) = cacheSet[0]
  <2>1. c.fn # "leaky_run" /\ Healing(c)
    BY DEF Ill
  <2>2. ~Disturbed(c)
    BY <2>1 DEF Healing, Disturbed
  <2>3. QED
    BY <1>2, <2>1, <2>2, IntruderApart DEF Mate, Index
<1>4. p = 1 \/ p = 2 \/ (p = 3 /\ Gap(c) = 2)
  BY <1>1 DEF Ill
<1>5. CASE p = 1
  <2>1. Lines(s, x, 8, 5, 3, 7, 2, 6, 0, 4) /\ r \in Loaded(s, cacheSet[0])
    BY <1>1, <1>2, <1>5 DEF IllPlace
  <2>2. Lines(r, x, 8, 5, 3, 7, 2, 6, 4, 0)
    BY <1>3, <2>1, IllLoad
  <2>3. p + 1 = 2 /\ Ill(c, n, p + 1)
    BY <1>5 DEF Ill
  <2>4. QED
    BY <1>2, <2>2, <2>3 DEF IllPlace
<1>6. CASE p = 2 /\ Gap(c) = 2
  <2>1. Lines(s, x, 8, 5, 3, 7, 2, 6, 4, 0) /\ r \in Loaded(s, cacheSet[4])
    BY <1>1, <1>2, <1>6 DEF IllPlace
  <2>2. Lines(r, x, 8, 5, 3, 7, 2, 6, 0, 4)
    BY <1>3, <2>1, IllLoad
  <2>3. p + 1 = 3 /\ Ill(c, n, p + 1)
    BY <1>6 DEF Ill
  <2>4. QED
    BY <1>2, <2>2, <2>3 DEF IllPlace
<1>7. CASE (p = 2 /\ Gap(c) # 2) \/ (p = 3 /\ Gap(c) = 2)
  <2>1. /\ Lines(s, x, 8, 5, 3, 7, 2, 6, 0, 4) \/ Lines(s, x, 8, 5, 3, 7, 2, 6, 4, 0)
        /\ r \in Loaded(s, cacheSet[1])
    BY <1>1, <1>2, <1>7 DEF IllPlace
  <2>2. AllHeld(r) /\ Mated(r, cacheSet[0], pin, {3})
    BY <1>3, <2>1, HealLoad
  <2>3. ~Ill(c, n, p + 1) /\ ((p + 1) - 1) % Gap(c) # 0
    BY <1>1, <1>7 DEF Ill
  <2>4. Mated(r, cacheSet[0], pin, Odd)
    BY <2>2 DEF Mated, Odd
  <2>5. QED
    BY <1>3, <2>2, <2>3, <2>4 DEF MatePlace
<1>8. QED
  BY <1>4, <1>5, <1>6, <1>7

\* A load of the timed loop keeps the lines in their places.
LEMMA LoopLoads ==
  ASSUME LinesApart, NEW s \in CacheSet, HeldOnce(s), NEW c, GoodCall(c), Suits(c),
         NEW n \in Nat, NEW p \in 1..Len(Traversal(c)), LoopAt(s, c, n, p),
         NEW r \in Loaded(s, cacheSet[Traversal(c)[p]])
  PROVE  LoopAt(r, c, n, p + 1)
<1>1. Traversal(c)[p] \in Index /\ p \in Nat /\ p >= 1
  BY TraversalIndex
<1>2. Tidy(r, c) /\ At(r, 8) = cacheSet[Traversal(c)[p]] /\ Full(s)
  BY <1>1, TidyKept DEF LoopAt, Tidy
<1>3. LastPlace(r, c, p + 1)
  <2>1. (p + 1) - 1 = p /\ p + 1 # 1
    BY <1>1
  <2>2. QED
    BY <1>2, <2>1 DEF LastPlace
<1>4. Falls(c) /\ Undisturbed(c) => AllHeld(r)
  <2>1. cacheSet[Traversal(c)[p]] \in Line
    BY <1>1, SetsAssumption
  <2>2. QED
    BY <1>1, <2>1, HitKeepsLines DEF LoopAt, AllHeld
<1>5. CASE Falls(c) \/ Blind(c)
  BY <1>2, <1>3, <1>4, <1>5 DEF LoopAt
<1>6. CASE ~(Falls(c) \/ Blind(c))
  <2>1. Traversal(c) # simple_run
    BY <1>6, SuitedTraversal
  <2>2. CASE Ill(c, n, p)
    <3>1. IllPlace(s, c, p)
      BY <1>6, <2>2 DEF LoopAt
    <3>2. IF Ill(c, n, p + 1) THEN IllPlace(r, c, p + 1) ELSE MatePlace(r, c, p + 1)
      BY <2>1, <2>2, <3>1, IllLoads
    <3>3. QED
      BY <1>2, <1>3, <1>4, <1>6, <3>2, Zenon DEF LoopAt
  <2>3. CASE ~Ill(c, n, p)
    <3>1. MatePlace(s, c, p)
      BY <1>6, <2>3 DEF LoopAt
    <3>2. MatePlace(r, c, p + 1)
      BY <1>2, <2>1, <3>1, MateLoads
    <3>3. ~Ill(c, n, p + 1)
      BY <1>1, <2>3 DEF Ill
    <3>4. QED
      BY <1>2, <1>3, <1>4, <1>6, <3>2, <3>3, Zenon DEF LoopAt
  <2>4. QED
    BY <2>2, <2>3
<1>7. QED
  BY <1>5, <1>6

-----------------------------------------------------------------------------
\* The places of the lines, step by step.
LEMMA StillPlace ==
  ASSUME PlaceInv, l1' = l1, phase' = phase, call' = call, pos' = pos, rep' = rep
  PROVE  PlaceInv'
BY Zenon DEF PlaceInv, SetUpPlace, IdlePlace, PreamblePlace, LoopPlace, RefreshPlace

\* The steps of the timed loop.
LEMMA TimerPlace ==
  ASSUME LinesApart, SetInv, CtlInv, HeldOnce(l1), Suits(call), PreamblePlace, StartTimer
  PROVE  LoopPlace'
<1>1. /\ l1 \in CacheSet /\ GoodCall(call) /\ rep = 0 /\ phase = "preamble"
      /\ pos = Len(Preamble(call)) + 1
      /\ l1' = l1 /\ call' = call /\ rep' = rep /\ phase' = "timed" /\ pos' = 1
  BY DEF SetInv, SetTypeOK, CtlInv, StartTimer, setVars
<1>2. PICK n : n = Len(AfterPrepare(call))
  OBVIOUS
<1>3. PICK o : o = Before(call)
  OBVIOUS
<1>4. Len(Preamble(call)) = o + 16 + n /\ o \in 0..2
  BY <1>1, <1>2, <1>3, PreambleAt
<1>5. n \in Nat
  BY <1>1, <1>2, PreambleParts
<1>6. pos - o >= 17 /\ (pos - o) - 17 = n
  BY <1>1, <1>4, <1>5
<1>7. RaceEnd(l1, call, n)
  BY <1>1, <1>3, <1>6 DEF PreamblePlace
<1>8. LoopAt(l1, call, 0, 1)
  BY <1>1, <1>2, <1>7, LoopStarts
<1>9. QED
  BY <1>1, <1>8 DEF LoopPlace

LEMMA TraversePlace ==
  ASSUME LinesApart, SetInv, CtlInv, HeldOnce(l1), Suits(call), LoopPlace, TraverseStep
  PROVE  LoopPlace'
<1>1. /\ l1 \in CacheSet /\ GoodCall(call) /\ rep \in Nat /\ pos \in 1..Len(Traversal(call))
      /\ LoopAt(l1, call, rep, pos) /\ phase = "traverse"
      /\ call' = call /\ rep' = rep /\ phase' = phase /\ pos' = pos + 1
      /\ maccess(cacheSet[Traversal(call)[pos]])
  BY TraversalIndex DEF SetInv, SetTypeOK, CtlInv, LoopPlace, TraverseStep
<1>2. Traversal(call)[pos] \in Index
  BY <1>1, TraversalIndex
<1>3. l1' \in Loaded(l1, cacheSet[Traversal(call)[pos]])
  <2>1. cacheSet[Traversal(call)[pos]] \in Line /\ cacheSet[Traversal(call)[pos]] \in Zeroed
    BY <1>2, CalledLine
  <2>2. phase # "setup"
    BY <1>1
  <2>3. QED
    BY <1>1, <2>1, <2>2, LoadFacts
<1>4. LoopAt(l1', call, rep, pos + 1)
  BY <1>1, <1>3, LoopLoads
<1>5. QED
  BY <1>1, <1>4 DEF LoopPlace

LEMMA EndPassPlace ==
  ASSUME LinesApart, SetInv, CtlInv, HeldOnce(l1), Suits(call), LoopPlace, EndPass
  PROVE  LoopPlace' /\ RefreshPlace'
<1>1. /\ l1 \in CacheSet /\ GoodCall(call) /\ rep \in Nat
      /\ LoopAt(l1, call, rep, Len(Traversal(call)) + 1)
      /\ l1' = l1 /\ call' = call /\ pos' = 1
  BY DEF SetInv, SetTypeOK, CtlInv, LoopPlace, EndPass, setVars
<1>2. CASE RefreshDue(call, rep)
  <2>1. phase' = "refresh" /\ call.refresh # 0
    BY <1>2 DEF EndPass, RefreshDue
  <2>2. RefreshAt(l1, call, 1)
    BY <1>1, <2>1, RefreshStarts
  <2>3. QED
    BY <1>1, <2>1, <2>2 DEF LoopPlace, RefreshPlace
<1>3. CASE ~RefreshDue(call, rep)
  <2>1. phase' = "timed" /\ rep' = rep + 1
    BY <1>3 DEF EndPass
  <2>2. LoopAt(l1, call, rep + 1, 1)
    BY <1>1, PassEnds
  <2>3. QED
    BY <1>1, <2>1, <2>2 DEF LoopPlace, RefreshPlace
<1>4. QED
  BY <1>2, <1>3

LEMMA RefreshStepPlace ==
  ASSUME LinesApart, SetInv, CtlInv, HeldOnce(l1), RefreshPlace, RefreshStep
  PROVE  RefreshPlace'
<1>1. /\ l1 \in CacheSet /\ GoodCall(call) /\ pos \in 1..16
      /\ call.refresh # 0 /\ RefreshAt(l1, call, pos) /\ phase = "refresh"
      /\ call' = call /\ phase' = phase /\ pos' = pos + 1
      /\ maccess(leaky_refresh_b4[pos].at)
  BY Refreshing DEF SetInv, SetTypeOK, CtlInv, RefreshPlace, RefreshStep
<1>2. leaky_refresh_b4[pos].at \in Zeroed
  BY <1>1, Refreshing
<1>3. leaky_refresh_b4[pos].at \in Line
  BY <1>1, SetsAssumption DEF leaky_refresh_b4, C, K, Load, Index
<1>4. l1' \in Loaded(l1, leaky_refresh_b4[pos].at)
  BY <1>1, <1>2, <1>3, LoadFacts
<1>5. RefreshAt(l1', call, pos + 1)
  BY <1>1, <1>4, RefreshLoads
<1>6. QED
  BY <1>1, <1>5 DEF RefreshPlace

LEMMA EndRefreshPlace ==
  ASSUME LinesApart, SetInv, CtlInv, HeldOnce(l1), Suits(call), RefreshPlace, EndRefresh
  PROVE  LoopPlace'
<1>1. /\ l1 \in CacheSet /\ GoodCall(call) /\ rep \in Nat
      /\ call.refresh # 0 /\ RefreshAt(l1, call, 17)
      /\ l1' = l1 /\ call' = call /\ pos' = 1 /\ rep' = rep + 1
  BY Refreshing DEF SetInv, SetTypeOK, CtlInv, RefreshPlace, EndRefresh, setVars
<1>2. LoopAt(l1, call, rep + 1, 1)
  BY <1>1, RefreshEnds
<1>3. QED
  BY <1>1, <1>2 DEF LoopPlace

\* Every step of a call that suits keeps the lines in their places.
LEMMA PlaceStep ==
  ASSUME LinesApart, SetInv, CtlInv, Suits(call), PlaceInv, [Next]_vars
  PROVE  PlaceInv'
<1>0. HeldOnce(l1) /\ HeldOnce(l1')
  BY OnceStep DEF PlaceInv
<1>1. CASE mwrite_v
  <2>1. SetUpPlace'
    BY <1>0, <1>1, SetUpStep DEF PlaceInv
  <2>2. phase' = "setup"
    BY <1>1 DEF mwrite_v
  <2>3. QED
    BY <1>0, <2>1, <2>2 DEF PlaceInv, IdlePlace, PreamblePlace, LoopPlace, RefreshPlace
<1>2. CASE EndSetUp
  <2>1. Idle(l1) /\ l1' = l1 /\ phase' = "idle"
    BY <1>2 DEF EndSetUp, PlaceInv, SetUpPlace, setVars
  <2>2. QED
    BY <1>0, <2>1 DEF PlaceInv, SetUpPlace, IdlePlace, PreamblePlace, LoopPlace, RefreshPlace
<1>3. CASE Refill
  <2>1. Idle(l1) /\ l1' = l1 /\ phase' = "setup" /\ pos' = 1 /\ l1 \in CacheSet
    BY <1>3 DEF Refill, PlaceInv, IdlePlace, setVars, SetInv, SetTypeOK
  <2>2. Filling(l1, clearSet, 0)
    BY <2>1, IdleFills DEF Idle
  <2>3. SetUpPlace'
    BY <2>1, <2>2 DEF SetUpPlace
  <2>4. QED
    BY <1>0, <2>1, <2>3 DEF PlaceInv, IdlePlace, PreamblePlace, LoopPlace, RefreshPlace
<1>4. CASE Calling
  <2>1. PICK c : GoodCall(c) /\ Begin(c)
    BY <1>4 DEF Calling, leaky_run, showtime_reorder, showtime_llc_eviction, GoodCall
  <2>2. PreamblePlace' /\ phase' = "preamble"
    BY <2>1, BeginPlace DEF PlaceInv, Begin
  <2>3. QED
    BY <1>0, <2>2 DEF PlaceInv, SetUpPlace, IdlePlace, LoopPlace, RefreshPlace
<1>5. CASE PreambleStep
  <2>1. PreamblePlace' /\ phase' = "preamble"
    BY <1>5, PreambleStepPlace DEF PlaceInv, PreambleStep
  <2>2. QED
    BY <1>0, <2>1 DEF PlaceInv, SetUpPlace, IdlePlace, LoopPlace, RefreshPlace
<1>6. CASE StartTimer
  <2>1. LoopPlace' /\ phase' = "timed"
    BY <1>6, TimerPlace DEF PlaceInv, StartTimer
  <2>2. QED
    BY <1>0, <2>1 DEF PlaceInv, SetUpPlace, IdlePlace, PreamblePlace, RefreshPlace
<1>7. CASE StartPass
  <2>1. /\ phase = "timed" /\ phase' = "traverse"
        /\ l1' = l1 /\ call' = call /\ pos' = pos /\ rep' = rep
    BY <1>7 DEF StartPass, setVars
  <2>2. LoopPlace'
    BY <2>1, Zenon DEF PlaceInv, LoopPlace
  <2>3. QED
    BY <1>0, <2>1, <2>2 DEF PlaceInv, SetUpPlace, IdlePlace, PreamblePlace, RefreshPlace
<1>8. CASE TraverseStep
  <2>1. LoopPlace' /\ phase' = "traverse"
    BY <1>8, TraversePlace DEF PlaceInv, TraverseStep
  <2>2. QED
    BY <1>0, <2>1 DEF PlaceInv, SetUpPlace, IdlePlace, PreamblePlace, RefreshPlace
<1>9. CASE EndPass
  <2>1. LoopPlace' /\ RefreshPlace' /\ phase' \in {"refresh", "timed"}
    BY <1>9, EndPassPlace DEF PlaceInv, EndPass
  <2>2. QED
    BY <1>0, <2>1 DEF PlaceInv, SetUpPlace, IdlePlace, PreamblePlace
<1>10. CASE RefreshStep
  <2>1. RefreshPlace' /\ phase' = "refresh"
    BY <1>10, RefreshStepPlace DEF PlaceInv, RefreshStep
  <2>2. QED
    BY <1>0, <2>1 DEF PlaceInv, SetUpPlace, IdlePlace, PreamblePlace, LoopPlace
<1>11. CASE EndRefresh
  <2>1. LoopPlace' /\ phase' = "timed"
    BY <1>11, EndRefreshPlace DEF PlaceInv, EndRefresh
  <2>2. QED
    BY <1>0, <2>1 DEF PlaceInv, SetUpPlace, IdlePlace, PreamblePlace, RefreshPlace
<1>12. CASE Return
  <2>1. /\ l1 \in CacheSet /\ GoodCall(call) /\ LoopAt(l1, call, rep, 1)
        /\ l1' = l1 /\ phase' = "idle"
    BY <1>12 DEF Return, PlaceInv, LoopPlace, SetInv, SetTypeOK, CtlInv, setVars
  <2>2. Idle(l1)
    BY <1>0, <2>1, RunEnds
  <2>3. QED
    BY <1>0, <2>1, <2>2 DEF PlaceInv, SetUpPlace, IdlePlace, PreamblePlace, LoopPlace,
       RefreshPlace
<1>13. CASE \E x \in Foreign : OtherCode(x)
  <2>1. IdlePlace' /\ phase' = "idle"
    BY <1>13, OtherIdle DEF PlaceInv, OtherCode, callVars
  <2>2. QED
    BY <1>0, <2>1 DEF PlaceInv, SetUpPlace, PreamblePlace, LoopPlace, RefreshPlace
<1>14. CASE UNCHANGED vars
  <2>1. l1' = l1 /\ phase' = phase /\ call' = call /\ pos' = pos /\ rep' = rep
    BY <1>14 DEF vars
  <2>2. QED
    BY <2>1, StillPlace
<1>15. QED
  BY <1>1, <1>2, <1>3, <1>4, <1>5, <1>6, <1>7, <1>8, <1>9, <1>10, <1>11, <1>12, <1>13,
     <1>14 DEF Next, Running

\* The first state.
LEMMA PlaceInit ==
  ASSUME LinesApart, StartsClean, Init
  PROVE  PlaceInv
<1>1. /\ l1 \in CacheSet /\ HeldOnce(l1) /\ Full(l1)
      /\ \A i \in Index : ~Resident(l1, clearSet[i])
      /\ phase = "setup" /\ pos = 1
  BY SetsAssumption DEF Init, StartsClean
<1>2. \A i \in 1..7 : ~Resident(l1, clearSet[i])
  BY <1>1 DEF Index
<1>3. Idle(l1)
  <2>1. \A n \in Seats : At(l1, n) # clearSet[0]
    BY <1>1, ResidentSeat DEF Index
  <2>2. QED
    BY <1>1, <1>2, <2>1 DEF Idle
<1>4. Filling(l1, clearSet, 0)
  BY <1>1, <1>2, IdleFills
<1>5. SetUpPlace
  BY <1>1, <1>3, <1>4 DEF SetUpPlace
<1>6. QED
  BY <1>1, <1>5 DEF PlaceInv, IdlePlace, PreamblePlace, LoopPlace, RefreshPlace

\* The inductive invariant of everything below.
THEOREM PlaceInvariant ==
  ASSUME LinesApart, StartsClean
  PROVE  Spec /\ []Suits(call) => [](SetInv /\ CtlInv /\ PlaceInv)
<1>1. Init => PlaceInv
  BY PlaceInit
<1>2. SetInv /\ CtlInv /\ Suits(call) /\ PlaceInv /\ [Next]_vars => PlaceInv'
  BY PlaceStep
<1>3. Spec => []SetInv
  BY AmplifyImplementsSet, SetInvariant, PTL
<1>4. QED
  BY <1>1, <1>2, <1>3, ControlInvariant, PTL DEF Spec

-----------------------------------------------------------------------------
\* prepare_PLRU_state brings the eight lines of cacheSet into the set.
THEOREM PreparationFills ==
  ASSUME LinesApart, StartsClean
  PROVE  Spec /\ []Suits(call) => []PrepareFillsSet
<1>1. ASSUME SetInv, CtlInv, PlaceInv, phase = "preamble", pos = Prepared(call)
      PROVE  \A i \in Index : Resident(l1, cacheSet[i])
  <2>1. l1 \in CacheSet /\ GoodCall(call)
    BY <1>1 DEF SetInv, SetTypeOK, CtlInv
  <2>2. pos - Before(call) = 17
    BY <1>1, <2>1 DEF Before, Prepared, GoodCall
  <2>3. RaceEnd(l1, call, 0)
    BY <1>1, <2>2 DEF PlaceInv, PreamblePlace
  <2>4. Lines(l1, Intruder(call), 0, 4, 2, 6, 1, 5, 3, 7)
    BY <2>3, Zenon DEF RaceEnd
  <2>5. QED
    BY <2>1, <2>4, PreparedClear
<1>2. SetInv /\ CtlInv /\ PlaceInv => PrepareFillsSet
  BY <1>1 DEF PrepareFillsSet
<1>3. QED
  BY <1>2, PlaceInvariant, PTL

-----------------------------------------------------------------------------
\* The pinned line and its mate are in the set throughout the timed loop.
LEMMA MateHeld ==
  ASSUME LinesApart, NEW s \in CacheSet, NEW c, GoodCall(c), NEW p \in Nat \ {0}, MatePlace(s, c, p)
  PROVE  Resident(s, Mate(c)) /\ Resident(s, pin)
<1>1. Gap(c) \in {2, 3, 4}
  BY DEF Gap
<1>2. PICK x : x = Mate(c)
  OBVIOUS
<1>3. PICK o : o = (p - 1) % Gap(c)
  OBVIOUS
<1>4. o \in 0..(Gap(c) - 1)
  BY <1>1, <1>3
<1>5. CASE ~Disturbed(c)
  <2>1. Mated(s, x, pin, Odd)
    BY <1>2, <1>5 DEF MatePlace
  <2>2. QED
    BY <1>2, <2>1, MatedHeld
<1>6. CASE Disturbed(c) /\ Gap(c) = 4
  <2>1. \E m : InCycle(s, x, o, m)
    BY <1>2, <1>3, <1>6, Zenon DEF MatePlace
  <2>2. \/ Mated(s, x, pin, {7}) \/ Mated(s, x, pin, {3})
        \/ Mated(s, x, pin, {5}) \/ Mated(s, x, pin, {1})
    BY <2>1, Zenon DEF InCycle, Cycle
  <2>3. Mated(s, x, pin, Odd)
    BY <2>2 DEF Mated, Odd
  <2>4. QED
    BY <1>2, <2>3, MatedHeld
<1>7. CASE Disturbed(c) /\ Gap(c) # 4
  <2>1. o = 0 \/ o = 1 \/ o = 2
    BY <1>1, <1>4, <1>7
  <2>2. \/ Mated(s, x, pin, {7}) \/ Mated(s, x, pin, {3, 5}) \/ Mated(s, x, pin, {1, 3, 5})
    BY <1>2, <1>3, <1>7, <2>1, Zenon DEF MatePlace
  <2>3. Mated(s, x, pin, Odd)
    BY <2>2 DEF Mated, Odd
  <2>4. QED
    BY <1>2, <2>3, MatedHeld
<1>8. QED
  BY <1>5, <1>6, <1>7

\* No traversal and no refresh ever evicts the pinned line, from rdtsc_begin
\* on: not in the first pass of leaky_run either.
THEOREM AnchorNeverLost ==
  ASSUME LinesApart, StartsClean
  PROVE  Spec /\ []Suits(call) => []PinnedNeverEvicted
<1>1. ASSUME SetInv, CtlInv, PlaceInv, AnchorHeld, InTimer, Traversal(call) # simple_run
      PROVE  Resident(l1, cacheSet[Pinned])
  <2>1. CASE Anchored
    BY <1>1, <2>1 DEF AnchorHeld
  <2>2. CASE ~Anchored
    <3>1. call.fn = "leaky_run" /\ phase \in {"timed", "traverse"}
      BY <1>1, <2>2 DEF Anchored, InTimer
    <3>2. l1 \in CacheSet /\ GoodCall(call) /\ pos \in Nat \ {0} /\ LoopAt(l1, call, rep, pos)
      BY <1>1, <3>1 DEF SetInv, SetTypeOK, CtlInv, PlaceInv, LoopPlace
    <3>3. ~Falls(call) /\ ~Blind(call) /\ ~Ill(call, rep, pos)
      BY <1>1, <3>1 DEF Falls, Blind, Ill, Traversal
    <3>4. MatePlace(l1, call, pos)
      BY <3>2, <3>3 DEF LoopAt
    <3>5. QED
      BY <3>2, <3>4, MateHeld DEF pin
  <2>3. QED
    BY <2>1, <2>2
<1>2. SetInv /\ CtlInv /\ PlaceInv /\ AnchorHeld => PinnedNeverEvicted
  BY <1>1 DEF PinnedNeverEvicted
<1>3. QED
  BY <1>2, PlaceInvariant, AnchorStays, PTL

-----------------------------------------------------------------------------
\* What the passes count.  A load of the timed loop, and its misses.
LEMMA TraverseFacts ==
  ASSUME SetInv, CtlInv, PassesInv, TraverseStep
  PROVE  LET i == Traversal(call)[pos] IN
         /\ i \in Index /\ pos \in 1..Len(Traversal(call)) /\ GoodCall(call)
         /\ l1 \in CacheSet /\ l1' \in Loaded(l1, cacheSet[i])
         /\ phase' = "traverse" /\ call' = call /\ rep' = rep /\ pos' = pos + 1
         /\ rep \in Nat /\ rep + 1 \in DOMAIN passes /\ DOMAIN passes' = DOMAIN passes
         /\ \A k \in DOMAIN passes : passes[k] \in Nat
         /\ \A k \in DOMAIN passes :
              passes'[k] = IF k = rep + 1
                           THEN passes[k] + (IF Resident(l1, cacheSet[i]) THEN 0 ELSE 1)
                           ELSE passes[k]
<1>1. /\ l1 \in CacheSet /\ GoodCall(call) /\ rep \in Nat /\ pos \in 1..Len(Traversal(call))
      /\ phase = "traverse" /\ phase' = "traverse"
      /\ call' = call /\ rep' = rep /\ pos' = pos + 1
      /\ maccess(cacheSet[Traversal(call)[pos]])
  BY TraversalIndex DEF SetInv, SetTypeOK, CtlInv, TraverseStep
<1>2. PICK i : i = Traversal(call)[pos]
  OBVIOUS
<1>3. i \in Index
  BY <1>1, <1>2, TraversalIndex
<1>4. cacheSet[i] \in Line /\ cacheSet[i] \in Zeroed
  BY <1>3, CalledLine
<1>5. l1' \in Loaded(l1, cacheSet[i])
  <2>1. phase # "setup" /\ maccess(cacheSet[i])
    BY <1>1, <1>2
  <2>2. QED
    BY <1>4, <2>1, LoadFacts
<1>6. /\ DOMAIN passes = 1..(rep + 1) /\ rep + 1 \in DOMAIN passes
      /\ \A k \in DOMAIN passes : passes[k] \in Nat
  BY <1>1, LenProperties, ElementOfSeq DEF PassesInv
<1>7. PICK n : n = IF Resident(l1, cacheSet[i]) THEN 0 ELSE 1
  OBVIOUS
<1>8. passes' = [passes EXCEPT ![rep + 1] = @ + n]
  BY <1>2, <1>4, <1>7 DEF TraverseStep, Misses
<1>9. /\ DOMAIN passes' = DOMAIN passes
      /\ \A k \in DOMAIN passes : passes'[k] = IF k = rep + 1 THEN passes[k] + n ELSE passes[k]
  BY <1>6, <1>8
<1>10. QED
  BY <1>1, <1>2, <1>3, <1>5, <1>6, <1>7, <1>9, Zenon

\* A pass begins without a miss.
LEMMA StartPassFacts ==
  ASSUME PassesInv, CtlInv, StartPass
  PROVE  /\ DOMAIN passes = 1..rep /\ DOMAIN passes' = 1..(rep + 1) /\ rep \in Nat
         /\ \A k \in 1..rep : passes'[k] = passes[k]
         /\ passes'[rep + 1] = 0
BY AppendProperties, LenProperties DEF PassesInv, CtlInv, StartPass

\* Where the timed loop of a baseline finds its lines.
LEMMA BaselineHeld ==
  ASSUME PlaceInv, CtlInv, Suits(call), Undisturbed(call), phase \in {"timed", "traverse"}
  PROVE  AllHeld(l1)
<1>1. LoopAt(l1, call, rep, pos) /\ call.fn = "leaky_run"
  BY DEF PlaceInv, LoopPlace, Undisturbed
<1>2. CASE Falls(call)
  BY <1>1, <1>2 DEF LoopAt
<1>3. CASE ~Falls(call)
  <2>1. ~Blind(call) /\ ~Ill(call, rep, pos) /\ ~Disturbed(call)
    BY <1>1 DEF Blind, Ill, Disturbed
  <2>2. QED
    BY <1>1, <1>3, <2>1 DEF LoopAt, MatePlace
<1>4. QED
  BY <1>2, <1>3

\* So no load of a baseline misses.
LEMMA BaselineCounts ==
  ASSUME SetInv, CtlInv, PassesInv, Suits(call), PlaceInv, BaselineNeverMisses, [Next]_vars
  PROVE  BaselineNeverMisses'
<1>1. CASE StartPass
  <2>1. call' = call
    BY <1>1 DEF StartPass
  <2>2. \A k \in 1..(rep + 1) : k \in 1..rep \/ k = rep + 1
    BY DEF CtlInv
  <2>3. QED
    BY <1>1, <2>1, <2>2, StartPassFacts DEF BaselineNeverMisses, Undisturbed
<1>2. CASE TraverseStep
  <2> SUFFICES ASSUME Undisturbed(call) PROVE \A k \in DOMAIN passes' : passes'[k] = 0
    BY <1>2 DEF BaselineNeverMisses, Undisturbed, TraverseStep
  <2>1. AllHeld(l1) /\ \A k \in DOMAIN passes : passes[k] = 0
    BY <1>2, BaselineHeld DEF TraverseStep, BaselineNeverMisses
  <2>2. PICK i : i = Traversal(call)[pos]
    OBVIOUS
  <2>3. /\ i \in Index /\ DOMAIN passes' = DOMAIN passes
        /\ \A k \in DOMAIN passes :
              passes'[k] = IF k = rep + 1
                           THEN passes[k] + (IF Resident(l1, cacheSet[i]) THEN 0 ELSE 1)
                           ELSE passes[k]
    BY <1>2, <2>2, TraverseFacts
  <2>4. QED
    BY <2>1, <2>3 DEF AllHeld
<1>3. CASE Calling
  <2>1. passes' = <<>>
    BY <1>3 DEF Calling, leaky_run, showtime_reorder, showtime_llc_eviction, Begin
  <2>2. QED
    BY <2>1 DEF BaselineNeverMisses
<1>4. CASE \/ mwrite_v \/ EndSetUp \/ Refill \/ PreambleStep \/ StartTimer \/ EndPass
           \/ RefreshStep \/ EndRefresh \/ Return \/ UNCHANGED vars
           \/ \E x \in Foreign : OtherCode(x)
  <2>1. call' = call /\ passes' = passes
    BY <1>4 DEF mwrite_v, EndSetUp, Refill, PreambleStep, StartTimer, EndPass, RefreshStep,
       EndRefresh, Return, OtherCode, callVars, vars
  <2>2. QED
    BY <2>1 DEF BaselineNeverMisses, Undisturbed
<1>5. QED
  BY <1>1, <1>2, <1>3, <1>4 DEF Next, Running

\* A baseline has no miss in any pass, with refreshes between the passes too.
THEOREM BaselineStaysFree ==
  ASSUME LinesApart, StartsClean
  PROVE  Spec /\ []Suits(call) => []BaselineNeverMisses
<1>1. Init => BaselineNeverMisses
  BY DEF Init, BaselineNeverMisses
<1>2. SetInv /\ CtlInv /\ PassesInv /\ Suits(call) /\ PlaceInv /\ BaselineNeverMisses
        /\ [Next]_vars => BaselineNeverMisses'
  BY BaselineCounts
<1>3. Init => PassesInv
  BY EmptySeq DEF Init, PassesInv
<1>4. QED
  BY <1>1, <1>2, <1>3, PlaceInvariant, PassesStep, PTL DEF Spec

-----------------------------------------------------------------------------
\* Each of the traversals visits all eight lines.
LEMMA VisitsAll ==
  ASSUME NEW c, Traversal(c) # simple_run, NEW i \in Index
  PROVE  \E q \in 1..Len(Traversal(c)) : Traversal(c)[q] = i
<1>1. Traversal(c) \in {leaky_run_b4, leaky_run_b3, leaky_run_b2}
  BY DEF Traversal
<1>2. i = 0 \/ i = 1 \/ i = 2 \/ i = 3 \/ i = 4 \/ i = 5 \/ i = 6 \/ i = 7
  BY DEF Index
<1>3. CASE Traversal(c) = leaky_run_b4
  <2>1. /\ leaky_run_b4[1] = 0 /\ leaky_run_b4[2] = 1 /\ leaky_run_b4[3] = 2
        /\ leaky_run_b4[4] = 4 /\ leaky_run_b4[5] = 3 /\ leaky_run_b4[6] = 5
        /\ leaky_run_b4[7] = 6 /\ leaky_run_b4[9] = 7
    BY DEF leaky_run_b4
  <2>2. \A q \in 1..9 : q \in 1..Len(leaky_run_b4)
    BY Traversal4
  <2>3. QED
    BY <1>2, <1>3, <2>1, <2>2
<1>4. CASE Traversal(c) = leaky_run_b3
  <2>1. /\ leaky_run_b3[1] = 0 /\ leaky_run_b3[2] = 1 /\ leaky_run_b3[4] = 2
        /\ leaky_run_b3[3] = 4 /\ leaky_run_b3[5] = 3 /\ leaky_run_b3[7] = 5
        /\ leaky_run_b3[8] = 6 /\ leaky_run_b3[10] = 7
    BY DEF leaky_run_b3
  <2>2. \A q \in 1..10 : q \in 1..Len(leaky_run_b3)
    BY Traversal3
  <2>3. QED
    BY <1>2, <1>4, <2>1, <2>2
<1>5. CASE Traversal(c) = leaky_run_b2
  <2>1. /\ leaky_run_b2[1] = 0 /\ leaky_run_b2[3] = 1 /\ leaky_run_b2[5] = 2
        /\ leaky_run_b2[2] = 4 /\ leaky_run_b2[7] = 3 /\ leaky_run_b2[9] = 5
        /\ leaky_run_b2[11] = 6 /\ leaky_run_b2[13] = 7
    BY DEF leaky_run_b2
  <2>2. \A q \in 1..13 : q \in 1..Len(leaky_run_b2)
    BY Traversal2
  <2>3. QED
    BY <1>2, <1>5, <2>1, <2>2
<1>6. QED
  BY <1>1, <1>3, <1>4, <1>5

\* A pass that has not missed yet has a line before it that is not in the set.
ToMiss ==
  \E i \in Index : /\ ~Resident(l1, cacheSet[i])
                   /\ \A q \in 1..(pos - 1) : Traversal(call)[q] # i

\* The misses of a disturbed run so far.
DisturbedInv ==
  (InTimer /\ Disturbed(call)) =>
    /\ \A k \in 1..rep : passes[k] > 0
    /\ phase = "traverse" /\ passes[rep + 1] = 0 => ToMiss
    /\ phase = "refresh" => passes[rep + 1] > 0

\* The intruder leaves no room for one of the eight.
LEMMA DisturbedNotFree ==
  ASSUME LinesApart, SetInv, CtlInv, PlaceInv, Suits(call), Disturbed(call), phase = "timed"
  PROVE  \E i \in Index : ~Resident(l1, cacheSet[i])
<1>1. /\ l1 \in CacheSet /\ GoodCall(call) /\ LoopAt(l1, call, rep, pos) /\ pos \in Nat \ {0}
  BY DEF SetInv, SetTypeOK, CtlInv, PlaceInv, LoopPlace
<1>2. ~Falls(call) /\ ~Blind(call) /\ ~Ill(call, rep, pos)
  BY DEF Disturbed, Falls, Blind, Ill, Healing
<1>3. Resident(l1, Mate(call)) /\ \A i \in 0..7 : cacheSet[i] # Mate(call)
  BY <1>1, <1>2, MateHeld, MateApart DEF LoopAt
<1>4. SUFFICES ASSUME \A i \in 0..7 : Resident(l1, cacheSet[i]) PROVE FALSE
  BY DEF Index
<1>5. \A y : Resident(l1, y) => \E i \in 0..7 : y = cacheSet[i]
  BY <1>1, <1>4, BothArrays, EightFill
<1>6. QED
  BY <1>3, <1>5

\* A pass visits the line that is missing, and misses.
LEMMA DisturbedStep ==
  ASSUME LinesApart, SetInv, CtlInv, PassesInv, Suits(call), PlaceInv, DisturbedInv, [Next]_vars
  PROVE  DisturbedInv'
<1>1. CASE StartPass
  <2> SUFFICES ASSUME Disturbed(call) PROVE DisturbedInv'
    BY <1>1 DEF StartPass, DisturbedInv, Disturbed, Undisturbed
  <2>1. /\ phase = "timed" /\ phase' = "traverse" /\ call' = call /\ rep' = rep
        /\ pos = 1 /\ pos' = 1 /\ l1' = l1 /\ rep \in Nat
    BY <1>1 DEF StartPass, CtlInv, setVars
  <2>2. \A k \in 1..rep : passes[k] > 0
    BY <2>1 DEF DisturbedInv, InTimer
  <2>3. \E i \in Index : ~Resident(l1, cacheSet[i])
    BY <2>1, DisturbedNotFree
  <2>4. ToMiss'
    <3>1. \A q \in 1..(1 - 1) : FALSE
      OBVIOUS
    <3>2. QED
      BY <2>1, <2>3, <3>1 DEF ToMiss
  <2>5. \A k \in 1..rep : passes'[k] > 0
    BY <1>1, <2>2, StartPassFacts
  <2>6. QED
    BY <2>1, <2>4, <2>5 DEF DisturbedInv
<1>2. CASE TraverseStep
  <2> SUFFICES ASSUME Disturbed(call) PROVE DisturbedInv'
    BY <1>2 DEF TraverseStep, DisturbedInv, Disturbed, Undisturbed
  <2>1. PICK i : i = Traversal(call)[pos]
    OBVIOUS
  <2>2. /\ i \in Index /\ pos \in 1..Len(Traversal(call))
        /\ l1 \in CacheSet /\ l1' \in Loaded(l1, cacheSet[i])
        /\ phase' = "traverse" /\ call' = call /\ rep' = rep /\ pos' = pos + 1
        /\ rep \in Nat /\ rep + 1 \in DOMAIN passes
        /\ \A k \in DOMAIN passes : passes[k] \in Nat
        /\ \A k \in DOMAIN passes :
             passes'[k] = IF k = rep + 1
                          THEN passes[k] + (IF Resident(l1, cacheSet[i]) THEN 0 ELSE 1)
                          ELSE passes[k]
    BY <1>2, <2>1, TraverseFacts
  <2>3. phase = "traverse"
    BY <1>2 DEF TraverseStep
  <2>4. DOMAIN passes = 1..(rep + 1)
    BY <2>3, LenProperties DEF PassesInv
  <2>5. \A k \in 1..rep : k \in DOMAIN passes /\ k # rep + 1
    BY <2>2, <2>4
  <2>6. \A k \in 1..rep : passes'[k] > 0
    BY <2>2, <2>3, <2>5 DEF DisturbedInv, InTimer
  <2>7. ASSUME passes'[rep + 1] = 0
        PROVE  ToMiss'
    <3>1. passes[rep + 1] = 0 /\ Resident(l1, cacheSet[i])
      BY <2>2, <2>7
    <3>2. PICK j \in Index : /\ ~Resident(l1, cacheSet[j])
                             /\ \A q \in 1..(pos - 1) : Traversal(call)[q] # j
      BY <2>3, <3>1 DEF DisturbedInv, InTimer, ToMiss
    <3>3. j # i
      BY <3>1, <3>2
    <3>4. ~Resident(l1', cacheSet[j])
      <4>1. cacheSet[j] # cacheSet[i] /\ cacheSet[i] \in Line
        BY <2>2, <3>3, SetsAssumption DEF LinesApart
      <4>2. QED
        BY <2>2, <3>2, <4>1, OnlyComes
    <3>5. \A q \in 1..((pos + 1) - 1) : Traversal(call)[q] # j
      <4>1. \A q \in 1..((pos + 1) - 1) : q \in 1..(pos - 1) \/ q = pos
        BY <2>2, TraversalIndex
      <4>2. QED
        BY <2>1, <3>2, <3>3, <4>1
    <3>6. QED
      BY <2>2, <3>4, <3>5 DEF ToMiss
  <2>8. QED
    BY <2>2, <2>6, <2>7 DEF DisturbedInv
<1>3. CASE EndPass
  <2> SUFFICES ASSUME Disturbed(call) PROVE DisturbedInv'
    BY <1>3 DEF EndPass, DisturbedInv, Disturbed, Undisturbed
  <2>1. /\ phase = "traverse" /\ pos = Len(Traversal(call)) + 1 /\ passes' = passes
        /\ call' = call /\ rep \in Nat /\ Len(Traversal(call)) \in Nat
        /\ \/ phase' = "refresh" /\ rep' = rep
           \/ phase' = "timed" /\ rep' = rep + 1
    BY <1>3, TraversalIndex DEF EndPass, CtlInv
  <2>2. Traversal(call) # simple_run
    <3>1. ~Falls(call)
      BY DEF Disturbed, Falls
    <3>2. QED
      BY <3>1, SuitedTraversal
  <2>3. ~ToMiss
    <3>1. (Len(Traversal(call)) + 1) - 1 = Len(Traversal(call))
      BY <2>1
    <3>2. QED
      BY <2>1, <2>2, <3>1, VisitsAll DEF ToMiss
  <2>4. rep + 1 \in DOMAIN passes /\ passes[rep + 1] \in Nat
    BY <2>1, LenProperties, ElementOfSeq DEF PassesInv
  <2>5. passes[rep + 1] > 0 /\ \A k \in 1..rep : passes[k] > 0
    BY <2>1, <2>3, <2>4 DEF DisturbedInv, InTimer
  <2>6. \A k \in 1..(rep + 1) : passes[k] > 0
    <3>1. \A k \in 1..(rep + 1) : k \in 1..rep \/ k = rep + 1
      BY <2>1
    <3>2. QED
      BY <2>5, <3>1
  <2>7. QED
    BY <2>1, <2>5, <2>6 DEF DisturbedInv
<1>4. CASE EndRefresh
  <2> SUFFICES ASSUME Disturbed(call) PROVE DisturbedInv'
    BY <1>4 DEF EndRefresh, DisturbedInv, Disturbed, Undisturbed
  <2>1. /\ phase = "refresh" /\ phase' = "timed" /\ rep' = rep + 1 /\ rep \in Nat
        /\ passes' = passes /\ call' = call
    BY <1>4 DEF EndRefresh, CtlInv
  <2>2. \A k \in 1..(rep + 1) : passes[k] > 0
    <3>1. \A k \in 1..(rep + 1) : k \in 1..rep \/ k = rep + 1
      BY <2>1
    <3>2. QED
      BY <2>1, <3>1 DEF DisturbedInv, InTimer
  <2>3. QED
    BY <2>1, <2>2 DEF DisturbedInv
<1>5. CASE StartTimer
  <2>1. /\ phase = "preamble" /\ phase' = "timed" /\ rep' = rep /\ rep = 0
    BY <1>5 DEF StartTimer, CtlInv
  <2>2. QED
    BY <2>1 DEF DisturbedInv
<1>6. CASE RefreshStep \/ UNCHANGED vars
  <2>1. \/ phase' = "refresh"
        \/ l1' = l1 /\ pos' = pos
    BY <1>6 DEF RefreshStep, vars
  <2>2. phase' = phase /\ call' = call /\ rep' = rep /\ passes' = passes
    BY <1>6 DEF RefreshStep, vars
  <2>3. QED
    BY <2>1, <2>2 DEF DisturbedInv, InTimer, ToMiss
<1>7. CASE mwrite_v \/ EndSetUp \/ Refill \/ Calling \/ PreambleStep \/ Return
           \/ \E x \in Foreign : OtherCode(x)
  <2>1. phase' \notin {"timed", "traverse", "refresh"}
    BY <1>7 DEF mwrite_v, EndSetUp, Refill, Calling, leaky_run, showtime_reorder,
       showtime_llc_eviction, Begin, PreambleStep, Return, OtherCode, callVars
  <2>2. QED
    BY <2>1 DEF DisturbedInv, InTimer
<1>8. QED
  BY <1>1, <1>2, <1>3, <1>4, <1>5, <1>6, <1>7 DEF Next, Running

\* A disturbed run misses in every pass, however many it makes, and with
\* refreshes between them too.
THEOREM AmplificationLasts ==
  ASSUME LinesApart, StartsClean
  PROVE  Spec /\ []Suits(call) => []DisturbedMissesEveryPass
<1>1. Init => DisturbedInv
  BY DEF Init, DisturbedInv, InTimer
<1>2. SetInv /\ CtlInv /\ PassesInv /\ Suits(call) /\ PlaceInv /\ DisturbedInv
        /\ [Next]_vars => DisturbedInv'
  BY DisturbedStep
<1>3. Init => PassesInv
  BY EmptySeq DEF Init, PassesInv
<1>4. DisturbedInv => DisturbedMissesEveryPass
  BY DEF DisturbedInv, DisturbedMissesEveryPass
<1>5. QED
  BY <1>1, <1>2, <1>3, <1>4, PlaceInvariant, PassesStep, PTL DEF Spec

-----------------------------------------------------------------------------
\* simple_run loads cacheSet[0] alone; a healing run of the showtime functions
\* has all of cacheSet in the set once cacheSet[1] is loaded.
AtMostOne == \A k \in DOMAIN passes : passes[k] <= (IF k = 1 THEN 1 ELSE 0)

NoMissYet == \A k \in DOMAIN passes : passes[k] = 0

\* Before the load that heals.
StillIll ==
  IF Falls(call) THEN rep = 0 /\ pos = 1 ELSE Ill(call, rep, pos)

\* The misses of a healing run so far.
HealInv ==
  (Healing(call) /\ call.refresh = 0) =>
    /\ AtMostOne
    /\ phase # "refresh"
    /\ phase \in {"timed", "traverse"} =>
         /\ StillIll => NoMissYet
         /\ ~StillIll /\ Falls(call) => Resident(l1, cacheSet[0])

SimpleLoads ==
  \A p \in 1..Len(simple_run) : simple_run[p] = 0

LEMMA SimpleForm == SimpleLoads /\ Len(simple_run) = 32
BY Simple DEF SimpleLoads, simple_run

\* The lines of a run that has healed.
LEMMA HealedHeld ==
  ASSUME PlaceInv, CtlInv, Healing(call), ~Falls(call), phase = "traverse", ~Ill(call, rep, pos)
  PROVE  AllHeld(l1)
<1>1. LoopAt(l1, call, rep, pos)
  BY DEF PlaceInv, LoopPlace
<1>2. ~Blind(call) /\ ~Disturbed(call)
  BY DEF Healing, Blind, Disturbed, Falls
<1>3. QED
  BY <1>1, <1>2 DEF LoopAt, MatePlace

\* Until then the run only hits.
LEMMA IllHits ==
  ASSUME LinesApart, NEW s \in CacheSet, NEW c, Traversal(c) # simple_run,
         NEW p \in 1..Len(Traversal(c)), NEW n, Ill(c, n, p + 1), IllPlace(s, c, p)
  PROVE  Resident(s, cacheSet[Traversal(c)[p]])
<1>1. /\ p \in 1..28 /\ Gap(c) \in {2, 3, 4}
      /\ p = 1 => Traversal(c)[p] = 0
      /\ Traversal(c)[p] = 4 <=> p % Gap(c) = 0
  BY PinnedPlaces, TraversalForm
<1>2. p = 1 \/ (p = 2 /\ Gap(c) = 2)
  BY <1>1 DEF Ill
<1>3. \E m \in Seats : At(s, m) = cacheSet[Traversal(c)[p]]
  <2>1. CASE p = 1
    <3>1. At(s, 7) = cacheSet[0]
      BY <2>1 DEF IllPlace, Lines, Stand
    <3>2. QED
      BY <1>1, <2>1, <3>1 DEF Seats
  <2>2. CASE p = 2 /\ Gap(c) = 2
    <3>1. At(s, 7) = cacheSet[4]
      BY <2>2 DEF IllPlace, Lines, Stand
    <3>2. Traversal(c)[p] = 4
      BY <1>1, <2>2
    <3>3. QED
      BY <3>1, <3>2 DEF Seats
  <2>3. QED
    BY <1>2, <2>1, <2>2
<1>4. QED
  BY <1>3, ResidentSeat

\* A load of a healing run.
LEMMA HealTraverse ==
  ASSUME LinesApart, SetInv, CtlInv, PassesInv, Suits(call), PlaceInv, HealInv,
         Healing(call), call.refresh = 0, TraverseStep
  PROVE  HealInv'
<1>1. PICK i : i = Traversal(call)[pos]
  OBVIOUS
<1>2. /\ i \in Index /\ pos \in 1..Len(Traversal(call)) /\ GoodCall(call)
      /\ l1 \in CacheSet /\ l1' \in Loaded(l1, cacheSet[i])
      /\ phase' = "traverse" /\ call' = call /\ rep' = rep /\ pos' = pos + 1
      /\ rep \in Nat /\ rep + 1 \in DOMAIN passes /\ DOMAIN passes' = DOMAIN passes
      /\ \A k \in DOMAIN passes : passes[k] \in Nat
      /\ \A k \in DOMAIN passes :
           passes'[k] = IF k = rep + 1
                        THEN passes[k] + (IF Resident(l1, cacheSet[i]) THEN 0 ELSE 1)
                        ELSE passes[k]
  BY <1>1, TraverseFacts
<1>3. phase = "traverse" /\ pos \in Nat /\ pos >= 1
  BY <1>2, TraversalIndex DEF TraverseStep
<1>4. AtMostOne /\ (StillIll => NoMissYet)
      /\ (~StillIll /\ Falls(call) => Resident(l1, cacheSet[0]))
  BY <1>3 DEF HealInv
<1>5. cacheSet[i] \in Line
  BY <1>2, SetsAssumption
<1>6. CASE StillIll
  <2>1. rep = 0 /\ NoMissYet
    BY <1>4, <1>6 DEF StillIll, Ill
  <2>2. \A k \in DOMAIN passes : passes'[k] <= (IF k = 1 THEN 1 ELSE 0)
    BY <1>2, <2>1 DEF NoMissYet
  <2>3. AtMostOne'
    BY <1>2, <2>2 DEF AtMostOne
  <2>4. CASE Falls(call)
    <3>1. pos = 1 /\ Traversal(call) = simple_run
      BY <1>6, <2>4 DEF StillIll, Falls, Traversal
    <3>2. i = 0
      BY <1>1, <1>2, <3>1, SimpleForm DEF SimpleLoads
    <3>3. Resident(l1', cacheSet[0])
      BY <1>2, <1>5, <3>2, OnlyComes
    <3>4. ~(StillIll')
      BY <1>2, <2>4, <3>1 DEF StillIll
    <3>5. QED
      BY <1>2, <2>3, <3>3, <3>4 DEF HealInv
  <2>5. CASE ~Falls(call)
    <3>1. ASSUME Ill(call, rep, pos + 1)
          PROVE  \A k \in DOMAIN passes : passes'[k] = 0
      <4>1. Ill(call, rep, pos) /\ LoopAt(l1, call, rep, pos)
        BY <1>3, <1>6, <2>5 DEF StillIll, PlaceInv, LoopPlace
      <4>2. ~Blind(call) /\ Traversal(call) # simple_run
        <5>1. ~Blind(call)
          BY <2>5 DEF Healing, Blind, Falls
        <5>2. QED
          BY <2>5, <5>1, SuitedTraversal
      <4>3. IllPlace(l1, call, pos)
        BY <2>5, <4>1, <4>2 DEF LoopAt
      <4>4. Resident(l1, cacheSet[i])
        BY <1>1, <1>2, <3>1, <4>1, <4>2, <4>3, IllHits
      <4>5. QED
        BY <1>2, <2>1, <4>4 DEF NoMissYet
    <3>2. StillIll' => NoMissYet'
      BY <1>2, <2>5, <3>1 DEF StillIll, NoMissYet
    <3>3. QED
      BY <1>2, <2>3, <2>5, <3>2 DEF HealInv
  <2>6. QED
    BY <2>4, <2>5
<1>7. CASE ~StillIll
  <2>1. Resident(l1, cacheSet[i]) /\ (Falls(call) => i = 0)
    <3>1. CASE Falls(call)
      <4>1. Traversal(call) = simple_run
        BY <3>1 DEF Falls, Traversal
      <4>2. i = 0
        BY <1>1, <1>2, <4>1, SimpleForm DEF SimpleLoads
      <4>3. QED
        BY <1>4, <1>7, <3>1, <4>2
    <3>2. CASE ~Falls(call)
      BY <1>2, <1>3, <1>7, <3>2, HealedHeld DEF StillIll, AllHeld
    <3>3. QED
      BY <3>1, <3>2
  <2>2. \A k \in DOMAIN passes : passes'[k] = passes[k]
    BY <1>2, <2>1
  <2>3. AtMostOne'
    BY <1>2, <1>4, <2>2 DEF AtMostOne
  <2>4. ~(StillIll')
    <3>1. pos + 1 # 1
      BY <1>3
    <3>2. ~Falls(call) => ~Ill(call, rep, pos + 1)
      BY <1>3, <1>7 DEF StillIll, Ill
    <3>3. QED
      BY <1>2, <3>1, <3>2 DEF StillIll
  <2>5. Falls(call) => Resident(l1', cacheSet[0])
    BY <1>2, <1>5, <2>1, OnlyComes
  <2>6. QED
    BY <1>2, <2>3, <2>4, <2>5 DEF HealInv
<1>8. QED
  BY <1>6, <1>7

\* The other steps add no miss.
LEMMA HealStep ==
  ASSUME LinesApart, SetInv, CtlInv, PassesInv, Suits(call), PlaceInv, HealInv, [Next]_vars
  PROVE  HealInv'
<1>1. CASE TraverseStep
  <2>1. call' = call
    BY <1>1 DEF TraverseStep
  <2>2. CASE Healing(call) /\ call.refresh = 0
    BY <1>1, <2>2, HealTraverse
  <2>3. CASE ~(Healing(call) /\ call.refresh = 0)
    BY <2>1, <2>3 DEF HealInv, Healing
  <2>4. QED
    BY <2>2, <2>3
<1>2. CASE StartPass
  <2> SUFFICES ASSUME Healing(call), call.refresh = 0 PROVE HealInv'
    BY <1>2 DEF StartPass, HealInv, Healing
  <2>1. /\ phase = "timed" /\ phase' = "traverse" /\ call' = call /\ rep' = rep
        /\ pos' = pos /\ l1' = l1
    BY <1>2 DEF StartPass, setVars
  <2>2. /\ AtMostOne /\ (StillIll => NoMissYet)
        /\ (~StillIll /\ Falls(call) => Resident(l1, cacheSet[0]))
    BY <2>1 DEF HealInv
  <2>3. /\ DOMAIN passes = 1..rep /\ DOMAIN passes' = 1..(rep + 1) /\ rep \in Nat
        /\ \A k \in 1..rep : passes'[k] = passes[k]
        /\ passes'[rep + 1] = 0
    BY <1>2, StartPassFacts
  <2>4. \A k \in 1..(rep + 1) : k \in 1..rep \/ k = rep + 1
    BY <2>3
  <2>5. AtMostOne' /\ (NoMissYet => NoMissYet')
    BY <2>2, <2>3, <2>4 DEF AtMostOne, NoMissYet
  <2>6. StillIll' <=> StillIll
    BY <2>1, Zenon DEF StillIll
  <2>7. QED
    BY <2>1, <2>2, <2>5, <2>6 DEF HealInv
<1>3. CASE EndPass
  <2> SUFFICES ASSUME Healing(call), call.refresh = 0 PROVE HealInv'
    BY <1>3 DEF EndPass, HealInv, Healing
  <2>1. /\ phase = "traverse" /\ phase' = "timed" /\ call' = call /\ rep' = rep + 1
        /\ l1' = l1 /\ rep \in Nat /\ passes' = passes
        /\ pos = Len(Traversal(call)) + 1 /\ Len(Traversal(call)) \in Nat
    BY <1>3, TraversalIndex DEF EndPass, RefreshDue, CtlInv, setVars
  <2>2. rep + 1 # 0
    BY <2>1
  <2>3. ~(StillIll')
    BY <2>1, <2>2 DEF StillIll, Ill
  <2>4. AtMostOne /\ (~StillIll /\ Falls(call) => Resident(l1, cacheSet[0]))
    BY <2>1 DEF HealInv
  <2>5. Falls(call) => ~StillIll
    <3>1. Falls(call) => Traversal(call) = simple_run
      BY DEF Falls, Traversal
    <3>2. Falls(call) => Len(Traversal(call)) = 32
      BY <3>1, SimpleForm, Zenon
    <3>3. Falls(call) => pos # 1
      <4>1. Falls(call) => pos = 32 + 1
        BY <2>1, <3>2, Zenon
      <4>2. 32 + 1 # 1
        OBVIOUS
      <4>3. QED
        BY <4>1, <4>2, Zenon
    <3>4. QED
      BY <3>3 DEF StillIll
  <2>6. QED
    BY <2>1, <2>3, <2>4, <2>5 DEF HealInv, AtMostOne
<1>4. CASE StartTimer
  <2>1. /\ phase' = "timed" /\ call' = call /\ rep' = 0 /\ pos' = 1 /\ passes' = passes
        /\ phase = "preamble" /\ DOMAIN passes = 1..0
    BY <1>4, LenProperties DEF StartTimer, CtlInv, PassesInv
  <2>2. AtMostOne' /\ NoMissYet'
    BY <2>1 DEF AtMostOne, NoMissYet
  <2>3. Falls(call)' => StillIll'
    BY <2>1 DEF StillIll
  <2>4. QED
    BY <2>1, <2>2, <2>3 DEF HealInv
<1>5. CASE Calling
  <2>1. passes' = <<>> /\ phase' = "preamble"
    BY <1>5 DEF Calling, leaky_run, showtime_reorder, showtime_llc_eviction, Begin
  <2>2. QED
    BY <2>1 DEF HealInv, AtMostOne
<1>6. CASE RefreshStep \/ EndRefresh
  <2>1. phase = "refresh" /\ call' = call
    BY <1>6 DEF RefreshStep, EndRefresh
  <2>2. QED
    BY <2>1 DEF HealInv, Healing
<1>7. CASE \/ mwrite_v \/ EndSetUp \/ Refill \/ PreambleStep \/ Return
           \/ \E x \in Foreign : OtherCode(x)
  <2>1. call' = call /\ passes' = passes /\ phase' \in {"setup", "idle", "preamble"}
    BY <1>7 DEF mwrite_v, EndSetUp, Refill, PreambleStep, Return, OtherCode, callVars
  <2>2. QED
    BY <2>1 DEF HealInv, Healing, AtMostOne
<1>8. CASE UNCHANGED vars
  <2>1. /\ call' = call /\ passes' = passes /\ phase' = phase /\ l1' = l1 /\ pos' = pos
        /\ rep' = rep
    BY <1>8 DEF vars
  <2>2. QED
    BY <2>1, Zenon DEF HealInv, AtMostOne, NoMissYet, StillIll
<1>9. QED
  BY <1>1, <1>2, <1>3, <1>4, <1>5, <1>6, <1>7, <1>8 DEF Next, Running

\* The counterpart of a disturbed run pays for at most one miss, in the first
\* pass; so does the fall-back traversal.
THEOREM DisturbanceHeals ==
  ASSUME LinesApart, StartsClean
  PROVE  Spec /\ []Suits(call) => []HealedAfterOneMiss
<1>1. Init => HealInv
  BY DEF Init, HealInv, AtMostOne
<1>2. SetInv /\ CtlInv /\ PassesInv /\ Suits(call) /\ PlaceInv /\ HealInv
        /\ [Next]_vars => HealInv'
  BY HealStep
<1>3. Init => PassesInv
  BY EmptySeq DEF Init, PassesInv
<1>4. HealInv => HealedAfterOneMiss
  BY DEF HealInv, AtMostOne, HealedAfterOneMiss
<1>5. QED
  BY <1>1, <1>2, <1>3, <1>4, PlaceInvariant, PassesStep, PTL DEF Spec
=============================================================================
