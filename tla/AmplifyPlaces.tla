--------------------------- MODULE AmplifyPlaces ---------------------------
(***************************************************************************)
(* Where the lines of Amplify lie in the set, seat by seat, from the first *)
(* write of a driver to the last load of a run.  The set has so many       *)
(* states that what a run may count on can only be said this way: PlaceInv *)
(* is the invariant from which AmplifyProofs derives that the anchor of a  *)
(* run is never lost and that its misses are those it is meant to have.    *)
(***************************************************************************)
EXTENDS Amplify, PlruSeats

pin == cacheSet[Pinned]

-----------------------------------------------------------------------------
(* What the drivers see to. *)

\* The lines a driver passes are different, but for clearSet[0], which may
\* also be the evictor and l1b_element (shared_memory.c) where llc_candidate
\* maps to another set; other code leaves the rest of clearSet alone.
LinesApart ==
  /\ \A i, j \in Index : cacheSet[i] = cacheSet[j] => i = j
  /\ \A i, j \in Index : clearSet[i] = clearSet[j] => i = j
  /\ \A i, j \in Index : cacheSet[i] # clearSet[j]
  /\ \A i \in Index : cacheSet[i] \notin {evictor, llc_candidate, l1b_element}
  /\ \A i \in 1..7 : clearSet[i] \notin {evictor, llc_candidate, l1b_element} \cup Foreign
  /\ l1b_element \in Line
  /\ llc_candidate \in Line =>
       /\ clearSet[0] \notin {evictor, llc_candidate, l1b_element}
       /\ llc_candidate \notin {evictor, l1b_element}
       /\ Foreign = {}

\* The program finds the set full, with none of the lines it will clear it by.
StartsClean ==
  \A s \in Contents : Full(s) /\ \A i \in Index : ~Resident(s, clearSet[i])

\* The calls the drivers make: a refresh goes with one of the three
\* distances, and with an llc_candidate of another set.
Falls(c) == c.fn = "leaky_run" /\ c.dist = 1
Blind(c) == c.fn = "showtime_llc_eviction" /\ llc_candidate \in Line
Suits(c) ==
  /\ c.dist \in 1..4
  /\ c.refresh # 0 => ~Falls(c) /\ ~Blind(c)

-----------------------------------------------------------------------------
(* The places of the lines. *)

\* The line that the preamble brings in, and the line that shares a quarter of
\* the set with the pinned one during the timed loop.
Intruder(c) ==
  CASE c.fn = "leaky_run"        -> c.arg
    [] c.fn = "showtime_reorder" -> clearSet[0]
    [] OTHER                     -> l1b_element

Mate(c) == IF Disturbed(c) THEN Intruder(c) ELSE cacheSet[0]

\* Between two runs.  An invalid way is left behind by clflush(llc_candidate)
\* alone, and where it is does no harm as long as clearSet[0] is near the victim.
Idle(s) ==
  /\ Full(s)
  /\ \A i \in 1..7 : ~Resident(s, clearSet[i])
  /\ llc_candidate \in Line =>
       \A n \in Seats : At(s, n) = clearSet[0] => n \in {1, 7} /\ ~Resident(s, llc_candidate)

SetUpPlace ==
  phase = "setup" =>
    /\ pos = 1 => Idle(l1)
    /\ pos \in 1..9 => Filling(l1, clearSet, pos - 1)
    /\ pos \in 9..17 => Filling(l1, cacheSet, pos - 9)
    /\ pos >= 18 => /\ Idle(l1)
                    /\ llc_candidate \in Line => ~Resident(l1, clearSet[0])

\* The set with the lines of cacheSet at the seats of the eight numbers; x
\* where the number is 8.
Lines(s, x, a, b, c, d, e, f, g, h) ==
  LET line(i) == IF i = 8 THEN x ELSE cacheSet[i] IN
  Stand(s, line(a), line(b), line(c), line(d), line(e), line(f), line(g), line(h))

\* After n steps of the preamble beyond prepare_PLRU_state: showtime_reorder
\* with its two loads in the wrong and in the right order, and
\* showtime_llc_eviction with cacheSet[6] or cacheSet[7] before the other.
Reordered(s, x, n) ==
  \/ n = 1 /\ Lines(s, x, 1, 5, 3, 7, 2, 6, 4, 8)
  \/ n = 2 /\ Lines(s, x, 1, 5, 3, 7, 2, 6, 8, 4)
  \/ n = 3 /\ Lines(s, x, 2, 6, 8, 4, 3, 7, 1, 5)
  \/ n = 4 /\ Lines(s, x, 2, 6, 8, 4, 1, 5, 3, 7)
  \/ n = 5 /\ Lines(s, x, 1, 5, 3, 7, 2, 6, 8, 4)

InOrder(s, x, n) ==
  \/ n = 1 /\ Lines(s, x, 1, 5, 3, 7, 2, 6, 0, 4)
  \/ n = 2 /\ Lines(s, x, 2, 6, 0, 4, 3, 7, 5, 8)
  \/ n = 3 /\ Lines(s, x, 2, 6, 0, 4, 3, 7, 8, 5)
  \/ n = 4 /\ Lines(s, x, 2, 6, 0, 4, 8, 5, 3, 7)
  \/ n = 5 /\ Lines(s, x, 8, 5, 3, 7, 2, 6, 0, 4)

SixFirst(s, x, n) ==
  \/ n = 1 /\ Lines(s, x, 0, 4, 2, 6, 1, 5, 3, 7)
  \/ n = 2 /\ Lines(s, x, 1, 5, 3, 7, 0, 4, 2, 6)
  \/ n = 3 /\ Lines(s, x, 0, 4, 2, 6, 1, 5, 3, 7)
  \/ n = 4 /\ Lines(s, x, 1, 5, 3, 7, 2, 6, 4, 8)
  \/ n = 5 /\ Lines(s, x, 2, 6, 4, 8, 3, 7, 1, 5)
  \/ n = 6 /\ Lines(s, x, 2, 6, 4, 8, 1, 5, 3, 7)
  \/ n = 7 /\ Lines(s, x, 1, 5, 3, 7, 2, 6, 8, 4)

SevenFirst(s, x, n) ==
  \/ n \in {1, 2} /\ Lines(s, x, 0, 4, 2, 6, 1, 5, 3, 7)
  \/ n = 3 /\ Lines(s, x, 1, 5, 3, 7, 0, 4, 2, 6)
  \/ n = 4 /\ Lines(s, x, 0, 4, 2, 6, 3, 7, 5, 8)
  \/ n = 5 /\ Lines(s, x, 0, 4, 2, 6, 3, 7, 8, 5)
  \/ n = 6 /\ Lines(s, x, 0, 4, 2, 6, 8, 5, 3, 7)
  \/ n = 7 /\ Lines(s, x, 8, 5, 3, 7, 2, 6, 0, 4)

ClearOut(s) == Full(s) /\ \A i \in Index : ~Resident(s, clearSet[i])

RaceEnd(s, c, n) ==
  LET x == Intruder(c) IN
  IF n = 0 THEN Lines(s, x, 0, 4, 2, 6, 1, 5, 3, 7)
  ELSE IF c.fn = "leaky_run" THEN n = 1 /\ Lines(s, x, 1, 5, 3, 7, 2, 6, 4, 8)
  ELSE IF c.fn = "showtime_reorder"
  THEN IF c.arg = 1 THEN Reordered(s, x, n) ELSE InOrder(s, x, n)
  ELSE IF Blind(c) THEN ClearOut(s)
  ELSE IF c.at7 = 3 THEN SixFirst(s, x, n) ELSE SevenFirst(s, x, n)

Before(c) == Prepared(c) - 17

\* The set after the load of llc_candidate that a flush will undo: it took
\* the victim's seat, and moved clearSet[0] to the lower half at most.
LlcIn(s) ==
  /\ Full(s)
  /\ \A i \in 1..7 : ~Resident(s, clearSet[i])
  /\ llc_candidate \in Line =>
       /\ At(s, 8) = llc_candidate
       /\ \A n \in Seats : At(s, n) = clearSet[0] => n <= 4

PreamblePlace ==
  phase = "preamble" =>
    LET k == pos - Before(call) IN
    /\ pos = 1 => Idle(l1)
    /\ pos = 2 /\ Before(call) = 2 => LlcIn(l1)
    /\ k \in 1..9 => Filling(l1, clearSet, k - 1)
    /\ k \in 9..17 => Filling(l1, cacheSet, k - 9)
    /\ k >= 17 => RaceEnd(l1, call, k - 17)

\* In the timed loop no line is about that would be in the way of the next
\* refresh or the next run.
Tidy(s, c) ==
  /\ Full(s)
  /\ \A i \in 1..7 : ~Resident(s, clearSet[i])
  /\ Resident(s, clearSet[0]) => clearSet[0] = Intruder(c)
  /\ (llc_candidate \in Line /\ Resident(s, llc_candidate)) => Blind(c)

\* The line loaded last, before position p of pass r + 1; the timed loop tests
\* its condition at position 1.
LastPlace(s, c, p) ==
  /\ p > 1 => At(s, 8) = cacheSet[Traversal(c)[p - 1]]
  /\ p = 1 /\ c.fn = "showtime_reorder" => At(s, 8) = pin

\* A healing run of the showtime functions heals with the load of cacheSet[1].
Ill(c, r, p) ==
  /\ Healing(c) /\ c.fn # "leaky_run"
  /\ r = 0 /\ p <= (IF Gap(c) = 2 THEN 3 ELSE 2)

IllPlace(s, c, p) ==
  IF p = 2 THEN Lines(s, Intruder(c), 8, 5, 3, 7, 2, 6, 4, 0)
           ELSE Lines(s, Intruder(c), 8, 5, 3, 7, 2, 6, 0, 4)

\* The lines leaky_run_b4 goes round, besides the pinned one.
Ring == <<0, 1, 2, 3, 5, 6, 7>>
RingLine(m) == cacheSet[Ring[(m % 7) + 1]]
InCycle(s, x, o, m) ==
  Cycle(s, o, x, pin, RingLine(m + 6), RingLine(m + 5), RingLine(m + 4),
        RingLine(m + 3), RingLine(m + 2), RingLine(m + 1))

AllHeld(s) == \A i \in Index : Resident(s, cacheSet[i])

\* In which quarters the pinned line and its mate may be.
MatePlace(s, c, p) ==
  LET o == (p - 1) % Gap(c)
      x == Mate(c)
  IN
  /\ o = 0 => Mated(s, x, pin, {7})
  /\ IF ~Disturbed(c) THEN AllHeld(s) /\ Mated(s, x, pin, Odd)
     ELSE IF Gap(c) = 4 THEN InCycle(s, x, o, 3 * ((p - 1) \div 4) + o)
     ELSE /\ o = 1 => Mated(s, x, pin, {3, 5})
          /\ o = 2 => Mated(s, x, pin, {1, 3, 5})

LoopAt(s, c, r, p) ==
  /\ Tidy(s, c)
  /\ LastPlace(s, c, p)
  /\ Falls(c) /\ Undisturbed(c) => AllHeld(s)
  /\ IF Falls(c) \/ Blind(c) THEN TRUE
     ELSE IF Ill(c, r, p) THEN IllPlace(s, c, p)
     ELSE MatePlace(s, c, p)

LoopPlace ==
  phase \in {"timed", "traverse"} => LoopAt(l1, call, rep, pos)

FirstHalf == [i \in 0..5 |-> clearSet[i]]
SecondHalf == [i \in 0..5 |-> cacheSet[<<1, 2, 3, 5, 6, 7>>[i + 1]]]

RefreshAt(s, c, p) ==
  LET x == Mate(c) IN
  /\ Full(s)
  /\ p \in 1..8 => IF x = clearSet[0] THEN OwnRefresh(s, pin, FirstHalf, p)
                                      ELSE HalfRefresh(s, x, pin, FirstHalf, p)
  /\ p \in 9..17 => HalfRefresh(s, x, pin, SecondHalf, p - 8)

RefreshPlace == phase = "refresh" => call.refresh # 0 /\ RefreshAt(l1, call, pos)

IdlePlace == phase = "idle" => Idle(l1)

PlaceInv ==
  /\ HeldOnce(l1)
  /\ SetUpPlace /\ IdlePlace /\ PreamblePlace /\ LoopPlace /\ RefreshPlace
=============================================================================
