--------------------------- MODULE DistinctPicks ---------------------------
(***************************************************************************)
(* What a caller of construct_L1_eviction_set is promised: for each array, *)
(* pages of its memory one at a time, and when it is ready, SIZE of them,  *)
(* all different.                                                          *)
(***************************************************************************)
EXTENDS Naturals, FiniteSets

CONSTANTS Arrays, Pages, SIZE

VARIABLES picked, ready

Init ==
  /\ picked = [a \in Arrays |-> {}]
  /\ ready = {}

Pick(a, r) ==
  /\ a \notin ready
  /\ r \notin picked[a]
  /\ picked' = [picked EXCEPT ![a] = @ \cup {r}]
  /\ ready' = IF Cardinality(picked'[a]) = SIZE THEN ready \cup {a} ELSE ready

Next == \E a \in Arrays, r \in Pages : Pick(a, r)

Spec == Init /\ [][Next]_<<picked, ready>>
=============================================================================
