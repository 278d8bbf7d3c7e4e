----------------------------- MODULE MCAmplify -----------------------------
(***************************************************************************)
(* Amplify with lines 0..7 as cacheSet, 8..15 as clearSet, further lines   *)
(* that a driver may give a role, and eight lines of other code, which     *)
(* fill the set before the first run.  In shared_memory.c the evictor and  *)
(* l1b_element are clearSet[0] and llc_candidate is target_addr_m2, which  *)
(* lies in another L1 set; in experimentation.c the three are lines of     *)
(* their own, in the same set as all others.                               *)
(***************************************************************************)
EXTENDS AmplifyPlaces

MCcacheSet == [i \in 0..7 |-> i]
MCclearSet == [i \in 0..7 |-> 8 + i]
Other      == 20..27
Elsewhere  == 30

MCLine     == 0..18 \cup Other
MCAddress  == MCLine \cup {Elsewhere}

\* The ways hold the other lines.  Swapping the children of the tree's nodes
\* takes any state of the tree to any other and only renames the ways, so one
\* state of the tree stands for all of them.
MCContents ==
  {s \in {[way  |-> [w \in Way |-> 20 + 4 * w[1] + 2 * w[2] + w[3]],
           tree |-> [root |-> 0, mid |-> [h \in Bit |-> 0], leaf |-> [hq \in Bit \X Bit |-> 0]]]} :
     s \in CacheSet /\ HeldOnce(s)}

\* For the same reason states are told apart by the lines at the seats of the
\* tree, from the next victim to the line accessed last, and not by ways: which
\* way is at a seat makes no difference to any step (lemmas of RecencySetProofs)
\* and to no property of the runs.  age is left out too: it is history, which
\* only TypeOK names.
SetView == <<[k \in Seats |-> At(l1, k)], zeroed, trash, callVars>>

\* What the proofs assume of the lines.
ASSUME PlacesAssumption == LinesApart /\ StartsClean
=============================================================================
