------------------------------ MODULE PlruSet ------------------------------
(***************************************************************************)
(* One eight-way L1 cache set with the tree pseudo-LRU replacement policy  *)
(* that amplify.c is written for (prepare_PLRU_state, "L1 PLRU state").    *)
(* The set is hardware: it is external to the repository, and is modelled  *)
(* from the way the code uses it through maccess and clflush.              *)
(*                                                                         *)
(* A way is a path <<h, q, p>> from the root of the tree to a leaf: half,  *)
(* quarter, place.  Every inner node holds one bit, the child under which  *)
(* the next victim is looked for.  An access turns the bits on its own     *)
(* path away from it.                                                      *)
(***************************************************************************)
EXTENDS Integers

CONSTANTS
  Line,    \* the cache lines that map to this set
  NoLine   \* content of an invalid way

ASSUME NoLineAssumption == NoLine \notin Line

Bit == 0..1
Way == Bit \X Bit \X Bit

Tree == [root : Bit, mid : [Bit -> Bit], leaf : [Bit \X Bit -> Bit]]

\* A set is what its ways hold and the state of its tree.
CacheSet == [way : [Way -> Line \cup {NoLine}], tree : Tree]

Away(b) == 1 - b

\* The leaf the tree points to.
Victim(t) ==
  LET h == t.root
      q == t.mid[h]
  IN  <<h, q, t.leaf[<<h, q>>]>>

\* The tree after an access to way w.
Touch(t, w) ==
  [root |-> Away(w[1]),
   mid  |-> [t.mid  EXCEPT ![w[1]] = Away(w[2])],
   leaf |-> [t.leaf EXCEPT ![<<w[1], w[2]>>] = Away(w[3])]]

\* How many of the three nodes on w's path point to w: w is the victim when
\* all of them do.
Toward(t, w) ==
    (IF t.root = w[1] THEN 1 ELSE 0)
  + (IF t.mid[w[1]] = w[2] THEN 1 ELSE 0)
  + (IF t.leaf[<<w[1], w[2]>>] = w[3] THEN 1 ELSE 0)

Holders(s, x) == {w \in Way : s.way[w] = x}

Resident(s, x) == \E w \in Way : s.way[w] = x

\* A miss fills an invalid way when there is one, else the victim.
FillWays(s) ==
  IF Holders(s, NoLine) # {} THEN Holders(s, NoLine) ELSE {Victim(s.tree)}

\* The sets that a load of line x can leave behind.
Loaded(s, x) ==
  IF Resident(s, x)
  THEN {[s EXCEPT !.tree = Touch(s.tree, w)] : w \in Holders(s, x)}
  ELSE {[way  |-> [s.way EXCEPT ![w] = x],
         tree |-> Touch(s.tree, w)] : w \in FillWays(s)}

\* The set after clflush(x): the line is dropped, the tree does not change.
Flushed(s, x) ==
  [s EXCEPT !.way = [w \in Way |-> IF s.way[w] = x THEN NoLine ELSE s.way[w]]]

\* No line is held twice.
HeldOnce(s) ==
  \A v, w \in Way : (s.way[v] = s.way[w] /\ s.way[v] # NoLine) => v = w
=============================================================================
