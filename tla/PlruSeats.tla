----------------------------- MODULE PlruSeats -----------------------------
(***************************************************************************)
(* A tree-PLRU set as seen from its victim.  Swapping the children of a    *)
(* node of the tree, together with the bit of the node, changes nothing    *)
(* that a load can tell from outside; so only the seat of a way matters,   *)
(* and not which way it is: 1 for the victim, 8 for the way accessed last. *)
(* The sequences of amplify.c are followed here seat by seat.              *)
(***************************************************************************)
EXTENDS PlruSet

\* On the side of a node that its bit points to, or off it.
Off(b, c) == IF b = c THEN 0 ELSE 1

\* The seat of way w.
Rank(t, w) ==
  1 + 4 * Off(t.root, w[1]) + 2 * Off(t.mid[w[1]], w[2]) + Off(t.leaf[<<w[1], w[2]>>], w[3])

Seats == 1..8

\* The line at seat n.
At(s, n) == s.way[CHOOSE w \in Way : Rank(s.tree, w) = n]

\* Where an access to seat k takes the line at seat n: the root turns to the
\* other half, the node of the half to its other quarter, the node of the
\* quarter to its other place.
Lower == 1..4
Odd == {1, 3, 5, 7}
Quarter(n) == IF n <= 2 THEN 1 ELSE IF n <= 4 THEN 2 ELSE IF n <= 6 THEN 3 ELSE 4

Moved(k, n) ==
  IF n = k THEN 8
  ELSE IF (n \in Lower) # (k \in Lower) THEN (IF n \in Lower THEN n ELSE n - 4)
  ELSE IF Quarter(n) # Quarter(k) THEN (IF n \in Odd THEN 5 ELSE 6)
  ELSE 7

\* The set r is s after a load of x, at seat k.
LoadedAt(s, r, k, x) ==
  /\ At(r, 8) = x
  /\ \A n \in Seats \ {k} : At(r, Moved(k, n)) = At(s, n)

\* No way is invalid.
Full(s) == \A w \in Way : s.way[w] # NoLine

\* The whole set, from the victim's seat to the last accessed one.
Stand(s, a, b, c, d, e, f, g, h) ==
  /\ At(s, 1) = a /\ At(s, 2) = b /\ At(s, 3) = c /\ At(s, 4) = d
  /\ At(s, 5) = e /\ At(s, 6) = f /\ At(s, 7) = g /\ At(s, 8) = h

-----------------------------------------------------------------------------
\* Eight lines q[0], .., q[7] are loaded one after the other.  Each enters at
\* the victim's seat, sits down at 8, and leaves the set along Path.
Path == <<8, 4, 6, 2, 7, 3, 5, 1>>

\* The set before the load of q[j].  An invalid way may be left only where
\* the first two loads put it right.
Filling(s, q, j) ==
  /\ \A i \in 0..(j - 1) : At(s, Path[j - i]) = q[i]
  /\ \A i \in 0..7 : i > 0 /\ i >= j => ~Resident(s, q[i])
  /\ \A n \in Seats : At(s, n) = NoLine => (j = 0 /\ n = 8) \/ (j = 1 /\ n = 4)
  /\ (j = 0 /\ ~Full(s)) => \A n \in Seats : At(s, n) = q[0] => n <= 4

\* Two lines that share a quarter of the set move together.
Mated(s, x, y, S) ==
  \E n \in S : \/ At(s, n) = x /\ At(s, n + 1) = y
               \/ At(s, n) = y /\ At(s, n + 1) = x

\* Half a refresh: the lines q[0], .., q[5] are loaded, and after each three
\* of them the line y, which shares its quarter with x.  Of the six, those
\* from the i-th on are not in the set yet, unless at the victim's seat.
ToCome(s, q, i) == \A n \in 2..8 : \A j \in i..5 : At(s, n) # q[j]

\* The set before the m-th load of the half, or at its end.
HalfRefresh(s, x, y, q, m) ==
  \/ /\ m = 1
     /\ ToCome(s, q, 0) /\ At(s, 7) = x /\ At(s, 8) = y
  \/ /\ m = 2
     /\ ToCome(s, q, 1) /\ At(s, 3) = x /\ At(s, 4) = y
     /\ At(s, 8) = q[0]
  \/ /\ m = 3
     /\ ToCome(s, q, 2) /\ At(s, 5) = x /\ At(s, 6) = y
     /\ At(s, 4) = q[0] /\ At(s, 8) = q[1]
  \/ /\ m = 4
     /\ ToCome(s, q, 3) /\ At(s, 1) = x /\ At(s, 2) = y
     /\ At(s, 6) = q[0] /\ At(s, 4) = q[1] /\ At(s, 8) = q[2]
  \/ /\ m = 5
     /\ ToCome(s, q, 3) /\ At(s, 7) = x /\ At(s, 8) = y
     /\ At(s, 2) = q[0] /\ At(s, 6) = q[1] /\ At(s, 4) = q[2]
  \/ /\ m = 6
     /\ ToCome(s, q, 4) /\ At(s, 3) = x /\ At(s, 4) = y
     /\ At(s, 7) = q[0] /\ At(s, 2) = q[1] /\ At(s, 6) = q[2] /\ At(s, 8) = q[3]
  \/ /\ m = 7
     /\ ToCome(s, q, 5) /\ At(s, 5) = x /\ At(s, 6) = y
     /\ At(s, 3) = q[0] /\ At(s, 7) = q[1] /\ At(s, 2) = q[2]
     /\ At(s, 4) = q[3] /\ At(s, 8) = q[4]
  \/ m = 8 /\ Stand(s, x, y, q[1], q[4], q[0], q[3], q[2], q[5])
  \/ m = 9 /\ Stand(s, q[0], q[3], q[2], q[5], q[1], q[4], x, y)

\* The same where x is the first of the six lines.
OwnRefresh(s, y, q, m) ==
  \/ /\ m = 1
     /\ ToCome(s, q, 1) /\ At(s, 7) = q[0] /\ At(s, 8) = y
  \/ /\ m = 2
     /\ ToCome(s, q, 1) /\ At(s, 7) = y /\ At(s, 8) = q[0]
  \/ /\ m = 3
     /\ ToCome(s, q, 2) /\ At(s, 3) = y /\ At(s, 4) = q[0] /\ At(s, 8) = q[1]
  \/ /\ m = 4
     /\ ToCome(s, q, 3) /\ At(s, 5) = y /\ At(s, 6) = q[0]
     /\ At(s, 4) = q[1] /\ At(s, 8) = q[2]
  \/ /\ m = 5
     /\ ToCome(s, q, 3) /\ At(s, 7) = q[0] /\ At(s, 8) = y
     /\ At(s, 4) = q[1] /\ At(s, 6) = q[2]
  \/ /\ m = 6
     /\ ToCome(s, q, 4) /\ At(s, 3) = q[0] /\ At(s, 4) = y
     /\ At(s, 6) = q[1] /\ At(s, 2) = q[2] /\ At(s, 8) = q[3]
  \/ /\ m = 7
     /\ ToCome(s, q, 5) /\ At(s, 5) = q[0] /\ At(s, 6) = y
     /\ At(s, 2) = q[1] /\ At(s, 7) = q[2] /\ At(s, 4) = q[3] /\ At(s, 8) = q[4]
  \/ /\ m = 8
     /\ At(s, 1) = q[0] /\ At(s, 2) = y /\ At(s, 3) = q[2] /\ At(s, 4) = q[4]
     /\ At(s, 6) = q[3] /\ At(s, 7) = q[1] /\ At(s, 8) = q[5]
  \/ /\ m = 9
     /\ At(s, 2) = q[3] /\ At(s, 3) = q[1] /\ At(s, 4) = q[5] /\ At(s, 5) = q[2]
     /\ At(s, 6) = q[4] /\ At(s, 7) = q[0] /\ At(s, 8) = y

\* The m-th load of the half.
HalfLoad(y, q, m) == <<q[0], q[1], q[2], y, q[3], q[4], q[5], y>>[m]

\* Seven lines are loaded round and round, and after each three of them the
\* line y: o of the three were loaded since y, the line g0 last, then g1, and
\* so on.  All but the next of the seven are in the set, with x and y.
Cycle(s, o, x, y, g0, g1, g2, g3, g4, g5) ==
  \/ /\ o = 0 /\ Mated(s, x, y, {7})
     /\ At(s, 1) = g5 /\ At(s, 2) = g2 /\ At(s, 3) = g3
     /\ At(s, 4) = g0 /\ At(s, 5) = g4 /\ At(s, 6) = g1
  \/ /\ o = 1 /\ Mated(s, x, y, {3})
     /\ At(s, 1) = g5 /\ At(s, 2) = g2 /\ At(s, 5) = g4
     /\ At(s, 6) = g1 /\ At(s, 7) = g3 /\ At(s, 8) = g0
  \/ /\ o = 2 /\ Mated(s, x, y, {5})
     /\ At(s, 1) = g5 /\ At(s, 2) = g2 /\ At(s, 3) = g4
     /\ At(s, 4) = g1 /\ At(s, 7) = g3 /\ At(s, 8) = g0
  \/ /\ o = 3 /\ Mated(s, x, y, {1})
     /\ At(s, 3) = g4 /\ At(s, 4) = g1 /\ At(s, 5) = g5
     /\ At(s, 6) = g2 /\ At(s, 7) = g3 /\ At(s, 8) = g0
=============================================================================
