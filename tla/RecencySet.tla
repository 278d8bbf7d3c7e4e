---------------------------- MODULE RecencySet -----------------------------
(***************************************************************************)
(* What amplify.c counts on: a set that never drops the lines accessed     *)
(* last.  Any client may load or flush any line of the set at any time.    *)
(* age[x] counts the accesses to the set since x was accessed, up to Old;  *)
(* a line never accessed, or flushed since, is Old too.                    *)
(*                                                                         *)
(* The traversals of amplify.c access cacheSet[4] at least once in every   *)
(* four accesses; Amplify implements this specification, so what is proved *)
(* of it holds of cacheSet[4].                                             *)
(***************************************************************************)
EXTENDS PlruSet

VARIABLES
  l1,   \* the L1 set
  age   \* history: accesses since each line was accessed

Old == 4

setVars == <<l1, age>>

Older(a) == IF a = Old THEN Old ELSE a + 1

Access(x) ==
  /\ l1' \in Loaded(l1, x)
  /\ age' = [y \in Line |-> IF y = x THEN 0 ELSE Older(age[y])]

Flush(x) ==
  /\ l1' = Flushed(l1, x)
  /\ age' = [age EXCEPT ![x] = Old]

\* Before the first access the set holds anything, each line once.
InitSet ==
  /\ l1 \in CacheSet
  /\ HeldOnce(l1)
  /\ age = [x \in Line |-> Old]

NextSet == \E x \in Line : Access(x) \/ Flush(x)

SpecSet == InitSet /\ [][NextSet]_setVars

-----------------------------------------------------------------------------
SetTypeOK ==
  /\ l1 \in CacheSet
  /\ age \in [Line -> 0..Old]

\* The four lines accessed last are always in the set, whatever it held
\* before and whatever the sequence of accesses was: a tree of three levels
\* turns at most one node towards a line per access to another line, and
\* evicts it only when all three point to it.
RecentLinesResident ==
  \A x \in Line : age[x] < Old => Resident(l1, x)
=============================================================================
