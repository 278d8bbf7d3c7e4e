------------------------------ MODULE ElemList ------------------------------
(***************************************************************************)
(* list_utils.c: the list of Elem that ps_evset links through the pages it *)
(* finds.  An Elem is written at the start of a page of the eviction       *)
(* memory, so its `next' outlives the list: a page that was in a list      *)
(* before still points to its old successor.                               *)
(*                                                                         *)
(* A list is [head, next]: *ptr, and the memory of all pages.  `prev' is   *)
(* written by list_append and list_pop and read by nothing; it is left     *)
(* out.  The operators return the list after the call; a call that also    *)
(* returns a length has an operator of its own for it.                     *)
(***************************************************************************)
EXTENDS Integers, Sequences, FiniteSets

CONSTANTS
  Page,   \* the pages of the eviction memory
  Null

ASSUME NullAssumption == Null \notin Page

ASSUME PageAssumption == IsFiniteSet(Page)

List == [head : Page \cup {Null}, next : [Page -> Page \cup {Null}]]

Last(s) == s[Len(s)]

\* The elements a loop `while (ptr) ptr = ptr->next' visits, in order.  The
\* walk is cut off after one element more than there are pages: one that long
\* is in a cycle and the loop of the code does not end.
Walk(l) ==
  LET w[n \in 0..Cardinality(Page)] ==
        IF n = 0
        THEN IF l.head = Null THEN <<>> ELSE <<l.head>>
        ELSE LET s == w[n - 1]
             IN  IF s = <<>> \/ l.next[Last(s)] = Null
                 THEN s ELSE Append(s, l.next[Last(s)])
  IN  w[Cardinality(Page)]

Elements(l) == {Walk(l)[k] : k \in DOMAIN Walk(l)}

list_length(l) == Len(Walk(l))

\* The array that list_to_array fills.
list_to_array(l) == Walk(l)

-----------------------------------------------------------------------------
\* The loop of list_append compares every element but the first with e.
AlreadyExists(l, e) ==
  \E k \in 2..list_length(l) : Walk(l)[k] = e

\* Mutant: the new last element keeps its old successor.
list_append_stale(l, e) ==
  CASE e = Null -> l
    [] e # Null /\ l.head = Null -> [l EXCEPT !.head = e]
    [] e # Null /\ l.head # Null /\ AlreadyExists(l, e) -> l
    [] OTHER -> [l EXCEPT !.next = [@ EXCEPT ![Last(Walk(l))] = e]]

\* An empty list gets e with whatever e points to; else e is linked behind
\* the last element, and becomes the last itself.
list_append(l, e) ==
  CASE e = Null -> l
    [] e # Null /\ l.head = Null -> [l EXCEPT !.head = e]
    [] e # Null /\ l.head # Null /\ AlreadyExists(l, e) -> l
    [] OTHER -> [l EXCEPT !.next = [@ EXCEPT ![Last(Walk(l))] = e, ![e] = Null]]

list_append_length(l, e) ==
  CASE e = Null -> -1
    [] e # Null /\ l.head = Null -> 1
    [] e # Null /\ l.head # Null /\ AlreadyExists(l, e) -> list_length(l)
    [] OTHER -> list_length(l) + 1

\* The first element, NULL for an empty list, goes; it keeps no successor.
list_pop(l) ==
  IF l.head = Null
  THEN l
  ELSE [head |-> l.next[l.head], next |-> [l.next EXCEPT ![l.head] = Null]]
=============================================================================
