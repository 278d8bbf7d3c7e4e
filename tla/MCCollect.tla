----------------------------- MODULE MCCollect -----------------------------
(***************************************************************************)
(* Collect with two times.  sort() only ever exchanges neighbours that are *)
(* out of order, so by the 0-1 principle of sorting networks it sorts all  *)
(* times when it sorts two.  Four slots are the fewest with different      *)
(* quartiles and median.                                                   *)
(***************************************************************************)
EXTENDS Collect

MCTime == {1, 2}
=============================================================================
