------------------------------ MODULE MCSetUp ------------------------------
(***************************************************************************)
(* SetUp with real page offsets: the one of the program as built (36), and *)
(* those where the targets or the data wrap around the end of a page.      *)
(***************************************************************************)
EXTENDS SetUp

MCOffsets == {36, 376, 508}
MCStackOffsets == {0, 226, 510}
MCTime == {1, 2, 5}
=============================================================================
