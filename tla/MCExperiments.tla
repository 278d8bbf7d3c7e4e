--------------------------- MODULE MCExperiments ---------------------------
(***************************************************************************)
(* The two drivers on the lines they draw.  With srand(42) the 19 draws of *)
(* getRandomElement give 19 different pages, all at the same page offset,  *)
(* so that the evictor, llc_candidate and l1b_element are further lines of *)
(* the one set.  The rates of m2_experimentation.c are divided by 256.     *)
(***************************************************************************)
EXTENDS Experiments, MCAmplify

experimentation ==
  [loops |-> <<<<"noevict", "evict", "noreorder", "reorder", "noflush", "flush">>>>,
   seed |-> 1, REFRESH |-> 0, arrSize |-> 2]

m2_experimentation ==
  [loops |-> <<<<"noevict">>, <<"evict">>, <<"noreorder">>, <<"reorder">>>>,
   seed |-> 1, REFRESH |-> 16, arrSize |-> 3]

MCPrograms == {experimentation, m2_experimentation}
MCRefresh == 0..16

\* As in MCAmplify, with the state of the driver.
DriverView == <<SetView, driverVars>>

\* What the proofs assume of the drivers.
ASSUME CallsAssumption == CallsSuit
=============================================================================
