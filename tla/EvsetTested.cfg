CONSTANTS
  Page = {p1, p2, p3, p4}
  Null = Null
  Congruent = {p1, p2}
  Assoc = 2
  Evicting <- MCEvicting
  Noisy = FALSE
  Pools <- RoundPools
  ways = 2
  MAX_POOL_SIZE = 6
  MAX_EXTENSION = 5
  MAX_ATTEMPT = 1
SYMMETRY CongruentSymmetry
CHECK_DEADLOCK FALSE
SPECIFICATION Spec
INVARIANTS
  SuccessEvicts
  ReduceKeepsEvicting
  ReductionSucceeds
