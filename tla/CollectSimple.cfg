CONSTANTS
  Time <- MCTime
  arrSize = 4
  NReps = 2
CHECK_DEADLOCK FALSE
SPECIFICATION Spec
INVARIANTS
  SimpleRowsFresh
