CONSTANTS
  SIZE = 4
  MAX_RAND = 4
  THRESHOLD_TEST_COUNT = 2
  Time <- MCTime
  Word = 16
  Offsets <- MCOffsets
  StackOffsets <- MCStackOffsets
CHECK_DEADLOCK FALSE
SPECIFICATION Spec
INVARIANTS
  TypeOK
  TouchesMapped
  HelpersElsewhere
  LayoutForAmplify
  SamplesInOrder
PROPERTIES
  PicksDistinct
  SetUpEnds
