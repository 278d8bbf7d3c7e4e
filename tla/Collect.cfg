CONSTANTS
  Time <- MCTime
  arrSize = 4
  NReps = 2
CHECK_DEADLOCK FALSE
SPECIFICATION Spec
INVARIANTS
  TypeOK
  RowsFresh
  RowsInOrder
  QuartileIsConservative
  FilesComplete
PROPERTIES
  Collects
