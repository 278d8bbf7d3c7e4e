CONSTANTS
  Line          <- MCLine
  NoLine        = NoLine
  Address       <- MCAddress
  cacheSet      <- MCcacheSet
  clearSet      <- MCclearSet
  evictor       = 16
  llc_candidate = 17
  l1b_element   = 18
  Repetitions   = {5}
  Refresh       <- MCRefresh
  Dists         = {2, 3, 4}
  Contents      <- MCContents
  Foreign       = {}
  Programs      <- MCPrograms
  REPETITIONS   = 5
CHECK_DEADLOCK FALSE
VIEW DriverView
SPECIFICATION DriverSpec
INVARIANTS
  DriverTypeOK
  ReportsAmplification
  SharedSetConverts
PROPERTIES
  RefreshSchedule
  SweepCompletes
