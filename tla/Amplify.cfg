CONSTANTS
  Line          <- MCLine
  NoLine        = NoLine
  Address       <- MCAddress
  cacheSet      <- MCcacheSet
  clearSet      <- MCclearSet
  evictor       = 8
  llc_candidate = 30
  l1b_element   = 8
  Repetitions   = {3, 4}
  Refresh       = {0, 1, 2, 4}
  Dists         = {1, 2, 3, 4}
  Contents      <- MCContents
  Foreign       = {20}
VIEW SetView
SPECIFICATION Spec
INVARIANTS
  TypeOK
  ChaseStaysOnLines
  PrepareFillsSet
  PinnedNeverEvicted
  BaselineNeverMisses
  DisturbedMissesEveryPass
  HealedAfterOneMiss
