CONSTANTS
  Page = {p1, p2, p3, p4}
  Null = Null
  Congruent = {p1, p2, p3, p4}
  Assoc = 2
  Evicting <- MCEvicting
  Noisy = TRUE
  Pools <- DistinctPools
  ways = 2
  MAX_POOL_SIZE = 4
  MAX_EXTENSION = 4
  MAX_ATTEMPT = 2
CHECK_DEADLOCK FALSE
SPECIFICATION Spec
PROPERTIES
  EmptyAppendWorks
