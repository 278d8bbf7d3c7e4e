CONSTANTS
  BitAnd <- MCBitAnd
  Period = 8
  TX_INTERVAL_DEF = 6
  SYNC_JITTER_DEF = 2
  Optioned = {}
  Intervals <- MCIntervals
  Masks <- MCMasks
  Gap = 2
  Bits = 2
  Texts <- MCTexts
  Beyond <- MCBeyond
CHECK_DEADLOCK FALSE
SPECIFICATION Spec
INVARIANTS
  ConvCharConverts
