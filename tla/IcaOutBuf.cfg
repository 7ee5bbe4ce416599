SPECIFICATION Spec
CONSTANTS
  Writers = {w1, w2}
  Counts = {1, 3}
  MaxOutBufCount = 3
  MAX_LOW_WATERMARK = 9
  MaxControl = 2
INVARIANTS
  TypeOK
  OrdinaryBounded
  PoolBounded
  NoLostWakeup
PROPERTIES
  WriterReturns
