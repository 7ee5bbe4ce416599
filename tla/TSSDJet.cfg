SPECIFICATION FairSpec
CONSTANTS
  Sessions = {s1, s2}
  Ids = {i1, i2, i3, i4, i5}
  None = None
  FailedPings = 2
  Early = {s2}
  Chunk = 1
  MaxEvents = 3
INVARIANTS TypeOK RowsOwned ShutOut DivergenceReported StrandedOnlyByIPChange
CHECK_DEADLOCK FALSE
PROPERTIES RecoveryCompletes
