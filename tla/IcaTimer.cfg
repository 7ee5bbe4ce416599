SPECIFICATION Spec
CONSTANTS
  Items = {b1, b2, b3, b4}
  None = None
  Processors = 2
  MaxFailures = 2
  MaxRaces = 1
INVARIANTS
  TypeOK
  ListExact
  BlocksExact
  TimerHeld
  SdLinkHeld
PROPERTIES
  OneShotSpec
  BlockComesBack
