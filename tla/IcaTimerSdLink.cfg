SPECIFICATION Spec
CONSTANTS
  Items = {b1, b2}
  None = None
  Processors = 2
  MaxFailures = 1
  MaxRaces = 1
INVARIANTS
  SdLinkReleased
