SPECIFICATION Spec
CONSTANTS
  Handles = {h1, h2}
  Irps = {i1}
  None = None
  Classes = {"Keyboard"}
  ReadLengths = {1, 2}
  MaxUnits = 2
  MaxPackets = 2
  ThrottleSize = 3
INVARIANTS
  CurSizeExact
