SPECIFICATION Spec
CONSTANTS
  Handles = {h1, h2}
  Irps = {i1, i2}
  None = None
  Classes = {"Keyboard", "Virtual"}
  ReadLengths = {1, 2}
  MaxUnits = 2
  MaxPackets = 3
  ThrottleSize = 3
INVARIANTS
  TypeOK
  NoStarvedRead
  LoopsNeverNest
  ReadsAccounted
  Throttled
  MessagesWhole
  ClosedChannelIsEmpty
  DisabledChannelIsEmpty
PROPERTIES
  StreamSpec
  LockReleased
