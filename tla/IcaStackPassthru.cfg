SPECIFICATION Spec
CONSTANTS
  Stacks = {s1, s2}
  Connections = {c1, c2}
  Classes = {"Primary", "Passthru"}
  None = None
INVARIANTS
  PassthruOff
