SPECIFICATION Spec
CONSTANTS
  Stacks = {s1, s2}
  Connections = {c1, c2}
  Classes = {"Primary", "Shadow", "Passthru"}
  None = None
SYMMETRY Symmetry
INVARIANTS
  TypeOK
  RefsExact
  LinksLive
  InItsConnection
  DrainExact
  CallsGoOn
