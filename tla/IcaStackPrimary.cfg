SPECIFICATION Spec
CONSTANTS
  Stacks = {s1, s2, s3}
  Connections = {c1, c2}
  Classes = {"Primary", "Shadow"}
  None = None
INVARIANTS
  OnePrimary
