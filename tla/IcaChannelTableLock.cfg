SPECIFICATION Spec
CONSTANTS
  Objs = {o1, o2, o3}
  Plain = {Keyboard}
  VirtualNames = {n1, n2}
  VirtualClasses = {v1, v2}
  Handles = {h1, h2}
  Inputs = {t1, t2}
  Binder = Binder
  None = None
CHECK_DEADLOCK FALSE
INVARIANTS
  FreeHasLock
