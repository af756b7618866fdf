CONSTANTS
  Invocations = {p1, p2, p3, p4}
  Recoverers = {}
  NoDir = NoDir
  NoOwner = NoOwner
SPECIFICATION Spec
SYMMETRY Symmetric
INVARIANTS
  MutualExclusion
PROPERTIES
  ImplementsRootLock
CHECK_DEADLOCK FALSE
