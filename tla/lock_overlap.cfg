CONSTANTS
  Invocations = {p1, p2, p3, r1}
  Recoverers = {r1}
  NoDir = NoDir
  NoOwner = NoOwner
SPECIFICATION Spec
INVARIANTS
  MutualExclusion
CHECK_DEADLOCK FALSE
