SPECIFICATION PartsSpec
CHECK_DEADLOCK FALSE
CONSTANTS
  c1 = c1
  c2 = c2
  p1 = p1
  p2 = p2
  Calls = {c1, c2}
  MaxAlter = 1
  Requests <- BridgeRequests
  Versions = {"v1", "v2"}
  NoBlock = NoBlock
  Characters = {"x", "y", "cr", "lf", "marker"}
  MaxText = 3
  MaxEdits = 2
  MaxRoots = 1
  Stores = {"s1", "s2"}
  MaxNamed = 3
  MaxChanges = 1
  LabelNames = {"l1", "l2", "l3"}
  MaxIds = 2
  Callers = {c1, c2}
  Pids = {p1, p2}
  Missing = Missing
  MaxOthers = 1
  MaxFaults = 1
SYMMETRY Symmetry
INVARIANTS
  PartsTypeOK
  AllowIsAuthorized
  AllowHasEvidence
  RoundTrip
  PendingIsReported
  CatalogIsSound
  NoResidue
PROPERTIES
  UserTextSurvives
  PlanReconciles
  OnlyBoundIsTaken
