CONSTANTS
  Invocations = {p1, p2, r1, r2}
  Recoverers = {r1, r2}
  NoDir = NoDir
  NoOwner = NoOwner
SPECIFICATION FairSpec
INVARIANTS
  OverlapOnlyByRetiring
  HolderKeepsEvidence
PROPERTIES
  StaleLockIsRetired
CHECK_DEADLOCK FALSE
