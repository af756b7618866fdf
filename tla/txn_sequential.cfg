CONSTANTS
  Invocations = {1, 2, 3, 4}
  b1 = b1
  b2 = b2
  rulesA = rulesA
  rulesB = rulesB
  Bindings = {b1, b2}
  Versions = {1, 2}
  Texts = {plain}
  EmptyText = plain
  RuleTexts = {rulesA, rulesB}
  Requests <- SharedRequests
  Absent = Absent
  Torn = Torn
  Free = Free
  MaxRunning = 1
  MaxEdits = 0
  MaxCrashes = 2
  MaxFaults = 0
  TornCreates = FALSE
SPECIFICATION FairSpec
INVARIANTS
  RestorableUnlessFreshRules
PROPERTIES
  
  ImplementsAtomicBinding
  RecoverySucceeds
CHECK_DEADLOCK FALSE
