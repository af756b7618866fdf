CONSTANTS
  Invocations = {1, 2, 3}
  b1 = b1
  b2 = b2
  rulesA = rulesA
  rulesB = rulesB
  Bindings = {b1}
  Versions = {1}
  Texts = {plain}
  EmptyText = plain
  RuleTexts = {}
  Requests <- RecoveryRequests
  Absent = Absent
  Torn = Torn
  Free = Free
  MaxRunning = 3
  MaxEdits = 0
  MaxCrashes = 1
  MaxFaults = 0
  TornCreates = FALSE
SPECIFICATION Spec
PROPERTIES
  PreparedBlocksMutation
CHECK_DEADLOCK FALSE
