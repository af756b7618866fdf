CONSTANTS
  Invocations = {1}
  b1 = b1
  b2 = b2
  rulesA = rulesA
  rulesB = rulesB
  Bindings = {b1, b2}
  Versions = {1, 2}
  Texts = {plain}
  EmptyText = plain
  RuleTexts = {rulesA, rulesB}
  Requests <- SharedRequests
  Absent = Absent
  Torn = Torn
  Free = Free
  MaxRunning = 1
  MaxEdits = 0
  MaxCrashes = 1
  MaxFaults = 0
  TornCreates = FALSE
SPECIFICATION Spec
INVARIANTS
  AlwaysRestorable
CHECK_DEADLOCK FALSE
