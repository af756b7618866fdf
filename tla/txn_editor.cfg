CONSTANTS
  Invocations = {1, 2, 3}
  b1 = b1
  b2 = b2
  rulesA = rulesA
  rulesB = rulesB
  Bindings = {b1}
  Versions = {1}
  Texts = {plain, custom}
  EmptyText = plain
  RuleTexts = {}
  Requests <- EditorRequests
  Absent = Absent
  Torn = Torn
  Free = Free
  MaxRunning = 2
  MaxEdits = 2
  MaxCrashes = 1
  MaxFaults = 0
  TornCreates = FALSE
SPECIFICATION Spec
INVARIANTS
  UserTextRecoverable
CHECK_DEADLOCK FALSE
