CONSTANTS
  Invocations = {1, 2, 3}
  b1 = b1
  b2 = b2
  rulesA = rulesA
  rulesB = rulesB
  Bindings = {b1}
  Versions = {1, 2}
  Texts = {plain}
  EmptyText = plain
  RuleTexts = {}
  Requests <- MutationRequests
  Absent = Absent
  Torn = Torn
  Free = Free
  MaxRunning = 3
  MaxEdits = 0
  MaxCrashes = 2
  MaxFaults = 1
  TornCreates = TRUE
SPECIFICATION Spec
INVARIANTS
  ReceiptsRecoverable
  

  
CHECK_DEADLOCK FALSE
