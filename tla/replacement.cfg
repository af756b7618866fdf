SPECIFICATION Spec
CHECK_DEADLOCK FALSE
CONSTANTS
  a1 = a1
  a2 = a2
  Attempts = {a1, a2}
  Editor = Editor
  Missing = Missing
  OldBlock = OldBlock
  NoBlock = NoBlock
  MaxSaves = 2
SYMMETRY Symmetry
INVARIANTS
  UserTextKept
  NotRequiredIsUntouched
  OneSuccessPerEntry
PROPERTIES
  AnswerIsTrue
