SPECIFICATION Spec
CHECK_DEADLOCK FALSE
CONSTANTS
  Targets = {1, 2}
  Supported = {1}
  Modes = {"init", "init without tools", "tools"}
  Platforms = {"linux", "darwin", "other"}
  InitialStates = {"ABSENT", "OUTDATED", "CURRENT"}
  MaxSignals = 2
  MaxDrift = 1
INVARIANTS
  TypeOK
  ApprovedChangesOnly
  EffectsAuthorized
  InterruptionReportsEffect
  TargetsAccounted
PROPERTIES
  SignalAnswered
  SignalEndsPrompt
