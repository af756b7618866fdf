SPECIFICATION Spec
CONSTANTS
  Agents = {a1, a2}
  Ops = {o1}
  Events = {e1, e2}
  Payloads = {"x"}
  Nothing = Nothing
  MaxGenerations = 5
SYMMETRY Symmetry
INVARIANTS
  HistoryIntact
  AppliedOnce
  AcknowledgedIsDurable
  DispatchIsDurable
PROPERTIES
  ImplementsEffectLedger
  DurableIsFinal
