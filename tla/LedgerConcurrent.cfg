SPECIFICATION Spec
CONSTANTS
  Null = Null
  Free = Free
  Orphan = Orphan
  Procs = {p1, p2}
  Envelopes <- Rivals
  MaxTime = 1
  MaxEvents = 3
  MaxFaults = 0
SYMMETRY Symmetry
CHECK_DEADLOCK FALSE
INVARIANTS DecisionsFresh SingleUse InitializedIsUsable BudgetHeld
PROPERTIES ImplementsAbstractLedger
