SPECIFICATION Spec
CONSTANTS
  Irqs = {0, 6, 15}
  Turn = 5
  Sleep = {0, 2}
  Late = 1
INVARIANTS
  NothingInService
PROPERTIES
  SleepsLongEnough
  SleepReturns
CHECK_DEADLOCK FALSE
