SPECIFICATION Spec
CONSTANTS
  Lba = {0}
  CylinderOf <- MCCylinderOf
  Cylinder = {0, 1}
  Data = {"a", "b"}
  Patience = 2
  LateAnswers = TRUE
CHECK_DEADLOCK FALSE
INVARIANT
  MotorOffWhenReturned
PROPERTY
  CallReturns
