SPECIFICATION Spec
CONSTANTS
  Lba = {0, 1}
  CylinderOf <- MCCylinderOf
  Cylinder = {0, 1, 2}
  Data = {"a", "b"}
  Patience = 2
  LateAnswers = FALSE
CHECK_DEADLOCK FALSE
INVARIANTS
  NoStaleInterrupt
PROPERTIES
  ImplementsSectorStore
