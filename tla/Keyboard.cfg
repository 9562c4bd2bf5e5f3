SPECIFICATION Spec
CONSTANTS
  Plain = {"a", "divide", "print"}
  Alike = {"print"}
  Mute = {"home"}
  Extended = {"home", "divide", "print"}
  Navigation = {"home"}
  Divide = {"divide"}
  PrintScreen = {"print"}
  Chars <- MCChars
  Depth = 4
  LineDepth = 1
  MaxKeys = 4
  MaxLine = 1
INVARIANTS
  InOrder
  ShiftedAsTyped
  ShiftSettles
PROPERTY
  AllArrives
CHECK_DEADLOCK FALSE
