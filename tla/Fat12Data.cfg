SPECIFICATION CrashSpec
CONSTANTS
  a = a
  b = b
  third = third
  LastCluster = 5
  LastSector = 4
  RootEntries = 2
  ClusterSlots = 3
  ClusterBytes = 2
  Name <- MCName
  Byte = {0, 1}
  MaxOpenFiles = 2
  Path <- MCRoot
  Spelling = {1}
  Buffer <- MCBuffer
  MaxRead = 3
  MaxFile = 3
  Liberties = {}
VIEW State
SYMMETRY NameSymmetry
INVARIANTS
  NoneShared
  OthersSurvive
  WrittenOrOld
PROPERTY
  ImplementsFileStore
CHECK_DEADLOCK FALSE
