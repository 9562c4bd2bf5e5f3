SPECIFICATION CrashSpec
CONSTANTS
  a = a
  b = b
  third = third
  LastCluster = 4
  LastSector = 3
  RootEntries = 2
  ClusterSlots = 3
  ClusterBytes = 1
  Name <- MCName
  Byte = {0}
  MaxOpenFiles = 1
  Path <- MCTree
  Spelling = {1}
  Buffer <- OneByte
  MaxRead = 0
  MaxFile = 1
  Liberties = {}
VIEW State
SYMMETRY NameSymmetry
INVARIANTS
  TypeOK
  TreeStands
  NoneLost
  OthersSurvive
  RenamedSurvives
PROPERTY
  ImplementsFileStore
CHECK_DEADLOCK FALSE
