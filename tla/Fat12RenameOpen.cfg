SPECIFICATION Spec
CONSTANTS
  a = a
  b = b
  LastCluster = 3
  LastSector = 3
  RootEntries = 2
  ClusterSlots = 3
  ClusterBytes = 1
  Name <- MCName
  Byte = {0}
  MaxOpenFiles = 1
  Path <- MCPath
  Spelling = {1}
  Buffer <- OneByte
  MaxRead = 0
  MaxFile = 9
  Liberties = {"rename open"}
INVARIANT WrittenIsThere
