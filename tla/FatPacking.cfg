SPECIFICATION Spec
CONSTANTS
  SectorBytes = 4
  SectorsPerFat = 3
  Copies = 2
  ScanLimit = 12
  LastSector = 6
  Table <- WithBadClusters
INVARIANTS
  EntriesKept
PROPERTIES
  RootUntouched
  CallsReturn
CHECK_DEADLOCK FALSE
