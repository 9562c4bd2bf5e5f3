SPECIFICATION Spec
CONSTANTS
  HeapCells = 7
  Alignment = 4
  WordMod = 64
  Requests <- MCRequests
  Scribbles <- MCScribbles
INVARIANTS
  Tiling
  WellLinked
  Room
  DoubleFreeNoticed
  ListComplete
PROPERTIES
  RefusedOnlyWhenFull
  KmallocReturns
  ImplementsAllocator
