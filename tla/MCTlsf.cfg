SPECIFICATION Spec
CONSTANTS
  SlLog2 = 1
  DataUnits = 10
  SmallUnits = 2
  MaxSheets = 2
  Sheets <- MCSheets
  Requests <- MCRequests
INVARIANTS
  ChainIntact
  NoFreeNeighbours
  ListsConsistent
  LargestFreeExact
  GoodFit
  OwnsExactlyLive
PROPERTIES
  ImplementsSmallStore
