SPECIFICATION Spec
CONSTANTS
  Total = 2
  MaxOrder = 2
  OrderSize <- MCOrderSize
  CacheCap = 0
  CacheMaxOrder = 0
  SheetOrder = 0
  UnitGranules = 8
  SlLog2 = 1
  DataUnits = 6
  SmallUnits = 1
  MaxSheets = 1
  Areas <- MCAreas
  Pages <- MCPages
  PoolOf <- MCPool
  Growable = FALSE
  MaxRegions = 2
  Requests = {1, 8, 16}
  Alignments = {1}
INVARIANTS
  FirstIsServed
