SPECIFICATION Spec
CONSTANTS
  Total = 5
  MaxOrder = 3
  OrderSize <- MCOrderSize
  CacheCap = 0
  CacheMaxOrder = 0
  SheetOrder = 1
  UnitGranules = 8
  SlLog2 = 1
  DataUnits = 8
  SmallUnits = 2
  MaxSheets = 2
  Requests = {1, 2}
INVARIANTS
  SheetsAgree
  OneEmptySheet
  TiersWellFormed
  LocateExact
  UsedExact
  NoFalseRefusal
  EmptyRegionIsFresh
PROPERTIES
  OthersUndisturbed
