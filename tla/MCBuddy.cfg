\* A pool of 8 units without an order cache: four orders, merges three levels deep.
SPECIFICATION Spec
CONSTANTS
  Total = 8
  MaxOrder = 4
  OrderSize <- MCOrderSize
  CacheCap = 0
  CacheMaxOrder = 0
  SheetOrder = 2
INVARIANTS TypeOK BlocksTilePool ListsMatchTags Coalesced BytesAccounted
PROPERTIES ImplementsBlockStore
