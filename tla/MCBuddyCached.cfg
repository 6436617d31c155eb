\* A pool of 6 units with an order cache (config.hpp: MICRON_BB_CACHE_CAP > 0).
SPECIFICATION Spec
CONSTANTS
  Total = 6
  MaxOrder = 3
  OrderSize <- MCOrderSize
  CacheCap = 2
  CacheMaxOrder = 1
  SheetOrder = 1
INVARIANTS CacheCounted
PROPERTIES ImplementsBlockStore FlushReturns
