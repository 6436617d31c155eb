\* A pool of 6 units (4 + 2) without an order cache: up to three blocks in the list of order 0.
SPECIFICATION SpecLinked
CONSTANTS
  Total = 6
  MaxOrder = 3
  OrderSize <- MCOrderSize
  CacheCap = 0
  CacheMaxOrder = 0
INVARIANTS LinksIntact
PROPERTIES ImplementsBuddy
