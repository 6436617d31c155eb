\* A profile in miniature (proportions of config_small.hpp) on words of eleven bits.
SPECIFICATION Lengths
CONSTANTS
  WordBits = 11
  MaxTotal = 900
  Min = 4
  MaxAlign = 8
  SheetLen = 32
  MaxRegion = 256
  GrowMin = 128
  Native = 2
  ClassSmall = 16
  Rz = 2
  Starts = {1, 63, 512, 514, 1400, 2000}
  MaxLen = 640
  TagArrays <- MCTagArrays
  Aligns = {1, 2, 4, 6, 8, 32, 64}
INVARIANTS PoolLaidOut GrowthSuffices ExtentHonest
CHECK_DEADLOCK FALSE
