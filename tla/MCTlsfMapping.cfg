\* The "small" profile: 16 KiB sheets, sixteen second-level classes.
SPECIFICATION Walk
CONSTANTS
  SlLog2 = 4
  DataUnits = 1014
  SmallUnits = 64
INVARIANTS
  SearchIsSafe
  SearchIsTight
  TableAgrees
CHECK_DEADLOCK FALSE
