SPECIFICATION PageSpec
CONSTANTS
  WORD = 64
  PAGE_SIZE = 2
  PHY_MEM_USE_START = 6
  BYTE_BITS = 3
  ArdsTables <- OrdinaryMaps
INVARIANT FreshMapIsFree
CHECK_DEADLOCK FALSE
