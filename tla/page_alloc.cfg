SPECIFICATION PageSpec
CONSTANTS
  WORD = 64
  PAGE_SIZE = 2
  PHY_MEM_USE_START = 6
  BYTE_BITS = 3
  ArdsTables <- OrdinaryMaps
INVARIANTS
  PagesAccounted
  PagesAreRAM
  ScanIsFirstFit
CHECK_DEADLOCK FALSE
