CONSTANTS
  PHYS_ADDR_MAX = 7
  PAGE_SIZE = 1
  INIT_MEMBLOCK_REGIONS = 4
  AddCalls <- Banks
  ReserveCalls <- SomeReserve
  FreeCalls <- SomeFree
  AllocCalls <- SomeAllocs
SPECIFICATION FairSpec
INVARIANTS
  TypeOK
  AllocFree
PROPERTIES
  ImplementsSets
  CallsReturn
