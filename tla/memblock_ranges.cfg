CONSTANTS
  PHYS_ADDR_MAX = 7
  PAGE_SIZE = 1
  INIT_MEMBLOCK_REGIONS = 3
  AddCalls <- NoCalls
  ReserveCalls <- AllRanges
  FreeCalls <- AllRanges
  AllocCalls <- NoCalls
SPECIFICATION Spec
INVARIANTS
  Ordered
  Canonical
  Accounting
  HangsOnlyWhenFull
PROPERTY ImplementsSets
