SPECIFICATION BootSpec
CONSTANTS
  PHYS_ADDR_MAX = 4
  PAGE_SIZE = 1
  INIT_MEMBLOCK_REGIONS = 3
  E820_MAX_ENTRIES = 4
  AddCalls <- NoCalls
  ReserveCalls <- NoCalls
  FreeCalls <- NoCalls
  AllocCalls <- OneOrTwoPages
  CpuModels <- Generations
  FirmwareTables <- DisjointTables
  ENTRY_SIZE = 160
  SECTOR = 7680
  SECTORS_32 = 2
  SECTORS_64 = 17
  MaxResets = 1
INVARIANTS
  NoFault
  SelectorsValid
  StillThere
  MemoryIsUsable
  AllocUsable
PROPERTY BootEnds
