SPECIFICATION Spec
CONSTANTS
  ADDRS = 18
  Memories <- SomeMemories
  WORD = 256
  LEN = 36
  printk_buff = 6
  Leftovers <- AnyCount
  Directives <- Lists
INVARIANTS
  CopyIsExact
  StringsMeasured
  PrintedAsAsked
  NothingElse
PROPERTY CallsReturn
