SPECIFICATION Spec
CONSTANTS
  WORD = 64
  PAGE_SIZE = 4
  PHY_MEM_USE_START = 6
  BYTE_BITS = 5
  ArdsTables <- OneMap
  bucket_dir <- SmallBuckets
  DESCS = 2
  Lengths = {2, 3, 5}
INVARIANT OutOfMemoryIsTold
CHECK_DEADLOCK FALSE
