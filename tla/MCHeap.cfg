SPECIFICATION AlloctestSpec
CONSTANTS
  HEAP_SIZE = 116
  KERNEL_END = 20
  PAGE = 16
  HDR = 12
  ALIGNMENT = 8
  MIN_BLOCK_DATA = 16
  SIZE_MOD = 512
  Sizes <- MCSizes
  AllocSizes <- MCAllocSizes
INVARIANTS
  TypeOK
  Tiles
  HeldBlocks
  Coalesced
  AlloctestRestores
PROPERTIES
  FirstFit
  AllocatorSpec
  CallsReturn
