SPECIFICATION Spec
CONSTANTS
  HEAP_START = 16
  HEAP_SIZE = 48
  PAGE_SIZE = 16
  BLOCK_OVERHEAD = 4
  MIN_SPLIT = 2
  ALIGN = 2
  WORD = 96
  TABLE_SPAN = 32
  Sizes = {0, 3, 8, 19}
  Pools <- MCPools
INVARIANTS TypeOK ListTiles FreeBlocksIsolated OwnedBlocks PagesCoverBlocks FramesConserved
PROPERTY AbstractSpec
CHECK_DEADLOCK FALSE
