SPECIFICATION Spec
CONSTANTS
  FRAME_SIZE = 4
  PMM_MAX_FRAMES = 12
  WORD = 48
  ADDR_MAX = 100
  KB = 1
  KernelEnd = 9
  FirstMiB = 8
  BootInfos <- MCBootInfos
INVARIANTS TypeOK FreeCountExact OutsideStaysReserved
PROPERTIES LowestFirst AbstractSpec
