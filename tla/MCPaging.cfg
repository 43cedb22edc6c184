SPECIFICATION Spec
CONSTANTS
  BASE = 2
  FRAMES = 8
  IDENT = 7
  PAGES = 3
  SLOTS = 2
INVARIANTS  SlotsExact SwapKeepsData HaltsOnlyExhausted
CHECK_DEADLOCK FALSE
