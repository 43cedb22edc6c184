SPECIFICATION PSpec
CONSTANTS
  MAX_TASKS = 3
  Stacks = {s1, s2}
  BootStack = boot
  NoStack = null
  ID_BOUND = 5
  LIVE_BOUND = 3
INVARIANT RunsAtHome
