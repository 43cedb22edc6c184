SPECIFICATION FairSpec
CONSTANTS
  MAX_TASKS = 4
  Stacks = {s1, s2, s3}
  BootStack = boot
  NoStack = null
  ID_BOUND = 6
INVARIANTS CurrentIsSound OwnStacks NoStackLeak CountExact UniqueIds BoundedWait
PROPERTY ReadyRuns
