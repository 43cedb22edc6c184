SPECIFICATION Spec
CONSTANTS
  MAX_TASKS = 4
  Stacks = {s1, s2, s3}
  BootStack = boot
  NoStack = null
  ID_BOUND = 6
PROPERTY NeverFreesCurrentStack
