SPECIFICATION FairSpec
CONSTANTS
  PORTS = {0, 1}
  SLOTS = 2
  CMDS = 2
  PULLS = 3
INVARIANTS ResultHonest NoLateTransfer StatusFollows
 
CHECK_DEADLOCK FALSE
