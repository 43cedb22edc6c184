SPECIFICATION FairSpec
CONSTANTS
  NUM = 3
  IDX = 6
  BUFFER_SIZE = 3
  EVENTS = 2
  MAX = 3
  SCANCODES = {"c", "h", "dead"}
  CODES = {"tab", "other"}
  PRESSES = 2
INVARIANTS KeysAccounted InOrder EventsMatch
PROPERTY WakesUp
