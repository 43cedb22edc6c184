SPECIFICATION FairSpec
CONSTANTS
  NUM = 4
  IDX = 8
  FID_BOUND = 3
  TAGS = 8
  CHUNK = 2
  MAX_SIZE = 3
INVARIANTS TypeOK RingsSound DescriptorsConserved ReplyMatches FidsReturned CwdOpened
PROPERTY CallsReturn
CHECK_DEADLOCK FALSE
