CONSTANTS
  KEY_LEN = 1
  MAX_ATTR_LEN = 2
  INT_PAGE_SIZE = 2
  EXT_PAGE_SIZE = 1
  MAX_INFO_LEN = 2
  MAX_INDEX = 16
  RxLen = 9
  Commands <- AllCommands
  Responses <- AllResponses
  MaxLost = 2
SPECIFICATION FairSpec
INVARIANTS CommandsArrive ResponsesArrive PongClears
PROPERTY Resyncs
