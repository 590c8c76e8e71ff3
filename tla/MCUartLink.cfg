CONSTANTS
  KEY_LEN = 1
  MAX_ATTR_LEN = 2
  INT_PAGE_SIZE = 2
  EXT_PAGE_SIZE = 1
  MAX_INFO_LEN = 2
  MAX_INDEX = 16
  RxLen = 20
  Commands <- SomeCommands
  BUF = 10
  RX_BUF = 8
  CHUNK = 3
  Packets = {1, 4}
  MaxGaps = 2
  Faults = {"error"}
SPECIFICATION FairSpec
INVARIANTS TypeOK InOrder ServedAsSent SplitContained
PROPERTIES AnsweredOnceSent ListensAgain
