CONSTANTS
  ByteValues = 64
  PageSize = 12
  NumPages = 5
  ALLOWED_FLASH_FLOOR = 36
  ALLOWED_ATTRIBUTE_FLOOR = 12
  KeyLen = 1
  ValueLen = 2
  NumAttributes = 4
  VersionAt = 2
  VersionLen = 3
  InfoLen = 5
  RXBUFSZ = 17
  TXBUFSZ = 14
  MCK = 160000
  crc32 <- Digest
  HomeRate = 1152
  Requests <- FlashRequests
  Rates <- NoRates
  Noise = {}
  Cuts = {0, 3}
  Image <- MCImage
  Faults = {"timeout", "fail"}
SPECIFICATION FairSpec
INVARIANTS TypeOK AnswersRight
PROPERTIES BootloaderSafe Answered
CHECK_DEADLOCK FALSE
