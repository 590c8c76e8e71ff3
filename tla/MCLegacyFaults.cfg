CONSTANTS
  ByteValues = 64
  PageSize = 12
  NumPages = 5
  ALLOWED_FLASH_FLOOR = 36
  ALLOWED_ATTRIBUTE_FLOOR = 12
  KeyLen = 1
  ValueLen = 2
  NumAttributes = 4
  VersionAt = 2
  VersionLen = 3
  InfoLen = 5
  RXBUFSZ = 12
  TXBUFSZ = 14
  MCK = 160000
  crc32 <- Digest
  HomeRate = 1152
  Requests <- BaudRequests
  Rates <- SomeRates
  Noise = {0}
  Cuts = {3}
  Image <- MCImage
  Faults = {"timeout","power"}
SPECIFICATION FairSpec
INVARIANTS AnswersRight RateKept
PROPERTIES BootloaderSafe BaudSettles
