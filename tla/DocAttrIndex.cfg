\* SET_ATTRIBUTE with an index past the last attribute.
SPECIFICATION Spec
CONSTANTS
  PageSize = 6
  NumPages = 4
  BufLen = 8
  BootStart = 0
  BootEnd = 18
  FlagsAddress = 0
  AttributesAddress = 6
  VersionOffset = 0
  VersionLen = 1
  StartOffset = 2
  StartLen = 1
  InfoLen = 4
  KeyLen = 1
  ValueLen = 1
  NumAttributes = 2
  Addresses = {18}
  Lengths = {1}
  Indexes = {0, 1, 2}
  PageData = {}
  Keys <- OneByteKey
  Values <- OneValue
  StartAddresses = {}
  StaleBytes = {0}
  Images <- PlainImage
  Cuts = {}
  Faults = {}
  Batches <- SetAttrBatches
PROPERTY SetAttrStaysInAttributes
