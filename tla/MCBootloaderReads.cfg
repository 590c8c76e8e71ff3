\* Every read-only command on every range of three flash images.
SPECIFICATION FairSpec
CONSTANTS
  PageSize = 6
  NumPages = 4
  BufLen = 8
  BootStart = 0
  BootEnd = 18
  FlagsAddress = 0
  AttributesAddress = 6
  VersionOffset = 0
  VersionLen = 1
  StartOffset = 2
  StartLen = 1
  InfoLen = 4
  KeyLen = 1
  ValueLen = 1
  NumAttributes = 2
  Addresses <- AllAddresses
  Lengths <- AllLengths
  Indexes <- TwoIndexes
  PageData = {}
  Keys = {}
  Values = {}
  StartAddresses = {}
  StaleBytes <- TwoStale
  Images <- AllImages
  Cuts = {}
  Faults = {}
  Batches <- ReadBatches
INVARIANT TypeOK
INVARIANT FitsInBuffer
PROPERTY ServiceSpec
