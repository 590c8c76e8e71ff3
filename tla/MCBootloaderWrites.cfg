\* The commands that change flash, with power failing at any step and drivers that
\* refuse calls, fail writes and fail transmissions.
SPECIFICATION FairSpec
CONSTANTS
  PageSize = 6
  NumPages = 4
  BufLen = 8
  BootStart = 0
  BootEnd = 18
  FlagsAddress = 0
  AttributesAddress = 6
  VersionOffset = 0
  VersionLen = 1
  StartOffset = 2
  StartLen = 1
  InfoLen = 4
  KeyLen = 1
  ValueLen = 1
  NumAttributes = 2
  Addresses <- SomeAddresses
  Lengths = {0, 9}
  Indexes <- SomeIndexes
  PageData <- NewPages
  Keys <- OneByteKey
  Values <- OneValue
  StartAddresses <- NewStarts
  StaleBytes <- TwoStale
  Images <- OneImage
  Cuts = {0, 2}
  Faults <- AllFaults
  Batches <- WriteBatches
INVARIANT OneOutstanding
INVARIANT OpMatchesState
INVARIANT NeverWedged
PROPERTY WritePageKeepsBootloader
PROPERTY ServiceSpec
PROPERTY Answered
