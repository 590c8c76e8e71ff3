\* Large pages of the size the adapter falls back to; calls may be refused.
SPECIFICATION FairSpec
CONSTANTS
  a = a
  b = b
  erased = erased
  partial = partial
  none = none
  NumLarge = 2
  LargeSlots = 2
  FallbackSlots = 2
  Contents <- AllContents
  Erased <- erased
  Partial <- partial
  NoContents <- none
  Faults <- Refusals
INVARIANT BuffersHome
PROPERTY PageFlashSpec
PROPERTY Completed
