\* Large pages smaller than the adapter falls back to, with faults.
SPECIFICATION Spec
CONSTANTS
  a = a
  b = b
  erased = erased
  partial = partial
  none = none
  NumLarge = 2
  LargeSlots = 1
  FallbackSlots = 2
  Contents <- AllContents
  Erased <- erased
  Partial <- partial
  NoContents <- none
  Faults <- AllFaults
INVARIANT BuffersHome
