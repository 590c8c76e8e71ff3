\* Every contents of two pages, calls refused and failed, power failures.
SPECIFICATION FairSpec
CONSTANTS
  a = a
  b = b
  erased = erased
  partial = partial
  none = none
  PAGE_COUNT = 2
  Contents <- AllContents
  Erased <- erased
  Partial <- partial
  NoContents <- none
  Faults <- AllFaults
INVARIANT BuffersHome
PROPERTIES PageFlashSpec Completed
