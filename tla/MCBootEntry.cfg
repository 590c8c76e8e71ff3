CONSTANTS
  Boards <- AllBoards
  KERNEL_MIN = 2
  KERNEL_MAX = 5
  FlashEnd = 4
  Starts = {1, 2, 4, 5}
  Samples = 3
SPECIFICATION FairSpec
INVARIANTS RequestsHonoured WordOnlyInWindow
PROPERTIES StaysForAReason Boots
