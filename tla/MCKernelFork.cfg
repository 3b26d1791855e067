SPECIFICATION Spec
CONSTANTS
  PAGE_SHIFT = 2
  LEVEL_BITS = 1
  USIZE_BITS = 7
  Spaces = {A, B}
  Root = A
  Frames <- MCFrames
  FlagBits <- MCFlagBits
  WRITABLE = WRITABLE
  ACCESSED = ACCESSED
  DIRTY = DIRTY
  USER = USER
  NoEntry = NoEntry
  NoInfo = NoInfo
  NoGrant = NoGrant
  MaxShare = 2
  BootTable <- MCBootTable
  Regions <- MCRegions
  MaxBugs = 0
INVARIANT TallyMismatchDoesNotAbort
CHECK_DEADLOCK FALSE
