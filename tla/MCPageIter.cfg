SPECIFICATION MCSpec
CONSTANTS
  PAGE_SHIFT = 2
  LEVEL_BITS = 1
  USIZE_BITS = 7
  Bounds <- MCBounds
INVARIANTS
  YieldsTheRange
  IndexGeometryAgrees
  RoundingBrackets
