SPECIFICATION Spec
CONSTANTS
  PAGE_SHIFT = 2
  LEVEL_BITS = 1
  USIZE_BITS = 7
  Args <- MCArgs
  Aps = {ap1, ap2}
  Words <- MCWords
INVARIANTS
  TypeOK
  InitOrder
  BootstrapWithinImage
CHECK_DEADLOCK FALSE
