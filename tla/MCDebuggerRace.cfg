SPECIFICATION Spec
CONSTANTS
  PAGE_SHIFT = 2
  LEVEL_BITS = 1
  USIZE_BITS = 7
  Archs = {"aarch64", "x86", "x86_64"}
  Contexts = {1, 2}
  Spaces <- MCSpaces
  Cores <- MCCores
  A = A  B = B  k1 = k1
  NoSpace = NoSpace  NoRegs = NoRegs  NoTarget = NoTarget  Idle = Idle  ContextList = ContextList
  WORD = 2
  MAX_WORDS = 3
  MaxCoreOps = 1
  ContextSets <- MCContextSets
  MappedSets <- MCMappedSets
INVARIANT ProbedPageStaysMapped
CHECK_DEADLOCK FALSE
