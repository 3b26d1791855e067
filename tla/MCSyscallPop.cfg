SPECIFICATION Spec
CONSTANTS
  ADDR_BITS = 5
  VA_BITS = 3
  KSTACK_TOP = 100
  UserRips <- MCUserRips
  UserRsps <- MCUserRsps
  UserFlags <- MCUserFlags
  Pokes <- MCPokes
  Results <- MCResults
INVARIANT
  FastReturnPopsTheFrame
CHECK_DEADLOCK FALSE
