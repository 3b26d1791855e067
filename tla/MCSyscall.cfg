SPECIFICATION Spec
CONSTANTS
  ADDR_BITS = 5
  VA_BITS = 3
  KSTACK_TOP = 100
  UserRips <- MCUserRips
  UserRsps <- MCUserRsps
  UserFlags <- MCUserFlags
  Pokes <- MCPokes
  Results <- MCResults
INVARIANT
  TypeOK
  SyscallRunsUnlessIgnored
  ReturnRestoresUser
  NoInterruptOnUserStack
CHECK_DEADLOCK FALSE
