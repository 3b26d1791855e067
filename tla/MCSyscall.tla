----------------------------- MODULE MCSyscall -----------------------------
(***************************************************************************)
(* Syscall with addresses of five bits of which three are implemented:     *)
(* 0..3 is the lower canonical half, 28..31 the upper, and bit 2 stands    *)
(* for bit 47.                                                             *)
(***************************************************************************)
EXTENDS Syscall

\* 1 low canonical, 30 high canonical, 9 non-canonical with bit 2 clear,
\* 5 non-canonical with bit 2 set
MCUserRips == {1, 30}
MCPokes == {1, 5, 9, 30}
MCUserRsps == {60, 70}
MCUserFlags == {2 + FLAG_IF, 2 + FLAG_IF + FLAG_TF}
MCResults == {0, 3}
=============================================================================
