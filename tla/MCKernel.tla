------------------------------ MODULE MCKernel ------------------------------
(***************************************************************************)
(* Kernel for TLC: two address spaces, a table of two entries per level    *)
(* (one user slot and one kernel slot at the top), pages of four bytes,    *)
(* two frames for user memory and one of the kernel's.                     *)
(***************************************************************************)
EXTENDS Kernel

CONSTANT USER  \* a policy bit: user-accessible

MCFlagBits == {WRITABLE, ACCESSED, DIRTY, USER}
MCFrames   == {0, 1, 2}

(* Page 9 of the kernel half, which no grant ever covers and whose entry   *)
(* has been read and written through already.                              *)
MCBootTable ==
  [i \in Leaves |-> IF i = indices(9)
                    THEN [frame |-> 0, flags |-> {WRITABLE, ACCESSED, DIRTY}]
                    ELSE NoEntry]

(* Regions of one or two pages within pages 1 and 2 of the user half,      *)
(* read-only or writable, private or shared.                               *)
MCRegions ==
  {r \in [base : {1, 2},
          grant : [page_count : {1, 2}, flags : {{USER}, {WRITABLE, USER}},
                   provider : {"private", "shared"}]] :
     r.base + r.grant.page_count <= 3}
=============================================================================
