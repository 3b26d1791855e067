------------------------------- MODULE MCBoot -------------------------------
(***************************************************************************)
(* Boot with pages of four bytes: a bootstrap image that is page aligned,  *)
(* one whose size is not a page multiple, one whose base is not, one       *)
(* smaller than a page and an empty one, each with and without a device    *)
(* tree.                                                                   *)
(***************************************************************************)
EXTENDS Boot

MCArgs ==
  [kernel_base : {32}, kernel_size : {16}, dtb_base : {0, 8},
   bootstrap_base : {16, 18}, bootstrap_size : {0, 3, 8, 10},
   bootstrap_entry : {17}]
MCWords == {0, 1}
=============================================================================
