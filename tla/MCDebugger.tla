----------------------------- MODULE MCDebugger -----------------------------
(***************************************************************************)
(* Debugger for TLC: two contexts, two address spaces, one other core,     *)
(* words of two bytes in pages of four, a dump of at most three words.     *)
(***************************************************************************)
EXTENDS Debugger

CONSTANTS A, B, k1

MCSpaces == {A, B}
MCCores  == {k1}

(* Saved stack pointers: the start of page 1, its last byte, where a word  *)
(* reaches into page 2, and the last word of the address space.            *)
MCStackPointers == {4, 7, 126}

MCContextSets ==
  {[c \in Contexts |-> IF c = 1 THEN first ELSE second] :
     first  \in [addr_space : {A, NoSpace}, sp : MCStackPointers \cup {NoRegs}],
     second \in [addr_space : {A, B, NoSpace}, sp : {4}]}

(* Address space A with a stack of one page below a guard page, or with a *)
(* stack of two pages and the last page of the address space; B with the   *)
(* one page.                                                               *)
MCMappedSets ==
  {[s \in MCSpaces |-> IF s = A THEN a ELSE {1}] : a \in {{1}, {1, 2, 31}}}

(* The run without other cores. *)
MCNoCores == {}
=============================================================================
