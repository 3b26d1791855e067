----------------------------- MODULE MCPageIter -----------------------------
(***************************************************************************)
(* The addressing model for TLC.  PageIter runs over ranges whose bounds   *)
(* are among the first pages, the last two pages an address can lie in,    *)
(* and the page number after those, which only range_inclusive and next    *)
(* produce.  Beside it a second variable takes every usize of the model's  *)
(* width in turn, and the operators of Paging that the iterator and the    *)
(* verifier rest on are checked for it.                                    *)
(***************************************************************************)
EXTENDS PageIter, FiniteSetsExt

VARIABLE number  \* the usize under examination

Examine == number' = wrapping(number + 1) /\ UNCHANGED vars

MCInit == Init /\ number = 0
MCNext ==
  \/ next_Some /\ UNCHANGED number
  \/ next_None /\ UNCHANGED number
  \/ Restart /\ UNCHANGED number
  \/ Examine
MCSpec == MCInit /\ [][MCNext]_<<vars, number>>

MCLastPage == Max(Pages)
MCBounds   == {0, 1, 3, MCLastPage - 1, MCLastPage}

(* The addresses the four-level table reaches. *)
TableSpan == 2^(PAGE_SHIFT + 4 * LEVEL_BITS)
Index == 0 .. ENTRY_COUNT - 1

(* The shifts 27/18/9/0 that Page applies to a page number and the shifts  *)
(* 39/30/21/12 that check_consistency applies to its loop indices describe *)
(* one geometry: the address rebuilt from the indices of the page that     *)
(* contains an address is the start of that page, and the bits above the   *)
(* table's span do not reach any index.                                    *)
IndexGeometryAgrees ==
  LET page == containing_address(number)
  IN  /\ indices(page) \in Index \X Index \X Index \X Index
      /\ walk_address(indices(page)) = start_address(page) % TableSpan
      /\ start_address(page) = round_down_pages(number)

(* round_down_pages and round_up_pages are the floor and the ceiling to a  *)
(* page multiple wherever number + PAGE_SIZE - 1 is a usize: both results  *)
(* are page multiples less than a page away from the number, and rounding  *)
(* a rounded number changes nothing.                                       *)
RoundingBrackets ==
  LET down == round_down_pages(number)
      up   == round_up_pages(number)
  IN  /\ down % PAGE_SIZE = 0 /\ down <= number /\ number < down + PAGE_SIZE
      /\ round_down_pages(down) = down
      /\ ~Overflows(number + PAGE_SIZE - 1) =>
           /\ up % PAGE_SIZE = 0 /\ number <= up /\ up < number + PAGE_SIZE
           /\ round_up_pages(up) = up

=============================================================================
