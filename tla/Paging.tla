------------------------------- MODULE Paging -------------------------------
(***************************************************************************)
(* The addressing model of src/arch/aarch64/paging/mod.rs: a Page is a     *)
(* virtual page number, decomposed into four table indices by bit-field    *)
(* extraction, stepped with usize arithmetic, and byte counts are rounded  *)
(* to page multiples.  A Page is represented by its `number`.              *)
(*                                                                         *)
(* usize arithmetic is modelled as the release build computes it, modulo   *)
(* 2^USIZE_BITS; Overflows says when a build with overflow checks panics   *)
(* instead.  Shifts and masks are modelled by division and remainder.      *)
(***************************************************************************)
EXTENDS Naturals

CONSTANTS
  PAGE_SHIFT,  \* log2 of the page size (12: RmmA::PAGE_SIZE = 4096)
  LEVEL_BITS,  \* width of one table index (9: the mask 0o777)
  USIZE_BITS   \* width of usize (64)

ASSUME /\ PAGE_SHIFT \in Nat \ {0}
       /\ LEVEL_BITS \in Nat \ {0}
       /\ USIZE_BITS \in Nat
       /\ USIZE_BITS > PAGE_SHIFT + 4 * LEVEL_BITS

PAGE_SIZE   == 2^PAGE_SHIFT
ENTRY_COUNT == 2^LEVEL_BITS

UsizeModulus == 2^USIZE_BITS
Usize        == 0 .. (UsizeModulus - 1)

(* The value a usize expression has in a release build. *)
wrapping(n) == n % UsizeModulus

(* The expression panics in a build with overflow checks. *)
Overflows(n) == n >= UsizeModulus

(* The page numbers containing_address can produce. *)
Pages == 0 .. (UsizeModulus \div PAGE_SIZE - 1)

-----------------------------------------------------------------------------
(* impl Page *)

start_address(page) == wrapping(page * PAGE_SIZE)

p4_index(page) == (page \div 2^(3 * LEVEL_BITS)) % ENTRY_COUNT
p3_index(page) == (page \div 2^(2 * LEVEL_BITS)) % ENTRY_COUNT
(* Faulty variant: the level-2 index is taken one field too high. *)
p2_index_of_level_3(page) == (page \div 2^(2 * LEVEL_BITS)) % ENTRY_COUNT
p2_index(page) == (page \div 2^LEVEL_BITS) % ENTRY_COUNT
p1_index(page) == page % ENTRY_COUNT

(* The position of a page in its address space's four-level table. *)
indices(page) ==
  <<p4_index(page), p3_index(page), p2_index(page), p1_index(page)>>

(* The virtual address check_consistency rebuilds from four loop indices:  *)
(* (p1i << 12) | (p2i << 21) | (p3i << 30) | (p4i << 39).                  *)
walk_address(i) ==
    i[4] * 2^PAGE_SHIFT + i[3] * 2^(PAGE_SHIFT + LEVEL_BITS)
  + i[2] * 2^(PAGE_SHIFT + 2 * LEVEL_BITS) + i[1] * 2^(PAGE_SHIFT + 3 * LEVEL_BITS)

containing_address(address) == address \div PAGE_SIZE

next_by(page, n) == wrapping(page + n)
next(page)       == next_by(page, 1)

(* self.number - other.number: wraps below zero in a release build. *)
offset_from(page, other) == wrapping(page + UsizeModulus - other)

(* A PageIter is the record of its two fields. *)
range_inclusive(start, final) == [start |-> start, end |-> next(final)]
range_exclusive(start, end)   == [start |-> start, end |-> end]

-----------------------------------------------------------------------------
(* Rounding of byte counts *)

round_down_pages(number) == number - (number % PAGE_SIZE)

(* Faulty variant: a whole page is added before rounding down. *)
round_up_pages_plus_page(number) == round_down_pages(wrapping(number + PAGE_SIZE))
round_up_pages(number) == round_down_pages(wrapping(number + PAGE_SIZE - 1))

=============================================================================
