------------------------------ MODULE PageIter ------------------------------
(***************************************************************************)
(* The page iterator of src/arch/aarch64/paging/mod.rs: a PageIter is made *)
(* by Page::range_exclusive or Page::range_inclusive and stepped by        *)
(* Iterator::next until it returns None.  A caller that wants the range    *)
(* again builds a fresh iterator from the same bounds.                     *)
(***************************************************************************)
EXTENDS Paging, Sequences

CONSTANT Bounds  \* the page numbers a caller passes as start, end or final

VARIABLES
  ask,      \* the call that made the iterator: [inclusive, start, last]
  iter,     \* the PageIter: [start, end]
  yielded,  \* the pages next() has returned, in order
  done      \* next() has returned None

vars == <<ask, iter, yielded, done>>

(* The iterator the caller's constructor call returns. *)
Make(call) ==
  IF call.inclusive THEN range_inclusive(call.start, call.last)
                    ELSE range_exclusive(call.start, call.last)

Init ==
  /\ ask \in [inclusive : BOOLEAN, start : Bounds, last : Bounds]
  /\ iter = Make(ask)
  /\ yielded = <<>>
  /\ done = FALSE

(* Faulty variant: the bound is compared with <=. *)
next_Some_to_end_included ==
  /\ iter.start <= iter.end
  /\ yielded' = Append(yielded, iter.start)
  /\ iter' = [iter EXCEPT !.start = next(@)]
  /\ UNCHANGED <<ask, done>>

(* next() while self.start < self.end *)
next_Some ==
  /\ iter.start < iter.end
  /\ yielded' = Append(yielded, iter.start)
  /\ iter' = [iter EXCEPT !.start = next(@)]
  /\ UNCHANGED <<ask, done>>

(* next() otherwise: None, and None again on every later call *)
next_None ==
  /\ ~(iter.start < iter.end)
  /\ done' = TRUE
  /\ UNCHANGED <<ask, iter, yielded>>

(* An exhausted range is walked again with an iterator of the same bounds. *)
Restart ==
  /\ done
  /\ iter' = Make(ask)
  /\ yielded' = <<>>
  /\ done' = FALSE
  /\ UNCHANGED ask

Next == next_Some \/ next_None \/ Restart
Spec == Init /\ [][Next]_vars

-----------------------------------------------------------------------------

(* The pages the caller asked for, as numbers. *)
Asked == {p \in ask.start .. ask.last : ask.inclusive \/ p < ask.last}

(* The iterator yields consecutive pages from its start, never one outside *)
(* the range it was made for, and when next() returns None it has yielded  *)
(* the whole range, the last page of an inclusive range included.          *)
YieldsTheRange ==
  /\ \A k \in 1 .. Len(yielded) : yielded[k] = ask.start + k - 1 /\ yielded[k] \in Asked
  /\ done => \A p \in Asked : \E k \in 1 .. Len(yielded) : yielded[k] = p

=============================================================================
