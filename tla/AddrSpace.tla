----------------------------- MODULE AddrSpace -----------------------------
(***************************************************************************)
(* The address spaces of the kernel and the frame table they share: what   *)
(* check_consistency of src/debugger.rs audits.  Their code is not in      *)
(* src/; the operations are the ones the specification gives the core:     *)
(* establishing and removing a region, duplicating an address space for a  *)
(* fork, resolving a write fault on a copy-on-write page, and tearing an   *)
(* address space down.  An operation holds its address space exclusively   *)
(* and changes a frame's count atomically, so it is one step.              *)
(***************************************************************************)
EXTENDS Paging, FiniteSets, FiniteSetsExt, Functions

CONSTANTS
  Spaces,     \* the address spaces there may be
  Frames,     \* physical frame numbers (naturals: the tally is ordered)
  FlagBits,   \* the bits a PageFlags value may have
  WRITABLE,   \* bit 1, what has_write tests
  ACCESSED,   \* bit 5, set by the MMU
  DIRTY,      \* bit 6, set by the MMU
  NoEntry,    \* a leaf slot whose entry has no address
  NoInfo,     \* get_page_info(frame) = None
  NoGrant,    \* grants.contains(page) = None
  MaxShare,   \* largest count a RefCount of the model carries
  Root,       \* the address space of the first process
  BootTable,  \* the table active at start of day: the kernel half
  Regions,    \* bound: the grants the model's processes ask for
  MaxBugs     \* bound: the bugs a behaviour has

ASSUME /\ Frames \subseteq Nat /\ IsFiniteSet(Frames)
       /\ {WRITABLE, ACCESSED, DIRTY} \subseteq FlagBits
       /\ Cardinality({WRITABLE, ACCESSED, DIRTY}) = 3
       /\ MaxShare \in Nat /\ MaxShare >= 2
       /\ Root \in Spaces

VARIABLES
  tables,     \* per address space, table.utable: leaf indices -> entry
  grantMaps,  \* per address space, grants: base page -> grant
  pageInfo,   \* the global frame table: frame -> RefCount or NoInfo
  live,       \* the address spaces that have a holder
  locked,     \* the address spaces held for writing across steps
  bugs        \* the bugs that have struck so far

kernel == <<tables, grantMaps, pageInfo, live, locked, bugs>>

-----------------------------------------------------------------------------
(* The data *)

Index      == 0 .. (ENTRY_COUNT - 1)
Leaves     == Index \X Index \X Index \X Index
(* for p4i in 0..256, and 0..512 at the three levels below *)
UserLeaves == {i \in Leaves : i[1] < ENTRY_COUNT \div 2}
Entries    == [frame : Frames, flags : SUBSET FlagBits]

Zero       == [kind |-> "Zero"]
One        == [kind |-> "One"]
Cow(n)     == [kind |-> "Cow", n |-> n]
Shared(n)  == [kind |-> "Shared", n |-> n]
RefCounts  == {Zero, One} \cup {Cow(n) : n \in 2 .. MaxShare}
                \cup {Shared(n) : n \in 1 .. MaxShare}

Grants     == [page_count : Nat \ {0}, flags : SUBSET FlagBits,
               provider : {"private", "shared"}]
NoGrants   == [b \in {} |-> NoGrant]

has_write(flags) == WRITABLE \in flags

(* BTreeMap lookup of the grant whose span holds the page: the grant with  *)
(* the greatest base not above the page, if the page is inside its span.   *)
contains(gs, page) ==
  LET below == {b \in DOMAIN gs : b <= page}
  IN  IF below # {} /\ page < Max(below) + gs[Max(below)].page_count
      THEN Max(below) ELSE NoGrant

Span(base, count) == base .. (base + count - 1)
Mapped(s)         == {i \in UserLeaves : tables[s][i] # NoEntry}
MappingsIn(s, f)  == {i \in Mapped(s) : tables[s][i].frame = f}
Free              == {f \in Frames : pageInfo[f] = Zero}
KernelFrames      ==
  {BootTable[i].frame : i \in {j \in Leaves : BootTable[j] # NoEntry}}

-----------------------------------------------------------------------------
(* The frame ownership table: the RefCount state machine *)

(* Faulty variant: a second mapper leaves the frame exclusively owned. *)
add_ref_one_stays(rc, shared) ==
  CASE rc.kind = "Zero" -> IF shared THEN Shared(1) ELSE One
    [] rc.kind = "One"  -> One
    [] OTHER            -> [rc EXCEPT !.n = @ + 1]

(* increment-on-new-mapping *)
add_ref(rc, shared) ==
  CASE rc.kind = "Zero" -> IF shared THEN Shared(1) ELSE One
    [] rc.kind = "One"  -> Cow(2)
    [] OTHER            -> [rc EXCEPT !.n = @ + 1]

(* decrement-on-unmap; there is nothing below Zero to go to *)
remove_ref(rc) ==
  CASE rc.kind = "One"                 -> Zero
    [] rc.kind = "Shared" /\ rc.n = 1  -> Zero
    [] rc.kind = "Cow" /\ rc.n = 2     -> One
    [] rc.kind # "Zero"                -> [rc EXCEPT !.n = @ - 1]

RECURSIVE retain(_, _), release(_, _)
retain(rc, k)  == IF k = 0 THEN rc ELSE retain(add_ref(rc, FALSE), k - 1)
release(rc, k) == IF k = 0 THEN rc ELSE release(remove_ref(rc), k - 1)

-----------------------------------------------------------------------------
(* The grant region map *)

Overlaps(gs, base, count) ==
  \E page \in Span(base, count) : contains(gs, page) # NoGrant

insert(gs, base, grant) ==
  [b \in DOMAIN gs \cup {base} |-> IF b = base THEN grant ELSE gs[b]]

(* Faulty variant: the grant is taken out whole. *)
cut_whole(gs, base, page) == Restrict(gs, DOMAIN gs \ {base})

(* The map with one page cut out of the grant at base: what is left of the *)
(* grant below the page keeps the base, what is left above it is a grant   *)
(* of its own.                                                             *)
cut(gs, base, page) ==
  LET end  == base + gs[base].page_count
      rest == (DOMAIN gs \ {base})
                \cup {b \in {base} : base < page}
                \cup {b \in {page + 1} : page + 1 < end}
  IN  [b \in rest |->
         IF b \in DOMAIN gs \ {base} THEN gs[b]
         ELSE [gs[base] EXCEPT
                 !.page_count = IF b = base THEN page - base ELSE end - b]]

-----------------------------------------------------------------------------
(* The operations on an address space *)

Usable(s) == s \in live /\ s \notin locked

(* A region is established: a grant that overlaps none, every page of it   *)
(* backed by a frame nobody owns and mapped as the grant intends.          *)
mmap(s, base, grant) ==
  /\ Usable(s)
  /\ ~Overlaps(grantMaps[s], base, grant.page_count)
  /\ \E backing \in Injection(Span(base, grant.page_count), Free) :
       /\ tables' = [tables EXCEPT ![s] =
            [i \in Leaves |->
               IF \E p \in DOMAIN backing : indices(p) = i
               THEN [frame |-> backing[CHOOSE p \in DOMAIN backing :
                                         indices(p) = i],
                     flags |-> grant.flags]
               ELSE @[i]]]
       /\ pageInfo' = [f \in Frames |->
            IF f \in Range(backing)
            THEN add_ref(pageInfo[f], grant.provider = "shared")
            ELSE pageInfo[f]]
  /\ grantMaps' = [grantMaps EXCEPT ![s] = insert(@, base, grant)]
  /\ UNCHANGED <<live, locked, bugs>>

(* A page is unmapped: its grant shrinks or splits, and the frame loses a  *)
(* mapper.                                                                 *)
munmap(s, page) ==
  LET base  == contains(grantMaps[s], page)
      entry == tables[s][indices(page)]
  IN  /\ Usable(s)
      /\ base # NoGrant
      /\ grantMaps' = [grantMaps EXCEPT ![s] = cut(@, base, page)]
      /\ tables' = [tables EXCEPT ![s][indices(page)] = NoEntry]
      /\ pageInfo' = IF entry = NoEntry THEN pageInfo
                     ELSE [pageInfo EXCEPT ![entry.frame] = remove_ref(@)]
      /\ UNCHANGED <<live, locked, bugs>>

Private(s, i) ==
  LET base == contains(grantMaps[s], containing_address(walk_address(i)))
  IN  base # NoGrant /\ grantMaps[s][base].provider = "private"

(* Faulty variant: the private pages stay writable. *)
forked_still_writable(s) == tables[s]

(* The table both sides of a fork have: no private page is writable. *)
forked(s) ==
  [i \in Leaves |->
     IF i \in Mapped(s) /\ Private(s, i)
     THEN [tables[s][i] EXCEPT !.flags = @ \ {WRITABLE}]
     ELSE tables[s][i]]

(* duplicate-address-space: the child gets a grant map and a table of its  *)
(* own with the parent's content, and every frame one more mapper for      *)
(* every page of the parent that maps it.                                  *)
duplicate_address_space(parent, child) ==
  /\ Usable(parent)
  /\ child \notin live
  /\ tables' = [tables EXCEPT ![parent] = forked(parent),
                              ![child] = forked(parent)]
  /\ grantMaps' = [grantMaps EXCEPT ![child] = grantMaps[parent]]
  /\ pageInfo' = [f \in Frames |->
       retain(pageInfo[f], Cardinality(MappingsIn(parent, f)))]
  /\ live' = live \cup {child}
  /\ UNCHANGED <<locked, bugs>>

(* Faulty variant: the write is let through to the frame the page has. *)
resolve_write_fault_in_place(s, page) ==
  LET base  == contains(grantMaps[s], page)
      entry == tables[s][indices(page)]
  IN  /\ Usable(s)
      /\ entry # NoEntry /\ base # NoGrant
      /\ has_write(grantMaps[s][base].flags)
      /\ pageInfo[entry.frame].kind = "Cow"
      /\ tables' = [tables EXCEPT ![s][indices(page)].flags = @ \cup {WRITABLE}]
      /\ UNCHANGED <<grantMaps, pageInfo, live, locked, bugs>>

(* resolve-write-fault: a write to a page whose grant allows it and whose  *)
(* frame is copy-on-write gets a frame of its own, writable, and the       *)
(* shared frame loses a mapper.                                            *)
resolve_write_fault(s, page) ==
  LET base  == contains(grantMaps[s], page)
      entry == tables[s][indices(page)]
  IN  /\ Usable(s)
      /\ entry # NoEntry /\ base # NoGrant
      /\ has_write(grantMaps[s][base].flags)
      /\ pageInfo[entry.frame].kind = "Cow"
      /\ \E copy \in Free :
           /\ tables' = [tables EXCEPT ![s][indices(page)] =
                [frame |-> copy, flags |-> entry.flags \cup {WRITABLE}]]
           /\ pageInfo' = [pageInfo EXCEPT ![copy] = One,
                                           ![entry.frame] = remove_ref(@)]
      /\ UNCHANGED <<grantMaps, live, locked, bugs>>

(* The last holder lets go: the table is torn down, the grants are         *)
(* released and every frame loses the mappers it had here.                 *)
teardown(s) ==
  /\ Usable(s)
  /\ tables' = [tables EXCEPT ![s] = BootTable]
  /\ grantMaps' = [grantMaps EXCEPT ![s] = NoGrants]
  /\ pageInfo' = [f \in Frames |->
       release(pageInfo[f], Cardinality(MappingsIn(s, f)))]
  /\ live' = live \ {s}
  /\ UNCHANGED <<locked, bugs>>

RegionPages == UNION {Span(r.base, r.grant.page_count) : r \in Regions}

-----------------------------------------------------------------------------
(* Bugs: what the specification's scenarios inject *)

(* "manually force a hardware mapping to be writable" *)
ForceWritable(s, leaf) ==
  /\ leaf \in Mapped(s)
  /\ ~has_write(tables[s][leaf].flags)
  /\ tables' = [tables EXCEPT ![s][leaf].flags = @ \cup {WRITABLE}]
  /\ UNCHANGED <<grantMaps, pageInfo>>

(* A mapping is left with a policy bit its grant does not have. *)
FlipPolicy(s, leaf) ==
  /\ leaf \in Mapped(s)
  /\ \E bit \in FlagBits \ {ACCESSED, DIRTY, WRITABLE} :
       tables' = [tables EXCEPT ![s][leaf].flags =
                    IF bit \in @ THEN @ \ {bit} ELSE @ \cup {bit}]
  /\ UNCHANGED <<grantMaps, pageInfo>>

(* "remove a grant without removing its hardware mappings" *)
DropGrant(s, base) ==
  /\ base \in DOMAIN grantMaps[s]
  /\ grantMaps' = [grantMaps EXCEPT ![s] = Restrict(@, DOMAIN @ \ {base})]
  /\ UNCHANGED <<tables, pageInfo>>

(* "tracked frame state lost" *)
LoseCount(f) ==
  /\ \E rc \in (RefCounts \cup {NoInfo}) \ {pageInfo[f]} :
       pageInfo' = [pageInfo EXCEPT ![f] = rc]
  /\ UNCHANGED <<tables, grantMaps>>

Bug ==
  /\ bugs < MaxBugs
  /\ bugs' = bugs + 1
  /\ \/ \E s \in live :
          \/ \E leaf \in UserLeaves : ForceWritable(s, leaf) \/ FlipPolicy(s, leaf)
          \/ \E base \in Pages : DropGrant(s, base)
     \/ \E f \in Frames : LoseCount(f)
  /\ UNCHANGED <<live, locked>>

(* Start of day: one address space with the kernel's half and no region;   *)
(* the frames of the kernel are not tracked, the others are in no use.     *)
KernelInit ==
  /\ tables = [s \in Spaces |-> BootTable]
  /\ grantMaps = [s \in Spaces |-> NoGrants]
  /\ pageInfo = [f \in Frames |-> IF f \in KernelFrames THEN NoInfo ELSE Zero]
  /\ live = {Root}
  /\ locked = {}
  /\ bugs = 0
=============================================================================
