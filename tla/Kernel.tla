------------------------------- MODULE Kernel -------------------------------
(***************************************************************************)
(* The memory core as a whole: address spaces that are mapped into,        *)
(* forked, written to and torn down (AddrSpace), the MMU, and one call of  *)
(* check_consistency on one of them (Verifier), which holds that space     *)
(* while the others go on.  A bug elsewhere in the kernel is a step that   *)
(* breaks one of the things the audit is there to find.                    *)
(***************************************************************************)
EXTENDS Verifier

(* The kernel *)

(* The operations run in a kernel that is up and, so far, without a bug;   *)
(* a bug precedes the audit that is to find it; and the MMU's bits are     *)
(* followed where they matter, on the entries the walk has yet to read.    *)
Up == vpc # "panic" /\ bugs = 0

Map    == \E s \in Spaces, r \in Regions :
            Up /\ mmap(s, r.base, r.grant) /\ UNCHANGED <<held, audit>>
Unmap  == \E s \in Spaces, page \in RegionPages :
            Up /\ munmap(s, page) /\ UNCHANGED <<held, audit>>
Fault  == \E s \in Spaces, page \in RegionPages :
            Up /\ resolve_write_fault(s, page) /\ UNCHANGED <<held, audit>>
Fork   == \E s, child \in Spaces :
            Up /\ duplicate_address_space(s, child) /\ UNCHANGED <<held, audit>>
Exit   == \E s \in Spaces : Up /\ teardown(s) /\ UNCHANGED <<held, audit>>
Breaks == vpc = "idle" /\ Bug /\ UNCHANGED <<held, audit>>
Mmu    == \E leaf \in Ahead : vpc = "walk" /\ MmuSetsBits(leaf)

Init == KernelInit /\ AuditInit

Next ==
  \/ Map \/ Unmap \/ Fault \/ Fork \/ Exit
  \/ Breaks
  \/ check_consistency \/ AuditStep
  \/ Mmu

Spec == Init /\ [][Next]_vars

-----------------------------------------------------------------------------
(* Properties *)

TypeOK ==
  /\ tables \in [Spaces -> [Leaves -> Entries \cup {NoEntry}]]
  /\ \A s \in Spaces :
       /\ DOMAIN grantMaps[s] \subseteq Pages
       /\ \A b \in DOMAIN grantMaps[s] : grantMaps[s][b] \in Grants
  /\ pageInfo \in [Frames -> RefCounts \cup {NoInfo}]
  /\ live \subseteq Spaces /\ locked \subseteq live /\ held \in Spaces
  /\ vpc \in {"idle", "walk", "tally", "done", "panic"}
  /\ cursor \in Nat
  /\ tree \in [Frames -> Nat]
  /\ errors \subseteq [kind : {"LACKING GRANT", "FLAG MISMATCH"}, page : Pages]
  /\ failure \in Failures \cup {"none"}
  /\ (vpc = "panic") = (failure # "none")
  /\ bugs \in 0 .. MaxBugs

Mappers(f) == {<<s, i>> \in Spaces \X UserLeaves : i \in MappingsIn(s, f)}
GrantAt(s, i) == contains(grantMaps[s], PageOf(i))

(* The central invariant of the frame table: in a kernel without a bug a   *)
(* frame's RefCount says how many pages map it, over all address spaces,   *)
(* through every map, unmap, fork, write fault and teardown.               *)
RefCountIsMappers ==
  bugs = 0 => \A f \in Frames \ KernelFrames :
    pageInfo[f] # NoInfo
      /\ mapped_count(pageInfo[f]) = Cardinality(Mappers(f))

(* The write policy: in a kernel without a bug no page is writable through *)
(* a frame that is copy-on-write, on either side of a fork and after the   *)
(* other side has taken its copy, and none is writable beyond its grant.   *)
WritePolicy ==
  bugs = 0 => \A s \in Spaces : \A i \in Mapped(s) :
    has_write(tables[s][i].flags) =>
      /\ pageInfo[tables[s][i].frame].kind # "Cow"
      /\ has_write(grantMaps[s][GrantAt(s, i)].flags)

(* What copy-on-write is for: in a kernel without a bug a page that is     *)
(* writable under a private grant is the only mapping of its frame, in any *)
(* address space, so that what one side of a fork writes the other never   *)
(* reads, whichever side faults first and whichever exits first.           *)
PrivateWritesStayPrivate ==
  bugs = 0 => \A s \in Spaces : \A i \in Mapped(s) :
    has_write(tables[s][i].flags) /\ Private(s, i) =>
      Mappers(tables[s][i].frame) = {<<s, i>>}

(* The grant map and the table of an address space stay synchronized: in a *)
(* kernel without a bug the grants of a space overlap nowhere, whatever    *)
(* was cut out of them, and a page is mapped exactly if a grant holds it.  *)
GrantsBackMappings ==
  bugs = 0 => \A s \in Spaces :
    /\ \A a, b \in DOMAIN grantMaps[s] :
         a < b => a + grantMaps[s][a].page_count <= b
    /\ {PageOf(i) : i \in Mapped(s)} =
         UNION {Span(b, grantMaps[s][b].page_count) : b \in DOMAIN grantMaps[s]}

(* check_consistency on a kernel without a bug: the only assertion that    *)
(* fails is the comparison of the tally with the RefCount, and it fails    *)
(* only for a frame that another address space maps too.                   *)
AlarmOnlyForSharedFrame ==
  bugs = 0 /\ vpc = "panic" =>
    /\ failure = "assertion failed: (left == right)"
    /\ \E f \in Frames : \E s \in Spaces \ {held} :
         MappingsIn(held, f) # {} /\ MappingsIn(s, f) # {}

Audit == INSTANCE AuditSpec
           WITH owed <- Divergences, sound <- Consistent,
                report <- errors, verdict <- Verdict

(* check_consistency implements AuditSpec.  Every step of its loops is a   *)
(* step of the abstract audit or leaves the abstract state alone: a line   *)
(* of the log is a divergence of the user half (never one for the kernel   *)
(* half, or for a bit the MMU sets on its own while the walk runs);        *)
(* "Consistency appears correct" is printed only with every divergence     *)
(* logged and only for a space whose granted mappings respect the write    *)
(* policy of their frames and whose frames are each mapped as often as     *)
(* their RefCount says; an assertion fails only for a space for which one  *)
(* of the two is false; neither the audit nor the MMU changes what is owed *)
(* or whether the space is sound; and while the audit holds the space, the *)
(* other address spaces, which change the counts of the frames they share  *)
(* with it between the walk and the tally, change nothing of what is owed  *)
(* and never make it unsound.                                              *)
ImplementsAuditSpec == Audit!Spec

=============================================================================
