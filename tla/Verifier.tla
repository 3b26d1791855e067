------------------------------ MODULE Verifier ------------------------------
(***************************************************************************)
(* check_consistency of src/debugger.rs: the audit that walks the user     *)
(* half of one address space's four-level page table and cross-checks      *)
(* every present leaf against the grant map and the global frame table.    *)
(*                                                                         *)
(* The audited address space is held: the caller passes the guard of its   *)
(* write lock (space.write()) and drops it when the call returns.  utable  *)
(* and grants are that space's table and grant map, pageInfo the frame     *)
(* table of the whole kernel; no action of the audit changes them.  One    *)
(* loop iteration, which reads the frame table once, is one step.  The     *)
(* table is keyed by the four indices of a leaf; a table level that is     *)
(* absent is a range of leaves with no entry, which the loops pass over.   *)
(***************************************************************************)
EXTENDS AddrSpace

VARIABLES
  held,      \* the address space check_consistency is called on
  vpc,       \* where the audit is: idle, walk, tally, done, panic
  cursor,    \* walk: leaves passed; tally: frames passed
  tree,      \* the tally: frame -> mappings counted (0: not in the map)
  errors,    \* what log::error! reported during this audit
  failure    \* the assertion that stopped the audit, or "none"

utable == tables[held]       \* addr_space.table.utable
grants == grantMaps[held]    \* addr_space.grants

audited == <<tables, grantMaps, pageInfo, live, bugs, held>>
audit   == <<vpc, cursor, tree, errors, failure>>
vars    == <<kernel, held, audit>>

-----------------------------------------------------------------------------
(* The walk *)

(* The position of a leaf in the order the four nested loops reach it. *)
Ordinal(i) == ((i[1] * ENTRY_COUNT + i[2]) * ENTRY_COUNT + i[3]) * ENTRY_COUNT + i[4]

PageOf(i) == containing_address(walk_address(i))

(* The leaves the loops have not passed and do not `continue` over. *)
Ahead    == {i \in UserLeaves : Ordinal(i) >= cursor /\ utable[i] # NoEntry}
NextLeaf == CHOOSE i \in Ahead : \A j \in Ahead : Ordinal(i) <= Ordinal(j)

(* Faulty variant: the accessed bit is left out of the mask. *)
EXCLUDE_without_accessed == {DIRTY, WRITABLE}

EXCLUDE == {ACCESSED, DIRTY, WRITABLE}

FlagMismatch(gflags, hwflags) == gflags \ EXCLUDE # hwflags \ EXCLUDE

(* Faulty variant: the grant's own permission is not looked at. *)
HigherPermissions_of_any_grant(info, hwflags, gflags) ==
  /\ info # NoInfo
  /\ info.kind \in {"One", "Shared"}
  /\ has_write(hwflags)

(* The two assertions on a mapped frame's reference count. *)
HigherPermissions(info, hwflags, gflags) ==
  /\ info # NoInfo
  /\ info.kind \in {"One", "Shared"}
  /\ has_write(hwflags) /\ ~has_write(gflags)

WritableCow(info, hwflags) ==
  /\ info # NoInfo
  /\ info.kind = "Cow"
  /\ has_write(hwflags)

(* The count a RefCount stands for. *)
mapped_count(rc) ==
  CASE rc.kind = "Zero" -> 0
    [] rc.kind = "One"  -> 1
    [] OTHER            -> rc.n

-----------------------------------------------------------------------------
(* Actions *)

check_consistency ==
  /\ vpc = "idle"
  /\ Usable(held)
  /\ locked' = locked \cup {held}
  /\ vpc' = "walk"
  /\ cursor' = 0
  /\ tree' = [f \in Frames |-> 0]
  /\ errors' = {}
  /\ UNCHANGED <<failure, audited>>

(* A present leaf no grant covers is reported and passed over, untallied. *)
LackingGrant ==
  /\ vpc = "walk" /\ Ahead # {}
  /\ contains(grants, PageOf(NextLeaf)) = NoGrant
  /\ errors' = errors \cup {[kind |-> "LACKING GRANT", page |-> PageOf(NextLeaf)]}
  /\ cursor' = Ordinal(NextLeaf) + 1
  /\ UNCHANGED <<vpc, tree, failure, audited, locked>>

(* What every iteration on a granted leaf does before the assertions. *)
Examine(leaf, grant) ==
  /\ errors' = IF FlagMismatch(grant.flags, utable[leaf].flags)
               THEN errors \cup {[kind |-> "FLAG MISMATCH", page |-> PageOf(leaf)]}
               ELSE errors
  /\ tree' = [tree EXCEPT ![utable[leaf].frame] = @ + 1]

(* A granted leaf that passes both assertions. *)
VisitGranted ==
  /\ vpc = "walk" /\ Ahead # {}
  /\ contains(grants, PageOf(NextLeaf)) # NoGrant
  /\ LET entry == utable[NextLeaf]
         grant == grants[contains(grants, PageOf(NextLeaf))]
     IN  /\ ~HigherPermissions(pageInfo[entry.frame], entry.flags, grant.flags)
         /\ ~WritableCow(pageInfo[entry.frame], entry.flags)
         /\ Examine(NextLeaf, grant)
  /\ cursor' = Ordinal(NextLeaf) + 1
  /\ UNCHANGED <<vpc, failure, audited, locked>>

(* A granted leaf on which one of the assertions fails. *)
PanicOnLeaf ==
  /\ vpc = "walk" /\ Ahead # {}
  /\ contains(grants, PageOf(NextLeaf)) # NoGrant
  /\ LET entry == utable[NextLeaf]
         grant == grants[contains(grants, PageOf(NextLeaf))]
     IN  /\ Examine(NextLeaf, grant)
         /\ \/ /\ HigherPermissions(pageInfo[entry.frame], entry.flags, grant.flags)
               /\ failure' = "page entry has higher permissions than grant!"
            \/ /\ WritableCow(pageInfo[entry.frame], entry.flags)
               /\ failure' = "directly writable CoW page!"
  /\ vpc' = "panic"
  /\ UNCHANGED <<cursor, audited, locked>>

EndWalk ==
  /\ vpc = "walk" /\ Ahead = {}
  /\ vpc' = "tally"
  /\ cursor' = 0
  /\ UNCHANGED <<tree, errors, failure, audited, locked>>

(* for (frame, count) in tree: the tallied frames, in ascending order. *)
Tallied   == {f \in Frames : f >= cursor /\ tree[f] > 0}
NextFrame == Min(Tallied)

TallyFrame ==
  /\ vpc = "tally" /\ Tallied # {}
  /\ pageInfo[NextFrame] # NoInfo
  /\ mapped_count(pageInfo[NextFrame]) = tree[NextFrame]
  /\ cursor' = NextFrame + 1
  /\ UNCHANGED <<vpc, tree, errors, failure, audited, locked>>

(* Faulty variant: a frame the tally cannot reconcile is logged, and the   *)
(* loop goes on to the next frame.                                         *)
PanicOnTally_logged ==
  /\ vpc = "tally" /\ Tallied # {}
  /\ pageInfo[NextFrame] = NoInfo \/ mapped_count(pageInfo[NextFrame]) # tree[NextFrame]
  /\ errors' = errors \cup {[kind |-> "TALLY MISMATCH", frame |-> NextFrame]}
  /\ cursor' = NextFrame + 1
  /\ UNCHANGED <<vpc, tree, failure, audited, locked>>

PanicOnTally ==
  /\ vpc = "tally" /\ Tallied # {}
  /\ \/ /\ pageInfo[NextFrame] = NoInfo
        /\ failure' = "called Option::unwrap() on a None value"
     \/ /\ pageInfo[NextFrame] # NoInfo
        /\ mapped_count(pageInfo[NextFrame]) # tree[NextFrame]
        /\ failure' = "assertion failed: (left == right)"
  /\ vpc' = "panic"
  /\ UNCHANGED <<cursor, tree, errors, audited, locked>>

(* "Consistency appears correct" *)
Finish ==
  /\ vpc = "tally" /\ Tallied = {}
  /\ vpc' = "done"
  /\ locked' = locked \ {held}
  /\ UNCHANGED <<cursor, tree, errors, failure, audited>>

AuditStep ==
  \/ LackingGrant
  \/ VisitGranted
  \/ PanicOnLeaf
  \/ EndWalk
  \/ TallyFrame
  \/ PanicOnTally
  \/ Finish

(* The MMU of a core that runs in the audited address space sets the       *)
(* accessed bit of an entry it reads through, and the dirty bit too of a   *)
(* writable one it writes through; no lock keeps it from doing so.         *)
MmuSetsBits(leaf) ==
  /\ utable[leaf] # NoEntry
  /\ \E bits \in {{ACCESSED}, {ACCESSED, DIRTY}} :
       /\ DIRTY \in bits => has_write(utable[leaf].flags)
       /\ ~(bits \subseteq utable[leaf].flags)
       /\ tables' = [tables EXCEPT ![held][leaf].flags = @ \cup bits]
  /\ UNCHANGED <<grantMaps, pageInfo, live, locked, bugs, held, audit>>

AuditInit ==
  /\ held \in Spaces
  /\ vpc = "idle"
  /\ cursor = 0
  /\ tree = [f \in Frames |-> 0]
  /\ errors = {}
  /\ failure = "none"

-----------------------------------------------------------------------------
(* Properties *)

Failures == {"page entry has higher permissions than grant!",
             "directly writable CoW page!",
             "called Option::unwrap() on a None value",
             "assertion failed: (left == right)"}

(* What the audit is for, stated over the whole table at once.  A page is  *)
(* granted when it lies inside the span of some grant; the policy bits are *)
(* the bits software alone sets.                                           *)
GrantOf(page) ==
  {b \in DOMAIN grants : b <= page /\ page < b + grants[b].page_count}
MappedUser == {i \in UserLeaves : utable[i] # NoEntry}
Granted    == {i \in MappedUser : GrantOf(PageOf(i)) # {}}
PolicyBits == FlagBits \ {ACCESSED, DIRTY, WRITABLE}
MappingsOf(f) == {i \in Granted : utable[i].frame = f}

Divergences ==
     {[kind |-> "LACKING GRANT", page |-> PageOf(i)] : i \in MappedUser \ Granted}
  \cup
     {[kind |-> "FLAG MISMATCH", page |-> PageOf(i)] :
        i \in {j \in Granted : \E b \in GrantOf(PageOf(j)) :
                 grants[b].flags \cap PolicyBits # utable[j].flags \cap PolicyBits}}

Consistent ==
  /\ \A i \in Granted : \A b \in GrantOf(PageOf(i)) :
       LET info == pageInfo[utable[i].frame]
       IN  has_write(utable[i].flags) /\ info # NoInfo =>
             /\ info.kind # "Cow"
             /\ info.kind \in {"One", "Shared"} => has_write(grants[b].flags)
  /\ \A f \in Frames : MappingsOf(f) # {} =>
       /\ pageInfo[f] # NoInfo
       /\ \/ pageInfo[f].kind = "One" /\ Cardinality(MappingsOf(f)) = 1
          \/ /\ pageInfo[f].kind \in {"Cow", "Shared"}
             /\ Cardinality(MappingsOf(f)) = pageInfo[f].n

(* The audit as AuditSpec sees it. *)
Verdict ==
  CASE vpc = "idle"  -> "idle"
    [] vpc = "done"  -> "correct"
    [] vpc = "panic" -> "fatal"
    [] OTHER         -> "running"

(* The error taxonomy files a reference-count tally mismatch under         *)
(* "recoverable, logged ... execution continues, because the verifier is a *)
(* diagnostic tool, not a gate", and the fork scenario ends with "verifier *)
(* reports zero divergences": the comparison of a frame's tally with its   *)
(* RefCount after the walk never stops check_consistency.                  *)
TallyMismatchDoesNotAbort ==
  failure # "assertion failed: (left == right)"

=============================================================================
