------------------------------ MODULE Debugger ------------------------------
(***************************************************************************)
(* debugger() of src/debugger.rs, in its three architecture variants: for  *)
(* every context it takes the context's read lock, installs the context's  *)
(* user page table, audits the address space (not on x86), prints the      *)
(* grants, dumps up to MAX_WORDS words of the user stack through raw       *)
(* pointers, and installs the original table again.                        *)
(*                                                                         *)
(* The other cores of the machine keep running: they take the same         *)
(* reader/writer locks and map and unmap pages of the address spaces.      *)
(* A lock guard the code creates and drops inside one statement is one     *)
(* step; a guard that lives longer is held from one step to another.       *)
(***************************************************************************)
EXTENDS Paging, FiniteSets, FiniteSetsExt

CONSTANTS
  Archs,        \* the architectures the debugger is built for
  Contexts,     \* context ids (naturals: contexts() iterates in id order)
  Spaces,       \* address spaces
  Cores,        \* the other cores
  NoSpace,      \* context.addr_space = None; also a table of no address space
  NoRegs,       \* ptrace::regs_for(&context) = None
  NoTarget,     \* target_id = None
  Idle,         \* a core that holds no lock
  ContextList,  \* the lock of the context list, which contexts() reads
  WORD,         \* size_of::<usize>()
  MAX_WORDS,    \* the 64 of `for _ in 0..64`
  MaxCoreOps,   \* bound: changes one other core makes under its locks
  ContextSets,  \* bound: the context tables the debugger is started on
  MappedSets    \* bound: the mapped user pages it is started on

ASSUME /\ Archs \subseteq {"aarch64", "x86", "x86_64"}
       /\ Contexts \subseteq Nat /\ IsFiniteSet(Contexts)
       /\ WORD \in Nat \ {0} /\ MAX_WORDS \in Nat /\ MaxCoreOps \in Nat

VARIABLES
  arch,       \* the variant that was built
  target,     \* target_id
  context,    \* context id -> [addr_space, sp]: the fields the debugger reads
  mapped,     \* address space -> the pages its utable maps
  held,       \* other core -> Idle or the [lock, mode] it holds
  ops,        \* other core -> changes it has made so far
  installed,  \* the user table of this core: RmmA::table(TableKind::User)
  old_table,  \* the local of that name
  ac,         \* RFLAGS.AC: supervisor access to user pages allowed (x86_64)
  pc,         \* where the debugger is
  remaining,  \* the contexts the `for` loop has not finished
  sp,         \* the local sp (rsp on x86_64)
  words       \* iterations of the dump loop completed for this context

vars == <<arch, target, context, mapped, held, ops, installed, old_table,
          ac, pc, remaining, sp, words>>
environment == <<arch, target, context>>
dump        == <<sp, words>>

cur   == Min(remaining)           \* the context of the current iteration
space == context[cur].addr_space  \* its address space, or NoSpace

-----------------------------------------------------------------------------
(* The reader/writer locks: one for the context list, one per context and *)
(* one per address space.                                                  *)

Locks == {ContextList} \cup Contexts \cup Spaces

(* The guard of contexts(), alive for the whole loop and after a panic. *)
HoldsList(lock, mode) ==
  mode = "r" /\ lock = ContextList /\ pc \notin {"start", "done"}

(* The guard of space.write(), alive for the audit and after its panic. *)
HoldsForAudit(lock, mode) ==
  mode = "w" /\ pc \in {"auditing", "panic"} /\ lock = space

(* Faulty variant: the context guard is dropped once the table is switched. *)
DebuggerHolds_until_switched(lock, mode) ==
  \/ HoldsList(lock, mode) \/ HoldsForAudit(lock, mode)
  \/ mode = "r" /\ pc = "switch" /\ lock = cur

(* Faulty variant: the read guard of set_table's argument is bound to a    *)
(* name and lives on to the audit.                                         *)
DebuggerHolds_read_guard_kept(lock, mode) ==
  \/ HoldsList(lock, mode) \/ HoldsForAudit(lock, mode)
  \/ mode = "r" /\ pc \notin {"start", "iter", "done"} /\ lock = cur
  \/ mode = "r" /\ pc = "audit" /\ lock = space

(* The guards alive between two steps of the debugger: the context's read  *)
(* guard lives to the end of the iteration.                                *)
DebuggerHolds(lock, mode) ==
  \/ HoldsList(lock, mode) \/ HoldsForAudit(lock, mode)
  \/ mode = "r" /\ pc \notin {"start", "iter", "done"} /\ lock = cur

CoreHolds(lock, mode) == \E c \in Cores : held[c] = [lock |-> lock, mode |-> mode]

Holders(lock) ==
  {m \in {"r", "w"} : CoreHolds(lock, m) \/ DebuggerHolds(lock, m)}

(* read() returns when no writer holds the lock, write() when nobody does. *)
read(lock)  == "w" \notin Holders(lock)
write(lock) == Holders(lock) = {}

(* utable.translate(VirtualAddress::new(a)).is_some() *)
translate(s, a) == s # NoSpace /\ containing_address(a) \in mapped[s]

(* What the MMU does with a supervisor read of a whole word at sp. *)
Readable(a) ==
  \A k \in 0 .. (WORD - 1) :
    /\ ~Overflows(a + k)
    /\ translate(installed, a + k)
    /\ arch = "x86_64" => ac

-----------------------------------------------------------------------------
(* The steps of the debugger *)

At(a, from)       == arch = a /\ pc = from
Goto(a, from, to) == At(a, from) /\ pc' = to

(* A step that only moves on: it takes a lock or tests what it has read. *)
Pass(a, from, to) ==
  /\ Goto(a, from, to)
  /\ UNCHANGED <<environment, mapped, held, ops, installed, old_table, ac, remaining, dump>>

(* "DEBUGGER START", old_table, and the guard of contexts() for the loop *)
Start(a, stac) ==
  /\ Goto(a, "start", "iter")
  /\ read(ContextList)
  /\ ac' = (ac \/ stac)
  /\ old_table' = installed
  /\ UNCHANGED <<environment, mapped, held, ops, installed, remaining, dump>>

(* `continue` on a context that is not the target *)
SkipContext(a) ==
  /\ At(a, "iter") /\ remaining # {}
  /\ target # NoTarget /\ cur # target
  /\ remaining' = remaining \ {cur}
  /\ UNCHANGED <<environment, mapped, held, ops, installed, old_table, ac, pc, dump>>

(* let context = context_lock.read() *)
EnterContext(a) ==
  /\ Pass(a, "iter", "switch") /\ remaining # {}
  /\ target \in {NoTarget, cur}
  /\ read(cur)

(* Faulty variant: the table of the context is not installed. *)
SwitchTable_not_installed(a, to) ==
  /\ Pass(a, "switch", to)
  /\ space # NoSpace /\ read(space)

(* set_table with the table of the context's address space *)
SwitchTable(a, to) ==
  /\ Goto(a, "switch", to)
  /\ space # NoSpace /\ read(space)
  /\ installed' = space
  /\ UNCHANGED <<environment, mapped, held, ops, old_table, ac, remaining, dump>>

(* `if let Some(ref space) = context.addr_space` fails *)
NoAddrSpace(a, to) ==
  /\ Pass(a, "switch", to)
  /\ space = NoSpace

(* check_consistency(&mut space.write()): the guard is held for the call. *)
LockForAudit(a) ==
  /\ Pass(a, "audit", "auditing")
  /\ write(space)

AuditReturns(a) == Pass(a, "auditing", "grants")
AuditPanics(a)  == Pass(a, "auditing", "panic")

(* The grants are printed under the read lock of the address space. *)
PrintGrants(a) ==
  /\ Pass(a, "grants", "regs")
  /\ space # NoSpace => read(space)

(* `if let Some(regs) = regs_for(&context)`, and `let mut sp` when it holds *)
TakeRegs(a) ==
  /\ At(a, "regs")
  /\ IF context[cur].sp = NoRegs
     THEN pc' = "restore" /\ UNCHANGED dump
     ELSE pc' = "probe" /\ sp' = context[cur].sp /\ words' = 0
  /\ UNCHANGED <<environment, mapped, held, ops, installed, old_table, ac, remaining>>

(* Faulty variant: the loop has no bound. *)
Probe_unbounded(a) ==
  /\ At(a, "probe")
  /\ space # NoSpace => read(space)
  /\ pc' = IF translate(space, sp) THEN "read" ELSE "restore"
  /\ UNCHANGED <<environment, mapped, held, ops, installed, old_table, ac, remaining, dump>>

(* One test of the dump loop: the loop bound, then translate under the     *)
(* read lock of the address space; "GUARD PAGE" and break when it fails.   *)
Probe(a) ==
  /\ At(a, "probe")
  /\ words < MAX_WORDS /\ space # NoSpace => read(space)
  /\ pc' = IF words < MAX_WORDS /\ translate(space, sp) THEN "read" ELSE "restore"
  /\ UNCHANGED <<environment, mapped, held, ops, installed, old_table, ac, remaining, dump>>

(* Faulty variant: the next sp is computed with a wrapping addition. *)
ReadWord_wrapping(a) ==
  /\ Goto(a, "read", "probe")
  /\ Readable(sp)
  /\ sp' = wrapping(sp + WORD) /\ words' = words + 1
  /\ UNCHANGED <<environment, mapped, held, ops, installed, old_table, ac, remaining>>

(* *(sp as *const usize), then checked_add: "OVERFLOW" and break on None *)
ReadWord(a) ==
  /\ At(a, "read")
  /\ Readable(sp)
  /\ IF Overflows(sp + WORD)
     THEN pc' = "restore" /\ UNCHANGED dump
     ELSE pc' = "probe" /\ sp' = sp + WORD /\ words' = words + 1
  /\ UNCHANGED <<environment, mapped, held, ops, installed, old_table, ac, remaining>>

(* The read touches a byte that no page of the installed table maps. *)
ReadFaults(a) ==
  /\ Pass(a, "read", "fault")
  /\ ~Readable(sp)

(* Faulty variant: the original table is not installed again. *)
RestoreTable_skipped(a) == Pass(a, "restore", "leave")

(* set_table with old_table *)
RestoreTable(a) ==
  /\ Goto(a, "restore", "leave")
  /\ installed' = old_table
  /\ UNCHANGED <<environment, mapped, held, ops, old_table, ac, remaining, dump>>

(* The end of an iteration drops the context guard. *)
LeaveContext(a) ==
  /\ Goto(a, "leave", "iter")
  /\ remaining' = remaining \ {cur}
  /\ UNCHANGED <<environment, mapped, held, ops, installed, old_table, ac, dump>>

End(a, clac) ==
  /\ Goto(a, "iter", "done") /\ remaining = {}
  /\ ac' = (ac /\ ~clac)
  /\ UNCHANGED <<environment, mapped, held, ops, installed, old_table, remaining, dump>>

(* What the three variants share. *)
Inspect(a) ==
  \/ SkipContext(a) \/ EnterContext(a) \/ PrintGrants(a) \/ TakeRegs(a)
  \/ Probe(a) \/ ReadWord(a) \/ ReadFaults(a) \/ RestoreTable(a) \/ LeaveContext(a)

Audit(a) == LockForAudit(a) \/ AuditReturns(a) \/ AuditPanics(a)

(* aarch64: everything after the switch is inside the `if let`. *)
debugger_aarch64 ==
  LET a == "aarch64"
  IN  \/ Start(a, FALSE) \/ SwitchTable(a, "audit") \/ NoAddrSpace(a, "leave")
      \/ Audit(a) \/ Inspect(a) \/ End(a, FALSE)

(* x86: no audit; grants, dump and restore follow the `if let`. *)
debugger_x86 ==
  LET a == "x86"
  IN  \/ Start(a, FALSE) \/ SwitchTable(a, "grants") \/ NoAddrSpace(a, "grants")
      \/ Inspect(a) \/ End(a, FALSE)

(* x86_64: as x86, with the audit, between stac and clac. *)
debugger_x86_64 ==
  LET a == "x86_64"
  IN  \/ Start(a, TRUE) \/ SwitchTable(a, "audit") \/ NoAddrSpace(a, "grants")
      \/ Audit(a) \/ Inspect(a) \/ End(a, TRUE)

debugger == debugger_aarch64 \/ debugger_x86 \/ debugger_x86_64

-----------------------------------------------------------------------------
(* The other cores *)

CoreLocks(c, lock, mode) ==
  /\ held[c] = Idle
  /\ IF mode = "r" THEN read(lock) ELSE write(lock)
  /\ held' = [held EXCEPT ![c] = [lock |-> lock, mode |-> mode]]
  /\ UNCHANGED <<environment, mapped, ops, installed, old_table, ac, pc, remaining, dump>>

CoreUnlocks(c) ==
  /\ held[c] # Idle
  /\ held' = [held EXCEPT ![c] = Idle]
  /\ UNCHANGED <<environment, mapped, ops, installed, old_table, ac, pc, remaining, dump>>

(* A core that holds an address space exclusively maps or unmaps a page. *)
CoreRemaps(c, page) ==
  /\ held[c] # Idle /\ held[c].mode = "w" /\ held[c].lock \in Spaces
  /\ ops[c] < MaxCoreOps
  /\ mapped' = [mapped EXCEPT ![held[c].lock] =
                  IF page \in @ THEN @ \ {page} ELSE @ \cup {page}]
  /\ ops' = [ops EXCEPT ![c] = @ + 1]
  /\ UNCHANGED <<environment, held, installed, old_table, ac, pc, remaining, dump>>

(* A core that holds a context exclusively gives it another address space  *)
(* (exec) or none (exit); an address space that no context and no lock     *)
(* guard holds any more is torn down.                                      *)
CoreSetsAddrSpace(c, s) ==
  /\ held[c] # Idle /\ held[c].mode = "w" /\ held[c].lock \in Contexts
  /\ ops[c] < MaxCoreOps
  /\ ops' = [ops EXCEPT ![c] = @ + 1]
  /\ LET ctx  == held[c].lock
         old  == context[ctx].addr_space
         kept == \/ old = NoSpace \/ Holders(old) # {}
                 \/ \E o \in Contexts \ {ctx} : context[o].addr_space = old
     IN  /\ s # old
         /\ context' = [context EXCEPT ![ctx].addr_space = s]
         /\ mapped' = IF kept THEN mapped ELSE [mapped EXCEPT ![old] = {}]
  /\ UNCHANGED <<arch, target, held, installed, old_table, ac, pc, remaining, dump>>

core(c) ==
  \/ \E lock \in Locks, mode \in {"r", "w"} : CoreLocks(c, lock, mode)
  \/ CoreUnlocks(c)
  \/ \E page \in UNION {mapped[s] : s \in Spaces} \cup {containing_address(sp)} :
       CoreRemaps(c, page)
  \/ \E s \in Spaces \cup {NoSpace} : CoreSetsAddrSpace(c, s)

-----------------------------------------------------------------------------
(* Specification *)

Init ==
  /\ arch \in Archs
  /\ target \in Contexts \cup {NoTarget}
  /\ context \in ContextSets
  /\ mapped \in MappedSets
  /\ held = [c \in Cores |-> Idle]
  /\ ops = [c \in Cores |-> 0]
  /\ installed \in Spaces \cup {NoSpace}
  /\ old_table = NoSpace
  /\ ac = FALSE
  /\ pc = "start"
  /\ remaining = Contexts
  /\ sp = 0 /\ words = 0

Next == debugger \/ \E c \in Cores : core(c)

Spec == Init /\ [][Next]_vars

(* The debugger computes, or spins on a lock that it takes once the lock   *)
(* is free again and again; a core that holds a lock gives it up.          *)
FairSpec == Spec /\ SF_vars(debugger) /\ \A c \in Cores : WF_vars(CoreUnlocks(c))

-----------------------------------------------------------------------------
(* Properties *)

TypeOK ==
  /\ arch \in Archs
  /\ target \in Contexts \cup {NoTarget}
  /\ context \in [Contexts -> [addr_space : Spaces \cup {NoSpace}, sp : Usize \cup {NoRegs}]]
  /\ mapped \in [Spaces -> SUBSET Pages]
  /\ held \in [Cores -> {Idle} \cup [lock : Locks, mode : {"r", "w"}]]
  /\ ops \in [Cores -> 0 .. MaxCoreOps]
  /\ {installed, old_table} \subseteq Spaces \cup {NoSpace}
  /\ ac \in BOOLEAN
  /\ pc \in {"start", "iter", "switch", "audit", "auditing", "grants", "regs",
             "probe", "read", "restore", "leave", "done", "panic", "fault"}
  /\ remaining \subseteq Contexts
  /\ sp \in Usize /\ words \in 0 .. MAX_WORDS

(* Between two contexts and at "DEBUGGER END" this core runs on the user   *)
(* table it had when the debugger was entered, whichever contexts had an   *)
(* address space and on whichever break the dump ended, and the debugger   *)
(* returns with the AC flag cleared.                                       *)
OriginalTableBetweenContexts ==
  /\ pc \in {"iter", "done"} => installed = old_table
  /\ pc = "done" => ~ac

(* A word of a stack is read only through the page table of the context    *)
(* whose stack it is, and on x86_64 only with AC set: a context without an *)
(* address space, for which the table is not switched, is never dumped     *)
(* through the table of the context before it or of the interrupted one.   *)
DumpReadsOwnStack ==
  pc = "read" => /\ space # NoSpace /\ installed = space
                 /\ arch = "x86_64" => ac

(* "Super unsafe due to page table switching": a table the debugger has    *)
(* installed is the table of an address space some context still holds,    *)
(* so it is not torn down under this core; the context guard of the        *)
(* iteration is what keeps an exec or exit on another core away.           *)
InstalledTableIsAlive ==
  pc # "start" /\ installed # old_table =>
    \E c \in Contexts : context[c].addr_space = installed

(* The dump walks up the stack from the saved stack pointer one word at a  *)
(* time and never wraps around the top of the address space.               *)
DumpIsConsecutive ==
  pc \in {"probe", "read"} => sp = context[cur].sp + words * WORD

(* "GUARD PAGE": the dump stops at the first address that is not mapped    *)
(* instead of reading it.                                                  *)
DumpStopsAtGuardPage ==
  pc # "fault"

(* The page translate() found for sp under the read lock is mapped when    *)
(* the word at sp is read.                                                 *)
ProbedPageStaysMapped ==
  pc = "read" => translate(space, sp)

(* The debugger comes to its end: "DEBUGGER END", a panic of the audit or  *)
(* a fault of the dump.                                                    *)
DebuggerTerminates ==
  <>(pc \in {"done", "panic", "fault"})

=============================================================================
