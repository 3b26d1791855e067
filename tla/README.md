# TLA+ models of the Homunculi kernel fragment

The repository holds five files of a Redox-derived kernel: the kernel debugger
with its page-table audit (`src/debugger.rs`), the aarch64 addressing model
(`src/arch/aarch64/paging/mod.rs`), the aarch64 boot entry
(`src/arch/aarch64/start.rs`), the x86_64 system-call entry
(`src/arch/x86_64/interrupt/syscall.rs`) and the x86_64 inter-processor
interrupts (`src/arch/x86_64/ipi.rs`). `spec.md` describes the virtual-memory
core around them: the frame ownership table, the grant map, the page table and
the address space, whose code is not in `src/`.

This directory holds the TLA+ modules that model that code, the TLC
configurations that check them, and `PROJECT.json`, which lists every run,
the source lines every definition models, the findings and the hazards.

## 1. Inventory

| Component | Source | State | Operations | Talks to |
|---|---|---|---|---|
| Addressing model | `paging/mod.rs` 50-131 | a `Page` (its number), a `PageIter` (start, end) | `start_address`, `p4_index`..`p1_index`, `containing_address`, `next`, `next_by`, `offset_from`, `range_inclusive`, `range_exclusive`, `PageIter::next`, `round_down_pages`, `round_up_pages` | used by the verifier (page of a rebuilt address) and the debugger (grant bounds) |
| Consistency verifier | `debugger.rs` 228-324 | the tally `tree` (frame to count), the loop position | `check_consistency`: walk of the user half, four assertions, tally comparison | reads the page table, the grant map and the frame table of one address space; the MMU writes the table meanwhile |
| Debugger | `debugger.rs` 7-226 | `old_table`, the installed user table, the context under inspection, `sp`, the words dumped, the AC flag (x86_64) | per context: read-lock it, switch table, audit (not on x86), print grants, dump 64 stack words, restore table | context list, context lock, address-space lock, the verifier, raw user memory |
| System-call entry | `syscall.rs` | the interrupt stack, the ptrace breakpoint state | `init`, `with_interrupt_stack!` (pre/post breakpoints), `syscall_instruction` (sysretq or iretq), `clone_ret` | ptrace, the system-call dispatcher |
| Boot | `start.rs` | `KERNEL_BASE`, `KERNEL_SIZE`, `CPU_COUNT`, `AP_READY`, `BSP_READY`, the `Bootstrap` | `kstart`, `kstart_ap`, `usermode` | every subsystem's `init`, in order; `paging::init`; `kmain` |
| IPI | `ipi.rs` | none (one register write) | `ipi(kind, target)` | the local APIC |
| Frame ownership table | not in `src/` | frame to `RefCount` (`Zero`, `One`, `Cow(n)`, `Shared(n)`) | increment, decrement, CoW resolve | changed by every address-space operation, read by the verifier |
| Grant map | not in `src/` | base page to grant (page count, flags, provider) | insert, remove (with split), `contains` | changed by map and unmap, copied by fork, read by the verifier and the debugger |
| Page table | not in `src/` | four levels of 512 entries | map, unmap, remap, `translate` | changed by the address-space operations and the MMU, read by the verifier and the debugger |
| Address space | not in `src/` | one page table, one grant map, one reader/writer lock | map, unmap, fork, write fault, tear down | shares frames with its forks; held by the execution contexts that name it; locked by the debugger for the audit |
| MAIR setup | `paging/mod.rs` 32-48 | one hardware register | `init_mair`, `init` | called by `kstart` |

What makes the code hard:

* the verifier reads a table the MMU writes (accessed and dirty bits), and a
  frame table that other address spaces change;
* the verifier's in-loop tolerance (`RefCount::Zero => ()`, `if let Some`) is
  followed by a post-loop `unwrap()` and `assert_eq!` that tolerate nothing;
* the tally counts the mappings of one address space, the `RefCount` those of
  all of them;
* `usize` arithmetic at the top of the address space (`round_up_pages`,
  `next_by`, `start_address`, the stack pointer of the dump);
* the debugger probes an address with `translate` under a read lock, releases
  the lock, and then reads a whole word at that address;
* the debugger takes the address-space lock for writing after taking it for
  reading, inside a context read lock, on a kernel where other cores hold the
  same locks;
* the debugger reads `context.addr_space` three times in an iteration and
  runs on the table it installed, while an exec or exit on another core
  gives the context another address space and tears the old one down;
* a panic inside the audit leaves the debugger's table switch and the AC flag
  in place;
* the system-call entry runs its first instructions in ring 0 on the user's
  stack, and its return path chooses between `sysretq` and `iretq` on a
  return address a tracer may have written while the tracee was stopped;
* the pops of the return paths must undo the pushes of the prologue slot for
  slot, across a call that rewrites one of the slots;
* the fields of the interrupt command register are or-ed together from
  shifted constants;
* the boot is one long sequence of initialisations in which steps are taken
  or left out by a build feature and by the boot arguments, and it divides
  a size that need not be a page multiple by the page size.

## 2. Plan

Order of work, most important behaviour first:

1. `Paging` (operators), `Verifier` (the audit) and their runs. Done.
2. `PageIter` and the operator checks beside it. Done.
3. `Debugger`: the per-context loop of the three architecture variants behind
   one constant, the locks, the stack dump, with other cores taking the same
   locks and unmapping pages. Done.
4. `Syscall`: the entry, the ptrace gate around a system call, the return-path
   selection and both returns; `Ipi`: the ICR encoding and what the APIC
   makes of it. Done.
5. `Boot`: `kstart` as a sequence of initialisation steps with the build
   feature and the boot arguments chosen in the initial state, `kstart_ap`
   and `usermode`. Done.
6. `AuditSpec`: what an audit promises, with `Verifier` shown to implement
   it through a refinement mapping, checked as a property of the `kernel`
   run. Done.
7. `AddrSpace`: the frame ownership table, the grant map and the address-space
   operations (map, unmap, fork, write-fault resolution, teardown) from the
   specification, and `Kernel`, which runs the audit of one address space
   beside the others that share frames with it. Done; the `kernel` run
   replaces the run that audited a table standing still.
8. The execution contexts as the holders of an address space: an exec or
   exit on another core while the debugger is inside a context
   (`CoreSetsAddrSpace`), other cores that take and drop locks without end,
   and the guards the debugger keeps after a panic.
   Done, in `Debugger`.
9. The isolation a fork promises (`PrivateWritesStayPrivate`). Done, in the
   `kernel` run.

The debugger's audit step is not run as the `Verifier`'s walk: the two are
joined by the write lock only, which `Kernel` models on its own, and run
together they are beyond what one run can explore (section 8).

The number of runs is kept small: one passing run per component, and one run
for each property the code violates. The termination of the audit's loops,
which wait for nothing, is not checked on its own; liveness is checked where
something is waited for, in the debugger. The overflow of `round_up_pages`
in the last page of the address space is stated as the guard of
`RoundingBrackets` and has no run of its own (section 7).

## 3. Modules

### Paging

Constants `PAGE_SHIFT`, `LEVEL_BITS` and `USIZE_BITS` stand for 12, 9 and 64.
A `Page` is its number. Shifts and masks are division and remainder; every
`usize` sum or product is taken modulo `2^USIZE_BITS` (`wrapping`), which is
what a release build computes, and `Overflows` says when a build with
overflow checks panics instead. `walk_address` is the address
`check_consistency` rebuilds from its four loop indices.

### PageIter

The iterator as a state machine: `Init` is a call of `range_inclusive` or
`range_exclusive` with bounds from `Bounds`, `next_Some` and `next_None` are
the two branches of `Iterator::next`, `Restart` is a caller walking the range
again with a fresh iterator. `yielded` records what `next` returned.
`MCPageIter` adds a variable `number` that takes every `usize` in turn
(`Examine`), for the properties of the operators.

### AddrSpace

The address spaces and the frame table they share, from the specification
(their code is not in `src/`). `tables`, `grantMaps` hold the page table and
the grant map of every address space, `pageInfo` the `RefCount` of every
frame, `live` the address spaces that exist, `locked` the ones held for
writing across several steps.

The page table is a function from the four indices of a leaf to an entry or
`NoEntry`; an absent lower-level table is a run of `NoEntry` leaves. Flags
are sets of bit names. The frame table is a function from frames to a
`RefCount` or `NoInfo` (a frame of the kernel, which is not tracked). The
grant map is a function from base pages to grants, and `contains` is the
B-tree lookup of the grant with the greatest base at or below the page.

| Definition | Specification |
|---|---|
| `add_ref`, `remove_ref` | increment-on-new-mapping (`Zero` to `One` or `Shared(1)`, `One` to `Cow(2)`, `n` to `n + 1`) and decrement-on-unmap (`Cow(2)` to `One`, `One` and `Shared(1)` to `Zero`) |
| `Overlaps`, `insert`, `cut` | the grant map: insertion fails on overlap; removing a page shortens the grant or splits it in two |
| `mmap(s, base, grant)` | a region is established on frames nobody owns |
| `munmap(s, page)` | a page leaves its grant and its frame loses a mapper |
| `duplicate_address_space(parent, child)` | fork: the child gets the grants and the table of the parent, the private pages lose the write permission on both sides (`forked`), every mapped frame gains a mapper |
| `resolve_write_fault(s, page)` | a write under a writable grant to a copy-on-write frame: a private copy, writable; the shared frame loses a mapper |
| `teardown(s)` | the last holder lets go: table and grants are emptied, the frames lose their mappers |
| `Bug` | what the specification's scenarios inject to try the verifier: a mapping forced writable, a policy bit flipped, a grant removed without its mappings, a frame's count lost |

An operation holds its address space exclusively from beginning to end and
changes a frame's count atomically (section 5 of the specification): it is
one step, enabled when the space is not `locked`.

### Verifier

`check_consistency`, one step per loop iteration that reaches a present leaf,
on the address space `held`:

| Action | Code |
|---|---|
| `check_consistency` | the call with `space.write()`, entry: `p4`, the empty `tree` |
| `LackingGrant` | `grants.contains` is `None`: log, `continue` |
| `VisitGranted` | flag comparison, tally, both assertions pass |
| `PanicOnLeaf` | flag comparison, tally, one assertion fails |
| `EndWalk` | the four loops are through |
| `TallyFrame` | `assert_eq!(c, count)` holds for the next frame of `tree` |
| `PanicOnTally` | `unwrap()` on `None`, or `assert_eq!` fails |
| `Finish` | "Consistency appears correct"; the write guard is dropped |
| `MmuSetsBits` | the hardware sets accessed (and dirty) in an entry |

The caller passes the guard of the address space's write lock, so the space
is in `locked` from `check_consistency` to `Finish`; after a panic it stays
there. `utable` and `grants` are the table and the grant map of `held`.

### Kernel

The composition: the operations of `AddrSpace` on every address space, the
audit of `Verifier` on one of them, the MMU, and `Bug`. `Map`, `Unmap`,
`Fault`, `Fork` and `Exit` are the operations in a kernel that is up (no
assertion has failed) and has had no bug; `Breaks` is a bug, which strikes
before the audit that is to find it; `Mmu` sets bits in entries the walk has
yet to read (a bit set in an entry the walk has passed leads to a state that
is also reached by setting it before the walk passes). The initial state is
the kernel at start of day: one address space, no region, every frame free.
Every inconsistent state the audit meets is made by a `Bug` from a state the
operations reach.

### AuditSpec and the refinement

`AuditSpec` is the audit without the walk. Its state is what an address
space owes (`owed`, a set of reports), whether it is sound (`sound`), what
has been reported and the verdict. `Begin` starts an audit; `Report` adds
reports that are owed; `Correct` ends the audit of a sound space once
nothing owed is missing; `Fatal` ends the audit of a space that is not
sound, possibly with a last report; none of them changes `owed` or `sound`.
`Elsewhere` is a step of the rest of the kernel: while an audit runs it
leaves `owed` as it is and does not make a sound space unsound.

`Kernel` instantiates it (`Audit == INSTANCE AuditSpec WITH ...`) under
the mapping

| `AuditSpec` | `Kernel` |
|---|---|
| `owed` | `Divergences`: the mapped user pages of `held` outside every grant, and the granted ones whose flags differ from the grant's in a policy bit |
| `sound` | `Consistent`: no writable mapping of a copy-on-write frame or beyond its grant, and every frame `held` maps is mapped by it as often as its `RefCount` says |
| `report` | `errors` |
| `verdict` | `Verdict`: "idle", "correct" at `done`, "fatal" at `panic`, else "running" |

`Divergences` and `Consistent` are stated over the whole table at once,
without loops, cursor or tally, and with grants found by span membership
instead of the B-tree lookup: a second definition of what the walk computes
step by step. `ImplementsAuditSpec` is `Audit!Spec`. Under the mapping
`EndWalk`, `TallyFrame`, a `VisitGranted` without a flag mismatch and every
`Mmu` step are stuttering steps, and every operation of another address
space is an `Elsewhere` step. That the refinement holds with `Elsewhere` as
strict as it is says what the lock buys the audit: the other address spaces
can only take mappers away from the frames `held` shares with them, so
between the walk and the tally a count that was wrong for `held` can become
right and never the other way round.

### Debugger

`debugger()` in its three variants, chosen by the variable `arch`. The
debugger's position is `pc`; `remaining` is what the `for` loop over the
contexts has left, `installed` the user table of this core, `old_table` the
local of that name, `ac` the AC flag, `sp` and `words` the dump loop.

| Action | Code |
|---|---|
| `Start` | "DEBUGGER START", `old_table = RmmA::table(User)`, `stac` on x86_64, and the read guard of `contexts()`, which lives to "DEBUGGER END" |
| `SkipContext` | `continue` on a context that is not the target |
| `EnterContext` | `context_lock.read()`, held to the end of the iteration |
| `SwitchTable` / `NoAddrSpace` | the `if let Some(ref space)` and `set_table` |
| `LockForAudit`, `AuditReturns`, `AuditPanics` | `check_consistency(&mut space.write())` |
| `PrintGrants` | the grant loop under `space.read()` |
| `TakeRegs` | `regs_for(&context)` and `let mut sp` |
| `Probe` | loop bound, `translate` under `space.read()`, "GUARD PAGE" |
| `ReadWord` / `ReadFaults` | `*(sp as *const usize)`, `checked_add`, "OVERFLOW" |
| `RestoreTable` | `set_table(old_table)` |
| `LeaveContext` | end of the iteration: the context guard is dropped |
| `End` | `clac` on x86_64, "DEBUGGER END" |
| `CoreLocks`, `CoreUnlocks`, `CoreRemaps` | another core takes or drops the lock of the context list, of a context or of an address space, as often as it likes, or maps or unmaps a page while it holds an address space exclusively |
| `CoreSetsAddrSpace` | another core, holding a context exclusively, gives it another address space (exec) or none (exit); an address space that no context names and no guard holds any more is torn down (from the specification: the last holder releases it) |

A lock guard that lives inside one statement is one step; the guards that
live longer (the guard of the context list, the context's read guard, the
write guard of the audit) are held across steps, which is where the other
cores interleave (`DebuggerHolds`). A panic of the audit drops none of them:
in the state `panic` the list, the context and the address space stay
locked. `read` and `write` count the debugger's own guards with those of the
cores, so that a guard of the debugger's that lived too long would block the
debugger itself. The three variants
differ in what is inside the `if let` (`debugger_aarch64`, `debugger_x86`,
`debugger_x86_64`). The audit is a step that returns or panics: what it
computes is `Verifier`'s subject. What is printed is left out. `Pass` is
the shape of the steps that only move on: a lock taken, or a test of what was
read.

Another core holds one lock at a time: the debugger is the only code in
`src/` that holds a context and an address space together, and the
specification gives every address space one lock and names no order among
locks. The lock conflicts the debugger meets are those with a single guard
on another core. The contexts are the
holders of the address spaces: an address space is alive while a context
names it or a guard is held on it.

### Syscall

The x86_64 system-call path of one thread. `pc` is the position in the path;
the registers the path touches are variables; the kernel stack `mem` is a
function from slot addresses to words (one slot for eight bytes), so that a
pop off the wrong slot yields the wrong word.

| Action | Code |
|---|---|
| `init` | the MSR writes: `LSTAR`, `FMASK` (`init_fmask`), `EFER.SCE` |
| `SyscallInsn`, `Int80`, `Interrupt`, `FirstEntry` | the CPU: `syscall`, the interrupt gate with `interrupt_stack!`, interrupt delivery |
| `prologue` | `swapgs` to `call __inner_syscall_instruction` |
| `pre_syscall` | `breakpoint_callback(PRE_SYSCALL)`, `next_breakpoint`, `allowed`: the chain of `and_then`, `map` and `unwrap_or` over what the two calls return (`None`, or `Some` of a set of flags) |
| `syscall_body` | `(*stack).scratch.rax = syscall::syscall(...)` |
| `clone_ret` | the clone leaving the inner function past the assignment, on the stack as `clone` copied it (what `clone` writes into the copy is in `process.rs`, not in `src/`) |
| `post_syscall` | `breakpoint_callback(POST_SYSCALL)` |
| `epilogue` | `pop_fs!`, `pop_preserved!`, `pop_scratch!` |
| `bt_jnz` | `bt QWORD PTR [rsp], 47` and `jnz 2f` |
| `high_half_check` | label 2: `shr rcx, 47`, `cmp rcx, 0x1FFFF`, `jne 3f` |
| `fast_sysretq` | the macro, up to the `ud2` it executes |
| `iretq("slow", ..)`, `iretq("int80_return", ..)` | label 3, and the end of `interrupt_stack!` |

While the tracee is stopped in a breakpoint callback a tracer may write the
return address of the registered interrupt stack (`Poked`). `bt` writes the
carry flag; the zero flag `jnz` reads is whatever the compiled inner function
left, a nondeterministic boolean. `entered` records what user code is owed at
the return. `swapgs` exchanges the two gs bases, so that one `swapgs` too
many or too few on a path leaves user code with the kernel's. Pushes of scratch and preserved registers that nothing reads
back are slots holding 0. Segment selectors, the `STAR` MSR and the argument
registers of the two ABIs are left out.

### Boot

`kstart` is straight-line code; `pc` names the call it makes next, and every
call is an action. `up` is the set of subsystems whose `init` has been
called: what a subsystem does inside is not in `src/`. The KernelArgs and the
build feature `graphical_debug` are chosen in the initial state.

| Action | Code |
|---|---|
| `init_early`, `fill_memory_map` | the two calls under `if args.dtb_base != 0` |
| `store_kernel`, `reset_ap`, `bsp_ready` | the stores to the statics; `bsp_ready` also computes the `Bootstrap` |
| `init_logger`, `init_heap`, `fini` | the statements under `#[cfg(feature = "graphical_debug")]` |
| `info` | the eight `info!` lines: written if a logger is installed |
| `vbar`, `rmm_init`, `misc_init`, `allocator_init`, `log_init`, `dtb_init`, `device_init`, `init_noncore`, `init_mm` | the unconditional calls |
| `paging_init` | `paging::init()`, which is `init_mair`: three attributes inserted into `MAIR_EL1` |
| `kmain` | `kmain(CPU_COUNT, bootstrap)` |
| `kstart_ap(c)` | an application processor enters `loop {}` |
| `usermode` | `SPSR_EL1`, `ELR_EL1`, `SP_EL0`, `x0`, `eret` |

`Needs` is the dependency relation `InitOrder` checks the sequence against.
It is taken from the comments of `kstart` ("now that heap is available",
"Activate memory logging", "Try to find serial port prior to logging") and
from what each call is for; it does not ask for `graphical_debug::init`,
whose call is commented out.

### Ipi

`ipi(kind, target)` of both builds. `icr` composes the register value with
the code's shifts and ors; `set_icr` is the APIC's side, which cuts the
destination shorthand, the level, the delivery mode and the vector out of
the value again and latches the interrupt on the CPUs the shorthand names.
`owed` is a history variable: what the callers asked for.

## 4. Runs

| Run | Module, cfg | Checks | Shows |
|---|---|---|---|
| `kernel` | `MCKernel`, `MCKernel.cfg` | `TypeOK`, `RefCountIsMappers`, `WritePolicy`, `PrivateWritesStayPrivate`, `GrantsBackMappings`, `AlarmOnlyForSharedFrame`, `ImplementsAuditSpec` | through every interleaving of map, unmap, fork, write fault and teardown on two address spaces a frame's `RefCount` is the number of its mappers, no copy-on-write frame is writable, a page writable under a private grant is the only mapping of its frame, grants and mappings coincide; an audit of a kernel without a bug fails no assertion but the tally of a shared frame; and every audit, with a bug or without, whatever the MMU and the other address space do meanwhile, is an execution of `AuditSpec` |
| `kernel_fork_audit` | `MCKernel`, `MCKernelFork.cfg` | `TallyMismatchDoesNotAbort` (violated) | map, fork, audit: the tally of the shared frame panics in a kernel without a bug |
| `addressing` | `MCPageIter`, `MCPageIter.cfg` | `YieldsTheRange`, `IndexGeometryAgrees`, `RoundingBrackets` | both range constructors yield their range exactly; the two files agree on the table geometry; rounding is floor and ceiling where the sum fits |
| `debugger` | `MCDebugger`, `MCDebugger.cfg` | `TypeOK`, `OriginalTableBetweenContexts`, `DumpReadsOwnStack`, `DumpIsConsecutive`, `InstalledTableIsAlive`, `DebuggerTerminates` | with another core locking and unlocking without end, remapping and giving contexts other address spaces: every context is left with the original table installed, a stack is read only through its owner's table, the dump never wraps, the debugger never runs on the table of an address space that was torn down, and the debugger ends: it waits for no lock it holds itself |
| `debugger_straddle` | `MCDebugger`, `MCDebuggerGuard.cfg` | `DumpStopsAtGuardPage` (violated) | a stack pointer in the last bytes of a page passes the probe and the read faults |
| `debugger_race` | `MCDebugger`, `MCDebuggerRace.cfg` | `ProbedPageStaysMapped` (violated) | another core unmaps the page between the probe and the read |
| `syscall_safety` | `MCSyscall`, `MCSyscall.cfg` | `TypeOK`, `SyscallRunsUnlessIgnored`, `ReturnRestoresUser`, `NoInterruptOnUserStack` | the call runs unless a tracer had it ignored; the slow and the `int 0x80` returns restore the user's registers with the result; no interrupt arrives in ring 0 on the user's stack |
| `syscall_fast_pop` | `MCSyscall`, `MCSyscallPop.cfg` | `FastReturnPopsTheFrame` (violated) | the fast return loads R11 and RSP from the wrong slots, and stops at `ud2` |
| `syscall_fast_canonical` | `MCSyscall`, `MCSyscallCanon.cfg` | `FastReturnOnlyIfCanonical` (violated) | a non-canonical return address reaches the fast return |
| `ipi_encoding` | `MCIpi`, `MCIpi.cfg` | `IpiReachesItsTargets` | the APIC latches exactly what the callers of `ipi` asked for |
| `boot` | `MCBoot`, `MCBoot.cfg` | `TypeOK`, `InitOrder`, `BootstrapWithinImage` | in both builds and with or without a device tree no subsystem is initialised before what it relies on; `kmain` gets only frames of the bootstrap image, and every frame the image fills |
| `boot_logger` | `MCBoot`, `MCBootLogger.cfg` | `BootIsLogged` (violated) | without `graphical_debug` no logger is installed and the boot's messages are dropped |

The system-call path, the debugger, the audit and the boot may stop (a return
to user mode that never calls again, "DEBUGGER END", a verdict or a panic, the
first `eret`): their runs do not check for deadlock. The others do.

`RefCountIsMappers`, `WritePolicy`, `PrivateWritesStayPrivate` and
`GrantsBackMappings` are about operations whose code is not in `src/`: they
show that what the specification says of map, unmap, fork, write fault and
teardown keeps the invariants the audit of `debugger.rs` asserts, and would
not see a bug in the code of those operations.

Every property of a passing run has a mutant in `PROJECT.json`: a faulty
variant of a definition, defined next to it, under which TLC finds the
property violated.

## 5. Bounds

* `PAGE_SHIFT = 2`, `LEVEL_BITS = 1`, `USIZE_BITS = 7`: pages of four bytes,
  two entries per table, 128 addresses. The table spans 64 of them, so the
  upper half of the address space lies above the table's reach, as bits 48-63
  do in the code, and the last page of the address space is one where
  `number + PAGE_SIZE - 1` overflows.
* `MCKernel`: two address spaces (a process and its fork), either of which
  may be the audited one; user pages 1 and 2 (different level-1 and level-2
  slots), kernel page 9 on frame 0, frames 1 and 2 for user memory; flag
  bits `WRITABLE`, `ACCESSED`, `DIRTY` and one policy bit `USER`; regions of
  one or two pages, read-only or writable, private or shared; `MaxShare = 2`;
  `MaxBugs = 1`. Two pages let a grant be split and give the walk and the
  tally more than one iteration; two frames are enough for a fork of a page
  followed by a write fault that takes the free frame, and for the fault
  that finds none; the kernel page shows that the walk stops at the user
  half. With two address spaces no count exceeds 2. One bug is what each of
  the specification's scenarios injects; after a bug the operations stop, so
  that the audit meets the state the bug made. `MCKernelFork.cfg` is the
  same kernel with `MaxBugs = 0`.
* `MCPageIter`: bounds 0, 1, 3 and the last two pages of the address space.
* `MCDebugger`: two contexts, two address spaces, one other core that takes
  and drops locks without bound and makes one change under them
  (`MaxCoreOps = 1`: a page mapped or unmapped, or a context given another
  address space); the first context with any of the saved stack pointers
  or no registers, with address space A or none; the second with A (shared
  with the first), B or none; `WORD = 2` bytes and `MAX_WORDS = 3` for the
  8 and 64 of the code; saved stack pointers 4 (start of a page), 7 (last
  byte of a page, where a word reaches into the next) and 126 (the last word
  of the address space); a stack of one page under a guard page, and a stack
  of two pages with the last page of the address space. One other core is
  enough for every conflict on a lock and one change for the unmapping race
  and for the exec that tears an address space down; three words are enough
  to reach the loop bound, the guard page and the overflow. 1,831,749
  states.
* `MCSyscall`: `ADDR_BITS = 5`, `VA_BITS = 3`: addresses 0-3 and 28-31 are
  canonical, bit 2 stands for bit 47. Return addresses 1 and 30 (low and high
  half); a tracer writes 1, 5 (bit 47 set, not canonical), 9 (bit 47 clear,
  not canonical) or 30. User flags with the interrupt flag set, with and
  without the trap flag. `KSTACK_TOP = 100`, user stack pointers 60 and 70.
* `MCBoot`: pages of four bytes; bootstrap images at an aligned base (16) and
  an unaligned one (18), of sizes 0, 3 (less than a page), 8 (two pages) and
  10 (two pages and a half); a device tree at 8 or none; both builds; two
  application processors; `MAIR_EL1` as the firmware left it, empty or not.
  The sizes are one on each side of every case of the division.
* `MCIpi`: three CPUs, so that `Other` names more than one CPU and differs
  from `Current` and `All`; the CPUs are a symmetry set.

## 6. Fairness

`FairSpec` of `Debugger` assumes weak fairness of `CoreUnlocks` for every
other core (critical sections of the kernel are finite) and strong fairness
of the debugger's steps: it computes, or it spins in `read()` or `write()`,
and a spin on a lock that is free again and again gets the lock. The second
half is what every user of a spin lock relies on and nothing in the lock
enforces: the cores of the model take and drop the locks without end, and
under weak fairness alone TLC shows the debugger starved at a lock by a
core that takes it again each time it has dropped it. `DebuggerTerminates` therefore says that the
debugger is stopped by nothing but such starvation: it never waits for a
lock it holds itself, and its loops are bounded. Nothing is assumed of when
another core takes a lock or remaps. The code on the
interrupted core itself is not an actor of the model: a lock it holds is never
given up while the debugger runs, which is the hazard listed at
`debugger.rs:164`.

`Kernel`, `Syscall`, `Ipi` and `Boot` have safety properties only: the audit
and the boot are loops and straight-line code that wait for nothing, the
operations on an address space are single steps, and the refinement of
`AuditSpec` is checked as a safety property. That an audit gives its address
space back (a verdict or a panic follows every start) was tried as a
leads-to property of `Kernel` under weak fairness of the audit's step: on
the 571,908 states of the `kernel` run TLC's liveness check does not end
within the time a run is given, and the property is not part of the project.

## 7. Findings

* `check_consistency` panics on a tally mismatch (`debugger.rs:308`), which
  the specification classifies as logged and recoverable. The counterexample
  needs no bug: an address space maps a page, is forked and is audited. The
  frame has two mappers, the tally of the audited space counts one, and
  `assert_eq!` fails where the specification's fork scenario expects zero
  divergences. `AlarmOnlyForSharedFrame` shows that this is the only alarm a
  kernel without a bug raises.
* The stack dump probes the byte at `sp` and reads a word (`debugger.rs:203`,
  and lines 55 and 128): a saved stack pointer in the last bytes of a mapped
  page under an unmapped one passes the probe, and the read faults where the
  code means to print "GUARD PAGE".
* The read lock under which `translate` answers is dropped before the word is
  read (`debugger.rs:202`): a core that shares the address space unmaps the
  page in between.
* `fast_sysretq!` (`syscall.rs:64`) skips the fake CS with `sub rsp, 8`,
  which moves the stack pointer down, back onto the slot just popped: R11
  receives the return address and the user's stack pointer becomes the
  selector `6 * 8 + 3`. The macro then executes `ud2` (line 69) before
  `sysretq`, in ring 0 with the user's stack pointer and gs.
* The canonicalness test (`syscall.rs:118-121`) branches with `jnz` on the
  zero flag, which `bt` does not write; and an address with bit 47 clear and
  higher bits set is not canonical but is never sent to the comparison. A
  return address a tracer wrote reaches the fast return unchecked.

* The attribute `#[cfg(feature = "graphical_debug")]` (`start.rs:82`) stands
  before a commented-out statement and so applies to `log::init_logger`: a
  build without the feature installs no logger, and the `info!` lines of the
  boot are dropped. With the feature, `init_heap` and `fini` run for a
  graphical debug that was never initialised.

Observed and not checked by a run of their own:

* `round_up_pages` (`paging/mod.rs:130`) returns 0 in a release build for a
  number in the last page of the address space, where the specification
  promises `n <= round_up_pages(n)` for all `n`. `RoundingBrackets` holds
  with the guard `~Overflows(number + PAGE_SIZE - 1)` and not without it.
* `page_count` of the `Bootstrap` (`start.rs:172`) is rounded down: of an
  image whose size is not a page multiple ("not necessarily page aligned",
  line 47) the last, partly filled page is not handed to `kmain`.
  `BootstrapWithinImage` states what is handed over.
* `dtb::init` (`start.rs:154`) is called with `Some(..)` also when
  `dtb_base` is 0, where the two earlier uses of the device tree are skipped.
* The specification defines the resolution of a write fault for a `Cow(n)`
  frame only. After a fork and a write by one side the frame is `One`, and
  the page of the other side is still read-only under its writable grant:
  what its next write does is not said, and `resolve_write_fault` is not
  enabled there.
* `usermode` (`start.rs:197`) ignores `_is_singlestep` and leaves the
  registers other than `x0` as the kernel had them.

## 8. Not modelled

* The code of the frame table, the grant map, the page table and the address
  space is not in `src/`; `AddrSpace` models what the specification says of
  them. Left out, because the specification does not say what happens: a
  write fault on a frame that is not copy-on-write, a second mapping of a
  frame within one address space, sharing a region between address spaces
  other than by fork, regions backed by a device (`physmap`), the allocation
  of the intermediate tables and TLB invalidation.
* The number of execution contexts that hold an address space, in `Kernel`.
  It decides only when the address space is torn down (by the last of them),
  and `teardown` is enabled whenever the space is not locked, so every
  behaviour of tables, grants and frames that some number of holders allows
  is a behaviour of the model. With the number as a variable (up to two
  holders) the `kernel` run has 2,077,556 states in place of 571,908 and no
  property to check on them. Who holds an address space matters to the
  debugger, and is modelled there (`CoreSetsAddrSpace`).
* What a core does with the context list under its lock (a context added
  or removed): the debugger's guard keeps it out for the whole loop, and the
  set of contexts is a constant.
* A core that holds two locks at once. No code in `src/` but the debugger
  does, and the specification names one lock per address space and no order
  among locks.
* What the subsystems initialised by `kstart` do, and the encodings of the
  three `MAIR_EL1` attributes: not in `src/`.
* The code the debugger interrupts on its own core, and what runs after a
  panic of the audit.
* Formatting and printing of addresses, flags and registers.
* Segment selectors and the `STAR` MSR of the system-call setup; the
  arguments of a system call.
* The delivery-status handshake of the local APIC, which is inside
  `LocalApic::set_icr` and not in `src/`.
