------------------------------ MODULE Syscall ------------------------------
(***************************************************************************)
(* The x86_64 system-call entry of src/arch/x86_64/interrupt/syscall.rs:   *)
(* the MSR setup, the prologue that builds an interrupt stack on the       *)
(* kernel stack, the ptrace gate around the call, the epilogue, the choice *)
(* between the fast and the slow return, and both returns.                 *)
(*                                                                         *)
(* The kernel stack is memory: a function from slot addresses to words,    *)
(* with rsp a slot address.  A push stores below rsp and lowers it, a pop  *)
(* reads at rsp and raises it; a popped word stays in memory.  One slot    *)
(* stands for eight bytes.  Every register value is a number, so that a    *)
(* register can be compared with whatever ends up in it.                   *)
(***************************************************************************)
EXTENDS Naturals, Sequences, Bitwise

CONSTANTS
  ADDR_BITS,      \* width of an address (64)
  VA_BITS,        \* implemented address bits (48): bit VA_BITS-1 is "bit 47"
  KSTACK_TOP,     \* gs:[4], the empty kernel stack's pointer
  UserRips,       \* return addresses user code executes syscall from
  UserRsps,       \* user stack pointers
  UserFlags,      \* rflags values of user code
  Pokes,          \* return addresses a tracer writes into a stopped tracee
  Results         \* what syscall::syscall returns

VARIABLES
  pc,             \* where the CPU is in the path
  cpl,            \* current privilege level, 0 or 3
  gs,             \* "user" or "kernel": which base swapgs has made current
  rip, rsp, rflags, rcx, r11, rax,
  zf,             \* the zero flag, left anyhow by the compiled inner function
  mem,            \* the kernel stack
  user_rsp,       \* gs:[0x70], the scratch slot of the TSS
  msr,            \* the MSRs init writes
  via,            \* "syscall" or "int80"
  gate,           \* what the PRE_SYSCALL callback and next_breakpoint returned
  ran,            \* the system call's body ran
  child,          \* this thread is the clone that left through clone_ret
  entered,        \* rip, rsp, rflags and rax the user is owed at the return
  irq             \* the stack the last interrupt frame was pushed on

regs == <<rip, rsp, rflags, rcx, r11, rax, zf>>
call == <<via, gate, ran, child>>
vars == <<pc, cpl, gs, regs, mem, user_rsp, msr, via, gate, ran, child,
          entered, irq>>

FLAG_TF == 256
FLAG_IF == 512
FAKE_SS == 5 * 8 + 3
FAKE_CS == 6 * 8 + 3
FRAME == 9                      \* ss rsp rflags cs rip | rax scratch preserved fs
Slots == (KSTACK_TOP - FRAME) .. (KSTACK_TOP - 1)
OnKernelStack(a) == a \in Slots \cup {KSTACK_TOP}

\* shr x, 47 and the top bits of a canonical address
shr47(x) == x \div 2^(VA_BITS - 1)
AllOnes == 2^(ADDR_BITS - VA_BITS + 1) - 1        \* 0x1FFFF
Canonical(x) == shr47(x) \in {0, AllOnes}

\* push vals[1], then vals[2], ... below sp
Push(m, sp, vals) ==
  [a \in DOMAIN m |->
     IF sp - Len(vals) <= a /\ a < sp THEN vals[sp - a] ELSE m[a]]

\* the fields of the InterruptStack at rsp, as offsets from it
f_rax == 3
f_rip == 4
f_rflags == 6
f_rsp == 7

\* swapgs exchanges the current gs base with the other one
swapgs(g) == IF g = "user" THEN "kernel" ELSE "user"

\* Option<T>: None is the empty sequence, Some(x) the sequence of x alone
None    == <<>>
Some(x) == <<x>>
\* and_then with a closure that ignores its argument; map with a function
and_then(o, then) == IF o = None THEN None ELSE then
map(o, f)         == IF o = None THEN None ELSE Some(f[o[1]])
unwrap_or(o, d)   == IF o = None THEN d ELSE o[1]

\* breakpoint_callback returns the flags the tracee stopped with, or None
\* when nobody traces it; next_breakpoint the flags of the breakpoint the
\* tracer set next, or None
PTRACE_STOP_PRE_SYSCALL == "pre_syscall"
PTRACE_FLAG_IGNORE == "ignore"
not_ignored == [f \in SUBSET {PTRACE_FLAG_IGNORE} |-> PTRACE_FLAG_IGNORE \notin f]
Callbacks   == {None, Some({PTRACE_STOP_PRE_SYSCALL})}
Breakpoints == {None, Some({}), Some({PTRACE_FLAG_IGNORE})}
NoGate == [callback |-> None, next |-> None]

At(from) == pc = from
Goto(from, to) == pc = from /\ pc' = to

---------------------------------------------------------------------------
\* init(): STAR, LSTAR, FMASK, EFER.SCE
init_fmask_trap_only == FLAG_TF

init_fmask == FLAG_TF + FLAG_IF

init ==
  /\ Goto("boot", "ready")
  /\ msr' = [lstar |-> "syscall_instruction", fmask |-> init_fmask, sce |-> TRUE]
  /\ UNCHANGED <<cpl, gs, regs, mem, user_rsp, call, entered, irq>>

\* The first entry to user mode, with a process at its start.
FirstEntry ==
  \E ip \in {a \in UserRips : Canonical(a)}, sp \in UserRsps, fl \in UserFlags :
    /\ Goto("ready", "user")
    /\ cpl' = 3 /\ gs' = "user"
    /\ rip' = ip /\ rsp' = sp /\ rflags' = fl
    /\ entered' = [rip |-> ip, rsp |-> sp, rflags |-> fl, rax |-> rax]
    /\ UNCHANGED <<rcx, r11, rax, zf, mem, user_rsp, msr, call, irq>>

\* The syscall instruction: RCX and R11 take RIP and RFLAGS, RFLAGS is
\* masked by FMASK; the stack pointer and gs stay the user's.
SyscallInsn ==
  \E ip \in {a \in UserRips : Canonical(a)}, sp \in UserRsps,
     fl \in UserFlags, nr \in Results :
    /\ Goto("user", "entry")
    /\ msr.sce
    /\ cpl' = 0
    /\ rcx' = ip /\ r11' = fl /\ rsp' = sp /\ rax' = nr
    /\ rflags' = fl - (fl & msr.fmask)
    /\ rip' = rip
    /\ via' = "syscall"
    /\ entered' = [rip |-> ip, rsp |-> sp, rflags |-> fl, rax |-> nr]
    /\ ran' = FALSE /\ child' = FALSE /\ gate' = NoGate
    /\ UNCHANGED <<gs, zf, mem, user_rsp, msr, irq>>

\* int 0x80 through the interrupt gate and interrupt_stack!: the hardware
\* pushes the frame on the kernel stack, the macro the registers.
Int80 ==
  \E ip \in {a \in UserRips : Canonical(a)}, sp \in UserRsps,
     fl \in UserFlags, nr \in Results :
    /\ Goto("user", "pre")
    /\ cpl' = 0 /\ gs' = "kernel"
    /\ mem' = Push(mem, KSTACK_TOP, <<FAKE_SS, sp, fl, FAKE_CS, ip, nr, 0, 0, 0>>)
    /\ rsp' = KSTACK_TOP - FRAME
    /\ rflags' = fl - (fl & FLAG_IF)
    /\ rax' = nr
    /\ via' = "int80"
    /\ entered' = [rip |-> ip, rsp |-> sp, rflags |-> fl, rax |-> nr]
    /\ ran' = FALSE /\ child' = FALSE /\ gate' = NoGate
    /\ UNCHANGED <<rip, rcx, r11, zf, user_rsp, msr, irq>>

\* An interrupt arrives where interrupts are enabled.  From user mode the
\* frame goes on the kernel stack; in kernel mode on the stack in use.
Interrupt ==
  /\ pc \in {"user", "entry", "pre", "call", "post", "epilogue", "check",
             "high", "fast", "slow"}
  /\ (rflags & FLAG_IF) = FLAG_IF
  /\ irq' = IF cpl = 3 \/ OnKernelStack(rsp) THEN "kernel" ELSE "user"
  /\ UNCHANGED <<pc, cpl, gs, regs, mem, user_rsp, msr, call, entered>>

\* mov rsp, gs:[4]: the stack the prologue pushes on
kernel_rsp_not_loaded == rsp

kernel_rsp == KSTACK_TOP

\* syscall_instruction up to the call of __inner_syscall_instruction
prologue ==
  /\ Goto("entry", "pre")
  /\ gs' = swapgs(gs)
  /\ user_rsp' = rsp
  /\ mem' = Push(mem, kernel_rsp,
                 <<FAKE_SS, rsp, r11, FAKE_CS, rcx, rax, 0, 0, 0>>)
  /\ rsp' = kernel_rsp - FRAME
  /\ UNCHANGED <<cpl, rip, rflags, rcx, r11, rax, zf, msr, call, entered, irq>>

---------------------------------------------------------------------------
\* While the tracee is stopped in a breakpoint callback, the tracer may
\* write the return address of the registered interrupt stack.
Poked(stopped, poke) ==
  IF stopped THEN [mem EXCEPT ![rsp + f_rip] = poke] ELSE mem

Owed(stopped, poke) ==
  IF stopped THEN [entered EXCEPT !.rip = poke] ELSE entered

\* what a tracer may write: an address of its choice, or nothing new
Writes == Pokes \cup {entered.rip}

\* Faulty variant: unwrap_or(false)
allowed_unless_untraced(callback, next) ==
  unwrap_or(and_then(callback, map(next, not_ignored)), FALSE)

\* callback.and_then(|_| next_breakpoint().map(|f| !f.contains(IGNORE)))
\* and allowed.unwrap_or(true)
allowed(callback, next) ==
  unwrap_or(and_then(callback, map(next, not_ignored)), TRUE)

\* breakpoint_callback(PTRACE_STOP_PRE_SYSCALL) and, when it stopped,
\* next_breakpoint()
pre_syscall(callback, next, poke) ==
  /\ At("pre")
  /\ pc' = IF allowed(callback, next) THEN "call" ELSE "post"
  /\ gate' = [callback |-> callback,
              next |-> IF callback = None THEN None ELSE next]
  /\ mem' = Poked(callback # None, poke)
  /\ entered' = Owed(callback # None, poke)
  /\ UNCHANGED <<cpl, gs, regs, user_rsp, msr, via, ran, child, irq>>

\* (*stack).scratch.rax = syscall::syscall(...): the two ABIs read their
\* arguments from different registers, the result goes to the same field
syscall_body(result) ==
  /\ Goto("call", "post")
  /\ mem' = [mem EXCEPT ![rsp + f_rax] = result]
  /\ entered' = [entered EXCEPT !.rax = result]
  /\ ran' = TRUE
  /\ UNCHANGED <<cpl, gs, regs, user_rsp, msr, via, gate, child, irq>>

\* The clone: it starts at clone_ret on a copy of this stack and returns
\* from the inner function, past the assignment and the POST_SYSCALL stop.
\* pop rbp and ret leave the interrupt stack as the copy has it.
clone_ret ==
  /\ Goto("call", "epilogue")
  /\ child' = TRUE
  /\ zf' \in BOOLEAN
  /\ UNCHANGED <<cpl, gs, rip, rsp, rflags, rcx, r11, rax, mem, user_rsp, msr,
                 via, gate, ran, entered, irq>>

\* breakpoint_callback(PTRACE_STOP_POST_SYSCALL)
post_syscall(stopped, poke) ==
  /\ Goto("post", "epilogue")
  /\ mem' = Poked(stopped, poke)
  /\ entered' = Owed(stopped, poke)
  /\ zf' \in BOOLEAN
  /\ UNCHANGED <<cpl, gs, rip, rsp, rflags, rcx, r11, rax, user_rsp, msr, call, irq>>

---------------------------------------------------------------------------
\* pop_fs!, pop_preserved!, pop_scratch!: four slots, the last into rax
popped_one_short == 3

popped == 4

epilogue(v, to) ==
  /\ via = v
  /\ Goto("epilogue", to)
  /\ rax' = mem[rsp + f_rax]
  /\ rsp' = rsp + popped
  /\ UNCHANGED <<cpl, gs, rip, rflags, rcx, r11, zf, mem, user_rsp, msr, call, entered, irq>>

\* bt QWORD PTR [rsp], 47 ; jnz 2f.  bt writes the bit to the carry flag
\* and leaves the zero flag as the inner function left it.
bt_jnz ==
  /\ At("check")
  /\ pc' = IF ~zf THEN "high" ELSE "fast"
  /\ UNCHANGED <<cpl, gs, regs, mem, user_rsp, msr, call, entered, irq>>

\* 2: mov rcx, [rsp] ; shr rcx, 47 ; cmp rcx, 0x1FFFF ; jne 3f
high_half_check ==
  /\ At("high")
  /\ rcx' = shr47(mem[rsp])
  /\ zf' = (rcx' = AllOnes)
  /\ pc' = IF rcx' # AllOnes THEN "slow" ELSE "fast"
  /\ UNCHANGED <<cpl, gs, rip, rsp, rflags, r11, rax, mem, user_rsp, msr, call, entered, irq>>

\* fast_sysretq!: pop rcx ; sub rsp, 8 ; pop r11 ; pop gs:[0x70] ;
\* mov rsp, gs:[0x70] ; swapgs ; ud2.  The ud2 raises #UD in ring 0, so the
\* sysretq after it is never reached.
fast_sysretq ==
  LET after_rcx == rsp + 1
      after_sub == after_rcx - 1
      after_r11 == after_sub + 1
  IN  /\ Goto("fast", "invalid_opcode")
      /\ rcx' = mem[rsp]
      /\ r11' = mem[after_sub]
      /\ user_rsp' = mem[after_r11]
      /\ rsp' = user_rsp'
      /\ gs' = swapgs(gs)
      /\ UNCHANGED <<cpl, rip, rflags, rax, zf, mem, msr, call, entered, irq>>

\* 3: xor rcx, rcx ; xor r11, r11 ; swapgs ; iretq, and the iretq that
\* ends interrupt_stack!.  iretq pops rip, cs, rflags, rsp, ss.
iretq(from, scrub) ==
  /\ At(from)
  /\ gs' = swapgs(gs)
  /\ rcx' = IF scrub THEN 0 ELSE rcx
  /\ r11' = IF scrub THEN 0 ELSE r11
  /\ zf' = IF scrub THEN TRUE ELSE zf
  /\ \/ /\ Canonical(mem[rsp])
        /\ pc' = "user"
        /\ cpl' = 3
        /\ rip' = mem[rsp]
        /\ rflags' = mem[rsp + 2]
        /\ rsp' = mem[rsp + 3]
     \/ /\ ~Canonical(mem[rsp])
        /\ pc' = "general_protection"
        /\ UNCHANGED <<cpl, rip, rflags, rsp>>
  /\ UNCHANGED <<rax, mem, user_rsp, msr, call, entered, irq>>

syscall_instruction ==
  \/ prologue
  \/ epilogue("syscall", "check")
  \/ bt_jnz
  \/ high_half_check
  \/ fast_sysretq
  \/ iretq("slow", TRUE)

int80_handler ==
  \/ epilogue("int80", "int80_return")
  \/ iretq("int80_return", FALSE)

with_interrupt_stack ==
  \/ \E callback \in Callbacks, next \in Breakpoints, poke \in Writes :
       pre_syscall(callback, next, poke)
  \/ \E result \in Results : syscall_body(result)
  \/ clone_ret
  \/ \E stopped \in BOOLEAN, poke \in Writes :
       post_syscall(stopped, poke)

---------------------------------------------------------------------------
Init ==
  /\ pc = "boot" /\ cpl = 0 /\ gs = "kernel"
  /\ rip = 0 /\ rsp = KSTACK_TOP /\ rflags = 2
  /\ rcx = 0 /\ r11 = 0 /\ rax = 0 /\ zf = FALSE
  /\ mem = [a \in Slots |-> 0]
  /\ user_rsp = 0
  /\ msr = [lstar |-> "reset", fmask |-> 0, sce |-> FALSE]
  /\ via = "syscall" /\ gate = NoGate /\ ran = FALSE /\ child = FALSE
  /\ entered = [rip |-> 0, rsp |-> 0, rflags |-> 2, rax |-> 0]
  /\ irq = "none"

Next ==
  \/ init
  \/ FirstEntry
  \/ SyscallInsn
  \/ Int80
  \/ Interrupt
  \/ syscall_instruction
  \/ int80_handler
  \/ with_interrupt_stack

Spec == Init /\ [][Next]_vars

---------------------------------------------------------------------------
Words == Nat

\* The type invariant.  In the kernel part of the path the stack pointer is
\* a slot of the kernel stack or its top.
TypeOK ==
  /\ pc \in {"boot", "ready", "user", "entry", "pre", "call", "post", "epilogue",
             "check", "high", "fast", "slow", "int80_return",
             "invalid_opcode", "general_protection"}
  /\ cpl \in {0, 3}
  /\ gs \in {"user", "kernel"}
  /\ \A r \in {rip, rsp, rflags, rcx, r11, rax, user_rsp} : r \in Words
  /\ zf \in BOOLEAN
  /\ mem \in [Slots -> Words]
  /\ via \in {"syscall", "int80"}
  /\ gate \in [callback : Callbacks, next : Breakpoints]
  /\ irq \in {"none", "kernel", "user"}
  /\ pc \in {"pre", "call", "post", "epilogue", "check", "high", "fast",
             "slow", "int80_return"} => rsp \in Slots

\* with_interrupt_stack!: the body of a system call is skipped exactly
\* when a tracer stopped the tracee before it and the breakpoint it set
\* next carries the ignore flag; an untraced process, and a traced one
\* whose tracer set no further breakpoint, are served.
Ignored ==
  /\ gate.callback # None
  /\ gate.next # None /\ PTRACE_FLAG_IGNORE \in gate.next[1]

SyscallRunsUnlessIgnored ==
  pc \in {"check", "int80_return"} /\ ~child => (ran <=> ~Ignored)

\* The slow return of syscall_instruction and the return of the int 0x80
\* handler: the pops of the epilogue undo the pushes of the prologue, so
\* iretq finds the frame and user code resumes at the return address, with
\* the stack pointer and flags it entered with (or the tracer set), the
\* result in rax, the user's gs, and the kernel stack empty again for the
\* next entry.
ReturnRestoresUser ==
  pc = "user" /\ cpl = 3 =>
    /\ rip = entered.rip
    /\ rsp = entered.rsp
    /\ rflags = entered.rflags
    /\ rax = entered.rax
    /\ gs = "user"

\* init(): FMASK clears the interrupt flag on entry, so no interrupt is
\* taken between the syscall instruction and the load of the kernel stack
\* pointer, where the CPU is in ring 0 on the user's stack and gs.
NoInterruptOnUserStack == irq # "user"

\* fast_sysretq!: "Pop userspace return pointer", "Pop fake userspace CS",
\* "Pop rflags", "Pop userspace stack pointer".  At the end of the fast
\* path RCX, R11 and RSP hold what sysretq is to restore.
FastReturnPopsTheFrame ==
  pc = "invalid_opcode" =>
    rcx = entered.rip /\ r11 = entered.rflags /\ rsp = entered.rsp

\* syscall_instruction: "Test whether RCX is canonical".  The fast return
\* is taken only with a canonical return address, whatever a tracer wrote.
FastReturnOnlyIfCanonical == pc = "fast" => Canonical(mem[rsp])
=============================================================================
