-------------------------------- MODULE Boot --------------------------------
(***************************************************************************)
(* src/arch/aarch64/start.rs: kstart, the boot processor's way from the    *)
(* bootloader's KernelArgs to kmain, as the sequence of calls it makes;    *)
(* kstart_ap, the entry of the other processors; usermode, the first       *)
(* exception return to EL0.  paging::init of paging/mod.rs is part of the  *)
(* step that calls it.  A subsystem is the name of its init call; what the *)
(* call does inside is not this file's.  pc names the call kstart makes    *)
(* next.                                                                   *)
(***************************************************************************)
EXTENDS Paging

CONSTANTS
  Args,       \* the KernelArgs a bootloader may pass
  Aps,        \* the application processors
  Words       \* the values of usermode's four arguments

VARIABLES
  pc,               \* the call kstart makes next
  args,             \* *args_ptr
  graphical_debug,  \* the build's feature "graphical_debug"
  up,               \* the subsystems whose init has been called
  statics,          \* KERNEL_BASE, KERNEL_SIZE, CPU_COUNT, AP_READY, BSP_READY
  heard,            \* the info! records a logger has written
  mair,             \* the attributes present in MAIR_EL1
  bootstrap,        \* the Bootstrap handed to kmain
  parked,           \* the APs inside kstart_ap
  el0               \* the registers user mode starts with

given   == <<args, graphical_debug, parked, el0>>
effects == <<statics, heard, mair, bootstrap>>
vars    == <<pc, up, given, effects>>

\* struct KernelArgs, the fields kstart decides on
KernelArgs ==
  [kernel_base : Usize, kernel_size : Usize, dtb_base : Usize,
   bootstrap_base : Usize, bootstrap_size : Usize, bootstrap_entry : Usize]

ASSUME Args \subseteq KernelArgs

NoBootstrap == [page_count |-> 0]
Kernel == "kernel"    \* a register still holding a value of the kernel's
INFOS == 8            \* the info! lines of kstart
InKernel == [spsr |-> Kernel]

\* A straight-line step of kstart: the calls of `called` are made.
Run(at, called, to) ==
  /\ pc = at
  /\ pc' = to
  /\ up' = up \cup called
  /\ UNCHANGED given

Call(at, called, to) == Run(at, called, to) /\ UNCHANGED effects

IfDtb(called) == IF args.dtb_base # 0 THEN called ELSE {}
IfGraphicalDebug(called) == IF graphical_debug THEN called ELSE {}

---------------------------------------------------------------------------
(* kstart *)

init_early == Call("init_early", IfDtb({"serial"}), "store_kernel")

store_kernel ==
  /\ Run("store_kernel", {}, "init_logger")
  /\ statics' = [statics EXCEPT !.KERNEL_BASE = args.kernel_base,
                                !.KERNEL_SIZE = args.kernel_size]
  /\ UNCHANGED <<heard, mair, bootstrap>>

\* The attribute of line 82 falls on the next item that is not a comment:
\* the statement that installs the logger.
init_logger == Call("init_logger", IfGraphicalDebug({"logger"}), "info")

info ==
  /\ Run("info", {}, "vbar")
  /\ heard' = IF "logger" \in up THEN INFOS ELSE 0
  /\ UNCHANGED <<statics, mair, bootstrap>>

vbar == Call("vbar", {"exception_vectors"}, "fill_memory_map")

fill_memory_map == Call("fill_memory_map", IfDtb({"memory_map"}), "rmm_init")

rmm_init == Call("rmm_init", {"rmm"}, "paging_init")

\* paging::init is init_mair: three attributes are inserted into what
\* MAIR_EL1 holds.
init_mair ==
  mair' = mair \cup {"DEVICE_MEMORY", "NORMAL_UNCACHED_MEMORY",
                     "NORMAL_WRITEBACK_MEMORY"}

paging_init ==
  /\ Run("paging_init", {"paging"}, "misc_init")
  /\ init_mair
  /\ UNCHANGED <<statics, heard, bootstrap>>

misc_init == Call("misc_init", {"misc"}, "reset_ap")

\* Faulty variant: the processor count is left as the image has it.
reset_ap_count_kept ==
  /\ Run("reset_ap", {}, "allocator_init")
  /\ statics' = [statics EXCEPT !.AP_READY = FALSE, !.BSP_READY = FALSE]
  /\ UNCHANGED <<heard, mair, bootstrap>>

reset_ap ==
  /\ Run("reset_ap", {}, "allocator_init")
  /\ statics' = [statics EXCEPT !.CPU_COUNT = 1, !.AP_READY = FALSE,
                                !.BSP_READY = FALSE]
  /\ UNCHANGED <<heard, mair, bootstrap>>

\* Faulty variant: the heap is not set up.
allocator_init_dropped == Call("allocator_init", {}, "init_heap")
allocator_init == Call("allocator_init", {"allocator"}, "init_heap")

init_heap ==
  Call("init_heap", IfGraphicalDebug({"graphical_debug_heap"}), "log_init")

log_init == Call("log_init", {"log"}, "dtb_init")

\* Not under the test of dtb_base that guards the two earlier uses.
dtb_init == Call("dtb_init", {"dtb"}, "device_init")

device_init == Call("device_init", {"device"}, "init_noncore")

init_noncore == Call("init_noncore", {"noncore"}, "init_mm")

init_mm == Call("init_mm", {"mm"}, "fini")

fini == Call("fini", IfGraphicalDebug({"graphical_debug_fini"}), "bsp_ready")

\* Faulty variant: the page count is one too many.
Bootstrap_one_more(a) ==
  [base |-> containing_address(a.bootstrap_base),
   page_count |-> a.bootstrap_size \div PAGE_SIZE + 1,
   entry |-> a.bootstrap_entry]

Bootstrap(a) ==
  [base |-> containing_address(a.bootstrap_base),
   page_count |-> a.bootstrap_size \div PAGE_SIZE,
   entry |-> a.bootstrap_entry]

bsp_ready ==
  /\ Run("bsp_ready", {}, "kmain")
  /\ statics' = [statics EXCEPT !.BSP_READY = TRUE]
  /\ bootstrap' = Bootstrap(args)
  /\ UNCHANGED <<heard, mair>>

\* kmain(CPU_COUNT, bootstrap) does not return.
kmain == Call("kmain", {"kmain"}, "running")

---------------------------------------------------------------------------
(* kstart_ap: loop {} *)

kstart_ap(c) ==
  /\ c \notin parked
  /\ parked' = parked \cup {c}
  /\ UNCHANGED <<pc, up, args, graphical_debug, el0, effects>>

(* usermode: SPSR_EL1 is zeroed, ELR_EL1 and SP_EL0 are loaded, x0 gets  *)
(* the argument, and the other registers keep what they hold: x1 to x3   *)
(* the arguments they passed, the rest the kernel's values.              *)
usermode(ip, sp, arg, is_singlestep) ==
  /\ pc = "running"
  /\ pc' = "el0"
  /\ el0' = [spsr |-> 0, elr |-> ip, sp |-> sp, x0 |-> arg, x1 |-> sp,
             x2 |-> arg, x3 |-> is_singlestep, others |-> Kernel]
  /\ UNCHANGED <<up, args, graphical_debug, parked, effects>>

---------------------------------------------------------------------------
Init ==
  /\ pc = "init_early"
  /\ args \in Args
  /\ graphical_debug \in BOOLEAN
  /\ up = {}
  /\ statics = [KERNEL_BASE |-> 0, KERNEL_SIZE |-> 0, CPU_COUNT |-> 0,
                AP_READY |-> FALSE, BSP_READY |-> FALSE]
  /\ heard = 0
  /\ mair \in SUBSET {"DEVICE_MEMORY", "FIRMWARE"}
  /\ bootstrap = NoBootstrap
  /\ parked = {}
  /\ el0 = InKernel

kstart ==
  \/ init_early \/ store_kernel \/ init_logger \/ info \/ vbar
  \/ fill_memory_map \/ rmm_init \/ paging_init \/ misc_init \/ reset_ap
  \/ allocator_init \/ init_heap \/ log_init \/ dtb_init \/ device_init
  \/ init_noncore \/ init_mm \/ fini \/ bsp_ready \/ kmain

Next ==
  \/ kstart
  \/ \E c \in Aps : kstart_ap(c)
  \/ \E ip, sp, arg, is_singlestep \in Words :
       usermode(ip, sp, arg, is_singlestep)

Spec == Init /\ [][Next]_vars

---------------------------------------------------------------------------
Subsystems ==
  {"serial", "logger", "exception_vectors", "memory_map", "rmm", "paging",
   "misc", "allocator", "graphical_debug_heap", "log", "dtb", "device",
   "noncore", "mm", "graphical_debug_fini", "kmain"}

\* Every variable has a value of its kind, and the kernel proper is entered
\* as the only processor counted (CPU_COUNT is what kstart hands to kmain).
TypeOK ==
  /\ args \in Args
  /\ graphical_debug \in BOOLEAN
  /\ up \subseteq Subsystems
  /\ statics \in [KERNEL_BASE : Nat, KERNEL_SIZE : Nat, CPU_COUNT : 0 .. 1,
                  AP_READY : BOOLEAN, BSP_READY : BOOLEAN]
  /\ heard \in 0 .. INFOS
  /\ bootstrap \in [base : Nat, page_count : Nat, entry : Nat]
                     \cup {NoBootstrap}
  /\ parked \subseteq Aps
  /\ "kmain" \in up => statics.CPU_COUNT = 1 /\ bootstrap # NoBootstrap

\* What a call of kstart relies on, by the comments of kstart ("now that
\* heap is available", "Activate memory logging") and by what the call is
\* about: the frame allocator before the page tables, both before the
\* heap, the heap before anything that allocates, the device tree before
\* the devices read from it.
Needs ==
  [s \in Subsystems |->
     CASE s = "paging" -> {"rmm"}
       [] s = "allocator" -> {"rmm", "paging"}
       [] s \in {"graphical_debug_heap", "log", "dtb"} -> {"allocator"}
       [] s = "device" -> {"dtb", "exception_vectors", "allocator"}
       [] s = "noncore" -> {"device"}
       [] s = "mm" -> {"allocator"}
       [] s = "kmain" -> Subsystems \ {"serial", "logger", "memory_map",
                           "graphical_debug_heap", "graphical_debug_fini",
                           "kmain"}
       [] OTHER -> {}]

\* kstart: no subsystem is initialised before the ones it relies on, in
\* either build and with or without a device tree; kmain is entered, and
\* BSP_READY (reset with the AP variables in the middle of the boot) is
\* raised, only with all of them up.
InitOrder ==
  /\ \A s \in up : Needs[s] \subseteq up
  /\ statics.BSP_READY => Needs["kmain"] \subseteq up

\* The frames of a Bootstrap, the frames the image of the KernelArgs has a
\* byte in, and the frames it fills.
BootstrapFrames(b) == {b.base + i : i \in 0 .. b.page_count - 1}
ImageBytes(a) == a.bootstrap_base .. a.bootstrap_base + a.bootstrap_size - 1
ImageFrames(a) == {containing_address(x) : x \in ImageBytes(a)}
WholeFrames(a) ==
  {f \in ImageFrames(a) :
     \A x \in 0 .. PAGE_SIZE - 1 : f * PAGE_SIZE + x \in ImageBytes(a)}

\* kstart, lines 170-175: the Bootstrap handed to kmain names only frames
\* of the bootstrap image, whatever base and size ("not necessarily page
\* aligned") the bootloader passed, so the first process is never given a
\* frame of something else; and from a page-aligned base it names every
\* frame the image fills.  (A last page the image fills in part is left
\* out: page_count is the quotient, rounded down.)
BootstrapWithinImage ==
  bootstrap # NoBootstrap =>
    /\ BootstrapFrames(bootstrap) \subseteq ImageFrames(args)
    /\ args.bootstrap_base % PAGE_SIZE = 0
         => WholeFrames(args) \subseteq BootstrapFrames(bootstrap)

\* kstart, lines 85-104 ("Initialize logger", then eight info! lines
\* beginning with "Redox OS starting..."): once kstart is past them, a
\* logger has written all eight, in every build.
BootIsLogged ==
  pc \notin {"init_early", "store_kernel", "init_logger", "info"}
    => heard = INFOS
=============================================================================
