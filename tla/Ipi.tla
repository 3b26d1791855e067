-------------------------------- MODULE Ipi --------------------------------
(***************************************************************************)
(* src/arch/x86_64/ipi.rs: the interrupt command register value ipi()      *)
(* writes, and what the local APIC makes of it.  The APIC's reading of the *)
(* register (vector in bits 0-7, delivery mode in 8-10, level in 14,       *)
(* destination shorthand in 18-19) is the hardware's, not this code's.     *)
(***************************************************************************)
EXTENDS Naturals, Bitwise

CONSTANT Cpus

VARIABLES
  multi_core,   \* the build's feature "multi_core"
  pending,      \* per CPU, the interrupts the APIC has latched for it
  owed          \* per CPU, the interrupts the callers of ipi() asked for
                \* and the CPU has not taken yet (history, read by no action)

vars == <<multi_core, pending, owed>>

IpiKind == [Wakeup |-> 64, Tlb |-> 65, Switch |-> 66, Pit |-> 67, Profile |-> 68]
IpiTarget == [Current |-> 1, All |-> 2, Other |-> 3]
Kinds == DOMAIN IpiKind
Targets == DOMAIN IpiTarget

NMI == 2          \* the vector of the non-maskable interrupt

shl(x, n) == x * 2^n

\* (target as u64) << 18 | 1 << 14 | 0b100 << 8 for Profile,
\* (target as u64) << 18 | 1 << 14 | (kind as u64) for the others
icr_shorthand_at_17(kind, target) ==
  IF kind = "Profile"
  THEN (shl(IpiTarget[target], 17) | shl(1, 14)) | shl(4, 8)
  ELSE (shl(IpiTarget[target], 17) | shl(1, 14)) | IpiKind[kind]

icr(kind, target) ==
  IF kind = "Profile"
  THEN (shl(IpiTarget[target], 18) | shl(1, 14)) | shl(4, 8)
  ELSE (shl(IpiTarget[target], 18) | shl(1, 14)) | IpiKind[kind]

\* The APIC's side: the fields of the register, the CPUs a shorthand
\* names, and what is latched (an NMI for delivery mode 100, else the
\* vector).
field(value, low, width) == (value \div 2^low) % 2^width

Destinations(sender, value) ==
  CASE field(value, 18, 2) = 1 -> {sender}
    [] field(value, 18, 2) = 2 -> Cpus
    [] field(value, 18, 2) = 3 -> Cpus \ {sender}
    [] OTHER -> {}

Latched(value) ==
  IF field(value, 8, 3) = 4 THEN NMI ELSE field(value, 0, 8)

set_icr(sender, value) ==
  pending' = [c \in Cpus |->
                IF c \in Destinations(sender, value) /\ field(value, 14, 1) = 1
                THEN pending[c] \cup {Latched(value)} ELSE pending[c]]

\* What a caller means: the CPUs of an IpiTarget, the interrupt of an
\* IpiKind (an NMI for Profile).
Meant(sender, target) ==
  CASE target = "Current" -> {sender}
    [] target = "All" -> Cpus
    [] target = "Other" -> Cpus \ {sender}

Raises(kind) == IF kind = "Profile" THEN NMI ELSE IpiKind[kind]

Asked(sender, kind, target) ==
  owed' = [c \in Cpus |->
             IF c \in Meant(sender, target)
             THEN owed[c] \cup {Raises(kind)} ELSE owed[c]]

\* ipi() of a multi_core build
ipi(sender, kind, target) ==
  /\ multi_core
  /\ set_icr(sender, icr(kind, target))
  /\ Asked(sender, kind, target)
  /\ UNCHANGED multi_core

\* ipi() of a build without multi_core: nothing is written
ipi_single_core(sender, kind, target) ==
  /\ ~multi_core
  /\ UNCHANGED vars

\* A CPU takes one of its latched interrupts.
Take(c) ==
  \E i \in pending[c] :
    /\ pending' = [pending EXCEPT ![c] = @ \ {i}]
    /\ owed' = [owed EXCEPT ![c] = @ \ {i}]
    /\ UNCHANGED multi_core

Init ==
  /\ multi_core \in BOOLEAN
  /\ pending = [c \in Cpus |-> {}]
  /\ owed = pending

Next ==
  \/ \E s \in Cpus, k \in Kinds, t \in Targets : ipi(s, k, t)
  \/ \E s \in Cpus, k \in Kinds, t \in Targets : ipi_single_core(s, k, t)
  \/ \E c \in Cpus : Take(c)

Spec == Init /\ [][Next]_vars

---------------------------------------------------------------------------
\* ipi(): over any sequence of calls from any CPUs, the register values it
\* composes make the APIC latch, on exactly the CPUs each IpiTarget means,
\* the vector of the IpiKind (an NMI for Profile), and nothing on any other
\* CPU: no field of a value runs into another, and a shorthand never
\* reaches a CPU the caller did not name.
IpiReachesItsTargets == pending = owed
=============================================================================
