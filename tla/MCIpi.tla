------------------------------- MODULE MCIpi -------------------------------
(***************************************************************************)
(* Ipi for TLC: three CPUs, so that "Other" names more than one CPU and    *)
(* differs from both "Current" and "All".  No action tells one CPU from    *)
(* another except as the sender, so the CPUs are symmetric.                *)
(***************************************************************************)
EXTENDS Ipi, TLC

CpuSymmetry == Permutations(Cpus)
=============================================================================
