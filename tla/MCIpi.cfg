SPECIFICATION Spec
CONSTANTS
  Cpus = {c1, c2, c3}
SYMMETRY CpuSymmetry
INVARIANT
  IpiReachesItsTargets
