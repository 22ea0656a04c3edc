CONSTANTS
  Job = {j1, j2}
  g1 = g1
  g2 = g2
  Gpu <- OneGpu
  None = None
  Faults = {"cancel", "break", "restart", "patch", "sweep", "flood", "overdue"}
  MaxMishaps = 1
SPECIFICATION Spec
SYMMETRY JobSymmetry
INVARIANTS BilledForWork GpuTableTrue
PROPERTIES ChargedNeverRuns ImplementsJobLife
CHECK_DEADLOCK FALSE
