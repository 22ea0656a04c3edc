CONSTANTS
  Job = {j1}
  g1 = g1
  g2 = g2
  Gpu <- OneGpu
  None = None
  Faults = {"cancel"}
  MaxMishaps = 0
SPECIFICATION FairSpec
PROPERTY NotStartedNotCharged
CHECK_DEADLOCK FALSE
