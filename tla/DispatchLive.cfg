CONSTANTS
  Job = {j1, j2}
  g1 = g1
  g2 = g2
  Gpu <- TwoGpus
  None = None
  Faults = {"break", "crash", "restart"}
  MaxMishaps = 1
SPECIFICATION FairSpec
PROPERTIES MatchedJobEnds IdleAgentReturns
CHECK_DEADLOCK FALSE
