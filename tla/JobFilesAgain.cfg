CONSTANTS
  Job = {j1}
  None = None
  MayFail = FALSE
SPECIFICATION Spec
PROPERTY NotProcessedAgain
CHECK_DEADLOCK FALSE
