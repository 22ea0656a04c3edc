SPECIFICATION JobsFair
CONSTANTS
  j1 = j1
  j2 = j2
  Job <- MCJob
  None = None
  MayFail = TRUE
  Workload <- MCJob
  Old <- MCOld
  Nothing = Nothing
  MaxLoads = 2
  MaxMoves = 2
  MaxFaults = 1
INVARIANTS JobsTypeOK RowsMatchFiles RerunIsWhole ListIsTrue
PROPERTIES StaleFilesGo PageCatchesUp
CHECK_DEADLOCK FALSE
