CONSTANTS
  j1 = j1
  j2 = j2
  j3 = j3
  Job <- MCJob
  g1 = g1
  g2 = g2
  Gpu <- MCGpu
  Vram <- MCVram
  None = None
  PoolLimit = 10
  LockTime = 1
  MaxTime = 1
  MaxMoves = 1
SPECIFICATION MCFairSpec
PROPERTY Answered
CHECK_DEADLOCK FALSE
