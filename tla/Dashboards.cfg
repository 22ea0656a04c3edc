SPECIFICATION DashboardsSpec
CONSTANTS
  Own = {o1, o2}
  t1 = t1
  t2 = t2
  p1 = p1
  p2 = p2
  a1 = a1
  a2 = a2
  r1 = r1
  r2 = r2
  Template <- MCTemplate
  WithDataset = {t1}
  Gpu = {g1}
  Press <- MCPress
  None = None
  Edited = Edited
  MaxMoves = 4
  MaxChanges = 4
  MaxLoads = 2
  MaxFaults = 1
  Assigned = {a1, a2}
  NoJob = NoJob
  Polls = 1
  MaxLines = 2
  MaxMishaps = 1
  Request = {r1, r2, r3}
  Size = {1, 2}
  MaxJobs = 1
  MaxBytes = 2
  MaxDays = 1
SYMMETRY PartsSymmetry
INVARIANTS DashboardsTypeOK PartsBelongTogether TwiceHasACause QuotasHold PageFollowsTheServer StoryIsTold ProgramsAreMinded
CHECK_DEADLOCK FALSE
