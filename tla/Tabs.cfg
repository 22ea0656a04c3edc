SPECIFICATION FairSpec
CONSTANTS
  cleo = cleo
  paul = paul
  None = None
  Tab = {t1, t2}
  Account = {cleo, paul}
  RoleOf <- MCRoleOf
  TwoFactor <- MCTwoFactor
  MaxAttempts = 2
  MaxFaults = 1
INVARIANT ActsAsShown
PROPERTIES GoodSessionKept EndsReachThePage
CHECK_DEADLOCK FALSE
