CONSTANTS
  ana = ana
  bob = bob
  c1 = c1
  c2 = c2
  c3 = c3
  t1 = t1
  l1 = l1
  User <- MCUser
  Charge <- MCCharge
  Topup = {t1}
  Launch = {l1}
  None = None
  Owner <- MCOwner
  Payee <- MCPayee
  Amount <- MCAmount
  Opening <- MCOpening
  Limit <- MCLimit
  Floor <- MCFloor
SPECIFICATION FairSpec
INVARIANTS AboveFloor LedgerExact
PROPERTY Settles
CHECK_DEADLOCK FALSE
