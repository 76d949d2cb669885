SPECIFICATION LiveSpec
CONSTANTS
  a1 = a1
  a2 = a2
  w1 = w1
  w2 = w2
  Creator = creator
  Admins <- TwoAdmins
  Writers <- TwoWriters
  Txs = {"tx1"}
  MaxStamp = 2
  MaxFaults = 1
CHECK_DEADLOCK FALSE
INVARIANTS OneAddress ConfirmedDepositCarried
PROPERTY KeepsLifecycle
PROPERTIES DepositReachesSettlement EndsOrBreaches HoldsEnd
