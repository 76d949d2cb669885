SPECIFICATION LiveSpec
CONSTANTS
  Accounts <- MCAccounts
  Assets <- MCAssets
  Transactions <- MCTransactions
  Callers = {c1, c2}
  NoCaller = nocaller
  NoTxn = notxn
  NoAccount = noaccount
  MaxFaults = 1
  MaxDrifts = 1
  MaxResolved = 1
CHECK_DEADLOCK FALSE
INVARIANTS CacheIsSumOfEntries KeyPostedOnce OnlyOutsideDriftIsFlagged
PROPERTIES DuplicateMeansPosted EveryPostReturns DriftIsFlagged
