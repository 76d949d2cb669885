SPECIFICATION LiveSpec
CONSTANTS
  Sessions <- MCSessions
  TenantOf <- TwoTenants
  ChainOf <- OneChain
  CoinType <- MCCoinType
  Bindings <- OwnWalletFirst
  WalletsOf <- OneHasAWallet
  Txs = {"tx1"}
  MaxFaults = 1
CHECK_DEADLOCK FALSE
INVARIANTS OneOpenSessionPerAddress AddressStaysWithTenant
PROPERTY FinalTransferRecorded
