SPECIFICATION Spec
CONSTANTS
  Sessions = {"s1", "s2"}
  TenantOf <- OneTenant
  ChainOf <- OneChain
  CoinType <- MCCoinType
  Bindings <- DerivedOnly
  WalletsOf <- NoWallets
  Txs = {"tx1"}
  MaxFaults = 0
CHECK_DEADLOCK FALSE
INVARIANT OneDepositOneSession
