SPECIFICATION Spec
CONSTANTS
  h1 = h1
  h2 = h2
  Worker = worker
  Requests <- TwoHandlers
  Corridors <- OneProvider
  Adapters = {"hyparrow"}
  Sandbox = "sandbox"
  Hyparrow = "hyparrow"
  TelegramEnabled = FALSE
  MaxAutoRetryAttempts = 3
  SessionDest = "original"
  Corrections = {}
  NoDest = "none"
  OpsConfirm = TRUE
  Rate = 2
  MaxDeposit = 1
  MaxAttempts = 4
  MaxRetries = 1
  MaxFaults = 0
CHECK_DEADLOCK FALSE
INVARIANT NoDoublePayout
