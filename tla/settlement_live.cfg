SPECIFICATION LiveSpec
CONSTANTS
  h1 = h1
  h2 = h2
  Worker = worker
  Requests <- OneHandler
  Corridors <- EditedBindings
  Adapters = {"hyparrow", "sandbox"}
  Sandbox = "sandbox"
  Hyparrow = "hyparrow"
  TelegramEnabled = TRUE
  MaxAutoRetryAttempts = 2
  SessionDest = "original"
  Corrections = {"corrected"}
  NoDest = "none"
  OpsConfirm = TRUE
  Rate = 2
  MaxDeposit = 2
  MaxAttempts = 4
  MaxRetries = 1
  MaxFaults = 0
CHECK_DEADLOCK FALSE
INVARIANTS LiabilityMatchesStatus SucceededAttemptSettles StatusesAgree
PROPERTIES PaysLatestDestination PayoutResolvesOrPages
