SPECIFICATION Spec
CONSTANTS
  h1 = h1
  h2 = h2
  Worker = worker
  Requests <- TwoHandlers
  Corridors <- OneProvider
  Adapters = {"hyparrow"}
  Sandbox = "sandbox"
  Hyparrow = "hyparrow"
  TelegramEnabled = TRUE
  MaxAutoRetryAttempts = 2
  SessionDest = "original"
  Corrections = {}
  NoDest = "none"
  OpsConfirm = FALSE
  Rate = 2
  MaxDeposit = 1
  MaxAttempts = 4
  MaxRetries = 1
  MaxFaults = 1
CHECK_DEADLOCK FALSE
SYMMETRY HandlerSymmetry
INVARIANTS TypeOK NoDoublePayout ReversedClaimIsDead PayableNeverOverdrawn ReversalsAreOfFailures
PROPERTIES KeepsLifecycle ResolvedAttemptsStay
