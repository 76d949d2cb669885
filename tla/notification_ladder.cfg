SPECIFICATION LiveDeliverySpec
CONSTANTS
  WebhookEvents = {"settlement.failed"}
  EmailEvents = {"settlement.failed"}
  EmailEnabled = FALSE
  Steps = 3
  NoRow = none
  MaxPublished = 2
  MaxRetries = 1
  MaxCuts = 1
CHECK_DEADLOCK FALSE
INVARIANT EndsAreEarned
PROPERTY PendingResolves
