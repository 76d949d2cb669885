SPECIFICATION LiveSpec
CONSTANTS
  e1 = e1
  e2 = e2
  bad = bad
  d1 = d1
  d2 = d2
  NoEvent = none
  Events <- TwoAndOneBad
  Dispatchers <- TwoDispatchers
  Poison <- OnePoison
  BatchSize = 2
  MaxFaults = 1
CHECK_DEADLOCK FALSE
PROPERTIES HandledExactlyOnce PublishedIsHandled
