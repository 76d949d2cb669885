SPECIFICATION Spec
CONSTANTS
  Sessions <- MCSessions
  Amount <- MCAmount
  Threshold = 5
  s1 = s1 s2 = s2 s3 = s3
  Cached <- MCCached
  Polled = {}
  Ceiling = 2
  Quotes = {1}
  MaxStaleAge = 1
  Interval = 1
  MaxAge = 3
SYMMETRY MCSymmetry
CHECK_DEADLOCK FALSE
INVARIANTS ClearedVolumeBelowThreshold
PROPERTIES LockedQuoteIsRecent
