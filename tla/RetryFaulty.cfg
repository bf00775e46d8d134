SPECIFICATION FairSpec
CONSTANTS
  k1 = k1
  k2 = k2
  Topic = topic
  Keys = {k1, k2}
  KeyOf <- Same
  MaxRetries = 2
  FreeOnDLQ = TRUE
  Outcomes = {"ok", "fail", "reject"}
  MaxFaults = 2
  MaxRewinds = 1
CHECK_DEADLOCK FALSE
INVARIANT TypeOK
INVARIANT NothingLost
PROPERTY RetryDrains
PROPERTY MainDrains
