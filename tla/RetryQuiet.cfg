SPECIFICATION Spec
CONSTANTS
  k1 = k1
  k2 = k2
  Topic = topic
  Keys = {k1, k2}
  KeyOf <- Mixed
  MaxRetries = 2
  FreeOnDLQ = TRUE
  Outcomes = {"ok", "fail"}
  MaxFaults = 0
  MaxRewinds = 0
CHECK_DEADLOCK FALSE
INVARIANT OvertakenOnlyByRetry
INVARIANT PendingLocked
INVARIANT DrainedUnlocked
