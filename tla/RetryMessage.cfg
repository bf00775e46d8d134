SPECIFICATION Spec
CONSTANTS
  Limit = 8
  Second = 2
  MaxTime = 8
  MaxFaults = 1
  MaxReplays = 2
  UserHeaders <- Lists
  Configs <- SomeConfigs
CHECK_DEADLOCK FALSE
INVARIANT TypeOK
INVARIANT UserHeadersKept
INVARIANT LocksSettled
INVARIANT AttemptsCounted
INVARIANT FirstFailureKept
PROPERTY NeverEarly
PROPERTY BackoffGrows
