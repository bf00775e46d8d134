SPECIFICATION FairSpec
CONSTANTS
  c1 = c1
  c2 = c2
  p1 = p1
  p2 = p2
  Calls = {c1, c2}
  Partitions = {p1}
  MaxRecords = 2
  MaxFaults = 1
CHECK_DEADLOCK FALSE
INVARIANT TypeOK
INVARIANT NilMeansApplied
PROPERTY WakeUpsArrive
