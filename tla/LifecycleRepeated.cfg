SPECIFICATION Spec
CONSTANTS
  c1 = c1
  c2 = c2
  c3 = c3
  t1 = t1
  t2 = t2
  NoCall = NoCall
  Calls = {c1, c2}
  TopicOf <- TwoForOne
  MaxFailures = 1
CHECK_DEADLOCK FALSE
INVARIANT WorkerAfterRestore
