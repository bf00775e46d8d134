SPECIFICATION FairSpec
CONSTANTS
  c1 = c1
  c2 = c2
  c3 = c3
  t1 = t1
  t2 = t2
  NoCall = NoCall
  Calls = {c1, c2, c3}
  TopicOf <- ThreeForTwo
  MaxFailures = 2
CHECK_DEADLOCK FALSE
INVARIANT TypeOK
INVARIANT OneWorkerPerTopic
PROPERTY EverythingStops
PROPERTY CloseEnds
