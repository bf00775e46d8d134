SPECIFICATION Spec
CONSTANTS
  i1 = i1
  i2 = i2
  l1 = l1
  l2 = l2
  k1 = k1
  k2 = k2
  p1 = p1
  p2 = p2
  g1 = g1
  g2 = g2
  Instances = {i1}
  Locks = {l1, l2}
  Keys = {k1, k2}
  KeyOf <- TwoLocks
  Topic = topic
  Partitions = {p1, p2}
  PartitionOf <- Spread
  Groups = {g1}
  GroupOf <- SoloGroup
  NoOne = NoOne
  Attempts = 2
  Bound <- Alone
  Kinds = 4
CHECK_DEADLOCK FALSE
INVARIANT TypeOK
INVARIANT ExactCount
INVARIANT DoneKeysUnlocked
