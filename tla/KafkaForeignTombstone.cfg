SPECIFICATION Spec
CONSTANTS
  i1 = i1
  i2 = i2
  l1 = l1
  l2 = l2
  k1 = k1
  k2 = k2
  p1 = p1
  p2 = p2
  g1 = g1
  g2 = g2
  Instances = {i1, i2}
  Locks = {l1}
  Keys = {k1, k2}
  KeyOf <- OneLock
  Topic = topic
  Partitions = {p1}
  PartitionOf <- AtP1
  Groups = {g1, g2}
  GroupOf <- OwnGroups
  NoOne = NoOne
  Attempts = 2
  Bound <- Quiet
  Kinds = 0
CHECK_DEADLOCK FALSE
INVARIANT DoneKeysUnlocked
