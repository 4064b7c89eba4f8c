CONSTANTS
  None = None
  Bad = Bad
  cp = cp
  workers = workers
  image1 = image1
  image2 = image2
  plain = plain
  changed = changed
  Pools <- OnePool
  ControlPools <- MCControlPools
  Clusters <- MCClusters
  Taints <- MCTaints
  MaxChanges = 2
  MaxFaults = 0
SPECIFICATION Spec
INVARIANTS
  OverrideConsumed
CHECK_DEADLOCK FALSE
