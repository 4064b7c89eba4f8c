CONSTANTS
  None = None
  Bad = Bad
  cp = cp
  workers = workers
  image1 = image1
  image2 = image2
  plain = plain
  changed = changed
  Pools <- MCPools
  ControlPools <- MCControlPools
  Clusters <- MCClusters
  Taints <- MCTaints
  MaxChanges = 2
  MaxFaults = 1
SPECIFICATION Spec
INVARIANTS
  TypeOK
  TemplateBoots
  ReadyIsCurrent
  SourceFollowsInstaller
CHECK_DEADLOCK FALSE
