SPECIFICATION Spec
CONSTANTS
  Space = 8
  None = None
  cp1 = cp1
  w1 = w1
  w2 = w2
  Machines = {w1, w2}
  ControlPlane = {}
  Configs <- Scaling
  MaxUID = 1
  MaxReconfigs = 1
  MaxFaults = 1
  ClaimLag = 0
  MachineLag = 0
  SecretLag = 1
SYMMETRY WorkersAlike
INVARIANTS TypeOK NodesUseLeases
PROPERTIES ImplementsPool ReplacedUnlessStale
CHECK_DEADLOCK FALSE
