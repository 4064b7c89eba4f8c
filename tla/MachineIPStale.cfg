SPECIFICATION Spec
CONSTANTS
  Space = 8
  None = None
  cp1 = cp1
  w1 = w1
  w2 = w2
  Machines = {w1, w2}
  ControlPlane = {}
  Configs <- Scaling
  MaxUID = 1
  MaxReconfigs = 0
  MaxFaults = 1
  ClaimLag = 2
  MachineLag = 0
  SecretLag = 0
SYMMETRY WorkersAlike
INVARIANT ReadyIsTrue
PROPERTY PoolUnlessStale
CHECK_DEADLOCK FALSE
