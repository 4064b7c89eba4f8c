SPECIFICATION Spec
CONSTANTS
  Space = 16
  None = None
  cp1 = cp1
  w1 = w1
  w2 = w2
  Machines = {w1, w2}
  ControlPlane = {}
  Configs <- Moving
  MaxUID = 1
  MaxReconfigs = 1
  MaxFaults = 0
  ClaimLag = 0
  MachineLag = 0
  SecretLag = 0
INVARIANT AddressFromSubnet
CHECK_DEADLOCK FALSE
