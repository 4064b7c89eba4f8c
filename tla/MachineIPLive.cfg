SPECIFICATION FairSpec
CONSTANTS
  Space = 8
  None = None
  cp1 = cp1
  w1 = w1
  w2 = w2
  Machines = {cp1}
  ControlPlane = {cp1}
  Configs <- Appearing
  MaxUID = 2
  MaxReconfigs = 1
  MaxFaults = 1
  ClaimLag = 1
  MachineLag = 1
  SecretLag = 0
PROPERTIES EventuallyReady EventuallyInSecret
CHECK_DEADLOCK FALSE
