CONSTANTS
  None = None
  shared = shared
  tenant = tenant
  ip1 = ip1
  ip2 = ip2
  v6 = v6
  untyped = untyped
  url = url
  zone1 = zone1
  zone2 = zone2
  web = web
  mail = mail
  Gateways <- MCGateways
  DefaultGateway = shared
  IPs <- MCIPs
  Untyped = untyped
  Addresses <- MCAddresses
  Clusters <- MCClusters
  URLs <- MCURLs
  Services <- TwoServices
  EnableWorkloadIngress = TRUE
  MaxChanges = 1
  MaxFaults = 1
SPECIFICATION Spec
INVARIANTS
  TypeOK
  EndpointRouted
  PublishedAlike
CHECK_DEADLOCK FALSE
