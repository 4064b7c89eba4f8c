CONSTANTS
  None = None
  v1 = v1
  v2 = v2
  u1 = u1
  u2 = u2
  u3 = u3
  Images <- Published
  MaxReleases = 2
  MaxPublished = 3
  MaxFailures = 1
  MaxCrashes = 1
SPECIFICATION Spec
INVARIANTS
  TypeOK
  ReleaseSettles
PROPERTIES
  SourceSwitchesToVolume
  ImplementsFeed
CHECK_DEADLOCK FALSE
