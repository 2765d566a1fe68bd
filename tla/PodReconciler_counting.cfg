SPECIFICATION Spec
CONSTANTS
  None = None
  Name = {p1, p2}
  Templates <- MCCountedPods
  Image = {"app"}
  NodeLabels <- MCOneNode
  PlatformSets <- MCPushSets
  MaxPods = 1
  MaxReporting = 1
  MaxVersions = 1
  MaxUpdates = 1
  MaxFailures = 1
  MaxRestarts = 1
SYMMETRY Symmetric
INVARIANTS
  TypeOK
  CountedPodsAreHeld
  NoStaleSeries
CHECK_DEADLOCK FALSE
