SPECIFICATION Spec
CONSTANTS
  None = None
  Name = {p1}
  Templates <- MCStatefulPods
  Image = {"app"}
  NodeLabels <- MCNodeLabels
  PlatformSets <- MCPlatformSets
  MaxPods = 2
  MaxReporting = 1
  MaxVersions = 1
  MaxUpdates = 0
  MaxFailures = 0
  MaxRestarts = 0
INVARIANT
  DeletedPodsMismatch
CHECK_DEADLOCK FALSE
