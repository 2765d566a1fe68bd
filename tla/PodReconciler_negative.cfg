SPECIFICATION Spec
CONSTANTS
  None = None
  Name = {p1, p2}
  Templates <- MCTwicePods
  Image = {"app"}
  NodeLabels <- MCNodeLabels
  PlatformSets <- MCPushSets
  MaxPods = 1
  MaxReporting = 1
  MaxVersions = 1
  MaxUpdates = 1
  MaxFailures = 0
  MaxRestarts = 0
INVARIANT
  ImageCountNotNegative
CHECK_DEADLOCK FALSE
