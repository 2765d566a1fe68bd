SPECIFICATION Spec
CONSTANTS
  None = None
  Name = {p1}
  Templates <- MCDeploymentPods
  Image = {"app"}
  NodeLabels <- MCNodeLabels
  PlatformSets <- MCPlatformSets
  MaxPods = 1
  MaxReporting = 1
  MaxVersions = 1
  MaxUpdates = 0
  MaxFailures = 0
  MaxRestarts = 0
INVARIANT
  ImageCountNotTooLow
CHECK_DEADLOCK FALSE
