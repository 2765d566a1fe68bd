SPECIFICATION Spec
CONSTANTS
  None = None
  Name = {p1}
  Templates <- MCDeploymentTwo
  Image = {"app", "sidecar"}
  NodeLabels <- MCNodeLabels
  PlatformSets <- MCPlatformSets
  MaxPods = 1
  MaxReporting = 1
  MaxVersions = 1
  MaxUpdates = 0
  MaxFailures = 1
  MaxRestarts = 0
INVARIANT
  ImageCountNotTooHigh
CHECK_DEADLOCK FALSE
