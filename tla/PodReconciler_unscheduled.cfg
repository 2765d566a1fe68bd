SPECIFICATION FairSpec
CONSTANTS
  None = None
  Name = {p1}
  Templates <- MCDeploymentPods
  Image = {"app"}
  NodeLabels <- MCNodeLabels
  PlatformSets <- MCPlatformSets
  MaxPods = 1
  MaxReporting = 1
  MaxVersions = 1
  MaxUpdates = 0
  MaxFailures = 0
  MaxRestarts = 0
PROPERTY
  MismatchesEnd
CHECK_DEADLOCK FALSE
