SPECIFICATION Spec
CONSTANTS
  None = None
  Name = {p1}
  Templates <- MCDeploymentPods
  Image = {"app"}
  NodeLabels <- MCNodeLabels
  PlatformSets <- MCNoOSSets
  MaxPods = 1
  MaxReporting = 1
  MaxVersions = 1
  MaxUpdates = 0
  MaxFailures = 0
  MaxRestarts = 0
INVARIANT
  DeletedPodsMismatch
CHECK_DEADLOCK FALSE
