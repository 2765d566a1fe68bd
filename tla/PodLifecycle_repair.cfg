SPECIFICATION FairSpec
CONSTANTS
  Key <- MCKeys
  Value <- MCValues
  Container = {1, 2}
  NoSelector = NoSelector
  None = None
  ThePod = "p"
  SystemOS = "linux"
  DefaultArch = ""
  Image <- MCImages
  Node <- MCNodes
  MatchNodeLabels <- MCMatchLabels
  Submission <- MCSubmission
  Answers <- MCAnswers
  SchedulableArchs <- MCSchedulable
  MaxMisses = 1
  MaxPods = 5
  MaxReporting = 1
  MaxVersions = 3
  MaxFailures = 0
  MaxRestarts = 1
INVARIANT
  RepairsAreFew
PROPERTIES
  DeletesOnlyMisplaced
  PlacedInTheEnd
CHECK_DEADLOCK FALSE
