SPECIFICATION Spec
CONSTANTS
  Key <- MCKeys
  Value <- MCValues
  Container = {1, 2}
  NoSelector = NoSelector
  SystemOS = "linux"
  DefaultArch = "amd64"
  MaxUpdates = 0
  Image <- MCImages
  Node <- MCNodes
  MatchNodeLabels <- MCMatchLabels
  Requests <- MCTermRequests
  Answers <- MCAnswers
  SchedulableArchs <- MCSchedulable
INVARIANT
  ScheduledWhereImagesRun
