SPECIFICATION FairSpec
CONSTANTS
  Key <- MCKeys
  Value <- MCValues
  Container = {1, 2}
  NoSelector = NoSelector
  SystemOS = "linux"
  DefaultArch = "amd64"
  MaxUpdates = 2
  Image <- MCImages
  Node <- MCNodes
  MatchNodeLabels <- MCMatchLabels
  Requests <- MCRequests
  Answers <- MCAnswers
  SchedulableArchs <- MCSchedulable
INVARIANTS
  TypeOK
  RunnablePodIsAdmitted
  ScheduledWhereInspectedImagesRun
  OnlyPreferenceTakesNodes
  PreferenceHonoured
  ReadmissionKeepsPlacement
  CommonIsIntersection
PROPERTY
  InspectionEnds
