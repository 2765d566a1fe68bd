SPECIFICATION FairSpec
CONSTANTS
  Candidates <- MCCandidates
  Manifest <- MCManifest
  Images <- MCImages
  SchedulableArchs <- MCSchedulable
INVARIANTS
  TypeOK
  AnswerIsWhatExists
  NoCredentialPassedOver
PROPERTIES
  ListArchsReturns
  GoroutinesEnd
CHECK_DEADLOCK FALSE
