SPECIFICATION Spec
CONSTANTS
  Candidates <- MCCandidates
  Manifest <- MCManifest
  Images <- MCImages
  SchedulableArchs <- MCSchedulable
INVARIANT
  FailedManifestIsSkipped
CHECK_DEADLOCK FALSE
