\* Two keys, so that a lost record's offset may be reused for the other key, and
\* two crashes, anywhere but between the two steps of a rotation.
CONSTANTS
  Keys <- TwoKeys
  CrashSteps <- NotInRotation
  BulkLoads = "unlogged"
  MaxPuts = 2
  MaxGen = 4
  MaxCrashes = 2
  MaxOffset = 6
SPECIFICATION Spec
CHECK_DEADLOCK FALSE
INVARIANTS ManifestDurable Reopens AckedSurvives
