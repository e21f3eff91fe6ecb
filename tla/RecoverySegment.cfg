\* A crash between opening a segment and unlinking an old one.
CONSTANTS
  Keys <- OneKey
  CrashSteps <- AllSteps
  BulkLoads = "none"
  MaxPuts = 2
  MaxGen = 4
  MaxCrashes = 2
  MaxOffset = 6
SPECIFICATION Spec
CHECK_DEADLOCK FALSE
INVARIANTS AckedSurvives
