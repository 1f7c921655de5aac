SPECIFICATION FairSpec
CONSTANTS
  Starters = {app, telemetry}
  Destroyer = app
  app = app
  telemetry = telemetry
  QueueLen = 2
  MaxScans = 3
  MaxFound = 2
CHECK_DEADLOCK FALSE
INVARIANTS
  TypeOK
  StartHasOneOwner
  ScanIsBounded
  ResultsOfOwnScan
PROPERTIES
  ScanEnds
