SPECIFICATION FairSpec
CONSTANTS
  Requests = {r1, r2}
  None = None
  Factory = Factory
  MaxRetry = 2
  ImageChunks = 2
  Faults = FALSE
  InitCrashes = FALSE
  FactoryConfirmed = TRUE
  DeviceStops = FALSE
  MaxCrashes = 2
INVARIANT Accountable
PROPERTY KeepsPromise
PROPERTY RememberedGetsVerdict
PROPERTY NeverWedged
