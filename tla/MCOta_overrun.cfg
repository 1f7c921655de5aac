SPECIFICATION Spec
CONSTANTS
  Requests = {r1, r2}
  None = None
  Factory = Factory
  MaxRetry = 2
  ImageChunks = 2
  Faults = FALSE
  InitCrashes = FALSE
  FactoryConfirmed = TRUE
  DeviceStops = FALSE
  MaxCrashes = 0
INVARIANT NoOverrun
