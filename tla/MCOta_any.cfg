SPECIFICATION Spec
CONSTANTS
  Requests = {r1, r2}
  None = None
  Factory = Factory
  MaxRetry = 3
  ImageChunks = 2
  Faults = TRUE
  InitCrashes = TRUE
  FactoryConfirmed = FALSE
  DeviceStops = TRUE
  MaxCrashes = 2
INVARIANT TypeOK
INVARIANT SyncExclusion
INVARIANT RunBitHasThread
INVARIANT CanceledNotDeployed
INVARIANT PendingIsAccountable
SYMMETRY Symmetry
