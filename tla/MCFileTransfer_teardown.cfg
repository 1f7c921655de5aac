\* A download fills the buffer of the application, an upload sends it and fails.
CONSTANTS
  Down = {d1}
  Up = {u1}
  None = None
  Sizes = {0, 3}
  QueueLen = 1
  PipeSize = 2
  AppChunk = 1
  Faults = TRUE
  StopTimeouts = FALSE
SPECIFICATION Spec
INVARIANT SafeUploadTeardown
