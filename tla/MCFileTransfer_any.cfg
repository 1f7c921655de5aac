\* Two downloads and one upload; the queue holds one request while another is served.
CONSTANTS
  Down = {d1, d2}
  Up = {u1}
  None = None
  Sizes = {0, 3}
  QueueLen = 1
  PipeSize = 2
  AppChunk = 1
  Faults = TRUE
  StopTimeouts = TRUE
SYMMETRY Interchangeable
SPECIFICATION Spec
INVARIANTS TypeOK SemaphoreKept OneReply NothingLost SafeTeardown OnlyKnownLeaks
