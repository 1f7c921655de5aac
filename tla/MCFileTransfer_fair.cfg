\* One request of each direction; the application waits for the service as long as it takes.
CONSTANTS
  Down = {d1}
  Up = {u1}
  None = None
  Sizes = {0, 3}
  QueueLen = 1
  PipeSize = 2
  AppChunk = 1
  Faults = TRUE
  StopTimeouts = FALSE
SPECIFICATION FairSpec
PROPERTIES Answered StopEnds ReaderEnds
