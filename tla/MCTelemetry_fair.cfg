\* One type with two periods; the application waits for the service as long as it takes.
CONSTANTS
  Types = {1}
  None = None
  Periods = {1, 2}
  Config <- ConfigFirst
  Served = {1}
  QueueLen = 2
  Faults = TRUE
  StopTimeouts = FALSE
SPECIFICATION FairSpec
INVARIANT StopsBeforeStart
PROPERTIES EnabledPublishes StopEnds
