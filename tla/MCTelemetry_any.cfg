\* Whatever settings call fails and whenever the power does, with finite stop timeouts.
CONSTANTS
  Types = {1, 2}
  None = None
  Periods = {1}
  Config <- ConfigFirst
  Served = {1, 2}
  QueueLen = 1
  Faults = TRUE
  StopTimeouts = TRUE
SPECIFICATION Spec
INVARIANTS TypeOK RunBitHasThread TimersFollow Durable
