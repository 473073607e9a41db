\* A live sensor of two workers without panics and wedged calls.
CONSTANTS
  N = 2
  Modes = {FALSE}
  MaxFilePackets = 2
  CaptureSets <- SmallSets
  HousekeepingInterval = 2
  ErrorLimit = 2
  MaxPackets = 1
  MaxMishaps = 0
SPECIFICATION FairSpec
PROPERTIES OutageEndsProcess
\* The process ends.
CHECK_DEADLOCK FALSE
