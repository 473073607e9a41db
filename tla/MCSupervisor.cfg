\* A live sensor of two workers, and replays of one or two files.
CONSTANTS
  N = 2
  Modes = {TRUE, FALSE}
  MaxFilePackets = 2
  CaptureSets <- SmallSets
  HousekeepingInterval = 2
  ErrorLimit = 2
  MaxPackets = 1
  MaxMishaps = 1
SPECIFICATION FairSpec
INVARIANTS
  TypeOK ExitCodeHonest TailBeforeExit ScrapeSeesLastCounters ReplayAccounted
PROPERTIES StopsOnSignal LostInterfaceReported
\* The process ends.
CHECK_DEADLOCK FALSE
