SPECIFICATION MCSpec
CONSTANTS
  Parts = {"log", "delivery"}
  Sinks = {s1, s2}
  Days = {1, 2}
  Json = FALSE
  MaxLines = 5
  MaxLogFaults = 3
  Workers = {w1, w2}
  NumEndpoints = 1
  RetryInterval = 2
  LookupTime = 2
  MaxAddr = 2
  MaxRecords = 3
  MaxFaults = 1
INVARIANTS
  LogAccounted
  RightDay
  DamageCounted
  RemoteAccounted
PROPERTIES
  AddressesConverge
CHECK_DEADLOCK FALSE
