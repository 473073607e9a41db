\* Two addresses, a subject to condense and one not to.
\* Lag is PacketLag + FlushPeriod, the oldest a merged event can be.
CONSTANTS
  Addrs = {a1, a2, joined}
  Subjects = {s1, s2}
  Modes = {"summarize", "legacy", "off"}
  Window = 1
  Burst = 1
  MaxKeys = 2
  EvictShare = 100
  MaxSpan = 2
  MaxCondensed = 2
  LegacyDivisor = 1
  Lag = 1
  MaxTime = 5
  MaxEvents = 4
  Joined = joined
  Condensable = {s1}
  MaxCondensedKeys = 1
  FlushPeriod = 1
  PacketLag = 0
SPECIFICATION SinkSpec
SYMMETRY SinkSymmetry
INVARIANTS SinkTypeOK AllReported CondensedWaitBounded Conservation TableBounded BurstRespected HeldWaitBounded
PROPERTY DrivesThrottle
\* The worker exits, and the clock is bounded.
CHECK_DEADLOCK FALSE
