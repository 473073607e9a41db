SPECIFICATION Spec

CONSTANTS
  Workers = {w1, w2}
  V4 = {"a", "b", "zero"}
  V6 = {"six"}
  Names = {"n"}
  Junk = {"zero"}
  Conns <- MCConns
  SlotOf <- MCSlotOf
  FlagsOf <- MCFlagsOf
  ScoreOf <- MCScoreOf
  MaxWindowKeys = 2
  FlushPeriod = 1
  Backlog = 1
  MaxRows = 2
  Seconds = {1, 2}
  MaxClock = 2
  MaxSightings = 3

INVARIANTS
  FirstAndLast
