SPECIFICATION MCSpec
CONSTANTS
  Parts = {"reload", "store"}
  \* Two workers, three versions of the file, one SIGHUP, an update at the start and one later.
  Workers = {w1, w2}
  Counts = {0, 1, 4}
  RatioNum = 1
  RatioDen = 2
  Updates = TRUE
  AllowEmpty = FALSE
  MaxWrites = 3
  MaxSignals = 1
  MaxUpdates = 1
  \* One sensor started twice, two contents of the CSV, two edits.
  HashOf <- MCHashOf
  HashRange = 8
  MinSlots = 2
  MinBits = 4
  NativeOf <- MCNativeOf
  Wildcards <- MCWildcards
  Compiles = {"w*"}
  Repairable = {"w("}
  ShapeOf <- MCShapeOf
  MaxGroups = 1
  BatchLines = 4
  EstimateOf <- MCEstimateOf
  Sensors = {s1}
  Contents <- MCContents
  WhitelistOf <- MCWhitelistOf
  Versions = {1, 2}
  Builds <- MCBuilds
  Inodes = {1, 2}
  MaxClock = 3
  MaxEdits = 2
  MaxBoots = 2
  Threads = 2
  MaxCanaries = 2
  LiveEdits = FALSE
INVARIANTS
  ViewCoherent
  ServedIsCsv
  StoreHonest
PROPERTIES
  
  ChangePickedUp
  AdoptedByAll
  SighupReloads
\* A sensor without trails exits, and the bounds end the store's part.
CHECK_DEADLOCK FALSE
