SPECIFICATION MCSpec
CONSTANTS
  Parts = {"scan", "frames"}
  Offers <- MCOffers
  Listed <- MCListed
  WhitelistedIps = {"y"}
  Localhost = {"me"}
  Private = {"a", "b", "me"}
  PrefixOf <- MCPrefixOf
  InfectionPorts = {445}
  ThresholdOf <- MCThresholdOf
  MaxScanKeys = 3
  MaxFlows = 2
  ScanWindow = 2
  UdpSlotOf <- MCUdpSlotOf
  UseHeuristics = TRUE
  Muted = {}
  MinInterval = 2
  MaxInterval = 3
  MinIntervals = 2
  MaxCvPct = 20
  SwarmPeers = 2
  Hour = 4
  StaleAfter = 4
  MaxVlanTags = 4
  MaxExt = 3
  MaxTunnelDepth = 3
  MinPflog = 3
  PrismHeader = 2
  MaxGuess = 2
  SlotCount = 2
  HomeOf <- MCHomeOf
  Cap = 3
  Ttl = 0
  SniAt <- MCSniAt
  Flows = {"early", "late", "quic", "server"}
  KindOf <- MCKindOf
  NeedOf <- MCNeedOf
  PartsOf <- MCPartsOf
  Scenarios <- MCScenarios
  MaxClock = 2
  MaxArrivals = 5
INVARIANTS
  SharedBudget
  ListedContactReported
  LayersFound
  HelloRead
PROPERTIES
  CrossingReported
  ReportedOnce
CHECK_DEADLOCK FALSE
