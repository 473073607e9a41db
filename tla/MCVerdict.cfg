SPECIFICATION Spec
CONSTANTS
  Capacity = 2
  HashOf <- MCHashOf
  Slots = 2
  PrintShift = 2
  TrailSets <- MCTrailSets
  Whitelist <- MCWhitelist
  Impersonators <- MCImpersonators
  NsLike = {"ns1"}
  Digits = {"93", "1"}
  Odd = {"_"}
  MutedNames = {}
  UseHeuristics = TRUE
  MaxKeys = 2
  Hour = 4
  ExhaustionThreshold = 2
  ExhaustionWindow = 1
  LocalLookups = {"wpad"}
  TunnelWindow = 3
  TunnelQueries = 2
  TunnelBytes = 4
  TunnelSpan = 1
  DistinctPct = 60
  LongPct = 50
  NameSample = 2
  NxThreshold = 2
  Offers <- MCOffers
  Short = {"co"}
  DashedQuads = {"1-2-3-4"}
  Blocklists = {"dnsbl"}
  HashZones = {}
  HashLabels = {"_domainkey"}
  Carrying = {"p1", "p2", "p3"}
  DgaLabels = {"xqzvkj"}
  IgnoredTops = {"local"}
  Private = {"lan", "resolver"}
  CheckHostDomains = TRUE
  CheckMissingHost = TRUE
  Ours = {}
INVARIANTS
  VerdictFollowsPolicy
  LookupReportedOnce
PROPERTIES
  CleanCacheBounded
  ReportedOncePerWindow
  PlatformKeepsTrails
CHECK_DEADLOCK FALSE
