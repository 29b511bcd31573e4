SPECIFICATION Spec
CHECK_DEADLOCK FALSE
CONSTANTS
  NoHeader = NoHeader
  Opaque = Opaque
  Clients = {c1}
  Strangers = {x1}
  Proxy = proxy
  PublicSlots = {q1, q2}
  AllLimit = 2
  AllWindow = 1
  FailLimit = 1
  FailWindow = 2
  MaxHits = 3
  FailingKeys = {x1, x2, x3}
  WarnWindow = 2
  MaxTracked = 2
  MaxWarns = 1
  MaxTime = 4
  MaxSilence = 2
  Visitors = {v1}
  AllowedHosts <- HostsAllowed
  RequestHosts <- HostsAsked
  AdminLimit = 1
  AdminWindow = 1
  LoginLimit = 1
  LoginWindow = 2
  MaxAdminHits = 2
  NoCookie = NoCookie
  Browsers = {b1}
  AdminSlots = {s1, s2}
  Tokens = {t1, t2}
  SessionTTL = 1
  MaxBumps = 1
  MaxAdminFaults = 1
  ExportSlots = {e1, e2}
  LinkTokens = {1, 2}
  ExportTTL = 2
  RenderDeadline = 2
  LinkHosts <- HostsAsked
  LinkAllowed <- HostsAllowed
  MaxRenderFaults = 1
  FetchUrls <- Urls
  Answers <- LookupsOf
  ConfiguredRetries <- RetriesSet
  RetryCeiling = 1
  MaxRedirects = 1
  BatchRows <- Batch
  HostOf <- RowHost
  HostAnswers <- RowAnswers
  Unwritable <- OddRows
  Permits = 2
  AbortThreshold = 2
  BackoffInitial = 1
  BackoffMax = 3
  MostAddresses = 2
  MaxOutages = 2
  MaxLanes = 2
  MaxGeoId = 4
  GeoHosts = {"known", "quiet"}
  FirstGeoRows <- GeoRowsSet
  MaxTouches = 1
  Found <- Databases
  GeoBatch = 2
  MaxPasses = 2
  Starts = {p1, p2}
  MaxStarts = 3
  Lookups <- DialLookups
  Shortlist = 2
INVARIANTS TypeOK LimitsAreFair LinkServesFreshRows OnlyVettedAreDialled DownloadKeepsToItsSource BatchIsAccountedFor
PROPERTIES LoggedOutStaysOut FactsAreCollected InstalledIsVerified
