SPECIFICATION Spec
CHECK_DEADLOCK FALSE
CONSTANTS
  Hits <- MCHits
  Collation <- MCCollation
  HostNames = {"h1", "h2", "h3"}
  Ports = {"443"}
  Sources = {1, 2}
  SourceDocs <- MCSourceDocs
  ProfileDocs <- MCProfileDocs
  CountryLists <- MCCountries
  MemberFeeds <- MCPayloads
  StatusOf <- MCStatus
  LatencyOf <- MCLatency
  GeoDatabase <- MCGeo
  DropGate = TRUE
  Feeds <- EveryEntry
  MaxHops = 3
  ShownNames <- NamesShown
  MaxNames = 5
  LineLists <- MCLineLists
  Outbounds <- XrayOutbounds
INVARIANTS TypeOK SubscriptionMatchesMembers DocumentsSurviveTheirFormat RowsAreCheckedAsTheyAre
PROPERTIES IngestAgreesWithServing RepublishingKeepsTheProxy
