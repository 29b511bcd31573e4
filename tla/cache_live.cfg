CONSTANTS
  Requests = {r1, r2}
  Sources = {s1}
  Changers = {c1}
  Kinds = {"save", "toggle", "ingest"}
  MaxChanges = 1
  Ageing = {"stale", "evicted"}
  ClientsReturn = FALSE
SPECIFICATION FairSpec
CHECK_DEADLOCK FALSE
INVARIANT FlightsAreLed
PROPERTIES ClaimsAreReleased RequestsAreAnswered
