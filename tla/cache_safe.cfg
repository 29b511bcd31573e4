CONSTANTS
  Requests = {r1}
  Sources = {s1}
  Changers = {c1, c2}
  Kinds = {"toggle", "ingest"}
  MaxChanges = 2
  Ageing = {"stale"}
  ClientsReturn = TRUE
SPECIFICATION Spec
INVARIANTS TypeOK SupersededIsNotKept
