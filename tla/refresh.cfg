CONSTANTS
  Sources = {s1}
  Refreshers = {r1}
  Editors = {e1}
  MaxConcurrency = 1
  TTL = 0
  BackoffBase = 0
  BackoffMax = 0
  HistoryRows = 1
  MaxEdits = 1
  MaxFaults = 1
SPECIFICATION Spec
CHECK_DEADLOCK FALSE
INVARIANTS TypeOK IngestsDoNotMix StampCoversQuietEdits
