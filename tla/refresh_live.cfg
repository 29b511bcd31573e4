CONSTANTS
  Sources = {s1}
  Refreshers = {}
  Editors = {e1}
  MaxConcurrency = 1
  TTL = 1
  BackoffBase = 1
  BackoffMax = 1
  HistoryRows = 1
  MaxEdits = 1
  MaxFaults = 1
SPECIFICATION FairSpec
CHECK_DEADLOCK FALSE
PROPERTIES EditsAreFetched MarksAreReleased
