SPECIFICATION SettingsSpec
CHECK_DEADLOCK FALSE
CONSTANTS
  t1 = t1
  t2 = t2
  Tabs = {t1, t2}
  Touches <- EndpointList
  Omits <- Omitted
  Pads <- PaddedFields
  FirstStarts <- OneFile
  RenameWorks = {TRUE}
  MaxPosts = 1
  MaxCrashes = 0
PROPERTY SavesStayLoadable
