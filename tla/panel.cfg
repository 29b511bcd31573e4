SPECIFICATION Spec
SYMMETRY Symmetric
CHECK_DEADLOCK FALSE
CONSTANTS
  Operators = {o1, o2}
  Seeds <- MCSeeds
  Files <- MCFiles
  Slugs = {"s"}
  Typed <- TypedHeaders
  FreshKey = "c"
  MaxId = 4
  MaxTasks = 3
  Hits <- MCHits
  Collation <- MCCollation
  HostNames = {"n1"}
  Ports = {"443"}
  ProfileForm = TRUE
  Trim <- MCTrim
  StoredDocs <- MCStored
  TypedDocs <- TypedTexts
  Edits <- MCEdits
  MaxEdits = 2
  t1 = t1
  t2 = t2
  Tabs = {t1, t2}
  Touches <- EveryField
  Omits <- Omitted
  Pads <- PaddedFields
  FirstStarts <- Started
  RenameWorks = {TRUE, FALSE}
  MaxPosts = 1
  MaxCrashes = 1
INVARIANTS TypeOK SecretsSurviveEditing BackupsWork EditorKeepsMeaning
PROPERTY SettingsAreSafeToSave
