SPECIFICATION Spec
CONSTANTS
  Workers = {"reader"}
  MaxChanges = 4
  Installed <- InstalledVersion
  Payloads <- ReleaseApi
  Day = 2
  MaxTime = 5
  MaxChecks = 4
  NoProfile = NoProfile
  Stores <- ProfileStores
  Snapshots <- SnapshotSet
  Worlds <- Hosts
  Nothing = Nothing
  Choice <- SettingChoices
  Item <- Items
  Catalog <- Catalogs
  Default <- Defaults
  SamlDefault <- SamlDefaults
  Records <- Entries
  Foreign <- Files
INVARIANTS ShownIsCurrent OneCheckAtATime AnnouncedRight DiagnosisSound HonestPage NothingLost
PROPERTIES QuitEnds
CHECK_DEADLOCK FALSE
