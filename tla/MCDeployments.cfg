SPECIFICATION FairSpec
CONSTANTS
  A = A
  B = B
  editor = editor
  watcher = watcher
  NoDocument = NoDocument
  Documents <- TwoDocuments
  Editors <- OneEditor
  Watchers <- OneWatcher
  Active <- ThreeActive
  InProgress <- QueuedOrBuilding
  Reported <- RunningOrStopped
  MaxDeployments = 2
  MaxActive = 1
INVARIANTS
  LiveWithinQuota
  LiveIsLatest
PROPERTY
  LatestSettles
CHECK_DEADLOCK FALSE
