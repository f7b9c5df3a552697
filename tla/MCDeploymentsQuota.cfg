SPECIFICATION Spec
CONSTANTS
  A = A
  B = B
  editor = editor
  watcher = watcher
  NoDocument = NoDocument
  Documents <- TwoDocuments
  Editors <- OneEditor
  Watchers <- OneWatcher
  Active <- ThreeActive
  InProgress <- QueuedOrBuilding
  Reported <- RunningOrStopped
  MaxDeployments = 2
  MaxActive = 1
INVARIANT
  QuotaCannotBeRaced
CHECK_DEADLOCK FALSE
