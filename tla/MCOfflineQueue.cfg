SPECIFICATION MCSpec
CONSTANTS
  button = button
  s1 = s1
  s2 = s2
  Button <- button
  Syncs <- TwoSyncs
  MaxPresses = 2
  Deletes <- First
  MaxPages = 2
  MaxKills = 1
INVARIANTS
  QueuedIsKept
  TwiceOnlyInDoubt
PROPERTIES
  QueuedEntryLeaves
CHECK_DEADLOCK FALSE
