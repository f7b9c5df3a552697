SPECIFICATION FairSpec
CONSTANTS
  k1 = k1
  k2 = k2
  k3 = k3
  c1 = c1
  c2 = c2
  None = None
  Conns <- TwoConns
  Classes <- OneClass
  TTL = 1
  Stale = 2
  MaxDelay = 0
  Capacity = 1
  Lossy = TRUE
PROPERTIES
  FreeNodeEventuallyShownFree
  CrashedOwnerLosesLocks
CHECK_DEADLOCK FALSE
