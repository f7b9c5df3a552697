SPECIFICATION Spec
CONSTANTS
  k1 = k1
  k2 = k2
  k3 = k3
  c1 = c1
  c2 = c2
  None = None
  Conns <- TwoConns
  Classes <- OneClass
  TTL = 2
  Stale = 3
  MaxDelay = 1
  Capacity = 3
  Lossy = FALSE
SYMMETRY Symmetry2
INVARIANTS
  OwnedIsHeld
  FramesFollowOwnership
  QuietNeverWrongOwner
PROPERTIES
  NoFlicker
CHECK_DEADLOCK FALSE
