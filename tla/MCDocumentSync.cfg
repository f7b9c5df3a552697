SPECIFICATION MCSpec
CONSTANTS
  t1 = t1
  r1 = r1
  r2 = r2
  c1 = c1
  NoDocument = NoDocument
  NoRequest = NoRequest
  NoOperation = NoOperation
  AnyRevision = AnyRevision
  Clients <- OneClient
  Requests <- TwoRequests
  Classes <- OneClass
  Operations <- EveryOperation
  MaxDrops = 1
  FailingGets <- AllButOpen
INVARIANTS
  NoMissedBroadcast
PROPERTIES
  ReadYourWrites
  EveryBroadcastArrives
  EverySubmitSettles
CHECK_DEADLOCK FALSE
