SPECIFICATION FairSpec
CONSTANTS
  r1 = r1
  r2 = r2
  r3 = r3
  c1 = c1
  NoDocument = NoDocument
  NoRequest = NoRequest
  NoOperation = NoOperation
  AnyRevision = AnyRevision
  Requests <- MCRequests
  Classes <- MCClasses
  Operations <- MCOperations
INVARIANTS
  NoLostUpdate
  OneDocumentPerRevision
  OneBroadcastPerCommit
  StalePreviewRefused
PROPERTIES
  PositionsOfLiveClassesOnly
  ImplementsAtomicDocument
  EveryRequestEnds
CHECK_DEADLOCK FALSE
