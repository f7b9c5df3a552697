SPECIFICATION Spec
CONSTANTS
  u1 = u1
  u2 = u2
  r1 = r1
  r2 = r2
  r3 = r3
  NoRequest = NoRequest
  NoMember = NoMember
  Users <- TwoUsers
  FirstOwners <- TwoUsers
  Requests <- ThreeRequests
INVARIANTS
  OwnerlessOnlyByOverlap
PROPERTIES
  OwnerEndsCounted
CHECK_DEADLOCK FALSE
