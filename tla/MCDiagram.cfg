CONSTANTS
  Scenarios <- AllScenarios
  Plans = {p1, p2}
  Confirmers = {u1, u2}
SPECIFICATION Spec
SYMMETRY Interchangeable
INVARIANTS
  CycleRuleExact
  MapperAgreesWithValidation
  SchemaWellFormed
  RelationshipsRealised
  ProfilesOfLiveElements
  GeneratedCodeResolves
  ManifestMatchesProject
  XmiRoundTrip
PROPERTIES
  PlansApplyAsPreviewed
  ImageShown
CHECK_DEADLOCK FALSE
