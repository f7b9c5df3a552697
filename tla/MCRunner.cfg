SPECIFICATION FairSpec
CONSTANTS
  d1 = d1
  http = http
  http2 = http2
  Reaper = Reaper
  Nobody = Nobody
  Deployments <- OneDeployment
  Callers <- TwoCallers
  MaxWorkers = 1
  MaxRestarts = 1
  SlowRemoval = FALSE
  LongQueue = FALSE
INVARIANTS
  GoneLeavesNothing
  StoppedLeavesNothing
  ProvisionedIsKnown
PROPERTY
  LifetimeEnds
  ImplementsRunnerView
CHECK_DEADLOCK FALSE
