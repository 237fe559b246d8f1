SPECIFICATION FairSpec
CONSTANTS
  d1 = d1
  d2 = d2
  e1 = e1
  e2 = e2
  Deliveries = {d1}
  Endpoints = {e1}
  EndpointOf <- OneEndpoint
  Dispatchers = {w1}
  Reapers = {w2}
  Replayers = {r1}
  MaxAttempts = 2
  MaxStream = 12
  MaxCrashes = 1
  MaxTrips = 2
  MaxReplays = 1
  SchedulerCrashes = FALSE
  ReplayCrashes = FALSE
  IdleMeansDead = TRUE
  CommitFirst = TRUE
  PromptWrites = TRUE
INVARIANT LiveChain
PROPERTIES KeepsPromise EventuallySettled StreamDrains
CHECK_DEADLOCK FALSE
