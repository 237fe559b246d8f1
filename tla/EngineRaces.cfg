SPECIFICATION Spec
CONSTANTS
  d1 = d1
  d2 = d2
  e1 = e1
  e2 = e2
  Deliveries = {d1}
  Endpoints = {e1}
  EndpointOf <- OneEndpoint
  Dispatchers = {w1}
  Reapers = {w2}
  Replayers = {r1}
  MaxAttempts = 2
  MaxStream = 3
  MaxCrashes = 0
  MaxTrips = 1
  MaxReplays = 1
  SchedulerCrashes = TRUE
  ReplayCrashes = TRUE
  IdleMeansDead = FALSE
  CommitFirst = FALSE
  PromptWrites = FALSE
INVARIANTS TypeOK DeliveredEarned DeadExhausted
CHECK_DEADLOCK FALSE
