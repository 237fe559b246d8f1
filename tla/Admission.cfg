SPECIFICATION Spec
CONSTANTS
  Rate = 2
  Cost = 3
  Burst = 2
  Requests = {q1, q2}
  Keys = {k1, k2, k3}
  MaxEvents = 2
  MaxEndpoints = 1
  PromptScript = TRUE
  MaxTime = 6
SYMMETRY AnyRequest
INVARIANTS TypeOK RateKept RetryAfterEnough
