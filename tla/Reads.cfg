SPECIFICATION DrillSpec
CONSTANTS
  d1 = d1
  d2 = d2
  d3 = d3
  x = x
  e1 = e1
  e2 = e2
  f = f
  Tenant = "own"
  Deliveries = {d1, d2, d3, x}
  Endpoints = {e1, e2, f}
  TenantOf <- MCTenantOf
  EndpointOf <- MCEndpointOf
  KeyOf <- MCKeyOf
  Resident = {d1, x, e1, f}
  Nothing = Nothing
  MaxAttempts = 2
  PageLimit = 1
  SampleSize = 2
  MaxWrites = 3
INVARIANTS TypeOK WalkComplete MetricsBracketed FeedFaithful DrillTells
CHECK_DEADLOCK FALSE
