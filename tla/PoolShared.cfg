SPECIFICATION Spec
CONSTANTS
  slow = slow
  other = other
  Endpoints = {slow, other}
  EndpointOf <- Stream
  Concurrency = 3
  PerEndpointConcurrency = 2
INVARIANT PoolShared
CHECK_DEADLOCK FALSE
