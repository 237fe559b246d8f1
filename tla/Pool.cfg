SPECIFICATION Spec
CONSTANTS
  slow = slow
  other = other
  Endpoints = {slow, other}
  EndpointOf <- Stream
  Concurrency = 3
  PerEndpointConcurrency = 2
INVARIANTS TypeOK PermitsConserved StopsDrained
PROPERTIES EveryMessageHandled ShutdownEnds
CHECK_DEADLOCK FALSE
