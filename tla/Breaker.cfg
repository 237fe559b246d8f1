SPECIFICATION Spec
CONSTANTS
  Attempts = {a1, a2, a3}
  Threshold = 2
  Cooldown = 1
  MaxTime = 2
  MaxFailures = 2
SYMMETRY AnyAttempt
INVARIANTS TypeOK HalfOpenNeverCommitted TripEarned ProbeHoldsRow
CHECK_DEADLOCK FALSE
