SPECIFICATION Spec
CONSTANTS
  Attempts = {a1, a2, a3}
  Threshold = 2
  Cooldown = 2
  MaxTime = 6
  MaxFailures = 3
SYMMETRY AnyAttempt
INVARIANT ProbeAfterCooldown
CHECK_DEADLOCK FALSE
