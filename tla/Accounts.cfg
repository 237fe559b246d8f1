SPECIFICATION Spec
CONSTANTS
  Rate = 1
  Cost = 2
  Burst = 1
  Sandboxes = {s1, s2}
  Scripts = {script}
  Operators = {o1, o2}
  Prefixes = {x, y}
  MaxKeys = 3
  Ttl = 1
  MaxTime = 3
SYMMETRY Anybody
INVARIANTS TypeOK ProvisionedUsable RotatedWhole AuthSound SandboxesLimited
CHECK_DEADLOCK FALSE
