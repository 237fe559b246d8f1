SPECIFICATION IntakeSpec
CONSTANTS
  k1 = k1
  k2 = k2
  b1 = b1
  b2 = b2
  Offers <- Sent
  Events = {v1, v2}
  Keys = {k1, k2}
  Bodies = {b1, b2}
  Requests = {c1, c2}
  Endpoints = {e1, e2}
  Steady = {e1}
  Relays = {r1, r2}
  BatchSize = 2
  MaxCrashes = 1
INVARIANTS IntakeTypeOK AcceptedDurable OneEventPerKey RefusedOnlyDiffering FanOutOnce
PROPERTY AcceptedFannedOut
