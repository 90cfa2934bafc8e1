SPECIFICATION ControlSpec
CONSTANTS
  s1 = s1
  d1 = d1
  p1 = p1
  p2 = p2
  j1 = j1
  j2 = j2
  o1 = o1
  r1 = r1
  pl1 = pl1
  pl2 = pl2
  c1 = c1
  c2 = c2
  s2 = s2
  d2 = d2
  Sources = {s1, s2}
  Destinations = {d1, d2}
  Pipelines = {p1, p2}
  Jobs = {j1, j2}
  Syncs = {o1}
  Places = {pl1, pl2}
  Refs = {r1}
  InitialStores <- MCInitialStores
  Bundle <- MCBundle
  NewIds <- MCNewIds
  Calls = {c1, c2}
  MaxRequests = 2
  MaxResets = 2
  MAX_RETRY_COUNT = 1
  MAX_MANUAL_RETRIES = 1
INVARIANT ControlInv
PROPERTIES NothingOverwritten StuckRecovered
CHECK_DEADLOCK FALSE
