SPECIFICATION MCSpec
CONSTANTS
  Parts = {"registry"}
  Doc = {d1, d2}
  MaxDelivery = 2
  CallId = {c1, c2}
  Task = {t1, t2}
  MaxChains = 2
  MaxCards = 3
  TTL = 2
  MaxDelay = 2
  MaxActions = 2
  m1 = m1
  Models = {m1}
  Pipelines = {p1}
  ModelOf <- MCModelOf
  Keys = {k1}
  Limits = {l1}
  FirstKey = k2
  DefaultLimits = l2
  Callers = {r1, r2}
  MaxModelOps = 3
PROPERTY ConcurrentKeyPreserved
