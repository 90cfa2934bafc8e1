SPECIFICATION MCSpec
CONSTANTS
  NoPod = NoPod
  Pod = {a, b}
  TTL = 2
  MaxCall = 2
  Patience = 2
  MaxFaults = 2
  Releases = {TRUE, FALSE}
  Keys = {1, 2}
  PageLimit = 1
  MaxChanges = 3
  MaxTroubles = 1
  Watchers = {a, b}
  Records = {r1, r2}
  MaxEdits = 2
  MaxStops = 1
INVARIANT NothingSkipped
PROPERTIES ImplementsLease LeaseTakenOver EverythingPassedOn
CHECK_DEADLOCK FALSE
