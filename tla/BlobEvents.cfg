SPECIFICATION LoadedSpec
CONSTANTS
  Blobs = {"x", "y"}
  MaxEvents = 3
  MaxDelivery = 3
  RecentCap = 2
  MaxFailures = 1
  MaxRestarts = 0
INVARIANT PublishedWhenCompleted
CHECK_DEADLOCK FALSE
