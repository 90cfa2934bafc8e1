SPECIFICATION ScannedSpec
CONSTANTS
  Refs = {"r1", "r2"}
  Texts = {"", "a"}
  MaxEdits = 2
  MaxFaults = 0
  MaxEchoes = 5
INVARIANT EmptiedCleared
CHECK_DEADLOCK FALSE
