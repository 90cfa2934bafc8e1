SPECIFICATION MCSpec
CONSTANTS
  Refs = {"r1"}
  Texts = {"", "a", "b"}
  MaxEdits = 2
  MaxFaults = 1
  MaxEchoes = 5
  Documents <- MCDocuments
  MaxDocuments = 4
  Policies <- MCPolicies
  Reserved = 2
  Framing = 1
  DeployWorkers = {"w1", "w2"}
  MaxAttempts = 2
  MaxCrashes = 1
  Batches = {"b1", "b2"}
  Outcome <- MCOutcome
  ApiReplicas = {"r1", "r2"}
  AskedReplicas = {"r1"}
  MaxSeen = 1
  MaxUpsets = 1
  MaxPosts = 3
  Locations = {"l1", "l2"}
  Reporters = {"c1", "c2"}
  Entries <- MCEntries
  MaxRetries = 2
  MaxReports = 3
  MaxItems = 2
  HealthSources = {"s1"}
  Checkers = {"controller", "api"}
  MaxEvents = 1
  MaxChecks = 2
  Tokens <- MCTokens
  AcceptAdmin = TRUE
  GlobalLimit = 1
  Window = 1
  MaxClock = 2
  Requests <- MCRequests
  Corpus <- MCCorpus
  RrfK = 1
  RrfScale = 12
  One = 12
  MaxTerms = 16
  Runs = {"y1"}
  RunReplicas = {"r1"}
  RunPipelines = {"p1", "p2"}
  RunPolicies <- MCRunPolicies
  DocumentCount = 5
  MessageSize = 5
  Interval = 3
  MaxTrouble = 2
  Call = {c1, c2}
  NoCall = NoCall
  MaxRev = 3
  MaxChunks = 2
  BatchSize = 1
INVARIANTS RunsTruthful EnvelopesFaithful DeployedOnce HistoryExact ProgressKept HealthSound SearchFaithful RateKept FenceInv
PROPERTIES NeverOlder Converges ImplementsRegister WorkEnds
CHECK_DEADLOCK FALSE
