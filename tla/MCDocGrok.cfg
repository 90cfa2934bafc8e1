SPECIFICATION MCSpec
CONSTANTS
  Parts = {"contract", "worker", "chunking", "service", "embedding", "transform"}
  srcA = srcA
  srcB = srcB
  SourceIds = {srcA, srcB}
  SourceConfigs <- MCSourceConfigs
  DestinationConfigs <- MCDestinationConfigs
  PipelineRequests <- MCPipelineRequests
  Requests <- MCRequests
  MaxRequests = 2
  MaxLength = 3
  MaxFrames = 3
  DefaultSize = 3
  ParagraphSize = 1
  ParagraphOverlap = 0
  DefaultOverlap = 1
  MinChars = 2
  Dim = 1
  BatchSize = 2
  Concurrency = 2
  MaxRetries = 1
  DirectRoute = TRUE
  Texts <- MCTexts
  ChunkSettings <- MCChunkSettings
  m1 = m1
  k1 = k1
  k2 = k2
  c1 = c1
  c2 = c2
  r1 = r1
  r2 = r2
  ExternalModels = {m1}
  ModelKeys = {k1, k2}
  Replicas = {r1, r2}
  MaxKeks = 2
  MaxWrites = 2
  EmbedCallers = {c1, c2}
  TextCalls <- MCTextCalls
  ImageCalls <- MCImageCalls
  MixedCalls <- MCMixedCalls
  DynBatchMax = 3
  MaxCalls = 3
  TransformSteps <- MCTransformSteps
INVARIANTS ContractKept ChunksFaithful NothingLost KeysReadable OwnVectors StepsInOrder
PROPERTIES EveryRequestEnds EveryCallAnswered
CHECK_DEADLOCK FALSE
