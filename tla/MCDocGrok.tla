----------------------------- MODULE MCDocGrok -----------------------------
(* From the contract of a pipeline to its vectors: what the API accepts, the *)
(* pipeline worker and its chunking, the Python DocGrok service, its         *)
(* embedding services and its transform pipelines.  The parts share no       *)
(* state: a behaviour is one of one part, chosen in the initial state, while *)
(* the others keep one state.                                                *)
EXTENDS PipelineContract, PipelineWorker, Chunking, DocGrokService, EmbeddingService, TransformPipelines

CONSTANTS Parts, srcA, srcB, m1, k1, k2, c1, c2, r1, r2

VARIABLE part
vars == <<part, contractVars, workerVars, chunkingVars, docgrokVars, embeddingVars, transformVars>>

\* Contracts: one source and one destination of every type that is treated apart
S(type, place, key) == [type |-> type, place |-> place, key |-> key]
D(type, place, key, pk, dim) == [type |-> type, place |-> place, key |-> key, pk |-> pk, dim |-> dim]
MCSourceConfigs ==
    {S("cosmosdb", 1, 1), S("cosmosdb", 2, 1)}
    \cup {S(type, 1, 1) : type \in {"pgvector", "garnet", "mock", "onelake-iceberg", "sharepoint", "azure-blob"}}
MCDestinationConfigs ==
    {D("cosmosdb-vector", 1, 1, "dedicated", 0), D("cosmosdb-vector", 1, 1, "id", 1), D("pgvector", 1, 1, "none", 1),
     D("garnet", 1, 1, "none", 1), D("garnet", 1, 2, "none", 1), D("mock", 1, 1, "none", 1),
     D("onelake-iceberg", 1, 1, "none", 1), D("onelake-iceberg", 2, 1, "none", 1)}
MCPipelineRequests ==
    [sources : (SUBSET SourceIds) \ {{}}, mode : {"queue", "inline"}, strategy : {"truncate", "chunk"},
     field : BOOLEAN, identity : {"none", "sharepoint", "onelake"}, size : {100}, overlap : {0, 100},
     dim : {1, 2}, keep : {FALSE}]

\* Worker: every kind of document, transform and embedding mode
Q(endpoint, origin, name, transform, size, mode) ==
    [endpoint |-> endpoint, source |-> origin, name |-> name, hint |-> "none", transform |-> transform,
     stages |-> <<>>, size |-> size, length |-> 0, dim |-> 0, mode |-> mode, model |-> TRUE]
Inline(q, stages) == [q EXCEPT !.transform = "inline", !.stages = stages]
MCRequests ==
    {Q("process", "blob", n, "none", s, m) : n \in {"pdf", "docx", "text", "code", "image", "video"}, s \in {1, 3},
        m \in {"direct", "direct-with-router-fallback"}}
    \cup {Q("process", "inline_b64", "none", "none", 2, "router"), Q("process", "nothing", "none", "none", 2, "router"),
      Q("process", "blob", "pdf", "word", 2, "router"), Q("process", "blob", "pdf", "unknown", 2, "router"),
      Q("blob", "blob", "pdf", "none", 2, "router"), Q("blob", "blob", "pdf", "unknown", 2, "router"),
      [Q("process", "inline_text", "none", "none", 3, "direct") EXCEPT !.length = 2, !.dim = 2],
      [Q("process", "inline_text", "none", "pdf", 2, "direct") EXCEPT !.length = 2],
      [Q("process", "inline_text", "none", "none", 2, "direct") EXCEPT !.length = 2, !.model = FALSE],
      [Q("process", "blob", "docx", "word", 2, "router") EXCEPT !.hint = "text"],
      Inline(Q("process", "blob", "image", "none", 2, "router"), <<Stage("caption"), ChunkStage(1, 1), Stage("embed")>>),
      Inline(Q("process", "blob", "image", "none", 2, "router"), <<Stage("caption"), Stage("embed")>>),
      Inline(Q("process", "blob", "pdf", "none", 2, "router"), <<Stage("extract")>>),
      Inline(Q("process", "blob", "pdf", "none", 2, "router"), <<ExtractStage("pdf", "none"), Stage("embed")>>)}

\* Chunking: all texts of up to four letters, paragraphs and sentence ends
Tokens == {<<"letter">>, <<"feed", "feed">>, <<"stop", "space">>}
MCTexts == {FlattenSeq(w) : w \in UNION {[1..n -> Tokens] : n \in 0..4}} \cup {<<"letter", "stop", "feed", "letter", "letter">>}
MCChunkSettings ==
    [strategy : {"fixed", "recursive", "paragraph", "sentence"}, size : {3, 4}, overlap : {0, 2}, min : {0, 2}]

\* Embedding: calls of one and of several inputs, of one and of both kinds
T(i) == <<"text", i>>
U(i) == <<"url", i>>
MCTextCalls == {<<T(1)>>, <<T(2), T(3)>>}
MCImageCalls == {<<U(1), U(2)>>}
MCMixedCalls == {<<T(4), U(3), U(4)>>}

\* Transforms: steps out of order, steps that wait for each other, a step that cannot succeed
Step(id, type, needs) == [id |-> id, type |-> type, needs |-> needs]
MCTransformSteps ==
    {<<Step("c", "api", {"a", "b"}), Step("a", "local", {}), Step("b", "local", {"a"})>>,
     <<Step("a", "local", {"b"}), Step("b", "local", {"a"}), Step("c", "local", {})>>,
     <<Step("a", "external", {})>>}

-----------------------------------------------------------------------------

NoContract == source = <<>> /\ destination = "none" /\ pipeline = NoPipeline
NoChunking == text = <<>> /\ setting = "none" /\ start = 0 /\ current = <<>> /\ chunks = <<>> /\ cut = "idle"

MCInit ==
    /\ part \in Parts
    /\ IF part = "contract" THEN ContractInit ELSE NoContract
    /\ WorkerInit
    /\ IF part = "chunking" THEN ChunkingInit ELSE NoChunking
    /\ DocGrokInit /\ TransformInit /\ EmbeddingInit
    /\ part # "embedding" => service = "bge"

WorkerPart ==
    part = "worker" /\ UNCHANGED <<part, contractVars, chunkingVars, docgrokVars, embeddingVars, transformVars>>
EmbeddingPart ==
    part = "embedding" /\ UNCHANGED <<part, contractVars, workerVars, chunkingVars, docgrokVars, transformVars>>

MCNext ==
    \/ WorkerPart /\ WorkerNext
    \/ EmbeddingPart /\ EmbeddingNext
    \/ part = "contract" /\ ContractNext
       /\ UNCHANGED <<part, workerVars, chunkingVars, docgrokVars, embeddingVars, transformVars>>
    \/ part = "chunking" /\ ChunkingNext
       /\ UNCHANGED <<part, contractVars, workerVars, docgrokVars, embeddingVars, transformVars>>
    \/ part = "service" /\ DocGrokNext
       /\ UNCHANGED <<part, contractVars, workerVars, chunkingVars, embeddingVars, transformVars>>
    \/ part = "transform" /\ TransformNext
       /\ UNCHANGED <<part, contractVars, workerVars, chunkingVars, docgrokVars, embeddingVars>>

\* the fairness of the worker and of the embedding services, of which a behaviour
\* has one
MCSpec == MCInit /\ [][MCNext]_vars /\ WF_vars((WorkerPart /\ WorkerStep) \/ (EmbeddingPart /\ EmbeddingStep))
=============================================================================
