-------------------------- MODULE PipelineContract --------------------------
(* Which pipelines the API accepts (src/api/api.py): the validators that     *)
(* create, update, set-mode, resume, run and reset apply to a request or to  *)
(* the stored pipeline.  Every handler applies its own selection of them; a  *)
(* pipeline that one handler refuses must not be reachable through another.  *)
(* Stores, keys and tables are compared for identity only.                   *)
EXTENDS Naturals, FiniteSets

CONSTANTS
    SourceIds,
    SourceConfigs,      \* [type, place, key]: a store and a key or table in it
    DestinationConfigs, \* [type, place, key, pk, dim]
    PipelineRequests    \* [sources, mode, strategy, field, identity, size, overlap, dim, keep]

ASSUME ContractAssumption ==
    /\ IsFiniteSet(SourceIds)
    /\ \A r \in PipelineRequests :
           /\ DOMAIN r = {"sources", "mode", "strategy", "field", "identity", "size", "overlap", "dim", "keep"}
           /\ r.sources \subseteq SourceIds

VARIABLES
    source,         \* the registered sources
    destination,    \* the destination of the pipeline
    pipeline        \* the stored pipeline, or NoPipeline

contractVars == <<source, destination, pipeline>>

NoPipeline == [status |-> "none"]
Types(r) == {source[s].type : s \in r.sources}

-----------------------------------------------------------------------------
(* The validators.                                                           *)

\* _is_inline_compatible: for no source at all it is true
IsInlineCompatible(r) ==
    \A s \in r.sources :
        /\ <<destination.type, source[s].type>> \in {<<"cosmosdb-vector", "cosmosdb">>, <<"pgvector", "pgvector">>}
        /\ source[s].place = destination.place

\* _require_garnet_inline_pair
GarnetPair(r) ==
    /\ Cardinality(r.sources) = 1
    /\ destination.type = "garnet"
    /\ \A s \in r.sources :
           source[s].key # destination.key /\ source[s].place = destination.place

\* _require_inline_compatible
InlineCompatible(r) ==
    \/ destination.type = "mock" /\ Cardinality(r.sources) = 1 /\ Types(r) = {"mock"}
    \/ IF "garnet" \in Types(r) THEN GarnetPair(r) ELSE IsInlineCompatible(r)

\* the mock half of _require_garnet_pipeline_contract
MockContract(r) ==
    /\ Types(r) = {"mock"}
    /\ Cardinality(r.sources) = 1
    /\ destination.type = "mock"
    /\ r.mode = "inline"
    /\ r.strategy = "truncate"
    /\ r.dim = destination.dim

\* _require_garnet_pipeline_contract
GarnetContract(r) ==
    IF "mock" \in Types(r) \/ destination.type = "mock"
    THEN MockContract(r)
    ELSE "garnet" \in Types(r) =>
             /\ r.mode = "inline"
             /\ r.strategy = "truncate"
             /\ GarnetPair(r)
             /\ r.field

\* _require_onelake_iceberg_pipeline
OneLakeContract(r) ==
    destination.type = "onelake-iceberg" =>
        /\ r.mode = "queue"
        /\ r.strategy = "truncate"
        /\ \A s \in r.sources :
               /\ source[s].type = "onelake-iceberg"
               /\ source[s].place = destination.place
               /\ source[s].key = destination.key

\* _require_pipeline_source_identities
IdentityContract(r) ==
    \A s \in r.sources :
        /\ r.identity = "sharepoint" => source[s].type = "sharepoint"
        /\ r.identity = "onelake" => source[s].type = "onelake-iceberg"

\* _require_sharepoint_compatible
SharePointContract(r) ==
    /\ r.identity = "sharepoint" => \A s \in r.sources : source[s].type = "sharepoint"
    /\ "sharepoint" \in Types(r) =>
           /\ r.mode = "queue"
           /\ destination.type = "cosmosdb-vector"
           /\ destination.pk = "dedicated"

\* _validate_cosmos_chunking; ID pattern and field names are not represented
ChunkingContract(r) ==
    "cosmosdb" \in Types(r) /\ r.strategy = "chunk" =>
        /\ r.mode = "queue"
        /\ destination.type = "cosmosdb-vector"
        /\ Types(r) = {"cosmosdb"}
        /\ r.field
        /\ r.size >= 100 /\ r.overlap >= 0 /\ r.overlap < r.size
        /\ destination.pk \in {"dedicated", "id"}

\* the sizes that create_pipeline checks for every chunking pipeline
ChunkSizes(r) == r.strategy = "chunk" => r.size >= 100 /\ r.overlap < r.size

\* inline if and only if source and destination are one store
ModeContract(r) ==
    IF r.mode = "inline" THEN InlineCompatible(r) ELSE ~IsInlineCompatible(r)

\* _enforce_pipeline_dim_match: an unknown dimension, 0, matches
DimensionMatch(r) == r.dim = 0 \/ destination.dim = 0 \/ r.dim = destination.dim

\* store_content is refused where the document keeps its content anyway
ContentKept(r) == ~(r.keep /\ IsInlineCompatible(r))

-----------------------------------------------------------------------------
(* The handlers.                                                             *)

ContractInit ==
    /\ source \in [SourceIds -> SourceConfigs]
    /\ destination \in DestinationConfigs
    /\ pipeline = NoPipeline

Create(r) ==
    /\ pipeline = NoPipeline
    /\ GarnetContract(r) /\ OneLakeContract(r) /\ IdentityContract(r) /\ SharePointContract(r)
    /\ ChunkingContract(r) /\ ModeContract(r) /\ DimensionMatch(r) /\ ChunkSizes(r) /\ ContentKept(r)
    /\ pipeline' = [status |-> "paused", request |-> r]
    /\ UNCHANGED <<source, destination>>

\* a bug: the sources that were checked are not the ones that are kept
AnySources(old, r) == "cosmosdb" \in Types(r) => r.strategy = old.strategy

\* Sources and, where a source is Cosmos DB, the strategy are immutable; both
\* are compared with the request's list of sources, which may be empty.
Immutable(old, r) ==
    /\ r.sources # {} => r.sources = old.sources
    /\ "cosmosdb" \in Types(r) => r.strategy = old.strategy

Update(r) ==
    /\ pipeline # NoPipeline
    /\ GarnetContract(r) /\ ChunkingContract(r) /\ ModeContract(r)
    /\ OneLakeContract(r) /\ SharePointContract(r)
    /\ DimensionMatch(r)
    /\ Immutable(pipeline.request, r)
    /\ LET merged == [r EXCEPT !.sources = pipeline.request.sources,
                               !.field = pipeline.request.field,
                               !.identity = pipeline.request.identity]
       IN  ContentKept(merged) /\ pipeline' = [pipeline EXCEPT !.request = merged]
    /\ UNCHANGED <<source, destination>>

SetMode(mode) ==
    /\ pipeline # NoPipeline
    /\ LET r == [pipeline.request EXCEPT !.mode = mode] IN
       /\ GarnetContract(r) /\ ChunkingContract(r) /\ ModeContract(r)
       /\ pipeline' = [pipeline EXCEPT !.request = r]
    /\ UNCHANGED <<source, destination>>

\* resume and run
Activate ==
    /\ pipeline # NoPipeline
    /\ ChunkingContract(pipeline.request) /\ GarnetContract(pipeline.request)
    /\ pipeline' = [pipeline EXCEPT !.status = "active"]
    /\ UNCHANGED <<source, destination>>

Pause ==
    /\ pipeline # NoPipeline
    /\ pipeline' = [pipeline EXCEPT !.status = "paused"]
    /\ UNCHANGED <<source, destination>>

ContractNext ==
    \/ \E r \in PipelineRequests : Create(r) \/ Update(r)
    \/ \E mode \in {"queue", "inline"} : SetMode(mode)
    \/ Activate
    \/ Pause

ContractSpec == ContractInit /\ [][ContractNext]_contractVars

-----------------------------------------------------------------------------
(* What the data path can run, by type of source and destination.            *)

Runs(r) ==
    LET kinds == Types(r) IN
    /\ r.mode = "inline" =>
           \/ Cardinality(r.sources) = 1 /\ <<kinds, destination.type>> \in
                  {<<{"mock"}, "mock">>, <<{"garnet"}, "garnet">>}
           \/ /\ <<kinds, destination.type>> \in
                     {<<{"cosmosdb"}, "cosmosdb-vector">>, <<{"pgvector"}, "pgvector">>}
              /\ \A s \in r.sources : source[s].place = destination.place
    /\ {"mock", "garnet"} \cap kinds # {} => r.mode = "inline" /\ r.strategy = "truncate"
    /\ "sharepoint" \in kinds => r.mode = "queue" /\ destination.pk = "dedicated"
    /\ destination.type = "onelake-iceberg" => kinds = {"onelake-iceberg"} /\ r.strategy = "truncate"
    /\ "cosmosdb" \in kinds /\ r.strategy = "chunk" => r.mode = "queue" /\ r.overlap < r.size

\* No order of create, update, set-mode and activate leaves a pipeline that the
\* watchers and workers cannot run or that resume refuses for ever: every handler
\* checks a part of the contract, and the part it leaves out must not be reachable
\* through it.
ContractKept ==
    pipeline # NoPipeline =>
        /\ Runs(pipeline.request)
        /\ ChunkingContract(pipeline.request) /\ GarnetContract(pipeline.request)
=============================================================================
