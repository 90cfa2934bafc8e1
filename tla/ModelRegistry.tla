---------------------------- MODULE ModelRegistry ---------------------------
(* External models: the handlers of src/api/api.py, the controller's         *)
(* synchronisation at its start (src/api/controller.py) and the router of    *)
(* DocGrok, which writes the same documents of the metadata container.       *)
(* Pipelines keep a snapshot of the limits of their model.                   *)
(*                                                                           *)
(* The request limits of a model are one value, which an edit states or      *)
(* repeats from what it read.  A pipeline names the limits it took by the    *)
(* revision of the model; revisions are numbered through, so that older and  *)
(* newer ones can be told apart.  The keys of chat models are in Key Vault   *)
(* where it can be reached, else in the document; those of the other models  *)
(* are in the document.  Several requests, of several replicas, are under    *)
(* way at the same time; a request proceeds from one read or write of the    *)
(* container, or of Key Vault, to the next.                                  *)
EXTENDS Naturals, FiniteSets

CONSTANTS
    Models,
    Pipelines,
    ModelOf,        \* [Pipelines -> Models]: docgrok_pipeline
    Keys, Limits,   \* what a request can carry: keys, request limits
    FirstKey, DefaultLimits,    \* what the models have before
    Callers,        \* requests that may be under way at once
    MaxModelOps     \* bound: requests that are accepted

ASSUME RegistryAssumption == ModelOf \in [Pipelines -> Models]

VARIABLES
    model,      \* the documents of the models
    vault,      \* the secrets of chat models in Key Vault
    snapshot,   \* the documents of the pipelines: their revision and that of the
                \* model whose limits they have
    request,    \* what every caller is doing
    version,    \* revisions of models so far
    modelOps    \* requests so far

modelVars == <<model, vault, snapshot, request, version, modelOps>>

Absent == [category |-> "absent"]
NoPipelineDoc == [rev |-> 0, used |-> FALSE]
DeletedPipeline == [rev |-> 0, used |-> TRUE]   \* IDs are not used twice
Waiting == [op |-> "none"]
NoKey == "none"
NoLimits == "none"

ModelDoc(category, key, limits) == [category |-> category, key |-> key, limits |-> limits, rev |-> version + 1]
ModelExists(m) == model[m] # Absent
PipelineExists(p) == snapshot[p].rev > 0
With(r, more) == [x \in DOMAIN r \cup DOMAIN more |-> IF x \in DOMAIN more THEN more[x] ELSE r[x]]
Following(c, r) == request' = [request EXCEPT ![c] = r]
Respond(c) == Following(c, Waiting)

Accept(c) ==
    /\ request[c] = Waiting
    /\ modelOps < MaxModelOps
    /\ modelOps' = modelOps + 1

\* a document that was read is still the stored one, by its ETag
SameModel(m, read) == ModelExists(m) /\ model[m].rev = read.rev
SamePipeline(p, rev) == PipelineExists(p) /\ snapshot[p].rev = rev

WriteModel(m, doc) == model' = [model EXCEPT ![m] = doc] /\ version' = version + 1

\* the write of a request whose document did not exist creates it
Current(r) == IF r.read = Absent THEN ~ModelExists(r.model) ELSE SameModel(r.model, r.read)

\* "Empty/omitted keys are non-credential edits": the stored key is kept
KeyOf(r) == IF r.key # NoKey \/ r.read = Absent THEN r.key ELSE r.read.key

\* _validated_model_request_limits: what the request states, else what it read
LimitsOf(limits, read) ==
    IF limits # NoLimits THEN limits ELSE IF read = Absent THEN DefaultLimits ELSE read.limits

-----------------------------------------------------------------------------
(* Create and update.                                                        *)

\* What the API sends to DocGrok: no key unless the request has one, and always
\* limits, of the document it read unless the request states them.
Payload(op, m, key, limits, read) ==
    [op |-> op, at |-> "lookup", model |-> m, key |-> key, own |-> 0,
     limits |-> LimitsOf(limits, read), stated |-> limits # NoLimits,
     began |-> IF read = Absent THEN 0 ELSE read.rev]

\* create_model of an embedding model; the ID of the name's document is kept
CreateModel(c, m, key, limits) ==
    /\ Accept(c)
    /\ Following(c, Payload("create", m, key, limits, model[m]))
    /\ UNCHANGED <<model, vault, snapshot, version>>

UpdateModel(c, m, key, limits) ==
    /\ Accept(c)
    /\ ModelExists(m) /\ model[m].category # "chat"
    /\ Following(c, Payload("update", m, key, limits, model[m]))
    /\ UNCHANGED <<model, vault, snapshot, version>>

\* the ID of a new chat model is one that nothing has named before
Named(m) == vault[m] # NoKey \/ \E d \in Callers : request[d].op \notin {"none", "startup"} /\ request[d].model = m

\* Chat models are not registered: create_model and update_model read the
\* document, store the key, and replace the document by its ETag.
WriteChatModel(c, m, key, limits) ==
    /\ Accept(c)
    /\ ModelExists(m) \/ ~Named(m)
    /\ Following(c, [op |-> "chat", at |-> IF key # NoKey THEN "secret" ELSE "write", model |-> m, key |-> key,
                     doc |-> IF ModelExists(m) THEN model[m].key ELSE NoKey, read |-> model[m],
                     limits |-> LimitsOf(limits, model[m]), stated |-> limits # NoLimits])
    /\ UNCHANGED <<model, vault, snapshot, version>>

\* set_model_api_key: the secret in Key Vault, or, where that fails, the document
\* that is written next, has the key
SetSecret(c) ==
    LET r == request[c] IN
    /\ r.op = "chat" /\ r.at = "secret"
    /\ \/ /\ vault' = [vault EXCEPT ![r.model] = r.key]
          /\ Following(c, [r EXCEPT !.at = "write", !.doc = NoKey])
       \/ /\ Following(c, [r EXCEPT !.at = "write", !.doc = r.key])
          /\ UNCHANGED vault
    /\ UNCHANGED <<model, snapshot, version, modelOps>>

\* "Model changed during the operation; reload and retry": a refused edit has
\* stored its secret before
ChatWritten(c) ==
    LET r == request[c] IN
    /\ r.op = "chat" /\ r.at = "write"
    /\ IF Current(r)
       THEN WriteModel(r.model, ModelDoc("chat", r.doc, r.limits))
       ELSE UNCHANGED <<model, version>>
    /\ Respond(c)
    /\ UNCHANGED <<vault, snapshot, modelOps>>

-----------------------------------------------------------------------------
(* The router: register_model.                                               *)

Routing(c, place) == request[c].op \in {"create", "update", "sync"} /\ request[c].at = place

Lookup(c) ==
    /\ Routing(c, "lookup")
    /\ Following(c, With(request[c], [at |-> "write", read |-> model[request[c].model]]))
    /\ UNCHANGED <<model, vault, snapshot, version, modelOps>>

\* A conditional create or replace of what was looked up with the fields of the
\* payload, its limits too; a conflict is an error of the request.
Register(c) ==
    LET r == request[c] IN
    /\ Routing(c, "write")
    /\ IF Current(r)
       THEN /\ WriteModel(r.model, ModelDoc(IF r.read = Absent THEN "unknown" ELSE r.read.category, KeyOf(r), r.limits))
            /\ Following(c, [r EXCEPT !.at = IF r.op = "create" THEN "reread" ELSE "list", !.own = version + 1])
       ELSE Respond(c) /\ UNCHANGED <<model, version>>
    /\ UNCHANGED <<vault, snapshot, modelOps>>

-----------------------------------------------------------------------------
(* After the registration: category, snapshots.                              *)

\* DocGrok does not know the category, which create_model adds to what it reads
Reread(c) ==
    LET r == request[c] IN
    /\ Routing(c, "reread")
    /\ IF ~ModelExists(r.model) THEN Respond(c)
       ELSE Following(c, [r EXCEPT !.at = IF model[r.model].category = "embedding" THEN "list" ELSE "patch",
                                   !.read = model[r.model]])
    /\ UNCHANGED <<model, vault, snapshot, version, modelOps>>

\* _replace_model_metadata
Replaceable(m, read) == SameModel(m, read)

PatchCategory(c) ==
    LET r == request[c] IN
    /\ Routing(c, "patch")
    /\ IF Replaceable(r.model, r.read)
       THEN /\ WriteModel(r.model, ModelDoc("embedding", r.read.key, r.read.limits))
            /\ Following(c, [r EXCEPT !.at = "list"])
       ELSE Respond(c) /\ UNCHANGED <<model, version>>
    /\ UNCHANGED <<vault, snapshot, modelOps>>

Refresh(op, m, own, tries, todo) == [op |-> op, at |-> "pipeline", model |-> m, own |-> own, tries |-> tries, todo |-> todo]

\* _refresh_pipeline_limit_snapshots: the pipelines of the model, one after the other
ListPipelines(c) ==
    LET r == request[c] IN
    /\ Routing(c, "list")
    /\ IF r.op = "sync" THEN Respond(c)
       ELSE Following(c, Refresh("refresh", r.model, r.own, 0, {p \in Pipelines : PipelineExists(p) /\ ModelOf[p] = r.model}))
    /\ UNCHANGED <<model, vault, snapshot, version, modelOps>>

\* _pipeline_with_current_model_limits reconciles in the same way, once, and
\* writes where the limits differ; so does update_pipeline, which reads the
\* pipeline, then the model through the router, and writes by the ETag it read.
ReadPipeline(c, p) ==
    /\ Accept(c)
    /\ PipelineExists(p)
    /\ Following(c, Refresh("read", ModelOf[p], 0, 1, {p}))
    /\ UNCHANGED <<model, vault, snapshot, version>>

Refreshing(c, place) == request[c].op \in {"refresh", "read"} /\ request[c].at = place

\* a bug: the model is read before the pipeline
ModelFirst(c) ==
    LET r == request[c] IN
    /\ \/ /\ Refreshing(c, "pipeline") /\ r.todo # {}
          /\ IF ModelExists(r.model)
             THEN Following(c, With(r, [at |-> "model", of |-> model[r.model].rev, gone |-> FALSE]))
             ELSE Respond(c)
       \/ /\ Refreshing(c, "model")
          /\ \E p \in r.todo :
                 Following(c, With(r, [at |-> "write", pipeline |-> p, rev |-> snapshot[p].rev]))
    /\ UNCHANGED <<model, vault, snapshot, version, modelOps>>

\* The pipeline is read first, and then the model, whose limits are at least as
\* new as the snapshot that is compared with its ETag.  Where the model is gone a
\* refresh goes on with the limits its own request registered.
RefreshRead(c) ==
    LET r == request[c] IN
    /\ \/ /\ Refreshing(c, "pipeline")
          /\ \E p \in r.todo :
                 IF PipelineExists(p)
                 THEN Following(c, With(r, [at |-> "model", pipeline |-> p, rev |-> snapshot[p].rev]))
                 ELSE Following(c, [r EXCEPT !.todo = @ \ {p}])
       \/ /\ Refreshing(c, "model")
          /\ \/ ModelExists(r.model) /\ Following(c, With(r, [at |-> "write", of |-> model[r.model].rev, gone |-> FALSE]))
             \/ ~ModelExists(r.model) /\ r.op = "refresh" /\ Following(c, With(r, [at |-> "write", of |-> r.own, gone |-> TRUE]))
             \/ ~ModelExists(r.model) /\ r.op = "read" /\ Respond(c)
    /\ UNCHANGED <<model, vault, snapshot, version, modelOps>>

\* a second conflict leaves the snapshot to the next read
RefreshWrite(c) ==
    LET r == request[c]
        p == r.pipeline
    IN  /\ Refreshing(c, "write")
        /\ IF SamePipeline(p, r.rev)
           THEN /\ snapshot' = [snapshot EXCEPT ![p] = [rev |-> @.rev + 1, of |-> r.of]]
                /\ Following(c, Refresh(r.op, r.model, r.own, 0, r.todo \ {p}))
           ELSE /\ Following(c, IF r.tries = 0 THEN Refresh(r.op, r.model, r.own, 1, r.todo)
                                ELSE Refresh(r.op, r.model, r.own, 0, r.todo \ {p}))
                /\ UNCHANGED snapshot
        /\ UNCHANGED <<model, vault, version, modelOps>>

LimitsEqual(c) ==
    /\ Refreshing(c, "write") /\ request[c].op = "read"
    /\ Respond(c)
    /\ UNCHANGED <<model, vault, snapshot, version, modelOps>>

RefreshEnds(c) ==
    /\ Refreshing(c, "pipeline") /\ request[c].todo = {}
    /\ Respond(c)
    /\ UNCHANGED <<model, vault, snapshot, version, modelOps>>

-----------------------------------------------------------------------------
(* Delete, synchronisation, pipelines.                                       *)

\* delete_model looks for users, then asks DocGrok, which deletes unconditionally,
\* deletes the document once more itself, and the secret if it can; of a chat
\* model it deletes the document
DeleteModel(c, m) ==
    /\ Accept(c)
    /\ \A p \in Pipelines : ModelOf[p] = m => ~PipelineExists(p)
    /\ Following(c, [op |-> "delete", at |-> IF model[m].category = "chat" THEN "once" ELSE "delete", model |-> m])
    /\ UNCHANGED <<model, vault, snapshot, version>>

Deleted(c) ==
    LET r == request[c] IN
    /\ r.op = "delete" /\ r.at # "secret"
    /\ model' = [model EXCEPT ![r.model] = Absent]
    /\ \/ r.at = "once" /\ Respond(c)
       \/ r.at = "delete" /\ Following(c, [r EXCEPT !.at = "again"])
       \/ r.at = "again" /\ Following(c, [r EXCEPT !.at = "secret"])
    /\ UNCHANGED <<vault, snapshot, version, modelOps>>

SecretDeleted(c) ==
    /\ request[c].op = "delete" /\ request[c].at = "secret"
    /\ vault' = [vault EXCEPT ![request[c].model] = NoKey]
    /\ Respond(c)
    /\ UNCHANGED <<model, snapshot, version, modelOps>>

\* sync_docgrok_from_store: the documents, then the registry, which the router
\* loads from the same container; what is only in one of the two is deleted or
\* registered again
SyncModels(c) ==
    /\ Accept(c)
    /\ Following(c, [op |-> "startup", at |-> "registry", stored |-> model])
    /\ UNCHANGED <<model, vault, snapshot, version>>

SyncRegistry(c) ==
    LET r == request[c] IN
    /\ r.op = "startup"
    /\ \/ \E m \in Models :
              /\ r.stored[m] = Absent /\ ModelExists(m)
              /\ Following(c, [op |-> "delete", at |-> "once", model |-> m])
       \/ \E m \in Models :
              /\ r.stored[m] # Absent /\ ~ModelExists(m)
              /\ Following(c, Payload("sync", m, r.stored[m].key, NoLimits, r.stored[m]))
       \/ (\A m \in Models : (r.stored[m] = Absent) = ~ModelExists(m)) /\ Respond(c)
    /\ UNCHANGED <<model, vault, snapshot, version, modelOps>>

\* A pipeline starts with the limits that the router read, which may be old when
\* it is stored; a lifecycle action gives it a new ETag.
PipelineCreated(p, rev) ==
    /\ snapshot[p] = NoPipelineDoc /\ ModelExists(ModelOf[p])
    /\ rev <= model[ModelOf[p]].rev
    /\ modelOps < MaxModelOps /\ modelOps' = modelOps + 1
    /\ snapshot' = [snapshot EXCEPT ![p] = [rev |-> 1, of |-> rev]]
    /\ UNCHANGED <<model, vault, request, version>>

PipelineEdited(p) ==
    /\ PipelineExists(p)
    /\ modelOps < MaxModelOps /\ modelOps' = modelOps + 1
    /\ snapshot' = [snapshot EXCEPT ![p].rev = @ + 1]
    /\ UNCHANGED <<model, vault, request, version>>

PipelineDeleted(p) ==
    /\ PipelineExists(p)
    /\ modelOps < MaxModelOps /\ modelOps' = modelOps + 1
    /\ snapshot' = [snapshot EXCEPT ![p] = DeletedPipeline]
    /\ UNCHANGED <<model, vault, request, version>>

\* the container or DocGrok cannot be reached: the request ends where it is
RequestFails(c) ==
    /\ request[c] # Waiting
    /\ Respond(c)
    /\ UNCHANGED <<model, vault, snapshot, version, modelOps>>

-----------------------------------------------------------------------------

\* embedding models, with their key in the document, and chat models, whose key
\* is in Key Vault and which no pipeline has
ModelInit ==
    /\ snapshot \in [Pipelines -> {NoPipelineDoc, [rev |-> 1, of |-> 1]}]
    /\ \E chat \in SUBSET Models :
           /\ model = [m \in Models |-> [category |-> IF m \in chat THEN "chat" ELSE "embedding",
                                       key |-> IF m \in chat THEN NoKey ELSE FirstKey, limits |-> DefaultLimits, rev |-> 1]]
           /\ vault = [m \in Models |-> IF m \in chat THEN FirstKey ELSE NoKey]
           /\ \A p \in Pipelines : ModelOf[p] \in chat => ~PipelineExists(p)
    /\ request = [c \in Callers |-> Waiting]
    /\ version = 1 /\ modelOps = 0

ModelStep(c) ==
    \/ Lookup(c) \/ Register(c) \/ Reread(c) \/ PatchCategory(c)
    \/ ListPipelines(c) \/ RefreshRead(c) \/ RefreshWrite(c) \/ LimitsEqual(c) \/ RefreshEnds(c)
    \/ SetSecret(c) \/ ChatWritten(c) \/ Deleted(c) \/ SecretDeleted(c) \/ SyncRegistry(c)

ModelNext ==
    \/ \E c \in Callers :
           \/ ModelStep(c) \/ RequestFails(c) \/ SyncModels(c)
           \/ \E p \in Pipelines : ReadPipeline(c, p)
           \/ \E m \in Models :
                  \/ DeleteModel(c, m)
                  \/ \E key \in Keys \cup {NoKey}, limits \in Limits \cup {NoLimits} :
                         WriteChatModel(c, m, key, limits) \/ CreateModel(c, m, key, limits) \/ UpdateModel(c, m, key, limits)
    \/ \E p \in Pipelines :
           PipelineEdited(p) \/ PipelineDeleted(p) \/ \E rev \in 1..version : PipelineCreated(p, rev)

ModelSpec == ModelInit /\ [][ModelNext]_modelVars

-----------------------------------------------------------------------------

\* what a request that writes model m carries
Writing(c, m) == request[c].op \in {"create", "update", "chat", "sync"} /\ request[c].model = m

\* "Preserve concurrent credential changes": the key in the document of a model
\* gives way only to a key that a request for this model carries, or moves to Key
\* Vault with it, whatever writes of the other fields overlap.
KeyKept ==
    [][\A m \in Models :
          ModelExists(m) /\ model'[m] # Absent /\ model'[m].key # model[m].key
          => \E c \in Callers : /\ Writing(c, m) /\ request[c].key # NoKey
                                /\ model'[m].key = request[c].key \/ (request[c].op = "chat" /\ model'[m].key = NoKey)]_modelVars

\* The limits of a model change only to what a request for it carries, which
\* states them, or is an edit through the router that repeats limits it read
\* before another write: these are lost updates, and the only ones.  The edits
\* of chat models and of the category are refused instead.
LimitsKept ==
    [][\A m \in Models :
          ModelExists(m) /\ model'[m] # Absent /\ model'[m].limits # model[m].limits
          => \E c \in Callers : /\ Writing(c, m) /\ request[c].limits = model'[m].limits
                                /\ request[c].stated \/ (request[c].op # "chat" /\ request[c].began < model[m].rev)]_modelVars

\* A snapshot is never replaced by the limits of an older revision, although
\* refreshes of several updates and reads of the pipeline overlap; only a refresh
\* that finds the model deleted writes those of its own request over newer ones.
SnapshotNeverOlder ==
    [][\A p \in Pipelines :
          PipelineExists(p) /\ snapshot'[p].rev > 0 /\ snapshot'[p].of < snapshot[p].of
          => \E c \in Callers : Refreshing(c, "write") /\ request[c].pipeline = p /\ request[c].gone]_modelVars

\* Writes that overlap undo nothing else: neither a key in a document, nor the
\* limits of a model, nor newer limits of a pipeline.
NothingUndone == KeyKept /\ LimitsKept /\ SnapshotNeverOlder

\* What api.py says of an edit that overlaps another one: "Preserve concurrent
\* credential changes", "Model changed during the operation; reload and retry".
\* The secret of a model is replaced only by an edit of the stored document, never
\* by one that read an older document and will be refused.  It does not hold: the
\* secret is replaced before the document is compared.
ConcurrentKeyPreserved ==
    [][\A m \in Models :
          ModelExists(m) /\ vault'[m] # vault[m] /\ vault'[m] # NoKey
          => \E c \in Callers : request[c].op = "chat" /\ request[c].model = m /\ request[c].key = vault'[m] /\ Current(request[c])]_modelVars
=============================================================================
