# OmniVec in TLA+

OmniVec keeps vector indexes in step with data sources. An API and a controller
hold the configuration; ingestion pods watch the sources and put one message
per change and pipeline on Service Bus; worker pods read the messages, turn the
content into embeddings through DocGrok and write them to a destination; a
search service reads the indexes.
This directory holds the TLA+ modules of the parts where an order of steps can
go wrong, the TLC configurations that check them, and TLAPS proofs of what they
establish for every value of their constants.

Paths below are relative to the repository's sources. `ingestion/` stands for
`connectors/ingestion/dotnet/`, `worker/` for `connectors/worker/dotnet/`.

## 1. Inventory

### Control plane

| Part | State | Operations | What is hard | What makes it correct |
|---|---|---|---|---|
| API: configuration and jobs (`api/api.py`, `store.py`) | sources, destinations, pipelines, jobs, syncs as Cosmos documents with ETags | create, change, pause, resume, reset, run, delete; retry and cancel jobs; export and import | handlers read, validate and write in several calls, in several replicas | nothing read a while ago overwrites what is newer; a reset works on a paused pipeline and its jobs stay deleted |
| API: contracts of pipelines (`api/api.py`) | the stored pipeline, its sources and destination | the validators of create, update, set-mode, activate | each handler applies another selection of them | no order of calls leaves a pipeline nobody can run |
| API: models (`api/api.py`, `docgrok/router`) | model documents with keys, snapshots of their limits in pipelines | create, update, delete, refresh | refreshes overlap; keys rotate during edits; the router merges what was read before | a key in a document is replaced by a key only; limits change to what is stated or, through the router, was read; a snapshot never ages |
| Job monitor (`api/controller.py`) | what it queried of the jobs | fail or requeue stuck jobs under their ETag | it acts on what it read a moment ago | a stuck job is recovered, a finished one left alone |
| Leader election (`api/leader_election.py`) | a Kubernetes Lease object | acquire, renew, step down | read, clock test, conditional write | one main function at a time |
| Cloud deployments (`api/cloud_deployments.py`, `cloud_deployment_azure.py`) | one document per job with a lease and a script of calls | plan, approve, claim, progress, interrupt | a worker is lost in the middle of a call that costs money | nothing is repeated without a new approval; what others made is not written; every job settles |
| Telemetry (`api/telemetry.py`, `batch_metrics.py`) | counters and a list of seen batches per replica, exported records | report, export, query, reset | batches reported twice, records that arrive after a reset | a historical answer counts every batch once |
| Progress, checkpoints (`api/progress_tracker.py`, `checkpoint_manager.py`) | one document per source under an ETag | update, rebase on a conflict; save, reset | two processes write one document | a finished update stays |
| Health checks (`api/health_checker.py`) | one document of results | run all or a section, judge pipelines, store | runs overlap, sections are merged into old results, probes are skipped or answered from old jobs | a pipeline is as bad as the worst of its parts; a fault a check looks for is reported |
| Synthetic runs (`api/synthetic_source.py`) | a document per run, a task in one replica | generate, page, cancel | the policy changes, the replica restarts | a run claims no more than the broker has |
| Agent (`agent/`) | sessions, parked calls with a TTL, all in memory | propose, approve, execute and verify, recover | an approval used twice, after it expired, or after a restart | a destructive action runs at most once per approval |

### Ingestion

| Part | State | Operations | What is hard | What makes it correct |
|---|---|---|---|---|
| Source manager (`ingestion/Services/SourceWatcherManager.cs`) | watchers per source, generations | reconcile: start, update, replace, dispose | watchers run while their configuration changes | a reset starts a new generation, a paused source stops |
| Polling leases (`ingestion/Services/BlobLeaseManager.cs`) | one document per source | acquire, renew, steal, release | clocks, a paused owner that still believes | a lease changes hands only when it is over |
| Inline ownership (`ingestion/Services/InlineSourceOwnership.cs`) | none | find sources with more than one active inline owner | two inline pipelines over one change feed | such a source is watched by nobody |
| SharePoint watcher (`ingestion/Services/SharePointSourceWatcher.cs`) | state document (cursor, revision, outbox), one reference per item | poll, stage, publish, write references, commit, full scan, reconcile | crashes between any two, two pods at once, expired tokens | revisions name versions, nothing is skipped |
| OneLake watcher, change feed (`connectors/ingestion/onelake_iceberg/`, `connectors/fabric_spark/`) | checkpoint of hashes and submissions | scan, publish, save; stream the feed | the table it reads is the table it writes | the last content wins and every row gets its embedding |
| Cosmos change feed, Blob, SQL, PostgreSQL, Databricks, Garnet watchers | cursor or lease container per source | poll, pass a page on (to the queue, or inline into the row), advance the cursor | passing on and checkpoint are separate; writes of the watcher itself are changes of the source; late watchers | no row falls behind the cursor before it was passed on; in the end all is as the source has it |
| Event Grid consumer (`ingestion/Services/BlobEventConsumer.cs`) | queue messages | translate, publish, settle | redelivery | an event is settled only after it was published (it is not always: finding 3) |
| Publishers (`ingestion/Services/ServiceBusPublisher.cs`, `omnivec_queue/`) | a bounded batch | pack envelopes, batch, send | limits in several units; part of a batch sent | every document in one envelope of its own policy |

### Workers and DocGrok

| Part | State | Operations | What is hard | What makes it correct |
|---|---|---|---|---|
| Receive loop, envelopes (`worker/Services/EmbeddingWorkerService.cs`, `QueueEnvelopeReceiver.cs`, `MessageProcessingScope.cs`) | a parent message at the broker, an outcome per document in memory | open, embed, write, hand bad documents off, settle the parent | one message holds many documents; overlapping deliveries | the parent is completed only when each document is written or handed off |
| Fair scheduler (`worker/Services/PipelineFairScheduler.cs`) | queues per pipeline, running counts | acquire, release, cancel | cancellation while a permit is being given | limits hold, no permit is lost, nobody starves |
| SharePoint writer (`worker/Destinations/CosmosDbDestinationWriter.SharePoint.cs`) | manifest and chunk documents of an identity | claim, write, clean, complete | everything at once, see 3.1 | a completed manifest describes exactly the chunks there are |
| OneLake writer, merge job | staged files, the table | stage, combine, MERGE | a merge repeated or overtaken | never an older version over a newer |
| Other writers (`worker/Destinations/`) | documents of the destination | upsert, delete, replace chunks | older content after newer | the newest version stays |
| Metrics transport (`worker/Services/MetricsTransport.cs`) | a bounded queue, counters | admit or drop, one sender, drain at shutdown | admission racing the shutdown | every report is counted once |
| Pipeline worker (`docgrok/pipeline-worker/worker.py`) | a request, batches under way | extract, chunk, embed, answer | batches answered in any order, or failing; sizes of the request and of its transform | a chunk gets its own vector, a request its size |
| DocGrok service (`docgrok/*.py`) | cached models, encrypted keys, transform pipelines | register, rotate, revoke, execute | caches and key versions per replica | every replica reads every key |
| Embedding services (`docgrok/services/embedding/`) | a queue of inputs | gather, one forward pass, slice | callers that give up, passes that fail | everybody gets the vectors of its own inputs |
| Search (`search/`) | tokens with their recent requests, cached secrets | admit, a task per index, merge | tasks fail, end late, or in any order | the answer is what the strategy promises of what did not fail |

### The rest

The request router of DocGrok, web UI, CLI, MCP server, infrastructure
templates, hooks, scripts and mock connectors keep no state that an order of
steps could spoil, or only what a library keeps for them; they are listed in
`PROJECT.json` and not modelled.

### How the parts interact

The controller and the API write configuration documents; the ingestion pods
and workers read them on timers, so they act on old configuration for a while.
Ingestion and workers share nothing but the Service Bus messages, which may
arrive twice, late, or in another order. All that protects an index is in the
messages (revisions, versions) and in the conditional writes of the destination.
Workers report to whichever replica of the API answers; replicas share only the
metadata container and the exported records.

## 2. Plan

Order of work, the most important first.

| | Modules | Subject | State |
|---|---|---|---|
| 1 | `SharePointFence`, `RevisionRegister`, `WorkerProofs` | the writer that must keep an index right under every delivery order, and what it promises | checked, proved |
| 2 | `SharePointWatcher`, `SharePointWatcherProofs` | where the revisions come from | checked, safety proved |
| 3 | `QueueEnvelope`, `WorkerProofs` | no document lost between the broker's message and the last of its documents | checked, proved |
| 4 | `FairScheduler`, `WorkerProofs` | limits, no lost permit, no starvation | checked, safety proved |
| 5 | `Lease`, `PollingLease`, `LeaderElection` and their proofs | clocks and conditional writes; both implement one abstract lease | checked, safety and refinement proved |
| 6 | `AgentApprovals`, `RequestProofs` | one approval, one execution | checked, proved |
| 7 | `ControlPlane`, `PipelineContract`, `RequestProofs` | the handlers against each other; what they accept | checked, safety proved |
| 8 | `PipelineWorker`, `Chunking` | from a document to vectors | checked, safety proved (in `DocGrokProofs`) |
| 9 | `ModelRegistry`, `DocGrokService`, `EmbeddingService`, `TransformPipelines`, `DocGrokProofs` | models, keys and the services that embed | checked, safety proved |
| 10 | `OneLake`, `QueuePublish` | write-back into the table that is read; packing of messages | checked, safety proved |
| 11 | `CloudDeployments`, `SyntheticRuns`, `Telemetry`, `ProgressReports`, `HealthChecks`, `Search`, `OperationsProofs`, `SearchProofs` | long-running jobs and what is told about them | checked, safety proved |
| 12 | `SourceWatchers`, `GarnetVectors`, `BlobEvents` | the watchers that poll, pass on and advance a cursor (Cosmos DB, Blob, SQL, PostgreSQL, Databricks, Garnet) and the Event Grid consumer | checked, safety of `SourceWatchers` proved (in `WatchersProofs`, with `PollingLease`) |
| 13 | `SharePointSync` | watcher, broker and fence composed: the index converges to the drive | planned |
| 14 | `MetricsTransport` | every report accounted for across a shutdown | planned |

No module declares a recursive operator;
sums, concatenations and fused scores are folds.

## 3. The modules

Every module names at its head the files it models; `PROJECT.json` maps each
definition to its lines. A store or broker call that can fail, be applied without
its answer arriving, or be interleaved with another process is one step; what a
process does in memory between two such calls belongs to the step before or
after. Clocks are counters of what has passed or is left, cut off where nothing
tells larger values apart. Definitions marked "mutant" are wrong on purpose; no
specification uses them.

`MCDocGrok`, `MCOperations` and `MCWatchers` hold several modules that share no state. A
variable `part`, chosen in the initial state and never changed, says which of them
a behaviour is about; the others keep one initial state. The parts are thus
checked one by one, in one run.

### 3.1 SharePointFence, RevisionRegister

`worker/Destinations/CosmosDbDestinationWriter.SharePoint.cs`,
`ReplaceSharePointInStoreAsync`, for one identity. State: the manifest document
(revision, completed, ETag) with all its earlier versions, since a read under
session consistency may return one; the chunk documents (`vec`, who wrote each);
per call its position, revision, number of chunks, ETag, chunks written, ids to
delete, and return value. `Call` is any set of overlapping invocations:
redeliveries, expired locks, several workers.

| Action | Code |
|---|---|
| `Start`, `ReadState`, `Return` | the read of the loop and its two early returns |
| `Claim`, `ClaimConflict` | `TryClaimAsync`, and back to the read on a conflict |
| `WriteBatch`, `DeleteBatch` | `ExecuteAsync`: one transaction of the manifest, under the ETag held, with chunk upserts or deletes |
| `FindObsolete` | `ReadChunkIdsAsync` minus the ids to keep |
| `Complete` | the transaction that marks the manifest completed |
| `Fenced`, `Abandon` | the ETag is out of date; the call stops anywhere, also after a transaction that was applied |

`RevisionRegister` is what a reader may rely on, without ETags, batches and
retries: revisions are claimed in increasing order, become visible while
claimed, are settled when nothing else is visible, and an answer stays true.

Checked, as parts of the inductive `FenceInv`: a completed manifest describes the
chunks exactly (`CompletedExact`), the return value on which the worker acknowledges stays true (`AnswerSound`).
Checked besides: the register is implemented (`ImplementsRegister`), and the
loop, which has no bound, ends (`CallsEnded` in `WorkEnds`, which says the same
of the jobs of 3.11).

Proved for all calls, revisions, chunk counts and batch sizes: all of these but
the last, and three more that the runs leave to the proofs: the manifest never
goes back (`HighWaterKept`), no chunk of a superseded or finished revision appears
(`NoResurrection`), chunks disappear only when a complete newer set is there
(`RemovalCovered`). The inductive invariant `FenceInv` adds to the properties: every
version a read can return is behind the manifest (`VersionsBehind`); a claim
about to be accepted is allowed by the current manifest, not only by the version
that was read (`ClaimAllowed`); the current ETag has one holder (`OneHolder`),
which has written what it thinks it has and, once it deletes, knows of every
other chunk (`HolderProgress`); `CallSane`, `NothingAhead`. Without `OneHolder`
and `HolderProgress`, `CompletedExact` does not follow from itself: nothing
would say that the call that completes wrote the chunks that are there.

### 3.2 SharePointWatcher

`ingestion/Services/SharePointSourceWatcher.cs`, with `UpdatePipelines` and the
generation of `SourceWatcherManager.cs` and the pause, resume and reset handlers
of `api/api.py`. State: the drive (external), the state document (`doc`: cursor,
revision, pending page, scan, pipelines, generation, ETag), one reference per
item, the messages sent, and per pod the watcher in memory and its poll.
`CheckReset` ... `Polled` follow `PollDeltaAsync`; `StagePage`, `Publish`,
`PublishPart`, `PersistReference`, `Commit` are the outbox; `StartScan`,
`FindMissing`, `StageMissing` the full scan and its reconciliation; `PollFails`
and `StopPod` may happen between any two.

Checked, in `WatcherInv`: a revision stands for one version of an item and later
revisions for later versions (`RevisionNamesVersion`), nothing is sent under a
revision that is not durable (`OutboxFirst`), a reset is followed by a scan
(`ResetHonoured`), and so is a new pipeline: a poll ends only with all pipelines of its
watcher in the last scan, or with another scan still asked for, which one attached
while a scan is under way needs (`AttachHonoured`). Besides it is checked a settled cursor means that every pipeline of the last
scan was told of every item as it was up to the cursor (`CaughtUp`), and, in `NeverBack`, that references do not go back
(`RefsAdvance`) and the cursor leaves a page only after its messages
(`CursorBehindMessages`).

`CaughtUp` leaves out the pipelines that were `interrupted`: paused or detached, or
attached while several pods may run. For these it does not hold (section 5).

All three are proved for any items, pods, pipelines and scopes.
The parts of `WatcherInv` rest on each other and on more. A pod works on a
copy of the document whose ETag says whether it is current (`Memory`), in a phase
that the copy agrees with (`Phases`): only then is what is sent or noted under a
copy that may be out of date still backed by something durable. What is `Known` of
a revision, by the document's page, a reference, a message or a page in memory
that is still current, is at most the document's revision (`KnownReached`), says one
thing (`KnownOrdered`), and a page just fetched has nothing older than that
(`DraftsNewest`) and nothing that did not happen (`DraftsReal`). `Generations` says
that a pod which goes on without a scan saw no reset, and that the pipelines it has
were in the last scan of the document (`Fetches`).

`CaughtUp` needs a second invariant, `ToldIInv`, which is said of what will be there
once the page in the outbox is through: the `Cursor` it leads to, the messages that
will have been sent (`Sending`), the references as they will be `Noted`. Publishing,
noting references and emptying the outbox change none of it, so that only reading a
page, staging it and starting a scan have to be argued about. In its terms every item
that changed up to the cursor, and is on no page to come, is `Fine` for every `Steady`
pipeline (`AllFine`): the last message about it says what it is, or a scan is under way
that left its tombstone to the reconciliation. That holds across a page because the
draft in memory `Shows` what is not told yet (`DraftSound`), across the reconciliation
because what is `missing` is what the scan did not see, and nothing that is there
(`MissingSound`, with `RefsSound`: a reference says what the last message said), and
with several pods because a pod that was overtaken has nothing left to send or note
(`Overtaken`). `PipesSound` says that a steady pipeline is known to every running pod,
or was never heard of.

### 3.3 QueueEnvelope

`worker/Services/QueueEnvelopeReceiver.cs` and the parts of
`EmbeddingWorkerService.cs` and `MessageProcessingScope.cs` that settle an
envelope. State: the parent at the broker and its delivery count; the documents
written, handed off and dead-lettered; per delivery the stage and the noted
outcome of each document. A behaviour is `healthy`, when only documents fail
that cannot be processed, or has every trouble: locks lost, sends, writes and
whole batches failing, before or after they took effect.

Checked and proved for every set of documents and delivery count: the parent
leaves the queue only when each document is written or durably handed off
(`NothingDropped`), and bad documents do not hold up good ones
(`BadDocumentsIsolated`). Proved only: a delivery does not take an outcome back
(`SettledOnce`). `EnvelopeInv` adds that an outcome that is remembered is true
(`DispositionTrue`), which needs that completion follows the write
(`WrittenFirst`). `IsolationInv` says of a healthy envelope the course of each
document (`GoodCourse`, `BadCourse`), and that there is one delivery, because nothing
but a lost lock makes a second (`OneDelivery`).

### 3.4 FairScheduler

`worker/Services/PipelineFairScheduler.cs`. The monitor is a variable: `Acquire`,
`Cancel` and `Release` enter it and dispatch, one `Grant` per permit until
`Leave`. (`SchedulerInit`, `EnvelopeInit` and so on are named so that `WorkerProofs` can
extend this module together with `QueueEnvelope` and `SharePointFence`.) Virtual runtimes are kept relative to the least of them, up to `MaxLag`;
what a lag beyond that would change (how long the others wait for a pipeline
that catches up) is not shown.

Checked and proved for any pipelines, requests, weights, caps and limits, as
`SchedulerInv` or consequences of it: the counters are the permits in use
(`PermitsConserved`), limits hold (`WithinLimit`, `WithinCap`), no permit idles
while somebody may have it (`NoIdlePermit`). Checked only: nobody starves
(`NoStarvation`). The
inductive invariant `SchedulerInv` adds that whoever waits is in its queue: a
permit could otherwise idle because a request was dropped.

### 3.5 Lease, PollingLease, LeaderElection

`Lease` is what both leases promise: it changes hands only when its term is over
or given back.

`PollingLease`: `ingestion/Services/BlobLeaseManager.cs` and what
`SourceWatcherManager` does with one source that needs a lease. `Acquire`,
`ReadItem`, `ReadNotFound`, `CreateItem`, `ReplaceItem` are the calls of
`TryAcquireAsync`; `StartWatcher`, `StartFails`, `Dispose` those of the
reconcile; `ReadForRelease`, `ExpireItem`, `ReleaseFails` are `ReleaseAsync`.
`releases` says whether the source's watchers give the lease back when disposed
of, as Garnet's do. `LeaderElection`: `api/leader_election.py`, with `Attempt`,
the calls of acquiring and renewing, and the start and cancellation of the main
function.

Safety depends on time, and the assumptions say how. `PollingLease` assumes that
a call of `TryAcquireAsync` takes at most the TTL and a watcher is reconciled
within its term (`MaxCall <= TTL`, `Patience <= TTL`): the code does not enforce
it, it reconciles every few seconds under a TTL of 90 s. `LeaderElection`
states it in the property (`Timely`). Proved from these: one pod polls a source when watchers keep
the lease (`OneKeepingWatcher`), one main function runs (`SingleActive`), and,
without any assumption on time for the election, both implement `Lease`. The
inductive invariants say that who is about to write over an unchanged document
owns it or found it expired (`MayWrite`), and that who relies on a term owns the
document at least as long (`TermHeld`, `HoldsLease`). Model-checked only: a dead
owner is replaced (`LeaseTakenOver`, `TakenOver`).

### 3.6 AgentApprovals

`agent/approvals.py`, `agent_loop.py`, `recovery.py` and the chat handlers of
`agent/api.py`, for one session. A parked call has a number, which the code does
not have: properties tell apart two calls under one ID with it. Proved for
any number of requests, IDs, chat turns and parked calls (the run checks
`ApprovalInv` and `NoReplay`): a parked
call is executed at most once (`SingleUse`), a chain within its budget
(`BudgetKept`), and a repeated answer decides nothing else (`NoReplay`) if an
answer is not under way longer than the TTL (`MaxDelay <= TTL`). The inductive
invariant `ApprovalInv` says that a chain has one live thread at a time (a
request in the loop or a parked call) which knows how many calls were executed
(`OneThread`, `Budget`): the count is copied when a call is parked, so the budget
holds only as long as one copy is alive.

### 3.7 ControlPlane

`api/api.py`: every handler that writes a source, a destination, a pipeline, a job
or a synchronisation, and the import of a bundle, over `store.py`; the job monitor
of `controller.py`. State: the documents, and per call what is left to write
(`todo`) and which documents nobody wrote since the call read them (`fresh`).

A handler reads what it needs, validates and leaves a list of writes; each write
is a step, so that other handlers come between. An ETag is what it tells its
reader: whether the document was written since it was read. `Replace`,
`Conflict`, `Upsert`, `Delete` are the writes; `ListJobs`, `ListReplayed` reads
that a handler makes between its writes; `StoreFails` and `ImportFails` end a
handler anywhere. `SourceRequest` ... `ImportRequest` are the handlers;
`MonitorStep` queries and recovers stuck jobs; `WorkerUpdates` and `JobTimesOut`
stand for the workers and the clock.

Proved for any documents, requests, bundles and initial stores (the run checks
`ControlInv` and `NothingOverwritten`): a job that a reset deleted does not come back
(`JobsStayDeleted`), a reset works on a paused pipeline from its first write to its last
(`ResetWorksPaused`), both in `ControlInv`; a worker's result is final
(`CompletedKept`) and a stale pause, resume, change of mode or reset is rejected
rather than written over what is newer (`NoLostUpdate`), both in
`NothingOverwritten`. Model-checked only: a job whose worker hangs is failed or
retried in the end (`StuckRecovered`).

The inductive invariant `ControlIInv` says what the calls under way hold. A document a
call takes for unchanged (`fresh`) is as the call read it or left it: a pipeline
differs from what will replace it in the handler's own field (`OwnField`), a job the
monitor or a handler will replace is not a finished one (`ViewOK`). A reset's writes
are a pause, deletions of jobs and one new generation, in that order (`ResetShape`);
the ID of a job that is being created is in no other call and was never deleted
(`NewJobsFresh`). `ControlCallKeeps` and `ControlWriteKeeps` say once what a call
that takes up work, and a write, must respect; every handler and step is an instance.

### 3.8 PipelineContract, PipelineWorker, Chunking

`PipelineContract`: the validators of `api/api.py`, which create, update,
set-mode and activate each apply in a selection of their own. State: the sources,
the destination and the stored pipeline. `Runs` is what the data path can do with
a pipeline, by types. Checked: no order of calls leaves an active pipeline that
cannot run, or one that activation refuses for ever (`ContractKept`). Proved for any
sources and requests that name at least one source (`SourcesNamed`): the handlers
check different things, but what is stored satisfies the contracts of Garnet,
OneLake, SharePoint, chunking and mode together (`Kept`), also after an update that
looks at some of them only.

`PipelineWorker`: `docgrok/pipeline-worker/worker.py`. A request goes through the
stages of its transform (extract in its variants, caption, frames, chunk, embed);
batches are sent up to the concurrency allowed and answered in any order, directly,
through the router, or by one after the other failed. Checked: a successful answer
gives every chunk its own vector (`PairsKept`), a request is chunked with the size it
asked for, or else with that of the transform picked for its document, and never with
what an earlier request left behind (`SizeHonoured`), both in `ChunksFaithful`; every
request ends
(`EveryRequestEnds`). Proved for any requests and sizes of batches, by the invariant
that what was answered so far stands at its place (`BatchesPlaced`): an answer is put
in order by its indexes, each batch holds the chunks that follow those of the batches
before, and so the concatenation gives chunk `i` the `i`-th vector (`InPlace`). A stage
that is resized overlaps by less than its size (`Sized`).

The transforms have sizes of their own, 2000 characters with 200 of overlap for PDF
(`DefaultSize`, `DefaultOverlap`) and 1500 with 100 for Word and text (`ParagraphSize`,
`ParagraphOverlap`). The override of a request is compared with 2000 whatever the
transform (`worker.py:2387`), so that a Word or text document for which 2000 is asked is
chunked at 1500. `SizeHonoured` says so. The exception hurts where a text comes in the
request itself, to be one chunk: it asks for its length and one, and at 1999 characters is
cut, and the vector of its first chunk is answered for all of it (section 5).

`Chunking`: `chunk_with_strategy` of the same file, one
step per round of its loops, over texts of letters, blanks and sentence ends.
Checked for its four strategies, overlaps and minima: no character is lost,
reordered, or in a chunk that is too long (`NothingLost`). Proved for any text and
settings, by the invariant that up to where the text was consumed, the chunks, the one
being filled included, hold every character that is not blank, each chunk before the
next (`Sound`); one lemma for each way the chunks grow (`AddChunk`, `Grow`,
`AddPieces`), one for the overlap (`OverlapSound`), one for the minimum
(`FilterSound`).

### 3.9 ModelRegistry, DocGrokService, EmbeddingService, TransformPipelines

`ModelRegistry`: the model handlers of `api/api.py`, the synchronisation of
`controller.py`, and `register_model` of the router, whose `metadata_lock` orders
the writes of one replica only. The request limits of a model are one value of its
document: an edit states new ones, or repeats what `update_model` read at its start
(`api.py:7194`, `:7253`-`:7271`; a request that states one of the three limits repeats the
others). The router reads the document again and merges the payload under the ETag of
that reading (`main.rs:2076`-`:2158`). So an edit of another field can put older limits
over those of an edit that came in between; nothing in the code refuses it. The keys of
chat models are in `vault`, and set there before the conditional write of the document,
or in the document where Key Vault does not answer (`SetSecret`, `ChatWritten`). A
pipeline names the limits it took by the revision of the model.

Checked, in `NothingUndone`: the key in a document gives way only to one that a request
carries, or moves to Key Vault with it (`KeyKept`); the limits of a model change only to
what a request for it states, or, in an edit through the router and nowhere else, to what
it read before another write (`LimitsKept`: the lost updates, delimited; writes of chat
models and of the category are refused instead); and the limits a pipeline keeps are never
replaced by older ones but by a refresh that found the model deleted
(`SnapshotNeverOlder`). Proved for any models, pipelines and callers:
what a request has read is the stored document or has a revision that is past
(`RequestSound`), and a snapshot on record or in hand is never newer than the model it
is of (`SnapshotSound`, `LimitsSound`).
`ConcurrentKeyPreserved`, that only an edit of the current document replaces a secret, does
not hold (finding 4). Also: a write to Key Vault that fails leaves the older secret there,
which is the one that is used (`api.py:7637`-`:7638`), and deleting a chat model leaves its
secret behind; no property is about either.

`DocGrokService`: the registry of the Python service per replica, with envelopes
under the versions of a vault key. Checked, and proved for any replicas, models and
versions: every replica reads every stored key (`KeysReadable`), since every
envelope, stored or about to be, names the version that wrapped it (`Sealed`). `EmbeddingService`: the queue, window and forward pass of
`bge/api.py` and `clip/api.py`, with callers that give up, and the fallbacks of
`call_model`. Checked: a caller gets the vectors of its own inputs in their order
(`OwnVectors`) and an answer (`EveryCallAnswered`). Proved for any callers, calls and
limit of a batch: an item is of its caller's present call or of an earlier one and a call
has one item at most (`ItemSound`, `OneItem`), so that a slice reaches only the call
it was computed for, and it is the slice of that item (`OwnSlice`); what a call
repeated text by text has so far is the beginning of its inputs (`CallPartial`). `TransformPipelines`:
`PipelineExecutor` while the admin API changes what it executes
(`StepsInOrder`). Proved for any set of steps and any change of it: what was
executed and what is pending are disjoint and make up the run (`Accounted`), and a
step goes after those it needs (`InOrder`); a run ends when nothing is left or the
rest wait for each other (`EndJustified`).

### 3.10 OneLake, QueuePublish

`OneLake`: one pipeline that writes back into the table it reads:
`onelake_iceberg/main.py` (`StartScan`, `Publish`, `SaveCheckpoint`, `RetryDue`),
the streaming job of `fabric_spark` (`PublishMicrobatch`), the worker that stages
results and the MERGE job (`Merge`, `MergeRefused`). Users edit and delete rows,
scans and batches fail before or after they took effect, messages are lost,
repeated and reordered. A hash stands for the content it is of. Checked: the
managed columns never go back to an older version (`NeverOlder`, proved for any rows
and bounds: everything compared with the order of a row is itself an order); once users and
failures leave the table alone, every row with content has its embedding, for good
(`Converges`: said of tables without the change feed, under which the clearing of
a row is itself a change that is published again, and unless a row blocks the
watcher, see `Blocked`).

`QueuePublish`: `omnivec_queue`, envelopes of one route and policy, packed into
batches. Checked: each document is in one envelope, in order, within all limits,
and the number returned is what the broker accepted (`EnvelopesFaithful`). Proved for any
documents and limits: what the broker accepted, the batch and the envelope under way are
together the documents taken so far, each envelope and batch within its limits (`QueueIInv`).

### 3.11 CloudDeployments, SyntheticRuns, Telemetry, ProgressReports, HealthChecks, Search

- `CloudDeployments`: one job of any of the four kinds with its script of calls
  to Azure; workers claim it under a lease, write progress before each call,
  stall, stop, or have calls fail after they took effect. `DeployedOnce`: every
  claim has its own approval, what is billed or cannot be undone happens once, nothing
  that others made is written, and a job that succeeded made all of its resources. What
  others made (`azure.foreign`) is there before the job and stays; `Effect` adds what a
  call writes to `azure.owned` whoever made it, so that it is the checks of tags, metadata
  and, for a container, of what the document recorded (`Foreign`) that keep the two apart:
  without them, or with the record of a container written before its call
  (`MarkedEarly`), the run finds the violation. A resource that another party makes
  between such a check and the call that follows it is not modelled. Proved for any
  workers: one worker at most holds a
  claim on the current ETag (`Holding`), claims are at most the approvals
  (`Approved`), and who is about to spend has not spent (`SpentOnce`).
  `DeploymentSettled`, in `WorkEnds`: an approved job
  ends or is interrupted, unless deployments are disabled by then (`Disable`,
  `Enable`): no worker claims or interrupts a job while they are.
- `SyntheticRuns`: the task that publishes a run page by page while its policy
  changes, the broker refuses, the run is cancelled, or the replica restarts.
  `RunsTruthful`: the broker has a prefix of the messages, each once, and the
  document never claims more. Proved for any runs, pages and intervals: per run and
  stage of its task, `RunSound` says how many messages the broker has, relative to
  the page in hand and to the count in the document.
- `Telemetry`: reports that workers repeat to other replicas, the bounded list
  that recognises them, exports, resets, and the query behind a dashboard.
  `HistoryExact`: a historical answer counts a batch once, nothing from before the
  reset, and what is in memory is not presented as history. Proved for any batches
  and replicas: every record, exported or buffered, carries the time at which its batch
  was first reported (`Timed`), and a cached summary counts what the query found then
  (`Counts`).
- `ProgressReports`: updates of the progress document, rebased after a conflict,
  and checkpoints, given up after one. `ProgressKept`: what a finished update
  wrote stays, totals are the sum of the locations, no checkpoint takes another
  back, and the status of pipelines and the system follows from their parts. Proved for
  any reporters: a draft under the current ETag is an update applied to a document that
  shows what was written (`UpToDateDraft`); a checkpoint manager under the current ETag
  knows the stored count, under an older one since the document exists at most that
  (`CheckpointIInv`).
- `HealthChecks`: overlapping runs of the controller and the API, of everything
  or one section. A verdict depends on the kind of store, on its condition, and on the
  last jobs (`CheckSource`, `CheckDestination`): no read is tried on a source that was
  active in the last 120 s and no write on a destination that a job completed into
  (`health_checker.py:107`-`:130`, `:287`-`:292`), one failed write among the last 20 jobs
  makes a healthy destination unhealthy (`:869`-`:902`), and types that have no check, or
  whose driver is missing, are healthy (`:148`, `:379`, `:419`). `HealthSound`: a pipeline
  is as bad as the worst of its parts in
  the document, the summary as bad as the worst entry, and a full run during which
  nothing changed says that all is well where it is and no job failed to write, and that
  it is not where a resource has a fault that a check looks for at that time
  (`Overlooked` lists the others, `Truth` has three values: well, ill, and open).
  Proved for any sources, kinds of stores and jobs.
- `Search`: tokens with sliding windows, one task per index with its embedding,
  its secret and its failures, and the four merge strategies. Scores are integers
  in small fractions. `RateKept`: no token exceeds its limit in any window.
  `SearchFaithful`: the response is what the strategy promises of the indexes that
  did not fail, compared with a definition of the fused score that does not go
  through the loop; a strict request gets everything or an error. Both proved, for
  any limits, requests and rows. For the rates the invariant says that the limiter
  forgets nothing that is in the window of now (`LimiterKnows`): in a window that
  began earlier nobody is admitted any more. For the response it says that a task has
  failed or has what its store answers with (`Sound`); the rest is about the merges, see
  section 6.

### 3.12 SourceWatchers, GarnetVectors, BlobEvents

`SourceWatchers`: the watchers of Cosmos DB (`SourceWatcher.cs`), SQL Server,
PostgreSQL with and without a tracking column, Databricks and Blob storage
(`ingestion/Services/`), one of them in a behaviour. State: the source (external: rows
with a version and the time of their last write, SQL Server's change table or the
Delta log), the cursor in memory and the one on record, the page in hand, and per
row the version passed on last (`told`). `ReadScan`, `ReadTracked`, `ReadMaxLsn`
and `ReadChanges`, `ReadVersion` and `ReadRows`, `StartPoll` and `ListBlob` read
pages, in as many steps as the code makes calls; `PassOn` sends a message or, inline,
writes the vector into the row, which is a change of the source like any other;
`Advance` moves the cursor. `PollFailed`, `RestartWatcher` and `ResetPipeline` come
between any two; `Cleanup` is the retention of the change table. Checked: no row falls
behind the cursor, in memory or on record, before its content was passed on
(`NothingSkipped`); once the source rests, every row has been passed on as it is then,
and stays so (`AllPassedOn` in `EverythingPassedOn`). `NothingSkipped` is proved for
any finite set of rows and any page size, number of writes and troubles, with the
invariant `SourcesIInv`. Every row is passed on or *due* behind the cursor in memory,
the one on record and, unless it is in the page, the one the page leads to. `Due` is
said of the row and a cursor alone, without the log, so that no write takes it back;
that a due row is among those the watcher will read rests on `LogSound`: the log has the
last write of every row it still holds. A page in hand may be old: passing it on hides
nothing because a row that changed since is due again (`ItemSound`). SQL Server and
Databricks choose a range in one call and read it in another; `Course` says what is
known of the range in between. A page of a limited scan is a prefix of its order
(`FirstPage`), so what is left out lies behind the last row of the page; for Cosmos DB
this needs that no two rows have the same place in the feed, which is part of
`RowsSound`.

`GarnetVectors`: `GarnetSourceWatcher.cs` with the versioned writes it makes through
the worker's Garnet code. State: records with their versions, the pipeline's revision
and each watcher's copy of it, vectors, version keys, locks, checkpoints. `ReadPage`,
`ReadCheckpoints` and then per record `ReadVersionKey`, `TakeLock`, `Apply`,
`SetVersion`, `Unlock`, `WriteCheckpoint`; `WriteFails` before or after a call took
effect, `WatcherCrashes`, `LockExpires`. Two watchers overlap, with old copies of the
pipeline. Checked: when records and pipeline rest, vectors are those of the last
version under the last revision (`GarnetConverges` in `EverythingPassedOn`). Assumed, as
`docs/user-guide.md:132-154` asks of applications: every change raises the version and
records are not deleted but emptied; and that the lock's five minutes are longer than
anyone works under it, and a failed call has taken effect by then or never does.

`BlobEvents`: `BlobEventConsumer.cs`, from the message of Event Grid to its settlement,
with the list of recent uploads; the subject of finding 3.

## 4. Runs

| Run | Instance | States | Shows |
|---|---|---|---|
| `watcher` | three scopes: 2 pods; 2 items over several pages, a pipeline attached and one paused; a pause, a resumption and a reset | 1 981 000 | 3.2 |
| `handlers` | three parts: 2 documents of any kind, 2 deliveries; 2 requests to the agent at a time, 2 IDs, 2 chat turns, 3 parked calls, budget 2; 3 requests, 2 at a time, about a model, chat or not, and a pipeline | 1 840 000 | 3.3, 3.6, 3.9 |
| `scheduler` | pipelines with 3 and 1 requests, 2 permits, weights and caps 1-2 | 66 000 | 3.4 |
| `polling` | three parts: 2 pods, TTL 2, 2 faults, both kinds of watchers; a source of each kind with 2 rows, pages of 1, 3 commits, 1 trouble; 2 Garnet watchers, 2 records, 2 edits, 1 trouble | 354 000 | 3.5, 3.12 |
| `polling_restart` | 2 pods, no faults, watchers that give the lease back | violation | finding 1 |
| `election` | 3 replicas, TTL 3, 2 faults | 192 000 | 3.5 |
| `control` | 2 calls and the monitor, 2 requests, 2 documents of each type, 2 resets, 1 manual retry | 145 000 | 3.7 |
| `docgrok` | six parts: all types of sources and destinations; 2 requests to the worker; texts of up to 4 tokens; 2 replicas and 2 vault keys; 3 calls to embed; transforms in and out of order | 150 000 | 3.8, 3.9 |
| `model_secret` | the models of `handlers` | violation | finding 4 |
| `operations` | ten parts: for the fence 2 calls, revisions 1-3, up to 2 chunks, batches of 1; 1 row, 2 edits, 1 fault; 4 of 5 documents; 2 workers, 1 crash, 3 sets of resources of others; 2 batches, 2 replicas; 2 reporters; 2 checkers, 7 combinations of stores and jobs; 9 requests to search; 1 run of 5 messages | 602 000 | 3.1, 3.10, 3.11 |
| `onelake_clear` | 2 rows, no feed, no faults | violation | finding 2 |
| `blob_events` | 2 blobs, 3 messages, 1 failing call | violation | finding 3 |

Why these bounds. *Fence*: two calls are enough to race every step of one
against every step of the other, three revisions to have an older, an equal and
a newer one and a manifest left by a third, and two chunks in batches of one to
stop between batches; the proofs cover the rest. *Watcher*: two changes and up
to eight revisions let a second full scan run to its end after the first; the
scopes keep two-pod races, several pages, and configuration changes apart
because their product is out of reach. *Envelope*: two documents differ in kind
and in batch; two deliveries overlap. *Scheduler*: more requests than permits,
or nobody can be passed over for ever. *Leases*: terms of two and three ticks
let a stale clock, a slow call and an expiry fall together; two faults lose an
answer and then an owner (one, where leases are given back: the initial state counts
a fault as used). *Watchers*: with two rows, pages of one and commits that touch both, a
page splits a transaction, a scan is overtaken in front of and behind its position, and
the third commit falls after a restart or a reset; inline SQL Server, whose own writes
are changes too, has two commits. Two edits of Garnet records or of the pipeline let an
older vector be written after a newer one. *Approvals*: three parked calls let one ID be used,
expire and be used again by another call. *Control*: two handlers and the monitor
race every write of one against every read of another; with one pipeline and its
job to begin with and room for a second, a create, an import, a deletion and a
conflict of owners all occur; a retry and a second reset follow a first.
*DocGrok*: a batch of two and a window of three inputs are filled, exceeded and
cut between callers; two batches are under way, in either order. *Models*: three
requests let a refresh overlap two updates, and an edit write what it read before the
two others. *Operations*: two edits and a fault let an older result arrive after a newer
one and after its repetition; one crash loses a worker in any call, and the second takes
its job over (or, instead of the crash, deployments are disabled under it); the 7
combinations of stores and jobs differ in the conditions that no check sees; the list of
recent batches holds one, so that a repeated report is not always recognised.

Symmetry is used where a run has no liveness property. Deadlock is checked in
`watcher`, `handlers`, `scheduler` and `election`, where `Terminated` and
`RegistryRests` are the states in which nothing is left to do; `control`, `docgrok`,
`operations`, `polling`, `onelake_clear` and `blob_events` end when the requests their
bounds allow are served.

### Fairness

- *Fence*: a call that runs is scheduled again (`WF` on `Step`). It is an async
  method whose awaits complete or throw. Nobody has to start a call.
- *Scheduler*: the thread in the monitor goes on (`WF` on `Dispatch`), and a
  holder's `Release` happens although others enter the monitor again and again
  (`SF`): work ends under its timeouts, `lock` queues are served in the end.
  Cancellation and new requests are not fair.
- *Leases*: time passes (`WF` on `Tick`), the timers of reconcile and of the
  election loop fire (`WF` on `Acquire`, `Attempt`) and calls end
  (`WF` on `Reconciling`, `Attempting`). Crashes and failures are not fair and
  bounded by `MaxFaults`.
- *Watchers*: a watcher keeps polling (`WF` on `PollStep`, `PollStepOf`). The records of
  a Garnet batch are written in parallel, so each goes on (`WF` on `RecordStep` per
  watcher and record). Locks expire, and reconciling passes the pipeline on
  (`WF` on `LockExpires`, `UpdatePipelines`). Changes, failures, crashes and retention
  are not fair.
- *Control*: the controller polls for ever (`WF` on `MonitorStep`) and a handler
  that runs goes on (`WF` on `Step`). No request has to be made, and a worker may
  hang.
- *DocGrok*: the event loops resume what can go on, HTTP calls have timeouts and a
  forward pass ends (`WF` on `WorkerStep`, `EmbeddingStep`, in one condition since a
  behaviour has one of them). Callers that give up are not fair.
- *Operations*: the watcher scans on its timer (`WF` on `WatcherStep`, `RetryDue`),
  a staged row is merged (`WF` on `MergeStep` per row), leases run out
  (`WF` on `LeaseRuns`) and of the workers of a deployment some one goes on
  (`WF` on the disjunction of `DeployerStep`). Users, the change feed and faults
  are not fair.

## 5. Findings

1. `polling_restart`: reconfiguring a Garnet source renews the lease and then gives
   it back with the disposal of the old watcher; another pod may start a second one.
2. `onelake_clear`: a row emptied while its first embedding is on its way counts as
   cleared; the embedding arrives and stays.
3. `blob_events`: an upload whose publication fails is remembered as seen; its
   redelivery is taken for a repetition and completed, and nothing was published.
4. `model_secret`: an edit of a chat model that is refused because another one came first
   has replaced the key of that other one in Key Vault.

`PROJECT.json` quotes the lines.

Met while modelling, not the subject of a run (the properties checked exclude
these cases where they touch them):

- A SharePoint pipeline that is paused and resumed while its pod restarts is not
  scanned for: the state document still lists it (`SharePointSourceWatcher.cs:239`,
  `:376`). Even with a scan it is not told of a deletion that was noted in the item's
  reference while it was away (`:279-299`). And while two pods run, one that has not
  heard of a new pipeline yet can stage pages of the scan made for it without it (`:251`).
- Blob: events handled before the first refresh of the snapshot find no source and are
  completed unpublished (`BlobEventConsumer.cs:87-89`). Polling does not see deletions;
  they are found through events only. One clock is assumed for the pod and the storage.
- PostgreSQL: a row committed late, or with an equal timestamp and a smaller key than
  the cursor's, is not found. SQL Server: changes that retention removes while a scan
  runs are lost (assumed away in `Cleanup`).
- Databricks: deletions are not passed on (`DatabricksCdcWatcher.cs:135-137`,
  `:177-179`), though `docs/user-guide.md:124-126` speaks of tombstones; versions that
  were vacuumed are asked for again for ever.
- Cosmos DB: a document whose inline vector is current is skipped for queue pipelines
  too, which matters after a change of mode.
- Garnet: a record changed without a new version keeps the others of its batch from
  being checkpointed.
- `renew_deadline` is never used (`leader_election.py:56`): a renewal that hangs
  longer than the lease leaves two main functions running. One network error on
  renewal costs the leadership at once (`:264`), and a main function that ends by
  itself is not noticed (`:286`).
- `sync_source` activates every pipeline of a source with an unconditional upsert
  (`api/api.py:2830`), inline ones without the checks of resume.
- Pipelines: create and update accept `sources: []` (`models.py:834` is a list without
  a minimum), for which every check of the sources holds (`api.py:5345-5413`); an inline
  update with an empty list changes the mode or strategy of a pipeline that then
  does not run. `processing_mode` is any string (`models.py:840`). Run and theorem are
  about requests that name a source.
- OneLake: a row that had to be cleared and is gone blocks every later scan
  (`Blocked`); under the change feed a clearing is published again and again;
  two records of one row in a batch are reduced to an arbitrary one.
- Cloud deployments: a worker lost between creating a container and noting it leaves
  a job whose retries fail with a resource conflict.
- Telemetry: the capacity report looks for a key `recent` that its input never has,
  and so always says `insufficient_data`.
- Progress: 99.95 % is rounded to 100 and marks a source live early.
- Pipeline worker: a text of 1999 characters in a request is to be one chunk ("force
  single chunk", `worker.py:2465`) and asks for a size of 2000; that counts as no request
  (`:2387`), so it is cut at 1500 (`:436`) and gets the vector of its first chunk. Word and
  text documents for which 2000 is asked are chunked at 1500.
- Models: an edit through the router repeats the limits it read first, over newer ones
  (`LimitsKept`).
- Health: a destination stays unhealthy for as long as one of the last 20 jobs failed to
  write to it, and a fault of a source is not seen for two minutes after a job.
  A section run judges pipelines by parts that nobody stored as healthy; two
  overlapping section runs can each lose the other's section.
- Search: a token accepted by `SEARCH_ACCEPT_ADMIN_TOKEN` is still refused with 403;
  Key Vault secrets are cached for ever.
- Synthetic runs: after a restart the document says `publishing` for ever
  (`api/api.py:2569`); cancelling through another replica does nothing.
- DocGrok: `_validate_blob_url` of BGE and `StepType.MODEL` are not defined;
  external transform steps always fail; a word extraction that fails may leave its
  temporary file.

## 6. Proofs

`tlapm` checks the modules `*Proofs.tla`. Each has lemmas about the operators the
model is built from, one lemma per action for the inductive invariant, and the
theorems that combine them. Lemmas about a record that a step changes are stated for
any record with the fields it has after the step, and facts about several documents at
once as operators of their values, so that before and after can be compared.

| Module | About | Theorems |
|---|---|---|
| `SharePointWatcherProofs` | 3.2 | 3 |
| `WorkerProofs` | `QueueEnvelope` (3.3), `FairScheduler` (3.4), `SharePointFence` (3.1) | 16 |
| `WatchersProofs` | `PollingLease` (3.5), `SourceWatchers` (3.12) | 4 |
| `RequestProofs` | `AgentApprovals` (3.6), `ControlPlane` (3.7) | 6 |
| `FoldLemmas` | folds, for the modules below | lemmas only |
| `DocGrokProofs` | `PipelineContract`, `PipelineWorker`, `Chunking` (3.8), `ModelRegistry`, `DocGrokService`, `EmbeddingService`, `TransformPipelines` (3.9) | 7 |
| `OperationsProofs` | `LeaderElection` (3.5), `OneLake`, `QueuePublish`, `CloudDeployments`, `SyntheticRuns`, `Telemetry`, `ProgressReports`, `HealthChecks` | 10 |
| `SearchProofs` | `Search` (3.11) | 2 |

The assumptions are those of the modules: constants are of their kind, sets that are
counted are finite, limits are positive (`FenceAssumption` and the others). Besides:

- the two assumptions on time named in 3.5, the bound on an answer in 3.6;
- `RunAssumption`: `Interval` is positive, as `synthetic_source.py:151` makes it, and a
  run and its pages have a natural number of messages;
- `RegistryAssumption`: a pipeline names one model (`ModelOf`);
- `ContractAssumption`: sources are finitely many and requests have the fields of the
  API's model, of which `SourcesNamed` is a hypothesis of `PipelineContractKept`;
- `ControlAssumption`, `InitialStoresTyped`, `BundleTyped`: the IDs are finitely many and
  each of one kind, documents at the start and in a bundle are of the kind of their ID,
  and an import draws an ID of the same kind;
- `HealthAssumption`: sources are finitely many and none is called like a section;
- `QueueAssumption`: sizes are natural numbers, each document's pipeline has a policy, a
  policy allows one document at least, and the framing of an envelope fits into what is
  reserved for it;
- `EmbeddingAssumption`: calls are non-empty lists of inputs, as the services and their
  callers require;
- `WorkerAssumption`: a batch and a chunk that is asked for have a size (`worker.py:83`,
  `:666`), and the chunks of each transform overlap by less than their size;
- `ChunkingAssumption`: the size of a chunk is positive, overlap and minimum are natural
  numbers, as `chunk_with_strategy` requires (`worker.py:1500`-`:1505`);
- `TransformAssumption`: a transform is a finite sequence of steps;
- `SearchAssumption`: the labels of the indexes of a request differ, as the response can
  tell them apart by nothing else (the code does not check it); a store is one of the
  three of `schemas.py` and lists its rows nearest first in its own measure, as
  the queries ask (`NearestFirst`; of Cosmos DB that it states similarities, which is so
  for its cosine and product, while `schemas.py:105` lets an index say `l2` and
  `searcher.py:257`-`:259` takes the value for a similarity all the same); distances of PostgreSQL's `<->` are not negative;
- `SourcesAssumption`: a source has finitely many rows, with positive keys, and pages hold
  at least one row.

What a fold computes is an induction over its data, and the induction theorems of the
library take an operator. The lemmas of `FoldLemmas` do without: a
set of natural numbers has a least element (from the well-founded order on `Nat`), so
the partial results of a fold exist as a function (`FoldExists`), satisfy the recursion
of the fold at each index (`TurnsOfFold`), and whatever holds at the start and is kept by
a step holds at every index (`CountingUp`, `UpTo`). Sums, the worst of a sequence of
states and concatenations are lemmas about these functions, up to `FlattenedPart`: the
piece of a concatenation that starts after the lengths of the parts before is the part.

Left to TLC: liveness (`WorkEnds`, `NoStarvation`, `LeaseTakenOver`,
`TakenOver`, `EverythingPassedOn`, `Converges`, `StuckRecovered`, `EveryRequestEnds`,
`EveryCallAnswered`), which needs fairness and `ENABLED`. Every safety invariant that a
run checks is proved.

The merges of a search are folds and concatenations, too. A flat sequence has for each
element a block and a place in it, in order (`InPlaces`); sorting is a permutation of
places (`SortedPlaces`). So each strategy yields a response with, for each result, the
index it is of and its rank there (`Answered`), and what is left out is known
(`LeavesOut`); counting results of an index up to a rank gives the rank (`LinedRank`),
which turns both into `NearestListed`, `TakenInTurn` and `BestListed`. For fusion,
`FusedUp` relates the entries fused so far to the sum of what was fused under each key;
sums of sums (`SummedFlattened`) make it the definition's (`WeightIsFused`). Two
expressions of the model had overlapping arms of a `CASE`, of which TLC takes the first
and the semantics any: `StoreHits` and `GenerateAnswer` are conditionals now, as the
code tests one after the other.

## 7. Not modelled

`components` in `PROJECT.json` says of each part what is left out. In the modelled
parts:

- the data path: payload validation and document layout of the fence; folders,
  filters and the schema upgrade of the watcher; legacy single messages, token
  packing, lanes and metrics of the receive loop; several sources at a time in the
  manager;
- the control plane: authentication, insights into resources and recommendations,
  statistics, vectors purged from a destination, Event Grid subscriptions; of the
  contracts the patterns of IDs, partition keys and single fields, and requests
  without a source;
- DocGrok: routing of requests, the OpenAI-compatible endpoint of the pipeline
  worker, the filter stage, the text of a Word document, scaling and restarting
  deployments (calls that are forwarded);
- the rest: read-only tools, audit and UI events of the agent; what a health probe
  sends to a store; the contents of deployment plans; text and metadata of search hits.

Of the watchers: attachments, filters and mappings of fields, the legacy jobs without
a queue, and how the SDK of Cosmos DB distributes partitions over pods. The other
destination writers and the metrics transport are planned; CLI, web UI, MCP server and templates hold no state that an
order of steps could spoil.
