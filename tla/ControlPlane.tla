---------------------------- MODULE ControlPlane ----------------------------
(* The configuration and job handlers of src/api/api.py, and the job monitor *)
(* of src/api/controller.py, over the document store of src/api/store.py.    *)
(*                                                                           *)
(* Every handler reads the documents it needs, validates, and then writes.   *)
(* Handlers run in a thread pool, in awaits of one event loop and in several *)
(* replicas, so that the reads of one and the writes of another interleave.  *)
(* What a handler reads between two of its own writes is one step here, and  *)
(* every write to the store is a step.  An ETag is modelled by what it tells *)
(* its reader: whether the document was written since it was read.           *)
EXTENDS Naturals, Sequences, FiniteSets, SequencesExt

CONSTANTS
    Sources, Destinations, Pipelines, Jobs, Syncs,  \* document IDs (uuid4 in the code)
    Places,         \* physical stores: endpoint, database, container
    InitialStores,  \* configurations the system starts from
    Bundle,         \* an export of some pipelines
    NewIds,         \* the IDs an import draws for the documents of the bundle
    Refs,           \* documents of a source, named by a job's source_ref
    Calls,          \* requests that can be under way at one time
    MaxRequests,    \* bound: requests that are served
    MaxResets,      \* bound: resets of one pipeline
    MAX_RETRY_COUNT, MAX_MANUAL_RETRIES

None == [kind |-> "none"]
Monitor == "monitor"        \* the controller process
Procs == Calls \cup {Monitor}
Ids == Sources \cup Destinations \cup Pipelines \cup Jobs \cup Syncs

Modes == {"queue", "inline"}

\* the documents an ID can have, by the container it is drawn for
DocOf(id) ==
    CASE id \in Sources -> [kind : {"source"}, place : Places]
      [] id \in Destinations -> [kind : {"destination"}, place : Places, enabled : BOOLEAN]
      [] id \in Pipelines -> [kind : {"pipeline"}, sources : SUBSET Sources, destination : Destinations,
                              mode : Modes, status : {"active", "paused"}, reset : 0..MaxResets]
      [] id \in Jobs -> [kind : {"job"}, pipeline : Pipelines, ref : Refs, late : BOOLEAN,
                         status : {"pending", "processing", "completed", "failed", "cancelled"},
                         retries : 0..MAX_MANUAL_RETRIES \cup 0..MAX_RETRY_COUNT]
      [] id \in Syncs -> [kind : {"sync"}, pipelines : SUBSET Pipelines, status : {"running", "ready", "failed"}]

ASSUME ControlAssumption ==
    /\ Monitor \notin Calls
    /\ IsFiniteSet(Ids)
    /\ Sources \cap (Destinations \cup Pipelines \cup Jobs \cup Syncs) = {}
    /\ Destinations \cap (Pipelines \cup Jobs \cup Syncs) = {}
    /\ Pipelines \cap (Jobs \cup Syncs) = {}
    /\ Jobs \cap Syncs = {}
    /\ {MaxRequests, MaxResets, MAX_RETRY_COUNT, MAX_MANUAL_RETRIES} \subseteq Nat

ASSUME InitialStoresTyped ==
    \A docs \in InitialStores :
        docs = [id \in Ids |-> docs[id]] /\ \A id \in Ids : docs[id] \in DocOf(id) \cup {None}

\* An import draws an ID of the same kind.
ASSUME BundleTyped ==
    \A id \in DOMAIN Bundle :
        /\ Bundle[id] \in DocOf(id)
        /\ \E kind \in {Sources, Destinations, Pipelines} : id \in kind /\ NewIds[id] \in kind

VARIABLES
    store,      \* the container "metadata": a document or None for every ID
    call,       \* what every process still has to do, and what it read that is unchanged
    gone,       \* IDs that were deleted (a uuid is not drawn twice)
    left        \* requests that may still begin

controlVars == <<store, call, gone, left>>

SourceDoc(place) == [kind |-> "source", place |-> place]
DestinationDoc(place, on) == [kind |-> "destination", place |-> place, enabled |-> on]
PipelineDoc(srcs, d, mode) ==
    [kind |-> "pipeline", sources |-> srcs, destination |-> d, mode |-> mode,
     status |-> "paused", reset |-> 0]
JobDoc(p, r) ==
    [kind |-> "job", pipeline |-> p, ref |-> r, status |-> "pending", late |-> FALSE, retries |-> 0]

Exists(id) == store[id] # None
Listed(ids) == {id \in ids : Exists(id)}

-----------------------------------------------------------------------------
(* Writes.  A handler leaves a list of writes to carry out, in its order.    *)

Idle == [op |-> "idle", id |-> "", todo |-> <<>>, fresh |-> {}]
Write(how, id, doc) == [how |-> how, id |-> id, doc |-> doc]

\* bugs: the document is written back, or replaced whatever happened to it
AnyVersion(c, id) == TRUE
StillThere(c, id) == Exists(id)

\* _replace_control_doc, replace_with_etag: only if nobody wrote the document since
Unchanged(c, id) == id \in call[c].fresh /\ Exists(id)

\* The written document has a new ETag, which only its writer knows.
Written(c, id, rest) ==
    [k \in Procs |-> IF k = c THEN rest ELSE [call[k] EXCEPT !.fresh = @ \ {id}]]

Remaining(c) ==
    LET rest == Tail(call[c].todo)
    IN  IF rest = <<>> THEN Idle ELSE [call[c] EXCEPT !.todo = rest]

Put(c, w, rest) ==
    /\ store' = [store EXCEPT ![w.id] = w.doc]
    /\ call' = Written(c, w.id, rest)
    /\ UNCHANGED <<gone, left>>

Replace(c) ==
    LET w == Head(call[c].todo) IN
    /\ w.how = "replace"
    /\ Unchanged(c, w.id)
    /\ Put(c, w, Remaining(c))

\* 409: the other writes of the handler are not carried out
Conflict(c) ==
    /\ Head(call[c].todo).how = "replace"
    /\ ~Unchanged(c, Head(call[c].todo).id)
    /\ call' = [call EXCEPT ![c] = Idle]
    /\ UNCHANGED <<store, gone, left>>

Upsert(c) ==
    LET w == Head(call[c].todo) IN
    /\ w.how = "upsert"
    /\ Put(c, w, Remaining(c))

\* Deleting what is gone raises NotFound: a handler that deletes one document
\* ends with it, the job cleanup of a reset continues.
Delete(c) ==
    LET w == Head(call[c].todo) IN
    /\ w.how = "delete"
    /\ store' = [store EXCEPT ![w.id] = None]
    /\ gone' = IF Exists(w.id) THEN gone \cup {w.id} ELSE gone
    /\ call' = Written(c, w.id, Remaining(c))
    /\ UNCHANGED left

\* The monitor skips a job that changed and goes on with the next one.
Recover(c) ==
    LET w == Head(call[c].todo) IN
    /\ w.how = "recover"
    /\ IF Unchanged(c, w.id)
       THEN Put(c, w, Remaining(c))
       ELSE call' = [call EXCEPT ![c] = Remaining(c)] /\ UNCHANGED <<store, gone, left>>

\* cosmos_retry gives up, or a cleanup fails: the handler answers 500 or 503
\* and leaves the writes after it undone.
StoreFails(c) ==
    /\ call[c].op # "import"
    /\ call' = [call EXCEPT ![c] = Idle]
    /\ UNCHANGED <<store, gone, left>>

-----------------------------------------------------------------------------
(* Requests.                                                                 *)

Begin(c, op, id, fresh, todo) ==
    /\ call[c] = Idle
    /\ left > 0
    /\ left' = left - 1
    /\ call' = [call EXCEPT ![c] = [op |-> op, id |-> id, todo |-> todo, fresh |-> fresh]]
    /\ UNCHANGED <<store, gone>>

\* a handler that replaces the one document it read
Revise(c, op, id, doc) == Begin(c, op, id, {id}, <<Write("replace", id, doc)>>)

FreshId(id) ==
    /\ ~Exists(id)
    /\ id \notin gone
    /\ \A k \in Procs : \A i \in DOMAIN call[k].todo : call[k].todo[i].id # id

UsesSource(p, s) == s \in store[p].sources
UsedBy(s) == {p \in Listed(Pipelines) : UsesSource(p, s)}
Targeting(d) == {p \in Listed(Pipelines) : store[p].destination = d}

\* The container check sees the sources of the moment of the listing; the
\* connection test is awaited before the document is written.
CreateSource(c, s, place) ==
    /\ FreshId(s)
    /\ \A other \in Listed(Sources) : store[other].place # place
    /\ Begin(c, "create", s, {}, <<Write("upsert", s, SourceDoc(place))>>)

\* The container of a source may be changed to one another source has.
UpdateSource(c, s, place) ==
    /\ Exists(s)
    /\ Begin(c, "update", s, {s}, <<Write("upsert", s, SourceDoc(place))>>)

DeleteSource(c, s) ==
    /\ Exists(s)
    /\ UsedBy(s) = {}
    /\ Begin(c, "delete", s, {}, <<Write("delete", s, None)>>)

\* enabled is what the probe of the container says
CreateDestination(c, d, place, enabled) ==
    /\ FreshId(d)
    /\ \A other \in Listed(Destinations) : store[other].place # place
    /\ Begin(c, "create", d, {}, <<Write("upsert", d, DestinationDoc(place, enabled))>>)

UpdateDestination(c, d, place, enabled) ==
    /\ Exists(d)
    /\ Begin(c, "update", d, {d}, <<Write("upsert", d, DestinationDoc(place, enabled))>>)

\* Enabling probes first; every active pipeline is then replayed, one by one.
PatchDestination(c, d, enabled) ==
    /\ Exists(d)
    /\ LET doc == [store[d] EXCEPT !.enabled = enabled]
           replay == IF enabled /\ ~store[d].enabled THEN <<Write("list", d, None)>> ELSE <<>>
       IN  Begin(c, "patch", d, {d}, <<Write("upsert", d, doc)>> \o replay)

DeleteDestination(c, d) ==
    /\ Exists(d)
    /\ Targeting(d) = {}
    /\ Begin(c, "delete", d, {}, <<Write("delete", d, None)>>)

\* the pipelines of the destination that are active when it has been enabled
ListReplayed(c) ==
    LET w == Head(call[c].todo)
        replayed == {p \in Targeting(w.id) : store[p].status = "active" /\ store[p].reset < MaxResets}
        Again(p) == Write("upsert", p, [store[p] EXCEPT !.reset = @ + 1])
        todo == [i \in 1..Cardinality(replayed) |-> Again(SetToSeq(replayed)[i])]
    IN  /\ w.how = "list"
        /\ call' = [call EXCEPT ![c] =
                        IF todo = <<>> THEN Idle
                        ELSE [call[c] EXCEPT !.todo = todo, !.fresh = @ \cup replayed]]
        /\ UNCHANGED <<store, gone, left>>

-----------------------------------------------------------------------------
(* Pipelines.                                                                *)

\* _is_inline_compatible: every source is the container of the destination
SameStore(srcs, d) == Exists(d) /\ \A s \in srcs : Exists(s) /\ store[s].place = store[d].place

\* _require_inline_compatible: what does not exist is not looked at
InlineAllowed(srcs, d) ==
    Exists(d) => \A s \in srcs : Exists(s) => store[s].place = store[d].place

\* _inline_write_target of the sources that exist
Targets(srcs) == {store[s].place : s \in Listed(srcs)}

OneSourcePerTarget(srcs) ==
    \A s, t \in Listed(srcs) : s # t => store[s].place # store[t].place

InlineOwner(p) == Exists(p) /\ store[p].status = "active" /\ store[p].mode = "inline"

\* _require_exclusive_inline_sources
Exclusive(srcs, p) ==
    /\ OneSourcePerTarget(srcs)
    /\ \A q \in Pipelines \ {p} :
           InlineOwner(q) => Targets(srcs) \cap Targets(store[q].sources) = {}

ModeAllowed(srcs, d, mode) ==
    IF mode = "inline" THEN InlineAllowed(srcs, d) ELSE ~SameStore(srcs, d)

\* Pipelines are created paused.
CreatePipeline(c, p, srcs, d, mode) ==
    /\ FreshId(p)
    /\ \A s \in srcs : Exists(s)
    /\ Exists(d)
    /\ ModeAllowed(srcs, d, mode)
    /\ mode = "inline" => Exclusive(srcs, p)
    /\ Begin(c, "create", p, {}, <<Write("upsert", p, PipelineDoc(srcs, d, mode))>>)

\* Sources and destination are immutable; the model, the policy and the
\* fields that no other handler reads are not represented.
UpdatePipeline(c, p, mode) ==
    /\ Exists(p)
    /\ ModeAllowed(store[p].sources, store[p].destination, mode)
    /\ mode = "inline" /\ store[p].status = "active" => Exclusive(store[p].sources, p)
    /\ Revise(c, "update", p, [store[p] EXCEPT !.mode = mode])

SetProcessingMode(c, p, mode) ==
    /\ Exists(p)
    /\ ModeAllowed(store[p].sources, store[p].destination, mode)
    /\ mode = "inline" /\ store[p].status = "active" => Exclusive(store[p].sources, p)
    /\ Revise(c, "mode", p, [store[p] EXCEPT !.mode = mode])

\* weights and packing: a new ETag, nothing that is represented here
UpdateResourcePolicy(c, p) ==
    /\ Exists(p)
    /\ Revise(c, "policy", p, store[p])

DeletePipeline(c, p) ==
    /\ Exists(p)
    /\ Begin(c, "delete", p, {}, <<Write("delete", p, None)>>)

PausePipeline(c, p) ==
    /\ Exists(p)
    /\ Revise(c, "pause", p, [store[p] EXCEPT !.status = "paused"])

ResumePipeline(c, p) ==
    /\ Exists(p)
    /\ store[p].mode = "inline" => Exclusive(store[p].sources, p)
    /\ Revise(c, "resume", p, [store[p] EXCEPT !.status = "active"])

\* A disabled destination is probed and enabled first; the pipeline is then
\* replayed.  Two documents, two ETags.
RunPipeline(c, p) ==
    LET d == store[p].destination
        wasOff == ~store[d].enabled
        active == [store[p] EXCEPT !.status = "active", !.reset = IF wasOff THEN @ + 1 ELSE @]
        enable == IF wasOff THEN <<Write("replace", d, [store[d] EXCEPT !.enabled = TRUE])>> ELSE <<>>
    IN  /\ Exists(p)
        /\ store[p].mode = "inline" => Exclusive(store[p].sources, p)
        /\ Exists(d)
        /\ wasOff => store[p].reset < MaxResets
        /\ Begin(c, "run", p, {p, d}, enable \o <<Write("replace", p, active)>>)

\* Pause, delete the jobs, set the new generation and restore the status.
PausedFirst(p) ==
    IF store[p].status = "active"
    THEN <<Write("replace", p, [store[p] EXCEPT !.status = "paused"])>>
    ELSE <<>>

Cleanup(p) == IF store[p].mode = "inline" THEN <<>> ELSE <<Write("jobs", p, None)>>

ResetPipeline(c, p) ==
    /\ Exists(p)
    /\ store[p].reset < MaxResets
    /\ store[p].status = "active" /\ store[p].mode = "inline" => Exclusive(store[p].sources, p)
    /\ Begin(c, "reset", p, {p},
             PausedFirst(p) \o Cleanup(p) \o
             <<Write("replace", p, [store[p] EXCEPT !.reset = @ + 1])>>)

\* the jobs of the pipeline, once it is paused
ListJobs(c) ==
    LET p == Head(call[c].todo).id
        found == SetToSeq({j \in Listed(Jobs) : store[j].pipeline = p})
        deletes == [i \in DOMAIN found |-> Write("delete", found[i], None)]
    IN  /\ Head(call[c].todo).how = "jobs"
        /\ call' = [call EXCEPT ![c].todo = deletes \o Tail(@)]
        /\ UNCHANGED <<store, gone, left>>

\* Every pipeline of the source is activated and, for a full synchronisation,
\* replayed, without an ETag and without the checks of resume_pipeline.
SyncSource(c, s, full, o) ==
    LET using == UsedBy(s)
        Synced(p) == [store[p] EXCEPT !.status = "active", !.reset = IF full THEN @ + 1 ELSE @]
        changed == SetToSeq({p \in using : Synced(p) # store[p]})
        record == [kind |-> "sync", pipelines |-> using, status |-> "running"]
    IN  /\ Exists(s)
        /\ using # {}
        /\ full => \A p \in using : store[p].reset < MaxResets
        /\ FreshId(o)
        /\ Begin(c, "sync", s, using,
                 [i \in DOMAIN changed |-> Write("upsert", changed[i], Synced(changed[i]))]
                 \o <<Write("upsert", o, record)>>)

\* The progress of a synchronisation is whatever the counters say.
GetSourceSync(c, o, status) ==
    /\ Exists(o)
    /\ status # store[o].status
    /\ Begin(c, "progress", o, {o}, <<Write("upsert", o, [store[o] EXCEPT !.status = status])>>)

-----------------------------------------------------------------------------
(* Export and import.                                                        *)

\* export_bundle of some pipelines: with the sources and destinations they use
ExportBundle(docs, ps) ==
    LET srcs == UNION {docs[p].sources : p \in ps}
        ds == {docs[p].destination : p \in ps}
    IN  [id \in ps \cup srcs \cup ds |-> docs[id]]

\* _rewrite_ids: references follow the documents that were renamed
Rewritten(doc, map) ==
    LET New(id) == IF id \in DOMAIN map THEN map[id] ELSE id
    IN  IF doc.kind = "pipeline"
        THEN [doc EXCEPT !.sources = {New(s) : s \in @}, !.destination = New(@), !.status = "paused"]
        ELSE doc

\* Sources and destinations come first; pipelines are imported paused.
\* new gives the IDs that are drawn for documents that exist already.
ImportBundle(c, conflict, new) ==
    LET In(ids) == SetToSeq({id \in DOMAIN Bundle \cap ids : conflict # "skip" \/ ~Exists(id)})
        order == In(Sources) \o In(Destinations) \o In(Pipelines)
        map == [id \in {i \in DOMAIN Bundle : conflict = "rename" /\ Exists(i)} |-> new[id]]
        Name(id) == IF id \in DOMAIN map THEN map[id] ELSE id
    IN  /\ \A id \in DOMAIN map : FreshId(map[id])
        /\ order # <<>>
        /\ Begin(c, "import", "", {},
                 [i \in DOMAIN order |-> Write("upsert", Name(order[i]), Rewritten(Bundle[order[i]], map))])

\* a document that cannot be written is reported, the others are written
ImportFails(c) ==
    /\ call[c].op = "import"
    /\ call' = [call EXCEPT ![c] = Remaining(c)]
    /\ UNCHANGED <<store, gone, left>>

-----------------------------------------------------------------------------
(* Jobs.                                                                     *)

\* A change feed reports a document; failed and cancelled jobs do not count.
CreateJobsBulk(c, j, p, r) ==
    /\ FreshId(j)
    /\ \A other \in Listed(Jobs) :
           store[other].pipeline = p /\ store[other].ref = r
               => store[other].status \in {"failed", "cancelled"}
    /\ Begin(c, "create", j, {}, <<Write("upsert", j, JobDoc(p, r))>>)

CancelJob(c, j) ==
    /\ Exists(j)
    /\ store[j].status = "pending"
    /\ Revise(c, "cancel", j, [store[j] EXCEPT !.status = "cancelled"])

PipelineActive(p) == Exists(p) /\ store[p].status = "active"

Retried(job) == [job EXCEPT !.status = "pending", !.late = FALSE, !.retries = @ + 1]

RetryJob(c, j) ==
    /\ Exists(j)
    /\ store[j].status = "failed"
    /\ store[j].retries < MAX_MANUAL_RETRIES
    /\ PipelineActive(store[j].pipeline)
    /\ Revise(c, "retry", j, Retried(store[j]))

\* monitor_job_health: one query, then the jobs it returned, one after the other
Stuck(job) == job.status = "processing" /\ job.late
\* a bug: only failed jobs are looked at
FailedOnly(job) == job.status = "failed" /\ job.retries < MAX_RETRY_COUNT

Recoverable(job) == Stuck(job) \/ (job.status = "failed" /\ job.retries < MAX_RETRY_COUNT)

MonitorQuery ==
    LET found == {j \in Listed(Jobs) : Recoverable(store[j])}
        todo == [i \in 1..Cardinality(found) |->
                    Write("look", SetToSeq(found)[i], store[SetToSeq(found)[i]])]
    IN  /\ call[Monitor] = Idle
        /\ found # {}
        /\ call' = [call EXCEPT ![Monitor] = [op |-> "monitor", id |-> "", todo |-> todo, fresh |-> found]]
        /\ UNCHANGED <<store, gone, left>>

\* A job is failed for its time and retried only for an active pipeline.
Recovered(job) ==
    LET failed == IF Stuck(job) THEN [job EXCEPT !.status = "failed", !.late = FALSE] ELSE job
    IN  IF failed.retries < MAX_RETRY_COUNT /\ PipelineActive(job.pipeline)
        THEN Retried(failed)
        ELSE failed

MonitorLook ==
    LET w == Head(call[Monitor].todo)
        doc == Recovered(w.doc)
    IN  /\ w.how = "look"
        /\ call' = [call EXCEPT ![Monitor] =
                        IF doc = w.doc THEN Remaining(Monitor)
                        ELSE [call[Monitor] EXCEPT !.todo = <<Write("recover", w.id, doc)>> \o Tail(@)]]
        /\ UNCHANGED <<store, gone, left>>

\* The worker, which is not part of the API, claims and finishes jobs.
WorkerUpdates(j, status) ==
    /\ Exists(j)
    /\ \/ store[j].status = "pending" /\ status = "processing"
       \/ store[j].status = "processing" /\ status \in {"completed", "failed"}
    /\ store' = [store EXCEPT ![j].status = status, ![j].late = FALSE]
    /\ call' = [k \in Procs |-> [call[k] EXCEPT !.fresh = @ \ {j}]]
    /\ UNCHANGED <<gone, left>>

\* JOB_TIMEOUT_MINUTES pass: the clock, not a write
JobTimesOut(j) ==
    /\ Exists(j)
    /\ store[j].status = "processing"
    /\ ~store[j].late
    /\ store' = [store EXCEPT ![j].late = TRUE]
    /\ UNCHANGED <<call, gone, left>>

-----------------------------------------------------------------------------
ControlInit ==
    /\ store \in InitialStores
    /\ call = [c \in Procs |-> Idle]
    /\ gone = {}
    /\ left = MaxRequests

SourceRequest(c) ==
    \E s \in Sources :
        \/ DeleteSource(c, s)
        \/ \E place \in Places : CreateSource(c, s, place) \/ UpdateSource(c, s, place)
        \/ \E full \in BOOLEAN, o \in Syncs : SyncSource(c, s, full, o)

SyncRequest(c) ==
    \E o \in Syncs, status \in {"running", "ready", "failed"} : GetSourceSync(c, o, status)

DestinationRequest(c) ==
    \E d \in Destinations :
        \/ DeleteDestination(c, d)
        \/ \E enabled \in BOOLEAN :
               \/ PatchDestination(c, d, enabled)
               \/ \E place \in Places :
                      \/ CreateDestination(c, d, place, enabled)
                      \/ UpdateDestination(c, d, place, enabled)

PipelineRequest(c) ==
    \E p \in Pipelines :
        \/ DeletePipeline(c, p)
        \/ UpdateResourcePolicy(c, p)
        \/ PausePipeline(c, p)
        \/ ResumePipeline(c, p)
        \/ RunPipeline(c, p)
        \/ ResetPipeline(c, p)
        \/ \E mode \in Modes :
               \/ UpdatePipeline(c, p, mode)
               \/ SetProcessingMode(c, p, mode)
               \/ \E srcs \in SUBSET Sources \ {{}}, d \in Destinations :
                      CreatePipeline(c, p, srcs, d, mode)

ImportRequest(c) ==
    \E conflict \in {"skip", "overwrite", "rename"} : ImportBundle(c, conflict, NewIds)

JobRequest(c) ==
    \E j \in Jobs :
        \/ CancelJob(c, j)
        \/ RetryJob(c, j)
        \/ \E p \in Pipelines, r \in Refs : CreateJobsBulk(c, j, p, r)

Step(c) ==
    /\ call[c].todo # <<>>
    /\ \/ Replace(c)
       \/ Conflict(c)
       \/ Upsert(c)
       \/ Delete(c)
       \/ ListReplayed(c)
       \/ ListJobs(c)

MonitorStep ==
    \/ MonitorQuery
    \/ call[Monitor].todo # <<>> /\ (MonitorLook \/ Recover(Monitor))

ControlNext ==
    \/ \E c \in Calls :
           \/ SourceRequest(c) \/ DestinationRequest(c) \/ PipelineRequest(c)
           \/ JobRequest(c) \/ SyncRequest(c) \/ ImportRequest(c)
           \/ Step(c)
           \/ call[c].todo # <<>> /\ (StoreFails(c) \/ ImportFails(c))
    \/ MonitorStep
    \/ \E j \in Jobs :
           \/ JobTimesOut(j)
           \/ \E status \in {"processing", "completed", "failed"} : WorkerUpdates(j, status)

\* Threads run on, the controller polls for ever; nobody has to send a request
\* and a worker may hang.
ControlSpec ==
    /\ ControlInit /\ [][ControlNext]_controlVars
    /\ WF_controlVars(MonitorStep)
    /\ \A c \in Calls : WF_controlVars(Step(c))

-----------------------------------------------------------------------------
(* Properties.                                                               *)

\* Type invariant: every ID has a document of its type or none, and handlers
\* are idle exactly when they have nothing left to write.
ControlTypeOK ==
    /\ \A id \in Ids : store[id] \in DocOf(id) \cup {None}
    /\ \A c \in Procs : (call[c] = Idle <=> call[c].todo = <<>>) /\ call[c].fresh \subseteq Ids
    /\ gone \subseteq Ids
    /\ left \in 0..MaxRequests

\* A job that a reset deleted does not come back, whatever retry, cancel,
\* monitor or worker had read before it was deleted.
JobsStayDeleted == \A j \in Jobs \cap gone : ~Exists(j)

\* The monitor recovers jobs "without overwriting concurrent worker updates":
\* the result of a worker is final, only a reset removes it.
CompletedKept ==
    [][\A j \in Jobs :
          Exists(j) /\ store[j].status = "completed" => store'[j] \in {store[j], None}]_controlVars

\* what a handler may change of a pipeline
OwnFieldOnly(op, now, later) ==
    CASE op \in {"pause", "resume"} -> later = [now EXCEPT !.status = later.status]
      [] op \in {"update", "mode"} -> later = [now EXCEPT !.mode = later.mode]
      [] op = "policy" -> later = now
      [] op = "reset" -> /\ later = [now EXCEPT !.reset = @ + 1, !.status = later.status]
                         /\ now.status = "paused"
      [] OTHER -> TRUE

\* _replace_control_doc rejects "stale lifecycle actions rather than overwriting
\* newer state": what a pause, a resume or an update of the mode writes differs
\* from the document of that moment in its own field only, and a reset that
\* restores the status finds the pipeline as it left it when it paused it.
NoLostUpdate ==
    [][\A c \in Calls : \A p \in Pipelines :
          call[c].id = p /\ call[c].todo # <<>> /\ store'[p] # store[p] /\ call'[c] = Idle /\ Exists(p)
          => OwnFieldOnly(call[c].op, store[p], store'[p])]_controlVars

\* A reset never works on a running pipeline, and one that stops half way leaves
\* it paused in its old generation: once past its first write, and until another
\* handler writes the pipeline, it is paused and not yet reset.
ResetWorksPaused ==
    \A c \in Calls : \A p \in Pipelines :
        LET todo == call[c].todo IN
        /\ call[c].op = "reset" /\ call[c].id = p
        /\ ~(Head(todo).how = "replace" /\ Len(todo) > 1)
        /\ Unchanged(c, p)
        => /\ store[p].status = "paused"
           /\ store[p].reset + 1 = todo[Len(todo)].doc.reset

\* Nothing that was read some time ago undoes a reset: its jobs stay deleted,
\* and it works on a paused pipeline from its first write to its last.
ControlInv == ControlTypeOK /\ JobsStayDeleted /\ ResetWorksPaused

\* What somebody wrote after a handler, the monitor or a worker read it is kept.
NothingOverwritten == CompletedKept /\ NoLostUpdate

\* A job whose worker hangs is failed or retried in the end, although other
\* requests touch it and the monitor skips what changed.
StuckRecovered ==
    \A j \in Jobs : (Exists(j) /\ Stuck(store[j])) ~> ~(Exists(j) /\ Stuck(store[j]))
=============================================================================
