---------------------------- MODULE MCOperations ----------------------------
(* The parts around the core: write-back to OneLake, the Python publishers,  *)
(* cloud deployments, telemetry, progress and checkpoints, health checks and *)
(* the search service; and the revision fence of the SharePoint destination. *)
(* A behaviour is one of one part, chosen in the initial state.              *)
EXTENDS OneLake, QueuePublish, CloudDeployments, Telemetry, ProgressReports, HealthChecks, Search, SyntheticRuns,
        SharePointFence

VARIABLE part
operationVars == <<oneLakeVars, queueVars, cloudVars, telemetryVars, reportVars, healthVars, searchVars, runVars>>
allVars == <<part, operationVars, vars>>

\* two documents that fit together, one of another route, one of another
\* pipeline, one too large to be packed
Doc(id, pipeline, route, bytes) == [id |-> id, pipeline |-> pipeline, route |-> route, size |-> bytes]
MCDocuments == {Doc(1, "p", "u", 2), Doc(2, "p", "u", 3), Doc(3, "p", "x", 2), Doc(4, "q", "u", 2), Doc(5, "p", "u", 9)}
Policy(count, envelope, publish, batch) == [count |-> count, envelope |-> envelope, publish |-> publish, batch |-> batch]
MCPolicies == [p |-> Policy(3, 8, 2, 9), q |-> Policy(2, 9, 4, 11)]

\* sources and destinations with all checks, with some and with none, and
\* what the last jobs were
MCStores == {<<"cosmosdb", "cosmosdb", "idle", FALSE>>, <<"cosmosdb", "cosmosdb", "started", FALSE>>,
             <<"cosmosdb", "cosmosdb", "completed", FALSE>>, <<"cosmosdb", "cosmosdb", "completed", TRUE>>,
             <<"postgresql", "pgvector", "idle", FALSE>>, <<"postgresql", "other", "idle", FALSE>>,
             <<"other", "mssql", "idle", FALSE>>}

Entry(done, estimated, pending, error) ==
    [done |-> done, estimated |-> estimated, pending |-> pending, error |-> error, seen |-> TRUE]
MCEntries == {Entry(2, 2, 0, FALSE), Entry(0, 1, 1, TRUE)}

MCOutcome == [b1 |-> "embedded", b2 |-> "failed"]

\* small pages of messages that leave room for content, a large one that does
\* not
SmallPages == [page |-> 2, overhead |-> 3]
IdlePipeline == [status |-> "paused", policy |-> SmallPages]
MCRunPolicies == {SmallPages, [page |-> 3, overhead |-> 4], [page |-> 3, overhead |-> 5]}

MCTokens == [key |-> [scope |-> "search", limit |-> 2], free |-> [scope |-> "search", limit |-> 0],
             root |-> [scope |-> "admin", limit |-> -1]]
Row(id, value) == [id |-> id, value |-> value]
MCCorpus == [v |-> <<Row("d1", 3), Row("d2", 2), Row("d3", 1)>>, f |-> <<Row("d2", 0), Row("d4", 0)>>,
             p |-> <<Row("d1", 0), Row("d2", 6)>>, q |-> <<Row("d1", -9), Row("d3", 2)>>, g |-> <<Row("d1", 1), Row("d5", 12)>>,
             h |-> <<Row("d6", 7), Row("d1", 4)>>]
Index(id, kind, policy, metric, group, auth) ==
    [id |-> id, store |-> kind, policy |-> policy, metric |-> metric, group |-> group, limit |-> 0, auth |-> auth,
     fits |-> TRUE, params |-> "none"]
\* a vector and a full-text index over one container; indexes that refuse next
\* to one that does not; measures of all stores
Hybrid == <<Index("v", "cosmosdb", "text", "cosine", "g", "key"), Index("f", "cosmosdb", "fts", "cosine", "g", "key")>>
Refusing == <<[Index("v", "cosmosdb", "text", "cosine", "v", "none") EXCEPT !.fits = FALSE],
              [Index("p", "pgvector", "image", "l2", "p", "none") EXCEPT !.limit = 1]>>
Filtered == <<[Index("q", "pgvector", "precomputed", "dot", "q", "none") EXCEPT !.params = "named"],
              Index("h", "garnet", "precomputed", "dot", "h", "none")>>
Measures == {<<Index("p", "pgvector", "text", "l2", "p", "none"), Index("g", "garnet", "text", "cosine", "g", "none")>>,
             <<Index("q", "pgvector", "text", "dot", "q", "none"), Index("h", "garnet", "image", "dot", "h", "key")>>}
Request(indexes, strategy, top_k, strict) ==
    [words |-> <<"w", "w">>, image |-> FALSE, indexes |-> indexes, strategy |-> strategy, per_index |-> 2, top_k |-> top_k,
     strict |-> strict]
MCRequests ==
    {Request(Hybrid, s, 3, FALSE) : s \in {"rrf", "round_robin", "score", "per_index"}}
    \cup {Request(ixs, "score", 3, FALSE) : ixs \in Measures \cup {Filtered}}
    \cup {Request(Refusing, "rrf", 2, TRUE), [Request(Hybrid, "score", 2, FALSE) EXCEPT !.words = <<>>, !.image = TRUE]}

-----------------------------------------------------------------------------

\* parts that are not chosen have one initial state
MCInit ==
    /\ part \in {"onelake", "queue", "cloud", "telemetry", "progress", "checkpoints", "health", "search", "synthetic", "fence"}
    /\ OneLakeInit /\ edits = (IF cdf THEN 1 ELSE 0)
    /\ \A r \in Refs : table[r].content # "b"   \* the two texts are alike
    /\ part # "onelake" => ~cdf /\ table = [r \in Refs |-> NoRow]
    /\ QueueInit /\ (part # "queue" => queueDocs = <<>>)
    /\ CloudInit /\ (part # "cloud" => azure = NoEffects)
    /\ TelemetryInit /\ replica["r1"].exporter = "ready" /\ (part # "telemetry" => replica["r2"].exporter = "ready")
    /\ ReportInit /\ SearchInit
    /\ HealthInit /\ \A x \in HealthSources : <<stores[x], stores["destination"], recent.work, recent.failed>> \in MCStores
    /\ part # "health" => stores["destination"] = "mssql"
    /\ RunsInit /\ (part # "synthetic" => destination = "missing" /\ \A p \in RunPipelines : pipelines[p] = IdlePipeline)
    /\ Init /\ (part # "fence" => \A c \in Call : rev[c] = 1 /\ size[c] = 0)
    /\ LET first == CHOOSE c \in Call : TRUE IN \A c \in Call : rev[first] <= rev[c]   \* the calls are alike

OneLakePart == part = "onelake" /\ UNCHANGED <<part, queueVars, cloudVars, telemetryVars, reportVars, healthVars, searchVars, runVars, vars>>
CloudPart == part = "cloud" /\ UNCHANGED <<part, oneLakeVars, queueVars, telemetryVars, reportVars, healthVars, searchVars, runVars, vars>>
FencePart == part = "fence" /\ UNCHANGED <<part, operationVars>>

MCNext ==
    \/ OneLakePart /\ OneLakeNext
    \/ CloudPart /\ CloudNext
    \/ FencePart /\ Next
    \/ part = "queue" /\ QueueNext /\ UNCHANGED <<part, oneLakeVars, cloudVars, telemetryVars, reportVars, healthVars, searchVars, runVars, vars>>
    \/ part = "telemetry" /\ TelemetryNext /\ UNCHANGED <<part, oneLakeVars, queueVars, cloudVars, reportVars, healthVars, searchVars, runVars, vars>>
    \/ part = "progress" /\ ReportNext /\ UNCHANGED <<part, oneLakeVars, queueVars, cloudVars, telemetryVars, healthVars, searchVars, runVars, vars>>
    \/ part = "checkpoints" /\ CheckpointNext /\ UNCHANGED <<part, oneLakeVars, queueVars, cloudVars, telemetryVars, healthVars, searchVars, runVars, vars>>
    \/ part = "health" /\ HealthNext /\ UNCHANGED <<part, oneLakeVars, queueVars, cloudVars, telemetryVars, reportVars, searchVars, runVars, vars>>
    \/ part = "search" /\ SearchNext /\ UNCHANGED <<part, oneLakeVars, queueVars, cloudVars, telemetryVars, reportVars, healthVars, runVars, vars>>
    \/ part = "synthetic" /\ RunsNext /\ UNCHANGED <<part, oneLakeVars, queueVars, cloudVars, telemetryVars, reportVars, healthVars, searchVars, vars>>

\* of the workers of a deployment some one goes on, not every one
MCFairness ==
    /\ WF_allVars(OneLakePart /\ WatcherStep) /\ WF_allVars(OneLakePart /\ RetryDue)
    /\ \A r \in Refs : WF_allVars(OneLakePart /\ MergeStep(r))
    /\ WF_allVars(CloudPart /\ LeaseRuns)
    /\ WF_allVars(CloudPart /\ \E w \in DeployWorkers : DeployerStep(w))
    /\ \A c \in Call : WF_allVars(FencePart /\ Step(c))

\* Work that was taken on ends.  The claim loop of the fence has no bound and
\* every conflict sends the call back to its read, yet each call returns or
\* throws; an approved deployment ends, or is interrupted for the administrator
\* to look at, even if the worker that claimed it is lost.
WorkEnds == <>[](CallsEnded /\ DeploymentSettled)

MCSpec == MCInit /\ [][MCNext]_allVars /\ MCFairness
=============================================================================
