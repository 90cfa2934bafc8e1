---------------------------- MODULE HealthChecks ----------------------------
(***************************************************************************)
(* Health checks.  The controller runs all of them, the API all or one     *)
(* section, which it merges into the results stored before.  A run loads   *)
(* the resources, probes them section by section, judges the pipelines by  *)
(* what it found or by what was stored, and overwrites the document.       *)
(*                                                                         *)
(* There is one pipeline, over all sources, one destination, one model.    *)
(***************************************************************************)
EXTENDS Naturals, Sequences, FiniteSets, SequencesExt, FiniteSetsExt

CONSTANTS HealthSources,
          Checkers,     \* processes that run checks
          MaxEvents,    \* bound: changes of the world
          MaxChecks     \* bound: runs

\* IDs of sources are not the names of the other resources
ASSUME HealthAssumption ==
    IsFiniteSet(HealthSources) /\ HealthSources \cap {"destination", "model", "services", "pipeline"} = {}

VARIABLES world,    \* how each resource really is
          stores,   \* kind of each source and of the destination
          recent,   \* the last jobs of the pipeline: what the last 120 s saw, a failed write
          checker,  \* of each process: the run under way, or NoCheck
          health,   \* the stored document
          events, checks
healthVars == <<world, stores, recent, checker, health, events, checks>>

Resources == HealthSources \cup {"destination", "model", "services"}
Sections == {"sources", "destinations", "models", "pipelines", "services"}
Ids(section) ==
    CASE section = "sources" -> HealthSources [] section = "destinations" -> {"destination"}
      [] section = "models" -> {"model"} [] section = "services" -> {"services"} [] OTHER -> {"pipeline"}
Conditions(x) ==
    CASE x \in HealthSources -> {"up", "down", "unreadable", "disabled", "gone"}
      [] x = "destination" -> {"up", "down", "disabled", "gone", "no policy", "not writable"}
      [] x = "model" -> {"up", "down", "gone", "unverified"}
      [] OTHER -> {"up", "down", "saturated"}

\* a blob container is checked like one of Cosmos DB, PostgreSQL stands for the
\* sources whose every check reads, Garnet is a destination like SQL Server;
\* other types, and SQL Server without its driver, have no check
SourceKinds == {"cosmosdb", "postgresql", "other"}
DestinationKinds == {"cosmosdb", "pgvector", "mssql", "other"}
\* the youngest of the last 20 jobs of an active pipeline: older than 120 s,
\* started since, completed since; one of them may have failed to write
Activity == [work : {"idle", "started", "completed"}, failed : BOOLEAN]

\* results of the sections, "none" where there is no entry
NoResults == [x \in Resources \cup {"pipeline"} |-> "none"]
NoHealth == [results |-> NoResults, overall |-> "unknown", section |-> "none", truth |-> "none"]
NoCheck == [section |-> "none"]

HealthInit ==
    /\ world = [x \in Resources |-> "up"]
    /\ stores \in {[x \in HealthSources \cup {"destination"} |-> IF x = "destination" THEN d ELSE s] :
                      s \in SourceKinds, d \in DestinationKinds}
    /\ recent \in Activity
    /\ checker = [c \in Checkers |-> NoCheck]
    /\ health = NoHealth /\ events = 0 /\ checks = 0

Disturb == checker' = [c \in Checkers |-> IF checker[c] = NoCheck THEN NoCheck ELSE [checker[c] EXCEPT !.stable = FALSE]]

WorldChanges(x) ==
    /\ events < MaxEvents
    /\ \E v \in Conditions(x) \ {world[x]} : world' = [world EXCEPT ![x] = v]
    /\ events' = events + 1 /\ Disturb
    /\ UNCHANGED <<stores, recent, health, checks>>

\* a job starts, completes or fails, or the last one is 120 s ago
JobsChange ==
    /\ events < MaxEvents
    /\ recent' \in Activity \ {recent}
    /\ events' = events + 1 /\ Disturb
    /\ UNCHANGED <<world, stores, health, checks>>

-----------------------------------------------------------------------------
(* The probes.                                                              *)

\* no read is tried on a source whose pipeline had a job in the last 120 s
CheckSource(kind, v, jobs) ==
    CASE v = "disabled" -> "warning" [] v = "gone" -> "none" [] v = "up" -> "healthy"
      [] v = "down" -> IF kind = "other" THEN "healthy" ELSE "unhealthy"
      [] OTHER -> IF kind = "other" \/ (kind = "cosmosdb" /\ jobs.work # "idle") THEN "healthy" ELSE "unhealthy"

\* writing to Cosmos DB alone is checked: by the failed jobs, and if there are
\* none and no job completed in the last 120 s by a write
WriteDenied(v, jobs) == jobs.failed \/ (v = "not writable" /\ jobs.work # "completed")
CheckDestination(kind, v, jobs) ==
    IF v = "gone" THEN "none" ELSE IF v = "disabled" THEN "warning"
    ELSE IF kind = "other" THEN "healthy"
    ELSE IF v = "down" \/ (kind = "cosmosdb" /\ WriteDenied(v, jobs)) THEN "unhealthy"
    ELSE IF v = "no policy" /\ kind # "mssql" THEN "warning" ELSE "healthy"
\* a model that a pipeline names and that is not registered has an entry
CheckModel(v) == CASE v = "up" -> "healthy" [] v = "unverified" -> "warning" [] OTHER -> "unhealthy"
CheckServices(v) == CASE v = "up" -> "healthy" [] v = "saturated" -> "warning" [] OTHER -> "unhealthy"

Probe(kinds, x, v, jobs) ==
    CASE x \in HealthSources -> CheckSource(kinds[x], v, jobs) [] x = "destination" -> CheckDestination(kinds[x], v, jobs)
      [] x = "model" -> CheckModel(v) [] OTHER -> CheckServices(v)

\* a bug: the last check decides
LastWins(status, new) == new
\* healthy -> warning -> unhealthy
Escalate(status, new) ==
    IF new = "unhealthy" \/ (new = "warning" /\ status = "healthy") THEN new ELSE status

\* what a part of the pipeline says of it: resource as it was loaded, entry of
\* the results; without an entry the part counts as well, a model if it is
\* registered when the pipeline is judged
Judge(x, loaded, entry) ==
    IF x # "model" /\ loaded \in {"gone", "disabled"} THEN "unhealthy"
    ELSE IF entry = "none" /\ x = "model" THEN IF loaded = "gone" THEN "warning" ELSE "healthy"
    ELSE IF entry = "none" THEN "healthy" ELSE entry
Parts == SetToSeq(HealthSources) \o <<"destination", "model">>
CheckPipeline(loaded, results) ==
    FoldLeft(LAMBDA s, x : Escalate(s, Judge(x, loaded[x], results[x])), "healthy", Parts)

-----------------------------------------------------------------------------
(* A run.                                                                   *)

\* all: every section, nothing is taken from the stored document
StartChecks(c, section) ==
    /\ checker[c] = NoCheck /\ checks < MaxChecks
    /\ checks' = checks + 1
    /\ checker' = [checker EXCEPT ![c] =
            [section |-> section, todo |-> IF section = "all" THEN Sections \ {"pipelines"} ELSE {section} \ {"pipelines"},
             loaded |-> world, jobs |-> recent, results |-> IF section = "all" THEN NoResults ELSE health.results, stable |-> TRUE]]
    /\ UNCHANGED <<world, stores, recent, health, events>>

Order == <<"sources", "destinations", "models", "services">>
Turn(run) == Order[Min({i \in DOMAIN Order : Order[i] \in run.todo})]
\* a resource that was loaded is probed as it is now; one added or enabled since
\* is not known to the run
Probed(run, section) ==
    [x \in DOMAIN run.results |->
        IF x \notin Ids(section) THEN run.results[x]
        ELSE IF x # "model" /\ x # "services" /\ run.loaded[x] \in {"gone", "disabled"} THEN Probe(stores, x, run.loaded[x], run.jobs)
        ELSE IF world[x] = "gone" /\ x # "model" THEN "unhealthy"
        ELSE IF world[x] = "disabled" THEN "healthy" ELSE Probe(stores, x, world[x], run.jobs)]

RunSection(c) ==
    LET run == checker[c] IN
    /\ run # NoCheck /\ run.todo # {}
    /\ checker' = [checker EXCEPT ![c] = [run EXCEPT !.todo = @ \ {Turn(run)}, !.results = Probed(run, Turn(run))]]
    /\ UNCHANGED <<world, stores, recent, health, events, checks>>

\* an unexpected exception of a check is its result
SectionFails(c) ==
    LET run == checker[c] IN
    /\ run # NoCheck /\ run.todo # {} /\ Turn(run) # "models" /\ events < MaxEvents
    /\ events' = events + 1
    /\ checker' = [checker EXCEPT ![c] = [run EXCEPT !.todo = @ \ {Turn(run)}, !.stable = FALSE,
            !.results = [x \in DOMAIN @ |-> IF x \in Ids(Turn(run)) /\ (x = "services" \/ run.loaded[x] # "gone") THEN "unhealthy" ELSE @[x]]]]
    /\ UNCHANGED <<world, stores, recent, health, checks>>

Worst(results) ==
    LET all == {results[x] : x \in DOMAIN results} IN
    IF "unhealthy" \in all THEN "unhealthy" ELSE IF "warning" \in all THEN "warning" ELSE "healthy"

\* conditions of a resource that no check looks for, or not at this time
Overlooked(x) ==
    IF x \notin HealthSources \cup {"destination"} THEN {}
    ELSE IF stores[x] = "other" THEN {"down", "unreadable", "no policy", "not writable"}
    ELSE IF x \in HealthSources THEN IF stores[x] = "cosmosdb" /\ recent.work # "idle" THEN {"unreadable"} ELSE {}
    ELSE IF stores[x] = "mssql" THEN {"no policy", "not writable"}
    ELSE IF stores[x] = "pgvector" \/ (recent.work = "completed" /\ ~recent.failed) THEN {"not writable"} ELSE {}

\* what there is to find: nothing, a fault, or what a run says is left open
Truth ==
    IF \E x \in Resources : world[x] \notin {"up"} \cup Overlooked(x) THEN "ill"
    ELSE IF \A x \in Resources : world[x] = "up" /\ ~recent.failed THEN "well" ELSE "hidden"

\* the pipelines are judged by what the run has found or the last document has
\* of their parts, and the document is stored whole
StoreHealth(c) ==
    LET run == checker[c]
        judged == IF run.section \in {"all", "pipelines"}
                  THEN [run.results EXCEPT !["pipeline"] = CheckPipeline([run.loaded EXCEPT !["model"] = world["model"]], run.results)] ELSE run.results IN
    /\ run # NoCheck /\ run.todo = {}
    /\ health' = [results |-> judged, overall |-> Worst(judged), section |-> run.section,
                  truth |-> IF ~run.stable THEN "none" ELSE Truth]
    /\ checker' = [checker EXCEPT ![c] = NoCheck]
    /\ UNCHANGED <<world, stores, recent, events, checks>>

HealthNext ==
    \/ (\E x \in Resources : WorldChanges(x)) \/ JobsChange
    \/ \E c \in Checkers :
        \/ (\E section \in Sections \cup {"all"} : StartChecks(c, section))
        \/ RunSection(c) \/ SectionFails(c) \/ StoreHealth(c)

HealthSpec == HealthInit /\ [][HealthNext]_healthVars

-----------------------------------------------------------------------------

Rank(status) == CASE status \in {"none", "healthy"} -> 0 [] status = "warning" -> 1 [] OTHER -> 2

\* Whichever runs overlap and whatever changes while they probe: in a document
\* whose pipelines were judged by its writer, the pipeline is at least as bad as
\* the document says of each of its parts; the summary is as bad as the worst
\* entry; and a full run during which nothing changed says that all is well if
\* every resource is and no job failed to write, and does not if one is not, by a
\* fault that a check looks for: a source that was active or a destination just
\* written to is taken to be accessible, and types without a check are.
HealthSound ==
    /\ health.section \in {"all", "pipelines"} =>
        \A x \in ToSet(Parts) : Rank(health.results["pipeline"]) >= Rank(health.results[x])
    /\ health.section # "none" => \A x \in DOMAIN health.results : Rank(health.overall) >= Rank(health.results[x])
    /\ health.section = "all" /\ health.truth = "well" => health.overall = "healthy"
    /\ health.section = "all" /\ health.truth = "ill" => health.overall # "healthy"
=============================================================================
