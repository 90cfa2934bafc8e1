----------------------------- MODULE Telemetry ------------------------------
(***************************************************************************)
(* Metrics of a pipeline.  Workers report a batch until a replica of the   *)
(* API answers; a replica counts it in memory, deduplicated by a bounded   *)
(* list, and exports a record of it in the background.  Dashboards query   *)
(* the records, which may hold a batch several times, and fall back to the *)
(* counters in memory.  Resetting the pipeline hides what was reported     *)
(* before it.                                                              *)
(*                                                                         *)
(* A batch embeds one document, or fails to.  The clock advances with      *)
(* every reset.                                                            *)
(***************************************************************************)
EXTENDS Naturals, Sequences, FiniteSets, SequencesExt

CONSTANTS Batches,       \* batch keys
          Outcome,       \* of each: "embedded" or "failed"
          ApiReplicas,
          AskedReplicas, \* bound: those that dashboards ask
          MaxSeen,       \* _MAX_SEEN_BATCHES
          MaxUpsets,     \* bound: resets of the pipeline and restarts of replicas
          MaxPosts       \* bound: reports sent

VARIABLES reported,   \* when a batch was reported, or NotYet
          posts,      \* reports sent
          replica,    \* of each replica: counters, seen batches, records not exported
          records,    \* records in the workspace
          resetAt,    \* of the pipeline; 0 when it was never reset
          clock,
          query,      \* under way, or NoQuery (bound: one at a time)
          restarts
telemetryVars == <<reported, posts, replica, records, resetAt, clock, query, restarts>>

NotYet == 0
NoQuery == [by |-> "none", cutoff |-> 0]
\* what is counted: everything, the pipeline, its model, the pair of them
Scopes == {"all", "pipeline", "model", "pair"}
Nothing == [embedded |-> 0, failed |-> 0]
NoCache == [ok |-> FALSE, cutoff |-> 0, fresh |-> FALSE, count |-> Nothing, found |-> {}]
\* exporter: whether the connection string is set and the exporter works
Started(e) == [exporter |-> e, counters |-> [s \in Scopes |-> Nothing], seen |-> <<>>, buffer |-> {}, cache |-> NoCache]

TelemetryInit ==
    /\ reported = [b \in Batches |-> NotYet] /\ posts = 0
    /\ replica \in [ApiReplicas -> {Started("ready"), Started("failed")}]
    /\ records = {} /\ resetAt = 0 /\ clock = 1
    /\ query = NoQuery /\ restarts = 0

-----------------------------------------------------------------------------
(* Reports of workers.                                                      *)

Remember(seen, b) == LET s == Append(seen, b) IN IF Len(s) > MaxSeen THEN Tail(s) ELSE s

\* every scope gains the documents of the batch
Recorded(counters, b) == [s \in Scopes |-> [counters[s] EXCEPT ![Outcome[b]] = @ + 1]]

\* counted in memory, to be exported, and remembered
Counted(rep, b, time) ==
    [rep EXCEPT !.counters = Recorded(@, b), !.seen = Remember(@, b),
                !.buffer = @ \cup {[key |-> b, time |-> time]}]

\* a report, the first or a repetition of one whose answer was lost; a replica
\* whose exporter does not work refuses it
ReportInlineMetrics(r, b) ==
    LET time == IF reported[b] = NotYet THEN clock ELSE reported[b] IN
    /\ posts < MaxPosts /\ posts' = posts + 1
    /\ reported' = [reported EXCEPT ![b] = time]
    /\ replica' = IF replica[r].exporter = "failed" \/ b \in ToSet(replica[r].seen) THEN replica
                  ELSE [replica EXCEPT ![r] = Counted(@, b, time)]
    /\ UNCHANGED <<records, resetAt, clock, query, restarts>>

\* the time at which a record arrives differs from that of the report
Export(r) ==
    /\ replica[r].buffer # {}
    /\ records' = records \cup {[key |-> e.key, time |-> e.time, generated |-> clock, by |-> r] : e \in replica[r].buffer}
    /\ replica' = [replica EXCEPT ![r].buffer = {}]
    /\ UNCHANGED <<reported, posts, resetAt, clock, query, restarts>>

Undisrupted == restarts + clock <= MaxUpsets   \* bound

\* the process restarts: counters, the list and what was not exported are lost
RestartReplica(r) ==
    /\ Undisrupted /\ replica[r].seen # <<>>
    /\ restarts' = restarts + 1
    /\ replica' = [replica EXCEPT ![r] = Started(@.exporter)]
    /\ query' = IF query.by = r THEN NoQuery ELSE query
    /\ UNCHANGED <<reported, posts, records, resetAt, clock>>

\* the replica that resets the pipeline drops the counters of it and the cache;
\* those of everything and of the model stay
ResetMetrics(r) ==
    /\ Undisrupted
    /\ clock' = clock + 1 /\ resetAt' = clock + 1
    /\ replica' = [replica EXCEPT ![r].counters = [@ EXCEPT !["pipeline"] = Nothing, !["pair"] = Nothing], ![r].cache = NoCache]
    /\ UNCHANGED <<reported, posts, records, query, restarts>>

-----------------------------------------------------------------------------
(* Dashboards.                                                              *)

\* one record for each batch key
EmbeddingBatches(recs) == {e.key : e \in recs}

\* a bug: the cutoff is compared with the time a record arrived
ByArrival(e, cutoff) == e.generated >= cutoff
CutoffFilter(e, cutoff) == e.time >= cutoff

TotalsOf(keys) == [o \in {"embedded", "failed"} |-> Cardinality({b \in keys : Outcome[b] = o})]

Summary(cutoff) ==
    [ok |-> TRUE, cutoff |-> cutoff, fresh |-> TRUE,
     count |-> TotalsOf(EmbeddingBatches({e \in records : CutoffFilter(e, cutoff)})),
     found |-> {b \in Batches : reported[b] >= cutoff /\ \E e \in records : e.key = b}]

\* one bucket for every time in the window.  The workspace leaves out the records
\* that did not arrive in the window, before batches are told apart.
Timeseries(from, to, cutoff) ==
    LET arrived == {e \in records : e.generated \in from .. to} IN
    [t \in from .. to |-> TotalsOf(EmbeddingBatches({e \in arrived : CutoffFilter(e, cutoff) /\ e.time = t}))]

\* the summary in the cache is used for ten seconds
CacheAges(r) ==
    /\ replica[r].cache.fresh
    /\ replica' = [replica EXCEPT ![r].cache = NoCache]
    /\ UNCHANGED <<reported, posts, records, resetAt, clock, query, restarts>>

\* what is in memory since the process started, as dashboards see it
Snapshot(r) == replica[r].counters

\* what a dashboard is told of the pipeline; without a summary the counters in
\* memory, which cannot be split by a reset
Reported(r, s) ==
    IF s.ok THEN [source |-> "app_insights", cutoff |-> s.cutoff, count |-> s.count, found |-> s.found]
    ELSE [source |-> "in_memory", cutoff |-> s.cutoff, found |-> {},
          count |-> IF s.cutoff > 0 THEN Nothing ELSE Snapshot(r)["pipeline"]]

\* and of everything: rows tells whether the metrics were answered, s the summary
GetMetrics(r, rows, s) ==
    IF ~rows THEN [source |-> "in_memory", known |-> TRUE, count |-> Snapshot(r)["all"]]
    ELSE IF s.ok THEN [source |-> "app_insights", known |-> TRUE, count |-> s.count]
    ELSE [source |-> "app_insights", known |-> FALSE, count |-> Nothing]

\* the cutoff is that of the pipeline as it was read; a fresh summary for it
\* answers without a query
StartQuery(r) ==
    /\ r \in AskedReplicas /\ query = NoQuery /\ ~(replica[r].cache.fresh /\ replica[r].cache.cutoff = resetAt)
    /\ query' = [by |-> r, cutoff |-> resetAt]
    /\ UNCHANGED <<reported, posts, replica, records, resetAt, clock, restarts>>

\* the answer of the workspace, or that there is none, enters the cache
\* whatever happened meanwhile
EndQuery(r) ==
    /\ query.by = r
    /\ \E s \in {Summary(query.cutoff), [NoCache EXCEPT !.cutoff = query.cutoff, !.fresh = TRUE]} :
        replica' = [replica EXCEPT ![r].cache = s]
    /\ query' = NoQuery
    /\ UNCHANGED <<reported, posts, records, resetAt, clock, restarts>>

-----------------------------------------------------------------------------

TelemetryNext ==
    \E r \in ApiReplicas :
        \/ (\E b \in Batches : ReportInlineMetrics(r, b))
        \/ Export(r) \/ RestartReplica(r) \/ ResetMetrics(r)
        \/ CacheAges(r) \/ StartQuery(r) \/ EndQuery(r)

TelemetrySpec == TelemetryInit /\ [][TelemetryNext]_telemetryVars

-----------------------------------------------------------------------------

\* However often a batch was reported, to whichever replicas, and however long
\* its record took, a historical answer counts it once, and counts nothing that
\* was reported before the reset it was asked for; what a replica has in memory
\* is never presented as the progress since a reset, nor a missing summary as
\* numbers.  A batch is in one bucket of a series, the one it was reported in.
HistoryExact ==
    /\ \A r \in ApiReplicas : replica[r].cache.fresh =>
        LET answer == Reported(r, replica[r].cache) IN
        /\ answer.source = "app_insights" => /\ answer.count = TotalsOf(answer.found)
                                             /\ \A b \in answer.found : reported[b] >= answer.cutoff
        /\ answer.source = "in_memory" /\ answer.cutoff > 0 => answer.count = Nothing
    /\ \A r \in ApiReplicas :
        GetMetrics(r, TRUE, Summary(0)).count = TotalsOf({b \in Batches : \E e \in records : e.key = b})
    /\ \A t \in 1 .. clock : Timeseries(1, clock, resetAt)[t] =
        TotalsOf({b \in Batches : reported[b] = t /\ t >= resetAt /\ \E e \in records : e.key = b})
=============================================================================
