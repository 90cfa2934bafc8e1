--------------------------- MODULE ProgressReports --------------------------
(***************************************************************************)
(* The progress document of a source and the checkpoints of its workers.   *)
(* Every update reads the document, changes the fields it is about and     *)
(* writes the whole under the ETag it read; on a conflict its own fields   *)
(* are applied to the document as it is then.  A checkpoint that meets a   *)
(* conflict is given up, since it is older than what was written.          *)
(*                                                                         *)
(* A location counts documents enumerated, estimated and pending, and says *)
(* whether it failed.                                                      *)
(***************************************************************************)
EXTENDS Naturals, Sequences, FiniteSets, FiniteSetsExt

CONSTANTS Locations,        \* of the source
          Reporters,        \* callers of the tracker
          Entries,          \* what a location reports: done, estimated, pending, error
          MaxRetries,       \* of _save_with_etag
          MaxReports,       \* bound: updates of the progress document
          MaxItems          \* bound: items a checkpoint counts

VARIABLES progress,     \* the document, or NoProgress
          reporter,     \* of each caller: the update under way, or NoUpdate
          latest,       \* what the last finished update of each field wrote
          reports,      \* updates started
          stored,       \* checkpoint of the worker, or NoCheckpointDoc
          manager       \* of each process: its copy of the checkpoint
reportVars == <<progress, reporter, latest, reports, stored, manager>>

NoEntry == [done |-> 0, estimated |-> 0, pending |-> 0, error |-> FALSE, seen |-> FALSE]
NoTotals == [done |-> 0, estimated |-> 0, pending |-> 0]
NewDoc(status) ==
    [etag |-> 0, status |-> status, locations |-> [l \in Locations |-> NoEntry], totals |-> NoTotals,
     live |-> "none", workers |-> "none"]
NoProgress == NewDoc("none")
Exists(doc) == doc.etag > 0
NoUpdate == [op |-> "none"]

\* born: the ETag under which the checkpoint was created
NoCheckpointDoc == [etag |-> 0, exists |-> FALSE, items |-> 0, born |-> 0]
NoManager == [etag |-> 0, items |-> 0]
Loaded == IF stored.exists THEN [etag |-> stored.etag, items |-> stored.items] ELSE NoManager

ReportInit ==
    /\ progress = NoProgress /\ reporter = [c \in Reporters |-> NoUpdate]
    /\ latest = [locations |-> [l \in Locations |-> NoEntry], live |-> "none", workers |-> "none"]
    /\ reports = 0
    /\ stored = NoCheckpointDoc /\ manager = [c \in Reporters |-> NoManager]

-----------------------------------------------------------------------------
(* Contents of the document.                                                *)

Seen(locations) == {l \in Locations : locations[l].seen}
Sum(locations, field) == MapThenSumSet(LAMBDA l : locations[l][field], Seen(locations))
Totals(locations) == [f \in {"done", "estimated", "pending"} |-> Sum(locations, f)]
AllDone(t) == t.estimated > 0 /\ t.done >= t.estimated /\ t.pending = 0
RefreshBackfillTotals(doc) ==
    LET t == Totals(doc.locations) IN
    [doc EXCEPT !.totals = t,
                !.status = IF \E l \in Seen(doc.locations) : doc.locations[l].error THEN "error"
                           ELSE IF AllDone(t) THEN "live" ELSE "backfilling"]

\* fields of an update, on the document it read or on the one it met later
Applied(u, doc) ==
    CASE u.op = "backfill" -> RefreshBackfillTotals([doc EXCEPT !.locations[u.at] = u.value])
      [] u.op = "live" -> [doc EXCEPT !.live = u.value, !.status = IF u.value = "error" THEN "error" ELSE "live"]
      [] u.op = "workers" -> [doc EXCEPT !.workers = u.value]
      [] u.op = "status" -> [doc EXCEPT !.status = u.value]

-----------------------------------------------------------------------------
(* ProgressUpdates.                                                                 *)

DefaultStatus(u) == CASE u.op = "backfill" -> "backfilling" [] u.op = "live" -> "live" [] OTHER -> u.value

\* the document is loaded, or a new one made; workers need one
Update(c, u) ==
    /\ reporter[c] = NoUpdate /\ reports < MaxReports
    /\ u.op = "workers" => Exists(progress)
    /\ reports' = reports + 1
    /\ reporter' = [reporter EXCEPT ![c] =
            [op |-> u.op, u |-> u, tries |-> 1, etag |-> progress.etag,
             doc |-> Applied(u, IF Exists(progress) THEN progress ELSE NewDoc(DefaultStatus(u)))]]
    /\ UNCHANGED <<progress, latest, stored, manager>>

\* a bug: the document is submitted again as it was
Resubmitted(u, doc, proposed) == proposed
\* only the update's own fields are applied to the latest document
Rebase(u, doc, proposed) == IF Exists(doc) THEN Applied(u, doc) ELSE proposed

Finish(u) ==
    latest' = CASE u.op = "backfill" -> [latest EXCEPT !.locations[u.at] = u.value]
                [] u.op = "live" -> [latest EXCEPT !.live = u.value]
                [] u.op = "workers" -> [latest EXCEPT !.workers = u.value]
                [] OTHER -> latest

\* the write succeeds
SaveWithEtag(c) ==
    LET r == reporter[c] IN
    /\ r # NoUpdate /\ r.tries <= MaxRetries /\ r.etag = progress.etag
    /\ progress' = [r.doc EXCEPT !.etag = progress.etag + 1]
    /\ Finish(r.u)
    /\ reporter' = [reporter EXCEPT ![c] = NoUpdate]
    /\ UNCHANGED <<reports, stored, manager>>

\* the write meets a conflict, or a document made meanwhile
SaveConflicts(c) ==
    LET r == reporter[c] IN
    /\ r # NoUpdate /\ r.tries <= MaxRetries /\ r.etag # progress.etag
    /\ reporter' = [reporter EXCEPT ![c] = [r EXCEPT !.tries = @ + 1, !.etag = progress.etag,
                                                     !.doc = Rebase(r.u, progress, r.doc)]]
    /\ UNCHANGED <<progress, latest, reports, stored, manager>>

\* every try met a conflict: the update is given up with an error
SaveGivesUp(c) ==
    /\ reporter[c] # NoUpdate /\ reporter[c].tries > MaxRetries
    /\ reporter' = [reporter EXCEPT ![c] = NoUpdate]
    /\ UNCHANGED <<progress, latest, reports, stored, manager>>

-----------------------------------------------------------------------------
(* Checkpoints.                                                             *)

LoadCheckpoint(c) ==
    /\ manager[c] # Loaded
    /\ manager' = [manager EXCEPT ![c] = Loaded]
    /\ UNCHANGED <<progress, reporter, latest, reports, stored>>

\* a process that has handled one more item saves under the ETag it holds
Saved(c) ==
    /\ stored' = [etag |-> stored.etag + 1, exists |-> TRUE, items |-> manager[c].items + 1,
                  born |-> IF stored.exists THEN stored.born ELSE stored.etag + 1]
    /\ manager' = [manager EXCEPT ![c] = [etag |-> stored.etag + 1, items |-> @.items + 1]]

MaySave(c) == IF manager[c].etag = 0 THEN ~stored.exists ELSE stored.exists /\ manager[c].etag = stored.etag

\* on a conflict the process reloads; a checkpoint that is gone is an error
SaveCheckpointDoc(c) ==
    /\ manager[c].items < MaxItems /\ stored.etag < MaxItems + MaxItems
    /\ IF MaySave(c) THEN Saved(c)
       ELSE /\ stored.exists /\ manager' = [manager EXCEPT ![c] = Loaded]
            /\ UNCHANGED stored
    /\ UNCHANGED <<progress, reporter, latest, reports>>

ResetCheckpoint(c) ==
    /\ stored.exists
    /\ stored' = [stored EXCEPT !.exists = FALSE, !.items = 0]
    /\ manager' = [manager EXCEPT ![c] = NoManager]
    /\ UNCHANGED <<progress, reporter, latest, reports>>

-----------------------------------------------------------------------------
(* What is reported.                                                        *)

ProgressUpdates ==
    {[op |-> "backfill", at |-> l, value |-> e] : l \in Locations, e \in Entries}
    \cup {[op |-> "live", value |-> v] : v \in {"running", "error"}}
    \cup {[op |-> "workers", value |-> "ready"], [op |-> "status", value |-> "paused"]}

\* docs: of the sources of a pipeline; a source without one has the status "none"
Count(docs, status) == Cardinality({i \in DOMAIN docs : docs[i].status = status})
PipelineProgress(status, docs) ==
    IF status = "paused" THEN "paused"
    ELSE IF status = "error" \/ Count(docs, "error") > 0 THEN "error"
    ELSE IF docs = <<>> \/ Count(docs, "none") > 0 THEN "degraded"
    ELSE IF Count(docs, "paused") = Len(docs) THEN "paused"
    ELSE IF Count(docs, "paused") > 0 THEN "degraded" ELSE "active"
SystemProgress(docs) == IF Count(docs, "error") = 0 THEN "healthy" ELSE "degraded"

ReportNext ==
    \E c \in Reporters :
        \/ (\E u \in ProgressUpdates : Update(c, u))
        \/ SaveWithEtag(c) \/ SaveConflicts(c) \/ SaveGivesUp(c)

CheckpointNext == \E c \in Reporters : LoadCheckpoint(c) \/ SaveCheckpointDoc(c) \/ ResetCheckpoint(c)

ReportsSpec == ReportInit /\ [][ReportNext \/ CheckpointNext]_reportVars

-----------------------------------------------------------------------------

\* An update that finished stays: whatever updates overlap, the document shows
\* for every location, the live feed and the workers what the last finished
\* update of it wrote, its totals are those of its locations, and while the
\* backfill is said to go on no location has failed.  A pipeline over this
\* source and another is active only if all is well with both, and the system
\* healthy only if neither fails.  Of processes that count items under one
\* checkpoint none takes it back.
ProgressKept ==
    /\ progress.locations = latest.locations /\ progress.live = latest.live /\ progress.workers = latest.workers
    /\ progress.totals = Totals(progress.locations)
    /\ progress.status = "backfilling" => \A l \in Seen(progress.locations) : ~progress.locations[l].error
    /\ \A other \in {"none", "live", "paused", "error"} : LET docs == <<progress, NewDoc(other)>> IN
        /\ PipelineProgress("active", docs) = "active" <=> {progress.status, other} \subseteq {"live", "backfilling"}
        /\ SystemProgress(docs) = "healthy" <=> "error" \notin {progress.status, other}
    /\ \A c \in Reporters : stored.exists /\ manager[c].etag >= stored.born => manager[c].items <= stored.items
=============================================================================
