--------------------------- MODULE SourceWatchers ---------------------------
(***************************************************************************)
(* The watchers of databases and containers: Cosmos DB (SourceWatcher.cs),  *)
(* SQL Server, PostgreSQL with and without a tracking column, Databricks    *)
(* and Blob storage.  Each reads a page behind a cursor of its own kind,    *)
(* passes the page on - to the queue, or inline by embedding it and writing *)
(* the vector into the row - and moves the cursor afterwards.               *)
(*                                                                         *)
(* A call may fail after a part of the page was passed on, the pod may      *)
(* restart at any point, and a pipeline may be reset.  Cosmos keeps the     *)
(* cursor in its leases and Blob in a state document, the others only in    *)
(* memory.                                                                  *)
(*                                                                         *)
(* Sources are external.  One clock counts their changes: a commit stamps   *)
(* every row it touches with the same time, later commits with later ones.  *)
(***************************************************************************)
EXTENDS Integers, FiniteSets

CONSTANTS
    Keys,           \* primary keys, document IDs, blob names, in their order
    PageLimit,      \* rows of a page
    MaxChanges,     \* bound: commits of the applications
    MaxTroubles     \* bound: failures, restarts and resets

ASSUME SourcesAssumption ==
    /\ IsFiniteSet(Keys) /\ Keys \subseteq Nat \ {0}
    /\ PageLimit \in Nat \ {0}

VARIABLES
    kind,       \* the source's type
    inline,     \* processing mode: inline, or through the queue
    stamped,    \* PostgreSQL: the tracking column also moves on the watcher's own UPDATE
    row,        \* the table: version, time of the last write, and whether it is deleted
    log,        \* SQL Server's change table, the Delta log: key, time, version, deletion
    low,        \* SQL Server: the lowest LSN that the change table still holds
    clock,      \* time of the last write to the source
    told,       \* per row the version passed on last
    cursor,     \* the watcher's cursor
    saved,      \* the cursor on record: Cosmos leases, Blob state document
    page,       \* the page in hand
    budget      \* what the bounds still allow

sourceVars == <<kind, inline, stamped, row, log, low, clock, told, cursor, saved, page, budget>>
source == <<row, log, low, clock>>
config == <<kind, inline, stamped>>

NoVersion == -1

\* done: initial scan, prefill or snapshot is over.  key and pos: how far the
\* scan, and after it the tracking, has come.  snap: version of a Databricks
\* snapshot under way.  processed: blob versions that the next poll may meet
\* again.
Fresh ==
    [done |-> FALSE, key |-> 0, pos |-> IF kind = "azure-blob" THEN clock ELSE 0, snap |-> NoVersion, processed |-> {}]

\* No cursor on record.
NoCursor == [done |-> FALSE, key |-> NoVersion, pos |-> 0, snap |-> NoVersion, processed |-> {}]

NoPage == [phase |-> "none", items |-> {}, left |-> {}, next |-> NoCursor]

\* A Cosmos tombstone is a document like any other; elsewhere a deleted row is
\* not there to be read.
Readable(r) == row[r].version > 0 /\ (row[r].gone => kind = "cosmosdb")

Kinds == {"cosmosdb", "mssql", "postgresql", "untracked", "databricks", "azure-blob"}
InlineKinds == {"cosmosdb", "mssql", "postgresql", "untracked"}

SourcesInit ==
    /\ kind \in Kinds
    /\ inline \in (IF kind \in InlineKinds THEN BOOLEAN ELSE {FALSE})
    /\ stamped \in (IF kind = "postgresql" /\ inline THEN BOOLEAN ELSE {TRUE})
    /\ row = [r \in Keys |-> [version |-> 0, at |-> 0, gone |-> FALSE]]
    /\ log = {} /\ low = 0 /\ clock = 0
    /\ told = [r \in Keys |-> 0]
    /\ cursor = Fresh /\ saved = NoCursor /\ page = NoPage
    /\ budget \in [changes : 0 .. MaxChanges, troubles : 0 .. MaxTroubles]

-----------------------------------------------------------------------------
\* The source: a commit writes or deletes rows.  Blobs and documents change one
\* by one.
Entries(S) == {[key |-> r, at |-> clock + 1, version |-> clock + 1] : r \in S}

Logged(entries) == IF kind \in {"mssql", "databricks"} THEN log \cup entries ELSE log

Write(S) ==
    /\ clock' = clock + 1
    /\ row' = [r \in Keys |-> IF r \in S THEN [version |-> clock + 1, at |-> clock + 1, gone |-> FALSE] ELSE row[r]]
    /\ log' = Logged(Entries(S))

Delete(r) ==
    /\ row[r].version > 0 /\ ~row[r].gone
    /\ kind = "cosmosdb" => ~inline     \* soft deletion requires queue mode
    /\ clock' = clock + 1
    /\ row' = [row EXCEPT ![r] = [version |-> clock + 1, at |-> clock + 1, gone |-> TRUE]]
    /\ log' = Logged({[key |-> r, at |-> clock + 1, version |-> 0]})

Change ==
    /\ budget.changes > 0
    /\ budget' = [budget EXCEPT !.changes = @ - 1]
    /\ \/ \E S \in (SUBSET Keys) \ {{}} : (kind \in {"cosmosdb", "azure-blob"} => Cardinality(S) = 1) /\ Write(S)
       \/ \E r \in Keys : Delete(r)
    /\ UNCHANGED <<config, low, told, cursor, saved, page>>

\* The change table's retention job.  Its entries are assumed to outlive a full
\* scan: until the first incremental read, nothing is removed.
Cleanup ==
    /\ kind = "mssql" /\ cursor.pos > 0 /\ low < clock
    /\ low' = clock
    /\ log' = {e \in log : e.at >= clock}
    /\ UNCHANGED <<config, row, clock, told, cursor, saved, page, budget>>

-----------------------------------------------------------------------------
\* HandleChanges: which of the rows read are passed on.  Inline, rows that carry
\* the vector of their content are left out.
HasCurrentEmbedding(r) == inline /\ told[r] = row[r].version

Eligible(S) == {[key |-> r, version |-> row[r].version] : r \in {k \in S : ~HasCurrentEmbedding(k)}}

Largest(S) == CHOOSE n \in S : \A k \in S : k <= n

\* Rows behind the cursor in key order: scans and prefill.
Unscanned(c) == {r \in Keys : Readable(r) /\ r > c.key}
ByKey(S) == {r \in S : Cardinality({k \in S : k < r}) < PageLimit}

Scans == (kind \in {"mssql", "azure-blob"} /\ ~cursor.done) \/ kind = "untracked"

\* A short page ends SQL Server's scan and takes the untracked one back to the
\* start; Blob's ends with the last page.
ScanNext(S) ==
    LET more == Cardinality(S) = PageLimit
        last == Largest({cursor.key} \cup S)
    IN  CASE kind = "untracked"  -> [cursor EXCEPT !.key = IF more THEN last ELSE 0]
          [] kind = "mssql"      -> [cursor EXCEPT !.key = last, !.done = ~more]
          [] kind = "azure-blob" -> [cursor EXCEPT !.key = last, !.done = (S = Unscanned(cursor)),
                                                   !.processed = @ \cup Eligible(S)]

ReadScan ==
    /\ Scans /\ page.phase = "none"
    /\ LET S == ByKey(Unscanned(cursor))
       IN  page' = [NoPage EXCEPT !.phase = "read", !.items = Eligible(S), !.next = ScanNext(S)]
    /\ UNCHANGED <<config, source, told, cursor, saved, budget>>

\* Rows behind the cursor in the order of their last write, ties by key: the
\* tracking column of PostgreSQL, the Cosmos change feed.
Tracked(r, c) == row[r].at > c.pos \/ (row[r].at = c.pos /\ r > c.key /\ kind = "postgresql")
Untold(c) == {r \in Keys : Readable(r) /\ Tracked(r, c)}
Earlier(r, s) == row[r].at < row[s].at \/ (row[r].at = row[s].at /\ r < s)
ByTime(S) == {r \in S : Cardinality({k \in S : Earlier(k, r)}) < PageLimit}
Last(S) == CHOOSE r \in S : \A k \in S : ~Earlier(r, k)

ReadTracked ==
    /\ kind \in {"cosmosdb", "postgresql"} /\ page.phase = "none" /\ Untold(cursor) # {}
    /\ LET S == ByTime(Untold(cursor))
       IN  page' = [NoPage EXCEPT !.phase = "read", !.items = Eligible(S),
                                  !.next = [cursor EXCEPT !.pos = row[Last(S)].at, !.key = Last(S)]]
    /\ UNCHANGED <<config, source, told, cursor, saved, budget>>

-----------------------------------------------------------------------------
\* SQL Server: where the next read of the change table starts, and whether
\* retention has passed that point.
FromLsn(c) == IF c.pos = 0 THEN low ELSE c.pos + 1
RetentionPassed(c) == c.pos > 0 /\ c.pos < low

\* The end of the range is read first, the changes up to it afterwards.
ReadMaxLsn ==
    /\ kind = "mssql" /\ cursor.done /\ page.phase = "none" /\ clock > 0
    /\ IF RetentionPassed(cursor)
       THEN cursor' = Fresh /\ UNCHANGED page
       ELSE /\ FromLsn(cursor) <= clock
            /\ page' = [NoPage EXCEPT !.phase = "begun", !.next = [cursor EXCEPT !.pos = clock]]
            /\ UNCHANGED cursor
    /\ UNCHANGED <<config, source, told, saved, budget>>

\* A range that is no longer held is refused; the next poll scans again.
ReadRefused ==
    /\ kind = "mssql" /\ page.phase = "begun" /\ FromLsn(cursor) < low
    /\ page' = NoPage
    /\ UNCHANGED <<config, source, told, cursor, saved, budget>>

\* Rows of the range, joined with what the table holds now.
ReadChanges ==
    /\ kind = "mssql" /\ page.phase = "begun" /\ low <= FromLsn(cursor)
    /\ LET S == {r \in Keys : Readable(r) /\ \E e \in log : e.key = r /\ e.at \in FromLsn(cursor) .. page.next.pos /\ e.version > 0}
       IN  page' = [page EXCEPT !.phase = "read", !.items = Eligible(S)]
    /\ UNCHANGED <<config, source, told, cursor, saved, budget>>

\* Databricks: the version of the snapshot is chosen once and kept over
\* failures; then commit by commit.
Commits == {e.at : e \in {x \in log : x.at > cursor.pos /\ x.version > 0}}

ReadVersion ==
    /\ kind = "databricks" /\ page.phase = "none"
    /\ \/ /\ ~cursor.done
          /\ cursor' = [cursor EXCEPT !.snap = IF @ = NoVersion THEN clock ELSE @]
          /\ page' = [NoPage EXCEPT !.phase = "begun",
                                    !.next = [cursor EXCEPT !.pos = cursor'.snap, !.done = TRUE, !.snap = NoVersion]]
       \/ /\ cursor.done /\ Commits # {}
          /\ page' = [NoPage EXCEPT !.phase = "begun",
                                    !.next = [cursor EXCEPT !.pos = CHOOSE v \in Commits : \A w \in Commits : v <= w]]
          /\ UNCHANGED cursor
    /\ UNCHANGED <<config, source, told, saved, budget>>

\* VERSION AS OF, and the rows of one commit.
AsOf(version) ==
    {e \in log : e.at <= version /\ e.version > 0 /\ \A x \in log : x.key = e.key /\ x.at <= version => x.at <= e.at}
OfCommit(version) == {e \in log : e.at = version /\ e.version > 0}

ReadRows ==
    /\ kind = "databricks" /\ page.phase = "begun"
    /\ LET entries == IF cursor.done THEN OfCommit(page.next.pos) ELSE AsOf(page.next.pos)
       IN  page' = [page EXCEPT !.phase = "read", !.items = {[key |-> e.key, version |-> e.version] : e \in entries}]
    /\ UNCHANGED <<config, source, told, cursor, saved, budget>>

-----------------------------------------------------------------------------
\* Blob: storage stamps blobs in whole seconds, two ticks of the clock each, and
\* the watermark is taken down to the start of its second.
Second(t) == t \div 2
AfterTheSecond(t) == Second(t) + 1     \* a bug: the second of the scan's start is left out
Watermark(t) == Second(t)
LastModified(r) == Second(row[r].at)

StartPoll ==
    /\ kind = "azure-blob" /\ cursor.done /\ page.phase = "none"
    /\ page' = [NoPage EXCEPT !.phase = "begun", !.left = Keys, !.next = [cursor EXCEPT !.pos = clock, !.processed = {}]]
    /\ UNCHANGED <<config, source, told, cursor, saved, budget>>

\* One blob of the listing, in the order of names.
ListBlob ==
    /\ kind = "azure-blob" /\ page.phase = "begun" /\ page.left # {}
    /\ LET r == CHOOSE k \in page.left : \A j \in page.left : k <= j
           blob == [key |-> r, version |-> row[r].version]
           seen == Readable(r) /\ LastModified(r) >= Watermark(cursor.pos)
       IN  page' = [page EXCEPT !.left = @ \ {r},
                                !.phase = IF page.left = {r} THEN "read" ELSE @,
                                !.items = IF seen /\ blob \notin cursor.processed THEN @ \cup {blob} ELSE @,
                                !.next.processed =
                                    IF seen /\ LastModified(r) >= Watermark(page.next.pos) THEN @ \cup {blob} ELSE @]
    /\ UNCHANGED <<config, source, told, cursor, saved, budget>>

-----------------------------------------------------------------------------
\* A row of the page is passed on: a message is sent, or the vector of what was
\* read is written into the row, which is a write of the source like any other.
\* An UPDATE of a row that is gone changes nothing.
Send(i) ==
    /\ ~inline
    /\ told' = [told EXCEPT ![i.key] = i.version]
    /\ UNCHANGED source

UpdateRow(i) ==
    /\ inline
    /\ IF row[i.key].gone
       THEN kind # "cosmosdb" /\ UNCHANGED <<told, source>>
       ELSE /\ told' = [told EXCEPT ![i.key] = i.version]
            /\ IF stamped
               THEN /\ clock' = clock + 1
                    /\ row' = [row EXCEPT ![i.key].at = clock + 1]
                    /\ log' = Logged({[key |-> i.key, at |-> clock + 1, version |-> row[i.key].version]})
                    /\ UNCHANGED low
               ELSE UNCHANGED source

PassOn ==
    /\ page.phase = "read"
    /\ \E i \in page.items : (Send(i) \/ UpdateRow(i)) /\ page' = [page EXCEPT !.items = @ \ {i}]
    /\ UNCHANGED <<config, cursor, saved, budget>>

\* The whole page has been passed on: the cursor moves, and goes on record where
\* there is one.
Advance ==
    /\ page.phase = "read" /\ page.items = {}
    /\ cursor' = page.next
    /\ saved' = IF kind \in {"cosmosdb", "azure-blob"} THEN page.next ELSE saved
    /\ page' = NoPage
    /\ UNCHANGED <<config, source, told, budget>>

\* A call throws: the page is dropped and the cursor stays.  Blob's state
\* document may fail to be written after the cursor has moved.
Trouble == budget.troubles > 0 /\ budget' = [budget EXCEPT !.troubles = @ - 1]

PollFailed ==
    /\ page.phase # "none" /\ Trouble
    /\ page' = NoPage
    /\ cursor' \in {cursor} \cup (IF kind = "azure-blob" /\ page.phase = "read" /\ page.items = {} THEN {page.next} ELSE {})
    /\ UNCHANGED <<config, source, told, saved>>

\* The pod restarts or another one takes the source over.
RestartWatcher ==
    /\ Trouble
    /\ cursor' = IF saved # NoCursor THEN saved ELSE Fresh
    /\ page' = NoPage
    /\ UNCHANGED <<config, source, told, saved>>

\* A pipeline of the source is reset: under the new generation every row is to
\* be passed on again.
ResetPipeline ==
    /\ Trouble
    /\ cursor' = Fresh /\ saved' = NoCursor /\ page' = NoPage
    /\ told' = [r \in Keys |-> 0]
    /\ UNCHANGED <<config, source>>

PollStep == ReadScan \/ ReadTracked \/ ReadMaxLsn \/ ReadRefused \/ ReadChanges \/ ReadVersion \/ ReadRows \/ StartPoll \/ ListBlob \/ PassOn \/ Advance

SourcesNext == Change \/ Cleanup \/ PollStep \/ PollFailed \/ RestartWatcher \/ ResetPipeline

SourcesSpec == SourcesInit /\ [][SourcesNext]_sourceVars

-----------------------------------------------------------------------------
\* A watcher that goes on from this cursor will come to the row.
Ahead(r, c) ==
    CASE kind \in {"cosmosdb", "postgresql"} -> Tracked(r, c)
      [] kind = "untracked"  -> TRUE
      [] kind = "mssql"      -> \/ ~c.done /\ r > c.key
                                \/ RetentionPassed(c)
                                \/ \E e \in log : e.key = r /\ e.at >= FromLsn(c)
      [] kind = "databricks" -> ~c.done \/ \E e \in log : e.key = r /\ e.at > c.pos
      [] kind = "azure-blob" -> \/ ~c.done /\ r > c.key
                                \/ /\ LastModified(r) >= Watermark(c.pos)
                                   /\ [key |-> r, version |-> row[r].version] \notin c.processed

\* No row falls behind the cursor before its content was passed on, neither
\* behind the one in memory nor behind the one a restart goes on from: not by a
\* change during a scan or a listing, a page that failed half-way, a page that
\* splits a transaction, the watcher's own UPDATE of an old version, or the end
\* of the change table's retention (ProcessPageAsync, PublishPageAsync and
\* HandleChangesAsync: "retaining checkpoint").
NothingSkipped ==
    \A r \in {k \in Keys : Readable(k)} :
        told[r] = row[r].version \/ \A c \in {cursor} \cup ({saved} \ {NoCursor}) : Ahead(r, c)

\* When a source comes to rest, every row is passed on as it is then, and stays
\* so: no later message or UPDATE carries an older version, and inline watchers
\* do not keep answering their own writes.
AllPassedOn == \A r \in Keys : <>[](Readable(r) => told[r] = row[r].version)

=============================================================================
