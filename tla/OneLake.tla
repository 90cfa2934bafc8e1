------------------------------- MODULE OneLake ------------------------------
(***************************************************************************)
(* Embeddings written back into a OneLake table: the watcher that compares *)
(* snapshots of the table with its checkpoint, the Spark job that streams  *)
(* the change data feed of the same table, the worker that stages results  *)
(* and the Spark MERGE that applies them.                                  *)
(*                                                                         *)
(* One pipeline reads and writes the table.  A hash is the content it is   *)
(* of; a commit of the table raises its version, which orders snapshots    *)
(* and feed alike.  An edit takes one of the two values of Texts.          *)
(***************************************************************************)
EXTENDS Naturals, FiniteSets

CONSTANTS Refs,           \* rows of the table
          Texts,          \* contents of a row, "" for no content
          MaxEdits,       \* bound: changes of the table and of the pipeline by users
          MaxFaults,      \* bound: failures of scans, messages and jobs
          MaxEchoes       \* bound: version a clearing may reach under the feed

VARIABLES table,       \* rows: content, and what the last MERGE wrote
          version,     \* of the last commit
          generation,  \* of the pipeline
          checkpoint,  \* of the watcher, as saved
          scan,        \* scan under way, or NoScan
          inflight,    \* what the broker, the worker and its staging files hold
          cdf,         \* whether the change data feed is on
          changes,     \* rows of the feed not yet processed
          edits, faults
oneLakeVars == <<table, version, generation, checkpoint, scan, inflight, cdf, changes, edits, faults>>

NoRow == [content |-> "none", hash |-> "", gen |-> 0, order |-> <<0, 0>>]
Inserted(c) == [NoRow EXCEPT !.content = c]
Present(rows) == {r \in Refs : rows[r].content # "none"}
NoScan == [at |-> 0]
Delete == "delete"

\* what is written when a pipeline's record is used for a row
WrittenFor(row, gen) == row.hash = row.content /\ row.gen = gen
AtLeast(a, b) == a[1] > b[1] \/ (a[1] = b[1] /\ a[2] >= b[2])

\* processed: the digest last sent for a row under a generation; old: the
\* submissions that are older than the retry interval
NoCheckpoint == [snapshot |-> 0, pipeline |-> 0, revision |-> 0, known |-> {}, baseline |-> FALSE,
                 pending |-> {}, processed |-> {}, old |-> {}]
Keys(c) == {p.key : p \in c.processed}
Sent(c, key, digest) == \E p \in c.processed : p.key = key /\ p.digest = digest
\* a bug: what was submitted once counts as submitted for ever
SubmittedOnce(c, key, digest) == Sent(c, key, digest)
Fresh(c, key, digest) == Sent(c, key, digest) /\ key \notin c.old
Forget(c, keys) == [c EXCEPT !.processed = {p \in @ : p.key \notin keys}, !.old = @ \ keys]
Submitted(c, key, digest) ==
    [c EXCEPT !.processed = {p \in @ : p.key # key} \cup {[key |-> key, digest |-> digest]}, !.old = @ \ {key}]

OneLakeInit ==
    /\ table \in [Refs -> {NoRow} \cup {Inserted(c) : c \in Texts}]
    /\ version = 1 /\ generation = 1
    /\ checkpoint = NoCheckpoint /\ scan = NoScan
    /\ inflight = {} /\ changes = {}
    /\ cdf \in BOOLEAN
    /\ edits \in 0 .. MaxEdits   \* how much of the bound is left
    /\ faults = 0

-----------------------------------------------------------------------------
(* The users of the table and of the pipeline.                              *)

Record(r, row, v) == [ref |-> r, row |-> row, version |-> v]
\* the stream job runs on tables whose feed is enabled, and reads of each commit
\* the row as it is after an insert or an update, and deletes
Feed(r, row, v) == IF cdf THEN {Record(r, row, v)} ELSE {}
Commit(r, row) ==
    /\ table' = [table EXCEPT ![r] = row]
    /\ version' = version + 1
    /\ changes' = changes \cup Feed(r, row, version + 1)

EditRow(r, c) ==
    /\ edits < MaxEdits /\ c # table[r].content
    /\ edits' = edits + 1
    /\ Commit(r, IF c = "none" \/ r \notin Present(table) THEN [NoRow EXCEPT !.content = c]
                 ELSE [table[r] EXCEPT !.content = c])
    /\ UNCHANGED <<generation, checkpoint, scan, inflight, cdf, faults>>

ChangePipeline ==
    /\ edits < MaxEdits
    /\ edits' = edits + 1
    /\ generation' = generation + 1
    /\ UNCHANGED <<table, version, checkpoint, scan, inflight, cdf, changes, faults>>

-----------------------------------------------------------------------------
(* The watcher.                                                             *)

Changed(c) == c.pipeline # generation
Revised(c) == IF Changed(c) THEN [c EXCEPT !.revision = @ + 1] ELSE c
Unchanged(c) == c.snapshot = version /\ ~Changed(c) /\ c.baseline /\ c.old = {}

Key(r) == <<generation, r>>
Message(r, digest, rev) ==
    [ref |-> r, digest |-> digest, order |-> <<version, rev>>, gen |-> generation]

Filled == {r \in Present(table) : table[r].content # ""}
UpToDate(c) == {r \in Filled : WrittenFor(table[r], generation) /\ ~Changed(c)}
Updates(c) == {r \in Filled \ UpToDate(c) : ~Fresh(c, Key(r), table[r].content)}
Emptied(c) == (c.pending \ Filled) \cup ((c.known \ Filled) \cap Present(table))
Deleted(c) == c.known \ Present(table)

\* a cleared row is one whose hash and pipeline are null
Cleared(c) == {r \in Emptied(c) : table[r].hash = ""}
Clearings(c) == {r \in Emptied(c) \ Cleared(c) : ~Fresh(c, Key(r), Delete)}

\* a row that was to be cleared and is gone is looked up all the same
Unreadable(c) == Emptied(c) \ Present(table) # {}

Scan(c) ==
    [at |-> version, pipeline |-> generation,
     todo |-> {Message(r, table[r].content, c.revision) : r \in Updates(c)}
              \cup {Message(r, Delete, c.revision) : r \in Deleted(c) \cup Clearings(c)},
     drop |-> {Key(r) : r \in Cleared(c) \cup Deleted(c)},
     ck   |-> [Forget(c, {Key(r) : r \in UpToDate(c)}) EXCEPT
                 !.known = Filled, !.baseline = TRUE, !.pending = Emptied(c) \ Cleared(c)]]

StartScan ==
    LET c == Revised(checkpoint) IN
    /\ scan = NoScan /\ ~Unchanged(checkpoint) /\ ~Unreadable(c)
    \* the comparison of fingerprints uses the checkpoint as it was loaded
    /\ scan' = Scan(c)
    /\ UNCHANGED <<table, version, generation, checkpoint, inflight, cdf, changes, edits, faults>>

\* publishing a message; the checkpoint in memory counts it as submitted
Publish(m) ==
    /\ scan # NoScan /\ m \in scan.todo
    /\ inflight' = inflight \cup {m}
    /\ scan' = [scan EXCEPT !.todo = @ \ {m}, !.ck = Submitted(@, <<scan.pipeline, m.ref>>, m.digest)]
    /\ UNCHANGED <<table, version, generation, checkpoint, cdf, changes, edits, faults>>

SaveCheckpoint ==
    /\ scan # NoScan /\ scan.todo = {}
    /\ checkpoint' = [Forget(scan.ck, scan.drop) EXCEPT !.snapshot = scan.at, !.pipeline = scan.pipeline]
    /\ scan' = NoScan
    /\ UNCHANGED <<table, version, generation, inflight, cdf, changes, edits, faults>>

\* a failed send or save, or the end of the process
ScanFails ==
    /\ scan # NoScan /\ faults < MaxFaults
    /\ scan' = NoScan /\ faults' = faults + 1
    /\ UNCHANGED <<table, version, generation, checkpoint, inflight, cdf, changes, edits>>

\* the retry interval has passed since everything was submitted; that work is
\* still on its way by then is counted as a failure
RetryDue ==
    /\ Keys(checkpoint) # checkpoint.old
    /\ inflight # {} => faults < MaxFaults
    /\ faults' = IF inflight # {} THEN faults + 1 ELSE faults
    /\ checkpoint' = [checkpoint EXCEPT !.old = Keys(checkpoint)]
    /\ scan' = IF scan = NoScan THEN scan ELSE [scan EXCEPT !.ck.old = Keys(scan.ck)]
    /\ UNCHANGED <<table, version, generation, inflight, cdf, changes, edits>>

-----------------------------------------------------------------------------
(* The change data feed.  Its plan keeps revision 1.                        *)

IsCurrentWriteback(x) == WrittenFor(x.row, generation)
BuildMessages(x) ==
    IF x.row.content \in {"", "none"}
    THEN {[Message(x.ref, Delete, 1) EXCEPT !.order = <<x.version, 1>>]}
    ELSE IF IsCurrentWriteback(x) THEN {}
    ELSE {[Message(x.ref, x.row.content, 1) EXCEPT !.order = <<x.version, 1>>]}

PublishMicrobatch ==
    /\ changes # {}
    /\ inflight' = inflight \cup UNION {BuildMessages(x) : x \in changes}
    /\ changes' = {}
    /\ UNCHANGED <<table, version, generation, checkpoint, scan, cdf, edits, faults>>

\* one send fails: the microbatch is repeated from the start
MicrobatchFails(x) ==
    /\ x \in changes /\ faults < MaxFaults
    /\ faults' = faults + 1
    /\ inflight' = inflight \cup BuildMessages(x)
    /\ UNCHANGED <<table, version, generation, checkpoint, scan, cdf, changes, edits>>

-----------------------------------------------------------------------------
(* The worker and the Spark job.                                            *)

MessageLost(m) ==
    /\ m \in inflight /\ faults < MaxFaults
    /\ inflight' = inflight \ {m} /\ faults' = faults + 1
    /\ UNCHANGED <<table, version, generation, checkpoint, scan, cdf, changes, edits>>

\* a bug: an older job is applied to a newer row
MatchesAlways(m) ==
    LET row == table[m.ref] IN
    m.ref \in Present(table) /\ (m.digest = Delete \/ row.hash # m.digest \/ row.gen # m.gen)

\* the MERGE changes the row
Matches(m) ==
    LET row == table[m.ref] IN
    /\ m.ref \in Present(table) /\ AtLeast(m.order, row.order)
    /\ m.digest = Delete \/ row.hash # m.digest \/ row.gen # m.gen

Merged(m) ==
    LET row == table[m.ref] IN
    IF m.digest = Delete THEN [row EXCEPT !.hash = "", !.gen = 0, !.order = m.order]
    ELSE [row EXCEPT !.hash = m.digest, !.gen = m.gen, !.order = m.order]

\* staging files of a generation, and those of deletions, are combined; of the
\* records for a row any one is kept, whatever their order
SameFile(m) == {o \in inflight : o.ref = m.ref /\ (o.digest = Delete) = (m.digest = Delete) /\ (m.digest = Delete \/ o.gen = m.gen)}
Combined(m) == {{m}, SameFile(m)}

Merge(m) ==
    /\ m \in inflight
    /\ m.digest = Delete \/ m.ref \in Present(table)
    /\ (cdf /\ m.digest = Delete) => version < MaxEchoes
    /\ \E files \in Combined(m) : inflight' = inflight \ files
    /\ IF Matches(m) THEN Commit(m.ref, Merged(m)) ELSE UNCHANGED <<table, version, changes>>
    /\ UNCHANGED <<generation, checkpoint, scan, cdf, edits, faults>>

\* a record for a row that is gone fails the job with everything in its file
MergeRefused(m) ==
    /\ m \in inflight /\ m.digest # Delete /\ m.ref \notin Present(table)
    /\ \E others \in SUBSET {o \in inflight : o.digest # Delete /\ o.gen = m.gen} : inflight' = inflight \ ({m} \cup others)
    /\ UNCHANGED <<table, version, generation, checkpoint, scan, cdf, changes, edits, faults>>

-----------------------------------------------------------------------------

WatcherStep ==
    \/ StartScan \/ SaveCheckpoint
    \/ (scan # NoScan /\ \E m \in scan.todo : Publish(m))
MergeStep(r) == \E m \in inflight : m.ref = r /\ (Merge(m) \/ MergeRefused(m))

OneLakeNext ==
    \/ WatcherStep \/ RetryDue \/ PublishMicrobatch
    \/ (\E r \in Refs : MergeStep(r))
    \/ (\E r \in Refs, c \in Texts \cup {"none"} : EditRow(r, c))
    \/ ChangePipeline \/ ScanFails
    \/ (\E x \in changes : MicrobatchFails(x))
    \/ (\E m \in inflight : MessageLost(m))

OneLakeSpec == OneLakeInit /\ [][OneLakeNext]_oneLakeVars

\* a table without the change data feed
ScannedSpec == (OneLakeInit /\ ~cdf) /\ [][OneLakeNext]_oneLakeVars

-----------------------------------------------------------------------------
(* Properties.                                                              *)

\* A late older job cannot overwrite or resurrect data after a newer update or
\* delete: while a row exists, the version its managed columns stem from never
\* goes back, whatever order scans, feed and jobs take.
NeverOlder ==
    [][\A r \in Refs : r \in Present(table) /\ table'[r].content # "none"
            => AtLeast(table'[r].order, table[r].order)]_oneLakeVars

\* The watcher fails on every scan while a row that it had to clear is gone.
Blocked == Unreadable(Revised(checkpoint))

\* Whatever was lost, repeated or overtaken, once users and failures leave the
\* table alone every row with content has the embedding of its content and of
\* the pipeline's generation, for good (unless the watcher is blocked).  Said of
\* tables without the feed, under which clearing a row never ends.
Converges == cdf \/ <>[](Blocked \/ \A r \in Filled : WrittenFor(table[r], generation))

\* nothing is under way and the next scan returns early
Quiet ==
    /\ scan = NoScan /\ inflight = {} /\ changes = {}
    /\ Unchanged(checkpoint) /\ checkpoint.processed = {}

\* "Rows deleted from the source or changed to empty configured content clear
\* the managed write-back columns": false, a row emptied while its first
\* embedding is on its way counts as cleared before the embedding arrives.
EmptiedCleared == Quiet => \A r \in Present(table) \ Filled : table[r].hash = ""
=============================================================================
