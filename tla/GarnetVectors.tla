---------------------------- MODULE GarnetVectors ----------------------------
(***************************************************************************)
(* A Garnet source: watchers poll the versioned records of a HASH, embed    *)
(* them inline and write vectors to a vector set of the same server, behind *)
(* a version key and a lock per vector (GarnetSourceWatcher.cs, and         *)
(* ApplyGarnetVersionedOperationAsync of the writers).  A checkpoint per    *)
(* record follows the write.                                                *)
(*                                                                         *)
(* A source has one watcher, but after a change of owner the old one may    *)
(* still be at work (PollingLease): several poll here, each with its own,   *)
(* perhaps old, copy of the pipeline.  Applications raise the version of a  *)
(* record with every change and do not remove records.                      *)
(***************************************************************************)
EXTENDS Naturals

CONSTANTS
    Watchers,
    Records,        \* fields of the HASH: source references
    MaxEdits,       \* bound: changes of records and of the pipeline
    MaxStops        \* bound: failures and crashes

VARIABLES
    hash,       \* the records: version, and whether it has content to embed
    revision,   \* of the pipeline, by its last edit or reset
    copy,       \* per watcher: the revision it knows
    poll,       \* per watcher: the batch in hand
    vector,     \* the vector set: what the vector of a record was made of
    versionKey, \* per vector: the operation applied last
    lock,       \* per vector: who holds its lock
    mark,       \* checkpoint per record
    edits, stops
garnetVars == <<hash, revision, copy, poll, vector, versionKey, lock, mark, edits, stops>>

NoOperation == <<0, 0>>
NoVector == <<0, 0>>
Free == "free"

\* GetPipelineRevision and BuildOperationVersion: by source version, then by the
\* pipeline's revision.
Before(v, w) == v[1] < w[1] \/ (v[1] = w[1] /\ v[2] < w[2])

\* Of a record in hand: what was read, and how far it has come.
NotInHand == [stage |-> "none", version |-> 0, content |-> FALSE]
NoBatch == [items |-> [r \in Records |-> NotInHand], revision |-> 0, failed |-> FALSE]

GarnetInit ==
    /\ hash = [r \in Records |-> [version |-> 0, content |-> FALSE]]
    /\ revision = 1
    /\ copy = [w \in Watchers |-> 1]
    /\ poll = [w \in Watchers |-> NoBatch]
    /\ vector = [r \in Records |-> NoVector]
    /\ versionKey = [r \in Records |-> NoOperation]
    /\ lock = [r \in Records |-> Free]
    /\ mark = [r \in Records |-> NoOperation]
    /\ edits = 0 /\ stops = 0

-----------------------------------------------------------------------------
\* Applications change records; empty content is like a tombstone.  A pipeline is
\* edited or reset, which watchers hear of later.
Edit(r, content) ==
    /\ edits < MaxEdits /\ edits' = edits + 1
    /\ hash' = [hash EXCEPT ![r] = [version |-> @.version + 1, content |-> content]]
    /\ UNCHANGED <<revision, copy, poll, vector, versionKey, lock, mark, stops>>

RevisePipeline ==
    /\ edits < MaxEdits /\ edits' = edits + 1
    /\ revision' = revision + 1
    /\ UNCHANGED <<hash, copy, poll, vector, versionKey, lock, mark, stops>>

UpdatePipelines(w) ==
    /\ copy[w] # revision
    /\ copy' = [copy EXCEPT ![w] = revision]
    /\ UNCHANGED <<hash, revision, poll, vector, versionKey, lock, mark, edits, stops>>

-----------------------------------------------------------------------------
(* PollOnceAsync: a page, its checkpoints.                                  *)

Stage(w, r) == poll[w].items[r].stage
Idle(w) == \A r \in Records : Stage(w, r) = "none"
Operation(w, r) == <<poll[w].items[r].version, poll[w].revision>>
To(w, r, stage) == poll' = [poll EXCEPT ![w].items[r].stage = stage]
Drop(w, r) == poll' = [poll EXCEPT ![w].items[r] = NotInHand]

ReadPage(w) ==
    /\ Idle(w)
    /\ poll' = [poll EXCEPT ![w] =
           [items |-> [r \in Records |->
                IF hash[r].version = 0 THEN NotInHand
                ELSE [stage |-> "read", version |-> hash[r].version, content |-> hash[r].content]],
            revision |-> copy[w], failed |-> FALSE]]
    /\ UNCHANGED <<hash, revision, copy, vector, versionKey, lock, mark, edits, stops>>

\* Older than the checkpoint, or of its version under a revision no newer: skipped.
Done(w, r) == ~Before(mark[r], Operation(w, r))

ReadCheckpoints(w) ==
    /\ \E r \in Records : Stage(w, r) = "read"
    /\ poll' = [poll EXCEPT ![w].items = [r \in Records |->
           IF @[r].stage # "read" \/ Done(w, r) THEN NotInHand ELSE [@[r] EXCEPT !.stage = "start"]]]
    /\ UNCHANGED <<hash, revision, copy, vector, versionKey, lock, mark, edits, stops>>

-----------------------------------------------------------------------------
(* The versioned operation of a record: vectors are written first, records   *)
(* without content are removed after the checkpoints of the others.          *)

InHand(w) == {r \in Records : Stage(w, r) # "none"}
HasContent(w, r) == poll[w].items[r].content
Turn(w, r) == HasContent(w, r) \/ \A q \in InHand(w) : ~HasContent(w, q)

\* What is in the vector set is as new as the operation.
Fenced(w, r) == ~Before(versionKey[r], Operation(w, r))

ReadVersionKey(w, r) ==
    /\ Stage(w, r) = "start" /\ Turn(w, r) /\ ~poll[w].failed
    /\ To(w, r, IF Fenced(w, r) THEN "written" ELSE "passed")
    /\ UNCHANGED <<hash, revision, copy, vector, versionKey, lock, mark, edits, stops>>

TakeLock(w, r) ==
    /\ Stage(w, r) = "passed"
    /\ IF lock[r] = Free
       THEN lock' = [lock EXCEPT ![r] = w] /\ To(w, r, "locked")
       ELSE To(w, r, "start") /\ UNCHANGED lock
    /\ UNCHANGED <<hash, revision, copy, vector, versionKey, mark, edits, stops>>

NotAgain(w, r) == FALSE     \* a bug: the version is not read again under the lock
FencedUnderLock(w, r) == Fenced(w, r)

VectorWritten(w, r) ==
    vector' = [vector EXCEPT ![r] = IF HasContent(w, r) THEN Operation(w, r) ELSE NoVector]

\* Only the holder of the lock changes the version key and the vector.
Apply(w, r) ==
    /\ Stage(w, r) = "locked"
    /\ IF FencedUnderLock(w, r)
       THEN To(w, r, "release") /\ UNCHANGED vector
       ELSE VectorWritten(w, r) /\ To(w, r, "applied")
    /\ UNCHANGED <<hash, revision, copy, versionKey, lock, mark, edits, stops>>

VersionSet(w, r) == versionKey' = [versionKey EXCEPT ![r] = Operation(w, r)]

SetVersion(w, r) ==
    /\ Stage(w, r) = "applied"
    /\ VersionSet(w, r) /\ To(w, r, "release")
    /\ UNCHANGED <<hash, revision, copy, vector, lock, mark, edits, stops>>

Unlock(w, r) ==
    /\ Stage(w, r) = "release"
    /\ lock' = [lock EXCEPT ![r] = Free]
    /\ IF poll[w].failed THEN Drop(w, r) ELSE To(w, r, "written")
    /\ UNCHANGED <<hash, revision, copy, vector, versionKey, mark, edits, stops>>

\* Checkpoints follow when all of the batch with or all without content are
\* written.  They replace whatever is there.
Checkpointed(w, r) == mark' = [mark EXCEPT ![r] = Operation(w, r)]

WriteCheckpoint(w, r) ==
    /\ Stage(w, r) = "written" /\ ~poll[w].failed
    /\ \A q \in InHand(w) : HasContent(w, q) = HasContent(w, r) => Stage(w, q) = "written"
    /\ Checkpointed(w, r) /\ Drop(w, r)
    /\ UNCHANGED <<hash, revision, copy, vector, versionKey, lock, edits, stops>>

-----------------------------------------------------------------------------
(* Failures.                                                                *)

\* A call fails, before or after the server did what it asks: the batch is over,
\* except that locks taken are given back.  The failing call may be the one that
\* takes the lock or gives it back.
WriteFails(w, r) ==
    /\ Stage(w, r) \in {"start", "passed", "locked", "applied", "release", "written"}
    /\ stops < MaxStops /\ stops' = stops + 1
    /\ \/ UNCHANGED <<vector, versionKey, lock, mark>>
       \/ /\ Stage(w, r) = "passed" /\ lock[r] = Free
          /\ lock' = [lock EXCEPT ![r] = w] /\ UNCHANGED <<vector, versionKey, mark>>
       \/ /\ Stage(w, r) = "locked" /\ ~FencedUnderLock(w, r)
          /\ VectorWritten(w, r) /\ UNCHANGED <<versionKey, lock, mark>>
       \/ Stage(w, r) = "applied" /\ VersionSet(w, r) /\ UNCHANGED <<vector, lock, mark>>
       \/ Stage(w, r) = "release" /\ lock' = [lock EXCEPT ![r] = Free] /\ UNCHANGED <<vector, versionKey, mark>>
       \/ Stage(w, r) = "written" /\ Checkpointed(w, r) /\ UNCHANGED <<vector, versionKey, lock>>
    /\ poll' = [poll EXCEPT ![w].failed = TRUE,
                            ![w].items[r] = IF @.stage \in {"locked", "applied"} THEN [@ EXCEPT !.stage = "release"] ELSE NotInHand]
    /\ UNCHANGED <<hash, revision, copy, edits>>

Holding == {"passed", "locked", "applied", "release"}

\* What had not begun is left to the next poll.
BatchEnds(w) ==
    /\ poll[w].failed /\ \A r \in Records : Stage(w, r) \notin Holding
    /\ poll' = [poll EXCEPT ![w] = NoBatch]
    /\ UNCHANGED <<hash, revision, copy, vector, versionKey, lock, mark, edits, stops>>

WatcherCrashes(w) ==
    /\ ~Idle(w) /\ stops < MaxStops /\ stops' = stops + 1
    /\ poll' = [poll EXCEPT ![w] = NoBatch]
    /\ UNCHANGED <<hash, revision, copy, vector, versionKey, lock, mark, edits>>

\* Assumed: the term of a lock is longer than anyone works under it.
LockExpires(r) ==
    /\ lock[r] # Free /\ Stage(lock[r], r) \notin {"locked", "applied", "release"}
    /\ lock' = [lock EXCEPT ![r] = Free]
    /\ UNCHANGED <<hash, revision, copy, poll, vector, versionKey, mark, edits, stops>>

-----------------------------------------------------------------------------
PollStepOf(w) == ReadPage(w) \/ ReadCheckpoints(w) \/ BatchEnds(w)

\* The records of a batch are written in parallel.
RecordStep(w, r) ==
    ReadVersionKey(w, r) \/ TakeLock(w, r) \/ Apply(w, r) \/ SetVersion(w, r) \/ Unlock(w, r) \/ WriteCheckpoint(w, r)

GarnetNext ==
    \/ RevisePipeline
    \/ \E r \in Records : LockExpires(r) \/ \E content \in BOOLEAN : Edit(r, content)
    \/ \E w \in Watchers :
           UpdatePipelines(w) \/ PollStepOf(w) \/ WatcherCrashes(w) \/ \E r \in Records : RecordStep(w, r) \/ WriteFails(w, r)

\* "Polling provides eventual convergence": when records and pipeline stay as they
\* are, every vector comes to be that of its record's last version under the
\* pipeline's last revision, and the vector of a record without content is gone -
\* although late watchers write older vectors and checkpoints over newer ones, and
\* a call fails or a watcher dies between vector, version and checkpoint.
GarnetConverges ==
    \A r \in Records : <>[](vector[r] = IF hash[r].content THEN <<hash[r].version, revision>> ELSE NoVector)
=============================================================================
