--------------------------- MODULE SharePointFence ---------------------------
(***************************************************************************)
(* The revision fence of the SharePoint destination:                       *)
(* ReplaceSharePointInStoreAsync in CosmosDbDestinationWriter.SharePoint.cs *)
(* against the Cosmos container that holds one identity (one item of one   *)
(* source in one pipeline).  An identity is one logical partition: a       *)
(* manifest document with the claimed revision and its "completed" mark,   *)
(* and the chunk documents the readers search.                             *)
(*                                                                         *)
(* Every delivery of a queue message runs the method once, so a redelivery, *)
(* a second worker or a worker whose queue lock expired is one more call.  *)
(* The calls interleave at the store operations; any of them may stop      *)
(* before an operation (crash, cancellation) or after the store applied it *)
(* and before the answer arrived (a lost response).                        *)
(***************************************************************************)
EXTENDS Naturals, FiniteSets

CONSTANTS
    Call,       \* the invocations of ReplaceSharePointInStoreAsync
    NoCall,     \* "no such chunk document"
    MaxRev,     \* bound: revisions the watcher assigned to this item
    MaxChunks,  \* bound: chunks of one document
    BatchSize   \* operations of one transaction besides the manifest (99)

ASSUME FenceAssumption ==
    /\ NoCall \notin Call
    /\ MaxRev \in Nat
    /\ MaxChunks \in Nat
    /\ BatchSize \in Nat \ {0}

VARIABLES
    manifest,   \* the current manifest document with its ETag
    versions,   \* every version the manifest has had (a read may be stale)
    vec,        \* chunk id -> the call that wrote the document, or NoCall
    pc,         \* where each call is
    rev,        \* replacement.Revision of the call
    size,       \* replacement.Chunks.Count of the call
    etag,       \* the ETag the call last received
    next,       \* chunks the call has written
    obsolete,   \* ids still to be deleted by the call
    result      \* what the call returned

store == <<manifest, versions, vec>>
vars == <<manifest, versions, vec, pc, rev, size, etag, next, obsolete, result>>

Rev == 1 .. MaxRev

\* Chunk ids are "{identity}-{revision}-chunk-{index}".
ChunkId == Rev \X (0 .. MaxChunks - 1)

\* The ids of the documents the call replaces the index with.
Docs(c) == {rev[c]} \X (0 .. size[c] - 1)

\* ETags are numbered in the order the store issued them; 0 is "no document".
Manifest == [etag : Nat, rev : 0 .. MaxRev, completed : BOOLEAN]

NoManifest == [etag |-> 0, rev |-> 0, completed |-> FALSE]

PC == {"idle", "read", "claim", "write", "delete", "done", "failed"}

TypeOK ==
    /\ manifest \in Manifest
    /\ versions \subseteq Manifest
    /\ vec \in [ChunkId -> Call \union {NoCall}]
    /\ pc \in [Call -> PC]
    /\ rev \in [Call -> Rev]
    /\ size \in [Call -> 0 .. MaxChunks]
    /\ etag \in [Call -> Nat]
    /\ next \in [Call -> 0 .. MaxChunks]
    /\ obsolete \in [Call -> SUBSET ChunkId]
    /\ result \in [Call -> {"none", "applied", "superseded"}]

Init ==
    /\ manifest = NoManifest
    /\ versions = {NoManifest}
    /\ vec = [id \in ChunkId |-> NoCall]
    /\ pc = [c \in Call |-> "idle"]
    /\ rev \in [Call -> Rev]
    /\ size \in [Call -> 0 .. MaxChunks]
    /\ etag = [c \in Call |-> 0]
    /\ next = [c \in Call |-> 0]
    /\ obsolete = [c \in Call |-> {}]
    /\ result = [c \in Call |-> "none"]

\* A worker picks up a delivery; the payload was validated and split already.
Start(c) ==
    /\ pc[c] = "idle"
    /\ pc' = [pc EXCEPT ![c] = "read"]
    /\ UNCHANGED <<store, rev, size, etag, next, obsolete, result>>

Return(c, answer) ==
    /\ pc' = [pc EXCEPT ![c] = "done"]
    /\ result' = [result EXCEPT ![c] = answer]

\* What the method concludes from the manifest it read.
SupersededNever(v, c) == FALSE  \* mutant: the high-water mark is not compared

Superseded(v, c) == v.rev > rev[c]

AlreadyApplied(v, c) == v.rev = rev[c] /\ v.completed

\* ReadStateAsync under session consistency: any version not older than what
\* this call was last told of.
ReadState(c) ==
    /\ pc[c] = "read"
    /\ \E v \in versions :
        /\ v.etag >= etag[c]
        /\ \/ /\ Superseded(v, c)
              /\ Return(c, "superseded")
              /\ UNCHANGED etag
           \/ /\ AlreadyApplied(v, c)
              /\ Return(c, "applied")
              /\ UNCHANGED etag
           \/ /\ ~Superseded(v, c)
              /\ ~AlreadyApplied(v, c)
              /\ pc' = [pc EXCEPT ![c] = "claim"]
              /\ etag' = [etag EXCEPT ![c] = v.etag]
              /\ UNCHANGED result
    /\ UNCHANGED <<store, rev, size, next, obsolete>>

\* The store compares the ETag the call sends with the manifest's.
Current(c) == etag[c] = manifest.etag

\* A write of the manifest that the store applies: it gets a fresh ETag.
PutManifest(c, completed) ==
    /\ manifest' = [etag |-> manifest.etag + 1, rev |-> rev[c], completed |-> completed]
    /\ versions' = versions \union {manifest'}

\* Whether the writer of an applied operation learns of it: the answer carries
\* the new ETag; with the answer lost the call ends in an exception.
Answered(c, at) ==
    \/ /\ pc' = [pc EXCEPT ![c] = at]
       /\ etag' = [etag EXCEPT ![c] = manifest.etag + 1]
    \/ /\ pc' = [pc EXCEPT ![c] = "failed"]
       /\ UNCHANGED etag

\* TryClaimAsync: create the manifest, or replace the version that was read.
Claim(c) ==
    /\ pc[c] = "claim"
    /\ Current(c)
    /\ PutManifest(c, FALSE)
    /\ Answered(c, "write")
    /\ UNCHANGED <<vec, rev, size, next, obsolete, result>>

\* mutant: the claim is retried with the ETag that was just refused
ClaimRetried(c) ==
    /\ pc[c] = "claim"
    /\ ~Current(c)
    /\ UNCHANGED vars

\* TryClaimAsync answered Conflict or PreconditionFailed: read again.
ClaimConflict(c) ==
    /\ pc[c] = "claim"
    /\ ~Current(c)
    /\ pc' = [pc EXCEPT ![c] = "read"]
    /\ etag' = [etag EXCEPT ![c] = manifest.etag]
    /\ UNCHANGED <<store, rev, size, next, obsolete, result>>

\* ExecuteAsync: one transaction that replaces the manifest under the ETag the
\* call holds, and upserts or deletes chunk documents with it.
WriteBatch(c) ==
    /\ pc[c] = "write"
    /\ Current(c)
    /\ \E k \in next[c] + 1 .. size[c] :
        /\ k - next[c] <= BatchSize
        /\ vec' = [id \in ChunkId |->
                    IF id[1] = rev[c] /\ next[c] <= id[2] /\ id[2] < k THEN c ELSE vec[id]]
        /\ next' = [next EXCEPT ![c] = k]
    /\ PutManifest(c, FALSE)
    /\ Answered(c, "write")
    /\ UNCHANGED <<rev, size, obsolete, result>>

\* Every batch of new documents was applied.
AnyTime(c) == TRUE  \* mutant: the cleanup does not wait for the writes

AllWritten(c) == next[c] = size[c]

\* The ids in the index that the new document set does not keep.
NotKept(c) == {id \in ChunkId : vec[id] # NoCall} \ Docs(c)

\* ReadChunkIdsAsync after the last write.  A call that still holds the current
\* ETag reads its own session's documents, which are the current ones; a fenced
\* call may read anything, and its next transaction fails whatever it read.
FindObsolete(c) ==
    /\ pc[c] = "write"
    /\ AllWritten(c)
    /\ obsolete' = [obsolete EXCEPT ![c] = NotKept(c)]
    /\ pc' = [pc EXCEPT ![c] = "delete"]
    /\ UNCHANGED <<store, rev, size, etag, next, result>>

DeleteBatch(c) ==
    /\ pc[c] = "delete"
    /\ Current(c)
    /\ \E gone \in SUBSET obsolete[c] :
        /\ gone # {}
        /\ \/ Cardinality(gone) = BatchSize
           \/ Cardinality(gone) < BatchSize /\ gone = obsolete[c]
        /\ vec' = [id \in ChunkId |-> IF id \in gone THEN NoCall ELSE vec[id]]
        /\ obsolete' = [obsolete EXCEPT ![c] = @ \ gone]
    /\ PutManifest(c, FALSE)
    /\ Answered(c, "delete")
    /\ UNCHANGED <<rev, size, next, result>>

\* The last transaction marks the revision completed and the method returns.
Complete(c) ==
    /\ pc[c] = "delete"
    /\ obsolete[c] = {}
    /\ Current(c)
    /\ PutManifest(c, TRUE)
    /\ \/ Return(c, "applied") /\ etag' = [etag EXCEPT ![c] = manifest.etag + 1]
       \/ pc' = [pc EXCEPT ![c] = "failed"] /\ UNCHANGED <<etag, result>>
    /\ UNCHANGED <<vec, rev, size, next, obsolete>>

\* A transaction whose ETag is not current any more: the batch is refused and
\* the method throws.
Fenced(c) ==
    /\ \/ pc[c] = "write" /\ next[c] < size[c]
       \/ pc[c] = "delete"
    /\ ~Current(c)
    /\ pc' = [pc EXCEPT ![c] = "failed"]
    /\ UNCHANGED <<store, rev, size, etag, next, obsolete, result>>

\* Crash, cancellation or a store error that applied nothing.
Abandon(c) ==
    /\ pc[c] \in {"read", "claim", "write", "delete"}
    /\ pc' = [pc EXCEPT ![c] = "failed"]
    /\ UNCHANGED <<store, rev, size, etag, next, obsolete, result>>

Step(c) ==
    \/ ReadState(c)
    \/ Claim(c)
    \/ ClaimConflict(c)
    \/ WriteBatch(c)
    \/ FindObsolete(c)
    \/ DeleteBatch(c)
    \/ Complete(c)
    \/ Fenced(c)

\* Every call has ended: the queue holds no delivery for this identity.
AllEnded ==
    /\ \A c \in Call : pc[c] \in {"done", "failed"}
    /\ UNCHANGED vars

Next ==
    \/ \E c \in Call : Start(c) \/ Step(c) \/ Abandon(c)
    \/ AllEnded

Spec == Init /\ [][Next]_vars

\* A call that runs is scheduled again; nobody is obliged to start one.
FairSpec == Spec /\ \A c \in Call : WF_vars(Step(c))

-----------------------------------------------------------------------------
\* "Completed" is the promise to readers: the index holds exactly the chunks
\* one call computed for the manifest's revision - nothing older, nothing of
\* another attempt at the same revision, nothing missing.
CompletedExact ==
    manifest.completed =>
        \E c \in Call :
            /\ rev[c] = manifest.rev
            /\ \A id \in ChunkId : vec[id] = IF id \in Docs(c) THEN c ELSE NoCall

\* The message is acknowledged on the value the method returned, so the value
\* must stay true: FALSE only for a revision that a newer one has overtaken,
\* TRUE only if this revision is complete or has been overtaken.  The read it
\* may rest on can be stale.
AnswerSound ==
    \A c \in Call :
        /\ result[c] = "superseded" => manifest.rev > rev[c]
        /\ result[c] = "applied" =>
            \/ manifest.rev > rev[c]
            \/ manifest.rev = rev[c] /\ manifest.completed

\* "Retain this high-water mark": no step takes the manifest back to an older
\* revision, and a completed revision is reopened by a newer one only.
HighWaterKept ==
    [][ \/ manifest'.rev > manifest.rev
        \/ /\ manifest'.rev = manifest.rev
           /\ manifest.completed => manifest'.completed ]_vars

\* A delayed older upsert cannot resurrect content: a document is written only
\* for the revision that is claimed, and only while that one is not complete.
NoResurrection ==
    [][ \A id \in ChunkId :
            vec'[id] \notin {vec[id], NoCall} =>
                manifest.rev = id[1] /\ ~manifest.completed ]_vars

\* "Old vectors remain until EVERY new vector is safely written": a document
\* disappears only when the claimed revision, which is not older, is there in
\* full, written by one call.
RemovalCovered ==
    [][ \A id \in ChunkId :
            (vec[id] # NoCall /\ vec'[id] = NoCall) =>
                \E c \in Call :
                    /\ id[1] <= rev[c]
                    /\ rev[c] = manifest.rev
                    /\ \A d \in Docs(c) : vec'[d] = c ]_vars

\* Every call that was started has returned or thrown.
CallsEnded == \A c \in Call : pc[c] \in {"idle", "done", "failed"}

-----------------------------------------------------------------------------
\* Why it works, as an invariant that every step preserves.

\* A call between its claim and its completion whose ETag is the current one.
Holds(c) == pc[c] \in {"write", "delete"} /\ Current(c)

\* What was true of an old version is still bounded by the current manifest.
VersionsBehind ==
    /\ manifest \in versions
    /\ \A v \in versions :
        /\ v.etag <= manifest.etag
        /\ v.etag = manifest.etag => v = manifest
        /\ v.rev <= manifest.rev
        /\ v.rev = manifest.rev /\ v.completed => manifest.completed
    /\ \A c \in Call : etag[c] <= manifest.etag

\* A claim that can succeed is a claim the read allowed.
ClaimAllowed ==
    \A c \in Call :
        pc[c] = "claim" /\ etag[c] = manifest.etag =>
            /\ manifest.rev <= rev[c]
            /\ ~(manifest.rev = rev[c] /\ manifest.completed)

\* The current ETag has one holder, and the manifest is as its last write left
\* it: its revision, not completed.
OneHolder ==
    /\ \A c \in Call : Holds(c) => manifest.rev = rev[c] /\ ~manifest.completed
    /\ \A c, d \in Call : Holds(c) /\ Holds(d) => c = d

\* What the holder wrote is still there, and once it deletes it knows of every
\* other document.
HolderProgress ==
    \A c \in Call : Holds(c) =>
        /\ \A i \in 0 .. MaxChunks - 1 : i < next[c] => vec[<<rev[c], i>>] = c
        /\ pc[c] = "delete" =>
            \A id \in ChunkId : vec[id] = NoCall \/ id \in obsolete[c] \/ id \in Docs(c)

\* Where a call is and what it knows.
CallSane ==
    \A c \in Call :
        /\ next[c] <= size[c]
        /\ pc[c] \in {"idle", "read", "claim"} => next[c] = 0
        /\ pc[c] = "delete" => next[c] = size[c]
        /\ obsolete[c] \cap Docs(c) = {}
        /\ pc[c] # "done" => result[c] = "none"

\* Readers never see a vector of a revision that was not claimed.
NothingAhead == \A id \in ChunkId : vec[id] # NoCall => id[1] <= manifest.rev

FenceInv ==
    /\ TypeOK
    /\ VersionsBehind
    /\ ClaimAllowed
    /\ OneHolder
    /\ HolderProgress
    /\ CallSane
    /\ NothingAhead
    /\ CompletedExact
    /\ AnswerSound

-----------------------------------------------------------------------------
\* The fence implements the abstract register: a chunk document counts as its
\* revision, and the answers of the method are the register's answers.
VisibleRevisions == {r \in Rev : \E i \in 0 .. MaxChunks - 1 : vec[<<r, i>>] # NoCall}

Register == INSTANCE RevisionRegister WITH
    Request <- Call,
    Revision <- Rev,
    claimed <- manifest.rev,
    settled <- manifest.completed,
    visible <- VisibleRevisions,
    of <- rev,
    answer <- result

ImplementsRegister == Register!RegisterSpec
=============================================================================
