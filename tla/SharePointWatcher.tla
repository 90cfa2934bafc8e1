-------------------------- MODULE SharePointWatcher --------------------------
(***************************************************************************)
(* The SharePoint source watcher (SharePointSourceWatcher.cs): Graph delta  *)
(* pages become revisioned queue messages through a persisted outbox.       *)
(*                                                                         *)
(* Pods poll one drive for one source.  The polling lease makes one of them *)
(* the owner, but only until its clock says otherwise, so several may be in *)
(* a poll at once; what keeps them apart is the ETag of the state document. *)
(* A pod may stop anywhere, every store or queue call may fail or be applied *)
(* without its answer arriving, and a batch may be sent in part.            *)
(*                                                                         *)
(* Graph is external: a delta token is a point in the drive's history, an   *)
(* enumeration reports items as they are when their page is read, and a     *)
(* token can be refused as expired (410) at any time.                       *)
(***************************************************************************)
EXTENDS Naturals, FiniteSets

CONSTANTS
    Pod,            \* ingestion replicas
    Item,           \* drive items
    Pipe,           \* pipelines that can use the source
    PageSize,       \* items of a Graph page
    BatchSize,      \* tombstones of one reconciliation page (100)
    MaxChanges,     \* bound: changes of the drive
    Scopes          \* bounds, one of which a behaviour keeps: pods at work at a time, items of the
                    \* drive, revisions issued, pipelines active at first, and how often
                    \* pipelines are attached or resumed, paused or detached, and reset

ASSUME WatcherAssumption ==
    /\ {PageSize, BatchSize} \subseteq Nat \ {0}
    /\ MaxChanges \in Nat
    /\ Scopes \subseteq [pods : Nat, items : Nat, revs : Nat, active : Nat, attach : Nat, detach : Nat, reset : Nat]

VARIABLES
    drive,      \* the items: time of the last change and what is there now
    active,     \* pipelines the API reports as active for the source
    resetAt,    \* reset_at of each pipeline
    scope,      \* what the bounds still allow
    interrupted, \* history: pipelines that some page may have left out (see CaughtUp)
    doc,        \* the state document, with its ETag
    refs,       \* the reference document of each item
    sent,       \* every message handed to Service Bus
    watcher,    \* per pod: pipelines, rescan flag, generation
    poll        \* per pod: where its poll is and what it holds in memory

api == <<active, resetAt, scope, interrupted>>
vars == <<drive, api, doc, refs, sent, watcher, poll>>

Largest(S) == CHOOSE n \in S : \A k \in S : k <= n

\* GetGeneration: the latest reset_at of the pipelines.
Generation(S) == Largest({0} \union {resetAt[p] : p \in S})

Clock == Largest({0} \union {drive[i].at : i \in Item})

\* A URL is an initial enumeration, a continuation or a delta token.
NoUrl == [kind |-> "none", at |-> 0, left |-> {}]

BuildInitialDeltaUrl == [NoUrl EXCEPT !.kind = "start"]

NoPage == [changes |-> {}, pipes |-> {}, next |-> NoUrl, isDelta |-> FALSE, ends |-> FALSE,
           pending |-> FALSE]

NoDoc == [etag |-> 0, url |-> NoUrl, rev |-> 0, scan |-> 0, full |-> FALSE,
          reconcile |-> FALSE, page |-> NoPage, pipes |-> {}, gen |-> 0]

NoRef == [rev |-> 0, scan |-> 0, deleted |-> FALSE]

\* A pod between two polls, or off: the next poll loads the state again.
NotPolling(at) ==
    [pc |-> at, mem |-> NoDoc, draft |-> NoPage, todo |-> {}, missing |-> {},
     reconciling |-> FALSE, fetching |-> FALSE, expired |-> FALSE]

NoWatcher == [pipes |-> {}, rescan |-> FALSE, gen |-> 0]

\* BuildMessages: one for each change and pipeline, under the page's revision.
BuildMessages(page, rev) ==
    {[pipe |-> p, item |-> c.item, rev |-> rev, ver |-> c.ver, deleted |-> c.deleted] :
        p \in page.pipes, c \in page.changes}

Init ==
    /\ drive = [i \in Item |-> [at |-> 0, is |-> "absent"]]
    /\ scope \in Scopes
    /\ active \in {S \in SUBSET Pipe : Cardinality(S) = scope.active}
    /\ resetAt = [p \in Pipe |-> 0]
    /\ interrupted = {}
    /\ doc = NoDoc
    /\ refs = [i \in Item |-> NoRef]
    /\ sent = {}
    /\ watcher = [w \in Pod |-> NoWatcher]
    /\ poll = [w \in Pod |-> NotPolling("off")]

-----------------------------------------------------------------------------
\* The drive: an item is created or edited, stops being indexable (a filter, its
\* size) or is deleted for good.
Change(i) ==
    /\ Clock < MaxChanges
    /\ drive[i].is # "gone"
    /\ Cardinality({i} \union {j \in Item : drive[j].is # "absent"}) <= scope.items
    /\ \E is \in {"file", "unfit", "gone"} :
        /\ drive[i].is = "absent" => is = "file"
        /\ drive' = [drive EXCEPT ![i] = [at |-> Clock + 1, is |-> is]]
    /\ UNCHANGED <<api, doc, refs, sent, watcher, poll>>

\* The API: a pipeline is attached or resumed, paused or detached, or reset.
Attach(p) ==
    /\ p \notin active
    /\ scope.attach > 0
    /\ active' = active \union {p}
    /\ scope' = [scope EXCEPT !.attach = @ - 1]
    /\ interrupted' = IF scope.pods > 1 THEN interrupted \union {p} ELSE interrupted
    /\ UNCHANGED <<drive, resetAt, doc, refs, sent, watcher, poll>>

Detach(p) ==
    /\ p \in active
    /\ scope.detach > 0
    /\ active' = active \ {p}
    /\ scope' = [scope EXCEPT !.detach = @ - 1]
    /\ interrupted' = interrupted \union {p}
    /\ UNCHANGED <<drive, resetAt, doc, refs, sent, watcher, poll>>

Reset(p) ==
    /\ scope.reset > 0
    /\ scope' = [scope EXCEPT !.reset = @ - 1]
    /\ resetAt' = [resetAt EXCEPT ![p] = Generation(Pipe) + 1]
    /\ UNCHANGED <<drive, active, interrupted, doc, refs, sent, watcher, poll>>

-----------------------------------------------------------------------------
\* Pipelines the state document does not know of ask for a full scan.
Unscanned(S) == doc.etag > 0 /\ ~(S \subseteq doc.pipes)

\* The watcher is created, told its pipelines and started; StartAsync loads the
\* state document, which the first poll does again.
StartPod(w) ==
    /\ poll[w].pc = "off"
    /\ Cardinality({v \in Pod : poll[v].pc # "off"}) < scope.pods
    /\ active # {}
    /\ poll' = [poll EXCEPT ![w] = NotPolling("idle")]
    /\ watcher' = [watcher EXCEPT ![w] =
            [pipes |-> active, rescan |-> Unscanned(active), gen |-> Generation(active)]]
    /\ UNCHANGED <<drive, api, doc, refs, sent>>

\* The pod crashes, or the manager disposes the watcher (lease lost, pipeline
\* reset, last pipeline paused): its memory is gone.
StopPod(w) ==
    /\ poll[w].pc # "off"
    /\ poll' = [poll EXCEPT ![w] = NotPolling("off")]
    /\ watcher' = [watcher EXCEPT ![w] = NoWatcher]
    /\ UNCHANGED <<drive, api, doc, refs, sent>>

\* UpdatePipelines from the reconcile loop, at any point of a poll.  When the
\* generation differs the manager replaces the watcher instead.
UpdatePipelines(w) ==
    /\ poll[w].pc # "off"
    /\ active \notin {{}, watcher[w].pipes}
    /\ watcher[w].gen = Generation(active)
    /\ watcher' = [watcher EXCEPT ![w].pipes = active,
                                  ![w].rescan = @ \/ ~(active \subseteq watcher[w].pipes)]
    /\ UNCHANGED <<drive, api, doc, refs, sent, poll>>

\* A call of the poll throws; RunAsync logs it and backs off.
PollFails(w) ==
    /\ poll[w].pc \notin {"off", "idle"}
    /\ poll' = [poll EXCEPT ![w] = NotPolling("idle")]
    /\ UNCHANGED <<drive, api, doc, refs, sent, watcher>>

-----------------------------------------------------------------------------
\* LoadStateAsync; a persisted outbox is replayed before anything else.
Load(w) ==
    /\ poll[w].pc = "idle"
    /\ poll' = [poll EXCEPT ![w].mem = doc,
                            ![w].pc = IF doc.page.pending THEN "publish"
                                      ELSE IF doc.reconcile THEN "reconcile" ELSE "reset"]
    /\ watcher' = [watcher EXCEPT ![w].rescan = @ \/ Unscanned(watcher[w].pipes)]
    /\ UNCHANGED <<drive, api, doc, refs, sent>>

\* PersistDeltaUrlAsync: the state document is replaced under the ETag the pod
\* holds.  Refused or failed, it throws (PollFails); applied with its answer
\* lost, it throws as well: this step, and PollFails next.
IfMatch(w) == poll[w].mem.etag = doc.etag

InMemory(w, state, at) ==  \* mutant: the outbox is not made durable before it is sent
    /\ IfMatch(w)
    /\ doc' = IF state.page.pending THEN doc ELSE [state EXCEPT !.etag = doc.etag + 1]
    /\ poll' = [poll EXCEPT ![w].mem = [state EXCEPT !.etag = doc'.etag],
                            ![w].pc = at, ![w].draft = NoPage,
                            ![w].reconciling = @ /\ state.reconcile]

PersistDeltaUrl(w, state, at) ==
    /\ IfMatch(w)
    /\ doc' = [state EXCEPT !.etag = doc.etag + 1]
    /\ poll' = [poll EXCEPT ![w].mem = doc', ![w].pc = at, ![w].draft = NoPage,
                            ![w].reconciling = @ /\ state.reconcile]

\* Before the page loop: is a full enumeration due?  The request is withdrawn
\* before the scan it asks for is persisted.
ScanDue(w) ==
    \/ watcher[w].rescan
    \/ poll[w].mem.url.kind = "none"
    \/ poll[w].mem.gen # watcher[w].gen

CheckReset(w) ==
    /\ poll[w].pc = "reset"
    /\ poll' = [poll EXCEPT ![w].pc = IF ScanDue(w) THEN "scan" ELSE "get",
                            ![w].fetching = TRUE]
    /\ watcher' = [watcher EXCEPT ![w].rescan = FALSE]
    /\ UNCHANGED <<drive, api, doc, refs, sent>>

Scanning(w) ==
    [poll[w].mem EXCEPT !.gen = watcher[w].gen, !.pipes = watcher[w].pipes,
                        !.rev = @ + 1, !.scan = poll[w].mem.rev + 1,
                        !.full = TRUE, !.reconcile = FALSE,
                        !.url = BuildInitialDeltaUrl]

StartScan(w) ==
    /\ poll[w].pc = "scan"
    /\ poll[w].mem.rev < scope.revs
    /\ PersistDeltaUrl(w, Scanning(w), "get")
    /\ UNCHANGED <<drive, api, refs, sent, watcher>>

\* Graph: what the pages of a URL still have to report, and from which point in
\* time the delta token at their end will count.
Remaining(url) ==
    CASE url.kind = "start" -> {i \in Item : drive[i].is \in {"file", "unfit"}}
      [] url.kind = "delta" -> {i \in Item : drive[i].at > url.at}
      [] url.kind = "more"  -> url.left

Since(url) == IF url.kind = "more" THEN url.at ELSE Clock

\* ParseChangesAsync: a deletion is always passed on, an item that cannot be
\* indexed only if the watcher has a reference of it.
ParseChanges(i) ==
    LET change(gone) == {[item |-> i, ver |-> drive[i].at, deleted |-> gone]}
    IN  CASE drive[i].is = "file"  -> change(FALSE)
          [] drive[i].is = "gone"  -> change(TRUE)
          [] drive[i].is = "unfit" -> IF refs[i].rev > 0 THEN change(TRUE) ELSE {}

GetPage(w) ==
    /\ poll[w].pc = "get"
    /\ \E items \in SUBSET Remaining(poll[w].mem.url) :
        LET url == poll[w].mem.url
            rest == Remaining(url) \ items
        IN  /\ IF rest = {} THEN Cardinality(items) <= PageSize ELSE Cardinality(items) = PageSize
            /\ poll' = [poll EXCEPT
                    ![w].pc = "stage",
                    ![w].draft =
                        [NoPage EXCEPT
                            !.changes = UNION {ParseChanges(i) : i \in items},
                            !.next = [kind |-> IF rest = {} THEN "delta" ELSE "more",
                                      at |-> Since(url), left |-> rest],
                            !.isDelta = (rest = {})]]
    /\ UNCHANGED <<drive, api, doc, refs, sent, watcher>>

\* 410 Gone starts a full scan, once in a poll; the second one is an error.
TokenExpired(w) ==
    /\ poll[w].pc = "get"
    /\ poll[w].mem.url.kind \in {"delta", "more"}
    /\ ~poll[w].expired
    /\ poll' = [poll EXCEPT ![w].expired = TRUE, ![w].pc = "scan"]
    /\ UNCHANGED <<drive, api, doc, refs, sent, watcher>>

\* StagePageAsync: revision, targets and messages become durable before any of
\* the messages can be sent.
Staged(w, page) ==
    [poll[w].mem EXCEPT !.rev = @ + 1,
                        !.page = [page EXCEPT !.pipes = watcher[w].pipes, !.pending = TRUE]]

StagePage(w) ==
    /\ poll[w].pc = "stage"
    /\ poll[w].mem.rev < scope.revs
    /\ PersistDeltaUrl(w, Staged(w, poll[w].draft), "publish")
    /\ UNCHANGED <<drive, api, refs, sent, watcher>>

\* FlushPendingAsync: the messages, then the references, then the checkpoint.
Publish(w) ==
    /\ poll[w].pc = "publish"
    /\ sent' = sent \union BuildMessages(poll[w].mem.page, poll[w].mem.rev)
    /\ poll' = [poll EXCEPT ![w].pc = "refs", ![w].todo = poll[w].mem.page.changes]
    /\ UNCHANGED <<drive, api, doc, refs, watcher>>

\* PublishBatchAsync throws after one of its batches was sent.
PublishPart(w) ==
    /\ poll[w].pc = "publish"
    /\ \E m \in BuildMessages(poll[w].mem.page, poll[w].mem.rev) : sent' = sent \union {m}
    /\ poll' = [poll EXCEPT ![w] = NotPolling("idle")]
    /\ UNCHANGED <<drive, api, doc, refs, watcher>>

\* PersistReferencesAsync, one item: read, compare the revision, write under the
\* ETag, and again until it is through.
AnyRef(w, i) == FALSE  \* mutant: a replay overwrites newer references

NewerRef(w, i) == refs[i].rev > poll[w].mem.rev

PersistReference(w) ==
    /\ poll[w].pc = "refs"
    /\ \E c \in poll[w].todo :
        /\ refs' = IF NewerRef(w, c.item) THEN refs
                   ELSE [refs EXCEPT ![c.item] =
                            [rev |-> poll[w].mem.rev, scan |-> poll[w].mem.scan,
                             deleted |-> c.deleted]]
        /\ poll' = [poll EXCEPT ![w].todo = @ \ {c}]
    /\ UNCHANGED <<drive, api, doc, sent, watcher>>

\* The page is done: the cursor moves on and the outbox is empty.
NoReconcile(state) ==  \* mutant: a full scan ends without the reconciliation
    [state EXCEPT !.url = state.page.next, !.page = NoPage,
                  !.full = @ /\ ~state.page.isDelta]

Flushed(state) ==
    [state EXCEPT !.url = state.page.next,
                  !.page = NoPage,
                  !.full = @ /\ ~state.page.ends,
                  !.reconcile = ~state.page.ends /\ (@ \/ (state.page.isDelta /\ state.full))]

\* Where PollDeltaAsync continues after a flush.
AfterFlush(w) ==
    CASE Flushed(poll[w].mem).reconcile /\ poll[w].reconciling -> "batch"
      [] Flushed(poll[w].mem).reconcile /\ ~poll[w].reconciling -> "reconcile"
      [] ~Flushed(poll[w].mem).reconcile /\ ~poll[w].fetching -> "reset"
      [] OTHER -> IF poll[w].mem.page.isDelta THEN "polled" ELSE "get"

Commit(w) ==
    /\ poll[w].pc = "refs"
    /\ poll[w].todo = {}
    /\ PersistDeltaUrl(w, Flushed(poll[w].mem), AfterFlush(w))
    /\ UNCHANGED <<drive, api, refs, sent, watcher>>

Polled(w) ==
    /\ poll[w].pc = "polled"
    /\ poll' = [poll EXCEPT ![w] = NotPolling("idle")]
    /\ UNCHANGED <<drive, api, doc, refs, sent, watcher>>

\* ReconcileScanAsync: known items the scan did not see get tombstones, in pages
\* of their own; an empty last page ends the scan.
NotSeen(w) == {i \in Item : refs[i].rev > 0 /\ ~refs[i].deleted /\ refs[i].scan < poll[w].mem.scan}

FindMissing(w) ==
    /\ poll[w].pc = "reconcile"
    /\ poll' = [poll EXCEPT ![w].missing = NotSeen(w), ![w].reconciling = TRUE, ![w].pc = "batch"]
    /\ UNCHANGED <<drive, api, doc, refs, sent, watcher>>

StageMissing(w) ==
    /\ poll[w].pc = "batch"
    /\ poll[w].mem.rev < scope.revs
    /\ \E gone \in SUBSET poll[w].missing :
        LET rest == poll[w].missing \ gone
            page == [NoPage EXCEPT
                        !.changes = {[item |-> i, ver |-> 0, deleted |-> TRUE] : i \in gone},
                        !.next = poll[w].mem.url, !.isDelta = TRUE,
                        !.ends = (poll[w].missing = {})]
        IN  /\ gone = {} => poll[w].missing = {}
            /\ IF rest = {} THEN Cardinality(gone) <= BatchSize ELSE Cardinality(gone) = BatchSize
            /\ IfMatch(w)
            /\ doc' = [Staged(w, page) EXCEPT !.etag = doc.etag + 1]
            /\ poll' = [poll EXCEPT ![w].mem = doc', ![w].pc = "publish", ![w].missing = rest]
    /\ UNCHANGED <<drive, api, refs, sent, watcher>>

-----------------------------------------------------------------------------
Poll(w) ==
    \/ Load(w) \/ CheckReset(w) \/ StartScan(w) \/ GetPage(w) \/ TokenExpired(w)
    \/ StagePage(w) \/ Publish(w) \/ PersistReference(w) \/ Commit(w) \/ Polled(w)
    \/ FindMissing(w) \/ StageMissing(w)

Next ==
    \/ \E i \in Item : Change(i)
    \/ \E p \in Pipe : Attach(p) \/ Detach(p) \/ Reset(p)
    \/ \E w \in Pod : \/ StartPod(w) \/ StopPod(w) \/ UpdatePipelines(w)
                       \/ PollFails(w) \/ PublishPart(w) \/ Poll(w)

Spec == Init /\ [][Next]_vars

-----------------------------------------------------------------------------
TypeOK ==
    /\ \A i \in Item : drive[i].at \in 0 .. MaxChanges /\ refs[i].rev \in 0 .. scope.revs
    /\ active \subseteq Pipe
    /\ doc.rev \in 0 .. scope.revs
    /\ doc.scan \in 0 .. doc.rev
    /\ doc.pipes \subseteq Pipe
    /\ doc.page.pending => doc.page.next.kind \in {"more", "delta"}
    /\ \A w \in Pod : poll[w].mem.etag <= doc.etag

\* A revision stands for one version of an item, whoever sends or sends again,
\* and a later revision never for an earlier version: what makes the worker's
\* comparison of revisions mean anything.  (Tombstones of the reconciliation
\* carry no version.)
RevisionNamesVersion ==
    \A m, n \in sent : m.item = n.item =>
        /\ m.rev = n.rev => m.ver = n.ver /\ m.deleted = n.deleted
        /\ m.rev < n.rev /\ ~n.deleted => m.ver <= n.ver

\* The outbox comes first: nothing was sent under a revision that the durable
\* state has not reached, so no restart gives it out again.
OutboxFirst == \A m \in sent : m.rev <= doc.rev

\* Between pages, with no scan under way, the cursor says "everything up to
\* here has been passed on".
Settled == doc.url.kind = "delta" /\ ~doc.page.pending /\ ~doc.full

MessagesOf(p, i) == {m \in sent : m.pipe = p /\ m.item = i}

Newest(M) == CHOOSE m \in M : \A n \in M : n.rev <= m.rev

\* What a pipeline that processes its messages by revision ends up with.
Conveyed(p, i) ==
    LET M == MessagesOf(p, i) IN
    IF drive[i].is = "file"
    THEN /\ M # {}
         /\ ~Newest(M).deleted
         /\ Newest(M).ver = drive[i].at
         /\ Newest(M).rev > doc.scan
    ELSE M = {} \/ Newest(M).deleted

\* When the cursor is settled, every active pipeline that was part of the last
\* scan has been told, since that scan began, of each item as it was up to the
\* cursor - or would never be told.
\* docs/sharepoint-source.md:169: "Initial enumeration, newly attached pipelines,
\* and expired delta tokens trigger a full scan".
\* Not said of pipelines that were paused or detached, or attached while several
\* pods may run: a scan that is asked for when they come back is not on record
\* until it starts, deletions noted meanwhile are not repeated, and a pod that has
\* not heard of them stages pages without them.
CaughtUp ==
    Settled =>
        \A p \in (active \cap doc.pipes) \ interrupted, i \in Item :
            drive[i].at <= doc.url.at => Conveyed(p, i)

\* A poll comes to its end only under the generation its watcher was made for:
\* after a reset of a pipeline some scan began later than the reset
\* (docs/sharepoint-source.md, PollDeltaAsync's comparison of ResetGeneration).
ResetHonoured == \A w \in Pod : poll[w].pc = "polled" => poll[w].mem.gen = watcher[w].gen

\* A poll comes to its end only for pipelines that the last scan had, or a scan
\* is still asked for: also for a pipeline that is attached while a scan is under
\* way, by whatever pod (UpdatePipelines, LoadStateAsync).
AttachHonoured ==
    \A w \in Pod : poll[w].pc = "polled" => watcher[w].rescan \/ watcher[w].pipes \subseteq poll[w].mem.pipes

\* The invariant of the watcher: revisions mean one version of an item, the
\* outbox is durable before anything is sent, and no poll ends under a
\* generation that a reset has replaced, or without the pipelines it is for.
WatcherInv == TypeOK /\ RevisionNamesVersion /\ OutboxFirst /\ ResetHonoured /\ AttachHonoured

\* A reference is not taken back to an older page by a replay.
RefsAdvance == [][\A i \in Item : refs'[i].rev >= refs[i].rev]_vars

\* The cursor moves only when the page it leaves behind was sent to every
\* pipeline it was staged for.
CursorBehindMessages ==
    [][ doc.page.pending /\ ~doc'.page.pending =>
            BuildMessages(doc.page, doc.rev) \subseteq sent ]_vars

\* What a restart, a replay or the other pod may never undo: the references and
\* the cursor move forward only, and only behind the messages.
NeverBack == RefsAdvance /\ CursorBehindMessages

=============================================================================
