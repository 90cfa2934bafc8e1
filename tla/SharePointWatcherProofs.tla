----------------------- MODULE SharePointWatcherProofs -----------------------
(***************************************************************************)
(* Proofs about SharePointWatcher, for every set of pods, items and         *)
(* pipelines, every page and batch size and every bound: what revisions     *)
(* mean, that the outbox comes first, that a reset is honoured, that        *)
(* neither references nor the cursor go back, and that a settled cursor      *)
(* means that every pipeline was told of every item.                        *)
(***************************************************************************)
EXTENDS SharePointWatcher, FiniteSetTheorems, WellFoundedInduction, TLAPS

-----------------------------------------------------------------------------
(* The inductive invariant of what pods, document and messages agree on.    *)

Url == [kind : {"none", "start", "more", "delta"}, at : Nat, left : SUBSET Item]
ItemChange == [item : Item, ver : Nat, deleted : BOOLEAN]
Page == [changes : SUBSET ItemChange, pipes : SUBSET Pipe, next : Url,
         isDelta : BOOLEAN, ends : BOOLEAN, pending : BOOLEAN]
State == [etag : Nat, url : Url, rev : Nat, scan : Nat, full : BOOLEAN, reconcile : BOOLEAN,
          page : Page, pipes : SUBSET Pipe, gen : Nat]
Message == [pipe : Pipe, item : Item, rev : Nat, ver : Nat, deleted : BOOLEAN]
PC == {"off", "idle", "reset", "scan", "get", "stage", "publish", "refs", "reconcile", "batch", "polled"}
Polling == [pc : PC, mem : State, draft : Page, todo : SUBSET ItemChange, missing : SUBSET Item,
            reconciling : BOOLEAN, fetching : BOOLEAN, expired : BOOLEAN]
Watcher == [pipes : SUBSET Pipe, rescan : BOOLEAN, gen : Nat]
Reference == [rev : Nat, scan : Nat, deleted : BOOLEAN]

\* Every variable is of its kind; the times of resets have a bound.
Typed ==
    /\ drive \in [Item -> [at : 0 .. MaxChanges, is : {"absent", "file", "unfit", "gone"}]]
    /\ \A i \in Item : drive[i].is = "absent" => drive[i].at = 0
    /\ active \in SUBSET Pipe
    /\ resetAt \in [Pipe -> Nat]
    /\ \E n \in Nat : \A p \in Pipe : resetAt[p] <= n
    /\ scope \in [pods : Nat, items : Nat, revs : Nat, active : Nat, attach : Nat, detach : Nat, reset : Nat]
    /\ doc \in State
    /\ refs \in [Item -> Reference]
    /\ sent \in SUBSET Message
    /\ watcher \in [Pod -> Watcher]
    /\ poll \in [Pod -> Polling]

OneChangeEach(changes) == \A c, e \in changes : c.item = e.item => c = e

Existing == {i \in Item : drive[i].is # "absent"}

\* What holds of every version of the state document.
Sane(d) ==
    /\ d.scan <= d.rev
    /\ d.rev <= scope.revs
    /\ d.reconcile => d.url.kind \in {"more", "delta"}
    /\ d.page.pending => d.page.next.kind \in {"more", "delta"}
    /\ d.url.left \union d.page.next.left \subseteq Existing
    /\ OneChangeEach(d.page.changes)

AllSane == Sane(doc) /\ \A w \in Pod : Sane(poll[w].mem)

\* A pod holds a former state document, or the current one if it has its ETag;
\* references are of revisions that were reached.
Memory ==
    /\ \A w \in Pod :
        /\ poll[w].mem.etag <= doc.etag
        /\ poll[w].mem.rev <= doc.rev
        /\ poll[w].mem.etag = doc.etag => poll[w].mem = doc
    /\ \A i \in Item : refs[i].rev <= doc.rev
    /\ doc.etag = 0 => doc = NoDoc

\* What a pod holds at each point of a poll.
Phase(w) ==
    /\ poll[w].pc \in {"publish", "refs"} <=> poll[w].mem.page.pending
    /\ poll[w].pc \in {"reconcile", "batch"} => poll[w].mem.reconcile
    /\ poll[w].pc = "get" => poll[w].mem.url.kind # "none"
    /\ poll[w].pc = "stage" =>
        /\ poll[w].draft.next.kind \in {"more", "delta"} /\ poll[w].draft.next.left \subseteq Existing
        /\ OneChangeEach(poll[w].draft.changes)
    /\ poll[w].pc = "refs" =>
        /\ poll[w].todo \subseteq poll[w].mem.page.changes
        /\ BuildMessages(poll[w].mem.page, poll[w].mem.rev) \subseteq sent

Phases == \A w \in Pod : Phase(w)

\* Whoever fetches pages does so under the generation of its watcher, or is about
\* to start a scan for it; and for pipelines of the last scan, unless another one
\* is asked for or there was none.
Fetches(w) ==
    /\ poll[w].pc \in {"scan", "get", "stage", "polled"} => poll[w].fetching
    /\ poll[w].pc \in {"off", "idle"} => ~poll[w].fetching
    /\ poll[w].fetching /\ poll[w].pc # "scan" => poll[w].mem.gen = watcher[w].gen
    /\ poll[w].pc \notin {"off", "idle", "scan"} =>
        \/ watcher[w].rescan \/ watcher[w].pipes \subseteq poll[w].mem.pipes
        \/ poll[w].pc = "reset" /\ poll[w].mem.url.kind = "none"

Generations == \A w \in Pod : Fetches(w)

\* A change is known under a revision when it is in the outbox, in what a pod
\* remembers of an outbox, or was sent.
Holds(d, r, c) == d.page.pending /\ d.rev = r /\ c \in d.page.changes
Says(m, r, c) == m.rev = r /\ m.item = c.item /\ m.ver = c.ver /\ m.deleted = c.deleted
Known(r, c) ==
    \/ Holds(doc, r, c)
    \/ \E w \in Pod : Holds(poll[w].mem, r, c)
    \/ \E m \in sent : Says(m, r, c)

\* Revisions that were given out, of versions that there are.
KnownReached == \A r \in Nat, c \in ItemChange : Known(r, c) => r <= doc.rev /\ c.ver <= drive[c.item].at

\* RevisionNamesVersion, of everything known.
KnownOrdered ==
    \A r, s \in Nat, c, e \in ItemChange :
        Known(r, c) /\ Known(s, e) /\ c.item = e.item =>
            /\ r = s => c = e
            /\ r < s /\ ~e.deleted => c.ver <= e.ver

\* A page that may still be staged is at least as new as all that is known.
DraftsNewest ==
    \A w \in Pod : poll[w].pc = "stage" /\ IfMatch(w) =>
        \A r \in Nat, c \in ItemChange, e \in poll[w].draft.changes :
            Known(r, c) /\ c.item = e.item => c.ver <= e.ver

DraftsReal == \A w \in Pod : poll[w].pc = "stage" => \A e \in poll[w].draft.changes : e.ver <= drive[e.item].at

IInv == Typed /\ AllSane /\ Memory /\ Phases /\ Generations /\ KnownReached /\ KnownOrdered /\ DraftsNewest /\ DraftsReal

-----------------------------------------------------------------------------
(* Operators.                                                               *)

\* A nonempty set of natural numbers below a bound has a largest element.
LEMMA LargestProperties ==
  ASSUME NEW S \in SUBSET Nat, S # {}, NEW n \in Nat, \A k \in S : k <= n
  PROVE  Largest(S) \in S /\ \A k \in S : k <= Largest(S)
<1> DEFINE R == {ss \in Nat \X Nat : ss[1] < ss[2]}
           T == {n - k : k \in S}
<1>1. IsWellFoundedOn(R, Nat)
  BY NatLessThanWellFounded DEF OpToRel
<1>2. T \in SUBSET Nat /\ T # {}
  <2>1. \A k \in S : n - k \in Nat
    OBVIOUS
  <2> QED BY <2>1
<1>3. PICK t \in T : \A u \in T : <<u, t>> \notin R
  BY <1>1, <1>2, WFMin, Zenon
<1>4. PICK m \in S : t = n - m
  OBVIOUS
<1>5. ASSUME NEW k \in S PROVE k <= m
  <2>1. n - k \in T /\ n - k \in Nat /\ t \in Nat
    BY <1>2
  <2>2. <<n - k, t>> \in Nat \X Nat /\ <<n - k, t>> \notin R
    BY <1>3, <2>1, Zenon
  <2>3. ~(n - k < t)
    BY <2>2
  <2> QED BY <1>4, <2>3
<1> QED BY <1>4, <1>5 DEF Largest

\* The latest change is at a time up to the bound, and no item changed later.
LEMMA LatestChange ==
  ASSUME NEW d, \A i \in Item : d[i].at \in 0 .. MaxChanges
  PROVE  LET latest == Largest({0} \union {d[i].at : i \in Item})
         IN  latest \in 0 .. MaxChanges /\ \A i \in Item : d[i].at <= latest
<1> DEFINE S == {0} \union {d[i].at : i \in Item}
<1>1. MaxChanges \in Nat
  BY WatcherAssumption
<1>2. S \in SUBSET Nat /\ S # {} /\ \A k \in S : k <= MaxChanges
  BY <1>1
<1>3. Largest(S) \in S /\ \A k \in S : k <= Largest(S)
  BY <1>1, <1>2, LargestProperties
<1> QED BY <1>1, <1>2, <1>3

LEMMA ClockProperties ==
  ASSUME Typed
  PROVE  Clock \in 0 .. MaxChanges /\ \A i \in Item : drive[i].at <= Clock
BY LatestChange DEF Typed, Clock

\* The generation of some pipelines is the time of a reset, or zero.
LEMMA GenerationType ==
  ASSUME Typed, NEW S \in SUBSET Pipe
  PROVE  Generation(S) \in Nat /\ \A p \in S : resetAt[p] <= Generation(S)
<1> DEFINE G == {0} \union {resetAt[p] : p \in S}
<1>1. PICK n \in Nat : \A p \in Pipe : resetAt[p] <= n
  BY DEF Typed
<1>2. G \in SUBSET Nat /\ G # {} /\ \A k \in G : k <= n
  BY <1>1 DEF Typed
<1>3. Largest(G) \in G /\ \A k \in G : k <= Largest(G)
  BY <1>1, <1>2, LargestProperties
<1> QED BY <1>2, <1>3 DEF Generation

\* The constants of the module are of their kind.
LEMMA ConstantTypes ==
  /\ NoUrl \in Url /\ BuildInitialDeltaUrl \in Url
  /\ NoPage \in Page /\ ~NoPage.pending /\ NoPage.changes = {}
  /\ NoDoc \in State /\ NoDoc.rev = 0 /\ NoDoc.etag = 0 /\ ~NoDoc.page.pending /\ ~NoDoc.reconcile
  /\ \A at \in PC : NotPolling(at) \in Polling
BY DEF NoUrl, BuildInitialDeltaUrl, NoPage, NoDoc, NotPolling, Url, Page, State, Polling, ItemChange

\* Messages are of their kind, and say what their page holds.
LEMMA MessagesType ==
  ASSUME NEW page \in Page, NEW rev \in Nat
  PROVE  /\ BuildMessages(page, rev) \in SUBSET Message
         /\ \A m \in BuildMessages(page, rev) : \A r \in Nat, c \in ItemChange :
                Says(m, r, c) => r = rev /\ c \in page.changes
BY DEF BuildMessages, Message, Page, ItemChange, Says

-----------------------------------------------------------------------------
(* The first state.                                                         *)

LEMMA InitEstablishes == Init => IInv
<1> SUFFICES ASSUME Init PROVE IInv
  OBVIOUS
<1> USE ConstantTypes
<1>1. Typed
  <2>1. /\ drive \in [Item -> [at : 0 .. MaxChanges, is : {"absent", "file", "unfit", "gone"}]]
        /\ \A i \in Item : drive[i].is = "absent" => drive[i].at = 0
    BY WatcherAssumption DEF Init
  <2>2. resetAt \in [Pipe -> Nat] /\ \E n \in Nat : \A p \in Pipe : resetAt[p] <= n
    <3>1. 0 \in Nat /\ \A p \in Pipe : resetAt[p] <= 0
      BY DEF Init
    <3> QED BY <3>1 DEF Init
  <2>3. scope \in [pods : Nat, items : Nat, revs : Nat, active : Nat, attach : Nat, detach : Nat, reset : Nat]
    BY WatcherAssumption DEF Init
  <2>4. refs \in [Item -> Reference]
    BY DEF Init, NoRef, Reference
  <2>5. watcher \in [Pod -> Watcher]
    BY DEF Init, NoWatcher, Watcher
  <2>6. poll \in [Pod -> Polling]
    BY DEF Init, PC
  <2>7. active \in SUBSET Pipe /\ doc \in State /\ sent \in SUBSET Message
    BY DEF Init
  <2> QED BY <2>1, <2>2, <2>3, <2>4, <2>5, <2>6, <2>7 DEF Typed
<1>2. \A w \in Pod : poll[w].mem = NoDoc /\ poll[w].pc = "off" /\ ~poll[w].fetching
  BY DEF Init, NotPolling
<1>3. Sane(NoDoc)
  BY <1>1 DEF Sane, Typed, OneChangeEach, NoDoc, NoPage, NoUrl
<1>4. AllSane /\ Memory
  BY <1>1, <1>2, <1>3 DEF AllSane, Memory, Init, NoRef
<1>5. Phases /\ Generations /\ DraftsNewest /\ DraftsReal
  BY <1>2 DEF Phases, Phase, Generations, Fetches, DraftsNewest, DraftsReal
<1>6. \A r \in Nat, c \in ItemChange : ~Known(r, c)
  BY <1>2 DEF Known, Holds, Init
<1>7. KnownReached /\ KnownOrdered
  BY <1>6 DEF KnownReached, KnownOrdered
<1> QED BY <1>1, <1>4, <1>5, <1>7 DEF IInv

-----------------------------------------------------------------------------
(* Steps of three kinds.                                                    *)

\* Steps that take nothing back and teach nobody a change that was not known.
LEMMA NothingNew ==
  ASSUME IInv, Typed', UNCHANGED drive, doc'.rev >= doc.rev,
         \A r \in Nat, c \in ItemChange : Known(r, c)' => Known(r, c)
  PROVE  KnownReached' /\ KnownOrdered'
<1>1. doc.rev \in Nat /\ doc'.rev \in Nat
  BY DEF IInv, Typed, State
<1>2. ASSUME NEW r \in Nat, NEW c \in ItemChange, Known(r, c)'
      PROVE  r <= doc'.rev /\ c.ver <= drive'[c.item].at
  <2>1. r <= doc.rev /\ c.ver <= drive[c.item].at
    BY <1>2 DEF IInv, KnownReached
  <2> QED BY <1>1, <2>1
<1>3. KnownReached'
  BY <1>2 DEF KnownReached
<1>4. KnownOrdered'
  BY DEF IInv, KnownOrdered
<1> QED BY <1>3, <1>4

\* A step of pod w that writes no state document: the pod keeps what it
\* remembers, or takes the current document or nothing, and may send messages of
\* the outbox it remembers.
LEMMA QuietStep ==
  ASSUME IInv, Typed', NEW w \in Pod, UNCHANGED <<drive, scope, doc>>,
         \A v \in Pod \ {w} : poll'[v] = poll[v] /\ watcher'[v] = watcher[v],
         poll'[w].mem \in {poll[w].mem, doc, NoDoc},
         Phase(w)', Fetches(w)',
         \/ poll'[w] = poll[w]
         \/ poll'[w].pc = "stage" => \A e \in poll'[w].draft.changes : e.ver = drive[e.item].at,
         sent \subseteq sent',
         \/ sent' = sent
         \/ /\ poll[w].mem.page.pending
            /\ sent' \subseteq sent \union BuildMessages(poll[w].mem.page, poll[w].mem.rev),
         \A i \in Item : refs'[i].rev \in {refs[i].rev, poll[w].mem.rev}
  PROVE  IInv'
<1>1. Typed /\ Memory
  BY DEF IInv
<1>2. /\ doc \in State /\ doc.etag \in Nat /\ doc.rev \in Nat
      /\ \A v \in Pod : poll[v].mem \in State /\ poll[v].mem.page \in Page /\ poll[v].mem.rev \in Nat
  BY <1>1 DEF Typed, Polling, State
<1>3. \A v \in Pod : poll'[v].mem \in {poll[v].mem, doc, NoDoc}
  OBVIOUS
<1>4. AllSane'
  <2>1. Sane(NoDoc)
    BY <1>1 DEF Typed, Sane, OneChangeEach, NoDoc, NoPage, NoUrl
  <2>2. Sane(doc) /\ \A v \in Pod : Sane(poll[v].mem)
    BY DEF IInv, AllSane
  <2>3. \A v \in Pod : Sane(poll'[v].mem)
    BY <1>3, <2>1, <2>2
  <2> QED BY <2>2, <2>3 DEF AllSane, Sane, Existing
<1>5. Memory'
  <2>1. \A i \in Item : refs'[i].rev <= doc.rev
    BY <1>1 DEF Memory
  <2>2. NoDoc.etag = 0 /\ NoDoc.rev = 0
    BY ConstantTypes
  <2> QED BY <1>1, <1>2, <1>3, <2>1, <2>2 DEF Memory
<1>6. ASSUME NEW r \in Nat, NEW c \in ItemChange, Known(r, c)'
      PROVE  Known(r, c)
  <2>1. CASE Holds(doc, r, c)
    BY <2>1 DEF Known
  <2>2. CASE \E v \in Pod : Holds(poll'[v].mem, r, c)
    <3>1. PICK v \in Pod : Holds(poll'[v].mem, r, c)
      BY <2>2
    <3>2. ~Holds(NoDoc, r, c)
      BY ConstantTypes DEF Holds
    <3>3. Holds(poll[v].mem, r, c) \/ Holds(doc, r, c)
      BY <1>3, <3>1, <3>2
    <3> QED BY <3>3 DEF Known
  <2>3. CASE \E m \in sent' : Says(m, r, c)
    <3>1. PICK m \in sent' : Says(m, r, c)
      BY <2>3
    <3>2. CASE m \in sent
      BY <3>1, <3>2 DEF Known
    <3>3. CASE m \notin sent
      <4>1. poll[w].mem.page.pending /\ m \in BuildMessages(poll[w].mem.page, poll[w].mem.rev)
        BY <3>3
      <4>2. r = poll[w].mem.rev /\ c \in poll[w].mem.page.changes
        BY <1>2, <3>1, <4>1, MessagesType
      <4> QED BY <4>1, <4>2 DEF Known, Holds
    <3> QED BY <3>2, <3>3
  <2> QED BY <1>6, <2>1, <2>2, <2>3 DEF Known, Holds
<1>7. KnownReached' /\ KnownOrdered'
  BY <1>2, <1>6, NothingNew
<1>8. Phases' /\ Generations'
  <2>1. ASSUME NEW v \in Pod, v # w PROVE Phase(v)' /\ Fetches(v)'
    <3>1. Phase(v) /\ Fetches(v)
      BY DEF IInv, Phases, Generations
    <3> QED BY <2>1, <3>1 DEF Phase, Fetches, Existing
  <2> QED BY <2>1 DEF Phases, Generations
<1>9. DraftsReal'
  <2>1. ASSUME NEW v \in Pod, poll'[v].pc = "stage", NEW e \in poll'[v].draft.changes
        PROVE  e.ver <= drive[e.item].at
    <3>1. CASE poll'[v] = poll[v]
      BY <2>1, <3>1 DEF IInv, DraftsReal
    <3>2. CASE v = w /\ e.ver = drive[e.item].at
      <4>1. e \in ItemChange
        BY <2>1 DEF Typed, Polling, Page
      <4> QED BY <1>1, <3>2, <4>1 DEF Typed, ItemChange
    <3> QED BY <2>1, <3>1, <3>2
  <2> QED BY <2>1 DEF DraftsReal
<1>10. DraftsNewest'
  <2>1. ASSUME NEW v \in Pod, poll'[v].pc = "stage", poll'[v].mem.etag = doc.etag,
               NEW r \in Nat, NEW c \in ItemChange, NEW e \in poll'[v].draft.changes,
               Known(r, c)', c.item = e.item
        PROVE  c.ver <= e.ver
    <3>1. Known(r, c)
      BY <1>6, <2>1
    <3>2. CASE poll'[v] = poll[v]
      BY <2>1, <3>1, <3>2 DEF IInv, DraftsNewest, IfMatch
    <3>3. CASE e.ver = drive[e.item].at
      BY <2>1, <3>1, <3>3 DEF IInv, KnownReached
    <3> QED BY <2>1, <3>2, <3>3
  <2> QED BY <2>1 DEF DraftsNewest, IfMatch
<1> QED BY <1>4, <1>5, <1>7, <1>8, <1>9, <1>10 DEF IInv

\* A step of pod w that replaces the state document under the ETag it holds.  What
\* the new outbox holds is new, and as new as all that was known.
LEMMA WriteStep ==
  ASSUME IInv, Typed', NEW w \in Pod, IfMatch(w), UNCHANGED <<drive, scope, refs, sent, watcher>>,
         \A v \in Pod \ {w} : poll'[v] = poll[v],
         poll'[w].mem = doc', poll'[w].pc # "stage",
         doc'.etag = doc.etag + 1, doc'.rev >= doc.rev, Sane(doc)',
         Phase(w)', Fetches(w)',
         doc'.page.pending =>
            /\ doc'.rev = doc.rev + 1
            /\ \A e \in doc'.page.changes :
                /\ e.ver <= drive[e.item].at
                /\ e.deleted \/ \A r \in Nat, c \in ItemChange : Known(r, c) /\ c.item = e.item => c.ver <= e.ver
  PROVE  IInv'
<1>1. Typed /\ Memory
  BY DEF IInv
<1>2. doc \in State /\ doc' \in State /\ doc.etag \in Nat /\ doc.rev \in Nat /\ doc'.rev \in Nat
  BY <1>1 DEF Typed, State
<1>3. \A v \in Pod : poll[v].mem.rev \in Nat /\ poll[v].mem.etag \in Nat
  BY <1>1 DEF Typed, Polling, State
<1>4. \A v \in Pod : poll'[v].mem \in {poll[v].mem, doc'}
  OBVIOUS
<1>5. AllSane'
  <2>1. \A v \in Pod : Sane(poll[v].mem)
    BY DEF IInv, AllSane
  <2>2. \A v \in Pod : Sane(poll[v].mem)'
    BY <2>1, <1>4 DEF Sane, Existing
  <2> QED BY <2>2 DEF AllSane
<1>6. Memory'
  <2>1. \A i \in Item : refs[i].rev \in Nat /\ refs[i].rev <= doc.rev
    BY <1>1 DEF Memory, Typed, Reference
  <2> QED BY <1>1, <1>2, <1>3, <1>4, <2>1 DEF Memory
<1>7. ASSUME NEW r \in Nat, NEW c \in ItemChange, Known(r, c)'
      PROVE  Known(r, c) \/ Holds(doc', r, c)
  BY <1>4, <1>7 DEF Known, Holds
<1>8. ASSUME NEW r \in Nat, NEW c \in ItemChange, Known(r, c)
      PROVE  r <= doc.rev /\ c.ver <= drive[c.item].at
  BY <1>8 DEF IInv, KnownReached
<1>9. ASSUME NEW r \in Nat, NEW c \in ItemChange, Holds(doc', r, c)
      PROVE  r = doc.rev + 1 /\ r = doc'.rev /\ c \in doc'.page.changes /\ doc'.page.pending
  BY <1>9 DEF Holds
<1>10. KnownReached'
  <2>1. ASSUME NEW r \in Nat, NEW c \in ItemChange, Known(r, c)'
        PROVE  r <= doc'.rev /\ c.ver <= drive[c.item].at
    <3>1. CASE Known(r, c)
      BY <1>2, <1>8, <3>1
    <3>2. CASE Holds(doc', r, c)
      BY <1>2, <1>9, <3>2
    <3> QED BY <1>7, <2>1, <3>1, <3>2
  <2> QED BY <2>1 DEF KnownReached
<1>11. KnownOrdered'
  <2>1. ASSUME NEW r \in Nat, NEW s \in Nat, NEW c \in ItemChange, NEW e \in ItemChange,
               Known(r, c)', Known(s, e)', c.item = e.item
        PROVE  (r = s => c = e) /\ (r < s /\ ~e.deleted => c.ver <= e.ver)
    <3>1. CASE Known(r, c) /\ Known(s, e)
      BY <2>1, <3>1 DEF IInv, KnownOrdered
    <3>2. CASE Known(r, c) /\ Holds(doc', s, e)
      BY <1>2, <1>8, <1>9, <2>1, <3>2
    <3>3. CASE Holds(doc', r, c) /\ Known(s, e)
      BY <1>2, <1>8, <1>9, <2>1, <3>3
    <3>4. CASE Holds(doc', r, c) /\ Holds(doc', s, e)
      <4>1. OneChangeEach(doc'.page.changes)
        BY DEF Sane
      <4> QED BY <1>9, <2>1, <3>4, <4>1 DEF OneChangeEach
    <3> QED BY <1>7, <2>1, <3>1, <3>2, <3>3, <3>4
  <2> QED BY <2>1 DEF KnownOrdered
<1>12. Phases' /\ Generations'
  <2>1. ASSUME NEW v \in Pod, v # w PROVE Phase(v)' /\ Fetches(v)'
    <3>1. Phase(v) /\ Fetches(v)
      BY DEF IInv, Phases, Generations
    <3> QED BY <2>1, <3>1 DEF Phase, Fetches, Existing
  <2> QED BY <2>1 DEF Phases, Generations
<1>13. DraftsReal'
  BY DEF IInv, DraftsReal
<1>14. DraftsNewest'
  <2>1. ASSUME NEW v \in Pod, poll'[v].pc = "stage", poll'[v].mem.etag = doc'.etag PROVE FALSE
    <3>1. poll[v].mem.etag = doc.etag + 1
      BY <2>1
    <3> QED BY <1>1, <1>2, <1>3, <3>1 DEF Memory
  <2> QED BY <2>1 DEF DraftsNewest, IfMatch
<1> QED BY <1>5, <1>6, <1>10, <1>11, <1>12, <1>13, <1>14 DEF IInv

\* A step outside the pods, of the API or of nobody.
LEMMA OutsideStep ==
  ASSUME IInv, Typed', UNCHANGED <<drive, doc, refs, sent, watcher, poll>>, scope'.revs = scope.revs
  PROVE  IInv'
<1>1. AllSane' /\ Memory'
  BY DEF IInv, AllSane, Sane, OneChangeEach, Memory, Existing
<1>2. Phases' /\ Generations'
  BY DEF IInv, Phases, Phase, Generations, Fetches, Existing
<1>3. \A r \in Nat, c \in ItemChange : Known(r, c)' <=> Known(r, c)
  BY DEF Known, Holds
<1>4. KnownReached' /\ KnownOrdered'
  BY <1>3 DEF IInv, KnownReached, KnownOrdered
<1>5. DraftsNewest' /\ DraftsReal'
  BY <1>3 DEF IInv, DraftsNewest, DraftsReal, IfMatch
<1> QED BY <1>1, <1>2, <1>4, <1>5 DEF IInv

-----------------------------------------------------------------------------
(* The drive and the API.                                                   *)

\* Change: what is known of the item, and every draft, is of an earlier version.
LEMMA ChangeKeeps ==
  ASSUME IInv, NEW i \in Item, Change(i)
  PROVE  IInv'
<1>1. Typed /\ Clock \in 0 .. MaxChanges /\ \A j \in Item : drive[j].at <= Clock
  BY ClockProperties DEF IInv
<1>2. PICK is \in {"file", "unfit", "gone"} : drive' = [drive EXCEPT ![i] = [at |-> Clock + 1, is |-> is]]
  BY DEF Change
<1>3. Clock + 1 \in 0 .. MaxChanges
  BY <1>1, WatcherAssumption DEF Change
<1>4. Typed'
  BY <1>1, <1>2, <1>3 DEF Typed, Change, api
<1>5. \A j \in Item : drive[j].at \in Nat /\ drive'[j].at \in Nat /\ drive[j].at <= drive'[j].at
  BY <1>1, <1>2, <1>3 DEF Typed
<1>6. AllSane' /\ Memory' /\ Phases' /\ Generations'
  <2>1. Existing \subseteq Existing'
    BY <1>1, <1>2 DEF Typed, Existing
  <2>2. UNCHANGED <<scope, doc, refs, sent, watcher, poll>>
    BY DEF Change, api
  <2>3. AllSane'
    BY <2>1, <2>2 DEF IInv, AllSane, Sane, OneChangeEach
  <2>4. Memory' /\ Generations'
    BY <2>2 DEF IInv, Memory, Generations, Fetches
  <2>5. Phases'
    BY <2>1, <2>2 DEF IInv, Phases, Phase
  <2> QED BY <2>3, <2>4, <2>5
<1>7. \A r \in Nat, c \in ItemChange : Known(r, c)' <=> Known(r, c)
  BY DEF Known, Holds, Change
<1>8. KnownReached'
  <2>1. ASSUME NEW r \in Nat, NEW c \in ItemChange, Known(r, c)
        PROVE  r <= doc.rev /\ c.ver <= drive'[c.item].at
    <3>1. r <= doc.rev /\ c.ver <= drive[c.item].at
      BY <2>1 DEF IInv, KnownReached
    <3> QED BY <1>5, <3>1 DEF ItemChange
  <2> QED BY <1>7, <2>1 DEF KnownReached, Change
<1>9. KnownOrdered'
  BY <1>7 DEF IInv, KnownOrdered
<1>10. DraftsNewest'
  BY <1>7 DEF IInv, DraftsNewest, IfMatch, Change
<1>11. DraftsReal'
  <2>1. ASSUME NEW w \in Pod, poll[w].pc = "stage", NEW e \in poll[w].draft.changes
        PROVE  e.ver <= drive'[e.item].at
    <3>1. e \in ItemChange
      BY <1>1 DEF Typed, Polling, Page
    <3>2. e.ver <= drive[e.item].at
      BY <2>1 DEF IInv, DraftsReal
    <3> QED BY <1>5, <3>1, <3>2 DEF ItemChange
  <2> QED BY <2>1 DEF DraftsReal, Change
<1> QED BY <1>4, <1>6, <1>8, <1>9, <1>10, <1>11 DEF IInv

\* Attach, Detach and Reset: the pods learn of them later.
LEMMA ApiKeeps ==
  ASSUME IInv, NEW p \in Pipe, Attach(p) \/ Detach(p) \/ Reset(p)
  PROVE  IInv'
<1>1. Typed
  BY DEF IInv
<1>2. UNCHANGED <<drive, doc, refs, sent, watcher, poll>>
  BY DEF Attach, Detach, Reset
<1>3. CASE Attach(p)
  <2>1. Typed' /\ scope'.revs = scope.revs
    BY <1>1, <1>3 DEF Attach, Typed
  <2> QED BY <1>2, <2>1, OutsideStep
<1>4. CASE Detach(p)
  <2>1. Typed' /\ scope'.revs = scope.revs
    BY <1>1, <1>4 DEF Detach, Typed
  <2> QED BY <1>2, <2>1, OutsideStep
<1>5. CASE Reset(p)
  <2>1. Generation(Pipe) \in Nat /\ \A q \in Pipe : resetAt[q] <= Generation(Pipe)
    BY <1>1, GenerationType
  <2>2. resetAt' \in [Pipe -> Nat]
    BY <1>1, <1>5, <2>1 DEF Reset, Typed
  <2>3. \A q \in Pipe : resetAt'[q] <= Generation(Pipe) + 1
    BY <1>1, <1>5, <2>1 DEF Reset, Typed
  <2>4. \E n \in Nat : \A q \in Pipe : resetAt'[q] <= n
    BY <2>1, <2>3
  <2>5. Typed' /\ scope'.revs = scope.revs
    BY <1>1, <1>5, <2>2, <2>4 DEF Reset, Typed
  <2> QED BY <1>2, <2>5, OutsideStep
<1> QED BY <1>3, <1>4, <1>5

-----------------------------------------------------------------------------
(* The steps of a pod that write no state document.                         *)

\* StartPod, StopPod, PollFails and Polled: the pod's memory is new or gone.
LEMMA ForgetKeeps ==
  ASSUME IInv, NEW w \in Pod, StartPod(w) \/ StopPod(w) \/ PollFails(w) \/ Polled(w)
  PROVE  IInv'
<1>1. Typed
  BY DEF IInv
<1>2. PICK at \in {"off", "idle"} : poll' = [poll EXCEPT ![w] = NotPolling(at)]
  BY DEF StartPod, StopPod, PollFails, Polled
<1>3. UNCHANGED <<drive, api, doc, refs, sent>>
  BY DEF StartPod, StopPod, PollFails, Polled
<1>4. watcher' \in [Pod -> Watcher] /\ \A v \in Pod \ {w} : watcher'[v] = watcher[v]
  <2>1. CASE StartPod(w)
    BY <1>1, <2>1, GenerationType DEF StartPod, Typed, Watcher, Unscanned
  <2>2. CASE StopPod(w)
    BY <1>1, <2>2 DEF StopPod, Typed, Watcher, NoWatcher
  <2>3. CASE PollFails(w) \/ Polled(w)
    BY <1>1, <2>3 DEF PollFails, Polled, Typed
  <2> QED BY <2>1, <2>2, <2>3
<1>5. NotPolling(at) \in Polling
  BY ConstantTypes DEF PC
<1>6. Typed'
  BY <1>1, <1>2, <1>3, <1>4, <1>5 DEF Typed, api
<1>7. poll'[w] = NotPolling(at) /\ \A v \in Pod \ {w} : poll'[v] = poll[v]
  BY <1>1, <1>2 DEF Typed
<1>8. Phase(w)' /\ Fetches(w)' /\ poll'[w].mem = NoDoc /\ poll'[w].pc # "stage"
  BY <1>7, ConstantTypes DEF Phase, Fetches, NotPolling
<1> QED BY <1>3, <1>4, <1>6, <1>7, <1>8, QuietStep DEF api

\* UpdatePipelines: the generation stays.
LEMMA UpdateKeeps ==
  ASSUME IInv, NEW w \in Pod, UpdatePipelines(w)
  PROVE  IInv'
<1>1. Typed
  BY DEF IInv
<1>2. watcher' \in [Pod -> Watcher] /\ watcher'[w].gen = watcher[w].gen /\ \A v \in Pod \ {w} : watcher'[v] = watcher[v]
  <2>1. watcher \in [Pod -> Watcher] /\ active \in SUBSET Pipe
    BY <1>1 DEF Typed
  <2> QED BY <2>1 DEF UpdatePipelines, Watcher
<1>6. watcher'[w].rescan \/ (~watcher[w].rescan /\ watcher'[w].pipes \subseteq watcher[w].pipes)
  BY <1>1 DEF UpdatePipelines, Typed, Watcher
<1>3. UNCHANGED <<drive, api, doc, refs, sent, poll>>
  BY DEF UpdatePipelines
<1>4. Typed'
  BY <1>1, <1>2, <1>3 DEF Typed, api
<1>5. Phase(w)' /\ Fetches(w)'
  <2>1. Phase(w) /\ Fetches(w)
    BY DEF IInv, Phases, Generations
  <2> QED BY <1>2, <1>3, <1>6, <2>1 DEF Phase, Fetches, Existing, api
<1> QED BY <1>2, <1>3, <1>4, <1>5, QuietStep DEF api

\* Load: the pod remembers the document as it is; an outbox is replayed.
LEMMA LoadKeeps ==
  ASSUME IInv, NEW w \in Pod, Load(w)
  PROVE  IInv'
<1>1. Typed
  BY DEF IInv
<1>2. UNCHANGED <<drive, api, doc, refs, sent>>
  BY DEF Load
<1>3. watcher' \in [Pod -> Watcher] /\ \A v \in Pod \ {w} : watcher'[v] = watcher[v]
  BY <1>1, ZenonT(60) DEF Load, Typed, Watcher, Unscanned
<1>4. /\ poll' \in [Pod -> Polling]
      /\ \A v \in Pod \ {w} : poll'[v] = poll[v]
      /\ poll'[w].mem = doc
      /\ poll'[w].pc = IF doc.page.pending THEN "publish" ELSE IF doc.reconcile THEN "reconcile" ELSE "reset"
      /\ poll'[w].fetching = poll[w].fetching
  BY <1>1 DEF Load, Typed, Polling, PC
<1>5. Typed'
  BY <1>1, <1>2, <1>3, <1>4 DEF Typed, api
<1>6. Phase(w)' /\ Fetches(w)'
  <2>1. ~poll[w].fetching
    BY DEF IInv, Generations, Fetches, Load
  <2>2. \/ watcher'[w].rescan \/ watcher'[w].pipes \subseteq doc.pipes
        \/ doc = NoDoc
    <3>1. watcher'[w].pipes = watcher[w].pipes /\ (watcher'[w].rescan <=> watcher[w].rescan \/ Unscanned(watcher[w].pipes))
      BY <1>1 DEF Load, Typed, Watcher
    <3>2. doc.etag > 0 \/ doc = NoDoc
      BY <1>1 DEF IInv, Memory, Typed, State
    <3> QED BY <3>1, <3>2 DEF Unscanned
  <2>3. ~NoDoc.page.pending /\ ~NoDoc.reconcile /\ NoDoc.url.kind = "none"
    BY DEF NoDoc, NoPage, NoUrl
  <2> QED BY <1>4, <2>1, <2>2, <2>3 DEF Phase, Fetches
<1> QED BY <1>2, <1>3, <1>4, <1>5, <1>6, QuietStep DEF api

\* CheckReset: the poll goes on to fetch under its watcher's generation, or to scan.
LEMMA CheckResetKeeps ==
  ASSUME IInv, NEW w \in Pod, CheckReset(w)
  PROVE  IInv'
<1>1. Typed
  BY DEF IInv
<1>2. UNCHANGED <<drive, api, doc, refs, sent>>
  BY DEF CheckReset
<1>3. /\ watcher' \in [Pod -> Watcher] /\ \A v \in Pod \ {w} : watcher'[v] = watcher[v]
      /\ watcher'[w].gen = watcher[w].gen /\ watcher'[w].pipes = watcher[w].pipes
  <2>1. watcher \in [Pod -> Watcher]
    BY <1>1 DEF Typed
  <2> QED BY <2>1 DEF CheckReset, Watcher
<1>4. PICK at \in {"scan", "get"} :
        /\ at = "get" => ~ScanDue(w)
        /\ poll' = [poll EXCEPT ![w].pc = at, ![w].fetching = TRUE]
  <2>1. CASE ScanDue(w)
    BY <2>1 DEF CheckReset
  <2>2. CASE ~ScanDue(w)
    BY <2>2 DEF CheckReset
  <2> QED BY <2>1, <2>2
<1>5. /\ poll' \in [Pod -> Polling]
      /\ \A v \in Pod \ {w} : poll'[v] = poll[v]
      /\ poll'[w].mem = poll[w].mem /\ poll'[w].pc = at /\ poll'[w].fetching
  <2> DEFINE next == [poll[w] EXCEPT !.pc = at, !.fetching = TRUE]
  <2>1. poll' = [poll EXCEPT ![w] = next]
    BY <1>4
  <2>2. next \in Polling /\ next.mem = poll[w].mem /\ next.pc = at /\ next.fetching
    BY <1>1, ZenonT(60) DEF Typed, Polling, PC
  <2> HIDE DEF next
  <2> QED BY <1>1, <2>1, <2>2 DEF Typed
<1>6. Typed'
  BY <1>1, <1>2, <1>3, <1>5 DEF Typed, api
<1>7. Phase(w)' /\ Fetches(w)'
  <2>1. ~poll[w].mem.page.pending
    BY DEF IInv, Phases, Phase, CheckReset
  <2>2. ~ScanDue(w) => watcher[w].pipes \subseteq poll[w].mem.pipes
    BY DEF IInv, Generations, Fetches, CheckReset, ScanDue
  <2> QED BY <1>3, <1>4, <1>5, <2>1, <2>2 DEF Phase, Fetches, ScanDue
<1> QED BY <1>2, <1>3, <1>5, <1>6, <1>7, QuietStep DEF api

\* ParseChangesAsync of items that are there: at most one change each, of the
\* version there is.
LEMMA ParseProperties ==
  ASSUME Typed, NEW items \in SUBSET Existing
  PROVE  LET changes == UNION {ParseChanges(i) : i \in items}
         IN  /\ changes \in SUBSET ItemChange
             /\ OneChangeEach(changes)
             /\ \A c \in changes : c.ver = drive[c.item].at
<1> DEFINE change(i, gone) == [item |-> i, ver |-> drive[i].at, deleted |-> gone]
<1>1. ASSUME NEW i \in items
      PROVE  \A c \in ParseChanges(i) : \E gone \in BOOLEAN : c = change(i, gone) /\ ParseChanges(i) = {c}
  <2>1. drive[i].is \in {"file", "gone", "unfit"}
    BY DEF Typed, Existing
  <2>2. CASE drive[i].is = "file"
    BY <2>2 DEF ParseChanges
  <2>3. CASE drive[i].is = "gone"
    BY <2>3 DEF ParseChanges
  <2>4. CASE drive[i].is = "unfit"
    BY <2>4 DEF ParseChanges
  <2> QED BY <2>1, <2>2, <2>3, <2>4
<1>2. \A i \in items : \A c \in ParseChanges(i) :
          c \in ItemChange /\ c.item = i /\ c.ver = drive[i].at /\ ParseChanges(i) = {c}
  <2>1. \A i \in items : i \in Item /\ drive[i].at \in Nat
    BY WatcherAssumption DEF Typed, Existing
  <2> QED BY <1>1, <2>1 DEF ItemChange
<1> HIDE DEF change
<1> QED BY <1>2 DEF OneChangeEach

\* GetPage: the draft reports the items as they are now.
LEMMA GetPageKeeps ==
  ASSUME IInv, NEW w \in Pod, GetPage(w)
  PROVE  IInv'
<1>1. Typed
  BY DEF IInv
<1>2. UNCHANGED <<drive, api, doc, refs, sent, watcher>>
  BY DEF GetPage
<1> DEFINE url == poll[w].mem.url
<1>3. PICK items \in SUBSET Remaining(url) :
        LET rest == Remaining(url) \ items IN
        poll' = [poll EXCEPT
                    ![w].pc = "stage",
                    ![w].draft =
                        [NoPage EXCEPT
                            !.changes = UNION {ParseChanges(i) : i \in items},
                            !.next = [kind |-> IF rest = {} THEN "delta" ELSE "more",
                                      at |-> Since(url), left |-> rest],
                            !.isDelta = (rest = {})]]
  BY DEF GetPage
<1> DEFINE rest == Remaining(url) \ items
           changes == UNION {ParseChanges(i) : i \in items}
           link == [kind |-> IF rest = {} THEN "delta" ELSE "more", at |-> Since(url), left |-> rest]
           page == [NoPage EXCEPT !.changes = changes, !.next = link, !.isDelta = (rest = {})]
           next == [poll[w] EXCEPT !.pc = "stage", !.draft = page]
<1>4. url \in Url /\ url.kind \in {"start", "more", "delta"} /\ url.left \subseteq Existing
  BY <1>1 DEF IInv, AllSane, Sane, Phases, Phase, GetPage, Typed, Polling, State, Url
<1>5. Remaining(url) \subseteq Existing
  <2>1. \A i \in Item : drive[i].at > url.at => drive[i].is # "absent"
    BY <1>1, <1>4, WatcherAssumption DEF Typed, Url
  <2>2. CASE url.kind = "start"
    BY <2>2 DEF Remaining, Existing
  <2>3. CASE url.kind = "delta"
    BY <2>1, <2>3 DEF Remaining, Existing
  <2>4. CASE url.kind = "more"
    BY <1>4, <2>4 DEF Remaining
  <2> QED BY <1>4, <2>2, <2>3, <2>4
<1>6. Since(url) \in Nat
  BY <1>1, <1>4, ClockProperties, WatcherAssumption DEF Since, Url
<1>7. changes \in SUBSET ItemChange /\ OneChangeEach(changes) /\ \A c \in changes : c.ver = drive[c.item].at
  BY <1>1, <1>5, ParseProperties
<1>8. link \in Url /\ link.kind \in {"more", "delta"} /\ link.left \subseteq Existing
  BY <1>5, <1>6 DEF Url, Existing
<1> HIDE DEF link, changes
<1>9. page \in Page /\ page.changes = changes /\ page.next = link
  BY <1>7, <1>8, ConstantTypes DEF Page
<1> HIDE DEF page
<1>10. next \in Polling /\ next.mem = poll[w].mem /\ next.pc = "stage" /\ next.draft = page /\ next.fetching = poll[w].fetching
  BY <1>1, <1>9, ZenonT(60) DEF Typed, Polling, PC
<1>11. poll' = [poll EXCEPT ![w] = next]
  BY <1>3 DEF page, link, changes
<1> HIDE DEF next
<1>12. poll' \in [Pod -> Polling] /\ poll'[w] = next /\ \A v \in Pod \ {w} : poll'[v] = poll[v]
  BY <1>1, <1>10, <1>11 DEF Typed
<1>13. Typed'
  BY <1>1, <1>2, <1>12 DEF Typed, api
<1>14. Phase(w)' /\ Fetches(w)'
  <2>1. /\ ~poll[w].mem.page.pending /\ poll[w].fetching /\ poll[w].mem.gen = watcher[w].gen
        /\ watcher[w].rescan \/ watcher[w].pipes \subseteq poll[w].mem.pipes
    BY DEF IInv, Phases, Phase, Generations, Fetches, GetPage
  <2> QED BY <1>2, <1>7, <1>8, <1>9, <1>10, <1>12, <2>1 DEF Phase, Fetches, Existing
<1>15. \A e \in poll'[w].draft.changes : e.ver = drive[e.item].at
  BY <1>7, <1>9, <1>10, <1>12
<1> QED BY <1>2, <1>10, <1>12, <1>13, <1>14, <1>15, QuietStep DEF api

\* TokenExpired: the poll goes on to scan.
LEMMA TokenExpiredKeeps ==
  ASSUME IInv, NEW w \in Pod, TokenExpired(w)
  PROVE  IInv'
<1>1. Typed
  BY DEF IInv
<1>2. UNCHANGED <<drive, api, doc, refs, sent, watcher>>
  BY DEF TokenExpired
<1>3. /\ poll' \in [Pod -> Polling]
      /\ \A v \in Pod \ {w} : poll'[v] = poll[v]
      /\ poll'[w].mem = poll[w].mem /\ poll'[w].pc = "scan" /\ poll'[w].fetching = poll[w].fetching
  BY <1>1 DEF TokenExpired, Typed, Polling, PC
<1>4. Typed'
  BY <1>1, <1>2, <1>3 DEF Typed, api
<1>5. Phase(w)' /\ Fetches(w)'
  <2>1. ~poll[w].mem.page.pending /\ poll[w].fetching
    BY DEF IInv, Phases, Phase, Generations, Fetches, TokenExpired
  <2> QED BY <1>3, <2>1 DEF Phase, Fetches
<1> QED BY <1>2, <1>3, <1>4, <1>5, QuietStep DEF api

\* Publish and PublishPart: what is sent is in the outbox the pod remembers.
LEMMA PublishKeeps ==
  ASSUME IInv, NEW w \in Pod, Publish(w) \/ PublishPart(w)
  PROVE  IInv'
<1>1. Typed
  BY DEF IInv
<1>2. UNCHANGED <<drive, api, doc, refs, watcher>>
  BY DEF Publish, PublishPart
<1> DEFINE messages == BuildMessages(poll[w].mem.page, poll[w].mem.rev)
<1>3. poll[w].mem \in State /\ poll[w].mem.page \in Page /\ poll[w].mem.rev \in Nat /\ poll[w].mem.page.pending
  BY <1>1 DEF Typed, Polling, State, IInv, Phases, Phase, Publish, PublishPart
<1>4. messages \in SUBSET Message
  BY <1>3, MessagesType
<1>5. sent \subseteq sent' /\ sent' \subseteq sent \union messages
  BY DEF Publish, PublishPart
<1> HIDE DEF messages
<1>6. CASE Publish(w)
  <2>1. /\ poll' \in [Pod -> Polling]
        /\ \A v \in Pod \ {w} : poll'[v] = poll[v]
        /\ poll'[w].mem = poll[w].mem /\ poll'[w].pc = "refs"
        /\ poll'[w].fetching = poll[w].fetching /\ poll'[w].todo = poll[w].mem.page.changes
    <3> DEFINE next == [poll[w] EXCEPT !.pc = "refs", !.todo = poll[w].mem.page.changes]
    <3>1. poll' = [poll EXCEPT ![w] = next]
      BY <1>6 DEF Publish
    <3>2. poll[w] \in Polling /\ poll[w].mem.page.changes \in SUBSET ItemChange
      BY <1>1, <1>3 DEF Typed, Page
    <3>3. /\ next \in Polling
          /\ next.mem = poll[w].mem /\ next.pc = "refs"
          /\ next.fetching = poll[w].fetching /\ next.todo = poll[w].mem.page.changes
      BY <3>2 DEF Polling, PC
    <3> HIDE DEF next
    <3> QED BY <1>1, <3>1, <3>3 DEF Typed
  <2>2. Typed'
    BY <1>1, <1>2, <1>4, <1>5, <2>1 DEF Typed, api
  <2>3. Phase(w)'
    BY <1>3, <1>6, <2>1 DEF Phase, Publish, messages
  <2>4. Fetches(w)'
    BY <1>2, <1>6, <2>1 DEF IInv, Generations, Fetches, Publish
  <2> QED BY <1>2, <1>3, <1>5, <2>1, <2>2, <2>3, <2>4, QuietStep DEF api, messages
<1>7. CASE PublishPart(w)
  <2>1. /\ poll' \in [Pod -> Polling]
        /\ \A v \in Pod \ {w} : poll'[v] = poll[v]
        /\ poll'[w] = NotPolling("idle")
    BY <1>1, <1>7, ConstantTypes DEF PublishPart, Typed, PC
  <2>2. Typed'
    BY <1>1, <1>2, <1>4, <1>5, <2>1 DEF Typed, api
  <2>3. Phase(w)' /\ Fetches(w)' /\ poll'[w].mem = NoDoc /\ poll'[w].pc # "stage"
    BY <2>1, ConstantTypes DEF Phase, Fetches, NotPolling
  <2> QED BY <1>2, <1>3, <1>5, <2>1, <2>2, <2>3, QuietStep DEF api, messages
<1> QED BY <1>6, <1>7

\* PersistReference: a reference is of the revision the pod remembers, or as it was.
LEMMA PersistReferenceKeeps ==
  ASSUME IInv, NEW w \in Pod, PersistReference(w)
  PROVE  IInv'
<1>1. Typed
  BY DEF IInv
<1>2. UNCHANGED <<drive, api, doc, sent, watcher>>
  BY DEF PersistReference
<1>3. PICK c \in poll[w].todo :
        /\ refs' = IF NewerRef(w, c.item) THEN refs
                   ELSE [refs EXCEPT ![c.item] =
                            [rev |-> poll[w].mem.rev, scan |-> poll[w].mem.scan, deleted |-> c.deleted]]
        /\ poll' = [poll EXCEPT ![w].todo = @ \ {c}]
  BY DEF PersistReference
<1>4. c \in ItemChange /\ poll[w].mem \in State
  BY <1>1 DEF Typed, Polling
<1>5. refs' \in [Item -> Reference] /\ \A i \in Item : refs'[i].rev \in {refs[i].rev, poll[w].mem.rev}
  <2>1. [rev |-> poll[w].mem.rev, scan |-> poll[w].mem.scan, deleted |-> c.deleted] \in Reference
    BY <1>4 DEF Reference, State, ItemChange
  <2>2. CASE NewerRef(w, c.item)
    BY <1>1, <1>3, <2>2 DEF Typed
  <2>3. CASE ~NewerRef(w, c.item)
    BY <1>1, <1>3, <2>1, <2>3 DEF Typed
  <2> QED BY <2>2, <2>3
<1>6. /\ poll' \in [Pod -> Polling]
      /\ \A v \in Pod \ {w} : poll'[v] = poll[v]
      /\ poll'[w].mem = poll[w].mem /\ poll'[w].pc = poll[w].pc
      /\ poll'[w].fetching = poll[w].fetching /\ poll'[w].todo \subseteq poll[w].todo
  BY <1>1, <1>3, ZenonT(60) DEF Typed, Polling
<1>7. Typed'
  BY <1>1, <1>2, <1>5, <1>6 DEF Typed, api
<1>8. poll[w].pc = "refs"
  BY DEF PersistReference
<1>9. Phase(w)' /\ Fetches(w)'
  BY <1>2, <1>6, <1>8 DEF IInv, Phases, Phase, Generations, Fetches
<1> QED BY <1>2, <1>5, <1>6, <1>7, <1>8, <1>9, QuietStep DEF api

\* FindMissing: nothing but the list of items.
LEMMA FindMissingKeeps ==
  ASSUME IInv, NEW w \in Pod, FindMissing(w)
  PROVE  IInv'
<1>1. Typed
  BY DEF IInv
<1>2. UNCHANGED <<drive, api, doc, refs, sent, watcher>>
  BY DEF FindMissing
<1>3. NotSeen(w) \in SUBSET Item
  BY DEF NotSeen
<1>4. /\ poll' \in [Pod -> Polling]
      /\ \A v \in Pod \ {w} : poll'[v] = poll[v]
      /\ poll'[w].mem = poll[w].mem /\ poll'[w].pc = "batch" /\ poll'[w].fetching = poll[w].fetching
  BY <1>1, <1>3 DEF FindMissing, Typed, Polling, PC
<1>5. Typed'
  BY <1>1, <1>2, <1>4 DEF Typed, api
<1>6. Phase(w)' /\ Fetches(w)'
  BY <1>2, <1>4 DEF IInv, Phases, Phase, Generations, Fetches, FindMissing
<1> QED BY <1>2, <1>4, <1>5, <1>6, QuietStep DEF api

-----------------------------------------------------------------------------
(* The writes of the state document.                                        *)

\* PersistDeltaUrlAsync: what was written is what the pod now remembers.
LEMMA PersistProperties ==
  ASSUME Typed, NEW w \in Pod, NEW state \in State, NEW at \in PC, PersistDeltaUrl(w, state, at)
  PROVE  /\ doc' \in State
         /\ doc' = [state EXCEPT !.etag = doc.etag + 1]
         /\ doc'.etag = doc.etag + 1 /\ doc'.url = state.url /\ doc'.rev = state.rev /\ doc'.scan = state.scan
         /\ doc'.reconcile = state.reconcile /\ doc'.page = state.page /\ doc'.gen = state.gen
         /\ doc'.full = state.full /\ doc'.pipes = state.pipes
         /\ poll' \in [Pod -> Polling]
         /\ \A v \in Pod \ {w} : poll'[v] = poll[v]
         /\ poll'[w].mem = doc' /\ poll'[w].pc = at /\ poll'[w].fetching = poll[w].fetching
         /\ poll'[w].missing = poll[w].missing /\ (poll'[w].reconciling <=> poll[w].reconciling /\ state.reconcile)
<1>1. doc.etag \in Nat
  BY DEF Typed, State
<1>2. doc' = [state EXCEPT !.etag = doc.etag + 1]
  BY DEF PersistDeltaUrl
<1>3. /\ doc' \in State
      /\ doc'.etag = doc.etag + 1 /\ doc'.url = state.url /\ doc'.rev = state.rev /\ doc'.scan = state.scan
      /\ doc'.reconcile = state.reconcile /\ doc'.page = state.page /\ doc'.gen = state.gen
      /\ doc'.full = state.full /\ doc'.pipes = state.pipes
  BY <1>1, <1>2 DEF State
<1> DEFINE next == [poll[w] EXCEPT !.mem = doc', !.pc = at, !.draft = NoPage,
                                   !.reconciling = @ /\ state.reconcile]
<1>4. poll' = [poll EXCEPT ![w] = next]
  BY DEF PersistDeltaUrl
<1>5. /\ next \in Polling /\ next.mem = doc' /\ next.pc = at /\ next.fetching = poll[w].fetching
      /\ next.missing = poll[w].missing /\ (next.reconciling <=> poll[w].reconciling /\ state.reconcile)
  <2>1. poll[w] \in Polling /\ NoPage \in Page
    BY ConstantTypes DEF Typed
  <2>2. (poll[w].reconciling /\ state.reconcile) \in BOOLEAN
    OBVIOUS
  <2> QED BY <1>3, <2>1, <2>2 DEF Polling
<1> HIDE DEF next
<1> QED BY <1>2, <1>3, <1>4, <1>5 DEF Typed

\* What a pod holds when its ETag is the document's.
LEMMA MatchProperties ==
  ASSUME IInv, NEW w \in Pod, IfMatch(w)
  PROVE  /\ Typed /\ poll[w].mem = doc /\ doc \in State /\ Sane(doc) /\ doc.page \in Page /\ doc.url \in Url
         /\ watcher[w] \in Watcher /\ watcher[w].pipes \in SUBSET Pipe /\ watcher[w].gen \in Nat
         /\ doc.rev \in Nat /\ doc.scan \in Nat /\ doc.etag \in Nat /\ scope.revs \in Nat
<1>1. poll[w].mem = doc /\ Typed /\ Sane(doc)
  BY DEF IInv, Memory, IfMatch, AllSane
<1>2. doc \in State /\ watcher[w] \in Watcher /\ scope.revs \in Nat
  BY <1>1 DEF Typed
<1> QED BY <1>1, <1>2 DEF State, Watcher

\* A state under the next revision with another outbox.
LEMMA NextRevision ==
  ASSUME NEW d \in State, NEW page \in Page
  PROVE  LET new == [d EXCEPT !.rev = @ + 1, !.page = page]
         IN  /\ new \in State /\ new.rev = d.rev + 1 /\ new.page = page /\ new.etag = d.etag
             /\ new.url = d.url /\ new.scan = d.scan /\ new.reconcile = d.reconcile /\ new.gen = d.gen
             /\ new.full = d.full /\ new.pipes = d.pipes
<1>1. d.rev + 1 \in Nat
  BY DEF State
<1> DEFINE mid == [d EXCEPT !.rev = d.rev + 1]
<1>2. /\ mid \in State /\ mid.rev = d.rev + 1 /\ mid.etag = d.etag
      /\ mid.url = d.url /\ mid.scan = d.scan /\ mid.reconcile = d.reconcile /\ mid.gen = d.gen
      /\ mid.full = d.full /\ mid.pipes = d.pipes
  BY <1>1 DEF State
<1>3. [d EXCEPT !.rev = @ + 1, !.page = page] = [mid EXCEPT !.page = page]
  OBVIOUS
<1> HIDE DEF mid
<1> QED BY <1>2, <1>3 DEF State

\* StartScan: a new revision, an empty outbox, the watcher's generation.
LEMMA StartScanKeeps ==
  ASSUME IInv, NEW w \in Pod, StartScan(w)
  PROVE  IInv'
<1>1. IfMatch(w) /\ PersistDeltaUrl(w, Scanning(w), "get") /\ poll[w].pc = "scan" /\ doc.rev < scope.revs
  BY MatchProperties DEF StartScan, PersistDeltaUrl
<1>2. UNCHANGED <<drive, api, refs, sent, watcher>>
  BY DEF StartScan
<1>0. /\ Typed /\ poll[w].mem = doc /\ doc \in State /\ Sane(doc) /\ doc.page \in Page /\ doc.url \in Url
         /\ watcher[w] \in Watcher /\ watcher[w].pipes \in SUBSET Pipe /\ watcher[w].gen \in Nat
         /\ doc.rev \in Nat /\ doc.scan \in Nat /\ doc.etag \in Nat /\ scope.revs \in Nat
  BY <1>1, MatchProperties
<1> USE <1>1, <1>0
<1>3. ~doc.page.pending
  BY DEF IInv, Phases, Phase
<1> DEFINE new == Scanning(w)
<1>4. /\ new \in State /\ new.rev = doc.rev + 1 /\ new.scan = doc.rev + 1 /\ ~new.reconcile
      /\ new.page = doc.page /\ new.url = BuildInitialDeltaUrl /\ new.gen = watcher[w].gen /\ new.pipes = watcher[w].pipes
  <2>0. PICK n \in Nat : n = doc.rev + 1
    OBVIOUS
  <2> DEFINE some == [doc EXCEPT !.gen = watcher[w].gen, !.pipes = watcher[w].pipes]
             more == [some EXCEPT !.rev = n, !.scan = n]
  <2>1. some \in State /\ some.rev = doc.rev /\ some.page = doc.page /\ some.gen = watcher[w].gen /\ some.pipes = watcher[w].pipes
    BY DEF State
  <2>2. new = [more EXCEPT !.full = TRUE, !.reconcile = FALSE, !.url = BuildInitialDeltaUrl]
    BY <2>0, <2>1 DEF Scanning
  <2> HIDE DEF some
  <2>3. /\ more \in State /\ more.rev = n /\ more.scan = n
        /\ more.page = doc.page /\ more.gen = watcher[w].gen /\ more.pipes = watcher[w].pipes
    BY <2>1 DEF State
  <2> HIDE DEF more
  <2> QED BY <2>0, <2>2, <2>3, ConstantTypes DEF State
<1> HIDE DEF new
<1>5. /\ doc' \in State
      /\ doc'.etag = doc.etag + 1 /\ doc'.url = new.url /\ doc'.rev = new.rev /\ doc'.scan = new.scan
      /\ doc'.reconcile = new.reconcile /\ doc'.page = new.page /\ doc'.gen = new.gen /\ doc'.pipes = new.pipes
      /\ poll' \in [Pod -> Polling]
      /\ \A v \in Pod \ {w} : poll'[v] = poll[v]
      /\ poll'[w].mem = doc' /\ poll'[w].pc = "get" /\ poll'[w].fetching = poll[w].fetching
  BY <1>4, PersistProperties DEF PC, new
<1>6. Typed'
  BY <1>2, <1>5 DEF Typed, api
<1>7. Sane(doc)'
  BY <1>2, <1>4, <1>5 DEF Sane, BuildInitialDeltaUrl, NoUrl, api, Existing
<1>8. Phase(w)'
  BY <1>3, <1>4, <1>5 DEF Phase, BuildInitialDeltaUrl, NoUrl
<1>9. Fetches(w)'
  <2>1. poll[w].fetching
    BY DEF IInv, Generations, Fetches
  <2> QED BY <1>2, <1>4, <1>5, <2>1 DEF Fetches
<1> QED BY <1>2, <1>3, <1>4, <1>5, <1>6, <1>7, <1>8, <1>9, WriteStep DEF api

\* StagePage: the draft is as new as all that is known.
LEMMA StagePageKeeps ==
  ASSUME IInv, NEW w \in Pod, StagePage(w)
  PROVE  IInv'
<1>1. /\ IfMatch(w) /\ PersistDeltaUrl(w, Staged(w, poll[w].draft), "publish")
      /\ poll[w].pc = "stage" /\ doc.rev < scope.revs
  BY MatchProperties DEF StagePage, PersistDeltaUrl
<1>2. UNCHANGED <<drive, api, refs, sent, watcher>>
  BY DEF StagePage
<1>0. /\ Typed /\ poll[w].mem = doc /\ doc \in State /\ Sane(doc) /\ doc.page \in Page /\ doc.url \in Url
         /\ watcher[w] \in Watcher /\ watcher[w].pipes \in SUBSET Pipe /\ watcher[w].gen \in Nat
         /\ doc.rev \in Nat /\ doc.scan \in Nat /\ doc.etag \in Nat /\ scope.revs \in Nat
  BY <1>1, MatchProperties
<1> USE <1>1, <1>0
<1> DEFINE page == [poll[w].draft EXCEPT !.pipes = watcher[w].pipes, !.pending = TRUE]
           new == Staged(w, poll[w].draft)
<1>3. /\ poll[w].draft \in Page /\ poll[w].draft.next.kind \in {"more", "delta"}
      /\ poll[w].draft.next.left \subseteq Existing /\ OneChangeEach(poll[w].draft.changes)
  BY DEF Typed, Polling, IInv, Phases, Phase
<1>4. page \in Page /\ page.pending /\ page.next = poll[w].draft.next /\ page.changes = poll[w].draft.changes
  BY <1>3 DEF Page
<1>5. new = [doc EXCEPT !.rev = @ + 1, !.page = page]
  BY DEF Staged
<1> HIDE DEF page, new
<1>6. /\ new \in State /\ new.rev = doc.rev + 1 /\ new.scan = doc.scan /\ new.reconcile = doc.reconcile
      /\ new.page = page /\ new.url = doc.url /\ new.gen = doc.gen /\ new.pipes = doc.pipes
  BY <1>4, <1>5, NextRevision, ZenonT(60)
<1>7. /\ doc' \in State
      /\ doc'.etag = doc.etag + 1 /\ doc'.url = new.url /\ doc'.rev = new.rev /\ doc'.scan = new.scan
      /\ doc'.reconcile = new.reconcile /\ doc'.page = new.page /\ doc'.gen = new.gen /\ doc'.pipes = new.pipes
      /\ poll' \in [Pod -> Polling]
      /\ \A v \in Pod \ {w} : poll'[v] = poll[v]
      /\ poll'[w].mem = doc' /\ poll'[w].pc = "publish" /\ poll'[w].fetching = poll[w].fetching
  BY <1>6, PersistProperties DEF PC, new
<1>8. Typed'
  BY <1>2, <1>7 DEF Typed, api
<1>9. Sane(doc)'
  BY <1>2, <1>3, <1>4, <1>6, <1>7 DEF Sane, api, Existing
<1>10. Phase(w)'
  BY <1>4, <1>6, <1>7 DEF Phase
<1>11. Fetches(w)'
  BY <1>2, <1>6, <1>7 DEF IInv, Generations, Fetches
<1>12. ASSUME NEW e \in page.changes
       PROVE  /\ e.ver <= drive[e.item].at
              /\ \A r \in Nat, c \in ItemChange : Known(r, c) /\ c.item = e.item => c.ver <= e.ver
  BY <1>4 DEF IInv, DraftsReal, DraftsNewest
<1> QED BY <1>2, <1>4, <1>6, <1>7, <1>8, <1>9, <1>10, <1>11, <1>12, WriteStep DEF api

\* Commit: the outbox is empty, the cursor moves on, and the poll to where the
\* flushed state sends it.
LEMMA CommitKeeps ==
  ASSUME IInv, NEW w \in Pod, Commit(w)
  PROVE  IInv'
<1>1. IfMatch(w) /\ PersistDeltaUrl(w, Flushed(poll[w].mem), AfterFlush(w)) /\ poll[w].pc = "refs"
  BY DEF Commit, PersistDeltaUrl
<1>2. UNCHANGED <<drive, api, refs, sent, watcher>>
  BY DEF Commit
<1>0. /\ Typed /\ poll[w].mem = doc /\ doc \in State /\ Sane(doc) /\ doc.page \in Page /\ doc.url \in Url
         /\ watcher[w] \in Watcher /\ watcher[w].pipes \in SUBSET Pipe /\ watcher[w].gen \in Nat
         /\ doc.rev \in Nat /\ doc.scan \in Nat /\ doc.etag \in Nat /\ scope.revs \in Nat
  BY <1>1, MatchProperties
<1> USE <1>1, <1>0
<1> DEFINE new == Flushed(poll[w].mem)
           at == AfterFlush(w)
<1>3. doc.page.pending /\ doc.page.next.kind \in {"more", "delta"}
  BY DEF IInv, Phases, Phase, Sane
<1>4. /\ new \in State /\ new.rev = doc.rev /\ new.scan = doc.scan
      /\ new.page = NoPage /\ new.url = doc.page.next /\ new.gen = doc.gen /\ new.pipes = doc.pipes
  <2>1. (doc.full /\ ~doc.page.ends) \in BOOLEAN
        /\ (~doc.page.ends /\ (doc.reconcile \/ (doc.page.isDelta /\ doc.full))) \in BOOLEAN
    OBVIOUS
  <2> QED BY <2>1, ConstantTypes, ZenonT(60) DEF Flushed, State, Page
<1>5. /\ at \in {"batch", "reconcile", "reset", "polled", "get"}
      /\ at \in {"batch", "reconcile"} => new.reconcile
      /\ at \in {"get", "polled"} => poll[w].fetching
  BY DEF AfterFlush
<1>6. at \in PC
  BY <1>5 DEF PC
<1> HIDE DEF new, at
<1>7. /\ doc' \in State
      /\ doc'.etag = doc.etag + 1 /\ doc'.url = new.url /\ doc'.rev = new.rev /\ doc'.scan = new.scan
      /\ doc'.reconcile = new.reconcile /\ doc'.page = new.page /\ doc'.gen = new.gen /\ doc'.pipes = new.pipes
      /\ poll' \in [Pod -> Polling]
      /\ \A v \in Pod \ {w} : poll'[v] = poll[v]
      /\ poll'[w].mem = doc' /\ poll'[w].pc = at /\ poll'[w].fetching = poll[w].fetching
  BY <1>4, <1>6, PersistProperties DEF new, at
<1>8. Typed'
  BY <1>2, <1>7 DEF Typed, api
<1>9. Sane(doc)'
  <2>1. ~NoPage.pending /\ NoPage.changes = {} /\ NoPage.next.left = {}
    BY DEF NoPage, NoUrl
  <2> QED BY <1>2, <1>3, <1>4, <1>7, <2>1 DEF Sane, OneChangeEach, api, Existing
<1>10. ~doc'.page.pending
  BY <1>4, <1>7, ConstantTypes
<1>11. Phase(w)'
  BY <1>3, <1>4, <1>5, <1>7, <1>10 DEF Phase
<1>12. Fetches(w)'
  BY <1>2, <1>4, <1>5, <1>7 DEF IInv, Generations, Fetches
<1> QED BY <1>2, <1>4, <1>5, <1>7, <1>8, <1>9, <1>10, <1>11, <1>12, WriteStep DEF api

\* StageMissing: tombstones of the reconciliation carry no version.
LEMMA StageMissingKeeps ==
  ASSUME IInv, NEW w \in Pod, StageMissing(w)
  PROVE  IInv'
<1>1. IfMatch(w) /\ poll[w].pc = "batch" /\ doc.rev < scope.revs
  BY MatchProperties DEF StageMissing
<1>2. UNCHANGED <<drive, api, refs, sent, watcher>>
  BY DEF StageMissing
<1>0. /\ Typed /\ poll[w].mem = doc /\ doc \in State /\ Sane(doc) /\ doc.page \in Page /\ doc.url \in Url
         /\ watcher[w] \in Watcher /\ watcher[w].pipes \in SUBSET Pipe /\ watcher[w].gen \in Nat
         /\ doc.rev \in Nat /\ doc.scan \in Nat /\ doc.etag \in Nat /\ scope.revs \in Nat
  BY <1>1, MatchProperties, SMTT(40)
<1> USE <1>1, <1>0
<1>3. PICK gone \in SUBSET poll[w].missing :
        LET page == [NoPage EXCEPT
                        !.changes = {[item |-> i, ver |-> 0, deleted |-> TRUE] : i \in gone},
                        !.next = poll[w].mem.url, !.isDelta = TRUE,
                        !.ends = (poll[w].missing = {})]
        IN  /\ doc' = [Staged(w, page) EXCEPT !.etag = doc.etag + 1]
            /\ poll' = [poll EXCEPT ![w].mem = doc', ![w].pc = "publish", ![w].missing = poll[w].missing \ gone]
  BY DEF StageMissing
<1> DEFINE changes == {[item |-> i, ver |-> 0, deleted |-> TRUE] : i \in gone}
           page == [NoPage EXCEPT !.changes = changes, !.next = doc.url, !.isDelta = TRUE,
                                  !.ends = (poll[w].missing = {})]
           staged == [page EXCEPT !.pipes = watcher[w].pipes, !.pending = TRUE]
           new == Staged(w, page)
           next == [poll[w] EXCEPT !.mem = doc', !.pc = "publish", !.missing = poll[w].missing \ gone]
<1>4. poll[w] \in Polling /\ poll[w].missing \in SUBSET Item /\ doc.reconcile
  BY DEF Typed, Polling, IInv, Phases, Phase
<1>5. changes \in SUBSET ItemChange /\ \A e \in changes : e.ver = 0 /\ e.deleted /\ e.item \in Item
  <2>1. \A i \in gone : i \in Item /\ [item |-> i, ver |-> 0, deleted |-> TRUE] \in ItemChange
    BY <1>4 DEF ItemChange
  <2>2. \A e \in changes : \E i \in gone : e = [item |-> i, ver |-> 0, deleted |-> TRUE]
    OBVIOUS
  <2> QED BY <2>1, <2>2
<1>6. OneChangeEach(changes)
  <2>1. \A e \in changes : e = [item |-> e.item, ver |-> 0, deleted |-> TRUE]
    OBVIOUS
  <2> QED BY <2>1 DEF OneChangeEach
<1> HIDE DEF changes
<1>7. page \in Page
  BY <1>5, ConstantTypes DEF Page
<1>8. page.next = doc.url /\ page.changes = changes
  BY ConstantTypes DEF Page
<1>9. doc' = [new EXCEPT !.etag = doc.etag + 1] /\ poll' = [poll EXCEPT ![w] = next]
  BY <1>3 DEF changes
<1> HIDE DEF page
<1>10. staged \in Page /\ staged.pending /\ staged.next = doc.url /\ staged.changes = changes
  BY <1>7, <1>8 DEF Page
<1>11. new = [doc EXCEPT !.rev = @ + 1, !.page = staged]
  BY DEF Staged
<1> HIDE DEF staged, new
<1>12. /\ doc' \in State
       /\ doc'.etag = doc.etag + 1 /\ doc'.url = doc.url /\ doc'.rev = doc.rev + 1 /\ doc'.scan = doc.scan
       /\ doc'.reconcile = doc.reconcile /\ doc'.page = staged /\ doc'.gen = doc.gen /\ doc'.pipes = doc.pipes
  <2>1. /\ new \in State /\ new.rev = doc.rev + 1 /\ new.page = staged
        /\ new.url = doc.url /\ new.scan = doc.scan /\ new.reconcile = doc.reconcile /\ new.gen = doc.gen /\ new.pipes = doc.pipes
    BY <1>10, <1>11, NextRevision, ZenonT(60)
  <2> QED BY <1>9, <2>1 DEF State
<1>13. next \in Polling /\ next.mem = doc' /\ next.pc = "publish" /\ next.fetching = poll[w].fetching
  BY <1>4, <1>12 DEF Polling, PC
<1> HIDE DEF next
<1>14. /\ poll' \in [Pod -> Polling]
       /\ \A v \in Pod \ {w} : poll'[v] = poll[v]
       /\ poll'[w].mem = doc' /\ poll'[w].pc = "publish" /\ poll'[w].fetching = poll[w].fetching
  BY <1>9, <1>13 DEF Typed
<1>15. Typed'
  BY <1>2, <1>12, <1>14 DEF Typed, api
<1>16. Sane(doc)'
  BY <1>2, <1>4, <1>6, <1>10, <1>12 DEF Sane, api, Existing
<1>17. Phase(w)'
  BY <1>10, <1>12, <1>14 DEF Phase
<1>18. Fetches(w)'
  BY <1>2, <1>12, <1>14 DEF IInv, Generations, Fetches
<1>19. \A e \in changes : e.ver <= drive[e.item].at /\ e.deleted
  BY <1>5, WatcherAssumption DEF Typed
<1> QED BY <1>2, <1>10, <1>12, <1>14, <1>15, <1>16, <1>17, <1>18, <1>19, WriteStep DEF api

-----------------------------------------------------------------------------
(* Theorems.                                                                *)

\* Every step keeps the invariant, and so does none.
LEMMA NextKeeps == IInv /\ [Next]_vars => IInv'
<1> SUFFICES ASSUME IInv, [Next]_vars PROVE IInv'
  OBVIOUS
<1>1. ASSUME NEW i \in Item, Change(i) PROVE IInv'
  BY <1>1, ChangeKeeps
<1>2. ASSUME NEW p \in Pipe, Attach(p) \/ Detach(p) \/ Reset(p) PROVE IInv'
  BY <1>2, ApiKeeps
<1>3. ASSUME NEW w \in Pod,
             StartPod(w) \/ StopPod(w) \/ UpdatePipelines(w) \/ PollFails(w) \/ PublishPart(w) \/ Poll(w)
      PROVE  IInv'
  <2>1. CASE StartPod(w) \/ StopPod(w) \/ PollFails(w) \/ Polled(w)
    BY <2>1, ForgetKeeps
  <2>2. CASE UpdatePipelines(w) \/ Load(w) \/ CheckReset(w) \/ FindMissing(w)
    BY <2>2, UpdateKeeps, LoadKeeps, CheckResetKeeps, FindMissingKeeps
  <2>3. CASE GetPage(w) \/ TokenExpired(w) \/ PersistReference(w) \/ Publish(w) \/ PublishPart(w)
    BY <2>3, GetPageKeeps, TokenExpiredKeeps, PersistReferenceKeeps, PublishKeeps
  <2>4. CASE StartScan(w) \/ StagePage(w) \/ Commit(w) \/ StageMissing(w)
    BY <2>4, StartScanKeeps, StagePageKeeps, CommitKeeps, StageMissingKeeps
  <2> QED BY <1>3, <2>1, <2>2, <2>3, <2>4 DEF Poll
<1>4. CASE UNCHANGED vars
  <2>1. Typed'
    BY <1>4 DEF IInv, Typed, vars, api
  <2> QED BY <1>4, <2>1, OutsideStep DEF vars, api
<1> QED BY <1>1, <1>2, <1>3, <1>4 DEF Next

\* The inductive invariant implies the invariant that the run checks.
LEMMA WatcherInvHolds == IInv => WatcherInv
<1> SUFFICES ASSUME IInv PROVE WatcherInv
  OBVIOUS
<1>1. TypeOK
  <2>1. doc \in State /\ doc.rev \in Nat /\ doc.scan \in Nat /\ scope.revs \in Nat /\ doc.pipes \subseteq Pipe
    BY DEF IInv, Typed, State
  <2>2. \A i \in Item : drive[i].at \in 0 .. MaxChanges /\ refs[i].rev \in Nat /\ refs[i].rev <= doc.rev
    BY DEF IInv, Typed, Reference, Memory
  <2>3. doc.rev <= scope.revs /\ doc.scan <= doc.rev /\ (doc.page.pending => doc.page.next.kind \in {"more", "delta"})
    BY DEF IInv, AllSane, Sane
  <2> QED BY <2>1, <2>2, <2>3 DEF TypeOK, IInv, Memory, Typed
<1>2. ASSUME NEW m \in sent
      PROVE  LET c == [item |-> m.item, ver |-> m.ver, deleted |-> m.deleted]
             IN  c \in ItemChange /\ m.rev \in Nat /\ Known(m.rev, c)
  BY DEF IInv, Typed, Message, ItemChange, Known, Says
<1>3. RevisionNamesVersion
  <2>1. ASSUME NEW m \in sent, NEW n \in sent, m.item = n.item
        PROVE  /\ m.rev = n.rev => m.ver = n.ver /\ m.deleted = n.deleted
               /\ m.rev < n.rev /\ ~n.deleted => m.ver <= n.ver
    <3> DEFINE c == [item |-> m.item, ver |-> m.ver, deleted |-> m.deleted]
               e == [item |-> n.item, ver |-> n.ver, deleted |-> n.deleted]
    <3>1. c \in ItemChange /\ e \in ItemChange /\ m.rev \in Nat /\ n.rev \in Nat /\ Known(m.rev, c) /\ Known(n.rev, e)
      BY <1>2
    <3>2. /\ c.item = m.item /\ c.ver = m.ver /\ c.deleted = m.deleted
          /\ e.item = n.item /\ e.ver = n.ver /\ e.deleted = n.deleted
      OBVIOUS
    <3> HIDE DEF c, e
    <3>3. (m.rev = n.rev => c = e) /\ (m.rev < n.rev /\ ~e.deleted => c.ver <= e.ver)
      BY <2>1, <3>1, <3>2 DEF IInv, KnownOrdered
    <3> QED BY <3>2, <3>3
  <2> QED BY <2>1 DEF RevisionNamesVersion
<1>4. OutboxFirst
  BY <1>2 DEF OutboxFirst, IInv, KnownReached
<1>5. ResetHonoured
  BY DEF ResetHonoured, IInv, Generations, Fetches
<1>6. AttachHonoured
  BY DEF AttachHonoured, IInv, Generations, Fetches
<1> QED BY <1>1, <1>3, <1>4, <1>5, <1>6 DEF WatcherInv

\* The inductive invariant holds of every behaviour.
LEMMA Invariance == Spec => []IInv
<1> QED BY InitEstablishes, NextKeeps, PTL DEF Spec

\* Revisions mean one version of an item, whoever sends; the outbox is durable
\* before it is sent; no poll ends under a generation that a reset has replaced,
\* nor with a pipeline that the last scan did not have and no scan asked for
\* (StagePageAsync, FlushPendingAsync, PollDeltaAsync).
THEOREM WatcherInvariant == Spec => []WatcherInv
<1> QED BY Invariance, WatcherInvHolds, PTL

\* PersistReferencesAsync: no step of any pod takes a reference back.
LEMMA ReferencesAdvance ==
  ASSUME IInv, [Next]_vars, NEW i \in Item
  PROVE  refs'[i].rev >= refs[i].rev
<1>1. refs \in [Item -> Reference] /\ refs[i].rev \in Nat
  BY DEF IInv, Typed, Reference
<1>2. CASE refs' = refs
  BY <1>1, <1>2
<1>3. ASSUME NEW w \in Pod, PersistReference(w) PROVE refs'[i].rev >= refs[i].rev
  <2>1. PICK c \in poll[w].todo :
          refs' = IF NewerRef(w, c.item) THEN refs
                  ELSE [refs EXCEPT ![c.item] =
                           [rev |-> poll[w].mem.rev, scan |-> poll[w].mem.scan, deleted |-> c.deleted]]
    BY <1>3 DEF PersistReference
  <2>2. poll[w].mem.rev \in Nat
    BY DEF IInv, Typed, Polling, State
  <2>3. CASE NewerRef(w, c.item)
    BY <1>1, <2>1, <2>3
  <2>4. CASE ~NewerRef(w, c.item)
    BY <1>1, <2>1, <2>2, <2>4 DEF NewerRef
  <2> QED BY <2>3, <2>4
<1>4. refs' = refs \/ \E w \in Pod : PersistReference(w)
  BY ZenonT(60) DEF Next, vars, Poll, Change, Attach, Detach, Reset, StartPod, StopPod, UpdatePipelines, PollFails,
         PublishPart, Load, CheckReset, StartScan, GetPage, TokenExpired, StagePage, Publish, Commit, Polled,
         FindMissing, StageMissing
<1> QED BY <1>2, <1>3, <1>4

\* FlushPendingAsync: whoever empties the outbox has sent what it held.
LEMMA CursorFollows ==
  ASSUME IInv, [Next]_vars, doc.page.pending, ~doc'.page.pending
  PROVE  BuildMessages(doc.page, doc.rev) \subseteq sent
<1>1. ASSUME NEW w \in Pod, StartScan(w) PROVE FALSE
  <2>1. IfMatch(w) /\ poll[w].pc = "scan"
    BY <1>1 DEF StartScan, PersistDeltaUrl
  <2> QED BY <2>1, MatchProperties DEF IInv, Phases, Phase
<1>2. ASSUME NEW w \in Pod, StagePage(w) PROVE FALSE
  <2>1. IfMatch(w) /\ poll[w].pc = "stage"
    BY <1>2 DEF StagePage, PersistDeltaUrl
  <2> QED BY <2>1, MatchProperties DEF IInv, Phases, Phase
<1>3. ASSUME NEW w \in Pod, StageMissing(w) PROVE FALSE
  <2>1. IfMatch(w) /\ poll[w].pc = "batch"
    BY <1>3 DEF StageMissing
  <2> QED BY <2>1, MatchProperties DEF IInv, Phases, Phase
<1>4. ASSUME NEW w \in Pod, Commit(w) PROVE BuildMessages(doc.page, doc.rev) \subseteq sent
  <2>1. IfMatch(w) /\ poll[w].pc = "refs"
    BY <1>4 DEF Commit, PersistDeltaUrl
  <2> QED BY <2>1, MatchProperties DEF IInv, Phases, Phase
<1>5. doc' = doc \/ \E w \in Pod : StartScan(w) \/ StagePage(w) \/ StageMissing(w) \/ Commit(w)
  BY DEF Next, vars, Poll, Change, Attach, Detach, Reset, StartPod, StopPod, UpdatePipelines, PollFails,
         PublishPart, Load, CheckReset, GetPage, TokenExpired, Publish, PersistReference, Polled, FindMissing
<1> QED BY <1>1, <1>2, <1>3, <1>4, <1>5

\* References and the cursor move forward only, and only behind the messages,
\* whatever restarts, replays and other pods do.
THEOREM WatcherNeverBack == Spec => NeverBack
<1>1. IInv /\ [Next]_vars => [\A i \in Item : refs'[i].rev >= refs[i].rev]_vars
  BY ReferencesAdvance
<1>2. IInv /\ [Next]_vars =>
        [doc.page.pending /\ ~doc'.page.pending => BuildMessages(doc.page, doc.rev) \subseteq sent]_vars
  BY CursorFollows
<1> QED BY <1>1, <1>2, Invariance, PTL DEF Spec, NeverBack, RefsAdvance, CursorBehindMessages

-----------------------------------------------------------------------------
(* CaughtUp: the inductive invariant.  It is said of what will be there once *)
(* the page in the outbox is through, so that sending it, noting its         *)
(* references and emptying the outbox change nothing.                        *)

Cursor == IF doc.page.pending THEN doc.page.next ELSE doc.url
Full == doc.full /\ ~(doc.page.pending /\ doc.page.ends)
Sending == sent \union (IF doc.page.pending THEN BuildMessages(doc.page, doc.rev) ELSE {})

RefOf(d, c) == [rev |-> d.rev, scan |-> d.scan, deleted |-> c.deleted]
Pending(i) == {c \in doc.page.changes : doc.page.pending /\ c.item = i}
Noted(i) ==
    IF Pending(i) = {} THEN refs[i]
    ELSE [rev |-> doc.rev, scan |-> doc.scan, deleted |-> \E c \in Pending(i) : c.deleted]

\* m is the last of the messages S for pipeline p about item i.
Last(S, p, i, m) ==
    /\ m \in S /\ m.pipe = p /\ m.item = i
    /\ \A n \in S : n.pipe = p /\ n.item = i => n.rev <= m.rev

\* Pipeline p has been told, in messages S, of item i, which is d.
Told(S, p, i, d, scan) ==
    IF d.is = "file" THEN \E m \in S : Last(S, p, i, m) /\ ~m.deleted /\ m.ver = d.at /\ m.rev > scan
    ELSE \A m \in S : Last(S, p, i, m) => m.deleted

\* An item that a scan did not see, by its reference r.
Unseen(r, scan) == r.rev > 0 /\ ~r.deleted /\ r.scan < scan

\* During a scan, what is not there any more may be left to the reconciliation.
Fine(S, p, i, d, r, full, scan) ==
    Told(S, p, i, d, scan) \/ (full /\ d.is # "file" /\ Unseen(r, scan))

\* The pipelines that CaughtUp speaks of, when they are part of the last scan.
Steady == active \ interrupted

Heard == doc.pipes \union doc.page.pipes \union {m.pipe : m \in sent}

\* A steady pipeline is one of every running pod, or of none so far.
PipesSound ==
    /\ \A p \in Pipe \ interrupted : p \notin active => p \notin Heard /\ \A w \in Pod : p \notin watcher[w].pipes
    /\ \A p \in Steady, w \in Pod : poll[w].pc # "off" =>
            p \in watcher[w].pipes \/ (scope.pods <= 1 /\ p \notin Heard)
    /\ scope.pods <= 1 => \A v, w \in Pod : poll[v].pc # "off" /\ poll[w].pc # "off" => v = w

\* A page in the memory of a pod that was overtaken is through.
Overtaken(w) ==
    poll[w].mem.page.pending /\ ~IfMatch(w) =>
        /\ BuildMessages(poll[w].mem.page, poll[w].mem.rev) \subseteq sent
        /\ doc.page.pending => poll[w].mem.rev < doc.rev
        /\ \A c \in poll[w].mem.page.changes :
                refs[c.item].rev > poll[w].mem.rev \/ refs[c.item] = RefOf(poll[w].mem, c)

Noting(w) ==
    poll[w].pc = "refs" /\ IfMatch(w) =>
        \A c \in doc.page.changes \ poll[w].todo : refs[c.item] = RefOf(doc, c)

\* A reference says what the last message about its item said.
RefTold(S, p, i, r) == \A m \in S : Last(S, p, i, m) => m.rev = r.rev /\ m.deleted = r.deleted

RefsSound ==
    /\ \A m \in Sending : m.rev > 0
    /\ \A p \in Steady, i \in Item : RefTold(Sending, p, i, Noted(i))
    /\ \A i \in Item : Noted(i).scan <= doc.scan /\ (Noted(i).rev > doc.scan => Noted(i).scan = doc.scan)

CursorSound ==
    /\ Cursor.at <= Clock
    /\ Cursor.kind \in {"start", "delta"} => Cursor.left = {}
    /\ Cursor.kind = "none" => doc.pipes = {}
    /\ Cursor.kind = "start" => Full /\ \A i \in Item : Noted(i).scan < doc.scan

\* Whatever changed up to the cursor, and is not on a page to come, is told.
AllFine ==
    Cursor.kind \in {"more", "delta"} =>
        \A p \in Steady \cap doc.pipes, i \in Item :
            \/ drive[i].at > Cursor.at
            \/ i \in Cursor.left
            \/ Fine(Sending, p, i, drive[i], Noted(i), Full, doc.scan)

\* The page a pod has read and not staged shows what is not told yet.
Shows(changes, i, d) ==
    \E c \in changes : c.item = i /\ IF d.is = "file" THEN ~c.deleted /\ c.ver = d.at ELSE c.deleted

DraftSound(w) ==
    poll[w].pc = "stage" /\ IfMatch(w) =>
        /\ ~poll[w].draft.ends
        /\ poll[w].draft.next.at <= Clock
        /\ poll[w].draft.next.kind = "delta" => poll[w].draft.next.left = {}
        /\ \A p \in Steady \cap doc.pipes, i \in Item :
              \/ drive[i].at > poll[w].draft.next.at
              \/ i \in poll[w].draft.next.left
              \/ Shows(poll[w].draft.changes, i, drive[i])
              \/ /\ \A c \in poll[w].draft.changes : c.item # i
                 /\ Fine(Sending, p, i, drive[i], Noted(i), Full, doc.scan)

\* What a pod that reconciles has still to give up are the items that the scan did not see.
MissingSound(w) ==
    /\ poll[w].pc = "batch" => poll[w].reconciling
    /\ poll[w].reconciling => poll[w].pc \in {"batch", "publish", "refs"}
    /\ poll[w].reconciling /\ IfMatch(w) =>
            \A i \in Item : /\ Unseen(Noted(i), doc.scan) => i \in poll[w].missing
                            /\ i \in poll[w].missing => Noted(i).scan < doc.scan

PodsSound == \A w \in Pod : Overtaken(w) /\ Noting(w) /\ DraftSound(w) /\ MissingSound(w)

ToldIInv == PipesSound /\ RefsSound /\ CursorSound /\ AllFine /\ PodsSound

-----------------------------------------------------------------------------
(* Messages: what another page adds to what was sent.                       *)

\* A page says nothing about other items and to other pipelines.
LEMMA LastKept ==
  ASSUME NEW S, NEW page, NEW R \in Nat, NEW p, NEW i,
         p \notin page.pipes \/ \A c \in page.changes : c.item # i
  PROVE  \A m : Last(S \union BuildMessages(page, R), p, i, m) <=> Last(S, p, i, m)
<1>1. \A m \in BuildMessages(page, R) : ~(m.pipe = p /\ m.item = i)
  BY DEF BuildMessages
<1> QED BY <1>1 DEF Last

\* What a page of a later revision says of an item is the last that was said of it.
LEMMA LastNew ==
  ASSUME NEW S, NEW page, NEW R \in Nat, \A m \in S : m.rev \in Nat /\ m.rev < R,
         OneChangeEach(page.changes), NEW p \in page.pipes, NEW c \in page.changes
  PROVE  /\ \A m : Last(S \union BuildMessages(page, R), p, c.item, m) =>
                      m.rev = R /\ m.ver = c.ver /\ m.deleted = c.deleted
         /\ \E m : Last(S \union BuildMessages(page, R), p, c.item, m)
<1> DEFINE B == BuildMessages(page, R)
           new == [pipe |-> p, item |-> c.item, rev |-> R, ver |-> c.ver, deleted |-> c.deleted]
<1>1. new \in B /\ new.pipe = p /\ new.item = c.item /\ new.rev = R
  BY DEF BuildMessages
<1>2. \A m \in B : m.rev = R
  BY DEF BuildMessages
<1>3. \A m \in B : m.pipe = p /\ m.item = c.item => m.ver = c.ver /\ m.deleted = c.deleted
  BY DEF BuildMessages, OneChangeEach
<1> HIDE DEF B, new
<1>4. Last(S \union B, p, c.item, new)
  BY <1>1, <1>2 DEF Last
<1>5. ASSUME NEW m, Last(S \union B, p, c.item, m) PROVE m.rev = R /\ m.ver = c.ver /\ m.deleted = c.deleted
  <2>1. R <= m.rev /\ m \in S \union B
    BY <1>1, <1>5 DEF Last
  <2>2. m \notin S
    BY <2>1
  <2> QED BY <1>2, <1>3, <1>5, <2>1, <2>2 DEF Last
<1> QED BY <1>4, <1>5 DEF B

\* What a pipeline is told depends on the last message about the item alone.
LEMMA FineKept ==
  ASSUME NEW S, NEW T, NEW p, NEW i, NEW d, NEW r, NEW full, NEW scan,
         \A m : Last(T, p, i, m) <=> Last(S, p, i, m)
  PROVE  Fine(S, p, i, d, r, full, scan) <=> Fine(T, p, i, d, r, full, scan)
<1>1. \A m : Last(S, p, i, m) => m \in S /\ m \in T
  BY DEF Last
<1>2. Told(S, p, i, d, scan) <=> Told(T, p, i, d, scan)
  BY <1>1 DEF Told
<1> QED BY <1>2 DEF Fine

-----------------------------------------------------------------------------
(* The first state, and steps that leave alone what is behind the outbox.   *)

LEMMA InitTold == Init => ToldIInv
<1> SUFFICES ASSUME Init PROVE ToldIInv
  OBVIOUS
<1>1. /\ doc = NoDoc /\ sent = {} /\ interrupted = {} /\ ~doc.page.pending /\ doc.pipes = {} /\ doc.page.pipes = {}
      /\ doc.url = NoUrl /\ doc.scan = 0 /\ doc.page.changes = {}
  BY DEF Init, NoDoc, NoPage
<1>2. \A w \in Pod : /\ poll[w].pc = "off" /\ poll[w].mem = NoDoc /\ ~poll[w].reconciling
                     /\ watcher[w].pipes = {}
  BY DEF Init, NotPolling, NoWatcher
<1>3. Heard = {} /\ Sending = {} /\ Cursor = NoUrl
  BY <1>1 DEF Heard, Sending, Cursor
<1>4. \A i \in Item : Noted(i) = NoRef
  BY <1>1 DEF Noted, Pending, Init
<1>5. PipesSound
  BY <1>2, <1>3 DEF PipesSound, Steady
<1>6. RefsSound
  BY <1>1, <1>3, <1>4 DEF RefsSound, RefTold, Last, NoRef
<1>7. CursorSound /\ AllFine
  <2>1. Typed
    BY InitEstablishes DEF IInv
  <2> QED BY <1>1, <1>3, <2>1, ClockProperties, WatcherAssumption DEF CursorSound, AllFine, NoUrl
<1>8. PodsSound
  BY <1>1, <1>2, ConstantTypes DEF PodsSound, Overtaken, Noting, DraftSound, MissingSound
<1> QED BY <1>5, <1>6, <1>7, <1>8 DEF ToldIInv

\* A message reaches only pipelines that were heard of.
LEMMA MessagesHeard == \A m \in Sending : m.pipe \in Heard
<1>1. \A m \in BuildMessages(doc.page, doc.rev) : m.pipe \in doc.page.pipes
  BY DEF BuildMessages
<1> QED BY <1>1 DEF Sending, Heard

\* The same pipelines, or fewer, with the same messages behind the outbox.
LEMMA SameBehind ==
  ASSUME RefsSound, CursorSound, AllFine, Sending' = Sending, \A i \in Item : Noted(i)' = Noted(i),
         Cursor' = Cursor, Full' = Full, doc'.scan = doc.scan, doc'.pipes = doc.pipes, drive' = drive,
         Steady' \subseteq Steady
  PROVE  RefsSound' /\ CursorSound' /\ AllFine'
<1>1. RefsSound'
  BY DEF RefsSound
<1>2. CursorSound'
  BY DEF CursorSound, Clock
<1>3. AllFine'
  BY DEF AllFine
<1> QED BY <1>1, <1>2, <1>3

\* Nobody new is heard of, no pod starts and none hears of pipelines.
LEMMA PipesRest ==
  ASSUME PipesSound, active' = active, interrupted' = interrupted, scope' = scope, Heard' \subseteq Heard,
         \A v \in Pod : watcher'[v].pipes = watcher[v].pipes /\ (poll'[v].pc = "off" <=> poll[v].pc = "off")
  PROVE  PipesSound'
BY DEF PipesSound, Steady

\* A pod that does nothing, in a step that changes nothing behind the outbox.
LEMMA PodRests ==
  ASSUME NEW v \in Pod, Overtaken(v), Noting(v), DraftSound(v), MissingSound(v),
         UNCHANGED <<drive, doc, refs>>, sent \subseteq sent', Sending' = Sending,
         \A i \in Item : Noted(i)' = Noted(i), Steady' \cap doc.pipes \subseteq Steady, poll'[v] = poll[v]
  PROVE  Overtaken(v)' /\ Noting(v)' /\ DraftSound(v)' /\ MissingSound(v)'
<1>1. Overtaken(v)'
  BY DEF Overtaken, IfMatch
<1>2. Noting(v)'
  BY DEF Noting, IfMatch
<1>3. DraftSound(v)'
  <2>1. Full' = Full /\ Clock' = Clock /\ IfMatch(v)' = IfMatch(v)
    BY DEF Full, Clock, IfMatch
  <2> QED BY <2>1 DEF DraftSound
<1>4. MissingSound(v)'
  BY DEF MissingSound, IfMatch
<1> QED BY <1>1, <1>2, <1>3, <1>4

\* A step of pod w that leaves document and references alone and sends, if
\* anything, what is in the outbox.
LEMMA QuietTold ==
  ASSUME ToldIInv, NEW w \in Pod, UNCHANGED <<drive, api, doc, refs>>, sent \subseteq sent', sent' \subseteq Sending,
         \A v \in Pod \ {w} : poll'[v] = poll[v], PipesSound',
         Overtaken(w)', Noting(w)', DraftSound(w)', MissingSound(w)'
  PROVE  ToldIInv'
<1>1. Sending' = Sending
  BY DEF Sending
<1>2. \A i \in Item : Noted(i)' = Noted(i)
  BY DEF Noted, Pending
<1>3. Cursor' = Cursor /\ Full' = Full /\ Steady' = Steady
  BY DEF Cursor, Full, Steady, api
<1>4. RefsSound' /\ CursorSound' /\ AllFine'
  BY <1>1, <1>2, <1>3, SameBehind DEF ToldIInv
<1>5. ASSUME NEW v \in Pod, v # w PROVE Overtaken(v)' /\ Noting(v)' /\ DraftSound(v)' /\ MissingSound(v)'
  <2>1. Overtaken(v) /\ Noting(v) /\ DraftSound(v) /\ MissingSound(v)
    BY DEF ToldIInv, PodsSound
  <2> QED BY <1>1, <1>2, <1>3, <1>5, <2>1, PodRests
<1>6. PodsSound'
  BY <1>5 DEF PodsSound
<1> QED BY <1>4, <1>6 DEF ToldIInv

-----------------------------------------------------------------------------
(* The drive and the API, as far as pipelines are told.                     *)

\* Change: the item is ahead of every cursor.
LEMMA ChangeTold ==
  ASSUME IInv, IInv', ToldIInv, NEW i \in Item, Change(i)
  PROVE  ToldIInv'
<1>1. Typed /\ Typed'
  BY DEF IInv
<1>2. UNCHANGED <<api, doc, refs, sent, watcher, poll>>
  BY DEF Change
<1>3. PICK is \in {"file", "unfit", "gone"} : drive' = [drive EXCEPT ![i] = [at |-> Clock + 1, is |-> is]]
  BY DEF Change
<1>4. Clock \in Nat /\ Clock' \in Nat /\ \A j \in Item : drive'[j].at <= Clock'
  <2>1. Clock \in 0 .. MaxChanges
    BY <1>1, ClockProperties
  <2>2. Clock' \in 0 .. MaxChanges /\ \A j \in Item : drive'[j].at <= Clock'
    <3>1. \A j \in Item : drive'[j].at \in 0 .. MaxChanges
      BY <1>1 DEF Typed
    <3> QED BY <3>1, LatestChange DEF Clock
  <2> QED BY <2>1, <2>2, WatcherAssumption
<1>5. drive'[i].at = Clock + 1 /\ \A j \in Item \ {i} : drive'[j] = drive[j]
  BY <1>1, <1>3 DEF Typed
<1>6. Clock < Clock'
  BY <1>4, <1>5
<1>7. /\ Sending' = Sending /\ Cursor' = Cursor /\ Full' = Full /\ Steady' = Steady /\ Heard' = Heard
      /\ \A j \in Item : Noted(j)' = Noted(j)
      /\ \A w \in Pod : IfMatch(w)' = IfMatch(w)
  BY <1>2 DEF Sending, Cursor, Full, Steady, Heard, Noted, Pending, IfMatch, api
<1>8. Cursor.at \in Nat
  BY <1>1 DEF Cursor, Typed, State, Page, Url
<1>9. PipesSound' /\ RefsSound'
  BY <1>2, <1>7 DEF ToldIInv, PipesSound, RefsSound, api
<1>10. CursorSound'
  BY <1>2, <1>4, <1>6, <1>7, <1>8 DEF ToldIInv, CursorSound
<1>11. AllFine'
  <2>1. drive'[i].at > Cursor.at
    BY <1>4, <1>5, <1>8 DEF ToldIInv, CursorSound
  <2> QED BY <1>2, <1>5, <1>7, <2>1 DEF ToldIInv, AllFine
<1>12. ASSUME NEW w \in Pod PROVE Overtaken(w)' /\ Noting(w)' /\ MissingSound(w)'
  BY <1>2, <1>7 DEF ToldIInv, PodsSound, Overtaken, Noting, MissingSound
<1>13. ASSUME NEW w \in Pod PROVE DraftSound(w)'
  <2> SUFFICES ASSUME poll[w].pc = "stage", IfMatch(w) PROVE DraftSound(w)'
    BY <1>2, <1>7 DEF DraftSound
  <2>1. DraftSound(w) /\ poll[w].draft.next.at \in Nat
    BY <1>1 DEF ToldIInv, PodsSound, Typed, Polling, Page, Url
  <2>2. poll[w].draft.next.at <= Clock
    BY <2>1 DEF DraftSound
  <2>3. drive'[i].at > poll[w].draft.next.at /\ poll[w].draft.next.at <= Clock'
    BY <1>4, <1>5, <1>6, <2>1, <2>2
  <2> QED BY <1>2, <1>5, <1>7, <2>1, <2>3 DEF DraftSound
<1>14. PodsSound'
  BY <1>12, <1>13 DEF PodsSound
<1> QED BY <1>9, <1>10, <1>11, <1>14 DEF ToldIInv

\* Attach, Detach and Reset: a pipeline that becomes steady has never been heard of.
LEMMA ApiTold ==
  ASSUME IInv, ToldIInv, NEW p \in Pipe, Attach(p) \/ Detach(p) \/ Reset(p)
  PROVE  ToldIInv'
<1>1. UNCHANGED <<drive, doc, refs, sent, watcher, poll>>
  BY DEF Attach, Detach, Reset
<1>2. /\ Sending' = Sending /\ Cursor' = Cursor /\ Full' = Full /\ Heard' = Heard
      /\ \A j \in Item : Noted(j)' = Noted(j)
  BY <1>1 DEF Sending, Cursor, Full, Heard, Noted, Pending
<1>3. scope \in [pods : Nat, items : Nat, revs : Nat, active : Nat, attach : Nat, detach : Nat, reset : Nat]
  BY DEF IInv, Typed
<1>4. scope'.pods = scope.pods
  BY <1>3 DEF Attach, Detach, Reset
<1>5. CASE Attach(p)
  <2>1. /\ p \notin active /\ active' = active \union {p}
        /\ interrupted' = IF scope.pods > 1 THEN interrupted \union {p} ELSE interrupted
    BY <1>5 DEF Attach
  <2>2. CASE p \in interrupted'
    <3>1. Steady' \subseteq Steady
      BY <2>1, <2>2 DEF Steady
    <3>2. PipesSound'
      <4>1. \A q \in Pipe \ interrupted' : q # p /\ q \notin interrupted /\ (q \in active' <=> q \in active)
        BY <2>1, <2>2
      <4> QED BY <1>1, <1>2, <1>4, <3>1, <4>1 DEF ToldIInv, PipesSound
    <3>3. RefsSound' /\ CursorSound' /\ AllFine'
      BY <1>1, <1>2, <3>1, SameBehind DEF ToldIInv
    <3>4. PodsSound'
      BY <1>1, <1>2, <3>1, PodRests DEF ToldIInv, PodsSound
    <3> QED BY <3>2, <3>3, <3>4 DEF ToldIInv
  <2>3. CASE p \notin interrupted'
    <3>1. interrupted' = interrupted /\ ~(scope.pods > 1) /\ Steady' = Steady \union {p}
      BY <2>1, <2>3 DEF Steady
    <3>2. p \notin Heard /\ \A w \in Pod : p \notin watcher[w].pipes
      BY <2>1, <2>3, <3>1 DEF ToldIInv, PipesSound
    <3>3. PipesSound'
      <4>1. scope.pods <= 1
        BY <1>3, <3>1
      <4> QED BY <1>1, <1>2, <1>4, <2>1, <3>1, <3>2, <4>1 DEF ToldIInv, PipesSound
    <3>4. \A m \in Sending : m.pipe # p
      BY <3>2, MessagesHeard
    <3>5. p \notin doc.pipes /\ Steady' \cap doc.pipes = Steady \cap doc.pipes
      BY <3>1, <3>2 DEF Heard
    <3>6. RefsSound'
      BY <1>1, <1>2, <3>1, <3>4 DEF ToldIInv, RefsSound, RefTold, Last
    <3>7. CursorSound' /\ AllFine'
      BY <1>1, <1>2, <3>5 DEF ToldIInv, CursorSound, AllFine, Clock
    <3>8. PodsSound'
      BY <1>1, <1>2, <3>5, PodRests DEF ToldIInv, PodsSound
    <3> QED BY <3>3, <3>6, <3>7, <3>8 DEF ToldIInv
  <2> QED BY <2>2, <2>3
<1>6. CASE Detach(p) \/ Reset(p)
  <2>1. Steady' \subseteq Steady
    BY <1>6 DEF Detach, Reset, Steady
  <2>2. PipesSound'
    <3>1. \A q \in Pipe \ interrupted' : q \notin interrupted /\ (q \in active' <=> q \in active)
      BY <1>6 DEF Detach, Reset
    <3> QED BY <1>1, <1>2, <1>4, <2>1, <3>1 DEF ToldIInv, PipesSound
  <2>3. RefsSound' /\ CursorSound' /\ AllFine'
    BY <1>1, <1>2, <2>1, SameBehind DEF ToldIInv
  <2>4. PodsSound'
    BY <1>1, <1>2, <2>1, PodRests DEF ToldIInv, PodsSound
  <2> QED BY <2>2, <2>3, <2>4 DEF ToldIInv
<1> QED BY <1>5, <1>6

-----------------------------------------------------------------------------
(* The steps of a pod that write no state document.                         *)

\* StartPod, StopPod, PollFails and Polled: the pod remembers nothing.
LEMMA ForgetTold ==
  ASSUME IInv, ToldIInv, NEW w \in Pod, StartPod(w) \/ StopPod(w) \/ PollFails(w) \/ Polled(w)
  PROVE  ToldIInv'
<1>1. Typed
  BY DEF IInv
<1>2. PICK at \in {"off", "idle"} : poll' = [poll EXCEPT ![w] = NotPolling(at)]
  BY DEF StartPod, StopPod, PollFails, Polled
<1>3. UNCHANGED <<drive, api, doc, refs, sent>> /\ Heard' = Heard /\ Steady' = Steady
  BY DEF StartPod, StopPod, PollFails, Polled, Heard, Steady, api
<1>4. poll'[w] = NotPolling(at) /\ \A v \in Pod \ {w} : poll'[v] = poll[v]
  BY <1>1, <1>2 DEF Typed
<1>5. poll'[w].pc = at /\ ~poll'[w].mem.page.pending /\ ~poll'[w].reconciling
  BY <1>4, ConstantTypes DEF NotPolling
<1>6. Overtaken(w)' /\ Noting(w)' /\ DraftSound(w)' /\ MissingSound(w)'
  BY <1>5 DEF Overtaken, Noting, DraftSound, MissingSound
<1>7. PipesSound'
  <2>1. CASE PollFails(w) \/ Polled(w)
    <3>1. watcher' = watcher /\ poll[w].pc # "off" /\ poll'[w] = NotPolling("idle")
      BY <1>1, <2>1 DEF PollFails, Polled, Typed
    <3>2. poll'[w].pc # "off"
      BY <3>1 DEF NotPolling
    <3> QED BY <1>3, <1>4, <3>1, <3>2, PipesRest DEF ToldIInv, api
  <2>2. CASE StopPod(w)
    <3>1. watcher'[w].pipes = {} /\ \A v \in Pod \ {w} : watcher'[v] = watcher[v]
      BY <1>1, <2>2 DEF StopPod, NoWatcher, Typed
    <3>2. poll'[w].pc = "off"
      BY <1>1, <2>2 DEF StopPod, Typed, NotPolling
    <3> QED BY <1>3, <1>4, <3>1, <3>2 DEF ToldIInv, PipesSound, api, Steady
  <2>3. CASE StartPod(w)
    <3>1. watcher'[w].pipes = active /\ \A v \in Pod \ {w} : watcher'[v] = watcher[v]
      BY <1>1, <2>3 DEF StartPod, Typed
    <3>2. ASSUME scope.pods <= 1, NEW v \in Pod, poll[v].pc # "off" PROVE FALSE
      <4>1. {u \in Pod : poll[u].pc # "off"} = {v}
        BY <3>2 DEF ToldIInv, PipesSound
      <4>2. Cardinality({v}) = 1
        BY FS_Singleton
      <4>3. scope.pods \in Nat /\ Cardinality({u \in Pod : poll[u].pc # "off"}) < scope.pods
        BY <1>1, <2>3 DEF StartPod, Typed
      <4>4. 1 < scope.pods
        BY <4>1, <4>2, <4>3
      <4> QED BY <3>2, <4>3, <4>4
    <3>3. \A p \in Pipe \ interrupted : p \notin active => p \notin Heard /\ \A v \in Pod : p \notin watcher'[v].pipes
      BY <3>1 DEF ToldIInv, PipesSound
    <3>4. \A p \in Steady, v \in Pod : poll'[v].pc # "off" => p \in watcher'[v].pipes \/ (scope.pods <= 1 /\ p \notin Heard)
      BY <1>4, <3>1 DEF ToldIInv, PipesSound, Steady
    <3>5. scope.pods <= 1 => \A u, v \in Pod : poll'[u].pc # "off" /\ poll'[v].pc # "off" => u = v
      BY <1>4, <3>2
    <3> QED BY <1>3, <3>3, <3>4, <3>5 DEF PipesSound, api
  <2> QED BY <2>1, <2>2, <2>3
<1> QED BY <1>3, <1>4, <1>6, <1>7, QuietTold DEF Sending

\* A step of pod w that keeps its memory: nothing but the point of its poll
\* changes, and that to none at which more is expected of it.
LEMMA PodGoesOn ==
  ASSUME ToldIInv, NEW w \in Pod, UNCHANGED <<drive, api, doc, refs, sent>>,
         \A v \in Pod \ {w} : poll'[v] = poll[v],
         \A v \in Pod : watcher'[v].pipes = watcher[v].pipes,
         poll[w].pc # "off", poll'[w].pc \in {"idle", "reset", "scan", "get", "polled", "reconcile"},
         poll'[w].mem = poll[w].mem, ~poll'[w].reconciling
  PROVE  ToldIInv'
<1>1. Overtaken(w)' /\ Noting(w)' /\ DraftSound(w)' /\ MissingSound(w)'
  BY DEF ToldIInv, PodsSound, Overtaken, IfMatch, Noting, DraftSound, MissingSound
<1>2. PipesSound'
  <2>1. \A v \in Pod : poll'[v].pc = "off" <=> poll[v].pc = "off"
    OBVIOUS
  <2>2. Heard' = Heard
    BY DEF Heard
  <2> QED BY <2>1, <2>2, PipesRest DEF ToldIInv, api
<1> QED BY <1>1, <1>2, QuietTold DEF Sending

\* UpdatePipelines: the pod hears of all that are active.
LEMMA UpdateTold ==
  ASSUME IInv, ToldIInv, NEW w \in Pod, UpdatePipelines(w)
  PROVE  ToldIInv'
<1>1. UNCHANGED <<drive, api, doc, refs, sent, poll>> /\ Heard' = Heard /\ Steady' = Steady
  BY DEF UpdatePipelines, Heard, Steady, api
<1>2. watcher'[w].pipes = active /\ \A v \in Pod \ {w} : watcher'[v] = watcher[v]
  <2>1. watcher \in [Pod -> Watcher]
    BY DEF IInv, Typed
  <2> QED BY <2>1 DEF UpdatePipelines, Watcher
<1>3. PipesSound'
  BY <1>1, <1>2 DEF ToldIInv, PipesSound, Steady, api
<1>4. Overtaken(w)' /\ Noting(w)' /\ DraftSound(w)' /\ MissingSound(w)'
  <2>1. Overtaken(w) /\ Noting(w) /\ DraftSound(w) /\ MissingSound(w)
    BY DEF ToldIInv, PodsSound
  <2>2. Sending' = Sending /\ \A i \in Item : Noted(i)' = Noted(i)
    BY <1>1 DEF Sending, Noted, Pending
  <2> QED BY <1>1, <2>1, <2>2, PodRests DEF Sending
<1> QED BY <1>1, <1>3, <1>4, QuietTold DEF Sending

\* Load, CheckReset and TokenExpired.
LEMMA GoesOnTold ==
  ASSUME IInv, ToldIInv, NEW w \in Pod, Load(w) \/ CheckReset(w) \/ TokenExpired(w)
  PROVE  ToldIInv'
<1>1. Typed /\ poll[w] \in Polling /\ watcher \in [Pod -> Watcher]
  BY DEF IInv, Typed
<1>2. UNCHANGED <<drive, api, doc, refs, sent>> /\ \A v \in Pod : watcher'[v].pipes = watcher[v].pipes
  <2>1. UNCHANGED <<drive, api, doc, refs, sent>>
    BY DEF Load, CheckReset, TokenExpired
  <2>2. \A v \in Pod : watcher'[v].pipes = watcher[v].pipes
    BY <1>1 DEF Load, CheckReset, TokenExpired, Watcher
  <2> QED BY <2>1, <2>2
<1>3. MissingSound(w) /\ ~poll[w].reconciling /\ poll[w].pc # "off"
  BY DEF ToldIInv, PodsSound, MissingSound, Load, CheckReset, TokenExpired
<1>4. CASE CheckReset(w) \/ TokenExpired(w)
  <2>1. /\ \A v \in Pod \ {w} : poll'[v] = poll[v]
        /\ poll'[w].pc \in {"scan", "get"} /\ poll'[w].mem = poll[w].mem /\ poll'[w].reconciling = poll[w].reconciling
    <3>1. CASE CheckReset(w)
      <4>1. PICK at \in {"scan", "get"} : poll' = [poll EXCEPT ![w].pc = at, ![w].fetching = TRUE]
        BY <3>1 DEF CheckReset
      <4> QED BY <1>1, <4>1 DEF Typed, Polling
    <3>2. CASE TokenExpired(w)
      BY <1>1, <3>2 DEF TokenExpired, Typed, Polling
    <3> QED BY <1>4, <3>1, <3>2
  <2> QED BY <1>2, <1>3, <2>1, PodGoesOn
<1>5. CASE Load(w)
  <2>1. /\ \A v \in Pod \ {w} : poll'[v] = poll[v]
        /\ poll'[w].pc \in {"publish", "reconcile", "reset"} /\ poll'[w].mem = doc
        /\ poll'[w].reconciling = poll[w].reconciling
    <3>1. PICK at \in {"publish", "reconcile", "reset"} : poll' = [poll EXCEPT ![w].mem = doc, ![w].pc = at]
      BY <1>5 DEF Load
    <3> QED BY <1>1, <3>1 DEF Typed, Polling
  <2>2. Overtaken(w)' /\ Noting(w)' /\ DraftSound(w)' /\ MissingSound(w)'
    BY <1>2, <1>3, <2>1 DEF Overtaken, IfMatch, Noting, DraftSound, MissingSound
  <2>3. PipesSound'
    <3>1. \A v \in Pod : poll'[v].pc = "off" <=> poll[v].pc = "off"
      BY <1>3, <2>1
    <3>2. Heard' = Heard
      BY <1>2 DEF Heard
    <3> QED BY <1>2, <3>1, <3>2, PipesRest DEF ToldIInv, api
  <2> QED BY <1>2, <2>1, <2>2, <2>3, QuietTold DEF Sending
<1> QED BY <1>4, <1>5

\* Publish and PublishPart: what is sent is in the outbox, or was sent before.
LEMMA PublishTold ==
  ASSUME IInv, ToldIInv, NEW w \in Pod, Publish(w) \/ PublishPart(w)
  PROVE  ToldIInv'
<1>1. Typed /\ poll[w] \in Polling /\ poll[w].mem.page.pending /\ poll[w].pc # "off"
  BY DEF IInv, Typed, Phases, Phase, Publish, PublishPart
<1>2. UNCHANGED <<drive, api, doc, refs, watcher>> /\ sent \subseteq sent'
  BY DEF Publish, PublishPart
<1>3. BuildMessages(poll[w].mem.page, poll[w].mem.rev) \subseteq Sending
  <2>1. CASE IfMatch(w)
    <3>1. poll[w].mem = doc
      BY <2>1, MatchProperties
    <3> QED BY <1>1, <3>1 DEF Sending
  <2>2. CASE ~IfMatch(w)
    BY <1>1, <2>2 DEF ToldIInv, PodsSound, Overtaken, Sending
  <2> QED BY <2>1, <2>2
<1>4. sent' \subseteq Sending
  BY <1>3 DEF Publish, PublishPart, Sending
<1>5. Heard' \subseteq Heard
  BY <1>2, <1>4, MessagesHeard DEF Heard
<1>6. Overtaken(w) /\ MissingSound(w)
  BY DEF ToldIInv, PodsSound
<1>7. CASE Publish(w)
  <2>1. /\ \A v \in Pod \ {w} : poll'[v] = poll[v]
        /\ poll'[w].mem = poll[w].mem /\ poll'[w].pc = "refs" /\ poll'[w].todo = poll[w].mem.page.changes
        /\ poll'[w].reconciling = poll[w].reconciling /\ poll'[w].missing = poll[w].missing
    BY <1>1, <1>7 DEF Publish, Typed, Polling
  <2>2. Overtaken(w)' /\ DraftSound(w)'
    BY <1>2, <1>6, <2>1 DEF Overtaken, IfMatch, DraftSound
  <2>3. Noting(w)'
    <3> SUFFICES ASSUME IfMatch(w) PROVE poll'[w].todo = doc.page.changes
      BY <1>2, <2>1 DEF Noting, IfMatch
    <3> QED BY <2>1, MatchProperties
  <2>4. MissingSound(w)'
    BY <1>2, <1>6, <1>7, <2>1, ZenonT(60) DEF MissingSound, IfMatch, Noted, Pending, Publish
  <2>5. PipesSound'
    <3>1. \A v \in Pod : poll'[v].pc = "off" <=> poll[v].pc = "off"
      BY <1>1, <2>1
    <3> QED BY <1>2, <1>5, <3>1, PipesRest DEF ToldIInv, api
  <2> QED BY <1>2, <1>4, <2>1, <2>2, <2>3, <2>4, <2>5, QuietTold
<1>8. CASE PublishPart(w)
  <2>1. poll'[w] = NotPolling("idle") /\ \A v \in Pod \ {w} : poll'[v] = poll[v]
    BY <1>1, <1>8 DEF PublishPart, Typed
  <2>2. poll'[w].pc = "idle" /\ ~poll'[w].mem.page.pending /\ ~poll'[w].reconciling
    BY <2>1, ConstantTypes DEF NotPolling
  <2>3. Overtaken(w)' /\ Noting(w)' /\ DraftSound(w)' /\ MissingSound(w)'
    BY <2>2 DEF Overtaken, Noting, DraftSound, MissingSound
  <2>4. PipesSound'
    <3>1. \A v \in Pod : poll'[v].pc = "off" <=> poll[v].pc = "off"
      BY <1>1, <2>1, <2>2
    <3> QED BY <1>2, <1>5, <3>1, PipesRest DEF ToldIInv, api
  <2> QED BY <1>2, <1>4, <2>1, <2>3, <2>4, QuietTold
<1> QED BY <1>7, <1>8

\* What Graph reports is there, or was.
LEMMA RemainingExist ==
  ASSUME IInv, NEW w \in Pod, GetPage(w)
  PROVE  Remaining(poll[w].mem.url) \subseteq Existing
<1> DEFINE url == poll[w].mem.url
<1>1. Typed
  BY DEF IInv
<1>2. url \in Url /\ url.kind \in {"start", "more", "delta"} /\ url.left \subseteq Existing
  BY <1>1 DEF IInv, AllSane, Sane, Phases, Phase, GetPage, Typed, Polling, State, Url
<1>3. \A i \in Item : drive[i].at > url.at => drive[i].is # "absent"
  BY <1>1, <1>2, WatcherAssumption DEF Typed, Url
<1>4. CASE url.kind = "start"
  BY <1>4 DEF Remaining, Existing
<1>5. CASE url.kind = "delta"
  BY <1>3, <1>5 DEF Remaining, Existing
<1>6. CASE url.kind = "more"
  BY <1>2, <1>6 DEF Remaining
<1> QED BY <1>2, <1>4, <1>5, <1>6

\* GetPage: what the pod has read.
LEMMA PageRead ==
  ASSUME IInv, NEW w \in Pod, GetPage(w)
  PROVE  \E items \in SUBSET Remaining(poll[w].mem.url) :
            LET rest == Remaining(poll[w].mem.url) \ items
                next == poll'[w]
            IN  /\ next.mem = poll[w].mem /\ next.pc = "stage" /\ next.reconciling = poll[w].reconciling
                /\ next.draft.changes = UNION {ParseChanges(i) : i \in items} /\ ~next.draft.ends
                /\ next.draft.next.at = Since(poll[w].mem.url) /\ next.draft.next.left = rest
                /\ next.draft.next.kind = (IF rest = {} THEN "delta" ELSE "more")
                /\ \A v \in Pod \ {w} : poll'[v] = poll[v]
<1>1. poll \in [Pod -> Polling] /\ poll[w] \in Polling
  BY DEF IInv, Typed
<1> DEFINE url == poll[w].mem.url
<1>2. PICK items \in SUBSET Remaining(url) :
        LET rest == Remaining(url) \ items IN
        poll' = [poll EXCEPT
                    ![w].pc = "stage",
                    ![w].draft =
                        [NoPage EXCEPT
                            !.changes = UNION {ParseChanges(i) : i \in items},
                            !.next = [kind |-> IF rest = {} THEN "delta" ELSE "more",
                                      at |-> Since(url), left |-> rest],
                            !.isDelta = (rest = {})]]
  BY DEF GetPage
<1> DEFINE rest == Remaining(url) \ items
           changes == UNION {ParseChanges(i) : i \in items}
           link == [kind |-> IF rest = {} THEN "delta" ELSE "more", at |-> Since(url), left |-> rest]
           page == [NoPage EXCEPT !.changes = changes, !.next = link, !.isDelta = (rest = {})]
           next == [poll[w] EXCEPT !.pc = "stage", !.draft = page]
<1>3. link.at = Since(url) /\ link.left = rest /\ link.kind = (IF rest = {} THEN "delta" ELSE "more")
  OBVIOUS
<1> HIDE DEF link, changes
<1>4. page.changes = changes /\ page.next = link /\ ~page.ends
  BY DEF NoPage
<1> HIDE DEF page
<1>5. next.mem = poll[w].mem /\ next.pc = "stage" /\ next.draft = page /\ next.reconciling = poll[w].reconciling
  BY <1>1 DEF Polling
<1>6. poll' = [poll EXCEPT ![w] = next]
  BY <1>2 DEF page, link, changes
<1> HIDE DEF next
<1>7. poll'[w] = next /\ \A v \in Pod \ {w} : poll'[v] = poll[v]
  BY <1>1, <1>6
<1> QED BY <1>3, <1>4, <1>5, <1>7 DEF changes

\* Nothing behind the outbox hides: what a pod holds that may write and has no outbox.
LEMMA NothingPending ==
  ASSUME IInv, NEW w \in Pod, IfMatch(w), poll[w].pc \notin {"publish", "refs"}
  PROVE  /\ poll[w].mem = doc /\ ~doc.page.pending
         /\ Cursor = doc.url /\ Full = doc.full /\ Sending = sent /\ \A i \in Item : Noted(i) = refs[i]
<1>1. poll[w].mem = doc /\ ~doc.page.pending
  BY MatchProperties DEF IInv, Phases, Phase
<1>2. \A i \in Item : Pending(i) = {}
  BY <1>1 DEF Pending
<1>3. \A i \in Item : Noted(i) = refs[i]
  BY <1>2 DEF Noted
<1>4. Cursor = doc.url /\ Full = doc.full /\ Sending = sent
  BY <1>1, MatchProperties DEF Cursor, Full, Sending, State
<1> QED BY <1>1, <1>3, <1>4

\* Of an item without a reference, or with one of a deletion, nothing else was said last.
LEMMA GoneIsTold ==
  ASSUME IInv, RefsSound, NEW p \in Steady, NEW i \in Item, Noted(i).rev = 0 \/ Noted(i).deleted
  PROVE  \A m \in Sending : Last(Sending, p, i, m) => m.deleted
<1>1. RefTold(Sending, p, i, Noted(i)) /\ \A m \in Sending : m.rev > 0
  BY DEF RefsSound
<1> QED BY <1>1 DEF RefTold

\* GetPage: an item that is not on the page is on one to come, or was told before.
LEMMA GetPageTold ==
  ASSUME IInv, ToldIInv, NEW w \in Pod, GetPage(w)
  PROVE  ToldIInv'
<1>1. Typed /\ poll[w].pc = "get" /\ MissingSound(w) /\ Overtaken(w)
  BY DEF IInv, GetPage, ToldIInv, PodsSound
<1>2. UNCHANGED <<drive, api, doc, refs, sent, watcher>>
  BY DEF GetPage
<1> DEFINE url == poll[w].mem.url
           draft == poll'[w].draft
<1>3. PICK items \in SUBSET Remaining(url) :
        /\ poll'[w].mem = poll[w].mem /\ poll'[w].pc = "stage" /\ poll'[w].reconciling = poll[w].reconciling
        /\ draft.changes = UNION {ParseChanges(i) : i \in items} /\ ~draft.ends
        /\ draft.next.at = Since(url) /\ draft.next.left = Remaining(url) \ items
        /\ draft.next.kind = "delta" => draft.next.left = {}
        /\ \A v \in Pod \ {w} : poll'[v] = poll[v]
  BY PageRead
<1> HIDE DEF draft
<1>4. Overtaken(w)' /\ Noting(w)' /\ MissingSound(w)'
  BY <1>1, <1>2, <1>3 DEF Overtaken, IfMatch, Noting, MissingSound
<1>5. PipesSound'
  <2>1. \A v \in Pod : poll'[v].pc = "off" <=> poll[v].pc = "off"
    BY <1>1, <1>3
  <2>2. Heard' = Heard
    BY <1>2 DEF Heard
  <2> QED BY <1>2, <2>1, <2>2, PipesRest DEF ToldIInv, api
<1>6. DraftSound(w)'
  <2> SUFFICES ASSUME IfMatch(w) PROVE DraftSound(w)'
    BY <1>2, <1>3 DEF DraftSound, IfMatch
  <2>1. /\ url = doc.url /\ Cursor = url /\ Full = doc.full /\ Sending = sent
        /\ \A i \in Item : Noted(i) = refs[i]
    BY <1>1, NothingPending
  <2>2. url \in Url /\ url.kind \in {"start", "more", "delta"} /\ url.at \in Nat
    BY <1>1, <2>1, MatchProperties DEF IInv, Phases, Phase, Url
  <2> HIDE DEF url
  <2>3. /\ Sending' = Sending /\ Full' = Full /\ Clock' = Clock /\ Steady' = Steady
        /\ \A i \in Item : Noted(i)' = Noted(i)
    BY <1>2 DEF Sending, Full, Clock, Steady, Noted, Pending, api
  <2>4. Since(url) <= Clock /\ Clock \in Nat
    BY <1>1, <2>1, <2>2, ClockProperties, WatcherAssumption DEF ToldIInv, CursorSound, Since
  <2>5. items \subseteq Existing /\ \A i \in items : \A c \in ParseChanges(i) : c.item = i
    <3>1. items \subseteq Existing
      BY RemainingExist DEF url
    <3>2. \A i \in items : drive[i].is \in {"file", "unfit", "gone"}
      BY <1>1, <3>1 DEF Existing, Typed
    <3> QED BY <3>1, <3>2 DEF ParseChanges
  <2>6. ASSUME NEW p \in Steady \cap doc.pipes, NEW i \in Item,
               ~(drive[i].at > Since(url)), i \notin draft.next.left
        PROVE  \/ Shows(draft.changes, i, drive[i])
               \/ /\ \A c \in draft.changes : c.item # i
                  /\ Fine(Sending, p, i, drive[i], Noted(i), Full, doc.scan)
    <3>1. drive[i].is \in {"absent", "file", "unfit", "gone"} /\ drive[i].at \in Nat
          /\ (drive[i].is = "absent" => drive[i].at = 0) /\ refs[i].rev \in Nat
      BY <1>1, WatcherAssumption DEF Typed, Reference
    <3>2. CASE i \in items
      <4>1. ParseChanges(i) \subseteq draft.changes /\ \A c \in draft.changes : c.item = i => c \in ParseChanges(i)
        BY <1>3, <2>5, <3>2
      <4>2. CASE drive[i].is = "file"
        <5>1. [item |-> i, ver |-> drive[i].at, deleted |-> FALSE] \in draft.changes
          BY <4>1, <4>2 DEF ParseChanges
        <5> QED BY <4>2, <5>1 DEF Shows
      <4>3. CASE drive[i].is = "gone" \/ (drive[i].is = "unfit" /\ refs[i].rev > 0)
        <5>1. [item |-> i, ver |-> drive[i].at, deleted |-> TRUE] \in draft.changes
          BY <4>1, <4>3 DEF ParseChanges
        <5> QED BY <4>3, <5>1 DEF Shows
      <4>4. CASE drive[i].is = "unfit" /\ ~(refs[i].rev > 0)
        <5>1. \A c \in draft.changes : c.item # i
          BY <4>1, <4>4 DEF ParseChanges
        <5>2. Noted(i).rev = 0
          BY <2>1, <3>1, <4>4
        <5>3. \A m \in Sending : Last(Sending, p, i, m) => m.deleted
          BY <5>2, GoneIsTold DEF ToldIInv
        <5> QED BY <4>4, <5>1, <5>3 DEF Fine, Told
      <4>5. drive[i].is # "absent"
        BY <2>5, <3>2 DEF Existing
      <4> QED BY <3>1, <4>2, <4>3, <4>4, <4>5
    <3>3. CASE i \notin items
      <4>1. i \notin Remaining(url)
        BY <1>3, <2>6, <3>3
      <4>2. \A c \in draft.changes : c.item # i
        BY <1>3, <2>5, <3>3
      <4>3. Fine(Sending, p, i, drive[i], Noted(i), Full, doc.scan)
        <5>1. CASE url.kind = "start"
          <6>1. drive[i].is # "file"
            BY <4>1, <5>1 DEF Remaining
          <6>2. Full /\ Noted(i).scan < doc.scan
            BY <2>1, <5>1 DEF ToldIInv, CursorSound
          <6>3. CASE Noted(i).rev = 0 \/ Noted(i).deleted
            <7>1. \A m \in Sending : Last(Sending, p, i, m) => m.deleted
              BY <6>3, GoneIsTold DEF ToldIInv
            <7> QED BY <6>1, <7>1 DEF Fine, Told
          <6>4. CASE ~(Noted(i).rev = 0 \/ Noted(i).deleted)
            <7>1. Noted(i).rev > 0
              BY <2>1, <3>1, <6>4
            <7> QED BY <6>1, <6>2, <6>4, <7>1 DEF Fine, Unseen
          <6> QED BY <6>3, <6>4
        <5>2. CASE url.kind = "delta"
          <6>1. ~(drive[i].at > url.at)
            BY <4>1, <5>2 DEF Remaining
          <6>2. i \notin url.left
            BY <2>1, <5>2 DEF ToldIInv, CursorSound
          <6> QED BY <2>1, <5>2, <6>1, <6>2 DEF ToldIInv, AllFine
        <5>3. CASE url.kind = "more"
          <6>1. ~(drive[i].at > url.at)
            BY <2>6, <5>3 DEF Since
          <6>2. i \notin url.left
            BY <4>1, <5>3 DEF Remaining
          <6> QED BY <2>1, <5>3, <6>1, <6>2 DEF ToldIInv, AllFine
        <5> QED BY <2>2, <5>1, <5>2, <5>3
      <4> QED BY <4>2, <4>3
    <3> QED BY <3>2, <3>3
  <2>7. \A p \in Steady' \cap doc'.pipes, i \in Item :
            \/ drive'[i].at > draft.next.at
            \/ i \in draft.next.left
            \/ Shows(draft.changes, i, drive'[i])
            \/ /\ \A c \in draft.changes : c.item # i
               /\ Fine(Sending', p, i, drive'[i], Noted(i)', Full', doc'.scan)
    <3>1. \A p \in Steady \cap doc.pipes, i \in Item :
              \/ drive[i].at > draft.next.at
              \/ i \in draft.next.left
              \/ Shows(draft.changes, i, drive[i])
              \/ /\ \A c \in draft.changes : c.item # i
                 /\ Fine(Sending, p, i, drive[i], Noted(i), Full, doc.scan)
      BY <1>3, <2>6
    <3>2. drive' = drive /\ doc' = doc
      BY <1>2
    <3> QED BY <2>3, <3>1, <3>2
  <2>8. ~draft.ends /\ draft.next.at <= Clock' /\ (draft.next.kind = "delta" => draft.next.left = {})
    BY <1>3, <2>3, <2>4
  <2> QED BY <2>7, <2>8 DEF DraftSound, draft
<1> QED BY <1>2, <1>3, <1>4, <1>5, <1>6, QuietTold DEF Sending

\* FindMissing: the items that the scan did not see are those without a reference from it.
LEMMA FindMissingTold ==
  ASSUME IInv, ToldIInv, NEW w \in Pod, FindMissing(w)
  PROVE  ToldIInv'
<1>1. Typed /\ poll[w].pc = "reconcile" /\ Overtaken(w)
  BY DEF IInv, FindMissing, ToldIInv, PodsSound
<1>2. UNCHANGED <<drive, api, doc, refs, sent, watcher>>
  BY DEF FindMissing
<1>3. /\ poll'[w].mem = poll[w].mem /\ poll'[w].pc = "batch" /\ poll'[w].missing = NotSeen(w) /\ poll'[w].reconciling
      /\ \A v \in Pod \ {w} : poll'[v] = poll[v]
  BY <1>1 DEF FindMissing, Typed, Polling
<1>4. Overtaken(w)' /\ Noting(w)' /\ DraftSound(w)'
  BY <1>1, <1>2, <1>3 DEF Overtaken, IfMatch, Noting, DraftSound
<1>5. MissingSound(w)'
  <2> SUFFICES ASSUME IfMatch(w), NEW i \in Item
               PROVE  /\ Unseen(Noted(i)', doc.scan) => i \in NotSeen(w)
                      /\ i \in NotSeen(w) => Noted(i)'.scan < doc.scan
    BY <1>2, <1>3 DEF MissingSound, IfMatch
  <2>1. poll[w].mem = doc /\ Noted(i) = refs[i]
    BY <1>1, NothingPending
  <2>2. Noted(i)' = Noted(i)
    BY <1>2 DEF Noted, Pending
  <2> QED BY <2>1, <2>2 DEF NotSeen, Unseen
<1>6. PipesSound'
  <2>1. \A v \in Pod : poll'[v].pc = "off" <=> poll[v].pc = "off"
    BY <1>1, <1>3
  <2>2. Heard' = Heard
    BY <1>2 DEF Heard
  <2> QED BY <1>2, <2>1, <2>2, PipesRest DEF ToldIInv, api
<1> QED BY <1>2, <1>3, <1>4, <1>5, <1>6, QuietTold DEF Sending

\* PersistReference: references get what is noted of the items of the outbox
\* already; a pod that was overtaken finds a newer one, or the same.
LEMMA PersistReferenceTold ==
  ASSUME IInv, ToldIInv, NEW w \in Pod, PersistReference(w)
  PROVE  ToldIInv'
<1>1. Typed /\ poll[w].pc = "refs" /\ poll[w].mem.page.pending /\ poll[w].todo \subseteq poll[w].mem.page.changes
  BY DEF IInv, Phases, Phase, PersistReference
<1>2. UNCHANGED <<drive, api, doc, sent, watcher>>
  BY DEF PersistReference
<1>3. PICK c \in poll[w].todo :
        /\ refs' = IF NewerRef(w, c.item) THEN refs ELSE [refs EXCEPT ![c.item] = RefOf(poll[w].mem, c)]
        /\ poll' = [poll EXCEPT ![w].todo = @ \ {c}]
  BY DEF PersistReference, RefOf
<1>4. /\ poll'[w].mem = poll[w].mem /\ poll'[w].pc = "refs" /\ poll'[w].todo = poll[w].todo \ {c}
      /\ poll'[w].reconciling = poll[w].reconciling /\ poll'[w].missing = poll[w].missing
      /\ \A v \in Pod \ {w} : poll'[v] = poll[v]
  BY <1>1, <1>3 DEF Typed, Polling
<1>5. c \in ItemChange /\ c \in poll[w].mem.page.changes /\ c.item \in Item /\ refs \in [Item -> Reference]
  BY <1>1, <1>3 DEF Typed, Polling, ItemChange
<1>6. \A v \in Pod : IfMatch(v)' <=> IfMatch(v)
  BY <1>2, <1>4 DEF IfMatch
<1>7. PipesSound'
  <2>1. \A v \in Pod : poll'[v].pc = "off" <=> poll[v].pc = "off"
    BY <1>1, <1>4
  <2>2. Heard' = Heard
    BY <1>2 DEF Heard
  <2> QED BY <1>2, <2>1, <2>2, PipesRest DEF ToldIInv, api
<1>8. ASSUME NEW v \in Pod PROVE Overtaken(v) /\ Noting(v) /\ MissingSound(v)
  BY DEF ToldIInv, PodsSound
<1>9. CASE ~IfMatch(w)
  <2>1. refs' = refs
    <3>1. refs[c.item].rev > poll[w].mem.rev \/ refs[c.item] = RefOf(poll[w].mem, c)
      BY <1>1, <1>5, <1>8, <1>9 DEF Overtaken
    <3>2. CASE NewerRef(w, c.item)
      BY <1>3, <3>2
    <3>3. CASE ~NewerRef(w, c.item)
      <4>1. refs[c.item] = RefOf(poll[w].mem, c)
        BY <3>1, <3>3 DEF NewerRef
      <4> QED BY <1>3, <1>5, <3>3, <4>1
    <3> QED BY <3>2, <3>3
  <2>2. Overtaken(w)'
    BY <1>2, <1>4, <1>6, <1>8, <2>1 DEF Overtaken
  <2>3. Noting(w)' /\ DraftSound(w)' /\ MissingSound(w)'
    BY <1>4, <1>6, <1>8, <1>9 DEF Noting, DraftSound, MissingSound
  <2> QED BY <1>2, <1>4, <1>7, <2>1, <2>2, <2>3, QuietTold DEF Sending
<1>10. CASE IfMatch(w)
  <2>1. poll[w].mem = doc /\ doc.page.pending /\ c \in doc.page.changes /\ OneChangeEach(doc.page.changes) /\ doc.rev \in Nat
    BY <1>1, <1>5, <1>10, MatchProperties DEF Sane
  <2>2. refs' = [refs EXCEPT ![c.item] = RefOf(doc, c)]
    <3>1. refs[c.item].rev <= doc.rev /\ refs[c.item].rev \in Nat
      BY <1>5 DEF IInv, Memory, Reference
    <3>2. ~NewerRef(w, c.item)
      BY <2>1, <3>1 DEF NewerRef
    <3> QED BY <1>3, <2>1, <3>2
  <2>3. refs'[c.item] = RefOf(doc, c) /\ \A i \in Item \ {c.item} : refs'[i] = refs[i]
    BY <1>5, <2>2
  <2>4. \A i \in Item : Noted(i)' = Noted(i)
    <3>1. \A i \in Item : Pending(i)' = Pending(i)
      BY <1>2 DEF Pending
    <3>2. \A i \in Item : Pending(i) = {} => i # c.item
      BY <2>1 DEF Pending
    <3> QED BY <1>2, <2>3, <3>1, <3>2 DEF Noted
  <2>5. Sending' = Sending /\ Cursor' = Cursor /\ Full' = Full /\ Steady' = Steady
    BY <1>2 DEF Sending, Cursor, Full, Steady, api
  <2>6. RefsSound' /\ CursorSound' /\ AllFine'
    BY <1>2, <2>4, <2>5, SameBehind DEF ToldIInv
  <2>7. ASSUME NEW v \in Pod PROVE Overtaken(v)'
    <3> SUFFICES ASSUME poll[v].mem.page.pending, ~IfMatch(v) PROVE Overtaken(v)'
      BY <1>4, <1>6 DEF Overtaken
    <3>1. v # w /\ poll'[v] = poll[v]
      BY <1>4, <1>10
    <3>2. /\ BuildMessages(poll[v].mem.page, poll[v].mem.rev) \subseteq sent /\ poll[v].mem.rev < doc.rev
          /\ \A e \in poll[v].mem.page.changes :
                refs[e.item].rev > poll[v].mem.rev \/ refs[e.item] = RefOf(poll[v].mem, e)
      BY <1>8, <2>1 DEF Overtaken
    <3>3. poll[v].mem.page.changes \subseteq ItemChange
      BY <1>1 DEF Typed, Polling, State, Page
    <3>4. ASSUME NEW e \in poll[v].mem.page.changes
          PROVE  refs'[e.item].rev > poll[v].mem.rev \/ refs'[e.item] = RefOf(poll[v].mem, e)
      <4>1. CASE e.item = c.item
        <5>1. refs'[e.item].rev = doc.rev /\ poll[v].mem.rev \in Nat
          BY <1>1, <2>3, <4>1 DEF RefOf, Typed, Polling, State
        <5> QED BY <2>1, <3>2, <5>1
      <4>2. CASE e.item # c.item
        BY <2>3, <3>2, <3>3, <4>2 DEF ItemChange
      <4> QED BY <4>1, <4>2
    <3> QED BY <1>2, <3>1, <3>2, <3>4 DEF Overtaken
  <2>8. ASSUME NEW v \in Pod PROVE Noting(v)'
    <3> SUFFICES ASSUME poll'[v].pc = "refs", IfMatch(v), NEW e \in doc.page.changes \ poll'[v].todo
                 PROVE  refs'[e.item] = RefOf(doc, e)
      BY <1>2, <1>6 DEF Noting
    <3>1. CASE e = c
      BY <2>3, <3>1
    <3>2. CASE e # c
      <4>1. e \notin poll[v].todo /\ poll[v].pc = "refs"
        BY <1>1, <1>4, <3>2
      <4>2. refs[e.item] = RefOf(doc, e)
        BY <1>8, <4>1 DEF Noting
      <4>3. e.item \in Item /\ e.item # c.item
        BY <1>1, <2>1, <3>2 DEF OneChangeEach, Typed, State, Page, ItemChange
      <4> QED BY <2>3, <4>2, <4>3
    <3> QED BY <3>1, <3>2
  <2>9. ASSUME NEW v \in Pod PROVE DraftSound(v)'
    <3>1. poll[v].pc = "stage" => ~IfMatch(v)
      BY <2>1, NothingPending
    <3> QED BY <1>1, <1>4, <1>6, <3>1 DEF DraftSound
  <2>10. ASSUME NEW v \in Pod PROVE MissingSound(v)'
    BY <1>1, <1>2, <1>4, <1>6, <1>8, <2>4 DEF MissingSound
  <2>11. PodsSound'
    BY <2>7, <2>8, <2>9, <2>10 DEF PodsSound
  <2> QED BY <1>7, <2>6, <2>11 DEF ToldIInv
<1> QED BY <1>9, <1>10

-----------------------------------------------------------------------------
(* The writes of the state document.                                        *)

\* Every other pod is overtaken by a write; the page it may have in memory is through.
LEMMA OthersTold ==
  ASSUME IInv, ToldIInv, NEW w \in Pod, UNCHANGED <<refs, sent>>, doc'.etag = doc.etag + 1,
         doc'.page.pending => doc'.rev = doc.rev + 1,
         doc.page.pending => /\ BuildMessages(doc.page, doc.rev) \subseteq sent
                             /\ \A c \in doc.page.changes : refs[c.item] = RefOf(doc, c),
         NEW v \in Pod, poll'[v] = poll[v]
  PROVE  Overtaken(v)' /\ Noting(v)' /\ DraftSound(v)' /\ MissingSound(v)'
<1>1. Typed /\ poll[v].mem.etag <= doc.etag /\ poll[v].mem.rev <= doc.rev /\ Overtaken(v) /\ MissingSound(v)
  BY DEF IInv, Memory, ToldIInv, PodsSound
<1>2. doc.etag \in Nat /\ doc.rev \in Nat /\ poll[v].mem.etag \in Nat /\ poll[v].mem.rev \in Nat
  BY <1>1 DEF Typed, State, Polling
<1>3. ~IfMatch(v)'
  BY <1>1, <1>2 DEF IfMatch
<1>4. Noting(v)' /\ DraftSound(v)' /\ MissingSound(v)'
  BY <1>1, <1>3 DEF Noting, DraftSound, MissingSound
<1>5. Overtaken(v)'
  <2>1. doc'.page.pending => poll[v].mem.rev < doc'.rev
    BY <1>1, <1>2
  <2>2. CASE IfMatch(v)
    <3>1. poll[v].mem = doc
      BY <2>2, MatchProperties
    <3> QED BY <2>1, <3>1 DEF Overtaken
  <2>3. CASE ~IfMatch(v)
    BY <1>1, <2>1, <2>3 DEF Overtaken
  <2> QED BY <2>2, <2>3
<1> QED BY <1>4, <1>5

\* Commit: the page is through, nothing changes behind the outbox.
LEMMA CommitTold ==
  ASSUME IInv, ToldIInv, NEW w \in Pod, Commit(w)
  PROVE  ToldIInv'
<1>1. IfMatch(w) /\ PersistDeltaUrl(w, Flushed(poll[w].mem), AfterFlush(w)) /\ poll[w].pc = "refs" /\ poll[w].todo = {}
  BY DEF Commit, PersistDeltaUrl
<1>2. UNCHANGED <<drive, api, refs, sent, watcher>>
  BY DEF Commit
<1>3. /\ Typed /\ poll[w].mem = doc /\ doc \in State /\ Sane(doc) /\ doc.page \in Page
      /\ doc.rev \in Nat /\ doc.scan \in Nat
  BY <1>1, MatchProperties
<1>4. doc.page.pending /\ BuildMessages(doc.page, doc.rev) \subseteq sent
  BY <1>1, <1>3 DEF IInv, Phases, Phase
<1>5. \A c \in doc.page.changes : refs[c.item] = RefOf(doc, c)
  BY <1>1 DEF ToldIInv, PodsSound, Noting
<1> DEFINE new == Flushed(poll[w].mem)
           at == AfterFlush(w)
<1>6. /\ new \in State /\ new.rev = doc.rev /\ new.scan = doc.scan /\ new.pipes = doc.pipes
      /\ new.page = NoPage /\ new.url = doc.page.next /\ (new.full <=> doc.full /\ ~doc.page.ends)
  <2>1. (doc.full /\ ~doc.page.ends) \in BOOLEAN
        /\ (~doc.page.ends /\ (doc.reconcile \/ (doc.page.isDelta /\ doc.full))) \in BOOLEAN
    OBVIOUS
  <2> QED BY <1>3, <2>1, ConstantTypes, ZenonT(60) DEF Flushed, State, Page
<1>7. /\ at \in {"batch", "reconcile", "reset", "polled", "get"}
      /\ at = "batch" <=> poll[w].reconciling /\ new.reconcile
  BY DEF AfterFlush
<1> HIDE DEF new, at
<1>8. /\ doc'.etag = doc.etag + 1 /\ doc'.url = new.url /\ doc'.rev = new.rev /\ doc'.scan = new.scan
      /\ doc'.page = new.page /\ doc'.full = new.full /\ doc'.pipes = new.pipes
      /\ \A v \in Pod \ {w} : poll'[v] = poll[v]
      /\ poll'[w].mem = doc' /\ poll'[w].pc = at
      /\ poll'[w].missing = poll[w].missing /\ (poll'[w].reconciling <=> poll[w].reconciling /\ new.reconcile)
  <2>1. at \in PC
    BY <1>7 DEF PC
  <2> QED BY <1>1, <1>3, <1>6, <2>1, PersistProperties DEF new, at
<1>9. ~doc'.page.pending /\ doc'.page.pipes = {}
  BY <1>6, <1>8, ConstantTypes DEF NoPage
<1>10. Sending' = Sending /\ Cursor' = Cursor /\ Steady' = Steady
  BY <1>2, <1>4, <1>6, <1>8, <1>9 DEF Sending, Cursor, Steady, api
<1>11. Full' = Full
  BY <1>4, <1>6, <1>8, <1>9 DEF Full
<1>12. ASSUME NEW i \in Item PROVE Noted(i)' = Noted(i)
  <2>1. Noted(i)' = refs[i]
    BY <1>2, <1>9 DEF Noted, Pending
  <2>2. CASE Pending(i) = {}
    BY <2>1, <2>2 DEF Noted
  <2>3. CASE Pending(i) # {}
    <3>1. PICK c \in doc.page.changes : c.item = i /\ c \in Pending(i)
      BY <2>3 DEF Pending
    <3>2. \A e \in Pending(i) : e = c
      BY <1>3, <3>1 DEF Pending, Sane, OneChangeEach
    <3>3. c.deleted \in BOOLEAN
      BY <1>3 DEF Page, ItemChange
    <3>4. (\E e \in Pending(i) : e.deleted) = c.deleted
      BY <3>1, <3>2, <3>3
    <3> QED BY <1>5, <2>1, <2>3, <3>1, <3>4 DEF Noted, RefOf
  <2> QED BY <2>2, <2>3
<1>13. RefsSound' /\ CursorSound' /\ AllFine'
  BY <1>2, <1>6, <1>8, <1>10, <1>11, <1>12, SameBehind DEF ToldIInv
<1>14. PipesSound'
  <2>1. \A v \in Pod : poll'[v].pc = "off" <=> poll[v].pc = "off"
    BY <1>1, <1>7, <1>8
  <2>2. Heard' \subseteq Heard
    BY <1>2, <1>6, <1>8, <1>9 DEF Heard
  <2> QED BY <1>2, <2>1, <2>2, PipesRest DEF ToldIInv, api
<1>15. Overtaken(w)' /\ Noting(w)' /\ DraftSound(w)'
  BY <1>7, <1>8 DEF Overtaken, IfMatch, Noting, DraftSound
<1>16. MissingSound(w)'
  <2>1. MissingSound(w)
    BY DEF ToldIInv, PodsSound
  <2> QED BY <1>1, <1>6, <1>7, <1>8, <1>12, <2>1 DEF MissingSound
<1>17. PodsSound'
  <2>1. ASSUME NEW v \in Pod, v # w PROVE Overtaken(v)' /\ Noting(v)' /\ DraftSound(v)' /\ MissingSound(v)'
    BY <1>2, <1>4, <1>5, <1>8, <1>9, <2>1, OthersTold
  <2> QED BY <1>15, <1>16, <2>1 DEF PodsSound
<1> QED BY <1>13, <1>14, <1>17 DEF ToldIInv

\* A pod that runs makes pipelines heard of: those that it knows.
LEMMA PipesGrow ==
  ASSUME PipesSound, NEW w \in Pod, poll[w].pc # "off", UNCHANGED <<api, watcher>>,
         Heard' \subseteq Heard \union watcher[w].pipes,
         \A v \in Pod : poll'[v].pc = "off" <=> poll[v].pc = "off"
  PROVE  PipesSound'
<1>1. active' = active /\ interrupted' = interrupted /\ scope' = scope /\ Steady' = Steady /\ watcher' = watcher
  BY DEF api, Steady
<1>2. ASSUME NEW p \in Pipe \ interrupted, p \notin active
      PROVE  p \notin Heard' /\ \A v \in Pod : p \notin watcher[v].pipes
  BY <1>2 DEF PipesSound
<1>3. ASSUME NEW p \in Steady, NEW v \in Pod, poll[v].pc # "off"
      PROVE  p \in watcher[v].pipes \/ (scope.pods <= 1 /\ p \notin Heard')
  <2>1. p \in watcher[v].pipes \/ (scope.pods <= 1 /\ p \notin Heard)
    BY <1>3 DEF PipesSound
  <2>2. scope.pods <= 1 => v = w
    BY <1>3 DEF PipesSound
  <2> QED BY <2>1, <2>2
<1> QED BY <1>1, <1>2, <1>3 DEF PipesSound

\* StartScan: an enumeration is yet to report everything, under a new revision.
LEMMA StartScanTold ==
  ASSUME IInv, ToldIInv, NEW w \in Pod, StartScan(w)
  PROVE  ToldIInv'
<1>1. IfMatch(w) /\ PersistDeltaUrl(w, Scanning(w), "get") /\ poll[w].pc = "scan"
  BY DEF StartScan, PersistDeltaUrl
<1>2. UNCHANGED <<drive, api, refs, sent, watcher>>
  BY DEF StartScan
<1>3. /\ Typed /\ poll[w].mem = doc /\ doc \in State /\ Sane(doc)
      /\ watcher[w].pipes \in SUBSET Pipe /\ watcher[w].gen \in Nat /\ doc.rev \in Nat /\ doc.scan \in Nat
  BY <1>1, MatchProperties
<1>4. ~doc.page.pending /\ Sending = sent /\ \A i \in Item : Noted(i) = refs[i]
  BY <1>1, NothingPending
<1> DEFINE new == Scanning(w)
<1>5. /\ new \in State /\ new.rev = doc.rev + 1 /\ new.scan = doc.rev + 1 /\ new.full /\ ~new.reconcile
      /\ new.page = doc.page /\ new.url = BuildInitialDeltaUrl /\ new.pipes = watcher[w].pipes
  <2>0. PICK n \in Nat : n = doc.rev + 1
    BY <1>3
  <2> DEFINE some == [doc EXCEPT !.gen = watcher[w].gen, !.pipes = watcher[w].pipes]
             more == [some EXCEPT !.rev = n, !.scan = n]
  <2>1. some \in State /\ some.rev = doc.rev /\ some.page = doc.page /\ some.pipes = watcher[w].pipes
    BY <1>3 DEF State
  <2>2. new = [more EXCEPT !.full = TRUE, !.reconcile = FALSE, !.url = BuildInitialDeltaUrl]
    BY <1>3, <2>0, <2>1 DEF Scanning
  <2> HIDE DEF some
  <2>3. more \in State /\ more.rev = n /\ more.scan = n /\ more.page = doc.page /\ more.pipes = watcher[w].pipes
    BY <2>1 DEF State
  <2> HIDE DEF more
  <2> QED BY <2>0, <2>2, <2>3, ConstantTypes DEF State
<1> HIDE DEF new
<1>6. /\ doc'.etag = doc.etag + 1 /\ doc'.url = BuildInitialDeltaUrl /\ doc'.scan = doc.rev + 1
      /\ doc'.page = doc.page /\ doc'.full /\ doc'.pipes = watcher[w].pipes
      /\ \A v \in Pod \ {w} : poll'[v] = poll[v]
      /\ poll'[w].mem = doc' /\ poll'[w].pc = "get" /\ ~poll'[w].reconciling
  BY <1>1, <1>3, <1>5, PersistProperties DEF PC, new
<1>7. Sending' = Sending /\ Steady' = Steady /\ Cursor' = BuildInitialDeltaUrl /\ Full' /\ Clock' = Clock
  BY <1>2, <1>4, <1>6 DEF Sending, Steady, Cursor, Full, Clock, api
<1>8. ASSUME NEW i \in Item
      PROVE  /\ Noted(i)' = Noted(i) /\ Noted(i).scan < doc'.scan /\ Noted(i).scan <= doc'.scan
             /\ ~(Noted(i).rev > doc'.scan)
  <2>1. Noted(i)' = refs[i]
    <3>1. Pending(i)' = {}
      BY <1>4, <1>6 DEF Pending
    <3> QED BY <1>2, <3>1 DEF Noted
  <2>2. Noted(i).scan <= doc.scan /\ refs[i].scan \in Nat /\ refs[i].rev \in Nat /\ refs[i].rev <= doc.rev /\ doc.scan <= doc.rev
    BY <1>3 DEF ToldIInv, RefsSound, Typed, Reference, IInv, Memory, Sane
  <2> QED BY <1>3, <1>4, <1>6, <2>1, <2>2
<1>9. RefsSound'
  BY <1>7, <1>8 DEF ToldIInv, RefsSound
<1>10. CursorSound' /\ AllFine'
  <2>1. BuildInitialDeltaUrl.kind = "start" /\ BuildInitialDeltaUrl.at = 0 /\ BuildInitialDeltaUrl.left = {}
    BY DEF BuildInitialDeltaUrl, NoUrl
  <2>2. Clock \in Nat
    BY <1>3, ClockProperties, WatcherAssumption
  <2> QED BY <1>7, <1>8, <2>1, <2>2 DEF CursorSound, AllFine
<1>11. PipesSound'
  <2>1. \A v \in Pod : poll'[v].pc = "off" <=> poll[v].pc = "off"
    BY <1>1, <1>6
  <2>2. Heard' \subseteq Heard \union watcher[w].pipes
    BY <1>2, <1>6 DEF Heard
  <2> QED BY <1>1, <1>2, <2>1, <2>2, PipesGrow DEF ToldIInv
<1>12. PodsSound'
  <2>1. ASSUME NEW v \in Pod, v # w PROVE Overtaken(v)' /\ Noting(v)' /\ DraftSound(v)' /\ MissingSound(v)'
    BY <1>2, <1>4, <1>6, <2>1, OthersTold
  <2>2. Overtaken(w)' /\ Noting(w)' /\ DraftSound(w)' /\ MissingSound(w)'
    BY <1>6 DEF Overtaken, IfMatch, Noting, DraftSound, MissingSound
  <2> QED BY <2>1, <2>2 DEF PodsSound
<1> QED BY <1>9, <1>10, <1>11, <1>12 DEF ToldIInv

\* What StagePage and StageMissing have in common.
Stages(w) ==
    /\ IfMatch(w) /\ poll[w].pc \in {"stage", "batch"}
    /\ UNCHANGED <<drive, api, refs, sent, watcher>>
    /\ doc'.etag = doc.etag + 1 /\ doc'.rev = doc.rev + 1 /\ doc'.scan = doc.scan /\ doc'.pipes = doc.pipes
    /\ doc'.page.pending /\ doc'.page.pipes = watcher[w].pipes
    /\ \A v \in Pod \ {w} : poll'[v] = poll[v]
    /\ poll'[w].mem = doc' /\ poll'[w].pc = "publish"

\* Where nothing was pending, a page of a new revision is, for the pipelines of the pod.
LEMMA StagesPage ==
  ASSUME IInv, IInv', ToldIInv, NEW w \in Pod, Stages(w)
  PROVE  /\ doc'.rev \in Nat /\ \A m \in Sending : m.rev \in Nat /\ m.rev < doc'.rev
         /\ Sending' = Sending \union BuildMessages(doc'.page, doc'.rev) /\ Cursor' = doc'.page.next
         /\ OneChangeEach(doc'.page.changes) /\ \A c \in doc'.page.changes : c.item \in Item
         /\ \A p \in Steady : p \in Heard => p \in doc'.page.pipes
         /\ \A i \in Item : (\A c \in doc'.page.changes : c.item # i) => Noted(i)' = Noted(i)
         /\ \A i \in Item : \A c \in doc'.page.changes : c.item = i => Noted(i)' = RefOf(doc', c)
<1>1. Typed /\ Typed' /\ doc.rev \in Nat /\ Sending = sent /\ \A i \in Item : Noted(i) = refs[i]
  BY NothingPending DEF Stages, IInv, Typed, State
<1>2. doc'.rev \in Nat /\ \A m \in Sending : m.rev \in Nat /\ m.rev < doc'.rev
  <2>1. \A m \in sent : m.rev \in Nat /\ m.rev <= doc.rev
    BY <1>1, WatcherInvHolds DEF WatcherInv, OutboxFirst, Typed, Message
  <2> QED BY <1>1, <2>1 DEF Stages
<1>3. Sending' = Sending \union BuildMessages(doc'.page, doc'.rev) /\ Cursor' = doc'.page.next
  BY <1>1 DEF Stages, Sending, Cursor
<1>4. /\ OneChangeEach(doc'.page.changes)
      /\ \A c \in doc'.page.changes : c.item \in Item /\ c.deleted \in BOOLEAN
  <2>1. OneChangeEach(doc'.page.changes)
    BY DEF IInv, AllSane, Sane
  <2> QED BY <1>1, <2>1 DEF Typed, State, Page, ItemChange
<1>5. ASSUME NEW p \in Steady, p \in Heard PROVE p \in doc'.page.pipes
  <2>1. poll[w].pc # "off"
    BY DEF Stages
  <2> QED BY <1>5, <2>1 DEF Stages, ToldIInv, PipesSound
<1>6. ASSUME NEW i \in Item, \A c \in doc'.page.changes : c.item # i PROVE Noted(i)' = Noted(i)
  <2>1. Pending(i)' = {}
    BY <1>6 DEF Pending
  <2> QED BY <1>1, <2>1 DEF Noted, Stages
<1>7. ASSUME NEW i \in Item, NEW c \in doc'.page.changes, c.item = i PROVE Noted(i)' = RefOf(doc', c)
  <2>1. Pending(i)' = {c}
    BY <1>4, <1>7 DEF Pending, OneChangeEach, Stages
  <2>2. (\E e \in {c} : e.deleted) = c.deleted
    BY <1>4
  <2> QED BY <2>1, <2>2 DEF Noted, RefOf
<1> QED BY <1>2, <1>3, <1>4, <1>5, <1>6, <1>7

\* What is on the page is the last that its pipelines are told.
LEMMA StagesNew ==
  ASSUME IInv, IInv', ToldIInv, NEW w \in Pod, Stages(w), NEW p \in doc'.page.pipes, NEW i,
         NEW c \in doc'.page.changes, c.item = i
  PROVE  /\ \A m : Last(Sending', p, i, m) => m.rev = doc'.rev /\ m.ver = c.ver /\ m.deleted = c.deleted
         /\ \E m : Last(Sending', p, i, m)
<1> DEFINE T == Sending \union BuildMessages(doc'.page, doc'.rev)
<1>1. /\ doc'.rev \in Nat /\ \A m \in Sending : m.rev \in Nat /\ m.rev < doc'.rev
      /\ Sending' = T /\ OneChangeEach(doc'.page.changes)
  BY StagesPage
<1>2. /\ \A m : Last(T, p, c.item, m) => m.rev = doc'.rev /\ m.ver = c.ver /\ m.deleted = c.deleted
      /\ \E m : Last(T, p, c.item, m)
  BY <1>1, LastNew
<1> HIDE DEF T
<1> QED BY <1>1, <1>2

\* What staging a page keeps, whatever is on it.
LEMMA StagesTold ==
  ASSUME IInv, IInv', ToldIInv, NEW w \in Pod, Stages(w)
  PROVE  /\ PipesSound' /\ RefsSound'
         /\ \A v \in Pod \ {w} : Overtaken(v)' /\ Noting(v)' /\ DraftSound(v)' /\ MissingSound(v)'
         /\ Overtaken(w)' /\ Noting(w)' /\ DraftSound(w)'
<1> DEFINE R == doc'.rev
           page == doc'.page
<1>1. /\ R \in Nat /\ \A m \in Sending : m.rev \in Nat /\ m.rev < R
      /\ Sending' = Sending \union BuildMessages(page, R)
      /\ OneChangeEach(page.changes) /\ \A c \in page.changes : c.item \in Item
      /\ \A p \in Steady : p \in Heard => p \in page.pipes
      /\ \A i \in Item : (\A c \in page.changes : c.item # i) => Noted(i)' = Noted(i)
      /\ \A i \in Item : \A c \in page.changes : c.item = i => Noted(i)' = RefOf(doc', c)
  BY StagesPage
<1>2. ~doc.page.pending /\ doc.rev \in Nat /\ doc.scan \in Nat
  BY NothingPending, MatchProperties DEF Stages
<1>3. /\ UNCHANGED <<drive, api, refs, sent, watcher>> /\ doc'.etag = doc.etag + 1
      /\ R = doc.rev + 1 /\ doc'.scan = doc.scan /\ doc'.pipes = doc.pipes
      /\ page.pending /\ page.pipes = watcher[w].pipes /\ poll[w].pc \in {"stage", "batch"} /\ IfMatch(w)
      /\ \A v \in Pod \ {w} : poll'[v] = poll[v]
      /\ poll'[w].mem = doc' /\ poll'[w].pc = "publish"
  BY DEF Stages
<1>4. PipesSound'
  <2>1. \A v \in Pod : poll'[v].pc = "off" <=> poll[v].pc = "off"
    BY <1>3
  <2>2. Heard' \subseteq Heard \union watcher[w].pipes
    BY <1>3 DEF Heard
  <2> QED BY <1>3, <2>1, <2>2, PipesGrow DEF ToldIInv
<1> HIDE DEF R, page
<1>5. RefsSound'
  <2>1. \A m \in Sending' : m.rev > 0
    <3>1. \A m \in BuildMessages(page, R) : m.rev = R
      BY DEF BuildMessages
    <3> QED BY <1>1, <1>2, <1>3, <3>1 DEF ToldIInv, RefsSound
  <2>2. ASSUME NEW p \in Steady, NEW i \in Item PROVE RefTold(Sending', p, i, Noted(i)')
    <3>1. CASE \A c \in page.changes : c.item # i
      <4>1. \A m : Last(Sending', p, i, m) <=> Last(Sending, p, i, m)
        BY <1>1, <3>1, LastKept
      <4>2. RefTold(Sending, p, i, Noted(i)) /\ Noted(i)' = Noted(i)
        BY <1>1, <3>1 DEF ToldIInv, RefsSound
      <4>3. \A m : Last(Sending, p, i, m) => m \in Sending
        BY DEF Last
      <4> QED BY <4>1, <4>2, <4>3 DEF RefTold
    <3>2. CASE p \in page.pipes /\ \E c \in page.changes : c.item = i
      <4>1. PICK c \in page.changes : c.item = i
        BY <3>2
      <4>2. \A m : Last(Sending', p, i, m) => m.rev = R /\ m.deleted = c.deleted
        BY <3>2, <4>1, StagesNew DEF R, page
      <4>3. Noted(i)'.rev = R /\ Noted(i)'.deleted = c.deleted
        BY <1>1, <4>1 DEF RefOf, R
      <4> QED BY <4>2, <4>3 DEF RefTold
    <3>3. CASE p \notin page.pipes
      <4>1. \A m \in Sending : m.pipe # p
        BY <1>1, <3>3, MessagesHeard
      <4>2. \A m \in BuildMessages(page, R) : m.pipe # p
        BY <3>3 DEF BuildMessages
      <4> QED BY <1>1, <4>1, <4>2 DEF RefTold, Last
    <3> QED BY <3>1, <3>2, <3>3
  <2>3. ASSUME NEW i \in Item
        PROVE  Noted(i)'.scan <= doc'.scan /\ (Noted(i)'.rev > doc'.scan => Noted(i)'.scan = doc'.scan)
    <3>1. CASE \A c \in page.changes : c.item # i
      BY <1>1, <1>3, <3>1 DEF ToldIInv, RefsSound
    <3>2. CASE \E c \in page.changes : c.item = i
      <4>1. Noted(i)'.scan = doc'.scan
        BY <1>1, <3>2 DEF RefOf
      <4> QED BY <1>2, <1>3, <4>1
    <3> QED BY <3>1, <3>2
  <2>4. Steady' = Steady
    BY <1>3 DEF Steady, api
  <2> QED BY <2>1, <2>2, <2>3, <2>4 DEF RefsSound
<1>6. \A v \in Pod \ {w} : Overtaken(v)' /\ Noting(v)' /\ DraftSound(v)' /\ MissingSound(v)'
  BY <1>2, <1>3, OthersTold DEF R, page
<1>7. Overtaken(w)' /\ Noting(w)' /\ DraftSound(w)'
  BY <1>3 DEF Overtaken, IfMatch, Noting, DraftSound
<1> QED BY <1>4, <1>5, <1>6, <1>7

\* An item that is not on the page is as fine as it was.
LEMMA StagesFine ==
  ASSUME IInv, IInv', ToldIInv, NEW w \in Pod, Stages(w), NEW p, NEW i \in Item,
         \A c \in doc'.page.changes : c.item # i, NEW d, NEW full, NEW scan,
         Fine(Sending, p, i, d, Noted(i), full, scan)
  PROVE  Fine(Sending', p, i, d, Noted(i)', full, scan)
<1>1. /\ doc'.rev \in Nat /\ Sending' = Sending \union BuildMessages(doc'.page, doc'.rev)
      /\ Noted(i)' = Noted(i)
  BY StagesPage
<1>2. \A m : Last(Sending', p, i, m) <=> Last(Sending, p, i, m)
  BY <1>1, LastKept
<1> QED BY <1>1, <1>2, FineKept

\* An item that the page shows is told by it.
LEMMA StagesShows ==
  ASSUME IInv, IInv', ToldIInv, NEW w \in Pod, Stages(w), NEW p \in Steady \cap doc.pipes, NEW i \in Item,
         NEW d, NEW r, NEW full, Shows(doc'.page.changes, i, d)
  PROVE  Fine(Sending', p, i, d, r, full, doc.scan)
<1>1. p \in doc'.page.pipes
  <2>1. p \in Heard
    BY DEF Heard
  <2> QED BY <2>1, StagesPage
<1>2. PICK c \in doc'.page.changes : c.item = i /\ IF d.is = "file" THEN ~c.deleted /\ c.ver = d.at ELSE c.deleted
  BY DEF Shows
<1>3. /\ \A m : Last(Sending', p, i, m) => m.rev = doc'.rev /\ m.ver = c.ver /\ m.deleted = c.deleted
      /\ \E m : Last(Sending', p, i, m)
  BY <1>1, <1>2, StagesNew
<1>4. doc'.rev > doc.scan
  <2>1. IfMatch(w) /\ doc'.rev = doc.rev + 1
    BY DEF Stages
  <2>2. doc.scan <= doc.rev /\ doc.rev \in Nat /\ doc.scan \in Nat
    BY <2>1, MatchProperties DEF Sane
  <2> QED BY <2>1, <2>2
<1>5. Told(Sending', p, i, d, doc.scan)
  <2>1. CASE d.is = "file"
    <3>1. PICK m : Last(Sending', p, i, m)
      BY <1>3
    <3>2. m \in Sending' /\ ~m.deleted /\ m.ver = d.at /\ m.rev > doc.scan
      BY <1>2, <1>3, <1>4, <2>1, <3>1 DEF Last
    <3> QED BY <2>1, <3>1, <3>2 DEF Told
  <2>2. CASE d.is # "file"
    BY <1>2, <1>3, <2>2 DEF Told
  <2> QED BY <2>1, <2>2
<1> QED BY <1>5 DEF Fine

\* StagePage: what the page does not show, and no page to come will, was told before.
LEMMA StagePageTold ==
  ASSUME IInv, IInv', ToldIInv, NEW w \in Pod, StagePage(w)
  PROVE  ToldIInv'
<1>1. IfMatch(w) /\ PersistDeltaUrl(w, Staged(w, poll[w].draft), "publish") /\ poll[w].pc = "stage"
  BY DEF StagePage, PersistDeltaUrl
<1>2. UNCHANGED <<drive, api, refs, sent, watcher>>
  BY DEF StagePage
<1>3. /\ Typed /\ poll[w].mem = doc /\ doc \in State /\ watcher[w].pipes \in SUBSET Pipe
      /\ poll[w].draft \in Page /\ poll[w].draft.next.kind \in {"more", "delta"}
  BY <1>1, MatchProperties DEF Typed, Polling, IInv, Phases, Phase
<1> DEFINE page == [poll[w].draft EXCEPT !.pipes = watcher[w].pipes, !.pending = TRUE]
           new == Staged(w, poll[w].draft)
<1>4. /\ page \in Page /\ page.pending /\ page.next = poll[w].draft.next /\ page.changes = poll[w].draft.changes
      /\ page.pipes = watcher[w].pipes /\ page.ends = poll[w].draft.ends
  BY <1>3 DEF Page
<1>5. new = [doc EXCEPT !.rev = @ + 1, !.page = page]
  BY <1>3 DEF Staged
<1> HIDE DEF page, new
<1>6. /\ new \in State /\ new.rev = doc.rev + 1 /\ new.scan = doc.scan /\ new.page = page
      /\ new.full = doc.full /\ new.pipes = doc.pipes
  BY <1>3, <1>4, <1>5, NextRevision, ZenonT(60)
<1>7. /\ doc'.etag = doc.etag + 1 /\ doc'.rev = doc.rev + 1 /\ doc'.scan = doc.scan /\ doc'.page = page
      /\ doc'.full = doc.full /\ doc'.pipes = doc.pipes
      /\ \A v \in Pod \ {w} : poll'[v] = poll[v]
      /\ poll'[w].mem = doc' /\ poll'[w].pc = "publish"
      /\ poll'[w].reconciling => poll[w].reconciling
  BY <1>1, <1>3, <1>6, PersistProperties DEF PC, new
<1>8. Stages(w)
  BY <1>1, <1>2, <1>4, <1>7 DEF Stages
<1>9. DraftSound(w) /\ MissingSound(w)
  BY DEF ToldIInv, PodsSound
<1>10. /\ PipesSound' /\ RefsSound'
       /\ \A v \in Pod \ {w} : Overtaken(v)' /\ Noting(v)' /\ DraftSound(v)' /\ MissingSound(v)'
       /\ Overtaken(w)' /\ Noting(w)' /\ DraftSound(w)'
  BY <1>8, StagesTold
<1>11. /\ Cursor' = poll[w].draft.next /\ (Full' <=> Full) /\ Clock' = Clock /\ Steady' = Steady
       /\ Full = doc.full /\ Full \in BOOLEAN
  <2>1. ~poll[w].draft.ends
    BY <1>1, <1>9 DEF DraftSound
  <2>2. Full = doc.full /\ Full \in BOOLEAN
    BY <1>1, <1>3, NothingPending DEF State
  <2> QED BY <1>2, <1>4, <1>7, <2>1, <2>2, ZenonT(60) DEF Cursor, Full, Clock, Steady, api
<1>12. CursorSound'
  BY <1>1, <1>3, <1>9, <1>11 DEF CursorSound, DraftSound
<1>13. AllFine'
  <2>1. ASSUME NEW p \in Steady \cap doc.pipes, NEW i \in Item,
               ~(drive[i].at > poll[w].draft.next.at), i \notin poll[w].draft.next.left
        PROVE  Fine(Sending', p, i, drive[i], Noted(i)', Full, doc.scan)
    <3>1. CASE Shows(poll[w].draft.changes, i, drive[i])
      BY <1>4, <1>7, <1>8, <3>1, StagesShows
    <3>2. CASE /\ \A c \in poll[w].draft.changes : c.item # i
               /\ Fine(Sending, p, i, drive[i], Noted(i), Full, doc.scan)
      BY <1>4, <1>7, <1>8, <3>2, StagesFine
    <3> QED BY <1>1, <1>9, <2>1, <3>1, <3>2 DEF DraftSound
  <2>2. drive' = drive /\ doc'.scan = doc.scan /\ doc'.pipes = doc.pipes /\ Full' = Full
    BY <1>2, <1>7, <1>11 DEF Full
  <2> QED BY <1>11, <2>1, <2>2 DEF AllFine
<1>14. MissingSound(w)'
  BY <1>1, <1>7, <1>9 DEF MissingSound
<1>15. PodsSound'
  BY <1>10, <1>14 DEF PodsSound
<1> QED BY <1>10, <1>12, <1>13, <1>15 DEF ToldIInv

\* StageMissing: tombstones for what the scan did not see, and for nothing that is there.
LEMMA StageMissingTold ==
  ASSUME IInv, IInv', ToldIInv, NEW w \in Pod, StageMissing(w)
  PROVE  ToldIInv'
<1>1. IfMatch(w) /\ poll[w].pc = "batch"
  BY DEF StageMissing
<1>2. UNCHANGED <<drive, api, refs, sent, watcher>>
  BY DEF StageMissing
<1>3. /\ Typed /\ poll[w].mem = doc /\ doc \in State /\ watcher[w].pipes \in SUBSET Pipe
      /\ poll[w] \in Polling /\ poll[w].missing \in SUBSET Item /\ doc.url \in Url
  BY <1>1, MatchProperties, SMTT(40) DEF Typed, Polling
<1>4. PICK gone \in SUBSET poll[w].missing :
        LET page == [NoPage EXCEPT
                        !.changes = {[item |-> i, ver |-> 0, deleted |-> TRUE] : i \in gone},
                        !.next = poll[w].mem.url, !.isDelta = TRUE,
                        !.ends = (poll[w].missing = {})]
        IN  /\ doc' = [Staged(w, page) EXCEPT !.etag = doc.etag + 1]
            /\ poll' = [poll EXCEPT ![w].mem = doc', ![w].pc = "publish", ![w].missing = poll[w].missing \ gone]
  BY DEF StageMissing
<1> DEFINE changes == {[item |-> i, ver |-> 0, deleted |-> TRUE] : i \in gone}
           page == [NoPage EXCEPT !.changes = changes, !.next = doc.url, !.isDelta = TRUE,
                                  !.ends = (poll[w].missing = {})]
           staged == [page EXCEPT !.pipes = watcher[w].pipes, !.pending = TRUE]
           new == Staged(w, page)
           next == [poll[w] EXCEPT !.mem = doc', !.pc = "publish", !.missing = poll[w].missing \ gone]
<1>5. /\ changes \in SUBSET ItemChange
      /\ \A e \in changes : e.deleted /\ e.item \in gone
      /\ \A i \in gone : \E e \in changes : e.item = i
  <2>1. \A i \in gone : i \in Item /\ [item |-> i, ver |-> 0, deleted |-> TRUE] \in ItemChange
    BY <1>3 DEF ItemChange
  <2>2. \A e \in changes : \E i \in gone : e = [item |-> i, ver |-> 0, deleted |-> TRUE]
    OBVIOUS
  <2>3. \A i \in gone : [item |-> i, ver |-> 0, deleted |-> TRUE] \in changes
    OBVIOUS
  <2> HIDE DEF changes
  <2>4. \A e \in changes : e.deleted /\ e.item \in gone
    BY <2>2
  <2>5. \A i \in gone : \E e \in changes : e.item = i
    BY <2>3
  <2>6. \A e \in changes : e \in ItemChange
    BY <2>1, <2>2
  <2> QED BY <2>4, <2>5, <2>6
<1>6. doc' = [new EXCEPT !.etag = doc.etag + 1] /\ poll' = [poll EXCEPT ![w] = next]
  BY <1>3, <1>4
<1> HIDE DEF changes
<1>7. page \in Page /\ page.next = doc.url /\ page.changes = changes /\ (page.ends <=> poll[w].missing = {})
  BY <1>3, <1>5, ConstantTypes DEF Page
<1> HIDE DEF page
<1>8. /\ staged \in Page /\ staged.pending /\ staged.next = doc.url /\ staged.changes = changes
      /\ staged.pipes = watcher[w].pipes /\ (staged.ends <=> poll[w].missing = {})
  BY <1>3, <1>7 DEF Page
<1>9. new = [doc EXCEPT !.rev = @ + 1, !.page = staged]
  BY <1>3 DEF Staged
<1> HIDE DEF staged, new
<1>10. /\ doc'.etag = doc.etag + 1 /\ doc'.rev = doc.rev + 1 /\ doc'.scan = doc.scan
       /\ doc'.page = staged /\ doc'.full = doc.full /\ doc'.pipes = doc.pipes
  <2>1. /\ new \in State /\ new.rev = doc.rev + 1 /\ new.page = staged /\ new.scan = doc.scan
        /\ new.full = doc.full /\ new.pipes = doc.pipes
    BY <1>3, <1>8, <1>9, NextRevision
  <2> QED BY <1>6, <2>1 DEF State
<1>11. /\ next.mem = doc' /\ next.pc = "publish" /\ next.missing = poll[w].missing \ gone
       /\ next.reconciling = poll[w].reconciling
  BY <1>3 DEF Polling
<1> HIDE DEF next
<1>12. poll'[w] = next /\ \A v \in Pod \ {w} : poll'[v] = poll[v]
  BY <1>3, <1>6 DEF Typed
<1>13. Stages(w)
  BY <1>1, <1>2, <1>8, <1>10, <1>11, <1>12 DEF Stages
<1>14. /\ PipesSound' /\ RefsSound'
       /\ \A v \in Pod \ {w} : Overtaken(v)' /\ Noting(v)' /\ DraftSound(v)' /\ MissingSound(v)'
       /\ Overtaken(w)' /\ Noting(w)' /\ DraftSound(w)'
  BY <1>13, StagesTold
<1>15. /\ Cursor' = Cursor /\ Cursor = doc.url /\ Clock' = Clock /\ Steady' = Steady
       /\ Full = doc.full /\ (Full' <=> Full /\ poll[w].missing # {})
  <2>1. Cursor = doc.url /\ Full = doc.full
    BY <1>1, NothingPending
  <2> QED BY <1>2, <1>8, <1>10, <2>1 DEF Cursor, Full, Clock, Steady, api
<1>16. /\ poll[w].reconciling
       /\ \A i \in Item : /\ Unseen(Noted(i), doc.scan) => i \in poll[w].missing
                          /\ i \in poll[w].missing => Noted(i).scan < doc.scan
  BY <1>1 DEF ToldIInv, PodsSound, MissingSound
<1>17. doc.url.kind \in {"more", "delta"}
  BY <1>1, <1>3 DEF IInv, AllSane, Sane, Phases, Phase
<1>18. CursorSound'
  BY <1>15, <1>17 DEF ToldIInv, CursorSound
<1>19. ASSUME NEW i \in Item, i \notin gone PROVE \A c \in doc'.page.changes : c.item # i
  BY <1>5, <1>8, <1>10, <1>19
<1>20. AllFine'
  <2>1. ASSUME NEW p \in Steady \cap doc.pipes, NEW i \in Item,
               ~(drive[i].at > Cursor.at), i \notin Cursor.left
        PROVE  Fine(Sending', p, i, drive[i], Noted(i)', Full', doc.scan)
    <3>1. Fine(Sending, p, i, drive[i], Noted(i), Full, doc.scan)
      BY <1>15, <1>17, <2>1 DEF ToldIInv, AllFine
    <3>2. CASE i \notin gone
      <4>1. \A c \in doc'.page.changes : c.item # i
        BY <1>19, <3>2
      <4>2. Fine(Sending, p, i, drive[i], Noted(i), Full', doc.scan)
        BY <1>15, <1>16, <3>1 DEF Fine
      <4>3. ASSUME NEW full, Fine(Sending, p, i, drive[i], Noted(i), full, doc.scan)
            PROVE  Fine(Sending', p, i, drive[i], Noted(i)', full, doc.scan)
        BY <1>13, <4>1, <4>3, StagesFine
      <4> QED BY <4>2, <4>3
    <3>3. CASE i \in gone
      <4>1. drive[i].is # "file"
        <5> SUFFICES ASSUME drive[i].is = "file" PROVE FALSE
          OBVIOUS
        <5>1. PICK m \in Sending : Last(Sending, p, i, m) /\ m.rev > doc.scan
          BY <3>1 DEF Fine, Told
        <5>2. m.rev = Noted(i).rev
          BY <5>1 DEF ToldIInv, RefsSound, RefTold
        <5>3. Noted(i).scan = doc.scan
          BY <5>1, <5>2 DEF ToldIInv, RefsSound
        <5>4. Noted(i).scan < doc.scan /\ doc.scan \in Nat
          BY <1>1, <1>16, <3>3, MatchProperties
        <5> QED BY <5>3, <5>4
      <4>2. Shows(doc'.page.changes, i, drive[i])
        BY <1>5, <1>8, <1>10, <3>3, <4>1 DEF Shows
      <4> QED BY <1>13, <4>2, StagesShows
    <3> QED BY <3>2, <3>3
  <2>2. drive' = drive /\ doc'.scan = doc.scan /\ doc'.pipes = doc.pipes
    BY <1>2, <1>10
  <2> QED BY <1>15, <2>1, <2>2 DEF AllFine
<1>21. MissingSound(w)'
  <2>1. ASSUME NEW i \in Item
        PROVE  /\ Unseen(Noted(i)', doc.scan) => i \in poll[w].missing \ gone
               /\ i \in poll[w].missing \ gone => Noted(i)'.scan < doc.scan
    <3>1. CASE i \notin gone
      <4>1. Noted(i)' = Noted(i)
        BY <1>13, <1>19, <3>1, StagesPage
      <4> QED BY <1>16, <3>1, <4>1
    <3>2. CASE i \in gone
      <4>1. PICK e \in doc'.page.changes : e.item = i /\ e.deleted
        BY <1>5, <1>8, <1>10, <3>2
      <4>2. Noted(i)' = RefOf(doc', e)
        BY <1>13, <4>1, StagesPage
      <4>3. Noted(i)'.deleted
        BY <4>1, <4>2 DEF RefOf
      <4> QED BY <3>2, <4>3 DEF Unseen
    <3> QED BY <3>1, <3>2
  <2> QED BY <1>10, <1>11, <1>12, <1>16, <2>1 DEF MissingSound
<1>22. PodsSound'
  BY <1>14, <1>21 DEF PodsSound
<1> QED BY <1>14, <1>18, <1>20, <1>22 DEF ToldIInv

-----------------------------------------------------------------------------
(* CaughtUp.                                                                *)

LEMMA NextTold == IInv /\ ToldIInv /\ [Next]_vars => ToldIInv'
<1> SUFFICES ASSUME IInv, ToldIInv, [Next]_vars PROVE ToldIInv'
  OBVIOUS
<1>0. IInv'
  BY NextKeeps
<1>1. ASSUME NEW i \in Item, Change(i) PROVE ToldIInv'
  BY <1>0, <1>1, ChangeTold
<1>2. ASSUME NEW p \in Pipe, Attach(p) \/ Detach(p) \/ Reset(p) PROVE ToldIInv'
  BY <1>2, ApiTold
<1>3. ASSUME NEW w \in Pod,
             StartPod(w) \/ StopPod(w) \/ UpdatePipelines(w) \/ PollFails(w) \/ PublishPart(w) \/ Poll(w)
      PROVE  ToldIInv'
  <2>1. CASE StartPod(w) \/ StopPod(w) \/ PollFails(w) \/ Polled(w)
    BY <2>1, ForgetTold
  <2>2. CASE UpdatePipelines(w) \/ Load(w) \/ CheckReset(w) \/ TokenExpired(w)
    BY <2>2, UpdateTold, GoesOnTold
  <2>3. CASE GetPage(w) \/ PersistReference(w) \/ Publish(w) \/ PublishPart(w) \/ FindMissing(w)
    BY <2>3, GetPageTold, PersistReferenceTold, PublishTold, FindMissingTold
  <2>4. CASE StartScan(w) \/ StagePage(w) \/ Commit(w) \/ StageMissing(w)
    BY <1>0, <2>4, StartScanTold, StagePageTold, CommitTold, StageMissingTold
  <2> QED BY <1>3, <2>1, <2>2, <2>3, <2>4 DEF Poll
<1>4. CASE UNCHANGED vars
  <2>1. UNCHANGED <<drive, active, interrupted, scope, doc, refs, sent, watcher, poll>>
    BY <1>4 DEF vars, api
  <2>2. /\ Sending' = Sending /\ Cursor' = Cursor /\ Full' = Full /\ Steady' = Steady /\ Heard' = Heard
        /\ \A j \in Item : Noted(j)' = Noted(j)
    BY <2>1 DEF Sending, Cursor, Full, Steady, Heard, Noted, Pending
  <2>3. RefsSound' /\ CursorSound' /\ AllFine'
    BY <2>1, <2>2, SameBehind DEF ToldIInv
  <2>4. PipesSound'
    BY <2>1, <2>2, PipesRest DEF ToldIInv
  <2>5. PodsSound'
    BY <2>1, <2>2, PodRests DEF ToldIInv, PodsSound
  <2> QED BY <2>3, <2>4, <2>5 DEF ToldIInv
<1> QED BY <1>1, <1>2, <1>3, <1>4 DEF Next

\* The newest message is the last.
LEMMA NewestIsLast ==
  ASSUME IInv, NEW p, NEW i, MessagesOf(p, i) # {}
  PROVE  Last(sent, p, i, Newest(MessagesOf(p, i)))
<1> DEFINE M == MessagesOf(p, i)
           R == {m.rev : m \in M}
<1>1. doc.rev \in Nat /\ \A m \in M : m.rev \in Nat /\ m.rev <= doc.rev
  <2>1. \A m \in sent : m.rev \in Nat /\ m.rev <= doc.rev
    BY WatcherInvHolds DEF WatcherInv, OutboxFirst, IInv, Typed, Message
  <2> QED BY <2>1 DEF MessagesOf, IInv, Typed, State
<1>2. R \in SUBSET Nat /\ R # {} /\ \A k \in R : k <= doc.rev
  BY <1>1
<1>3. Largest(R) \in R /\ \A k \in R : k <= Largest(R)
  BY <1>1, <1>2, LargestProperties
<1>4. \E m \in M : \A n \in M : n.rev <= m.rev
  BY <1>3
<1> HIDE DEF M
<1>5. Newest(M) \in M /\ \A n \in M : n.rev <= Newest(M).rev
  BY <1>4 DEF Newest
<1> QED BY <1>5 DEF M, MessagesOf, Last

LEMMA CaughtUpHolds == IInv /\ ToldIInv => CaughtUp
<1> SUFFICES ASSUME IInv, ToldIInv, Settled, NEW p \in (active \cap doc.pipes) \ interrupted, NEW i \in Item,
                    drive[i].at <= doc.url.at
             PROVE  Conveyed(p, i)
  BY DEF CaughtUp
<1> DEFINE M == MessagesOf(p, i)
<1>1. Typed /\ ~doc.page.pending /\ doc.url.kind = "delta" /\ ~doc.full
  BY DEF IInv, Settled
<1>2. Cursor = doc.url /\ ~Full /\ Sending = sent
  BY <1>1 DEF Cursor, Full, Sending
<1>3. p \in Steady \cap doc.pipes
  BY DEF Steady
<1>4. ~(drive[i].at > Cursor.at) /\ i \notin Cursor.left
  <2>1. drive[i].at \in Nat /\ doc.url.at \in Nat
    BY <1>1, WatcherAssumption DEF Typed, State, Url
  <2> QED BY <1>1, <1>2, <2>1 DEF ToldIInv, CursorSound
<1>5. Told(sent, p, i, drive[i], doc.scan)
  BY <1>1, <1>2, <1>3, <1>4 DEF ToldIInv, AllFine, Fine
<1>6. CASE drive[i].is = "file"
  <2>1. PICK m \in sent : Last(sent, p, i, m) /\ ~m.deleted /\ m.ver = drive[i].at /\ m.rev > doc.scan
    BY <1>5, <1>6 DEF Told
  <2>2. m \in M
    BY <2>1 DEF Last, MessagesOf
  <2>3. Last(sent, p, i, Newest(M))
    BY <2>2, NewestIsLast
  <2>4. Newest(M).rev = m.rev
    <3>1. Newest(M) \in sent /\ Newest(M).rev <= m.rev /\ m.rev <= Newest(M).rev
      BY <2>1, <2>3 DEF Last
    <3>2. Newest(M).rev \in Nat /\ m.rev \in Nat
      BY <1>1, <2>1, <3>1 DEF Typed, Message
    <3> QED BY <3>1, <3>2
  <2>5. Newest(M).ver = m.ver /\ Newest(M).deleted = m.deleted
    <3>1. RevisionNamesVersion
      BY WatcherInvHolds DEF WatcherInv
    <3> QED BY <2>1, <2>3, <2>4, <3>1 DEF Last, RevisionNamesVersion
  <2> QED BY <1>6, <2>1, <2>2, <2>4, <2>5 DEF Conveyed
<1>7. CASE drive[i].is # "file"
  <2>1. ASSUME M # {} PROVE Newest(M).deleted
    <3>1. Last(sent, p, i, Newest(M)) /\ Newest(M) \in sent
      BY <2>1, NewestIsLast DEF Last
    <3> QED BY <1>5, <1>7, <3>1 DEF Told
  <2> QED BY <1>7, <2>1 DEF Conveyed
<1> QED BY <1>6, <1>7

\* Whatever pods, crashes, replays and lost leases do: when the cursor is
\* settled, each pipeline of the last scan was told of every item as it was up
\* to the cursor, of files since the scan began and of removals as the last word
\* (PollDeltaAsync, FlushPendingAsync, ReconcileScanAsync).
THEOREM WatcherCaughtUp == Spec => []CaughtUp
<1>1. Init => IInv /\ ToldIInv
  BY InitEstablishes, InitTold
<1>2. IInv /\ ToldIInv /\ [Next]_vars => (IInv /\ ToldIInv)'
  BY NextKeeps, NextTold
<1>3. IInv /\ ToldIInv => CaughtUp
  BY CaughtUpHolds
<1> QED BY <1>1, <1>2, <1>3, PTL DEF Spec

=============================================================================
