---------------------------- MODULE PollingLease ----------------------------
(***************************************************************************)
(* The polling lease of one source: BlobLeaseManager, and what              *)
(* SourceWatcherManager does with it.  Every few seconds each pod           *)
(* reconciles: it acquires or renews the lease and runs a watcher for the   *)
(* source when it has it.  Reconciling also stops the watcher, or restarts  *)
(* it when the source was reconfigured or a pipeline reset.                 *)
(*                                                                         *)
(* A lease is a document with its owner and the moment it expires, changed  *)
(* under its ETag.  Moments are relative: left is what is left of the term *)
(* and age what has passed since a pod took the time.                       *)
(***************************************************************************)
EXTENDS Integers

CONSTANTS
    Pod,
    NoPod,      \* nobody
    TTL,        \* LeaseTtlSeconds
    MaxCall,    \* bound: how long one call of TryAcquireAsync takes
    Patience,   \* bound: how long a pod with a watcher goes without renewing
    MaxFaults,  \* bound: crashes and failing calls
    Releases    \* what watchers do with the lease when disposed of: give it back or not

ASSUME PollingAssumption ==
    /\ NoPod \notin Pod
    /\ {TTL, MaxCall, Patience, MaxFaults} \subseteq Nat
    /\ MaxCall <= TTL /\ Patience <= TTL
    /\ Releases \subseteq BOOLEAN

VARIABLES
    releases,   \* the watchers of this source give the lease back (Garnet)
    owner,      \* lease document: ownerId, NoPod when there is no document
    left,       \* lease document: expiresAt
    pc,         \* per pod: where it is in its reconcile
    age,        \* per pod: time since nowUtc was taken
    fresh,      \* per pod: nobody wrote the document since the pod read it
    since,      \* per pod: age of the term it acquired last
    watching,   \* per pod: it runs a watcher
    then,       \* per pod: what follows the disposal of its watcher
    faults

doc == <<owner, left>>
vars == <<releases, owner, left, pc, age, fresh, since, watching, then, faults>>

\* The time of a call started below; a document is told apart no longer than this
\* after it expired.
Over == -(MaxCall + 1)

Calling == {"read", "create", "reread", "write"}

TypeOK ==
    /\ releases \in BOOLEAN
    /\ owner \in Pod \union {NoPod}
    /\ left \in Over .. TTL
    /\ pc \in [Pod -> {"idle", "read", "create", "reread", "write", "got", "dispose", "release", "gone"}]
    /\ age \in [Pod -> 0 .. MaxCall]
    /\ fresh \in [Pod -> BOOLEAN]
    /\ since \in [Pod -> 0 .. TTL]
    /\ watching \in [Pod -> BOOLEAN]
    /\ then \in [Pod -> {"idle", "got", "acquire"}]
    /\ faults \in 0 .. MaxFaults

Init ==
    /\ releases \in Releases
    /\ owner = NoPod
    /\ left = Over
    /\ pc = [p \in Pod |-> "idle"]
    /\ age = [p \in Pod |-> 0]
    /\ fresh = [p \in Pod |-> FALSE]
    /\ since = [p \in Pod |-> 0]
    /\ watching = [p \in Pod |-> FALSE]
    /\ then = [p \in Pod |-> "idle"]
    /\ faults \in 0 .. MaxFaults     \* what the bound does not leave

-----------------------------------------------------------------------------
\* Time.  The pod has a term it relies on: its watcher runs or is about to.
Relies(p) == watching[p] \/ pc[p] = "got" \/ (pc[p] \in {"dispose", "release"} /\ then[p] = "got")

InCall(p) == pc[p] \in Calling

Tick ==
    /\ \A p \in Pod : Relies(p) => since[p] < Patience
    /\ \A p \in Pod : InCall(p) => age[p] < MaxCall
    /\ left' = IF left > Over THEN left - 1 ELSE left
    /\ age' = [p \in Pod |-> IF InCall(p) THEN age[p] + 1 ELSE age[p]]
    /\ since' = [p \in Pod |-> IF Relies(p) THEN since[p] + 1 ELSE since[p]]
    /\ UNCHANGED <<releases, owner, pc, fresh, watching, then, faults>>

\* A write of the document by p: every other ETag is out of date now.
Blindly(p) == TRUE  \* mutant: no IfMatchEtag

IfMatch(p) == fresh[p]

Written(p, term) ==
    /\ owner' = p
    /\ left' = term
    /\ fresh' = [q \in Pod |-> FALSE]

Term(p) == TTL - age[p]

-----------------------------------------------------------------------------
\* TryAcquireAsync, first thing of every reconcile.
Acquire(p) ==
    /\ pc[p] = "idle"
    /\ pc' = [pc EXCEPT ![p] = "read"]
    /\ age' = [age EXCEPT ![p] = 0]
    /\ UNCHANGED <<releases, doc, fresh, since, watching, then, faults>>

\* TryAcquireAsync returns true.  A running watcher goes on, or is disposed of
\* to be replaced (configuration or generation changed).
Acquired(p) ==
    /\ since' = [since EXCEPT ![p] = age[p]]
    /\ age' = [age EXCEPT ![p] = 0]
    /\ IF watching[p]
       THEN \/ /\ pc' = [pc EXCEPT ![p] = "idle"]
               /\ UNCHANGED <<watching, then>>
            \/ /\ pc' = [pc EXCEPT ![p] = "dispose"]
               /\ watching' = [watching EXCEPT ![p] = FALSE]
               /\ then' = [then EXCEPT ![p] = "got"]
       ELSE /\ pc' = [pc EXCEPT ![p] = "got"]
            /\ UNCHANGED <<watching, then>>

\* It returns false: a running watcher is disposed of.
Refused(p) ==
    /\ pc' = [pc EXCEPT ![p] = IF watching[p] THEN "dispose" ELSE "idle"]
    /\ watching' = [watching EXCEPT ![p] = FALSE]
    /\ then' = [then EXCEPT ![p] = "idle"]
    /\ age' = [age EXCEPT ![p] = 0]
    /\ since' = [since EXCEPT ![p] = 0]

NeverExpired(p) == FALSE  \* mutant: only the owner may write

\* The term of the document was over when nowUtc was taken.
Expired(p) == left + age[p] < 0

MayTake(p) == owner = p \/ Expired(p)

ReadItem(p) ==
    /\ pc[p] \in {"read", "reread"}
    /\ owner # NoPod
    /\ IF MayTake(p)
       THEN /\ pc' = [pc EXCEPT ![p] = "write"]
            /\ fresh' = [fresh EXCEPT ![p] = TRUE]
            /\ UNCHANGED <<age, since, watching, then>>
       ELSE Refused(p) /\ UNCHANGED fresh
    /\ UNCHANGED <<releases, doc, faults>>

ReadNotFound(p) ==
    /\ pc[p] = "read"
    /\ owner = NoPod
    /\ pc' = [pc EXCEPT ![p] = "create"]
    /\ UNCHANGED <<releases, doc, age, fresh, since, watching, then, faults>>

CreateItem(p) ==
    /\ pc[p] = "create"
    /\ IF owner = NoPod
       THEN Written(p, Term(p)) /\ Acquired(p)
       ELSE pc' = [pc EXCEPT ![p] = "reread"] /\ UNCHANGED <<doc, age, fresh, since, watching, then>>
    /\ UNCHANGED <<releases, faults>>

ReplaceItem(p) ==
    /\ pc[p] = "write"
    /\ IF IfMatch(p)
       THEN Written(p, Term(p)) /\ Acquired(p)
       ELSE Refused(p) /\ UNCHANGED <<doc, fresh>>
    /\ UNCHANGED <<releases, faults>>

\* The store fails, possibly after it wrote: the exception makes it a refusal.
CallFails(p) ==
    /\ InCall(p)
    /\ faults < MaxFaults
    /\ faults' = faults + 1
    /\ \/ UNCHANGED <<doc, fresh>>
       \/ /\ \/ pc[p] = "create" /\ owner = NoPod
             \/ pc[p] = "write" /\ IfMatch(p)
          /\ Written(p, Term(p))
    /\ Refused(p)
    /\ UNCHANGED releases

\* The store denies access (401, 403): the exception ends the reconcile and leaves a
\* running watcher alone.
AccessDenied(p) ==
    /\ InCall(p)
    /\ faults < MaxFaults
    /\ faults' = faults + 1
    /\ pc' = [pc EXCEPT ![p] = "idle"]
    /\ age' = [age EXCEPT ![p] = 0]
    /\ UNCHANGED <<releases, doc, fresh, since, watching, then>>

-----------------------------------------------------------------------------
\* The new watcher starts; or it fails to and is disposed of, if it could be created.
StartWatcher(p) ==
    /\ pc[p] = "got"
    /\ pc' = [pc EXCEPT ![p] = "idle"]
    /\ watching' = [watching EXCEPT ![p] = TRUE]
    /\ UNCHANGED <<releases, doc, age, fresh, since, then, faults>>

StartFails(p) ==
    /\ pc[p] = "got"
    /\ faults < MaxFaults
    /\ faults' = faults + 1
    /\ \E next \in {"idle", "dispose"} : pc' = [pc EXCEPT ![p] = next]
    /\ then' = [then EXCEPT ![p] = "idle"]
    /\ UNCHANGED <<releases, doc, age, fresh, since, watching>>

\* A removed source: the watcher is disposed of.  A reset: it is, and then the
\* lease is acquired for the next one (ResetWatcherAsync).
Dispose(p) ==
    /\ pc[p] = "idle"
    /\ watching[p]
    /\ pc' = [pc EXCEPT ![p] = "dispose"]
    /\ watching' = [watching EXCEPT ![p] = FALSE]
    /\ then' \in {[then EXCEPT ![p] = "idle"], [then EXCEPT ![p] = "acquire"]}
    /\ since' = [since EXCEPT ![p] = 0]
    /\ UNCHANGED <<releases, doc, age, fresh, faults>>

\* The watcher is gone, the reconcile goes on.
Disposed(p) ==
    /\ pc' = [pc EXCEPT ![p] = IF then[p] = "acquire" THEN "read" ELSE then[p]]
    /\ age' = [age EXCEPT ![p] = IF then[p] = "acquire" THEN 0 ELSE @]

\* ReleaseAsync, at the end of the disposal: read, and expire the own document.
ReadForRelease(p) ==
    /\ pc[p] = "dispose"
    /\ IF releases /\ owner = p
       THEN /\ pc' = [pc EXCEPT ![p] = "release"]
            /\ fresh' = [fresh EXCEPT ![p] = TRUE]
            /\ UNCHANGED age
       ELSE Disposed(p) /\ UNCHANGED fresh
    /\ UNCHANGED <<releases, doc, since, watching, then, faults>>

ExpireItem(p) ==
    /\ pc[p] = "release"
    /\ IF fresh[p] THEN Written(p, -1) ELSE UNCHANGED <<doc, fresh>>
    /\ Disposed(p)
    /\ UNCHANGED <<releases, since, watching, then, faults>>

\* The release fails before the document was written; nobody minds.
ReleaseFails(p) ==
    /\ pc[p] \in {"dispose", "release"} /\ releases
    /\ faults < MaxFaults
    /\ faults' = faults + 1
    /\ Disposed(p)
    /\ UNCHANGED <<releases, doc, fresh, since, watching, then>>

\* The process restarts under its name (HOSTNAME), or the pod is gone for good.
Crash(p) ==
    /\ pc[p] # "gone"
    /\ faults < MaxFaults
    /\ faults' = faults + 1
    /\ \E next \in {"idle", "gone"} : pc' = [pc EXCEPT ![p] = next]
    /\ watching' = [watching EXCEPT ![p] = FALSE]
    /\ age' = [age EXCEPT ![p] = 0]
    /\ since' = [since EXCEPT ![p] = 0]
    /\ UNCHANGED <<releases, doc, fresh, then>>

-----------------------------------------------------------------------------
\* A reconcile in progress goes on.
Reconciling(p) ==
    \/ ReadItem(p) \/ ReadNotFound(p) \/ CreateItem(p) \/ ReplaceItem(p)
    \/ StartWatcher(p) \/ ReadForRelease(p) \/ ExpireItem(p)

Next ==
    \/ Tick
    \/ \E p \in Pod : \/ Acquire(p) \/ Reconciling(p) \/ Dispose(p)
                      \/ CallFails(p) \/ AccessDenied(p) \/ StartFails(p) \/ ReleaseFails(p) \/ Crash(p)

Spec == Init /\ [][Next]_vars

\* Time passes and every pod keeps reconciling.
FairSpec == Spec /\ WF_vars(Tick) /\ \A p \in Pod : WF_vars(Acquire(p)) /\ WF_vars(Reconciling(p))

-----------------------------------------------------------------------------
\* "Every polling source needs one owner" (SourceWatcherManager.cs:223): two pods
\* never poll it at a time, provided each reconciles within its term.
OneWatcher == \A p, q \in Pod : watching[p] /\ watching[q] => p = q

\* The same, for the watchers that keep the lease when disposed of.
OneKeepingWatcher == ~releases => OneWatcher

\* The inductive invariant.  Who is about to write over an unchanged document owns
\* it or found it expired.
MayWrite ==
    \A p \in Pod :
        /\ pc[p] = "write" /\ fresh[p] => owner = p \/ Expired(p)
        /\ pc[p] = "release" => releases /\ (fresh[p] => owner = p)

NoDocument == owner = NoPod => left < 0

LeaseInv == TypeOK /\ MayWrite /\ NoDocument

\* Unless watchers give the lease back: a pod that relies on its term owns the
\* document, which does not expire before the term does.
TermHeld == \A p \in Pod : Relies(p) => owner = p /\ left + since[p] >= TTL

PollingInv == LeaseInv /\ (~releases => TermHeld)

\* The lease changes hands only when its term is over or given back.
L == INSTANCE Lease WITH holder <- owner, left <- IF left < 0 THEN -1 ELSE left

ImplementsLease == L!LeaseSpec

\* Nobody polls the source; somebody does, or nobody is left to.
Unwatched == \A p \in Pod : ~watching[p]
WatchedOrGone == (\E p \in Pod : watching[p]) \/ (\A p \in Pod : pc[p] = "gone")
=============================================================================
