---------------------------- MODULE FairScheduler ----------------------------
(***************************************************************************)
(* PipelineFairScheduler.cs: which pipeline of a worker may start its next  *)
(* piece of work.  One monitor guards everything.  Acquire, cancellation    *)
(* and release each enter it, change what is theirs and then dispatch:     *)
(* hand out permits until the limit is reached or nobody can take one.     *)
(* Here the monitor is a variable and each permit handed out a step of its  *)
(* own; nobody else moves while it is taken.                               *)
(*                                                                         *)
(* Virtual runtimes only count against each other, so they are kept        *)
(* relative to the least of them, in units of 1/Unit of a document at      *)
(* weight 1, and up to MaxLag.                                             *)
(***************************************************************************)
EXTENDS Integers, Sequences, FiniteSets

CONSTANTS
    Pipeline,
    Request,        \* bound: the requests alive at a time, as pairs of pipeline and number
    GlobalLimit,    \* permits of the worker (MaxConcurrentCalls)
    Weights,        \* effective weights that requests come with
    Caps,           \* concurrency caps that requests come with
    Costs,          \* documents that requests come with
    Unit,           \* a multiple of every weight
    MaxLag          \* bound: how far a pipeline's runtime is told apart

ASSUME SchedulerAssumption ==
    /\ IsFiniteSet(Pipeline)
    /\ IsFiniteSet(Request) /\ Request \subseteq Pipeline \X Nat
    /\ {GlobalLimit, Unit, MaxLag} \subseteq Nat \ {0}
    /\ Weights \union Caps \union Costs \subseteq Nat \ {0}

VARIABLES
    queue,      \* state.Pending of each pipeline
    status,     \* per request: not made, waiting, granted, cancelled
    cost,       \* per request: its documents
    policy,     \* per pipeline: weight and cap of the latest request
    running,    \* state.Active of each pipeline
    active,     \* _active
    runtime,    \* state.VirtualRuntime of each pipeline
    dispatching \* someone is in the monitor and dispatches

schedulerVars == <<queue, status, cost, policy, running, active, runtime, dispatching>>

\* The pipeline of a request.  A request object may be made anew when its lease is
\* given back, or when it was cancelled and dropped from the queue.
Of(r) == r[1]

InQueue(r) == \E i \in 1 .. Len(queue[Of(r)]) : queue[Of(r)][i] = r

SchedulerTypeOK ==
    /\ queue \in [Pipeline -> Seq(Request)]
    /\ status \in [Request -> {"none", "waiting", "granted", "cancelled"}]
    /\ cost \in [Request -> Nat]
    /\ policy \in [Pipeline -> [weight : Nat \ {0}, cap : Nat \ {0}]]
    /\ running \in [Pipeline -> Nat]
    /\ active \in Nat
    /\ runtime \in [Pipeline -> 0 .. MaxLag]
    /\ dispatching \in BOOLEAN

SchedulerInit ==
    /\ queue = [p \in Pipeline |-> <<>>]
    /\ status = [r \in Request |-> "none"]
    /\ cost = [r \in Request |-> 1]
    /\ policy = [p \in Pipeline |-> [weight |-> 20, cap |-> 2]]
    /\ running = [p \in Pipeline |-> 0]
    /\ active = 0
    /\ runtime = [p \in Pipeline |-> 0]
    /\ dispatching = FALSE

Monus(n) == IF n > 0 THEN n - 1 ELSE 0

-----------------------------------------------------------------------------
\* AcquireAsync: the request's weight and cap replace those of the pipeline.  A
\* token that is cancelled already cancels the request at once.
Acquire(r) ==
    /\ ~dispatching
    /\ status[r] \in {"none", "cancelled"} /\ ~InQueue(r)
    /\ \E w \in Weights, c \in Caps : policy' = [policy EXCEPT ![Of(r)] = [weight |-> w, cap |-> c]]
    /\ \E k \in Costs : cost' = [cost EXCEPT ![r] = k]
    /\ queue' = [queue EXCEPT ![Of(r)] = Append(@, r)]
    /\ \E c \in {"waiting", "cancelled"} : status' = [status EXCEPT ![r] = c]
    /\ dispatching' = TRUE
    /\ UNCHANGED <<running, active, runtime>>

\* Cancel: the request stays in the queue, a dispatch finds it there.  It has no
\* effect on a request that was granted in the meantime.
Cancel(r) ==
    /\ ~dispatching
    /\ status[r] = "waiting"
    /\ status' = [status EXCEPT ![r] = "cancelled"]
    /\ dispatching' = TRUE
    /\ UNCHANGED <<queue, cost, policy, running, active, runtime>>

\* DisposeAsync of the lease, which its _released flag makes count once.
NoRedispatch == FALSE  \* mutant: a permit given back is not handed on

Redispatch == TRUE

Release(r) ==
    /\ ~dispatching
    /\ status[r] = "granted"
    /\ status' = [status EXCEPT ![r] = "none"]
    /\ running' = [running EXCEPT ![Of(r)] = Monus(@)]
    /\ active' = Monus(active)
    /\ dispatching' = Redispatch
    /\ UNCHANGED <<queue, cost, policy, runtime>>

-----------------------------------------------------------------------------
\* DispatchLocked.  Requests that are over are dropped from the front.
Over(s, i) == status[s[i]] # "waiting"

Purged(s) ==
    IF \A i \in 1 .. Len(s) : Over(s, i) THEN <<>>
    ELSE LET first == CHOOSE i \in 1 .. Len(s) : ~Over(s, i) /\ \A j \in 1 .. i - 1 : Over(s, j)
         IN  SubSeq(s, first, Len(s))

Charge(r) == (cost[r] * Unit) \div policy[Of(r)].weight

\* The request a pipeline would start next, if it may.
CanRun(p) == Purged(queue[p]) # <<>> /\ running[p] < policy[p].cap

ByWeight(p) == Charge(Head(Purged(queue[p])))  \* mutant: earlier work does not count

Finish(p) == runtime[p] + Charge(Head(Purged(queue[p])))

\* The runtimes, kept relative and bounded.
Relative(f) ==
    LET least == CHOOSE n \in {f[p] : p \in Pipeline} : \A p \in Pipeline : n <= f[p]
        most(n) == IF n > MaxLag THEN MaxLag ELSE n
    IN  [p \in Pipeline |-> most(f[p] - least)]

BelowLimit == active < GlobalLimit

\* Completion.TrySetResult: nothing happens to a request that is over.
Completion(r) == IF status[r] = "waiting" THEN "granted" ELSE status[r]

Grant(p) ==
    /\ dispatching
    /\ BelowLimit
    /\ CanRun(p)
    /\ \A q \in Pipeline : CanRun(q) => Finish(p) <= Finish(q)
    /\ LET r == Head(Purged(queue[p]))
       IN  /\ status' = [status EXCEPT ![r] = Completion(r)]
           /\ runtime' = Relative([runtime EXCEPT ![p] = @ + Charge(r)])
    /\ queue' = [q \in Pipeline |-> IF q = p THEN Tail(Purged(queue[q])) ELSE Purged(queue[q])]
    /\ running' = [running EXCEPT ![p] = @ + 1]
    /\ active' = active + 1
    /\ UNCHANGED <<cost, policy, dispatching>>

\* The loop ends, and with it the time in the monitor.
Leave ==
    /\ dispatching
    /\ ~BelowLimit \/ \A p \in Pipeline : ~CanRun(p)
    /\ queue' = IF BelowLimit THEN [p \in Pipeline |-> Purged(queue[p])] ELSE queue
    /\ dispatching' = FALSE
    /\ UNCHANGED <<status, cost, policy, running, active, runtime>>

-----------------------------------------------------------------------------
Dispatch == Leave \/ \E p \in Pipeline : Grant(p)

SchedulerNext == Dispatch \/ \E r \in Request : Acquire(r) \/ Cancel(r) \/ Release(r)

SchedulerSpec == SchedulerInit /\ [][SchedulerNext]_schedulerVars

\* A thread in the monitor goes on, work ends, and whoever wants to enter the
\* monitor to give a permit back gets in.
SchedulerFairSpec == SchedulerSpec /\ WF_schedulerVars(Dispatch) /\ \A r \in Request : SF_schedulerVars(Release(r))

-----------------------------------------------------------------------------
Granted == {r \in Request : status[r] = "granted"}

GrantedTo(p) == {r \in Granted : Of(r) = p}

\* The counters are the permits in use: none is lost by a cancellation that
\* comes at the wrong moment, none is given back twice.
PermitsConserved ==
    /\ active = Cardinality(Granted)
    /\ \A p \in Pipeline : running[p] = Cardinality(GrantedTo(p))

\* No more work at a time than the worker's limit allows, and a pipeline starts
\* work only within the cap it asked for last.
WithinLimit == Cardinality(Granted) <= GlobalLimit

WithinCap ==
    [][ \A p \in Pipeline :
            ~(GrantedTo(p)' \subseteq GrantedTo(p)) => Cardinality(GrantedTo(p)') <= policy'[p].cap ]_schedulerVars

\* Whenever the monitor is free, no request waits for a permit that is free and
\* that its pipeline may use - also not behind a cancelled one.
NoIdlePermit ==
    ~dispatching /\ active < GlobalLimit =>
        \A r \in Request : status[r] = "waiting" => running[Of(r)] >= policy[Of(r)].cap

\* The inductive invariant: a waiting request is in its pipeline's queue, and a
\* queue holds only requests of its pipeline.
Queued ==
    /\ \A p \in Pipeline : \A i \in 1 .. Len(queue[p]) : Of(queue[p][i]) = p
    /\ \A r \in Request : status[r] = "waiting" => InQueue(r)

SchedulerInv == SchedulerTypeOK /\ Queued /\ PermitsConserved /\ active <= GlobalLimit /\ NoIdlePermit

\* A request is granted or cancelled at last, whatever weights the others have
\* and however often they come back: "weighted fair admission".
NoStarvation == \A r \in Request : status[r] = "waiting" ~> status[r] # "waiting"
=============================================================================
