------------------------------ MODULE MCWatchers ------------------------------
(* The lease of a polled source, the watchers that poll one, and those of a  *)
(* Garnet source.  A behaviour is one of one part, chosen in the initial     *)
(* state.                                                                    *)
EXTENDS PollingLease, SourceWatchers, GarnetVectors

VARIABLE part
allVars == <<part, vars, sourceVars, garnetVars>>

\* Parts that are not chosen have one initial state.  Leases that are given back
\* have one fault less, and so has the inline watcher of SQL Server, which reads
\* its own writes as changes, one commit.
MCInit ==
    /\ part \in {"lease", "source", "garnet"}
    /\ Init /\ faults = (IF releases THEN 1 ELSE 0) /\ (part # "lease" => ~releases)
    /\ SourcesInit
    /\ IF part = "source"
       THEN budget = [changes |-> IF kind = "mssql" /\ inline THEN MaxChanges - 1 ELSE MaxChanges, troubles |-> MaxTroubles]
       ELSE kind = "untracked" /\ ~inline /\ budget = [changes |-> 0, troubles |-> 0]
    /\ GarnetInit

LeasePart == part = "lease" /\ UNCHANGED <<part, sourceVars, garnetVars>>
SourcePart == part = "source" /\ UNCHANGED <<part, vars, garnetVars>>
GarnetPart == part = "garnet" /\ UNCHANGED <<part, vars, sourceVars>>

MCNext == (LeasePart /\ Next) \/ (SourcePart /\ SourcesNext) \/ (GarnetPart /\ GarnetNext)

\* Fairness of the part: time passes and every pod keeps reconciling; the watcher
\* keeps polling; the watchers of a Garnet source, one in each pod, hear of their
\* pipeline, poll, and finish what they began with every record, and locks without
\* an owner expire.
MCFairness ==
    /\ WF_allVars((LeasePart /\ Tick) \/ (SourcePart /\ PollStep))
    /\ \A p \in Pod : WF_allVars(LeasePart /\ Acquire(p)) /\ WF_allVars(LeasePart /\ Reconciling(p))
    /\ WF_allVars(GarnetPart /\ \E w \in Watchers : UpdatePipelines(w))
    /\ WF_allVars(GarnetPart /\ \E r \in Records : LockExpires(r))
    /\ \A w \in Watchers :
           /\ WF_allVars(GarnetPart /\ PollStepOf(w))
           /\ \A r \in Records : WF_allVars(GarnetPart /\ RecordStep(w, r))

MCSpec == MCInit /\ [][MCNext]_allVars /\ MCFairness

\* When the pod that polled a source stopped or died, a pod polls it again - its
\* lease expires and is taken.
LeaseTakenOver == (part = "lease" /\ Unwatched) ~> WatchedOrGone

\* What every watcher but SharePoint's and OneLake's owes its pipelines once
\* sources and pipelines come to rest (SourceWatchers, GarnetVectors).
EverythingPassedOn == AllPassedOn /\ GarnetConverges
=============================================================================
