--------------------------- MODULE LeaderElection ---------------------------
(***************************************************************************)
(* api/leader_election.py: the replicas of a controller elect the one that  *)
(* runs its main function.  The Lease object at the Kubernetes API has a    *)
(* holder and the time of its last renewal; it is read and replaced under   *)
(* its resourceVersion.  Every two seconds a leader renews and the others   *)
(* try to acquire.                                                         *)
(*                                                                         *)
(* As in PollingLease moments are relative: left is what is left of the     *)
(* lease duration, age what has passed since a replica took the time.      *)
(***************************************************************************)
EXTENDS Integers

CONSTANTS
    Pod,
    NoPod,          \* no Lease object yet
    TTL,            \* lease_duration_seconds
    MaxCall,        \* bound: how long an attempt to acquire or renew takes
    Patience,       \* bound: how long the main function runs without a renewal
    MaxFailures,    \* _max_consecutive_failures
    MaxMishaps       \* bound: crashes and failing calls

ASSUME ElectionAssumption ==
    /\ NoPod \notin Pod
    /\ {TTL, MaxCall, Patience, MaxFailures, MaxMishaps} \subseteq Nat

VARIABLES
    holder,     \* Lease: holder_identity
    left,       \* Lease: renew_time
    pc,         \* per replica: where it is in an attempt, or stopping its main function
    age,        \* per replica: time since now was taken
    fresh,      \* per replica: nobody replaced the Lease since the replica read it
    since,      \* per replica: age of its last renewal
    leader,     \* _is_leader
    failures,   \* _consecutive_failures
    main,       \* the main task runs
    mishaps

lease == <<holder, left>>
vars == <<holder, left, pc, age, fresh, since, leader, failures, main, mishaps>>

\* Less than an attempt can last after its end, a lease is told apart no more.
Over == -MaxCall

Calling == {"read", "create", "replace"}

InCall(p) == pc[p] \in Calling

TypeOK ==
    /\ holder \in Pod \union {NoPod}
    /\ left \in Over .. TTL
    /\ pc \in [Pod -> {"idle", "read", "create", "replace", "stopping", "gone"}]
    /\ age \in [Pod -> 0 .. MaxCall]
    /\ fresh \in [Pod -> BOOLEAN]
    /\ since \in [Pod -> Nat]
    /\ leader \in [Pod -> BOOLEAN]
    /\ failures \in [Pod -> 0 .. MaxFailures]
    /\ main \in [Pod -> BOOLEAN]
    /\ mishaps \in 0 .. MaxMishaps

Init ==
    /\ holder = NoPod
    /\ left = Over
    /\ pc = [p \in Pod |-> "idle"]
    /\ age = [p \in Pod |-> 0]
    /\ fresh = [p \in Pod |-> FALSE]
    /\ since = [p \in Pod |-> 0]
    /\ leader = [p \in Pod |-> FALSE]
    /\ failures = [p \in Pod |-> 0]
    /\ main = [p \in Pod |-> FALSE]
    /\ mishaps = 0

Tick ==
    /\ \A p \in Pod : main[p] => since[p] < Patience
    /\ \A p \in Pod : InCall(p) => age[p] < MaxCall
    /\ left' = IF left > Over THEN left - 1 ELSE left
    /\ age' = [p \in Pod |-> IF InCall(p) THEN age[p] + 1 ELSE age[p]]
    /\ since' = [p \in Pod |-> IF main[p] THEN since[p] + 1 ELSE since[p]]
    /\ UNCHANGED <<holder, pc, fresh, leader, failures, main, mishaps>>

-----------------------------------------------------------------------------
\* run: one round of the loop.
Attempt(p) ==
    /\ pc[p] = "idle"
    /\ pc' = [pc EXCEPT ![p] = "read"]
    /\ age' = [age EXCEPT ![p] = 0]
    /\ UNCHANGED <<lease, fresh, since, leader, failures, main, mishaps>>

\* The attempt succeeded: the main function starts (on_started) or goes on.
Succeeded(p) ==
    /\ pc' = [pc EXCEPT ![p] = "idle"]
    /\ age' = [age EXCEPT ![p] = 0]
    /\ since' = [since EXCEPT ![p] = age[p]]
    /\ leader' = [leader EXCEPT ![p] = TRUE]
    /\ main' = [main EXCEPT ![p] = TRUE]
    /\ failures' = [failures EXCEPT ![p] = 0]

\* A leader steps down; its main function is cancelled and waited for (on_stopped).
StepDown(p) ==
    /\ leader' = [leader EXCEPT ![p] = FALSE]
    /\ pc' = [pc EXCEPT ![p] = IF leader[p] THEN "stopping" ELSE "idle"]
    /\ age' = [age EXCEPT ![p] = 0]
    /\ UNCHANGED <<since, main>>

Stopped(p) ==
    /\ pc[p] = "stopping"
    /\ pc' = [pc EXCEPT ![p] = "idle"]
    /\ main' = [main EXCEPT ![p] = FALSE]
    /\ since' = [since EXCEPT ![p] = 0]
    /\ UNCHANGED <<lease, age, fresh, leader, failures, mishaps>>

\* The attempt returned False.
Refused(p) == StepDown(p) /\ UNCHANGED failures

-----------------------------------------------------------------------------
\* read_namespaced_lease.  A leader only asks whether it holds the lease still, the
\* others also whether it is over.
NeverOver(p) == FALSE  \* mutant: only the holder takes it again

Elapsed(p) == left + age[p] <= 0

MayReplace(p) == holder = p \/ (~leader[p] /\ Elapsed(p))

ReadLease(p) ==
    /\ pc[p] = "read"
    /\ holder # NoPod
    /\ IF MayReplace(p)
       THEN /\ pc' = [pc EXCEPT ![p] = "replace"]
            /\ fresh' = [fresh EXCEPT ![p] = TRUE]
            /\ UNCHANGED <<age, since, leader, failures, main>>
       ELSE Refused(p) /\ UNCHANGED fresh
    /\ UNCHANGED <<lease, mishaps>>

ReadNotFound(p) ==
    /\ pc[p] = "read"
    /\ holder = NoPod
    /\ pc' = [pc EXCEPT ![p] = "create"]
    /\ UNCHANGED <<lease, age, fresh, since, leader, failures, main, mishaps>>

\* The Lease object with this replica's name and time; every other resourceVersion
\* is out of date now.
Written(p) ==
    /\ holder' = p
    /\ left' = TTL - age[p]
    /\ fresh' = [q \in Pod |-> FALSE]

Unconditional(p) == TRUE  \* mutant: the resourceVersion is not sent

SameVersion(p) == fresh[p]

Accepted(p) == (pc[p] = "create" /\ holder = NoPod) \/ (pc[p] = "replace" /\ SameVersion(p))

\* create_namespaced_lease and replace_namespaced_lease; 409 is a refusal.
WriteLease(p) ==
    /\ pc[p] \in {"create", "replace"}
    /\ IF Accepted(p)
       THEN Written(p) /\ Succeeded(p)
       ELSE Refused(p) /\ UNCHANGED <<lease, fresh>>
    /\ UNCHANGED mishaps

\* The call may have been carried out although it failed.
CallFails(p) ==
    /\ InCall(p)
    /\ mishaps < MaxMishaps
    /\ mishaps' = mishaps + 1
    /\ UNCHANGED <<lease, fresh>> \/ (Accepted(p) /\ Written(p))

GivesUp(n) == n >= MaxFailures

\* An ApiException other than 404 and 409 is raised to the loop, which counts it.
ServerError(p) ==
    /\ CallFails(p)
    /\ LET count == IF failures[p] < MaxFailures THEN failures[p] + 1 ELSE MaxFailures
       IN  /\ failures' = [failures EXCEPT ![p] = count]
           /\ IF GivesUp(count)
              THEN StepDown(p)
              ELSE /\ pc' = [pc EXCEPT ![p] = "idle"]
                   /\ age' = [age EXCEPT ![p] = 0]
                   /\ UNCHANGED <<since, leader, main>>

\* Any other exception (no answer, connection refused) makes the attempt return False.
ConnectionError(p) == CallFails(p) /\ Refused(p)

\* The process restarts under its name (HOSTNAME), or the pod is gone for good.
Crash(p) ==
    /\ pc[p] # "gone"
    /\ mishaps < MaxMishaps
    /\ mishaps' = mishaps + 1
    /\ \E next \in {"idle", "gone"} : pc' = [pc EXCEPT ![p] = next]
    /\ age' = [age EXCEPT ![p] = 0]
    /\ since' = [since EXCEPT ![p] = 0]
    /\ leader' = [leader EXCEPT ![p] = FALSE]
    /\ failures' = [failures EXCEPT ![p] = 0]
    /\ main' = [main EXCEPT ![p] = FALSE]
    /\ UNCHANGED <<lease, fresh>>

-----------------------------------------------------------------------------
Attempting(p) == ReadLease(p) \/ ReadNotFound(p) \/ WriteLease(p) \/ Stopped(p)

Next ==
    \/ Tick
    \/ \E p \in Pod : \/ Attempt(p) \/ Attempting(p)
                      \/ ServerError(p) \/ ConnectionError(p) \/ Crash(p)

Spec == Init /\ [][Next]_vars

\* Time passes, every loop goes on and every call ends.
FairSpec == Spec /\ WF_vars(Tick) /\ \A p \in Pod : WF_vars(Attempt(p)) /\ WF_vars(Attempting(p))

-----------------------------------------------------------------------------
\* "Ensures only one instance of a controller is active at a time"
\* (leader_election.py:4).
SingleActive == \A p, q \in Pod : main[p] /\ main[q] => p = q

\* The inductive invariant: a replacement that will be accepted is of the own or an
\* expired lease, and every leader runs the main function.
MayWrite == \A p \in Pod : pc[p] = "replace" /\ fresh[p] => holder = p \/ Elapsed(p)

NoLease == holder = NoPod => left <= 0

LeaderActive == \A p \in Pod : leader[p] => main[p] /\ pc[p] # "stopping"

LeaseInv == TypeOK /\ MayWrite /\ NoLease /\ LeaderActive

\* An attempt, and the time between renewals, is shorter than the lease duration.
Timely == MaxCall < TTL /\ Patience < TTL

\* Who runs the main function holds a lease that lasts as long as its last renewal
\* says.
HoldsLease ==
    \A p \in Pod :
        main[p] => holder = p /\ left + since[p] >= TTL /\ since[p] < TTL /\ age[p] <= since[p]

ElectionInv == LeaseInv /\ (Timely => HoldsLease)

L == INSTANCE Lease WITH left <- IF left <= 0 THEN -1 ELSE left - 1

\* The lease changes hands only when its duration is over.
ImplementsLease == L!LeaseSpec

\* "If the leader dies, another instance will take over" (leader_election.py:34).
TakenOver ==
    (\A p \in Pod : ~main[p]) ~> (\E p \in Pod : main[p]) \/ (\A p \in Pod : pc[p] = "gone")
=============================================================================
