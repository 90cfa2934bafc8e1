-------------------------------- MODULE Lease --------------------------------
(***************************************************************************)
(* What a lease in a shared store promises: it changes hands only when its  *)
(* term is over or was given back.  PollingLease (Cosmos DB documents) and  *)
(* LeaderElection (Kubernetes Lease objects) implement it.                  *)
(***************************************************************************)
EXTENDS Integers

CONSTANTS
    Pod,
    NoPod,  \* nobody held the lease yet
    TTL     \* a term lasts at most so long

VARIABLES
    holder,
    left    \* what is left of the term, -1 when it is over

LeaseInit == holder = NoPod /\ left = -1

Grant(p) ==
    /\ holder = p \/ left < 0
    /\ holder' = p
    /\ left' \in -1 .. TTL

GiveBack(p) ==
    /\ holder = p
    /\ left' = -1
    /\ UNCHANGED holder

Elapse ==
    /\ left >= 0
    /\ left' = left - 1
    /\ UNCHANGED holder

LeaseNext == Elapse \/ \E p \in Pod : Grant(p) \/ GiveBack(p)

LeaseSpec == LeaseInit /\ [][LeaseNext]_<<holder, left>>
=============================================================================
