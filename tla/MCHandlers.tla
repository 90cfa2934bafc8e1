----------------------------- MODULE MCHandlers -----------------------------
(* Handlers that overlap: the deliveries of an envelope in the worker, the   *)
(* approvals of the agent, and the requests about models in the API, the     *)
(* controller and the router.  A behaviour is one of one part, chosen in the *)
(* initial state, while the others keep one state.                           *)
EXTENDS QueueEnvelope, AgentApprovals, ModelRegistry, TLC

CONSTANTS Parts, m1

VARIABLE part
allVars == <<part, envelopeVars, vars, modelVars>>

\* one model, which one pipeline uses
MCModelOf == [p \in Pipelines |-> m1]

MCInit ==
    /\ part \in Parts
    /\ EnvelopeInit /\ (part # "envelope" => healthy /\ kind = [d \in Doc |-> "good"])
    /\ Init /\ (part # "approvals" => \A t, u \in Task : req[t] = req[u])
    /\ ModelInit
    /\ part # "registry" => snapshot = [p \in Pipelines |-> NoPipelineDoc] /\ \A m \in Models : vault[m] = NoKey

\* the requests that the bound allows are served
RegistryRests == modelOps = MaxModelOps /\ (\A c \in Callers : request[c] = Waiting) /\ UNCHANGED modelVars

MCNext ==
    \/ part = "envelope" /\ EnvelopeNext /\ UNCHANGED <<part, vars, modelVars>>
    \/ part = "approvals" /\ Next /\ UNCHANGED <<part, envelopeVars, modelVars>>
    \/ part = "registry" /\ (ModelNext \/ RegistryRests) /\ UNCHANGED <<part, envelopeVars, vars>>

MCSpec == MCInit /\ [][MCNext]_allVars

Symmetric == Permutations(Doc) \union Permutations(Task) \union Permutations(CallId) \union Permutations(Callers)
=============================================================================
