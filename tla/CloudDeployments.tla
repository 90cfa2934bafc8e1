-------------------------- MODULE CloudDeployments --------------------------
(***************************************************************************)
(* Approval-gated deployment jobs.  An administrator prepares a plan and   *)
(* approves it; a worker of some replica claims the job under a lease,     *)
(* writes its progress with the ETag it holds before every call to Azure,  *)
(* and a job whose lease ran out is interrupted, never replayed by itself. *)
(*                                                                         *)
(* There is one job, of any kind.  A worker is at a stage of the script of *)
(* that kind, either about to write its progress or about to call Azure.   *)
(***************************************************************************)
EXTENDS Naturals, Sequences

CONSTANTS DeployWorkers,   \* replicas with a deployment worker
          MaxAttempts,     \* claims of a job
          MaxCrashes       \* bound: workers that stop, calls that fail

VARIABLES job,       \* document of the job
          deployer,  \* of each worker: what it is doing
          azure,     \* what the calls have done, what others have made
          setting,   \* deployments enabled, scopes allowed, references unchanged, plan recent
          crashes
cloudVars == <<job, deployer, azure, setting, crashes>>

\* stages between which the progress is written
Script(kind) ==
    CASE kind = "mcp" -> <<"check", "storage", "plan", "function", "grants", "publish", "verify">>
      [] kind = "foundry" -> <<"check", "connection", "reconcile", "agent">>
      [] kind = "cosmos_container" -> <<"check", "container", "created", "verify">>
      [] kind = "verification" -> <<"check", "infer", "answer">>

NoJob == [kind |-> "none", status |-> "none", etag |-> 0, attempts |-> 0, approvals |-> 0, lease |-> "none", flag |-> FALSE]
IdleDeployer == [pc |-> 0, phase |-> "idle", etag |-> 0, flag |-> FALSE, claim |-> 0]
NoEffects == [inferences |-> 0, agents |-> 0, owned |-> {}, foreign |-> {}]

CloudInit ==
    /\ job = NoJob /\ deployer = [w \in DeployWorkers |-> IdleDeployer]
    /\ azure \in {[NoEffects EXCEPT !.foreign = f] : f \in {{}, {"container", "connection"}, {"function", "agent"}}}
    /\ setting = [enabled |-> TRUE, scopes |-> TRUE, references |-> TRUE, recent |-> TRUE]
    /\ crashes = 0

\* a write that carries the ETag it read
Replace(changed) == job' = [changed EXCEPT !.etag = job.etag + 1]

-----------------------------------------------------------------------------
(* The administrator.                                                       *)

PlanDeployment(kind) ==
    /\ job = NoJob
    /\ job' = [NoJob EXCEPT !.kind = kind, !.status = "awaiting_approval", !.etag = 1]
    /\ UNCHANGED <<deployer, azure, setting, crashes>>

\* require_scopes
Permitted == setting.enabled /\ setting.scopes

Approvable ==
    /\ job.status \in {"awaiting_approval", "failed", "interrupted"} /\ job.attempts < MaxAttempts
    /\ ~(job.kind = "verification" /\ job.flag)
    /\ job.status = "awaiting_approval" => setting.recent
    /\ setting.references /\ Permitted

Approve ==
    /\ Approvable
    /\ Replace([job EXCEPT !.status = "queued", !.approvals = @ + 1])
    /\ UNCHANGED <<deployer, azure, setting, crashes>>

\* an allowed scope is taken back, the destination or model changes, time
\* passes; the age of a plan is read only while it waits for its approval
SettingChanges ==
    /\ job.status \notin {"none", "succeeded"} /\ \A f \in DOMAIN setting : setting[f]   \* bound: one change
    /\ \E f \in {"scopes", "references", "recent"} :
        /\ f = "recent" => job.status = "awaiting_approval"
        /\ setting' = [setting EXCEPT ![f] = FALSE]
    /\ UNCHANGED <<job, deployer, azure, crashes>>

\* the replicas are rolled out with deployments disabled, or enabled again
Disable ==
    /\ job.status \notin {"none", "succeeded"} /\ \A f \in DOMAIN setting : setting[f]
    /\ crashes < MaxCrashes /\ crashes' = crashes + 1
    /\ setting' = [setting EXCEPT !.enabled = FALSE]
    /\ UNCHANGED <<job, deployer, azure>>

Enable ==
    /\ ~setting.enabled
    /\ setting' = [setting EXCEPT !.enabled = TRUE]
    /\ UNCHANGED <<job, deployer, azure, crashes>>

-----------------------------------------------------------------------------
(* Claims and leases.                                                       *)

Idle(w) == deployer[w].phase = "idle"

ClaimJob(w) ==
    /\ Idle(w) /\ setting.enabled /\ job.status = "queued"
    /\ Replace([job EXCEPT !.status = "running", !.attempts = @ + 1, !.lease = "held"])
    /\ deployer' = [deployer EXCEPT ![w] =
            [pc |-> 1, phase |-> "start", etag |-> job.etag + 1, flag |-> job.flag, claim |-> job.attempts + 1]]
    /\ UNCHANGED <<azure, setting, crashes>>

\* the last two minutes of a lease, and its end
LeaseRuns ==
    /\ job.status = "running" /\ job.lease \in {"held", "closing"}
    /\ job' = [job EXCEPT !.lease = IF @ = "held" THEN "closing" ELSE "over"]
    /\ UNCHANGED <<deployer, azure, setting, crashes>>

Interrupt(w) ==
    /\ Idle(w) /\ setting.enabled /\ job.status = "running" /\ job.lease = "over"
    /\ Replace([job EXCEPT !.status = "interrupted"])
    /\ UNCHANGED <<deployer, azure, setting, crashes>>

\* the lease of this worker's claim
LeaseOf(w) == IF deployer[w].claim = job.attempts THEN job.lease ELSE "over"
Owns(w) == deployer[w].etag = job.etag

-----------------------------------------------------------------------------
(* A worker.                                                                *)

Stage(w) == Script(job.kind)[deployer[w].pc]
Finished(w) == deployer' = [deployer EXCEPT ![w] = IdleDeployer]

\* the failure is written if the job is still the worker's
Fail(w) ==
    /\ IF Owns(w) THEN Replace([job EXCEPT !.status = "failed"]) ELSE UNCHANGED job
    /\ Finished(w)

\* the scopes and the references are checked before anything is done
StartJob(w) ==
    /\ deployer[w].phase = "start"
    /\ IF Permitted /\ setting.references
       THEN deployer' = [deployer EXCEPT ![w].phase = "progress"] /\ UNCHANGED job
       ELSE Fail(w)
    /\ UNCHANGED <<azure, setting, crashes>>

\* a bug: the creation of a container is recorded before the call, not after it
MarkedEarly(w) == IF Stage(w) \in {"infer", "agent", "container"} THEN TRUE ELSE deployer[w].flag

\* what a stage records in the document before its call: an inference and the
\* creation of an agent before the call, that of a container after it
Marked(w) == IF Stage(w) \in {"infer", "agent", "created"} THEN TRUE ELSE deployer[w].flag

\* refused before the progress is written
StageRefused(w) ==
    \/ Stage(w) \in {"infer", "agent"} /\ deployer[w].flag

Progress(w) ==
    /\ deployer[w].phase = "progress"
    /\ IF LeaseOf(w) # "held" \/ ~Permitted \/ StageRefused(w) THEN Fail(w)
       ELSE IF Owns(w)
       THEN /\ Replace([job EXCEPT !.flag = Marked(w)])
            /\ deployer' = [deployer EXCEPT ![w].phase = "call", ![w].etag = job.etag + 1, ![w].flag = Marked(w)]
       ELSE Finished(w) /\ UNCHANGED job
    /\ UNCHANGED <<azure, setting, crashes>>

\* The stages that make a resource look whether there is one.  Most resources
\* carry a tag with the job, or metadata; a container does not, and is known by
\* what the document records.
AzureResources == {"storage", "plan", "function", "container", "connection", "agent"}
InAzure(r) == r \in azure.foreign \cup azure.owned
Foreign(w) ==
    \/ Stage(w) \in {"storage", "plan", "function", "connection"} /\ Stage(w) \in azure.foreign
    \/ Stage(w) = "container" /\ InAzure("container") /\ ~deployer[w].flag
    \/ Stage(w) = "reconcile" /\ "agent" \in azure.foreign

\* a container that exists is not written again
Effect(w) ==
    LET s == Stage(w) IN
    [azure EXCEPT !.inferences = IF s = "infer" THEN @ + 1 ELSE @,
                  !.agents = IF s = "agent" THEN @ + 1 ELSE @,
                  !.owned = IF s \in AzureResources /\ ~(s = "container" /\ InAzure(s)) THEN @ \cup {s} ELSE @]

\* an agent of the job that exists is the result
Reconciled(w) == Stage(w) = "reconcile" /\ azure.agents > 0
LastStage(w) == deployer[w].pc = Len(Script(job.kind)) \/ Reconciled(w)

\* the call succeeds and the job goes on, or ends
AzureCall(w) ==
    /\ deployer[w].phase = "call" /\ ~Foreign(w)
    /\ azure' = Effect(w)
    /\ IF ~LastStage(w) THEN deployer' = [deployer EXCEPT ![w].pc = @ + 1, ![w].phase = "progress"] /\ UNCHANGED job
       ELSE /\ IF Owns(w) THEN Replace([job EXCEPT !.status = "succeeded"]) ELSE UNCHANGED job
            /\ Finished(w)
    /\ UNCHANGED <<setting, crashes>>

\* a check of the plan against what Azure returns fails
CallRefused(w) == deployer[w].phase = "call" /\ Foreign(w) /\ Fail(w) /\ UNCHANGED <<azure, setting, crashes>>

\* the answer is an error or does not come: Azure may have done it or not
AzureFails(w) ==
    /\ deployer[w].phase = "call" /\ crashes < MaxCrashes
    /\ crashes' = crashes + 1
    /\ azure' \in {azure, IF Foreign(w) THEN azure ELSE Effect(w)}
    /\ Fail(w)
    /\ UNCHANGED setting

DeployerCrashes(w) ==
    /\ ~Idle(w) /\ crashes < MaxCrashes
    /\ crashes' = crashes + 1 /\ Finished(w)
    /\ UNCHANGED <<job, azure, setting>>

-----------------------------------------------------------------------------

DeployerStep(w) == ClaimJob(w) \/ Interrupt(w) \/ StartJob(w) \/ Progress(w) \/ AzureCall(w) \/ CallRefused(w)

CloudNext ==
    \/ (\E kind \in {"mcp", "foundry", "cosmos_container", "verification"} : PlanDeployment(kind))
    \/ Approve \/ SettingChanges \/ Disable \/ Enable \/ LeaseRuns
    \/ (\E w \in DeployWorkers : DeployerStep(w) \/ AzureFails(w) \/ DeployerCrashes(w))

CloudSpec == CloudInit /\ [][CloudNext]_cloudVars

-----------------------------------------------------------------------------

\* Work that costs money or cannot be undone is never repeated by itself: every
\* claim has an approval of its own, a billed inference and the creation of an
\* agent happen at most once per job, whatever workers stall, stop or overlap.
\* "Existing containers will not be adopted or changed": nothing that others
\* have made is written, and a job that succeeds has made all of its resources.
DeployedOnce ==
    /\ job.attempts <= job.approvals
    /\ azure.inferences <= 1 /\ azure.agents <= 1
    /\ azure.foreign \cap azure.owned = {}
    /\ job.status = "succeeded" =>
           \A i \in 1..Len(Script(job.kind)) : Script(job.kind)[i] \in AzureResources => Script(job.kind)[i] \in azure.owned

\* No job waits for a worker while deployments are enabled.
DeploymentSettled == setting.enabled => job.status \notin {"queued", "running"}
=============================================================================
