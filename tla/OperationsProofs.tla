--------------------------- MODULE OperationsProofs ---------------------------
(***************************************************************************)
(* Proofs about the parts around the core, for every value of their         *)
(* constants: cloud deployments, telemetry, synthetic runs, progress and    *)
(* checkpoints, write-back to OneLake, health checks, packing of messages,  *)
(* and the election of the API's leader.                                    *)
(***************************************************************************)
EXTENDS CloudDeployments, Telemetry, SyntheticRuns, ProgressReports, OneLake, HealthChecks,
        QueuePublish, LeaderElection, FoldLemmas,
        SequenceTheorems, FiniteSetTheorems, WellFoundedInduction, TLAPS

-----------------------------------------------------------------------------
(* CloudDeployments: what costs money happens once.                         *)

Kinds == {"none", "mcp", "foundry", "cosmos_container", "verification"}
Statuses == {"none", "awaiting_approval", "queued", "running", "succeeded", "failed", "interrupted"}

Leases == {"none", "held", "closing", "over"}
Phases == {"idle", "start", "progress", "call"}
CloudJob == [kind : Kinds, status : Statuses, etag : Nat, attempts : Nat, approvals : Nat, lease : Leases, flag : BOOLEAN]
Deployer == [pc : Nat, phase : Phases, etag : Nat, flag : BOOLEAN, claim : Nat]

CloudTyped ==
    /\ job \in CloudJob
    /\ deployer \in [DeployWorkers -> Deployer]
    /\ azure.inferences \in Nat /\ azure.agents \in Nat
    /\ DOMAIN azure = {"inferences", "agents", "owned", "foreign"}

\* A claim uses up an approval.
Approved == job.attempts <= job.approvals /\ (job.status = "queued" => job.attempts < job.approvals)

\* A worker knows a former document, or the current one if it has its ETag, and
\* what it has marked is marked.
Holding ==
    /\ \A w \in DeployWorkers :
        /\ deployer[w].etag <= job.etag
        /\ ~Idle(w) /\ Owns(w) => deployer[w].flag = job.flag
        /\ deployer[w].flag => job.flag
    /\ job = NoJob => \A w \in DeployWorkers : Idle(w)

\* A worker is about to do what must not be repeated.
Spending(w) == deployer[w].phase = "call" /\ Stage(w) \in {"infer", "agent"}

\* It is marked before one worker does it, and done at most once.
SpentOnce ==
    /\ azure.inferences + azure.agents <= 1
    /\ \A w \in DeployWorkers : Spending(w) => azure.inferences + azure.agents = 0 /\ deployer[w].flag
    /\ \A v, w \in DeployWorkers : Spending(v) /\ Spending(w) => v = w
    /\ ~job.flag => azure.inferences + azure.agents = 0

CloudIInv == CloudTyped /\ Approved /\ Holding /\ SpentOnce

\* A stage made its resource; a reconciliation has found no agent of others.
StageDone(s) == (s \in AzureResources => s \in azure.owned) /\ (s = "reconcile" => "agent" \notin azure.foreign)
StagesOfJob == Script(job.kind)

\* What others have made stays theirs: a container that is noted in the document
\* is the job's, and the stages that a worker has behind it have succeeded.
Built ==
    /\ azure.foreign \cap azure.owned = {} /\ (azure.agents > 0 => "agent" \in azure.owned)
    /\ job.kind = "cosmos_container" /\ job.flag => "container" \in azure.owned
    /\ job.kind = "none" => job = NoJob
    /\ \A w \in DeployWorkers : ~Idle(w) => /\ deployer[w].pc \in 1..Len(StagesOfJob)
                                            /\ \A i \in 1..(deployer[w].pc - 1) : StageDone(StagesOfJob[i])
    /\ job.status = "succeeded" => \A i \in 1..Len(StagesOfJob) : StageDone(StagesOfJob[i])

LEMMA CloudTypes ==
  /\ NoJob \in CloudJob /\ IdleDeployer \in Deployer
  /\ {"awaiting_approval", "queued", "running", "succeeded", "failed", "interrupted"} \subseteq Statuses
  /\ {"held", "closing", "over"} \subseteq Leases
BY DEF NoJob, IdleDeployer, CloudJob, Deployer, Kinds, Statuses, Leases, Phases

LEMMA CloudFacts ==
  ASSUME CloudTyped
  PROVE  /\ job \in CloudJob /\ job.etag \in Nat /\ job.attempts \in Nat /\ job.approvals \in Nat /\ job.flag \in BOOLEAN
         /\ \A w \in DeployWorkers : /\ deployer[w] \in Deployer /\ deployer[w].etag \in Nat /\ deployer[w].pc \in Nat
                                    /\ deployer[w].flag \in BOOLEAN
         /\ azure.inferences \in Nat /\ azure.agents \in Nat
<1>1. job \in CloudJob /\ \A w \in DeployWorkers : deployer[w] \in Deployer
  BY DEF CloudTyped
<1>2. azure.inferences \in Nat /\ azure.agents \in Nat
  BY DEF CloudTyped
<1> QED BY <1>1, <1>2 DEF CloudJob, Deployer

\* What a worker that is not refused does to Azure.
LEMMA EffectProperties ==
  ASSUME CloudTyped, NEW w \in DeployWorkers
  PROVE  /\ Effect(w).inferences \in Nat /\ Effect(w).agents \in Nat /\ DOMAIN Effect(w) = {"inferences", "agents", "owned", "foreign"}
         /\ Stage(w) \in {"infer", "agent"} => Effect(w).inferences + Effect(w).agents = azure.inferences + azure.agents + 1
         /\ Stage(w) \notin {"infer", "agent"} => Effect(w).inferences + Effect(w).agents = azure.inferences + azure.agents
         /\ Effect(w).agents = (IF Stage(w) = "agent" THEN azure.agents + 1 ELSE azure.agents)
         /\ Effect(w).foreign = azure.foreign
         /\ Effect(w).owned = IF Stage(w) \in AzureResources /\ ~(Stage(w) = "container" /\ InAzure(Stage(w)))
                      THEN azure.owned \cup {Stage(w)} ELSE azure.owned
<1>1. azure.inferences \in Nat /\ azure.agents \in Nat /\ DOMAIN azure = {"inferences", "agents", "owned", "foreign"}
  BY DEF CloudTyped
<1>2. PICK i : i = IF Stage(w) = "infer" THEN azure.inferences + 1 ELSE azure.inferences
  OBVIOUS
<1>3. PICK n : n = IF Stage(w) = "agent" THEN azure.agents + 1 ELSE azure.agents
  OBVIOUS
<1>4. PICK o : o = IF Stage(w) \in AzureResources /\ ~(Stage(w) = "container" /\ InAzure(Stage(w)))
                   THEN azure.owned \cup {Stage(w)} ELSE azure.owned
  OBVIOUS
<1>5. Effect(w) = [azure EXCEPT !.inferences = i, !.agents = n, !.owned = o]
  BY <1>2, <1>3, <1>4 DEF Effect
<1>6. /\ Effect(w).inferences = i /\ Effect(w).agents = n /\ Effect(w).owned = o /\ Effect(w).foreign = azure.foreign
      /\ DOMAIN Effect(w) = {"inferences", "agents", "owned", "foreign"}
  BY <1>1, <1>5
<1> QED BY <1>1, <1>2, <1>3, <1>4, <1>6

\* A worker ends, after its call, a failure or a crash, and notes at most the end.
LEMMA WorkerEnds ==
  ASSUME CloudIInv, NEW w \in DeployWorkers, ~Idle(w), Finished(w),
         \/ job' = job
         \/ \E s \in {"failed", "succeeded"} : job' = [job EXCEPT !.status = s, !.etag = job.etag + 1],
         azure' = azure \/ (deployer[w].phase = "call" /\ azure' = Effect(w))
  PROVE  CloudIInv'
<1>1. CloudTyped /\ Approved /\ Holding /\ SpentOnce
  BY DEF CloudIInv
<1>2. deployer' = [deployer EXCEPT ![w] = IdleDeployer]
  BY DEF Finished
<1>3. deployer'[w] = IdleDeployer /\ \A v \in DeployWorkers \ {w} : deployer'[v] = deployer[v]
  BY <1>1, <1>2 DEF CloudTyped
<1>4. /\ job'.kind = job.kind /\ job'.flag = job.flag /\ job'.attempts = job.attempts /\ job'.approvals = job.approvals
      /\ job'.status \in {job.status, "failed", "succeeded"}
      /\ (job'.etag = job.etag /\ job' = job) \/ job'.etag = job.etag + 1
      /\ job' \in CloudJob
  <2>1. job \in CloudJob /\ \A s \in {"failed", "succeeded"} : s \in Statuses
    BY <1>1, CloudTypes DEF CloudTyped
  <2>2. PICK n \in Nat : n = job.etag + 1
    BY <1>1, CloudFacts
  <2>3. CASE job' = job
    BY <2>1, <2>3
  <2>4. ASSUME NEW s \in {"failed", "succeeded"}, job' = [job EXCEPT !.status = s, !.etag = n]
        PROVE  /\ job' \in CloudJob /\ job'.kind = job.kind /\ job'.status = s /\ job'.etag = n
               /\ job'.attempts = job.attempts /\ job'.approvals = job.approvals /\ job'.flag = job.flag
    BY <2>1, <2>4 DEF CloudJob
  <2> QED BY <2>2, <2>3, <2>4
<1>5. /\ azure'.inferences \in Nat /\ azure'.agents \in Nat /\ DOMAIN azure' = {"inferences", "agents", "owned", "foreign"}
      /\ Spending(w) => azure'.inferences + azure'.agents <= azure.inferences + azure.agents + 1
      /\ ~Spending(w) => azure'.inferences + azure'.agents = azure.inferences + azure.agents
  <2>1. CASE azure' = azure
    BY <1>1, <2>1 DEF CloudTyped
  <2>2. CASE deployer[w].phase = "call" /\ azure' = Effect(w)
    <3>1. /\ Effect(w).inferences \in Nat /\ Effect(w).agents \in Nat
          /\ DOMAIN Effect(w) = {"inferences", "agents", "owned", "foreign"}
          /\ Spending(w) => Effect(w).inferences + Effect(w).agents = azure.inferences + azure.agents + 1
          /\ ~Spending(w) => Effect(w).inferences + Effect(w).agents = azure.inferences + azure.agents
      BY <1>1, <2>2, EffectProperties DEF Spending
    <3>2. azure.inferences + azure.agents \in Nat
      BY <1>1 DEF CloudTyped
    <3> QED BY <2>2, <3>1, <3>2
  <2> QED BY <2>1, <2>2
<1>6. CloudTyped'
  BY <1>1, <1>2, <1>4, <1>5, CloudTypes DEF CloudTyped
<1>7. Approved'
  BY <1>1, <1>4 DEF Approved
<1>8. Holding'
  <2>1. job # NoJob /\ job' # NoJob
    <3>1. job # NoJob
      BY <1>1 DEF Holding
    <3>2. job'.etag = job.etag + 1 => job'.etag # 0
      BY <1>1, CloudFacts
    <3> QED BY <1>4, <3>1, <3>2 DEF NoJob
  <2>2. \A v \in DeployWorkers : deployer[v].etag \in Nat
    BY <1>1, CloudFacts
  <2>3. job.etag \in Nat
    BY <1>1, CloudFacts
  <2>4. ASSUME NEW v \in DeployWorkers
        PROVE  /\ deployer'[v].etag <= job'.etag
               /\ deployer'[v].phase # "idle" /\ deployer'[v].etag = job'.etag => deployer'[v].flag = job'.flag
               /\ deployer'[v].flag => job'.flag
    <3>1. CASE v = w
      BY <1>3, <1>4, <2>3, <3>1 DEF IdleDeployer
    <3>2. CASE v # w
      BY <1>1, <1>3, <1>4, <2>2, <2>3, <3>2 DEF Holding, Idle, Owns
    <3> QED BY <3>1, <3>2
  <2> QED BY <2>1, <2>4 DEF Holding, Idle, Owns
<1>9. SpentOnce'
  <2>1. ~Spending(w)'
    BY <1>3 DEF Spending, IdleDeployer
  <2>2. \A v \in DeployWorkers \ {w} : (Spending(v)' <=> Spending(v)) /\ deployer'[v].flag = deployer[v].flag
    BY <1>3, <1>4 DEF Spending, Stage
  <2>3. azure.inferences + azure.agents \in Nat /\ azure'.inferences + azure'.agents \in Nat
    BY <1>1, <1>5 DEF CloudTyped
  <2>4. CASE Spending(w)
    <3>1. azure.inferences + azure.agents = 0 /\ job.flag /\ \A v \in DeployWorkers \ {w} : ~Spending(v)
      BY <1>1, <2>4 DEF SpentOnce, Holding
    <3> QED BY <1>4, <1>5, <2>1, <2>2, <2>3, <2>4, <3>1 DEF SpentOnce
  <2>5. CASE ~Spending(w)
    BY <1>1, <1>4, <1>5, <2>1, <2>2, <2>5 DEF SpentOnce
  <2> QED BY <2>4, <2>5
<1> QED BY <1>5, <1>6, <1>7, <1>8, <1>9 DEF CloudIInv

\* Approve, Interrupt and LeaseRuns: nothing happens to workers
\* or in Azure, and a write of the document has an ETag of its own.
LEMMA DocumentStep ==
  ASSUME CloudIInv, UNCHANGED <<deployer, azure>>, job # NoJob,
         job'.kind = job.kind, job'.flag = job.flag, job'.attempts = job.attempts,
         job'.etag \in {job.etag, job.etag + 1},
         job'.status # "none",
         job' \in CloudJob,
         (job'.approvals = job.approvals /\ job'.status \in {job.status, "interrupted"}) \/ job'.approvals = job.approvals + 1
  PROVE  CloudIInv'
<1>1. CloudTyped /\ Approved /\ Holding /\ SpentOnce
  BY DEF CloudIInv
<1>2. CloudTyped' /\ Approved'
  <2>1. job.approvals \in Nat /\ job.attempts \in Nat
    BY <1>1, CloudFacts
  <2> QED BY <1>1, <2>1 DEF CloudTyped, Approved
<1>3. Holding'
  <2>1. job' # NoJob
    BY DEF NoJob
  <2>2. job.etag \in Nat /\ \A v \in DeployWorkers : deployer[v].etag \in Nat
    BY <1>1, CloudFacts
  <2> QED BY <1>1, <2>1, <2>2 DEF Holding, Idle, Owns
<1>4. SpentOnce'
  BY <1>1 DEF SpentOnce, Spending, Stage
<1> QED BY <1>2, <1>3, <1>4 DEF CloudIInv

LEMMA AdministratorKeeps ==
  ASSUME CloudIInv, Approve \/ LeaseRuns \/ \E w \in DeployWorkers : Interrupt(w)
  PROVE  CloudIInv'
<1>1. UNCHANGED <<deployer, azure>> /\ job # NoJob
  BY DEF Approve, Approvable, LeaseRuns, Interrupt, NoJob
<1>2. CloudTyped /\ job \in CloudJob
  BY CloudFacts DEF CloudIInv
<1>3. PICK n \in Nat : n = job.etag + 1
  BY <1>2, CloudFacts
<1>4. PICK m \in Nat : m = job.approvals + 1
  BY <1>2, CloudFacts
<1>5. CASE Approve
  <2>1. job' = [job EXCEPT !.status = "queued", !.approvals = m, !.etag = n]
    BY <1>3, <1>4, <1>5 DEF Approve, Replace
  <2>2. /\ job' \in CloudJob /\ job'.kind = job.kind /\ job'.status = "queued" /\ job'.etag = n
        /\ job'.attempts = job.attempts /\ job'.approvals = m /\ job'.flag = job.flag
    BY <1>2, <2>1, CloudTypes DEF CloudJob
  <2> QED BY <1>1, <1>3, <1>4, <2>2, DocumentStep
<1>6. CASE SettingChanges
  <2>1. job' = job /\ job.status # "none"
    BY <1>6 DEF SettingChanges
  <2> QED BY <1>1, <1>2, <2>1, DocumentStep
<1>7. CASE LeaseRuns
  <2>1. PICK l \in {"closing", "over"} : job' = [job EXCEPT !.lease = l]
    BY <1>7 DEF LeaseRuns
  <2>2. l \in Leases /\ job.status = "running"
    BY <1>7, CloudTypes DEF LeaseRuns
  <2>3. /\ job' \in CloudJob /\ job'.kind = job.kind /\ job'.status = job.status /\ job'.etag = job.etag
        /\ job'.attempts = job.attempts /\ job'.approvals = job.approvals /\ job'.flag = job.flag
    BY <1>2, <2>1, <2>2 DEF CloudJob
  <2> QED BY <1>1, <2>2, <2>3, DocumentStep
<1>8. CASE \E w \in DeployWorkers : Interrupt(w)
  <2>1. job' = [job EXCEPT !.status = "interrupted", !.etag = n]
    BY <1>3, <1>8 DEF Interrupt, Replace
  <2>2. /\ job' \in CloudJob /\ job'.kind = job.kind /\ job'.status = "interrupted" /\ job'.etag = n
        /\ job'.attempts = job.attempts /\ job'.approvals = job.approvals /\ job'.flag = job.flag
    BY <1>2, <2>1, CloudTypes DEF CloudJob
  <2> QED BY <1>1, <1>3, <2>2, DocumentStep
<1> QED BY <1>5, <1>6, <1>7, <1>8

\* PlanDeployment: there was no job, so that nobody works on one.
LEMMA PlanKeeps ==
  ASSUME CloudIInv, NEW kind \in Kinds \ {"none"}, PlanDeployment(kind)
  PROVE  CloudIInv'
<1>1. CloudTyped /\ Holding /\ SpentOnce /\ job = NoJob
  BY DEF CloudIInv, PlanDeployment
<1>2. job' = [NoJob EXCEPT !.kind = kind, !.status = "awaiting_approval", !.etag = 1] /\ UNCHANGED <<deployer, azure>>
  BY DEF PlanDeployment
<1>3. CloudTyped' /\ Approved'
  <2>1. "awaiting_approval" \in Statuses /\ "none" \in Leases
    BY DEF Statuses, Leases
  <2>2. job' \in CloudJob /\ job'.attempts = 0 /\ job'.approvals = 0 /\ job'.status = "awaiting_approval"
    BY <1>2, <2>1 DEF NoJob, CloudJob
  <2> QED BY <1>1, <1>2, <2>2 DEF CloudTyped, Approved
<1>4. Holding'
  <2>1. job.etag = 0 /\ ~job.flag /\ job'.etag = 1 /\ ~job'.flag /\ job' # NoJob
    BY <1>1, <1>2 DEF NoJob
  <2>2. \A w \in DeployWorkers : deployer[w].etag \in Nat /\ deployer[w].flag \in BOOLEAN
    <3>1. \A w \in DeployWorkers : deployer[w] \in Deployer
      BY DEF CloudIInv, CloudTyped
    <3> QED BY <3>1 DEF Deployer
  <2> QED BY <1>1, <1>2, <2>1, <2>2 DEF Holding, Idle, Owns
<1>5. SpentOnce'
  BY <1>1, <1>2 DEF SpentOnce, Spending, Holding, Idle, NoJob
<1> QED BY <1>2, <1>3, <1>4, <1>5 DEF CloudIInv

\* ClaimJob: the worker knows what is marked, and the claim uses up an approval.
LEMMA ClaimKeeps ==
  ASSUME CloudIInv, NEW w \in DeployWorkers, ClaimJob(w)
  PROVE  CloudIInv'
<1>1. CloudTyped /\ Approved /\ Holding /\ SpentOnce
  BY DEF CloudIInv
<1>2. /\ job' = [job EXCEPT !.status = "running", !.attempts = job.attempts + 1, !.lease = "held", !.etag = job.etag + 1]
      /\ UNCHANGED azure /\ job.status = "queued"
  BY DEF ClaimJob, Replace
<1>3. /\ deployer'[w] = [pc |-> 1, phase |-> "start", etag |-> job.etag + 1, flag |-> job.flag, claim |-> job.attempts + 1]
      /\ \A v \in DeployWorkers \ {w} : deployer'[v] = deployer[v]
  BY <1>1 DEF ClaimJob, CloudTyped
<1>4. PICK n \in Nat, m \in Nat : n = job.etag + 1 /\ m = job.attempts + 1
  BY <1>1, CloudFacts
<1>5. /\ job' \in CloudJob /\ job'.kind = job.kind /\ job'.flag = job.flag /\ job'.etag = n /\ job'.attempts = m
      /\ job'.approvals = job.approvals /\ job'.status = "running"
  <2>1. job' = [job EXCEPT !.status = "running", !.attempts = m, !.lease = "held", !.etag = n]
    BY <1>2, <1>4
  <2> QED BY <1>1, <2>1, CloudTypes, CloudFacts DEF CloudJob
<1>6. /\ job'.etag = job.etag + 1 /\ job.etag \in Nat
      /\ job' # NoJob /\ \A v \in DeployWorkers : deployer[v].etag \in Nat
  BY <1>1, <1>4, <1>5, CloudFacts DEF NoJob
<1>7. CloudTyped' /\ Approved'
  <2>1. [pc |-> 1, phase |-> "start", etag |-> n, flag |-> job.flag, claim |-> m] \in Deployer
    BY <1>1, CloudFacts DEF Deployer, Phases
  <2>2. deployer' \in [DeployWorkers -> Deployer]
    BY <1>1, <1>4, <2>1 DEF ClaimJob, CloudTyped
  <2>3. job.attempts \in Nat /\ job.approvals \in Nat
    BY <1>1, CloudFacts
  <2> QED BY <1>1, <1>2, <1>4, <1>5, <2>2, <2>3 DEF CloudTyped, Approved
<1>8. Holding'
  BY <1>1, <1>3, <1>5, <1>6 DEF Holding, Idle, Owns
<1>9. SpentOnce'
  <2>1. ~Spending(w)' /\ \A v \in DeployWorkers \ {w} : (Spending(v)' <=> Spending(v)) /\ deployer'[v].flag = deployer[v].flag
    BY <1>3, <1>5 DEF Spending, Stage
  <2> QED BY <1>1, <1>2, <1>5, <2>1 DEF SpentOnce
<1> QED BY <1>2, <1>7, <1>8, <1>9 DEF CloudIInv

\* Progress: the mark is written before the call, and only where there is none.
LEMMA ProgressKeeps ==
  ASSUME CloudIInv, NEW w \in DeployWorkers, Progress(w)
  PROVE  CloudIInv'
<1>1. CloudTyped /\ Approved /\ Holding /\ SpentOnce
  BY DEF CloudIInv
<1>2. ~Idle(w) /\ azure' = azure
  BY DEF Progress, Idle
<1>3. CASE Fail(w)
  BY <1>2, <1>3, WorkerEnds DEF Fail, Replace
<1>4. CASE Finished(w) /\ UNCHANGED job
  BY <1>2, <1>4, WorkerEnds
<1>5. CASE /\ Owns(w) /\ ~StageRefused(w)
           /\ Replace([job EXCEPT !.flag = Marked(w)])
           /\ deployer' = [deployer EXCEPT ![w].phase = "call", ![w].etag = job.etag + 1, ![w].flag = Marked(w)]
  <2>1. deployer[w].flag = job.flag /\ job.flag \in BOOLEAN /\ Marked(w) \in BOOLEAN
    BY <1>1, <1>2, <1>5, CloudFacts DEF Holding, Marked
  <2>2. PICK n \in Nat : n = job.etag + 1
    BY <1>1, CloudFacts
  <2>3. /\ deployer'[w].phase = "call" /\ deployer'[w].etag = job.etag + 1 /\ deployer'[w].flag = Marked(w)
        /\ deployer'[w].pc = deployer[w].pc
        /\ \A v \in DeployWorkers \ {w} : deployer'[v] = deployer[v]
    BY <1>1, <1>5 DEF CloudTyped
  <2>4. /\ job'.kind = job.kind /\ job'.etag = job.etag + 1 /\ job.etag \in Nat /\ job'.flag = Marked(w)
        /\ job' # NoJob /\ \A v \in DeployWorkers : deployer[v].etag \in Nat
        /\ job' \in CloudJob /\ job'.status = job.status /\ job'.attempts = job.attempts /\ job'.approvals = job.approvals
    <3>1. job' = [job EXCEPT !.flag = Marked(w), !.etag = n]
      BY <1>5, <2>2 DEF Replace
    <3>2. job \in CloudJob /\ job.status \in Statuses /\ job.etag \in Nat /\ \A v \in DeployWorkers : deployer[v].etag \in Nat
      BY <1>1, CloudFacts DEF CloudJob
    <3>3. /\ job' \in CloudJob /\ job'.kind = job.kind /\ job'.etag = n /\ job'.flag = Marked(w)
          /\ job'.status = job.status /\ job'.attempts = job.attempts /\ job'.approvals = job.approvals
      BY <2>1, <3>1, <3>2 DEF CloudJob
    <3> QED BY <2>2, <3>2, <3>3 DEF NoJob
  <2>5. CloudTyped' /\ Approved'
    <3>1. deployer[w] \in Deployer /\ "call" \in Phases
      BY <1>1, CloudFacts DEF Phases
    <3>2. [deployer[w] EXCEPT !.phase = "call", !.etag = n, !.flag = Marked(w)] \in Deployer
      BY <2>1, <3>1 DEF Deployer
    <3>3. deployer' = [deployer EXCEPT ![w] = [deployer[w] EXCEPT !.phase = "call", !.etag = n, !.flag = Marked(w)]]
      BY <1>5, <2>2
    <3> QED BY <1>1, <1>2, <2>4, <3>2, <3>3 DEF CloudTyped, Approved
  <2>6. job.flag => Marked(w)
    BY <2>1 DEF Marked
  <2>7. Holding'
    BY <1>1, <2>3, <2>4, <2>6 DEF Holding, Idle, Owns
  <2>8. SpentOnce'
    <3>1. Stage(w)' = Stage(w) /\ (Spending(w)' <=> Stage(w) \in {"infer", "agent"})
      BY <2>3, <2>4 DEF Spending, Stage
    <3>2. \A v \in DeployWorkers \ {w} : (Spending(v)' <=> Spending(v)) /\ deployer'[v].flag = deployer[v].flag
      BY <2>3, <2>4 DEF Spending, Stage
    <3>3. CASE Stage(w) \in {"infer", "agent"}
      <4>1. ~job.flag /\ Marked(w)
        BY <1>5, <2>1, <3>3 DEF StageRefused, Marked
      <4>2. azure.inferences + azure.agents = 0 /\ \A v \in DeployWorkers : ~Spending(v)
        BY <1>1, <4>1 DEF SpentOnce, Holding
      <4>3. \A v \in DeployWorkers : Spending(v)' => v = w
        BY <3>2, <4>2
      <4>4. azure'.inferences + azure'.agents = 0
        BY <1>2, <4>2
      <4>5. \A v \in DeployWorkers : Spending(v)' => deployer'[v].flag
        BY <2>3, <4>1, <4>3
      <4> QED BY <4>3, <4>4, <4>5 DEF SpentOnce
    <3>4. CASE Stage(w) \notin {"infer", "agent"}
      BY <1>1, <1>2, <2>4, <2>6, <3>1, <3>2, <3>4 DEF SpentOnce
    <3> QED BY <3>3, <3>4
  <2> QED BY <1>2, <2>5, <2>7, <2>8 DEF CloudIInv
<1> QED BY <1>3, <1>4, <1>5 DEF Progress

\* StartJob: the worker goes on to its first stage, or fails.
LEMMA StartKeeps ==
  ASSUME CloudIInv, NEW w \in DeployWorkers, StartJob(w)
  PROVE  CloudIInv'
<1>1. CloudTyped /\ Approved /\ Holding /\ SpentOnce
  BY DEF CloudIInv
<1>2. ~Idle(w) /\ azure' = azure
  BY DEF StartJob, Idle
<1>3. CASE Fail(w)
  BY <1>2, <1>3, WorkerEnds DEF Fail, Replace
<1>4. CASE deployer' = [deployer EXCEPT ![w].phase = "progress"] /\ UNCHANGED job
  <2>1. CloudTyped' /\ Approved'
    <3>1. [deployer[w] EXCEPT !.phase = "progress"] \in Deployer
      BY <1>1, CloudFacts DEF Deployer, Phases
    <3> QED BY <1>1, <1>2, <1>4, <3>1 DEF CloudTyped, Approved
  <2>2. /\ deployer'[w].phase = "progress" /\ deployer'[w].etag = deployer[w].etag /\ deployer'[w].flag = deployer[w].flag
        /\ \A v \in DeployWorkers \ {w} : deployer'[v] = deployer[v]
    BY <1>1, <1>4 DEF CloudTyped
  <2>3. Holding'
    BY <1>1, <1>2, <1>4, <2>2 DEF Holding, Idle, Owns
  <2>4. ~Spending(w)' /\ \A v \in DeployWorkers \ {w} : (Spending(v)' <=> Spending(v))
    BY <1>4, <2>2 DEF Spending, Stage
  <2>5. SpentOnce'
    BY <1>1, <1>2, <1>4, <2>2, <2>4 DEF SpentOnce
  <2> QED BY <1>2, <2>1, <2>3, <2>5 DEF CloudIInv
<1> QED BY <1>3, <1>4 DEF StartJob

\* AzureCall: the call that succeeds was marked; the worker goes on, or ends.
LEMMA CallKeeps ==
  ASSUME CloudIInv, NEW w \in DeployWorkers, AzureCall(w)
  PROVE  CloudIInv'
<1>1. CloudTyped /\ Approved /\ Holding /\ SpentOnce
  BY DEF CloudIInv
<1>2. ~Idle(w) /\ deployer[w].phase = "call" /\ azure' = Effect(w)
  BY DEF AzureCall, Idle
<1>3. CASE Finished(w)
  BY <1>2, <1>3, WorkerEnds DEF AzureCall, Replace
<1>4. CASE deployer' = [deployer EXCEPT ![w].pc = @ + 1, ![w].phase = "progress"] /\ UNCHANGED job
  <2>1. /\ azure'.inferences \in Nat /\ azure'.agents \in Nat
        /\ DOMAIN azure' = {"inferences", "agents", "owned", "foreign"}
        /\ Spending(w) => azure'.inferences + azure'.agents = azure.inferences + azure.agents + 1
        /\ ~Spending(w) => azure'.inferences + azure'.agents = azure.inferences + azure.agents
    BY <1>1, <1>2, EffectProperties DEF Spending
  <2>2. CloudTyped' /\ Approved'
    <3>1. PICK n \in Nat : n = deployer[w].pc + 1
      BY <1>1, CloudFacts
    <3>2. [deployer[w] EXCEPT !.pc = n, !.phase = "progress"] \in Deployer
      BY <1>1, CloudFacts DEF Deployer, Phases
    <3>3. deployer' = [deployer EXCEPT ![w] = [deployer[w] EXCEPT !.pc = n, !.phase = "progress"]]
      BY <1>4, <3>1
    <3> QED BY <1>1, <1>4, <2>1, <3>2, <3>3 DEF CloudTyped, Approved
  <2>3. /\ deployer'[w].phase = "progress" /\ deployer'[w].etag = deployer[w].etag /\ deployer'[w].flag = deployer[w].flag
        /\ \A v \in DeployWorkers \ {w} : deployer'[v] = deployer[v]
    BY <1>1, <1>4 DEF CloudTyped
  <2>4. Holding'
    BY <1>1, <1>2, <1>4, <2>3 DEF Holding, Idle, Owns
  <2>5. ~Spending(w)' /\ \A v \in DeployWorkers \ {w} : (Spending(v)' <=> Spending(v))
    BY <1>4, <2>3 DEF Spending, Stage
  <2>6. SpentOnce'
    <3>1. CASE Spending(w)
      <4>1. azure.inferences + azure.agents = 0 /\ job.flag /\ \A v \in DeployWorkers \ {w} : ~Spending(v)
        BY <1>1, <3>1 DEF SpentOnce, Holding
      <4> QED BY <1>4, <2>1, <2>5, <3>1, <4>1 DEF SpentOnce
    <3>2. CASE ~Spending(w)
      BY <1>1, <1>4, <2>1, <2>3, <2>5, <3>2 DEF SpentOnce
    <3> QED BY <3>1, <3>2
  <2> QED BY <2>1, <2>2, <2>4, <2>6 DEF CloudIInv
<1> QED BY <1>3, <1>4 DEF AzureCall

\* An agent is made after the reconciliation, which nothing but it follows; the
\* creation of a container is noted after it, and it alone is noted in its job.
LEMMA Scripts ==
  ASSUME NEW kind \in Kinds \ {"none"}
  PROVE  /\ Len(Script(kind)) \in Nat \ {0}
         /\ \A i \in 1..Len(Script(kind)) :
               /\ Script(kind)[i] = "agent" => i > 1 /\ Script(kind)[i - 1] = "reconcile"
               /\ Script(kind)[i] = "created" => i > 1 /\ Script(kind)[i - 1] = "container"
               /\ Script(kind)[i] = "container" => kind = "cosmos_container"
               /\ kind = "cosmos_container" => Script(kind)[i] \notin {"infer", "agent"}
               /\ Script(kind)[i] = "reconcile" =>
                      \A j \in (i + 1)..Len(Script(kind)) : Script(kind)[j] = "agent"
<1>1. CASE kind = "mcp"
  <2>1. Script(kind) = <<"check", "storage", "plan", "function", "grants", "publish", "verify">>
    BY <1>1 DEF Script
  <2>2. Len(Script(kind)) = 7 /\ 1..7 = {1, 2, 3, 4, 5, 6, 7}
    BY <2>1
  <2>3. /\ Script(kind)[1] = "check" /\ Script(kind)[2] = "storage" /\ Script(kind)[3] = "plan" /\ Script(kind)[4] = "function"
        /\ Script(kind)[5] = "grants" /\ Script(kind)[6] = "publish" /\ Script(kind)[7] = "verify"
    BY <2>1
  <2> QED BY <1>1, <2>2, <2>3
<1>2. CASE kind = "foundry"
  <2>1. Script(kind) = <<"check", "connection", "reconcile", "agent">>
    BY <1>2 DEF Script
  <2>2. Len(Script(kind)) = 4 /\ 1..4 = {1, 2, 3, 4}
    BY <2>1
  <2>3. /\ Script(kind)[1] = "check" /\ Script(kind)[2] = "connection" /\ Script(kind)[3] = "reconcile" /\ Script(kind)[4] = "agent"
    BY <2>1
  <2> QED BY <1>2, <2>2, <2>3
<1>3. CASE kind = "cosmos_container"
  <2>1. Script(kind) = <<"check", "container", "created", "verify">>
    BY <1>3 DEF Script
  <2>2. Len(Script(kind)) = 4 /\ 1..4 = {1, 2, 3, 4}
    BY <2>1
  <2>3. /\ Script(kind)[1] = "check" /\ Script(kind)[2] = "container" /\ Script(kind)[3] = "created" /\ Script(kind)[4] = "verify"
    BY <2>1
  <2> QED BY <1>3, <2>2, <2>3
<1>4. CASE kind = "verification"
  <2>1. Script(kind) = <<"check", "infer", "answer">>
    BY <1>4 DEF Script
  <2>2. Len(Script(kind)) = 3 /\ 1..3 = {1, 2, 3}
    BY <2>1
  <2>3. /\ Script(kind)[1] = "check" /\ Script(kind)[2] = "infer" /\ Script(kind)[3] = "answer"
    BY <2>1
  <2> QED BY <1>4, <2>2, <2>3
<1> QED BY <1>1, <1>2, <1>3, <1>4 DEF Kinds

\* A worker leaves a stage behind once it succeeds, and the last one ends the job.
Achieved(v) ==
    (Stage(v) \in AzureResources => Stage(v) \in azure'.owned) /\ (Stage(v) = "reconcile" => "agent" \notin azure.foreign)
Behind(v) ==
    \/ deployer'[v].phase = "idle" \/ deployer'[v].pc = 1
    \/ ~Idle(v) /\ deployer'[v].pc = deployer[v].pc
    \/ ~Idle(v) /\ deployer[v].pc # Len(StagesOfJob) /\ deployer'[v].pc = deployer[v].pc + 1 /\ Achieved(v)
EndsJob(v) ==
    /\ ~Idle(v) /\ Achieved(v)
    /\ deployer[v].pc = Len(StagesOfJob) \/ (Stage(v) = "reconcile" /\ "agent" \in azure.owned)

LEMMA StepBuilds ==
  ASSUME CloudTyped, Built, job # NoJob, job' # NoJob, job'.kind = job.kind,
         azure'.foreign = azure.foreign, azure.owned \subseteq azure'.owned,
         azure'.foreign \cap azure'.owned = {}, azure'.agents > 0 => "agent" \in azure'.owned,
         job.kind = "cosmos_container" /\ job'.flag => job.flag \/ "container" \in azure'.owned,
         \A v \in DeployWorkers : Behind(v),
         job'.status = "succeeded" => job.status = "succeeded" \/ \E v \in DeployWorkers : EndsJob(v)
  PROVE  Built'
<1> DEFINE Script0 == Script(job.kind)
<1>1. job.kind \in Kinds \ {"none"} /\ \A v \in DeployWorkers : deployer[v].pc \in Nat
  BY CloudFacts DEF Built, CloudJob
<1>2. Len(Script0) \in Nat \ {0}
  BY <1>1, Scripts
<1>3. StagesOfJob = Script0 /\ StagesOfJob' = Script0
  BY DEF StagesOfJob
<1>4. \A s : StageDone(s) => (s \in AzureResources => s \in azure'.owned) /\ (s = "reconcile" => "agent" \notin azure'.foreign)
  BY DEF StageDone
<1>5. ASSUME NEW v \in DeployWorkers, ~Idle(v)'
      PROVE  /\ deployer'[v].pc \in 1..Len(Script0)
             /\ \A i \in 1..(deployer'[v].pc - 1) : StageDone(Script0[i])'
  <2>1. CASE deployer'[v].pc = 1
    BY <1>2, <2>1
  <2>2. CASE ~Idle(v) /\ deployer'[v].pc = deployer[v].pc
    BY <1>3, <1>4, <2>2 DEF Built, StageDone
  <2>3. CASE ~Idle(v) /\ deployer[v].pc # Len(StagesOfJob) /\ deployer'[v].pc = deployer[v].pc + 1 /\ Achieved(v)
    <3>1. deployer[v].pc \in 1..Len(Script0) /\ \A i \in 1..(deployer[v].pc - 1) : StageDone(Script0[i])
      BY <1>3, <2>3 DEF Built
    <3>2. deployer'[v].pc \in 1..Len(Script0)
      BY <1>2, <1>3, <2>3, <3>1
    <3>3. ASSUME NEW i \in 1..(deployer'[v].pc - 1)
          PROVE  StageDone(Script0[i])'
      <4>1. CASE i = deployer[v].pc
        BY <2>3, <4>1 DEF Achieved, Stage, StageDone
      <4>2. CASE i # deployer[v].pc
        <5>1. i \in 1..(deployer[v].pc - 1)
          BY <1>1, <2>3, <4>2
        <5> QED BY <1>4, <3>1, <5>1 DEF StageDone
      <4> QED BY <4>1, <4>2
    <3> QED BY <3>2, <3>3
  <2> QED BY <1>5, <2>1, <2>2, <2>3 DEF Behind, Idle
<1>6. ASSUME job'.status = "succeeded", NEW i \in 1..Len(Script0)
      PROVE  StageDone(Script0[i])'
  <2>1. CASE job.status = "succeeded"
    BY <1>3, <1>4, <2>1 DEF Built, StageDone
  <2>2. ASSUME NEW v \in DeployWorkers, EndsJob(v)
        PROVE  StageDone(Script0[i])'
    <3>1. deployer[v].pc \in 1..Len(Script0) /\ \A k \in 1..(deployer[v].pc - 1) : StageDone(Script0[k])
      BY <1>3, <2>2 DEF Built, EndsJob
    <3>2. CASE i < deployer[v].pc
      <4>1. i \in 1..(deployer[v].pc - 1)
        BY <3>1, <3>2
      <4> QED BY <1>4, <3>1, <4>1 DEF StageDone
    <3>3. CASE i = deployer[v].pc
      BY <2>2, <3>3 DEF EndsJob, Achieved, Stage, StageDone
    <3>4. CASE i > deployer[v].pc
      <4>1. Script0[deployer[v].pc] = "reconcile" /\ "agent" \in azure'.owned
        BY <1>2, <1>3, <2>2, <3>1, <3>4 DEF EndsJob, Stage
      <4>2. i \in (deployer[v].pc + 1)..Len(Script0)
        BY <3>1, <3>4
      <4>3. Script0[i] = "agent"
        BY <1>1, <3>1, <4>1, <4>2, Scripts
      <4> QED BY <4>1, <4>3 DEF StageDone
    <3> QED BY <3>1, <3>2, <3>3, <3>4
  <2> QED BY <1>6, <2>1, <2>2
<1>7. job'.kind = "cosmos_container" /\ job'.flag => "container" \in azure'.owned
  BY DEF Built
<1>8. job'.kind # "none"
  BY <1>1
<1> QED BY <1>3, <1>5, <1>6, <1>7, <1>8 DEF Built

\* The call of a worker makes its stage succeed, and touches nothing of others.
LEMMA CallBuilds ==
  ASSUME CloudTyped, Holding, Built, NEW w \in DeployWorkers, ~Idle(w), ~Foreign(w), azure' = Effect(w)
  PROVE  /\ azure'.foreign = azure.foreign /\ azure.owned \subseteq azure'.owned
         /\ azure'.foreign \cap azure'.owned = {} /\ (azure'.agents > 0 => "agent" \in azure'.owned)
         /\ Achieved(w)
         /\ Reconciled(w) => "agent" \in azure.owned
<1>1. job.kind \in Kinds \ {"none"} /\ azure.agents \in Nat
  BY CloudFacts DEF Built, CloudJob, Holding
<1>2. /\ deployer[w].pc \in 1..Len(Script(job.kind)) /\ Stage(w) = Script(job.kind)[deployer[w].pc]
      /\ \A i \in 1..(deployer[w].pc - 1) : StageDone(Script(job.kind)[i])
  BY DEF Built, StagesOfJob, Stage
<1>3. Stage(w) = "agent" => "agent" \notin azure.foreign
  <2>1. ASSUME Stage(w) = "agent" PROVE deployer[w].pc > 1 /\ Script(job.kind)[deployer[w].pc - 1] = "reconcile"
    <3>1. PICK i \in 1..Len(Script(job.kind)) : i = deployer[w].pc
      BY <1>2
    <3>2. Script(job.kind)[i] = "agent"
      BY <1>2, <2>1, <3>1
    <3>3. i > 1 /\ Script(job.kind)[i - 1] = "reconcile"
      BY ONLY <1>1, <3>2, Scripts
    <3> QED BY <3>1, <3>3
  <2>2. ASSUME Stage(w) = "agent" PROVE deployer[w].pc - 1 \in 1..(deployer[w].pc - 1)
    BY <1>2, <2>1, <2>2
  <2> QED BY <1>2, <2>1, <2>2 DEF StageDone
<1>4. Stage(w) = "container" /\ InAzure("container") => "container" \in azure.owned
  <2>1. ASSUME Stage(w) = "container", InAzure("container") PROVE job.kind = "cosmos_container" /\ deployer[w].flag
    <3>1. PICK i \in 1..Len(Script(job.kind)) : i = deployer[w].pc
      BY <1>2
    <3>2. Script(job.kind)[i] = "container"
      BY <1>2, <2>1, <3>1
    <3>3. job.kind = "cosmos_container"
      BY ONLY <1>1, <3>2, Scripts
    <3> QED BY <2>1, <3>3 DEF Foreign
  <2> QED BY <2>1 DEF Holding, Built
<1>5. /\ azure'.foreign = azure.foreign
      /\ azure'.agents = (IF Stage(w) = "agent" THEN azure.agents + 1 ELSE azure.agents)
      /\ azure'.owned = IF Stage(w) \in AzureResources /\ ~(Stage(w) = "container" /\ InAzure(Stage(w)))
                       THEN azure.owned \cup {Stage(w)} ELSE azure.owned
  BY EffectProperties
<1>6. Stage(w) \in AzureResources => Stage(w) \in azure'.owned
  BY <1>4, <1>5
<1>7. Stage(w) \in AzureResources /\ ~(Stage(w) = "container" /\ InAzure(Stage(w))) => Stage(w) \notin azure.foreign
  BY <1>3 DEF AzureResources, Foreign, InAzure
<1>8. azure'.foreign \cap azure'.owned = {}
  BY <1>5, <1>7 DEF Built
<1>9. azure'.agents > 0 => "agent" \in azure'.owned
  BY <1>1, <1>5, <1>6 DEF Built, AzureResources
<1>10. Achieved(w) /\ (Reconciled(w) => "agent" \in azure.owned)
  BY <1>6 DEF Achieved, Foreign, Reconciled, Built
<1> QED BY <1>5, <1>8, <1>9, <1>10

\* A failure or the end of a worker: what it may have done succeeded or did not.
LEMMA EndBuilds ==
  ASSUME CloudTyped, Holding, Built, NEW w \in DeployWorkers, ~Idle(w), Finished(w),
         \/ job' = job
         \/ job' = [job EXCEPT !.status = "failed", !.etag = job.etag + 1]
         \/ /\ LastStage(w) /\ ~Foreign(w) /\ azure' = Effect(w)
            /\ job' = [job EXCEPT !.status = "succeeded", !.etag = job.etag + 1],
         azure' = azure \/ (~Foreign(w) /\ azure' = Effect(w))
  PROVE  Built'
<1>1. job # NoJob /\ job \in CloudJob
  BY DEF Holding, CloudTyped
<1>2. /\ azure'.foreign = azure.foreign /\ azure.owned \subseteq azure'.owned
      /\ azure'.foreign \cap azure'.owned = {} /\ (azure'.agents > 0 => "agent" \in azure'.owned)
  BY CallBuilds DEF Built
<1>3. \A v \in DeployWorkers : Behind(v)
  BY DEF Finished, IdleDeployer, CloudTyped, Behind, Idle
<1>4. PICK n \in Nat : n = job.etag + 1
  BY CloudFacts
<1>5. /\ job'.kind = job.kind /\ job'.flag = job.flag /\ job' # NoJob
      /\ job'.status = "succeeded" => job.status = "succeeded" \/ (LastStage(w) /\ ~Foreign(w) /\ azure' = Effect(w))
  <2>1. CASE job' = job
    BY <1>1, <2>1
  <2>2. CASE job' = [job EXCEPT !.status = "failed", !.etag = n]
    BY <1>1, <2>2 DEF CloudJob, NoJob
  <2>3. CASE LastStage(w) /\ ~Foreign(w) /\ azure' = Effect(w) /\ job' = [job EXCEPT !.status = "succeeded", !.etag = n]
    BY <1>1, <2>3 DEF CloudJob, NoJob
  <2> QED BY <1>4, <2>1, <2>2, <2>3
<1>6. LastStage(w) /\ ~Foreign(w) /\ azure' = Effect(w) => EndsJob(w)
  BY CallBuilds DEF LastStage, EndsJob, Reconciled, StagesOfJob
<1> QED BY <1>1, <1>2, <1>3, <1>5, <1>6, StepBuilds

\* The steps that leave Azure alone, but for the record of a stage.
LEMMA OtherBuilds ==
  ASSUME CloudIInv, Built, NEW w \in DeployWorkers, ClaimJob(w) \/ Progress(w) \/ StartJob(w) \/ Interrupt(w)
  PROVE  Built'
<1>1. CloudTyped /\ Holding /\ job \in CloudJob /\ job.etag \in Nat /\ azure' = azure
  BY CloudFacts DEF CloudIInv, ClaimJob, Progress, StartJob, Interrupt
<1>2. job # NoJob
  <2>1. CASE Idle(w)
    BY <2>1 DEF ClaimJob, Progress, StartJob, Interrupt, Idle, NoJob
  <2>2. CASE ~Idle(w)
    BY <1>1, <2>2 DEF Holding
  <2> QED BY <2>1, <2>2
<1>3. PICK n \in Nat : n = job.etag + 1
  BY <1>1
<1>4. azure.foreign \cap azure.owned = {} /\ (azure.agents > 0 => "agent" \in azure.owned)
  BY DEF Built
<1>5. CASE Finished(w) /\ ~Idle(w) /\ (job' = job \/ job' = [job EXCEPT !.status = "failed", !.etag = job.etag + 1])
  BY <1>1, <1>5, EndBuilds
<1>6. CASE ClaimJob(w)
  <2>1. \A v \in DeployWorkers : Behind(v)
    BY <1>1, <1>6 DEF ClaimJob, CloudTyped, Behind, Idle
  <2>2. PICK m \in Nat : m = job.attempts + 1
    BY <1>1, CloudFacts
  <2>3. job' = [job EXCEPT !.status = "running", !.attempts = m, !.lease = "held", !.etag = n]
    BY <1>3, <1>6, <2>2 DEF ClaimJob, Replace
  <2>4. job'.kind = job.kind /\ job'.flag = job.flag /\ job' # NoJob /\ job'.status = "running"
    BY <1>1, <2>3 DEF CloudJob, NoJob
  <2> QED BY <1>1, <1>2, <1>4, <2>1, <2>4, StepBuilds
<1>7. CASE Interrupt(w)
  <2>1. \A v \in DeployWorkers : Behind(v)
    BY <1>7 DEF Interrupt, Behind, Idle
  <2>2. job' = [job EXCEPT !.status = "interrupted", !.etag = n]
    BY <1>3, <1>7 DEF Interrupt, Replace
  <2>3. job'.kind = job.kind /\ job'.flag = job.flag /\ job' # NoJob /\ job'.status = "interrupted"
    BY <1>1, <2>2 DEF CloudJob, NoJob
  <2> QED BY <1>1, <1>2, <1>4, <2>1, <2>3, StepBuilds
<1>8. CASE ~Idle(w) /\ deployer' = [deployer EXCEPT ![w].phase = "progress"] /\ UNCHANGED job
  <2>1. \A v \in DeployWorkers : Behind(v)
    BY <1>1, <1>8 DEF CloudTyped, Behind, Idle
  <2> QED BY <1>1, <1>2, <1>4, <1>8, <2>1, StepBuilds
<1>9. CASE /\ deployer[w].phase = "progress" /\ Owns(w)
           /\ Replace([job EXCEPT !.flag = Marked(w)])
           /\ deployer' = [deployer EXCEPT ![w].phase = "call", ![w].etag = job.etag + 1, ![w].flag = Marked(w)]
  <2>1. ~Idle(w) /\ deployer[w].flag = job.flag /\ job.flag \in BOOLEAN
    BY <1>1, <1>9, CloudFacts DEF Holding, Idle
  <2>2. \A v \in DeployWorkers : Behind(v)
    BY <1>1, <1>9, <2>1 DEF CloudTyped, Behind, Idle
  <2>3. job' = [job EXCEPT !.flag = Marked(w), !.etag = n]
    BY <1>3, <1>9 DEF Replace
  <2>4. job'.kind = job.kind /\ job'.flag = Marked(w) /\ job' # NoJob /\ job'.status = job.status
    <3>1. job'.kind = job.kind /\ job'.flag = Marked(w) /\ job'.status = job.status /\ job'.etag = n
      BY <1>1, <2>3 DEF CloudJob
    <3>2. n # 0 /\ NoJob.etag = 0
      BY <1>1, <1>3 DEF NoJob
    <3> QED BY <3>1, <3>2
  <2>5. ASSUME job.kind = "cosmos_container", Marked(w), ~job.flag PROVE "container" \in azure.owned
    <3>1. PICK i \in 1..Len(Script(job.kind)) : i = deployer[w].pc
      BY <2>1 DEF Built, StagesOfJob
    <3>2. \A j \in 1..(i - 1) : StageDone(Script(job.kind)[j])
      BY <2>1, <3>1 DEF Built, StagesOfJob
    <3>3. Stage(w) = Script(job.kind)[i] /\ job.kind \in Kinds \ {"none"}
      BY <1>1, <1>2, <3>1 DEF Stage, Built, CloudJob
    <3>4. Stage(w) \in {"infer", "agent", "created"}
      BY <2>1, <2>5 DEF Marked
    <3>5. i > 1 /\ Script(job.kind)[i - 1] = "container"
      BY ONLY <2>5, <3>1, <3>3, <3>4, Scripts
    <3> QED BY <3>1, <3>2, <3>5 DEF StageDone, AzureResources
  <2> QED BY <1>1, <1>2, <1>4, <2>1, <2>2, <2>4, <2>5, StepBuilds
<1> QED BY <1>5, <1>6, <1>7, <1>8, <1>9 DEF Progress, StartJob, Fail, Replace, Idle

\* AzureCall: the worker goes on to the next stage, or ends.
LEMMA AzureCallBuilds ==
  ASSUME CloudTyped, Holding, Built, NEW w \in DeployWorkers, AzureCall(w)
  PROVE  Built'
<1>1. ~Idle(w) /\ ~Foreign(w) /\ azure' = Effect(w)
  BY DEF AzureCall, Idle
<1>2. CASE Finished(w)
  BY <1>1, <1>2, EndBuilds DEF AzureCall, Replace
<1>3. CASE ~LastStage(w) /\ deployer' = [deployer EXCEPT ![w].pc = @ + 1, ![w].phase = "progress"] /\ UNCHANGED job
  <2>1. job # NoJob
    BY <1>1 DEF Holding
  <2>2. \A v \in DeployWorkers : Behind(v)
    BY <1>1, <1>3, CallBuilds DEF CloudTyped, Behind, Idle, LastStage, StagesOfJob
  <2>3. /\ azure'.foreign = azure.foreign /\ azure.owned \subseteq azure'.owned
        /\ azure'.foreign \cap azure'.owned = {} /\ (azure'.agents > 0 => "agent" \in azure'.owned)
    BY <1>1, CallBuilds
  <2> QED BY <1>3, <2>1, <2>2, <2>3, StepBuilds
<1> QED BY <1>2, <1>3 DEF AzureCall

\* The administrator's steps and the lease: no worker moves.
LEMMA AdministratorBuilds ==
  ASSUME CloudIInv, Built,
         \/ Approve \/ LeaseRuns \/ SettingChanges \/ Disable \/ Enable
         \/ \E kind \in Kinds \ {"none"} : PlanDeployment(kind)
  PROVE  Built'
<1>1. UNCHANGED <<deployer, azure>> /\ job \in CloudJob /\ \A v \in DeployWorkers : Behind(v)
  <2>1. UNCHANGED <<deployer, azure>>
    BY DEF Approve, LeaseRuns, SettingChanges, Disable, Enable, PlanDeployment
  <2>2. job \in CloudJob
    BY DEF CloudIInv, CloudTyped
  <2> QED BY <2>1, <2>2 DEF Behind, Idle
<1>2. azure.foreign \cap azure.owned = {} /\ (azure.agents > 0 => "agent" \in azure.owned) /\ CloudTyped /\ Holding
  BY DEF Built, CloudIInv
<1>3. CASE UNCHANGED job
  BY <1>1, <1>3 DEF Built, StageDone, StagesOfJob, Idle
<1>4. CASE Approve \/ LeaseRuns
  <2>1. job # NoJob
    BY <1>4 DEF Approve, Approvable, LeaseRuns, NoJob
  <2>2. job'.kind = job.kind /\ job'.flag = job.flag /\ job' # NoJob /\ (job'.status = "succeeded" => job.status = "succeeded")
    <3>1. PICK n \in Nat, m \in Nat : n = job.etag + 1 /\ m = job.approvals + 1
      BY <1>2, CloudFacts
    <3>2. CASE Approve
      <4>1. job' = [job EXCEPT !.status = "queued", !.approvals = m, !.etag = n]
        BY <3>1, <3>2 DEF Approve, Replace
      <4>2. job'.kind = job.kind /\ job'.flag = job.flag /\ job'.status = "queued"
        BY <1>1, <4>1 DEF CloudJob
      <4> QED BY <4>2 DEF NoJob
    <3>3. CASE LeaseRuns
      <4>1. job.status = "running" /\ \E l : job' = [job EXCEPT !.lease = l]
        BY <3>3 DEF LeaseRuns
      <4>2. job'.kind = job.kind /\ job'.flag = job.flag /\ job'.status = "running"
        BY <1>1, <4>1 DEF CloudJob
      <4> QED BY <4>2 DEF NoJob
    <3> QED BY <1>4, <3>2, <3>3
  <2> QED BY <1>1, <1>2, <2>1, <2>2, StepBuilds
<1>5. ASSUME NEW kind \in Kinds \ {"none"}, PlanDeployment(kind) PROVE Built'
  <2>1. job = NoJob /\ job' = [NoJob EXCEPT !.kind = kind, !.status = "awaiting_approval", !.etag = 1]
    BY <1>5 DEF PlanDeployment
  <2>2. \A w \in DeployWorkers : Idle(w)
    BY <1>2, <2>1, Zenon DEF Holding
  <2>3. job'.kind = kind /\ ~job'.flag /\ job'.status = "awaiting_approval"
    BY <2>1 DEF NoJob
  <2> QED BY <1>1, <1>2, <2>2, <2>3 DEF Built, Idle
<1> QED BY <1>3, <1>4, <1>5 DEF SettingChanges, Disable, Enable

\* Workers stall, stop and overlap: every claim has an approval of its own, a
\* billed inference and the creation of an agent happen once, what others have
\* made is not written, and a job that succeeds has made its resources
\* (deployments: claim, progress, interruption of lost jobs; ensure, the
\* adoption of a container and the reconciliation of an agent).
THEOREM CloudDeployedOnce == CloudSpec => []DeployedOnce
<1>1. CloudInit => CloudIInv /\ Built
  <2> SUFFICES ASSUME CloudInit PROVE CloudIInv /\ Built
    OBVIOUS
  <2>1. job = NoJob /\ \A w \in DeployWorkers : deployer[w] = IdleDeployer
    BY DEF CloudInit
  <2>2. PICK f \in {{}, {"container", "connection"}, {"function", "agent"}} : azure = [NoEffects EXCEPT !.foreign = f]
    BY DEF CloudInit
  <2>3. /\ azure.inferences = 0 /\ azure.agents = 0 /\ azure.owned = {}
        /\ DOMAIN azure = {"inferences", "agents", "owned", "foreign"}
    BY <2>2 DEF NoEffects
  <2>4. CloudTyped /\ Approved
    BY <2>1, <2>3, CloudTypes DEF CloudInit, CloudTyped, Approved, NoJob
  <2>5. IdleDeployer.etag = 0 /\ IdleDeployer.phase = "idle" /\ IdleDeployer.flag = FALSE
    BY DEF IdleDeployer
  <2>6. Holding
    <3>1. \A w \in DeployWorkers : deployer[w].etag = 0 /\ Idle(w) /\ deployer[w].flag = FALSE
      BY <2>1, <2>5 DEF Idle
    <3>2. job.etag = 0 /\ job.flag = FALSE
      BY <2>1 DEF NoJob
    <3> QED BY <3>1, <3>2 DEF Holding
  <2>7. SpentOnce
    <3>1. \A w \in DeployWorkers : ~Spending(w)
      BY <2>1, <2>5 DEF Spending
    <3>2. azure.inferences + azure.agents = 0
      BY <2>3
    <3> QED BY <3>1, <3>2 DEF SpentOnce
  <2>8. Built
    <3>1. job.flag = FALSE /\ job.status = "none" /\ \A w \in DeployWorkers : Idle(w)
      BY <2>1, <2>5 DEF NoJob, Idle
    <3> QED BY <2>1, <2>3, <3>1 DEF Built
  <2> QED BY <2>4, <2>6, <2>7, <2>8 DEF CloudIInv
<1>2. CloudIInv /\ Built /\ [CloudNext]_cloudVars => CloudIInv' /\ Built'
  <2> SUFFICES ASSUME CloudIInv, Built, [CloudNext]_cloudVars PROVE CloudIInv' /\ Built'
    OBVIOUS
  <2>1. ASSUME NEW kind \in {"mcp", "foundry", "cosmos_container", "verification"}, PlanDeployment(kind)
        PROVE  CloudIInv' /\ Built'
    BY <2>1, PlanKeeps, AdministratorBuilds DEF Kinds
  <2>2. CASE Approve \/ LeaseRuns
    BY <2>2, AdministratorKeeps, AdministratorBuilds
  <2>3. CASE SettingChanges \/ Disable \/ Enable
    <3>1. UNCHANGED <<job, deployer, azure>>
      BY <2>3 DEF SettingChanges, Disable, Enable
    <3>2. CloudIInv'
      BY <3>1 DEF CloudIInv, CloudTyped, Approved, Holding, SpentOnce, Spending, Stage, Idle, Owns
    <3> QED BY <2>3, <3>2, AdministratorBuilds
  <2>4. ASSUME NEW w \in DeployWorkers, DeployerStep(w) PROVE CloudIInv' /\ Built'
    <3>1. CASE CallRefused(w)
      <4>1. ~Idle(w) /\ Finished(w) /\ azure' = azure
            /\ (job' = job \/ job' = [job EXCEPT !.status = "failed", !.etag = job.etag + 1])
        BY <3>1 DEF CallRefused, Fail, Replace, Idle
      <4> QED BY <4>1, WorkerEnds, EndBuilds DEF CloudIInv
    <3>2. CASE AzureCall(w)
      BY <3>2, CallKeeps, AzureCallBuilds DEF CloudIInv
    <3>3. CASE ClaimJob(w) \/ Interrupt(w) \/ StartJob(w) \/ Progress(w)
      BY <3>3, AdministratorKeeps, ClaimKeeps, StartKeeps, ProgressKeeps, OtherBuilds
    <3> QED BY <2>4, <3>1, <3>2, <3>3 DEF DeployerStep
  <2>5. ASSUME NEW w \in DeployWorkers, AzureFails(w) \/ DeployerCrashes(w) PROVE CloudIInv' /\ Built'
    <3>1. CASE AzureFails(w)
      <4>1. ~Idle(w) /\ Finished(w) /\ deployer[w].phase = "call"
            /\ (job' = job \/ job' = [job EXCEPT !.status = "failed", !.etag = job.etag + 1])
            /\ (azure' = azure \/ (~Foreign(w) /\ azure' = Effect(w)))
        BY <3>1 DEF AzureFails, Fail, Replace, Idle
      <4> QED BY <4>1, WorkerEnds, EndBuilds DEF CloudIInv
    <3>2. CASE DeployerCrashes(w)
      BY <3>2, WorkerEnds, EndBuilds DEF DeployerCrashes, CloudIInv
    <3> QED BY <2>5, <3>1, <3>2
  <2>6. CASE UNCHANGED cloudVars
    <3>1. CloudIInv'
      BY <2>6 DEF cloudVars, CloudIInv, CloudTyped, Approved, Holding, SpentOnce, Spending, Stage, Idle, Owns
    <3>2. Built'
      BY <2>6 DEF cloudVars, Built, StageDone, StagesOfJob, Idle
    <3> QED BY <3>1, <3>2
  <2> QED BY <2>1, <2>2, <2>3, <2>4, <2>5, <2>6 DEF CloudNext
<1>3. CloudIInv /\ Built => DeployedOnce
  BY DEF CloudIInv, CloudTyped, Approved, SpentOnce, Built, StageDone, StagesOfJob, DeployedOnce
<1> QED BY <1>1, <1>2, <1>3, PTL DEF CloudSpec

-----------------------------------------------------------------------------
(* Telemetry: a batch is counted once, whoever reported and exported it.    *)

ReplicaFields == {"exporter", "counters", "seen", "buffer", "cache"}

TelemetryTyped ==
    /\ reported \in [Batches -> Nat] /\ clock \in Nat /\ clock > 0
    /\ DOMAIN replica = ApiReplicas
    /\ \A r \in ApiReplicas : DOMAIN replica[r] = ReplicaFields

\* The time in a record or an entry is that of the first report of its batch.
Timed(e) == e.key \in Batches /\ e.time = reported[e.key] /\ e.time # NotYet

\* A summary counts what it found, and that stays as old as it was.
Counts(c) ==
    c.ok => /\ c.count = TotalsOf(c.found)
            /\ \A b \in c.found : b \in Batches /\ reported[b] # NotYet /\ reported[b] >= c.cutoff

HistoryIInv ==
    /\ TelemetryTyped
    /\ \A b \in Batches : reported[b] <= clock
    /\ \A e \in records : Timed(e) /\ e.generated \in e.time .. clock
    /\ \A r \in ApiReplicas : /\ \A e \in replica[r].buffer : Timed(e)
                              /\ Counts(replica[r].cache)

\* The records that pass the cutoff are those of the batches reported since.
LEMMA SummaryCounts ==
  ASSUME HistoryIInv, NEW cutoff
  PROVE  /\ Summary(cutoff).ok /\ Counts(Summary(cutoff))
         /\ Summary(cutoff).count = TotalsOf(EmbeddingBatches({e \in records : CutoffFilter(e, cutoff)}))
<1>1. EmbeddingBatches({e \in records : CutoffFilter(e, cutoff)})
        = {b \in Batches : reported[b] >= cutoff /\ \E e \in records : e.key = b}
  BY DEF HistoryIInv, Timed, EmbeddingBatches, CutoffFilter
<1>2. \A b \in Summary(cutoff).found : b \in Batches /\ reported[b] # NotYet /\ reported[b] >= cutoff
  BY DEF HistoryIInv, Timed, Summary
<1> QED BY <1>1, <1>2 DEF Summary, Counts

\* A step of one replica that exports nothing and changes no report.
LEMMA ReplicaStep ==
  ASSUME HistoryIInv, NEW r \in ApiReplicas, NEW after, replica' = [replica EXCEPT ![r] = after],
         DOMAIN after = ReplicaFields, after.buffer \subseteq replica[r].buffer, Counts(after.cache),
         UNCHANGED <<reported, records>>, clock' \in {clock, clock + 1}
  PROVE  HistoryIInv'
<1>1. replica'[r] = after /\ \A q \in ApiReplicas \ {r} : replica'[q] = replica[q]
  BY DEF HistoryIInv, TelemetryTyped
<1>2. TelemetryTyped'
  BY <1>1 DEF HistoryIInv, TelemetryTyped
<1>3. \A b \in Batches : reported'[b] <= clock'
  BY DEF HistoryIInv, TelemetryTyped
<1>4. ASSUME NEW e \in records PROVE Timed(e)' /\ e.generated \in e.time .. clock'
  <2>1. Timed(e) /\ e.generated \in e.time .. clock /\ clock \in Nat /\ e.time \in Nat
    BY <1>4 DEF HistoryIInv, TelemetryTyped, Timed
  <2> QED BY <2>1 DEF Timed
<1>5. ASSUME NEW q \in ApiReplicas PROVE (\A e \in replica'[q].buffer : Timed(e)') /\ Counts(replica[q].cache)'
  <2>1. (\A e \in replica'[q].buffer : Timed(e)) /\ Counts(replica'[q].cache)
    BY <1>1 DEF HistoryIInv
  <2> QED BY <2>1 DEF Timed, Counts
<1> QED BY <1>2, <1>3, <1>4, <1>5 DEF HistoryIInv

\* ReportInlineMetrics: the time of a first report is now, and later ones keep it.
LEMMA ReportKeeps ==
  ASSUME HistoryIInv, NEW r \in ApiReplicas, NEW b \in Batches, ReportInlineMetrics(r, b)
  PROVE  HistoryIInv'
<1>0. PICK time \in Nat : /\ time = IF reported[b] = NotYet THEN clock ELSE reported[b]
                          /\ time # NotYet /\ time <= clock
  BY DEF HistoryIInv, TelemetryTyped, NotYet
<1>1. TelemetryTyped
  BY DEF HistoryIInv
<1>2. reported' = [reported EXCEPT ![b] = time] /\ UNCHANGED <<records, clock>>
  BY <1>0 DEF ReportInlineMetrics
<1>3. /\ reported'[b] = time
      /\ \A c \in Batches : reported[c] # NotYet => reported'[c] = reported[c]
      /\ \A c \in Batches : reported'[c] <= clock
      /\ reported' \in [Batches -> Nat]
  BY <1>0, <1>1, <1>2 DEF HistoryIInv, TelemetryTyped
<1>4. \A e : Timed(e) => Timed(e)'
  BY <1>3 DEF Timed
<1>5. \A c : Counts(c) => Counts(c)'
  BY <1>3 DEF Counts
<1>6. CASE replica' = replica
  BY <1>1, <1>2, <1>3, <1>4, <1>5, <1>6 DEF HistoryIInv, TelemetryTyped
<1>7. CASE replica' = [replica EXCEPT ![r] = Counted(replica[r], b, time)]
  <2>1. replica'[r] = Counted(replica[r], b, time) /\ \A q \in ApiReplicas \ {r} : replica'[q] = replica[q]
    BY <1>1, <1>7 DEF TelemetryTyped
  <2>2. /\ DOMAIN replica'[r] = ReplicaFields /\ replica'[r].cache = replica[r].cache
        /\ replica'[r].buffer = replica[r].buffer \cup {[key |-> b, time |-> time]}
    BY <1>1, <2>1 DEF TelemetryTyped, ReplicaFields, Counted
  <2>3. Timed([key |-> b, time |-> time])'
    BY <1>0, <1>3 DEF Timed
  <2>4. ASSUME NEW q \in ApiReplicas PROVE (\A e \in replica'[q].buffer : Timed(e)') /\ Counts(replica[q].cache)'
    <3>1. (\A e \in replica[q].buffer : Timed(e)) /\ Counts(replica[q].cache)
      BY DEF HistoryIInv
    <3> QED BY <1>4, <1>5, <2>1, <2>2, <2>3, <3>1
  <2>5. TelemetryTyped'
    BY <1>1, <1>2, <1>3, <1>7, <2>1, <2>2 DEF TelemetryTyped
  <2> QED BY <1>2, <1>3, <1>4, <2>4, <2>5 DEF HistoryIInv
<1> QED BY <1>0, <1>6, <1>7 DEF ReportInlineMetrics

\* Export: a record has the time of its entry and arrives now.
LEMMA ExportKeeps ==
  ASSUME HistoryIInv, NEW r \in ApiReplicas, Export(r)
  PROVE  HistoryIInv'
<1>1. /\ records' = records \cup {[key |-> e.key, time |-> e.time, generated |-> clock, by |-> r] : e \in replica[r].buffer}
      /\ replica' = [replica EXCEPT ![r].buffer = {}] /\ UNCHANGED <<reported, clock>>
  BY DEF Export
<1>2. TelemetryTyped /\ \A e \in replica[r].buffer : Timed(e)
  BY DEF HistoryIInv
<1>3. /\ \A q \in ApiReplicas : /\ DOMAIN replica'[q] = ReplicaFields /\ replica'[q].cache = replica[q].cache
                                /\ replica'[q].buffer \subseteq replica[q].buffer
      /\ DOMAIN replica' = ApiReplicas
  BY <1>1, <1>2 DEF TelemetryTyped, ReplicaFields
<1>4. ASSUME NEW e \in replica[r].buffer
      PROVE  LET new == [key |-> e.key, time |-> e.time, generated |-> clock, by |-> r]
             IN  Timed(new) /\ new.generated \in new.time .. clock
  <2>1. Timed(e) /\ e.time \in Nat /\ e.time <= clock /\ clock \in Nat
    BY <1>2, <1>4 DEF Timed, HistoryIInv, TelemetryTyped
  <2> QED BY <2>1 DEF Timed
<1>5. \A e \in records' : Timed(e) /\ e.generated \in e.time .. clock
  BY <1>1, <1>4 DEF HistoryIInv
<1>6. TelemetryTyped'
  BY <1>1, <1>2, <1>3 DEF TelemetryTyped
<1>7. (\A e : Timed(e)' <=> Timed(e)) /\ (\A c : Counts(c)' <=> Counts(c))
  BY <1>1 DEF Timed, Counts
<1>8. \A q \in ApiReplicas : (\A e \in replica'[q].buffer : Timed(e)) /\ Counts(replica'[q].cache)
  BY <1>3 DEF HistoryIInv
<1>9. \A b \in Batches : reported'[b] <= clock'
  BY <1>1 DEF HistoryIInv
<1> QED BY <1>1, <1>5, <1>6, <1>7, <1>8, <1>9 DEF HistoryIInv

LEMMA ReplicaKeeps ==
  ASSUME HistoryIInv, NEW r \in ApiReplicas,
         RestartReplica(r) \/ ResetMetrics(r) \/ CacheAges(r) \/ StartQuery(r) \/ EndQuery(r)
  PROVE  HistoryIInv'
<1>1. TelemetryTyped /\ DOMAIN replica[r] = ReplicaFields /\ Counts(replica[r].cache)
  BY DEF HistoryIInv, TelemetryTyped
<1>2. ~NoCache.ok /\ Counts(NoCache) /\ \A n : Counts([NoCache EXCEPT !.cutoff = n, !.fresh = TRUE])
  BY DEF NoCache, Counts
<1>3. CASE RestartReplica(r)
  <2>1. replica' = [replica EXCEPT ![r] = Started(replica[r].exporter)] /\ UNCHANGED <<reported, records, clock>>
    BY <1>3 DEF RestartReplica
  <2>2. LET after == Started(replica[r].exporter)
        IN  DOMAIN after = ReplicaFields /\ after.buffer = {} /\ after.cache = NoCache
    BY DEF Started, ReplicaFields
  <2> QED BY <1>2, <2>1, <2>2, ReplicaStep
<1>4. CASE ResetMetrics(r)
  <2> DEFINE after == [replica[r] EXCEPT !.counters = [@ EXCEPT !["pipeline"] = Nothing, !["pair"] = Nothing], !.cache = NoCache]
  <2>1. replica' = [replica EXCEPT ![r] = after] /\ UNCHANGED <<reported, records>> /\ clock' = clock + 1
    BY <1>4 DEF ResetMetrics
  <2>2. DOMAIN after = ReplicaFields /\ after.buffer = replica[r].buffer /\ after.cache = NoCache
    BY <1>1 DEF ReplicaFields
  <2> HIDE DEF after
  <2> QED BY <1>2, <2>1, <2>2, ReplicaStep
<1>5. ASSUME NEW c, Counts(c), replica' = [replica EXCEPT ![r].cache = c], UNCHANGED <<reported, records, clock>>
      PROVE  HistoryIInv'
  <2> DEFINE after == [replica[r] EXCEPT !.cache = c]
  <2>1. replica' = [replica EXCEPT ![r] = after]
    BY <1>5
  <2>2. DOMAIN after = ReplicaFields /\ after.buffer = replica[r].buffer /\ after.cache = c
    BY <1>1 DEF ReplicaFields
  <2> HIDE DEF after
  <2> QED BY <1>5, <2>1, <2>2, ReplicaStep
<1>6. CASE CacheAges(r)
  BY <1>2, <1>5, <1>6 DEF CacheAges
<1>7. CASE EndQuery(r)
  BY <1>2, <1>5, <1>7, SummaryCounts DEF EndQuery
<1>8. CASE StartQuery(r)
  BY <1>8 DEF StartQuery, HistoryIInv, TelemetryTyped, Timed, Counts
<1> QED BY <1>3, <1>4, <1>6, <1>7, <1>8

\* A bucket of the series counts the batches that were reported in it.
LEMMA SeriesCounts ==
  ASSUME HistoryIInv, NEW t \in 1 .. clock, NEW from
  PROVE  Timeseries(1, clock, from)[t]
            = TotalsOf({b \in Batches : reported[b] = t /\ t >= from /\ \E e \in records : e.key = b})
<1>1. \A e \in records : Timed(e) /\ e.time \in Nat /\ e.time # 0 /\ e.generated \in e.time .. clock /\ clock \in Nat
  BY DEF HistoryIInv, TelemetryTyped, Timed, NotYet
<1>2. \A e \in records : e.generated \in 1 .. clock
  BY <1>1
<1>3. {e \in records : e.generated \in 1 .. clock} = records
  BY <1>2
<1>4. EmbeddingBatches({e \in records : CutoffFilter(e, from) /\ e.time = t})
        = {b \in Batches : reported[b] = t /\ t >= from /\ \E e \in records : e.key = b}
  BY <1>1 DEF Timed, EmbeddingBatches, CutoffFilter
<1> QED BY <1>3, <1>4 DEF Timeseries

\* However often and wherever a batch was reported and exported, history counts
\* it once and nothing from before a reset (reports, exports, resets, restarts
\* of replicas, queries that overlap them).
THEOREM TelemetryHistoryExact == TelemetrySpec => []HistoryExact
<1>1. TelemetryInit => HistoryIInv
  <2> SUFFICES ASSUME TelemetryInit PROVE HistoryIInv
    OBVIOUS
  <2>1. /\ reported = [b \in Batches |-> NotYet] /\ records = {} /\ clock = 1
        /\ replica \in [ApiReplicas -> {Started("ready"), Started("failed")}]
    BY DEF TelemetryInit
  <2>2. \A e \in {"ready", "failed"} :
          DOMAIN Started(e) = ReplicaFields /\ Started(e).buffer = {} /\ ~Started(e).cache.ok
    BY DEF Started, NoCache, ReplicaFields
  <2>3. \A r \in ApiReplicas : DOMAIN replica[r] = ReplicaFields /\ replica[r].buffer = {} /\ ~replica[r].cache.ok
    BY <2>1, <2>2
  <2> QED BY <2>1, <2>3 DEF HistoryIInv, TelemetryTyped, Counts, NotYet
<1>2. HistoryIInv /\ [TelemetryNext]_telemetryVars => HistoryIInv'
  <2> SUFFICES ASSUME HistoryIInv, [TelemetryNext]_telemetryVars PROVE HistoryIInv'
    OBVIOUS
  <2>1. CASE UNCHANGED telemetryVars
    BY <2>1 DEF telemetryVars, HistoryIInv, TelemetryTyped, Timed, Counts
  <2> QED BY <2>1, ReportKeeps, ExportKeeps, ReplicaKeeps DEF TelemetryNext
<1>3. HistoryIInv => HistoryExact
  <2> SUFFICES ASSUME HistoryIInv PROVE HistoryExact
    OBVIOUS
  <2>1. ASSUME NEW r \in ApiReplicas
        PROVE  LET answer == Reported(r, replica[r].cache)
               IN  /\ answer.source = "app_insights" => /\ answer.count = TotalsOf(answer.found)
                                                        /\ \A b \in answer.found : reported[b] >= answer.cutoff
                   /\ answer.source = "in_memory" /\ answer.cutoff > 0 => answer.count = Nothing
    BY DEF HistoryIInv, Counts, Reported
  <2>2. ASSUME NEW r \in ApiReplicas
        PROVE  GetMetrics(r, TRUE, Summary(0)).count = TotalsOf({b \in Batches : \E e \in records : e.key = b})
    <3>1. EmbeddingBatches({e \in records : CutoffFilter(e, 0)}) = {b \in Batches : \E e \in records : e.key = b}
      BY DEF HistoryIInv, TelemetryTyped, Timed, EmbeddingBatches, CutoffFilter
    <3> QED BY <3>1, SummaryCounts DEF GetMetrics
  <2> QED BY <2>1, <2>2, SeriesCounts DEF HistoryExact
<1> QED BY <1>1, <1>2, <1>3, PTL DEF TelemetrySpec

-----------------------------------------------------------------------------
(* SyntheticRuns: the broker has a prefix of a run, the document a prefix   *)
(* of that.                                                                 *)

RunDocs == [status : {"none", "publishing"} \cup RunOver, published : Nat, pipeline : RunPipelines \cup {"none"}]
RunTasks ==
    [phase : {"pace", "send"}, at : RunReplicas, pipeline : RunPipelines, policy : RunPolicies,
     published : Nat, page : Nat, next : Nat, cancel : BOOLEAN]

RunsTyped ==
    /\ pipelines \in [RunPipelines -> [status : {"active", "paused", "deleted"}, policy : RunPolicies]]
    /\ runDoc \in [Runs -> RunDocs]
    /\ task \in [Runs -> RunTasks \cup {NoTask}]
    /\ broker \in [Runs -> Seq(Nat)]

Prefix(n) == [i \in 1 .. n |-> i]

\* A task has published what it counts and a part of the page it sends; the
\* document is as old as the next note allows.
Publishing(t, doc, n) ==
    /\ doc.status = "publishing"
    /\ doc.published <= t.published /\ t.published <= n /\ n <= t.published + t.page
    /\ t.published + t.page <= DocumentCount
    /\ t.phase = "pace" => t.page = 0
    /\ t.published < t.next /\ t.next <= doc.published + Interval

\* What holds of a run, its document, its task and the broker.
RunSound(t, doc, b) ==
    \E n \in Nat :
        /\ b = Prefix(n) /\ n <= DocumentCount /\ doc.published <= n
        /\ doc.status = "completed" => doc.published = DocumentCount
        /\ t # NoTask => Publishing(t, doc, n)
        /\ doc = NoRun => n = 0

RunsIInv == RunsTyped /\ \A r \in Runs : RunSound(task[r], runDoc[r], broker[r])

LEMMA PrefixGrows ==
  ASSUME NEW n \in Nat
  PROVE  /\ Len(Prefix(n)) = n /\ Prefix(n) \in Seq(Nat)
         /\ \A k \in Nat : Prefix(n) \o [i \in 1 .. k |-> n + i] = Prefix(n + k)
<1>1. Prefix(n) \in Seq(Nat) /\ Len(Prefix(n)) = n
  BY DEF Prefix
<1>2. ASSUME NEW k \in Nat PROVE Prefix(n) \o [i \in 1 .. k |-> n + i] = Prefix(n + k)
  <2> DEFINE more == [i \in 1 .. k |-> n + i]
  <2>1. more \in Seq(Nat) /\ Len(more) = k
    OBVIOUS
  <2>2. \A i \in 1 .. k : more[i] = n + i
    OBVIOUS
  <2> HIDE DEF more
  <2>3. Prefix(n) \o more \in Seq(Nat) /\ Len(Prefix(n) \o more) = n + k
    BY <1>1, <2>1
  <2>4. ASSUME NEW i \in 1 .. n + k PROVE (Prefix(n) \o more)[i] = i
    <3>1. i \in Nat
      OBVIOUS
    <3>2. CASE i <= n
      BY <1>1, <2>1, <3>1, <3>2 DEF Prefix
    <3>3. CASE ~(i <= n)
      <4>1. i - n \in 1 .. k /\ (Prefix(n) \o more)[i] = more[i - n]
        BY <1>1, <2>1, <3>1, <3>3
      <4> QED BY <2>2, <3>1, <4>1
    <3> QED BY <3>2, <3>3
  <2>5. Prefix(n + k) \in Seq(Nat) /\ Len(Prefix(n + k)) = n + k /\ \A i \in 1 .. n + k : Prefix(n + k)[i] = i
    BY DEF Prefix
  <2>6. Prefix(n) \o more = Prefix(n + k)
    BY <2>3, <2>4, <2>5, SeqEqual
  <2> QED BY <2>6 DEF more
<1> QED BY <1>1, <1>2

\* What a run is made of, for the steps below.
LEMMA RunFacts ==
  ASSUME RunsIInv, NEW r \in Runs
  PROVE  /\ runDoc[r] \in RunDocs /\ runDoc[r].published \in Nat
         /\ task[r] # NoTask => /\ task[r] \in RunTasks /\ task[r].published \in Nat /\ task[r].page \in Nat /\ task[r].next \in Nat
                               /\ task[r].phase \in {"pace", "send"} /\ task[r].policy \in RunPolicies
                               /\ task[r].pipeline \in RunPipelines
         /\ task[r].phase # "none" <=> task[r] # NoTask
         /\ RunSound(task[r], runDoc[r], broker[r])
<1>1. runDoc[r] \in RunDocs /\ task[r] \in RunTasks \cup {NoTask}
  BY DEF RunsIInv, RunsTyped
<1>2. runDoc[r].published \in Nat
  BY <1>1 DEF RunDocs
<1>3. NoTask.phase = "none"
  BY DEF NoTask
<1> QED BY <1>1, <1>2, <1>3 DEF RunTasks, RunsIInv

\* A step of one run.
LEMMA RunStep ==
  ASSUME RunsIInv, NEW r \in Runs, NEW t \in RunTasks \cup {NoTask}, NEW doc \in RunDocs, NEW b,
         task' = [task EXCEPT ![r] = t], runDoc' = [runDoc EXCEPT ![r] = doc], broker' = [broker EXCEPT ![r] = b],
         RunSound(t, doc, b), UNCHANGED pipelines
  PROVE  RunsIInv'
<1>1. RunsTyped'
  <2>1. b \in Seq(Nat)
    BY PrefixGrows DEF RunSound
  <2> QED BY <2>1 DEF RunsIInv, RunsTyped
<1>2. task'[r] = t /\ runDoc'[r] = doc /\ broker'[r] = b
  BY DEF RunsIInv, RunsTyped
<1>3. \A q \in Runs \ {r} : task'[q] = task[q] /\ runDoc'[q] = runDoc[q] /\ broker'[q] = broker[q]
  BY DEF RunsIInv, RunsTyped
<1>4. \A q \in Runs : RunSound(task'[q], runDoc'[q], broker'[q])
  BY <1>2, <1>3 DEF RunsIInv
<1> QED BY <1>1, <1>4 DEF RunsIInv, RunSound, Publishing

\* The task ends, whatever its last note says but that everything is published.
LEMMA TaskEnds ==
  ASSUME RunsIInv, NEW r \in Runs, task[r] # NoTask, task' = [task EXCEPT ![r] = NoTask],
         UNCHANGED <<broker, pipelines>>,
         \/ UNCHANGED runDoc
         \/ \E s \in {"failed", "cancelled"} : SetStatus(r, s)
         \/ /\ task[r].phase = "pace" /\ Remaining(task[r]) = 0
            /\ runDoc' = [runDoc EXCEPT ![r].status = "completed", ![r].published = DocumentCount]
  PROVE  RunsIInv'
<1>1. /\ runDoc[r] \in RunDocs /\ task[r].published \in Nat /\ runDoc[r].published \in Nat
      /\ RunSound(task[r], runDoc[r], broker[r]) /\ RunsTyped
  BY RunFacts DEF RunsIInv
<1>2. PICK n \in Nat : /\ broker[r] = Prefix(n) /\ n <= DocumentCount /\ runDoc[r].published <= n
                       /\ Publishing(task[r], runDoc[r], n)
  BY <1>1 DEF RunSound
<1>3. broker' = [broker EXCEPT ![r] = broker[r]]
  BY <1>1 DEF RunsTyped
<1>4. ASSUME NEW doc \in RunDocs, runDoc' = [runDoc EXCEPT ![r] = doc], doc.published \in Nat, doc.published <= n,
             doc.status # "none", doc.status = "completed" => doc.published = DocumentCount
      PROVE  RunsIInv'
  <2>1. doc # NoRun
    BY <1>4 DEF NoRun
  <2>2. RunSound(NoTask, doc, broker[r])
    BY <1>2, <1>4, <2>1 DEF RunSound
  <2> QED BY <1>3, <1>4, <2>2, RunStep
<1>5. CASE UNCHANGED runDoc
  <2>1. runDoc' = [runDoc EXCEPT ![r] = runDoc[r]]
    BY <1>1, <1>5 DEF RunsTyped
  <2> QED BY <1>1, <1>2, <1>4, <2>1 DEF Publishing
<1>6. ASSUME NEW s \in {"failed", "cancelled"}, SetStatus(r, s) PROVE RunsIInv'
  <2> DEFINE doc == [runDoc[r] EXCEPT !.status = s]
  <2>1. runDoc' = [runDoc EXCEPT ![r] = doc]
    BY <1>6 DEF SetStatus
  <2>2. doc \in RunDocs /\ doc.status = s /\ doc.published = runDoc[r].published
    BY <1>1, <1>6 DEF RunDocs, RunOver
  <2> HIDE DEF doc
  <2> QED BY <1>1, <1>2, <1>4, <1>6, <2>1, <2>2
<1>7. CASE /\ task[r].phase = "pace" /\ Remaining(task[r]) = 0
           /\ runDoc' = [runDoc EXCEPT ![r].status = "completed", ![r].published = DocumentCount]
  <2> DEFINE doc == [runDoc[r] EXCEPT !.status = "completed", !.published = DocumentCount]
  <2>1. runDoc' = [runDoc EXCEPT ![r] = doc]
    BY <1>7
  <2>2. DocumentCount \in Nat /\ task[r].published = DocumentCount
    BY <1>1, <1>7, RunAssumption DEF Remaining
  <2>3. doc \in RunDocs /\ doc.status = "completed" /\ doc.published = DocumentCount
    BY <1>1, <2>2 DEF RunDocs, RunOver
  <2> HIDE DEF doc
  <2> QED BY <1>2, <1>4, <2>1, <2>2, <2>3 DEF Publishing
<1> QED BY <1>5, <1>6, <1>7

\* RefreshPolicy, BuildPage, Cancel: the task goes on with other fields.
LEMMA TaskGoesOn ==
  ASSUME RunsIInv, NEW r \in Runs, task[r] # NoTask, NEW t \in RunTasks,
         task' = [task EXCEPT ![r] = t], UNCHANGED <<broker, runDoc, pipelines>>,
         t.published = task[r].published, t.next = task[r].next,
         \/ t.page = task[r].page /\ t.phase = task[r].phase
         \/ task[r].phase = "pace" /\ t.phase = "send" /\ t.page \in Nat /\ t.page <= Remaining(task[r])
  PROVE  RunsIInv'
<1>1. /\ runDoc[r] \in RunDocs /\ task[r].published \in Nat /\ runDoc[r].published \in Nat /\ task[r].page \in Nat
      /\ RunSound(task[r], runDoc[r], broker[r]) /\ RunsTyped
  BY RunFacts DEF RunsIInv
<1>2. PICK n \in Nat : /\ broker[r] = Prefix(n) /\ n <= DocumentCount /\ runDoc[r].published <= n
                       /\ runDoc[r].status = "completed" => runDoc[r].published = DocumentCount
                       /\ Publishing(task[r], runDoc[r], n)
                       /\ runDoc[r] = NoRun => n = 0
  BY <1>1 DEF RunSound
<1>3. broker' = [broker EXCEPT ![r] = broker[r]] /\ runDoc' = [runDoc EXCEPT ![r] = runDoc[r]]
  BY <1>1 DEF RunsTyped
<1>4. Publishing(t, runDoc[r], n)
  BY <1>1, <1>2, RunAssumption DEF Publishing, Remaining
<1>5. RunSound(t, runDoc[r], broker[r])
  BY <1>2, <1>4 DEF RunSound
<1> QED BY <1>1, <1>3, <1>5, RunStep

LEMMA PageProperties ==
  ASSUME NEW t \in RunTasks, t.published \in Nat, t.published <= DocumentCount
  PROVE  Page(t) \in Nat /\ Page(t) <= Remaining(t)
<1>1. t.policy.page \in Nat /\ Remaining(t) \in Nat
  BY RunAssumption DEF RunTasks, Remaining
<1>2. \A i, j \in Nat : Min({i, j}) \in Nat /\ Min({i, j}) <= j
  BY DEF Min
<1> QED BY <1>1, <1>2 DEF Page

LEMMA PageKeeps ==
  ASSUME RunsIInv, NEW r \in Runs, RefreshPolicy(r) \/ BuildPage(r) \/ \E rep \in RunReplicas : Cancel(r, rep)
  PROVE  RunsIInv'
<1>1. task[r] # NoTask /\ UNCHANGED <<broker, pipelines>> /\ RunsTyped
  BY RunFacts DEF RefreshPolicy, BuildPage, Cancel, RunsIInv
<1>2. task[r] \in RunTasks /\ task[r].published \in Nat /\ task[r].pipeline \in RunPipelines
  BY <1>1, RunFacts
<1>3. CASE Ends(r, "failed", TRUE) \/ Ends(r, "failed", FALSE)
  BY <1>1, <1>3, TaskEnds DEF Ends
<1>4. CASE task' = [task EXCEPT ![r].policy = pipelines[task[r].pipeline].policy] /\ UNCHANGED runDoc
  <2>1. pipelines[task[r].pipeline].policy \in RunPolicies
    BY <1>1, <1>2 DEF RunsTyped
  <2> DEFINE t == [task[r] EXCEPT !.policy = pipelines[task[r].pipeline].policy]
  <2>2. /\ t \in RunTasks /\ t.published = task[r].published /\ t.next = task[r].next /\ t.page = task[r].page
        /\ t.phase = task[r].phase
    BY <1>2, <2>1 DEF RunTasks
  <2>3. task' = [task EXCEPT ![r] = t]
    BY <1>4
  <2> HIDE DEF t
  <2> QED BY <1>1, <1>4, <2>2, <2>3, TaskGoesOn
<1>5. CASE /\ task[r].phase = "pace"
           /\ task' = [task EXCEPT ![r].phase = "send", ![r].page = Page(task[r])] /\ UNCHANGED runDoc
  <2>1. task[r].published <= DocumentCount
    <3>1. PICK n \in Nat : n <= DocumentCount /\ Publishing(task[r], runDoc[r], n)
      BY <1>1, RunFacts DEF RunSound
    <3> QED BY <1>2, <3>1, RunAssumption DEF Publishing
  <2>2. Page(task[r]) \in Nat /\ Page(task[r]) <= Remaining(task[r])
    BY <1>2, <2>1, PageProperties
  <2> DEFINE t == [task[r] EXCEPT !.phase = "send", !.page = Page(task[r])]
  <2>3. /\ t \in RunTasks /\ t.published = task[r].published /\ t.next = task[r].next /\ t.page = Page(task[r])
        /\ t.phase = "send"
    BY <1>2, <2>2 DEF RunTasks
  <2>4. task' = [task EXCEPT ![r] = t]
    BY <1>5
  <2> HIDE DEF t
  <2> QED BY <1>1, <1>5, <2>2, <2>3, <2>4, TaskGoesOn
<1>6. CASE task' = [task EXCEPT ![r].cancel = TRUE] /\ UNCHANGED runDoc
  <2> DEFINE t == [task[r] EXCEPT !.cancel = TRUE]
  <2>1. /\ t \in RunTasks /\ t.published = task[r].published /\ t.next = task[r].next /\ t.page = task[r].page
        /\ t.phase = task[r].phase
    BY <1>2 DEF RunTasks
  <2>2. task' = [task EXCEPT ![r] = t]
    BY <1>6
  <2> HIDE DEF t
  <2> QED BY <1>1, <1>6, <2>1, <2>2, TaskGoesOn
<1> QED BY <1>3, <1>4, <1>5, <1>6 DEF RefreshPolicy, BuildPage, Cancel

\* SendSome: the broker accepts the messages that follow those it has.
LEMMA SendKeeps ==
  ASSUME RunsIInv, NEW r \in Runs, SendSome(r)
  PROVE  RunsIInv'
<1>1. task[r] # NoTask /\ UNCHANGED <<task, runDoc, pipelines>> /\ RunsTyped
  BY RunFacts DEF SendSome, RunsIInv
<1>2. /\ task[r] \in RunTasks /\ task[r].published \in Nat /\ task[r].page \in Nat /\ runDoc[r] \in RunDocs
      /\ runDoc[r].published \in Nat /\ RunSound(task[r], runDoc[r], broker[r])
  BY <1>1, RunFacts
<1>3. PICK n \in Nat : /\ broker[r] = Prefix(n) /\ n <= DocumentCount /\ runDoc[r].published <= n
                       /\ Publishing(task[r], runDoc[r], n)
  BY <1>1, <1>2 DEF RunSound
<1>4. InBroker(r) = n - task[r].published /\ task[r].published + InBroker(r) = n
  <2>1. Len(broker[r]) = n
    BY <1>3, PrefixGrows
  <2> QED BY <1>2, <2>1 DEF InBroker
<1>5. PICK k \in 1 .. (task[r].page - InBroker(r)) :
        broker' = [broker EXCEPT ![r] = broker[r] \o [i \in 1 .. k |-> task[r].published + InBroker(r) + i]]
  BY DEF SendSome
<1>6. k \in Nat /\ n + k \in Nat /\ n + k <= task[r].published + task[r].page
  BY <1>2, <1>3, <1>4, <1>5
<1>7. broker' = [broker EXCEPT ![r] = Prefix(n + k)]
  <2>1. [i \in 1 .. k |-> task[r].published + InBroker(r) + i] = [i \in 1 .. k |-> n + i]
    BY <1>4
  <2> QED BY <1>3, <1>5, <1>6, <2>1, PrefixGrows
<1>8. Publishing(task[r], runDoc[r], n + k) /\ n + k <= DocumentCount /\ runDoc[r].published <= n + k
  BY <1>2, <1>3, <1>6, RunAssumption DEF Publishing
<1>9. RunSound(task[r], runDoc[r], Prefix(n + k))
  <2>1. runDoc[r] # NoRun /\ runDoc[r].status # "completed"
    BY <1>8 DEF Publishing, NoRun
  <2> QED BY <1>6, <1>8, <2>1 DEF RunSound
<1>10. task' = [task EXCEPT ![r] = task[r]] /\ runDoc' = [runDoc EXCEPT ![r] = runDoc[r]]
  BY <1>1 DEF RunsTyped
<1> QED BY <1>1, <1>2, <1>7, <1>9, <1>10, RunStep

\* The next note is due at the next multiple of the interval.
LEMMA NextMultiple ==
  ASSUME NEW n \in Nat
  PROVE  LET next == Interval * (n \div Interval + 1) IN next \in Nat /\ n < next /\ next <= n + Interval
<1>1. Interval \in Nat /\ Interval > 0
  BY RunAssumption
<1>2. n \div Interval \in Nat
  BY <1>1
<1>3. n < Interval * (n \div Interval + 1)
  BY <1>1
<1>4. Interval * (n \div Interval) <= n
  BY <1>1
<1>5. PICK q \in Nat : q = n \div Interval
  BY <1>2
<1>6. Interval * (q + 1) = Interval * q + Interval /\ Interval * q \in Nat
  BY <1>1
<1>7. Interval * (q + 1) \in Nat /\ Interval * (q + 1) <= n + Interval
  BY <1>1, <1>4, <1>5, <1>6
<1> QED BY <1>3, <1>5, <1>7

\* PageAccepted: the page is counted, and noted when a note is due.
LEMMA AcceptedKeeps ==
  ASSUME RunsIInv, NEW r \in Runs, PageAccepted(r)
  PROVE  RunsIInv'
<1>1. task[r] # NoTask /\ UNCHANGED <<broker, pipelines>> /\ RunsTyped
  BY RunFacts DEF PageAccepted, RunsIInv
<1>2. /\ task[r] \in RunTasks /\ task[r].published \in Nat /\ task[r].page \in Nat /\ task[r].next \in Nat
      /\ runDoc[r] \in RunDocs /\ runDoc[r].published \in Nat /\ RunSound(task[r], runDoc[r], broker[r])
  BY <1>1, RunFacts
<1>3. PICK n \in Nat : /\ broker[r] = Prefix(n) /\ n <= DocumentCount /\ runDoc[r].published <= n
                       /\ Publishing(task[r], runDoc[r], n)
  BY <1>1, <1>2 DEF RunSound
<1>4. n = task[r].published + task[r].page
  <2>1. Len(broker[r]) - task[r].published = task[r].page
    BY DEF PageAccepted, InBroker
  <2>2. Len(broker[r]) = n
    BY <1>3, PrefixGrows
  <2> QED BY <1>2, <2>1, <2>2
<1>5. CASE task' = [task EXCEPT ![r] = NoTask] /\ SetStatus(r, "failed")
  BY <1>1, <1>5, TaskEnds
<1>6. CASE /\ task' = [task EXCEPT ![r].published = task[r].published + task[r].page, ![r].page = 0,
                                   ![r].next = NextNote(task[r]), ![r].phase = "pace"]
           /\ runDoc' = IF Noted(task[r]) THEN [runDoc EXCEPT ![r].published = task[r].published + task[r].page] ELSE runDoc
  <2>1. PICK next \in Nat : next = NextNote(task[r]) /\ n < next /\ (Noted(task[r]) => next <= n + Interval)
                            /\ (~Noted(task[r]) => next = task[r].next)
    BY <1>2, <1>4, NextMultiple DEF NextNote, Noted
  <2> DEFINE t == [task[r] EXCEPT !.published = n, !.page = 0, !.next = next, !.phase = "pace"]
  <2>2. t \in RunTasks /\ t.published = n /\ t.page = 0 /\ t.next = next /\ t.phase = "pace"
    BY <1>2 DEF RunTasks
  <2>3. task' = [task EXCEPT ![r] = t]
    BY <1>4, <1>6, <2>1
  <2> HIDE DEF t
  <2>4. broker' = [broker EXCEPT ![r] = broker[r]]
    BY <1>1 DEF RunsTyped
  <2>5. CASE Noted(task[r])
    <3> DEFINE doc == [runDoc[r] EXCEPT !.published = n]
    <3>1. doc \in RunDocs /\ doc.published = n /\ doc.status = runDoc[r].status
      BY <1>2 DEF RunDocs
    <3>2. runDoc' = [runDoc EXCEPT ![r] = doc]
      BY <1>4, <1>6, <2>5
    <3> HIDE DEF doc
    <3>3. Publishing(t, doc, n) /\ doc # NoRun /\ doc.status # "completed"
      BY <1>3, <2>1, <2>2, <2>5, <3>1, RunAssumption DEF Publishing, NoRun
    <3>4. RunSound(t, doc, broker[r])
      BY <1>3, <3>1, <3>3 DEF RunSound
    <3> QED BY <1>1, <2>2, <2>3, <2>4, <3>1, <3>2, <3>4, RunStep
  <2>6. CASE ~Noted(task[r])
    <3>1. Publishing(t, runDoc[r], n) /\ runDoc[r] # NoRun /\ runDoc[r].status # "completed"
      BY <1>2, <1>3, <2>1, <2>2, <2>6, RunAssumption DEF Publishing, NoRun
    <3>2. RunSound(t, runDoc[r], broker[r])
      BY <1>3, <3>1 DEF RunSound
    <3>3. runDoc' = [runDoc EXCEPT ![r] = runDoc[r]]
      BY <1>1, <1>6, <2>6 DEF RunsTyped
    <3> QED BY <1>1, <1>2, <2>2, <2>3, <2>4, <3>2, <3>3, RunStep
  <2> QED BY <2>5, <2>6
<1> QED BY <1>5, <1>6 DEF PageAccepted

\* Generate: a run starts where nothing was published.
LEMMA GenerateKeeps ==
  ASSUME RunsIInv, NEW r \in Runs, NEW rep \in RunReplicas, NEW wanted, Generate(r, rep, wanted)
  PROVE  RunsIInv'
<1>1. PICK p \in Candidates(wanted) :
        /\ runDoc' = [runDoc EXCEPT ![r] = [status |-> "publishing", published |-> 0, pipeline |-> p]]
        /\ task' = [task EXCEPT ![r] = StartedRun(p, rep)]
  BY DEF Generate
<1>2. RunsTyped /\ UNCHANGED <<broker, pipelines>> /\ runDoc[r] = NoRun /\ p \in RunPipelines
  BY <1>1 DEF RunsIInv, Generate, Candidates
<1>3. pipelines[p].policy \in RunPolicies /\ Interval \in Nat /\ Interval > 0 /\ DocumentCount \in Nat
  BY <1>2, RunAssumption DEF RunsTyped
<1> DEFINE doc == [status |-> "publishing", published |-> 0, pipeline |-> p]
           t   == StartedRun(p, rep)
<1>4. doc \in RunDocs /\ doc.status = "publishing" /\ doc.published = 0
  BY <1>2 DEF RunDocs
<1>5. t \in RunTasks /\ t.phase = "pace" /\ t.published = 0 /\ t.page = 0 /\ t.next = Interval
  BY <1>2, <1>3 DEF RunTasks, StartedRun
<1>6. runDoc' = [runDoc EXCEPT ![r] = doc] /\ task' = [task EXCEPT ![r] = t] /\ broker' = [broker EXCEPT ![r] = broker[r]]
  BY <1>1, <1>2 DEF RunsTyped
<1> HIDE DEF doc, t
<1>7. broker[r] = Prefix(0)
  BY <1>2, RunFacts DEF RunSound
<1>8. Publishing(t, doc, 0) /\ doc # NoRun
  BY <1>3, <1>4, <1>5 DEF Publishing, NoRun
<1>9. RunSound(t, doc, broker[r])
  BY <1>3, <1>4, <1>7, <1>8 DEF RunSound
<1> QED BY <1>2, <1>4, <1>5, <1>6, <1>9, RunStep

LEMMA RunEndsKeep ==
  ASSUME RunsIInv, NEW r \in Runs, PublishFails(r) \/ Cancelled(r) \/ Completed(r)
  PROVE  RunsIInv'
<1>1. task[r] # NoTask /\ UNCHANGED <<broker, pipelines>> /\ task' = [task EXCEPT ![r] = NoTask]
  BY RunFacts DEF PublishFails, Cancelled, Completed, Ends
<1> QED BY <1>1, TaskEnds DEF PublishFails, Cancelled, Completed, Ends

\* Pipelines change under the runs, replicas take the tasks with them.
LEMMA OthersKeep ==
  ASSUME RunsIInv,
         \/ \E p \in RunPipelines, s \in {"active", "paused", "deleted"}, q \in RunPolicies : ChangeRunPipeline(p, s, q)
         \/ \E rep \in RunReplicas : RestartRunReplica(rep)
  PROVE  RunsIInv'
<1>1. ASSUME NEW p \in RunPipelines, NEW s \in {"active", "paused", "deleted"}, NEW q \in RunPolicies,
             ChangeRunPipeline(p, s, q)
      PROVE  RunsIInv'
  <2>1. UNCHANGED <<runDoc, task, broker>> /\ pipelines' = [pipelines EXCEPT ![p] = [status |-> s, policy |-> q]]
    BY <1>1 DEF ChangeRunPipeline
  <2> QED BY <2>1 DEF RunsIInv, RunsTyped, RunSound, Publishing
<1>2. ASSUME NEW rep \in RunReplicas, RestartRunReplica(rep) PROVE RunsIInv'
  <2>1. /\ UNCHANGED <<pipelines, runDoc, broker>>
        /\ task' = [r \in Runs |-> IF task[r] # NoTask /\ task[r].at = rep THEN NoTask ELSE task[r]]
    BY <1>2 DEF RestartRunReplica
  <2>2. RunsTyped'
    BY <2>1 DEF RunsIInv, RunsTyped
  <2>3. \A r \in Runs : RunSound(task'[r], runDoc[r], broker[r])
    BY <2>1 DEF RunsIInv, RunSound
  <2> QED BY <2>1, <2>2, <2>3 DEF RunsIInv, RunSound, Publishing
<1> QED BY <1>1, <1>2

\* Whatever fails or is cancelled in a run, the broker has a prefix of its
\* messages and the document claims no more than that, nor an end too early
\* (pages, notes at intervals, cancellation, restarts of replicas).
THEOREM SyntheticRunsTruthful == RunsSpec => []RunsTruthful
<1>1. RunsInit => RunsIInv
  <2> SUFFICES ASSUME RunsInit PROVE RunsIInv
    OBVIOUS
  <2>1. NoRun \in RunDocs
    BY DEF NoRun, RunDocs
  <2>2. RunsTyped
    BY <2>1 DEF RunsInit, RunsTyped
  <2>3. \A r \in Runs : task[r] = NoTask /\ runDoc[r] = NoRun /\ broker[r] = <<>>
    BY DEF RunsInit
  <2>4. <<>> = Prefix(0)
    BY DEF Prefix
  <2>5. NoRun.published = 0 /\ NoRun.status = "none"
    BY DEF NoRun
  <2> QED BY <2>2, <2>3, <2>4, <2>5, RunAssumption DEF RunsIInv, RunSound
<1>2. RunsIInv /\ [RunsNext]_runVars => RunsIInv'
  <2> SUFFICES ASSUME RunsIInv, [RunsNext]_runVars PROVE RunsIInv'
    OBVIOUS
  <2>1. CASE UNCHANGED runVars
    BY <2>1 DEF runVars, RunsIInv, RunsTyped, RunSound, Publishing
  <2> QED BY <2>1, PageKeeps, GenerateKeeps, SendKeeps, AcceptedKeeps, RunEndsKeep, OthersKeep DEF RunsNext
<1>3. RunsIInv => RunsTruthful
  <2> SUFFICES ASSUME RunsIInv, NEW r \in Runs
               PROVE  /\ broker[r] = [i \in 1 .. Len(broker[r]) |-> i] /\ Len(broker[r]) <= DocumentCount
                      /\ runDoc[r].published <= Len(broker[r])
                      /\ runDoc[r].status = "completed" => runDoc[r].published = DocumentCount
                      /\ runDoc[r].status \in RunOver => task[r] = NoTask
                      /\ task[r] # NoTask => task[r].published - runDoc[r].published < Interval
    BY DEF RunsTruthful
  <2>1. PICK n \in Nat :
          /\ broker[r] = Prefix(n) /\ n <= DocumentCount /\ runDoc[r].published <= n
          /\ runDoc[r].status = "completed" => runDoc[r].published = DocumentCount
          /\ task[r] # NoTask => Publishing(task[r], runDoc[r], n)
    BY RunFacts DEF RunSound
  <2>2. Len(broker[r]) = n
    BY <2>1, PrefixGrows
  <2>3. broker[r] = [i \in 1 .. Len(broker[r]) |-> i]
    BY <2>1, <2>2 DEF Prefix
  <2>4. task[r] # NoTask => task[r].published - runDoc[r].published < Interval
    BY <2>1, RunFacts, RunAssumption DEF Publishing
  <2>5. runDoc[r].status \in RunOver => task[r] = NoTask
    BY <2>1 DEF Publishing, RunOver
  <2> QED BY <2>1, <2>2, <2>3, <2>4, <2>5
<1> QED BY <1>1, <1>2, <1>3, PTL DEF RunsSpec

-----------------------------------------------------------------------------
(* ProgressReports: updates that overlap keep what each other wrote.        *)

ProgressStatuses == {"none", "backfilling", "live", "error", "paused"}
DocFields == {"etag", "status", "locations", "totals", "live", "workers"}

\* A document shows what the last updates wrote and no total but theirs.
Shows(doc, written) ==
    /\ DOMAIN doc = DocFields /\ doc.status \in ProgressStatuses
    /\ doc.locations = written.locations /\ doc.live = written.live /\ doc.workers = written.workers
    /\ doc.totals = Totals(doc.locations)
    /\ doc.status = "backfilling" => \A l \in Seen(doc.locations) : ~doc.locations[l].error

\* An update that holds the ETag of the document is its fields applied to a
\* document that shows what was written until now.
UpToDateDraft(r) ==
    /\ DOMAIN r = {"op", "u", "tries", "etag", "doc"}
    /\ r.u \in ProgressUpdates /\ r.etag \in Nat /\ r.etag <= progress.etag
    /\ r.etag = progress.etag => \E base : Shows(base, latest) /\ r.doc = Applied(r.u, base)

ReportIInv ==
    /\ progress.etag \in Nat /\ Shows(progress, latest)
    /\ DOMAIN latest = {"locations", "live", "workers"}
    /\ ~Exists(progress) => progress = NoProgress
    /\ DOMAIN reporter = Reporters
    /\ \A c \in Reporters : reporter[c] # NoUpdate => UpToDateDraft(reporter[c])

CheckpointIInv ==
    /\ stored.etag \in Nat /\ stored.items \in Nat /\ stored.born \in Nat
    /\ DOMAIN stored = {"etag", "exists", "items", "born"}
    /\ stored.exists => 0 < stored.born /\ stored.born <= stored.etag
    /\ manager \in [Reporters -> [etag : Nat, items : Nat]]
    /\ \A c \in Reporters :
        /\ manager[c].etag <= stored.etag
        /\ manager[c].etag = 0 => manager[c].items = 0
        /\ stored.exists /\ manager[c].etag = stored.etag => manager[c].items = stored.items
        /\ stored.exists /\ manager[c].etag >= stored.born => manager[c].items <= stored.items

\* Without locations there is nothing to count.
LEMMA NothingCounted ==
  LET locations == [l \in Locations |-> NoEntry]
  IN  Seen(locations) = {} /\ Totals(locations) = NoTotals
<1> DEFINE locations == [l \in Locations |-> NoEntry]
<1>1. Seen(locations) = {}
  BY DEF Seen, NoEntry
<1>2. ASSUME NEW field PROVE Sum(locations, field) = 0
  <2> DEFINE Rest(g, s) ==
          IF s = {} THEN 0 ELSE LET x == CHOOSE x \in s : TRUE IN locations[x][field] + g[s \ {x}]
      fold == CHOOSE g : g = [s \in SUBSET {} |-> Rest(g, s)]
  <2>1. \E g : g = [s \in SUBSET {} |-> Rest(g, s)]
    <3> DEFINE zero == [s \in SUBSET {} |-> 0]
    <3>1. zero = [s \in SUBSET {} |-> Rest(zero, s)]
      OBVIOUS
    <3> QED BY <3>1
  <2>2. fold = [s \in SUBSET {} |-> Rest(fold, s)]
    <3> HIDE DEF Rest
    <3> QED BY <2>1
  <2>3. fold[{}] = 0
    BY <2>2
  <2>4. Sum(locations, field) = fold[{}]
    BY <1>1 DEF Sum, MapThenSumSet, MapThenFoldSet
  <2> QED BY <2>3, <2>4
<1>3. Totals(locations) = [f \in {"done", "estimated", "pending"} |-> 0]
  BY <1>2 DEF Totals
<1>4. [f \in {"done", "estimated", "pending"} |-> 0] = NoTotals
  BY DEF NoTotals
<1> QED BY <1>1, <1>3, <1>4

\* An update applied to a document that shows what was written shows what is
\* written when it finishes.
LEMMA AppliedShows ==
  ASSUME NEW u \in ProgressUpdates, NEW base, Shows(base, latest), Finish(u), DOMAIN latest = {"locations", "live", "workers"}
  PROVE  Shows(Applied(u, base), latest') /\ DOMAIN latest' = {"locations", "live", "workers"}
<1>1. CASE u.op = "backfill"
  <2> DEFINE next == [base EXCEPT !.locations[u.at] = u.value]
  <2>1. /\ DOMAIN next = DocFields /\ next.locations = [base.locations EXCEPT ![u.at] = u.value]
        /\ next.live = base.live /\ next.workers = base.workers
    BY DEF Shows, DocFields
  <2>2. /\ latest'.locations = [latest.locations EXCEPT ![u.at] = u.value]
        /\ latest'.live = latest.live /\ latest'.workers = latest.workers /\ DOMAIN latest' = {"locations", "live", "workers"}
    BY <1>1 DEF Finish
  <2>3. Applied(u, base) = RefreshBackfillTotals(next)
    BY <1>1 DEF Applied
  <2> HIDE DEF next
  <2> DEFINE after == RefreshBackfillTotals(next)
  <2>4. /\ DOMAIN after = DocFields /\ after.locations = next.locations /\ after.live = next.live
        /\ after.workers = next.workers /\ after.totals = Totals(next.locations)
        /\ after.status \in {"error", "live", "backfilling"}
        /\ after.status = "backfilling" => ~\E l \in Seen(next.locations) : next.locations[l].error
    BY <2>1 DEF RefreshBackfillTotals, DocFields
  <2> HIDE DEF after
  <2>5. after.status \in ProgressStatuses
    BY <2>4 DEF ProgressStatuses
  <2>6. base.locations = latest.locations /\ base.live = latest.live /\ base.workers = latest.workers
    BY DEF Shows
  <2>7. Shows(after, latest')
    BY <2>1, <2>2, <2>4, <2>5, <2>6 DEF Shows
  <2> QED BY <2>2, <2>3, <2>7 DEF after
<1>2. CASE u.op = "live"
  <2>1. u.op = "live" /\ Applied(u, base) = [base EXCEPT !.live = u.value, !.status = IF u.value = "error" THEN "error" ELSE "live"]
    BY <1>2 DEF Applied
  <2>2. latest' = [latest EXCEPT !.live = u.value]
    BY <1>2 DEF Finish
  <2> QED BY <2>1, <2>2 DEF Shows, DocFields, ProgressStatuses
<1>3. CASE u.op = "workers"
  <2>1. Applied(u, base) = [base EXCEPT !.workers = u.value]
    BY <1>3 DEF Applied
  <2>2. latest' = [latest EXCEPT !.workers = u.value]
    BY <1>3 DEF Finish
  <2> QED BY <2>1, <2>2 DEF Shows, DocFields
<1>4. CASE u.op = "status"
  <2>1. Applied(u, base) = [base EXCEPT !.status = u.value] /\ u.value = "paused"
    BY <1>4 DEF Applied, ProgressUpdates
  <2>2. latest' = latest
    BY <1>4 DEF Finish
  <2> QED BY <2>1, <2>2 DEF Shows, DocFields, ProgressStatuses
<1> QED BY <1>1, <1>2, <1>3, <1>4 DEF ProgressUpdates

\* Update: the draft is made from the document, or from one without content.
LEMMA UpdateKeeps ==
  ASSUME ReportIInv, NEW c \in Reporters, NEW u \in ProgressUpdates, Update(c, u)
  PROVE  ReportIInv'
<1> DEFINE base == IF Exists(progress) THEN progress ELSE NewDoc(DefaultStatus(u))
           r == [op |-> u.op, u |-> u, tries |-> 1, etag |-> progress.etag, doc |-> Applied(u, base)]
<1>1. reporter' = [reporter EXCEPT ![c] = r] /\ UNCHANGED <<progress, latest>>
  BY DEF Update
<1>2. Shows(base, latest)
  <2>1. CASE Exists(progress)
    BY <2>1 DEF ReportIInv
  <2>2. CASE ~Exists(progress)
    <3>1. progress = NoProgress /\ Shows(NoProgress, latest) /\ base = NewDoc(DefaultStatus(u))
      BY <2>2 DEF ReportIInv
    <3>2. DefaultStatus(u) \in ProgressStatuses
      BY <2>2 DEF DefaultStatus, ProgressUpdates, ProgressStatuses, Update
    <3>3. \A s : /\ DOMAIN NewDoc(s) = DocFields /\ NewDoc(s).status = s
                 /\ NewDoc(s).locations = [l \in Locations |-> NoEntry] /\ NewDoc(s).totals = NoTotals
                 /\ NewDoc(s).live = "none" /\ NewDoc(s).workers = "none"
      BY DEF NewDoc, DocFields
    <3> HIDE DEF base
    <3> QED BY <3>1, <3>2, <3>3, NothingCounted DEF Shows, NoProgress
  <2> QED BY <2>1, <2>2
<1>3. DOMAIN r = {"op", "u", "tries", "etag", "doc"} /\ r.u = u /\ r.etag = progress.etag /\ r.doc = Applied(r.u, base)
  OBVIOUS
<1> HIDE DEF r, base
<1>4. UpToDateDraft(r)
  BY <1>2, <1>3 DEF UpToDateDraft, ReportIInv
<1>5. \A d \in Reporters : reporter'[d] # NoUpdate => UpToDateDraft(reporter'[d])
  BY <1>1, <1>4 DEF ReportIInv
<1> QED BY <1>1, <1>5 DEF ReportIInv, UpToDateDraft

\* SaveWithEtag: the ETag says that nobody wrote meanwhile.
LEMMA SaveKeeps ==
  ASSUME ReportIInv, NEW c \in Reporters, SaveWithEtag(c)
  PROVE  ReportIInv'
<1> DEFINE r == reporter[c]
<1>1. r # NoUpdate /\ r.etag = progress.etag /\ UpToDateDraft(r) /\ Finish(r.u)
  BY DEF SaveWithEtag, ReportIInv
<1>2. PICK n \in Nat : n = progress.etag + 1
  BY DEF ReportIInv
<1>3. progress' = [r.doc EXCEPT !.etag = n] /\ reporter' = [reporter EXCEPT ![c] = NoUpdate]
  BY <1>2 DEF SaveWithEtag
<1>4. PICK base : Shows(base, latest) /\ r.doc = Applied(r.u, base)
  BY <1>1 DEF UpToDateDraft
<1>5. Shows(r.doc, latest') /\ DOMAIN latest' = {"locations", "live", "workers"}
  BY <1>1, <1>4, AppliedShows DEF UpToDateDraft, ReportIInv
<1>6. progress'.etag = n /\ Shows(progress', latest')
  BY <1>3, <1>5 DEF Shows, DocFields
<1>7. Exists(progress)'
  BY <1>2, <1>6 DEF Exists, ReportIInv
<1>8. ASSUME NEW d \in Reporters, reporter'[d] # NoUpdate PROVE UpToDateDraft(reporter[d])'
  <2>1. reporter'[d] = reporter[d] /\ UpToDateDraft(reporter[d])
    BY <1>3, <1>8 DEF ReportIInv
  <2>2. reporter'[d].etag < progress'.etag
    BY <1>2, <1>6, <2>1 DEF UpToDateDraft, ReportIInv
  <2> QED BY <1>2, <1>6, <2>1, <2>2 DEF UpToDateDraft, ReportIInv
<1>9. DOMAIN reporter' = Reporters
  BY <1>3 DEF ReportIInv
<1> QED BY <1>2, <1>5, <1>6, <1>7, <1>8, <1>9 DEF ReportIInv

\* SaveConflicts: the update's own fields are applied to the document as it is.
LEMMA ConflictKeeps ==
  ASSUME ReportIInv, NEW c \in Reporters, SaveConflicts(c) \/ SaveGivesUp(c)
  PROVE  ReportIInv'
<1>1. reporter[c] # NoUpdate /\ UpToDateDraft(reporter[c]) /\ UNCHANGED <<progress, latest>>
  BY DEF SaveConflicts, SaveGivesUp, ReportIInv
<1>2. CASE SaveConflicts(c)
  <2> DEFINE r == reporter[c]
             next == [r EXCEPT !.tries = r.tries + 1, !.etag = progress.etag, !.doc = Rebase(r.u, progress, r.doc)]
  <2>1. reporter' = [reporter EXCEPT ![c] = next]
    BY <1>2 DEF SaveConflicts
  <2>2. Exists(progress) /\ Rebase(r.u, progress, r.doc) = Applied(r.u, progress)
    BY <1>1, <1>2 DEF SaveConflicts, UpToDateDraft, Exists, Rebase, ReportIInv
  <2>3. /\ DOMAIN next = {"op", "u", "tries", "etag", "doc"} /\ next.u = r.u /\ next.etag = progress.etag
        /\ next.doc = Applied(r.u, progress)
    BY <1>1, <2>2 DEF UpToDateDraft
  <2> HIDE DEF next
  <2>4. UpToDateDraft(next)
    BY <1>1, <2>3 DEF UpToDateDraft, ReportIInv
  <2>5. \A d \in Reporters : reporter'[d] # NoUpdate => UpToDateDraft(reporter'[d])
    BY <2>1, <2>4 DEF ReportIInv
  <2>6. DOMAIN reporter' = Reporters
    BY <2>1 DEF ReportIInv
  <2> QED BY <1>1, <2>5, <2>6 DEF ReportIInv, UpToDateDraft
<1>3. CASE SaveGivesUp(c)
  <2>1. reporter' = [reporter EXCEPT ![c] = NoUpdate]
    BY <1>3 DEF SaveGivesUp
  <2>2. \A d \in Reporters : reporter'[d] # NoUpdate => reporter'[d] = reporter[d]
    BY <2>1 DEF ReportIInv
  <2> QED BY <1>1, <2>1, <2>2 DEF ReportIInv, UpToDateDraft
<1> QED BY <1>2, <1>3

\* Checkpoints of processes under one name: a save that meets another ETag
\* reloads, and a checkpoint made again has a later ETag.
LEMMA CheckpointKeeps ==
  ASSUME CheckpointIInv, NEW c \in Reporters, LoadCheckpoint(c) \/ SaveCheckpointDoc(c) \/ ResetCheckpoint(c)
  PROVE  CheckpointIInv'
<1>1. /\ manager[c].etag \in Nat /\ manager[c].items \in Nat /\ manager \in [Reporters -> [etag : Nat, items : Nat]]
      /\ stored.etag \in Nat /\ stored.items \in Nat /\ stored.born \in Nat
      /\ \A d \in Reporters : manager[d].etag \in Nat /\ manager[d].items \in Nat
  BY DEF CheckpointIInv
<1>2. CASE manager' = [manager EXCEPT ![c] = Loaded] /\ UNCHANGED stored
  <2>1. Loaded \in [etag : Nat, items : Nat] /\ Loaded.etag <= stored.etag
    BY <1>1 DEF Loaded, NoManager
  <2>2. /\ Loaded.etag = 0 => Loaded.items = 0
        /\ stored.exists => Loaded.etag = stored.etag /\ Loaded.items = stored.items
    BY <1>1 DEF Loaded, NoManager, CheckpointIInv
  <2>3. manager'[c] = Loaded /\ \A d \in Reporters \ {c} : manager'[d] = manager[d]
    BY <1>1, <1>2
  <2>4. manager' \in [Reporters -> [etag : Nat, items : Nat]]
    BY <1>1, <1>2, <2>1
  <2> QED BY <1>1, <1>2, <2>1, <2>2, <2>3, <2>4 DEF CheckpointIInv
<1>3. CASE MaySave(c) /\ Saved(c)
  <2>1. PICK n \in Nat : n = stored.etag + 1
    BY <1>1
  <2>2. PICK m \in Nat : m = manager[c].items + 1
    BY <1>1
  <2>3. PICK b \in Nat : b = IF stored.exists THEN stored.born ELSE n
    BY <1>1, <2>1
  <2>4. /\ stored' = [etag |-> n, exists |-> TRUE, items |-> m, born |-> b]
        /\ manager' = [manager EXCEPT ![c] = [etag |-> n, items |-> m]]
    BY <1>3, <2>1, <2>2, <2>3 DEF Saved
  <2>5. /\ stored'.etag = n /\ stored'.exists = TRUE /\ stored'.items = m /\ stored'.born = b
        /\ DOMAIN stored' = {"etag", "exists", "items", "born"}
    BY <2>4
  <2>6. /\ manager'[c].etag = n /\ manager'[c].items = m /\ \A d \in Reporters \ {c} : manager'[d] = manager[d]
        /\ manager' \in [Reporters -> [etag : Nat, items : Nat]]
    BY <1>1, <2>4
  <2>7. stored.exists => m = stored.items + 1 /\ b = stored.born /\ 0 < b /\ b <= stored.etag
    BY <1>1, <1>3, <2>2, <2>3 DEF MaySave, CheckpointIInv
  <2>8. ~stored.exists => b = n
    BY <2>3
  <2>9. ASSUME NEW d \in Reporters \ {c}
        PROVE  /\ manager[d].etag < n
               /\ manager[d].etag >= b => manager[d].items <= m
    BY <1>1, <2>1, <2>7, <2>8 DEF CheckpointIInv
  <2>10. \A d \in Reporters :
        /\ manager'[d].etag <= n
        /\ manager'[d].etag = 0 => manager'[d].items = 0
        /\ manager'[d].etag = n => manager'[d].items = m
        /\ manager'[d].etag >= b => manager'[d].items <= m
    BY <1>1, <2>1, <2>6, <2>9 DEF CheckpointIInv
  <2>11. 0 < b /\ b <= n
    BY <1>1, <2>1, <2>7, <2>8
  <2> QED BY <2>5, <2>6, <2>10, <2>11 DEF CheckpointIInv
<1>4. CASE ResetCheckpoint(c)
  <2>1. stored' = [stored EXCEPT !.exists = FALSE, !.items = 0] /\ manager' = [manager EXCEPT ![c] = NoManager]
    BY <1>4 DEF ResetCheckpoint
  <2>2. /\ stored'.etag = stored.etag /\ stored'.born = stored.born /\ stored'.items = 0 /\ stored'.exists = FALSE
        /\ DOMAIN stored' = {"etag", "exists", "items", "born"}
    BY <2>1 DEF CheckpointIInv
  <2>3. NoManager \in [etag : Nat, items : Nat] /\ NoManager.etag = 0 /\ NoManager.items = 0
    BY DEF NoManager
  <2>4. /\ manager'[c] = NoManager /\ \A d \in Reporters \ {c} : manager'[d] = manager[d]
        /\ manager' \in [Reporters -> [etag : Nat, items : Nat]]
    BY <1>1, <2>1, <2>3
  <2>5. stored'.etag \in Nat /\ stored'.items \in Nat /\ stored'.born \in Nat
    BY <1>1, <2>2
  <2>6. \A d \in Reporters : manager'[d].etag <= stored'.etag /\ (manager'[d].etag = 0 => manager'[d].items = 0)
    BY <1>1, <2>2, <2>3, <2>4 DEF CheckpointIInv
  <2>7. stored'.exists = FALSE
    BY <2>2
  <2> QED BY <2>2, <2>4, <2>5, <2>6, <2>7 DEF CheckpointIInv
<1> QED BY <1>2, <1>3, <1>4 DEF LoadCheckpoint, SaveCheckpointDoc

\* How many of two documents have a status.
LEMMA CountOfTwo ==
  ASSUME NEW d, NEW e, NEW s
  PROVE  /\ Count(<<d, e>>, s) = (IF d.status = s THEN 1 ELSE 0) + (IF e.status = s THEN 1 ELSE 0)
         /\ Len(<<d, e>>) = 2 /\ <<d, e>> # <<>>
<1> DEFINE found == {i \in DOMAIN <<d, e>> : <<d, e>>[i].status = s}
<1>1. found = {i \in {1, 2} : <<d, e>>[i].status = s}
  <2>1. DOMAIN <<d, e>> = {1, 2}
    OBVIOUS
  <2> QED BY <2>1
<1>2. <<d, e>>[1] = d /\ <<d, e>>[2] = e
  OBVIOUS
<1>3. found = (IF d.status = s THEN {1} ELSE {}) \cup (IF e.status = s THEN {2} ELSE {})
  BY <1>1, <1>2
<1> HIDE DEF found
<1>4. Cardinality({}) = 0 /\ \A i : Cardinality({i}) = 1
  BY FS_EmptySet, FS_Singleton
<1>5. Cardinality({1, 2}) = 2
  <2>1. IsFiniteSet({1})
    BY FS_Singleton
  <2>2. 2 \notin {1} /\ {1} \cup {2} = {1, 2}
    OBVIOUS
  <2>3. Cardinality({1} \cup {2}) = Cardinality({1}) + 1
    BY <2>1, <2>2, FS_AddElement
  <2>4. Cardinality({1}) = 1
    BY FS_Singleton
  <2>5. Cardinality({1, 2}) = Cardinality({1}) + 1
    BY <2>2, <2>3
  <2> QED BY <2>4, <2>5
<1>6. {1} \cup {2} = {1, 2} /\ {1} \cup {} = {1} /\ {} \cup {2} = {2} /\ {} \cup {} = {}
  OBVIOUS
<1>7. Cardinality(found) = (IF d.status = s THEN 1 ELSE 0) + (IF e.status = s THEN 1 ELSE 0)
  <2>1. CASE d.status = s /\ e.status = s
    BY <1>3, <1>5, <1>6, <2>1
  <2>2. CASE d.status = s /\ e.status # s
    <3>1. found = {1}
      BY <1>3, <2>2
    <3>2. Cardinality(found) = 1
      BY <1>4, <3>1, Zenon
    <3> QED BY <2>2, <3>2
  <2>3. CASE d.status # s /\ e.status = s
    <3>1. found = {2}
      BY <1>3, <2>3
    <3>2. Cardinality(found) = 1
      BY <1>4, <3>1, Zenon
    <3> QED BY <2>3, <3>2
  <2>4. CASE d.status # s /\ e.status # s
    BY <1>3, <1>4, <1>6, <2>4
  <2> QED BY <2>1, <2>2, <2>3, <2>4
<1> QED BY <1>7 DEF Count, found

\* Updates that overlap lose nothing, totals and status follow from locations,
\* checkpoints are not taken back (updates with ETags, retries, checkpoints).
THEOREM ReportsProgressKept == ReportsSpec => []ProgressKept
<1> DEFINE IInv == ReportIInv /\ CheckpointIInv
<1>1. ReportInit => IInv
  <2> SUFFICES ASSUME ReportInit PROVE IInv
    OBVIOUS
  <2>1. CheckpointIInv
    BY DEF ReportInit, CheckpointIInv, NoCheckpointDoc, NoManager
  <2>2. Shows(progress, latest)
    BY NothingCounted DEF ReportInit, NoProgress, NewDoc, Shows, DocFields, ProgressStatuses
  <2>3. progress = NoProgress /\ progress.etag = 0 /\ DOMAIN latest = {"locations", "live", "workers"}
    BY DEF ReportInit, NoProgress, NewDoc
  <2>4. DOMAIN reporter = Reporters /\ \A c \in Reporters : reporter[c] = NoUpdate
    BY DEF ReportInit
  <2> QED BY <2>1, <2>2, <2>3, <2>4 DEF ReportIInv
<1>2. IInv /\ [ReportNext \/ CheckpointNext]_reportVars => IInv'
  <2> SUFFICES ASSUME IInv, [ReportNext \/ CheckpointNext]_reportVars PROVE IInv'
    OBVIOUS
  <2>1. CASE UNCHANGED reportVars
    BY <2>1 DEF reportVars, ReportIInv, CheckpointIInv, UpToDateDraft
  <2>2. CASE ReportNext
    <3>1. ReportIInv'
      BY <2>2, UpdateKeeps, SaveKeeps, ConflictKeeps DEF ReportNext
    <3>2. UNCHANGED <<stored, manager>>
      BY <2>2 DEF ReportNext, Update, SaveWithEtag, SaveConflicts, SaveGivesUp
    <3> QED BY <3>1, <3>2 DEF CheckpointIInv
  <2>3. CASE CheckpointNext
    <3>1. CheckpointIInv'
      BY <2>3, CheckpointKeeps DEF CheckpointNext
    <3>2. UNCHANGED <<progress, reporter, latest>>
      BY <2>3 DEF CheckpointNext, LoadCheckpoint, SaveCheckpointDoc, ResetCheckpoint
    <3> QED BY <3>1, <3>2 DEF ReportIInv, UpToDateDraft
  <2> QED BY <2>1, <2>2, <2>3
<1>3. IInv => ProgressKept
  <2> SUFFICES ASSUME IInv PROVE ProgressKept
    OBVIOUS
  <2>1. ASSUME NEW other \in {"none", "live", "paused", "error"}
        PROVE  LET docs == <<progress, NewDoc(other)>> IN
               /\ PipelineProgress("active", docs) = "active" <=> {progress.status, other} \subseteq {"live", "backfilling"}
               /\ SystemProgress(docs) = "healthy" <=> "error" \notin {progress.status, other}
    <3>1. PICK s \in ProgressStatuses : s = progress.status
      BY DEF ReportIInv, Shows
    <3>2. NewDoc(other).status = other
      BY DEF NewDoc
    <3> DEFINE docs == <<progress, NewDoc(other)>>
    <3>3. \A x : Count(docs, x) = (IF s = x THEN 1 ELSE 0) + (IF other = x THEN 1 ELSE 0)
      BY <3>1, <3>2, CountOfTwo
    <3>4. Len(docs) = 2 /\ docs # <<>>
      BY CountOfTwo
    <3> HIDE DEF docs
    <3>5. SystemProgress(docs) = "healthy" <=> "error" \notin {s, other}
      BY <3>3 DEF SystemProgress
    <3>6. PipelineProgress("active", docs) = "active" <=> {s, other} \subseteq {"live", "backfilling"}
      BY <3>3, <3>4 DEF PipelineProgress, ProgressStatuses
    <3> QED BY <3>1, <3>5, <3>6 DEF docs
  <2>2. /\ progress.locations = latest.locations /\ progress.live = latest.live /\ progress.workers = latest.workers
        /\ progress.totals = Totals(progress.locations)
        /\ progress.status = "backfilling" => \A l \in Seen(progress.locations) : ~progress.locations[l].error
    BY DEF ReportIInv, Shows
  <2> QED BY <2>1, <2>2 DEF ProgressKept, CheckpointIInv
<1> QED BY <1>1, <1>2, <1>3, PTL DEF ReportsSpec

-----------------------------------------------------------------------------
(* OneLake: a row's managed columns never stem from an older version.       *)

Orders == Nat \X Nat
RowFields == {"content", "hash", "gen", "order"}
CheckpointFields == {"snapshot", "pipeline", "revision", "known", "baseline", "pending", "processed", "old"}
RowOrdered(row) == DOMAIN row = RowFields /\ row.order \in Orders
CheckpointRevised(c) == DOMAIN c = CheckpointFields /\ c.revision \in Nat
ScanOrdered(s) ==
    /\ DOMAIN s = {"at", "pipeline", "todo", "drop", "ck"}
    /\ \A m \in s.todo : m.order \in Orders
    /\ CheckpointRevised(s.ck)

\* Whatever is compared with the order of a row is an order: a version of the
\* table and the revision of the plan that made it.
OneLakeIInv ==
    /\ version \in Nat
    /\ DOMAIN table = Refs /\ \A r \in Refs : RowOrdered(table[r])
    /\ CheckpointRevised(checkpoint)
    /\ scan # NoScan => ScanOrdered(scan)
    /\ \A m \in inflight : m.order \in Orders
    /\ \A x \in changes : x.version \in Nat

\* What the watcher does to a checkpoint leaves its revision.
LEMMA CheckpointSteps ==
  ASSUME NEW c, CheckpointRevised(c)
  PROVE  /\ CheckpointRevised(Revised(c))
         /\ \A keys : CheckpointRevised(Forget(c, keys))
         /\ \A key, digest : CheckpointRevised(Submitted(c, key, digest))
         /\ \A old : CheckpointRevised([c EXCEPT !.old = old])
         /\ \A known, pending : CheckpointRevised([c EXCEPT !.known = known, !.baseline = TRUE, !.pending = pending])
         /\ \A at, gen : CheckpointRevised([c EXCEPT !.snapshot = at, !.pipeline = gen])
<1>1. CheckpointRevised(Revised(c))
  <2>1. PICK n \in Nat : n = c.revision + 1
    BY DEF CheckpointRevised
  <2>2. Revised(c) \in {c, [c EXCEPT !.revision = n]}
    BY <2>1 DEF Revised
  <2>3. CheckpointRevised([c EXCEPT !.revision = n])
    BY DEF CheckpointRevised, CheckpointFields
  <2> QED BY <2>2, <2>3
<1> QED BY <1>1 DEF CheckpointRevised, CheckpointFields, Forget, Submitted

\* A commit of a row whose order is one.
LEMMA CommitOrdered ==
  ASSUME OneLakeIInv, NEW r \in Refs, NEW row, RowOrdered(row), Commit(r, row)
  PROVE  /\ version' \in Nat
         /\ DOMAIN table' = Refs /\ \A q \in Refs : RowOrdered(table'[q])
         /\ \A x \in changes' : x.version \in Nat
         /\ table'[r] = row /\ \A q \in Refs \ {r} : table'[q] = table[q]
<1>1. table' = [table EXCEPT ![r] = row] /\ version' = version + 1 /\ changes' = changes \cup Feed(r, row, version + 1)
  BY DEF Commit
<1>2. PICK n \in Nat : n = version + 1
  BY DEF OneLakeIInv
<1>3. \A x \in Feed(r, row, n) : x.version = n
  BY DEF Feed, Record
<1>4. table'[r] = row /\ DOMAIN table' = Refs /\ \A q \in Refs \ {r} : table'[q] = table[q]
  BY <1>1 DEF OneLakeIInv
<1> QED BY <1>1, <1>2, <1>3, <1>4 DEF OneLakeIInv

LEMMA OrderOfItself ==
  ASSUME NEW o \in Orders
  PROVE  AtLeast(o, o)
BY DEF Orders, AtLeast

\* EditRow: the order of a row that stays is kept.
LEMMA EditKeeps ==
  ASSUME OneLakeIInv, NEW r \in Refs, NEW c, EditRow(r, c)
  PROVE  OneLakeIInv' /\ \A q \in Present(table) : table'[q].content # "none" => AtLeast(table'[q].order, table[q].order)
<1> DEFINE row == IF c = "none" \/ r \notin Present(table) THEN [NoRow EXCEPT !.content = c] ELSE [table[r] EXCEPT !.content = c]
<1>1. Commit(r, row) /\ UNCHANGED <<checkpoint, scan, inflight>>
  BY DEF EditRow
<1>2. RowOrdered(table[r]) /\ RowOrdered(NoRow)
  BY DEF OneLakeIInv, RowOrdered, NoRow, RowFields, Orders
<1>3. RowOrdered(row)
  BY <1>2 DEF RowOrdered, RowFields
<1>4. r \in Present(table) /\ c # "none" => row.order = table[r].order
  BY <1>2 DEF RowOrdered, RowFields
<1>5. r \in Present(table) => (row.content # "none" => c # "none")
  BY DEF NoRow
<1> HIDE DEF row
<1>6. OneLakeIInv'
  BY <1>1, <1>3, CommitOrdered DEF OneLakeIInv
<1>7. ASSUME NEW q \in Present(table), table'[q].content # "none" PROVE AtLeast(table'[q].order, table[q].order)
  <2>1. q \in Refs /\ table[q].order \in Orders
    BY DEF Present, OneLakeIInv, RowOrdered
  <2>2. table'[q].order = table[q].order
    BY <1>1, <1>3, <1>4, <1>5, <1>7, <2>1, CommitOrdered
  <2> QED BY <2>1, <2>2, OrderOfItself
<1> QED BY <1>6, <1>7

\* Merge: a row is changed by a job that is not older.
LEMMA MergeKeeps ==
  ASSUME OneLakeIInv, NEW m \in inflight, Merge(m)
  PROVE  OneLakeIInv' /\ \A q \in Present(table) : table'[q].content # "none" => AtLeast(table'[q].order, table[q].order)
<1>1. inflight' \subseteq inflight /\ UNCHANGED <<checkpoint, scan>>
  BY DEF Merge
<1>2. \A q \in Present(table) : q \in Refs /\ AtLeast(table[q].order, table[q].order)
  BY OrderOfItself DEF Present, OneLakeIInv, RowOrdered
<1>3. CASE ~Matches(m)
  <2>1. UNCHANGED <<table, version, changes>>
    BY <1>3 DEF Merge
  <2> QED BY <1>1, <1>2, <2>1 DEF OneLakeIInv
<1>4. CASE Matches(m)
  <2>1. m.ref \in Refs /\ AtLeast(m.order, table[m.ref].order) /\ Commit(m.ref, Merged(m))
    BY <1>4 DEF Matches, Merge, Present
  <2>2. m.order \in Orders /\ RowOrdered(table[m.ref])
    BY <2>1 DEF OneLakeIInv
  <2>3. RowOrdered(Merged(m)) /\ Merged(m).order = m.order
    BY <2>2 DEF Merged, RowOrdered, RowFields
  <2>4. OneLakeIInv'
    BY <1>1, <2>1, <2>3, CommitOrdered DEF OneLakeIInv
  <2>5. ASSUME NEW q \in Present(table) PROVE AtLeast(table'[q].order, table[q].order)
    BY <1>2, <2>1, <2>3, CommitOrdered
  <2> QED BY <2>4, <2>5
<1> QED BY <1>3, <1>4

\* What leaves the table alone.
LEMMA ElsewhereKeeps ==
  ASSUME OneLakeIInv,
         \/ WatcherStep \/ RetryDue \/ PublishMicrobatch \/ ChangePipeline \/ ScanFails
         \/ (\E x \in changes : MicrobatchFails(x))
         \/ (\E m \in inflight : MessageLost(m) \/ MergeRefused(m))
  PROVE  OneLakeIInv' /\ UNCHANGED table
<1>1. CheckpointRevised(checkpoint) /\ version \in Nat
  BY DEF OneLakeIInv
<1>2. CASE StartScan
  <2> DEFINE c == Revised(checkpoint)
  <2>1. scan' = Scan(c) /\ UNCHANGED <<table, version, checkpoint, inflight, changes>>
    BY <1>2 DEF StartScan
  <2>2. CheckpointRevised(c)
    BY <1>1, CheckpointSteps
  <2> HIDE DEF c
  <2>3. \A r, digest : Message(r, digest, c.revision).order \in Orders
    BY <1>1, <2>2 DEF Message, Orders, CheckpointRevised
  <2>4. ScanOrdered(Scan(c))
    <3>1. DOMAIN Scan(c) = {"at", "pipeline", "todo", "drop", "ck"}
      BY DEF Scan
    <3>2. \A m \in Scan(c).todo : m.order \in Orders
      BY <2>3 DEF Scan
    <3>3. CheckpointRevised(Scan(c).ck)
      <4>1. CheckpointRevised(Forget(c, {Key(r) : r \in UpToDate(c)}))
        BY <2>2, CheckpointSteps
      <4> QED BY <4>1, CheckpointSteps DEF Scan
    <3> QED BY <3>1, <3>2, <3>3 DEF ScanOrdered
  <2> QED BY <2>1, <2>4 DEF OneLakeIInv
<1>3. ASSUME NEW m, Publish(m) PROVE OneLakeIInv' /\ UNCHANGED table
  <2> DEFINE next == [scan EXCEPT !.todo = scan.todo \ {m}, !.ck = Submitted(scan.ck, <<scan.pipeline, m.ref>>, m.digest)]
  <2>1. /\ ScanOrdered(scan) /\ m \in scan.todo /\ inflight' = inflight \cup {m} /\ scan' = next
        /\ UNCHANGED <<table, version, checkpoint, changes>>
    BY <1>3 DEF Publish, OneLakeIInv
  <2>2. CheckpointRevised(Submitted(scan.ck, <<scan.pipeline, m.ref>>, m.digest))
    BY <2>1, CheckpointSteps DEF ScanOrdered
  <2>3. ScanOrdered(next) /\ m.order \in Orders
    BY <2>1, <2>2 DEF ScanOrdered
  <2> HIDE DEF next
  <2> QED BY <2>1, <2>3 DEF OneLakeIInv
<1>4. CASE SaveCheckpoint
  <2>1. /\ ScanOrdered(scan) /\ scan' = NoScan /\ UNCHANGED <<table, version, inflight, changes>>
        /\ checkpoint' = [Forget(scan.ck, scan.drop) EXCEPT !.snapshot = scan.at, !.pipeline = scan.pipeline]
    BY <1>4 DEF SaveCheckpoint, OneLakeIInv
  <2>2. CheckpointRevised(Forget(scan.ck, scan.drop))
    BY <2>1, CheckpointSteps DEF ScanOrdered
  <2>3. CheckpointRevised(checkpoint')
    BY <2>1, <2>2, CheckpointSteps
  <2> QED BY <2>1, <2>3 DEF OneLakeIInv, CheckpointRevised
<1>5. CASE RetryDue
  <2>1. /\ checkpoint' = [checkpoint EXCEPT !.old = Keys(checkpoint)] /\ UNCHANGED <<table, version, inflight, changes>>
        /\ scan' = IF scan = NoScan THEN scan ELSE [scan EXCEPT !.ck.old = Keys(scan.ck)]
    BY <1>5 DEF RetryDue
  <2>2. CheckpointRevised(checkpoint')
    BY <1>1, <2>1, CheckpointSteps
  <2>3. ASSUME scan # NoScan PROVE ScanOrdered(scan')
    <3> DEFINE ck == [scan.ck EXCEPT !.old = Keys(scan.ck)]
    <3>1. ScanOrdered(scan) /\ scan' = [scan EXCEPT !.ck = ck]
      BY <2>1, <2>3 DEF OneLakeIInv
    <3>2. CheckpointRevised(ck)
      BY <3>1, CheckpointSteps DEF ScanOrdered
    <3> HIDE DEF ck
    <3> QED BY <3>1, <3>2 DEF ScanOrdered
  <2> QED BY <2>1, <2>2, <2>3 DEF OneLakeIInv, CheckpointRevised, ScanOrdered
<1>6. ASSUME NEW x \in changes, NEW m \in BuildMessages(x) PROVE m.order \in Orders
  <2>1. <<x.version, 1>> \in Orders
    BY DEF OneLakeIInv, Orders
  <2>2. \A r, digest : [Message(r, digest, 1) EXCEPT !.order = <<x.version, 1>>].order = <<x.version, 1>>
    BY DEF Message
  <2> QED BY <1>6, <2>1, <2>2 DEF BuildMessages
<1>7. CASE PublishMicrobatch \/ \E x \in changes : MicrobatchFails(x)
  <2>1. /\ UNCHANGED <<table, version, checkpoint, scan>> /\ changes' \subseteq changes
        /\ \A m \in inflight' : m \in inflight \/ \E x \in changes : m \in BuildMessages(x)
    BY <1>7 DEF PublishMicrobatch, MicrobatchFails
  <2> QED BY <1>6, <2>1 DEF OneLakeIInv
<1>8. CASE ChangePipeline \/ ScanFails \/ \E m \in inflight : MessageLost(m) \/ MergeRefused(m)
  <2>1. UNCHANGED <<table, version, checkpoint, changes>> /\ scan' \in {scan, NoScan} /\ inflight' \subseteq inflight
    BY <1>8 DEF ChangePipeline, ScanFails, MessageLost, MergeRefused
  <2> QED BY <2>1 DEF OneLakeIInv
<1> QED BY <1>2, <1>3, <1>4, <1>5, <1>7, <1>8 DEF WatcherStep

\* Whatever order scans, feed and jobs take, the managed columns of a row that
\* exists stem from versions that never go back (order of messages, guard of
\* the MERGE).
THEOREM OneLakeNeverOlder == OneLakeSpec => NeverOlder
<1> DEFINE Newer == \A r \in Refs : r \in Present(table) /\ table'[r].content # "none" => AtLeast(table'[r].order, table[r].order)
<1>1. OneLakeInit => OneLakeIInv
  <2> SUFFICES ASSUME OneLakeInit PROVE OneLakeIInv
    OBVIOUS
  <2>1. RowOrdered(NoRow) /\ \A c : RowOrdered(Inserted(c))
    BY DEF RowOrdered, RowFields, NoRow, Inserted, Orders
  <2>2. CheckpointRevised(NoCheckpoint)
    BY DEF CheckpointRevised, CheckpointFields, NoCheckpoint
  <2> QED BY <2>1, <2>2 DEF OneLakeInit, OneLakeIInv
<1>2. OneLakeIInv /\ [OneLakeNext]_oneLakeVars => OneLakeIInv' /\ [Newer]_oneLakeVars
  <2> SUFFICES ASSUME OneLakeIInv, [OneLakeNext]_oneLakeVars PROVE OneLakeIInv' /\ [Newer]_oneLakeVars
    OBVIOUS
  <2>1. CASE UNCHANGED oneLakeVars
    BY <2>1 DEF oneLakeVars, OneLakeIInv
  <2>2. ASSUME NEW r \in Refs, NEW c, EditRow(r, c) PROVE OneLakeIInv' /\ Newer
    BY <2>2, EditKeeps
  <2>3. ASSUME NEW m \in inflight, Merge(m) PROVE OneLakeIInv' /\ Newer
    BY <2>3, MergeKeeps
  <2>4. ASSUME UNCHANGED table PROVE Newer
    BY <2>4, OrderOfItself DEF OneLakeIInv, RowOrdered
  <2> QED BY <2>1, <2>2, <2>3, <2>4, ElsewhereKeeps DEF OneLakeNext, MergeStep
<1> QED BY <1>1, <1>2, PTL DEF OneLakeSpec, NeverOlder
-----------------------------------------------------------------------------
(* HealthChecks: a document says what its run found.                        *)

Grades == {"healthy", "warning", "unhealthy"}
HealthEntries == Grades \cup {"none"}
Results == [Resources \cup {"pipeline"} -> HealthEntries]

\* The parts of the pipeline are all sources, the destination and the model.
LEMMA PartsListed ==
  /\ Parts \in Seq(Resources)
  /\ ToSet(Parts) = HealthSources \cup {"destination", "model"}
<1>1. PICK n \in Nat : ExistsBijection(1..n, HealthSources)
  BY FS_NatBijection, HealthAssumption
<1>2. Cardinality(HealthSources) = n
  <2>1. IsFiniteSet(1..n) /\ Cardinality(1..n) = n
    BY FS_Interval
  <2> QED BY <1>1, <2>1, FS_Bijection
<1>3. PICK f \in [1..n -> HealthSources] : IsInjective(f)
  BY <1>1 DEF ExistsBijection, Bijection, Injection
<1> DEFINE list == SetToSeq(HealthSources)
<1>4. list \in [1..n -> HealthSources] /\ IsInjective(list)
  BY <1>2, <1>3 DEF SetToSeq
<1>5. list \in Surjection(1..n, HealthSources)
  <2>1. list \in Injection(1..n, HealthSources)
    BY <1>4 DEF Injection, IsInjective
  <2>2. Cardinality(1..n) = Cardinality(HealthSources)
    BY <1>2, FS_Interval
  <2> HIDE DEF list
  <2> QED BY <2>1, <2>2, FS_Injection, HealthAssumption
<1>6. \A x \in HealthSources : \E i \in 1..n : list[i] = x
  BY <1>5 DEF Surjection
<1>7. list \in Seq(Resources) /\ Len(list) = n
  <2>1. list \in Seq(HealthSources) /\ Len(list) = n
    BY <1>4
  <2> HIDE DEF list
  <2> QED BY <2>1 DEF Resources
<1>8. <<"destination", "model">> \in Seq(Resources) /\ Len(<<"destination", "model">>) = 2
  BY DEF Resources
<1> HIDE DEF list
<1>9. /\ Parts \in Seq(Resources) /\ Len(Parts) = n + 2
      /\ \A i \in 1..n : Parts[i] = list[i]
      /\ Parts[n + 1] = "destination" /\ Parts[n + 2] = "model"
  BY <1>7, <1>8 DEF Parts, list
<1>10. ToSet(Parts) = HealthSources \cup {"destination", "model"}
  <2>1. \A i \in 1..(n + 2) : i \in 1..n \/ i = n + 1 \/ i = n + 2
    OBVIOUS
  <2>2. DOMAIN Parts = 1..(n + 2) /\ 1..n \subseteq 1..(n + 2) /\ n + 1 \in 1..(n + 2) /\ n + 2 \in 1..(n + 2)
    BY <1>9
  <2>3. \A i \in 1..n : list[i] \in HealthSources
    BY <1>4
  <2>4. ASSUME NEW x \in HealthSources PROVE \E i \in DOMAIN Parts : Parts[i] = x
    BY <1>6, <1>9, <2>2
  <2> QED BY <1>9, <2>1, <2>2, <2>3, <2>4 DEF ToSet
<1> QED BY <1>9, <1>10

\* The pipeline is as bad as the worst of its parts.
LEMMA PipelineJudged ==
  ASSUME NEW loaded, NEW results \in Results
  PROVE  LET graded(x) == Judge(x, loaded[x], results[x])
             grade == CheckPipeline(loaded, results) IN
         /\ grade \in Grades
         /\ \A x \in ToSet(Parts) : Rank(grade) >= Rank(graded(x))
         /\ (\A x \in ToSet(Parts) : graded(x) = "healthy") => grade = "healthy"
<1> DEFINE n == Len(Parts)
           J(x) == Judge(x, loaded[x], results[x])
           step == [p \in (1..n) \X Grades |-> Escalate(p[2], J(Parts[p[1]]))]
           D == DOMAIN Parts
           fold[s \in SUBSET D] ==
               IF s = {} THEN "healthy" ELSE Escalate(fold[s \ {Max(s)}], J(Parts[Max(s)]))
<1>1. n \in Nat /\ D = 1..n
  BY PartsListed
<1>2. \A i \in 1..n : Parts[i] \in Resources /\ J(Parts[i]) \in Grades
  <2> TAKE i \in 1..n
  <2>1. Parts[i] \in Resources /\ results[Parts[i]] \in HealthEntries
    BY PartsListed DEF Results
  <2> QED BY <2>1 DEF Judge, HealthEntries, Grades
<1>3. \A v \in Grades, w \in Grades : Escalate(v, w) \in Grades
  BY DEF Escalate
<1>4. step \in [(1..n) \X Grades -> Grades]
  BY <1>2, <1>3
<1>5. PICK it \in [SUBSET (1..n) -> Grades] : Folds(it, n, "healthy", step)
  <2> HIDE DEF step, n
  <2>1. HasFold(n, Grades, "healthy", step)
    BY <1>1, <1>4, FoldExists DEF Grades
  <2> QED BY <2>1 DEF HasFold
<1>6. it = [s \in SUBSET D |-> IF s = {} THEN "healthy" ELSE Escalate(it[s \ {Max(s)}], J(Parts[Max(s)]))]
  <2>1. ASSUME NEW s \in SUBSET D, s # {}
        PROVE  step[<<Max(s), it[s \ {Max(s)}]>>] = Escalate(it[s \ {Max(s)}], J(Parts[Max(s)]))
    <3>1. Max(s) \in 1..n
      BY <1>1, <2>1, GreatestIn
    <3>2. it[s \ {Max(s)}] \in Grades
      BY <1>1, <1>5
    <3> QED BY <3>1, <3>2
  <2>2. it = [s \in SUBSET D |-> IF s = {} THEN "healthy" ELSE step[<<Max(s), it[s \ {Max(s)}]>>]]
    BY <1>1, <1>5 DEF Folds
  <2> HIDE DEF step, D
  <2>3. \A s \in SUBSET D : it[s] = IF s = {} THEN "healthy" ELSE Escalate(it[s \ {Max(s)}], J(Parts[Max(s)]))
    BY <2>1, <2>2
  <2> QED BY <2>2, <2>3
<1>7. CheckPipeline(loaded, results) = fold[D]
  BY DEF CheckPipeline, FoldLeft, MapThenFoldSet
<1>8. fold = [s \in SUBSET D |-> IF s = {} THEN "healthy" ELSE Escalate(fold[s \ {Max(s)}], J(Parts[Max(s)]))]
  <2> HIDE DEF D
  <2> QED BY <1>6
<1> HIDE DEF fold
<1>9. /\ fold[1..0] = "healthy"
      /\ \A i \in 1..n : fold[1..i] = Escalate(fold[1..(i - 1)], J(Parts[i]))
  <2>1. 1..0 = {} /\ 1..0 \in SUBSET (1..n)
    OBVIOUS
  <2>2. ASSUME NEW i \in 1..n PROVE fold[1..i] = Escalate(fold[1..(i - 1)], J(Parts[i]))
    <3>1. 1..i \in SUBSET (1..n) /\ 1..i # {} /\ i \in 1..i /\ (1..i) \ {i} = 1..(i - 1)
      BY <1>1, UpTo
    <3>2. Max(1..i) = i
      BY <3>1, Greatest
    <3>3. fold[1..i] = Escalate(fold[(1..i) \ {Max(1..i)}], J(Parts[Max(1..i)]))
      BY <1>1, <1>8, <3>1
    <3> QED BY <3>1, <3>2, <3>3
  <2> QED BY <1>1, <1>8, <2>1, <2>2
\* what holds after every part
<1> DEFINE Worse(i) == /\ fold[1..i] \in Grades
                       /\ \A k \in 1..i : Rank(fold[1..i]) >= Rank(J(Parts[k]))
                       /\ (\A k \in 1..i : J(Parts[k]) = "healthy") => fold[1..i] = "healthy"
<1>10. \A i \in 0..n : Worse(i)
  <2> DEFINE Bad == {i \in 0..n : ~Worse(i)}
  <2>1. SUFFICES ASSUME Bad # {} PROVE FALSE
    OBVIOUS
  <2>2. PICK i \in Bad : \A k \in Bad : i <= k
    <3>1. Bad \in SUBSET Nat
      BY <1>1
    <3> HIDE DEF Bad
    <3> QED BY <2>1, <3>1, LeastNatural
  <2>3. i \in 0..n /\ ~Worse(i)
    BY <2>2
  <2>4. i # 0
    BY <1>9, <2>3 DEF Grades
  <2>5. Worse(i - 1)
    <3>1. i - 1 \in 0..n /\ (~Worse(i - 1) => i - 1 \in Bad) /\ (i - 1 \in Bad => i <= i - 1)
      BY <1>1, <2>2, <2>3, <2>4
    <3> HIDE DEF Worse, Bad
    <3> QED BY <1>1, <2>3, <3>1
  <2>6. i \in 1..n /\ fold[1..i] = Escalate(fold[1..(i - 1)], J(Parts[i])) /\ J(Parts[i]) \in Grades
    BY <1>1, <1>2, <1>9, <2>3, <2>4
  <2>7. \A k \in 1..i : k \in 1..(i - 1) \/ k = i
    BY <1>1, <2>6
  <2>8. \A v \in Grades, w \in Grades, u \in Grades :
            /\ Rank(Escalate(v, w)) >= Rank(w) /\ Escalate(v, w) \in {v, w}
            /\ Rank(v) >= Rank(u) => Rank(Escalate(v, w)) >= Rank(u)
    BY DEF Grades, Rank, Escalate
  <2>9. 1..(i - 1) \subseteq 1..i /\ i \in 1..i
    BY <1>1, <2>6
  <2>10. \A k \in 1..i : J(Parts[k]) \in Grades
    BY <1>1, <1>2, <2>6
  <2> DEFINE v == fold[1..(i - 1)]
  <2> HIDE DEF fold, J, n
  <2>11. fold[1..i] \in Grades /\ \A k \in 1..i : Rank(fold[1..i]) >= Rank(J(Parts[k]))
    BY <2>5, <2>6, <2>7, <2>8, <2>10
  <2>12. (\A k \in 1..i : J(Parts[k]) = "healthy") => fold[1..i] = "healthy"
    BY <2>5, <2>6, <2>8, <2>9
  <2> QED BY <2>3, <2>11, <2>12
<1>11. Worse(n)
  BY <1>1, <1>10
<1> HIDE DEF n, J
<1>12. \A x \in ToSet(Parts) : \E k \in 1..n : x = Parts[k]
  <2>1. \A x \in ToSet(Parts) : \E k \in DOMAIN Parts : x = Parts[k]
    BY Zenon DEF ToSet
  <2> QED BY <1>1, <2>1
<1>13. \A k \in 1..n : Parts[k] \in ToSet(Parts)
  BY <1>1 DEF ToSet
<1>14. /\ fold[D] \in Grades
       /\ \A x \in ToSet(Parts) : Rank(fold[D]) >= Rank(J(x))
       /\ (\A x \in ToSet(Parts) : J(x) = "healthy") => fold[D] = "healthy"
  BY <1>1, <1>11, <1>12, <1>13
<1> QED BY <1>7, <1>14 DEF J

\* The summary is as bad as the worst entry.
LEMMA SummaryJudged ==
  ASSUME NEW results \in Results
  PROVE  /\ \A x \in DOMAIN results : Rank(Worst(results)) >= Rank(results[x])
         /\ Worst(results) = "healthy" <=> \A x \in DOMAIN results : results[x] \in {"healthy", "none"}
<1> DEFINE all == {results[x] : x \in DOMAIN results}
<1>1. \A x \in DOMAIN results : results[x] \in all /\ results[x] \in HealthEntries
  BY DEF Results
<1>2. \A s \in all : \E x \in DOMAIN results : results[x] = s
  OBVIOUS
<1>3. Worst(results) = IF "unhealthy" \in all THEN "unhealthy" ELSE IF "warning" \in all THEN "warning" ELSE "healthy"
  BY DEF Worst
<1> HIDE DEF all
<1>4. \A x \in DOMAIN results : Rank(Worst(results)) >= Rank(results[x])
  BY <1>1, <1>3 DEF Rank, HealthEntries, Grades
<1>5. Worst(results) = "healthy" <=> \A x \in DOMAIN results : results[x] \in {"healthy", "none"}
  BY <1>1, <1>2, <1>3 DEF HealthEntries, Grades
<1> QED BY <1>4, <1>5

Words == {"up", "down", "unreadable", "disabled", "gone", "no policy", "not writable", "unverified", "saturated"}

\* sections whose resources are probed
Probes == Sections \ {"pipelines"}
HealthRuns == [section : Sections \cup {"all"}, todo : SUBSET Probes, loaded : [Resources -> Words],
         jobs : Activity, results : Results, stable : BOOLEAN]

WorldTyped(w) == w \in [Resources -> Words] /\ \A x \in Resources : w[x] \in Conditions(x)

\* A run that nothing disturbed knows the world and the last jobs as they are, and
\* a full one has found of every section it is through with what its checks say.
Found(run, w, jobs, kinds) ==
    run.stable =>
        /\ run.loaded = w /\ run.jobs = jobs
        /\ run.section = "all" =>
            \A section \in Probes \ run.todo : \A x \in Ids(section) : run.results[x] = Probe(kinds, x, w[x], jobs)

HealthIInv ==
    /\ WorldTyped(world) /\ recent \in Activity /\ stores["destination"] \in DestinationKinds
    /\ checker \in [Checkers -> HealthRuns \cup {NoCheck}]
    /\ \A c \in Checkers : checker[c] # NoCheck => Found(checker[c], world, recent, stores)
    /\ health.results \in Results
    /\ HealthSound

LEMMA ConditionsNamed ==
  ASSUME NEW x \in Resources
  PROVE  "up" \in Conditions(x) /\ \A v \in Conditions(x) : v \in Words
<1>1. CASE x \in HealthSources
  <2>1. Conditions(x) = {"up", "down", "unreadable", "disabled", "gone"}
    BY <1>1, HealthAssumption DEF Conditions
  <2> QED BY <2>1 DEF Words
<1>2. CASE x = "destination"
  <2>1. Conditions(x) = {"up", "down", "disabled", "gone", "no policy", "not writable"}
    BY <1>2, HealthAssumption DEF Conditions
  <2> QED BY <2>1 DEF Words
<1>3. CASE x = "model"
  <2>1. Conditions(x) = {"up", "down", "gone", "unverified"}
    BY <1>3, HealthAssumption DEF Conditions
  <2> QED BY <2>1 DEF Words
<1>4. CASE x = "services"
  <2>1. Conditions(x) = {"up", "down", "saturated"}
    BY <1>4, HealthAssumption DEF Conditions
  <2> QED BY <2>1 DEF Words
<1> QED BY <1>1, <1>2, <1>3, <1>4 DEF Resources

LEMMA SectionFacts ==
  /\ Probes = {"sources", "destinations", "models", "services"}
  /\ \A section \in Probes : Ids(section) \subseteq Resources
  /\ \A x \in Resources : \E section \in Probes : x \in Ids(section)
  /\ NoCheck \notin HealthRuns
  /\ \A s, t \in Probes : s # t => Ids(s) \cap Ids(t) = {}
<1>1. Probes = {"sources", "destinations", "models", "services"}
  BY DEF Probes, Sections
<1>2. /\ Ids("sources") = HealthSources /\ Ids("destinations") = {"destination"}
      /\ Ids("models") = {"model"} /\ Ids("services") = {"services"}
  BY DEF Ids
<1>3. \A r \in HealthRuns : DOMAIN r = {"section", "todo", "loaded", "jobs", "results", "stable"}
  BY DEF HealthRuns
<1>4. "todo" \notin DOMAIN NoCheck
  BY DEF NoCheck
<1>5. NoCheck \notin HealthRuns
  BY <1>3, <1>4
<1>6. \A s, t \in Probes : s # t => Ids(s) \cap Ids(t) = {}
  BY <1>1, <1>2, HealthAssumption
<1> QED BY <1>1, <1>2, <1>5, <1>6 DEF Resources

\* The section whose turn it is has not been probed.
LEMMA TurnTodo ==
  ASSUME NEW run \in HealthRuns, run.todo # {}
  PROVE  Turn(run) \in run.todo /\ Turn(run) \in Probes
<1> DEFINE ahead == {i \in DOMAIN Order : Order[i] \in run.todo}
<1>1. DOMAIN Order = 1..4 /\ Order[1] = "sources" /\ Order[2] = "destinations" /\ Order[3] = "models" /\ Order[4] = "services"
  BY DEF Order
<1>2. \A section \in Probes : \E i \in 1..4 : Order[i] = section
  BY <1>1, SectionFacts
<1>3. ahead # {} /\ ahead \in SUBSET Nat
  BY <1>1, <1>2 DEF HealthRuns
<1>4. \E m \in ahead : \A k \in ahead : m <= k
  <2> HIDE DEF ahead
  <2> QED BY <1>3, LeastNatural
<1>5. Min(ahead) \in ahead
  <2> HIDE DEF ahead
  <2> QED BY <1>4 DEF Min
<1> QED BY <1>5 DEF Turn, HealthRuns

LEMMA ProbeGraded ==
  ASSUME NEW kinds, NEW x, NEW v, NEW jobs
  PROVE  Probe(kinds, x, v, jobs) \in HealthEntries
  BY DEF Probe, CheckSource, CheckDestination, CheckModel, CheckServices, HealthEntries, Grades

\* What a section finds, in a run that nothing disturbed.
LEMMA ProbedFound ==
  ASSUME NEW run \in HealthRuns, NEW section \in Probes, WorldTyped(world)
  PROVE  /\ Probed(run, section) \in Results
         /\ \A x \in Resources : x \notin Ids(section) => Probed(run, section)[x] = run.results[x]
         /\ run.loaded = world => \A x \in Ids(section) : Probed(run, section)[x] = Probe(stores, x, world[x], run.jobs)
<1> DEFINE found(x) ==
        IF x \notin Ids(section) THEN run.results[x]
        ELSE IF x # "model" /\ x # "services" /\ run.loaded[x] \in {"gone", "disabled"} THEN Probe(stores, x, run.loaded[x], run.jobs)
        ELSE IF world[x] = "gone" /\ x # "model" THEN "unhealthy"
        ELSE IF world[x] = "disabled" THEN "healthy" ELSE Probe(stores, x, world[x], run.jobs)
<1>1. DOMAIN run.results = Resources \cup {"pipeline"} /\ run.results \in Results
  BY DEF HealthRuns, Results
<1>2. Probed(run, section) = [x \in Resources \cup {"pipeline"} |-> found(x)]
  BY <1>1 DEF Probed
<1>3. \A x \in Resources \cup {"pipeline"} : found(x) \in HealthEntries
  <2> TAKE x \in Resources \cup {"pipeline"}
  <2>1. run.results[x] \in HealthEntries /\ "unhealthy" \in HealthEntries /\ "healthy" \in HealthEntries
    BY <1>1 DEF Results, HealthEntries, Grades
  <2> QED BY <2>1, ProbeGraded
<1>4. ASSUME run.loaded = world, NEW x \in Ids(section) PROVE found(x) = Probe(stores, x, world[x], run.jobs)
  <2>1. x \in Resources /\ world[x] \in Conditions(x)
    BY SectionFacts DEF WorldTyped
  <2>2. CASE x \in HealthSources \/ x = "destination"
    BY <1>4, <2>2, HealthAssumption
  <2>3. CASE x = "model"
    <3>1. world[x] \in {"up", "down", "gone", "unverified"}
      BY <2>1, <2>3, HealthAssumption DEF Conditions
    <3> QED BY <1>4, <2>3, <3>1
  <2>4. CASE x = "services"
    <3>1. world[x] \in {"up", "down", "saturated"}
      BY <2>1, <2>4, HealthAssumption DEF Conditions
    <3> QED BY <1>4, <2>4, <3>1
  <2> QED BY <2>1, <2>2, <2>3, <2>4 DEF Resources
<1> HIDE DEF found
<1>5. \A x \in Resources : x \notin Ids(section) => found(x) = run.results[x]
  BY DEF found
<1>6. \A x \in Ids(section) : x \in Resources
  BY SectionFacts
<1> QED BY <1>2, <1>3, <1>4, <1>5, <1>6 DEF Results

LEMMA RunChanges ==
  ASSUME NEW c \in Checkers, NEW r, HealthIInv, (r \in HealthRuns /\ Found(r, world, recent, stores)) \/ r = NoCheck,
         checker' = [checker EXCEPT ![c] = r], UNCHANGED <<world, stores, recent, health>>
  PROVE  HealthIInv'
<1>1. checker' \in [Checkers -> HealthRuns \cup {NoCheck}]
  BY DEF HealthIInv
<1>2. \A d \in Checkers : checker'[d] = IF d = c THEN r ELSE checker[d]
  BY DEF HealthIInv
<1> QED BY <1>1, <1>2 DEF HealthIInv, HealthSound

\* A run that is disturbed is none of those that say how everything is.
LEMMA DisturbKeeps ==
  ASSUME HealthIInv, Disturb, WorldTyped(world'), recent' \in Activity, UNCHANGED <<stores, health>>
  PROVE  HealthIInv'
<1>1. ASSUME NEW c \in Checkers
      PROVE  /\ checker'[c] \in HealthRuns \cup {NoCheck}
             /\ checker'[c] # NoCheck => Found(checker'[c], world', recent', stores')
  <2>1. CASE checker[c] = NoCheck
    BY <2>1 DEF Disturb
  <2>2. CASE checker[c] # NoCheck
    <3>1. checker[c] \in HealthRuns
      BY <2>2 DEF HealthIInv
    <3>2. checker'[c] = [checker[c] EXCEPT !.stable = FALSE]
      BY <2>2 DEF Disturb
    <3>3. checker'[c] \in HealthRuns /\ ~checker'[c].stable
      BY <3>1, <3>2 DEF HealthRuns
    <3> QED BY <3>3 DEF Found
  <2> QED BY <2>1, <2>2
<1>2. checker' = [c \in Checkers |-> checker'[c]]
  BY DEF Disturb
<1>3. checker' \in [Checkers -> HealthRuns \cup {NoCheck}]
  BY <1>1, <1>2
<1> QED BY <1>1, <1>2, <1>3 DEF HealthIInv, HealthSound

LEMMA WorldKeeps ==
  ASSUME HealthIInv, (\E x \in Resources : WorldChanges(x)) \/ JobsChange
  PROVE  HealthIInv'
<1>1. CASE JobsChange
  BY <1>1, DisturbKeeps DEF JobsChange, HealthIInv, WorldTyped
<1>2. ASSUME NEW x \in Resources, WorldChanges(x) PROVE HealthIInv'
  <2>1. PICK v \in Conditions(x) : world' = [world EXCEPT ![x] = v]
    BY <1>2 DEF WorldChanges
  <2>2. v \in Words
    BY ConditionsNamed
  <2>3. WorldTyped(world')
    BY <2>1, <2>2 DEF HealthIInv, WorldTyped
  <2> QED BY <1>2, <2>3, DisturbKeeps DEF WorldChanges, HealthIInv
<1> QED BY <1>1, <1>2

LEMMA StartCheckKeeps ==
  ASSUME NEW c \in Checkers, NEW section \in Sections \cup {"all"}, HealthIInv, StartChecks(c, section)
  PROVE  HealthIInv'
<1> DEFINE r == [section |-> section, todo |-> IF section = "all" THEN Sections \ {"pipelines"} ELSE {section} \ {"pipelines"},
                 loaded |-> world, jobs |-> recent, results |-> IF section = "all" THEN NoResults ELSE health.results, stable |-> TRUE]
<1>1. checker' = [checker EXCEPT ![c] = r] /\ UNCHANGED <<world, stores, recent, health>>
  BY DEF StartChecks
<1>2. NoResults \in Results
  BY DEF NoResults, Results, HealthEntries
<1>3. r \in HealthRuns
  <2>1. world \in [Resources -> Words] /\ health.results \in Results /\ recent \in Activity
    BY DEF HealthIInv, WorldTyped
  <2>2. (IF section = "all" THEN Sections \ {"pipelines"} ELSE {section} \ {"pipelines"}) \in SUBSET Probes
    BY DEF Probes
  <2> QED BY <1>2, <2>1, <2>2 DEF HealthRuns
<1>4. Found(r, world, recent, stores)
  BY DEF Found, Probes
<1> HIDE DEF r
<1> QED BY <1>1, <1>3, <1>4, RunChanges

LEMMA SectionKeeps ==
  ASSUME NEW c \in Checkers, HealthIInv, RunSection(c)
  PROVE  HealthIInv'
<1> DEFINE run == checker[c]
           turn == Turn(run)
           r == [run EXCEPT !.todo = @ \ {turn}, !.results = Probed(run, turn)]
<1>1. run \in HealthRuns /\ Found(run, world, recent, stores) /\ run.todo # {} /\ WorldTyped(world)
  BY DEF RunSection, HealthIInv
<1>2. checker' = [checker EXCEPT ![c] = r] /\ UNCHANGED <<world, stores, recent, health>>
  BY DEF RunSection
<1>3. turn \in Probes /\ turn \in run.todo
  BY <1>1, TurnTodo
<1> HIDE DEF run, turn
<1>4. Probed(run, turn) \in Results
  BY <1>1, <1>3, ProbedFound
<1>5. /\ r \in HealthRuns /\ r.results = Probed(run, turn) /\ r.todo = run.todo \ {turn}
      /\ r.stable = run.stable /\ r.loaded = run.loaded /\ r.jobs = run.jobs /\ r.section = run.section
  BY <1>1, <1>4 DEF HealthRuns
<1> HIDE DEF r
<1>6. ASSUME run.stable, run.section = "all", NEW section \in Probes \ r.todo, NEW x \in Ids(section)
      PROVE  r.results[x] = Probe(stores, x, world[x], recent)
  <2>1. CASE section = turn
    BY <1>1, <1>3, <1>5, <1>6, <2>1, ProbedFound DEF Found
  <2>2. CASE section # turn
    <3>1. x \in Resources /\ x \notin Ids(turn) /\ section \in Probes \ run.todo
      BY <1>3, <1>5, <2>2, SectionFacts
    <3>2. r.results[x] = run.results[x]
      BY <1>1, <1>3, <1>5, <3>1, ProbedFound
    <3> QED BY <1>1, <1>6, <3>1, <3>2 DEF Found
  <2> QED BY <2>1, <2>2
<1>7. Found(r, world, recent, stores)
  BY <1>1, <1>5, <1>6 DEF Found
<1> QED BY <1>2, <1>5, <1>7, RunChanges

LEMMA FailureKeeps ==
  ASSUME NEW c \in Checkers, HealthIInv, SectionFails(c)
  PROVE  HealthIInv'
<1> DEFINE run == checker[c]
           found(x) == IF x \in Ids(Turn(run)) /\ (x = "services" \/ run.loaded[x] # "gone") THEN "unhealthy" ELSE run.results[x]
           results == [x \in DOMAIN run.results |-> found(x)]
           r == [run EXCEPT !.todo = @ \ {Turn(run)}, !.stable = FALSE, !.results = results]
<1>1. run \in HealthRuns
  BY DEF SectionFails, HealthIInv
<1>2. checker' = [checker EXCEPT ![c] = r] /\ UNCHANGED <<world, stores, recent, health>>
  BY DEF SectionFails
<1> HIDE DEF run
<1>3. results \in Results
  BY <1>1 DEF HealthRuns, Results, HealthEntries, Grades
<1> HIDE DEF results
<1>4. r \in HealthRuns /\ ~r.stable
  BY <1>1, <1>3 DEF HealthRuns
<1> HIDE DEF r
<1> QED BY <1>2, <1>4, RunChanges DEF Found

\* A check finds every fault it looks for; of what is gone the pipeline tells.
LEMMA FaultFound ==
  ASSUME NEW x \in Resources, world[x] \in Conditions(x), world[x] \notin {"up"} \cup Overlooked(x),
         recent \in Activity, stores["destination"] \in DestinationKinds,
         Probe(stores, x, world[x], recent) \in {"healthy", "none"}
  PROVE  x \in HealthSources \cup {"destination"} /\ world[x] = "gone"
<1>1. CASE x \in HealthSources
  <2>1. world[x] \in {"down", "unreadable", "disabled", "gone"} /\ x # "destination"
    BY <1>1, HealthAssumption DEF Conditions
  <2>2. Probe(stores, x, world[x], recent) = CheckSource(stores[x], world[x], recent)
    BY <1>1, HealthAssumption DEF Probe
  <2>3. CheckSource(stores[x], world[x], recent) \in {"healthy", "none"}
    BY <2>2
  <2>4. world[x] \notin Overlooked(x)
    OBVIOUS
  <2> QED BY <1>1, <2>1, <2>3, <2>4 DEF CheckSource, Overlooked
<1>2. CASE x = "destination"
  <2>1. world[x] \in {"down", "disabled", "gone", "no policy", "not writable"} /\ x \notin HealthSources
    BY <1>2, HealthAssumption DEF Conditions
  <2>2. CheckDestination(stores[x], world[x], recent) \in {"healthy", "none"}
    BY <1>2, <2>1 DEF Probe
  <2>3. recent.work \in {"idle", "started", "completed"} /\ recent.failed \in BOOLEAN
    BY DEF Activity
  <2>4. world[x] \notin Overlooked(x)
    OBVIOUS
  <2> QED BY <1>2, <2>1, <2>2, <2>3, <2>4 DEF CheckDestination, WriteDenied, Overlooked, DestinationKinds
<1>3. CASE x \in {"model", "services"}
  BY <1>3, HealthAssumption DEF Conditions, Probe, CheckModel, CheckServices, Overlooked
<1> QED BY <1>1, <1>2, <1>3 DEF Resources

\* A document is stored.
LEMMA StoreKeeps ==
  ASSUME NEW c \in Checkers, HealthIInv, StoreHealth(c)
  PROVE  HealthIInv'
<1> DEFINE run == checker[c]
           loaded == [run.loaded EXCEPT !["model"] = world["model"]]
           grade == CheckPipeline(loaded, run.results)
           judging == run.section \in {"all", "pipelines"}
           judged == IF judging THEN [run.results EXCEPT !["pipeline"] = grade] ELSE run.results
           document == [results |-> judged, overall |-> Worst(judged), section |-> run.section,
                        truth |-> IF ~run.stable THEN "none" ELSE Truth]
<1>1. run \in HealthRuns /\ Found(run, world, recent, stores) /\ run.todo = {} /\ WorldTyped(world)
  BY DEF StoreHealth, HealthIInv
<1>2. health' = document /\ checker' = [checker EXCEPT ![c] = NoCheck] /\ UNCHANGED <<world, stores, recent>>
  BY DEF StoreHealth
<1> HIDE DEF run
<1>3. run.results \in Results /\ run.loaded \in [Resources -> Words]
  BY <1>1 DEF HealthRuns
<1>4. /\ grade \in Grades
      /\ \A x \in ToSet(Parts) : Rank(grade) >= Rank(Judge(x, loaded[x], run.results[x]))
      /\ (\A x \in ToSet(Parts) : Judge(x, loaded[x], run.results[x]) = "healthy") => grade = "healthy"
  <2> HIDE DEF loaded
  <2> QED BY <1>3, PipelineJudged
<1> HIDE DEF grade
<1>5. /\ judged \in Results
      /\ judging => judged["pipeline"] = grade
      /\ \A x \in Resources : judged[x] = run.results[x]
  BY <1>3, <1>4, HealthAssumption DEF Results, HealthEntries, Resources
<1>6. /\ health'.results = judged /\ health'.overall = Worst(judged) /\ health'.section = run.section
      /\ health'.truth = IF ~run.stable THEN "none" ELSE Truth
  BY <1>2
<1>7. ToSet(Parts) = HealthSources \cup {"destination", "model"} /\ ToSet(Parts) \subseteq Resources
  BY PartsListed DEF Resources
<1>8. judging => \A x \in ToSet(Parts) : Rank(judged["pipeline"]) >= Rank(judged[x])
  <2>1. ASSUME judging, NEW x \in ToSet(Parts) PROVE Rank(grade) >= Rank(run.results[x])
    <3>1. run.results[x] \in HealthEntries
      BY <1>3, <1>7 DEF Results
    <3>2. Rank(Judge(x, loaded[x], run.results[x])) >= Rank(run.results[x])
      BY <3>1 DEF Judge, Rank, HealthEntries, Grades
    <3>3. Judge(x, loaded[x], run.results[x]) \in Grades
      BY <3>1 DEF Judge, HealthEntries, Grades
    <3>4. \A u, v, w \in HealthEntries : Rank(u) >= Rank(v) /\ Rank(v) >= Rank(w) => Rank(u) >= Rank(w)
      BY DEF Rank, HealthEntries, Grades
    <3> HIDE DEF loaded
    <3> QED BY <1>4, <3>1, <3>2, <3>3, <3>4 DEF HealthEntries
  <2> HIDE DEF judged
  <2> QED BY <1>5, <1>7, <2>1
<1> HIDE DEF judged
<1>9. \A x \in DOMAIN judged : Rank(Worst(judged)) >= Rank(judged[x])
  BY <1>5, SummaryJudged
<1>10. ASSUME run.section = "all", run.stable
       PROVE  (Truth = "well" => Worst(judged) = "healthy") /\ (Truth = "ill" => Worst(judged) # "healthy")
  <2>1. /\ loaded = world
        /\ \A x \in Resources : judged[x] = Probe(stores, x, world[x], recent) /\ run.results[x] = Probe(stores, x, world[x], recent)
    <3>1. run.loaded = world /\ \A section \in Probes : \A x \in Ids(section) : run.results[x] = Probe(stores, x, world[x], recent)
      BY <1>1, <1>10 DEF Found
    <3> QED BY <1>3, <1>5, <3>1, SectionFacts
  <2>2. Worst(judged) = "healthy" <=> \A x \in Resources \cup {"pipeline"} : judged[x] \in {"healthy", "none"}
    BY <1>5, SummaryJudged DEF Results
  <2> HIDE DEF loaded
  <2>3. ASSUME Truth = "well" PROVE \A x \in Resources \cup {"pipeline"} : judged[x] \in {"healthy", "none"}
    <3>1. ~recent.failed /\ \A x \in Resources : world[x] = "up"
      <4>1. "destination" \in Resources
        BY DEF Resources
      <4> QED BY <2>3, <4>1 DEF Truth
    <3>2. \A x \in Resources : Probe(stores, x, world[x], recent) = "healthy"
      BY <3>1 DEF Probe, CheckSource, CheckDestination, WriteDenied, CheckModel, CheckServices
    <3>3. \A x \in ToSet(Parts) : Judge(x, loaded[x], run.results[x]) = "healthy"
      BY <1>7, <2>1, <3>1, <3>2 DEF Judge
    <3>4. grade = "healthy"
      BY <1>4, <3>3
    <3> QED BY <1>5, <1>10, <2>1, <3>2, <3>4
  <2>4. ASSUME NEW x \in Resources, world[x] \notin {"up"} \cup Overlooked(x)
        PROVE  \E y \in Resources \cup {"pipeline"} : judged[y] \notin {"healthy", "none"}
    <3>1. world[x] \in Conditions(x)
      BY <1>1 DEF WorldTyped
    <3>2. CASE Probe(stores, x, world[x], recent) \notin {"healthy", "none"}
      BY <2>1, <3>2
    <3>3. CASE Probe(stores, x, world[x], recent) \in {"healthy", "none"}
      <4>1. x \in HealthSources \cup {"destination"} /\ world[x] = "gone"
        BY <2>4, <3>1, <3>3, FaultFound DEF HealthIInv
      <4>2. Judge(x, loaded[x], run.results[x]) = "unhealthy"
        BY <2>1, <4>1, HealthAssumption DEF Judge
      <4>3. Rank(grade) >= 2
        BY <1>4, <1>7, <4>1, <4>2 DEF Rank
      <4>4. grade \notin {"healthy", "none"}
        BY <4>3 DEF Rank
      <4> QED BY <1>5, <1>10, <4>4
    <3> QED BY <3>2, <3>3
  <2>5. ASSUME Truth = "ill" PROVE \E x \in Resources : world[x] \notin {"up"} \cup Overlooked(x)
    BY <2>5 DEF Truth
  <2> QED BY <2>2, <2>3, <2>4, <2>5
<1>11. HealthSound'
  BY <1>5, <1>6, <1>8, <1>9, <1>10 DEF HealthSound
<1>12. checker' \in [Checkers -> HealthRuns \cup {NoCheck}] /\ \A d \in Checkers : checker'[d] # NoCheck => checker'[d] = checker[d]
  BY <1>2 DEF HealthIInv
<1> QED BY <1>2, <1>5, <1>6, <1>11, <1>12 DEF HealthIInv

\* Whichever runs overlap and whatever changes while they probe, a document says
\* of the pipeline and of everything the worst that it lists; a full, undisturbed
\* run says that all is well if all is and no job failed to write, and does not
\* if there is a fault that its checks look for (run_health_checks, check_source,
\* check_destination with their activity of the last 120 s, check_pipeline).
THEOREM HealthAlwaysSound == HealthSpec => []HealthSound
<1>1. HealthInit => HealthIInv
  <2> SUFFICES ASSUME HealthInit PROVE HealthIInv
    OBVIOUS
  <2>1. WorldTyped(world)
    BY ConditionsNamed DEF HealthInit, WorldTyped
  <2>3. recent \in Activity /\ stores["destination"] \in DestinationKinds
    BY DEF HealthInit
  <2>2. health.results \in Results /\ health.section = "none"
    BY DEF HealthInit, NoHealth, NoResults, Results, HealthEntries
  <2> QED BY <2>1, <2>2, <2>3 DEF HealthInit, HealthIInv, HealthSound
<1>2. HealthIInv /\ [HealthNext]_healthVars => HealthIInv'
  <2> SUFFICES ASSUME HealthIInv, [HealthNext]_healthVars PROVE HealthIInv'
    OBVIOUS
  <2>1. CASE UNCHANGED healthVars
    BY <2>1 DEF healthVars, HealthIInv, HealthSound
  <2> QED BY <2>1, WorldKeeps, StartCheckKeeps, SectionKeeps, FailureKeeps, StoreKeeps DEF HealthNext
<1>3. HealthIInv => HealthSound
  BY DEF HealthIInv
<1> QED BY <1>1, <1>2, <1>3, PTL DEF HealthSpec
-----------------------------------------------------------------------------
(* QueuePublish.                                                            *)

\* Sums.
LEMMA AddedSum == \A ns : Added(ns) = Summed(ns)
  BY DEF Added, Summed

LEMMA AddedNumbers ==
  ASSUME NEW ns \in Seq(Nat)
  PROVE  Added(ns) \in Nat
  BY SummedNumbers DEF Added, Summed

LEMMA AddedNothing == Added(<<>>) = 0
  BY SummedNothing DEF Added, Summed

LEMMA AddedAppend ==
  ASSUME NEW ns \in Seq(Nat), NEW n \in Nat
  PROVE  Added(Append(ns, n)) = Added(ns) + n
  BY SummedAppend DEF Added, Summed

\* The sum over a sequence of what each element counts for.
LEMMA AddedMeasured ==
  ASSUME NEW T, NEW f \in [T -> Nat], NEW s \in Seq(T), NEW x \in T
  PROVE  /\ Added(Measured(f, s)) \in Nat
         /\ Added(Measured(f, Append(s, x))) = Added(Measured(f, s)) + f[x]
  BY SummedMeasured, AddedSum

\* What the sums of an envelope and of a batch gain.
LEMMA SumsAppend ==
  ASSUME NEW docs \in Seq(Documents), NEW d \in Documents
  PROVE  /\ Size(docs) \in Nat /\ Size(Append(docs, d)) = Size(docs) + d.size
         /\ Size(<<>>) = 0
<1> DEFINE f == [x \in Documents |-> x.size]
<1>1. f \in [Documents -> Nat]
  BY QueueAssumption
<1>2. ASSUME NEW t \in Seq(Documents) PROVE Size(t) = Added(Measured(f, t))
  <2>1. [i \in DOMAIN t |-> t[i].size] = Measured(f, t)
    BY DEF Measured
  <2> QED BY <2>1 DEF Size
<1>3. f[d] = d.size /\ Append(docs, d) \in Seq(Documents)
  OBVIOUS
<1> HIDE DEF f
<1>4. Size(docs) \in Nat /\ Size(Append(docs, d)) = Size(docs) + d.size
  <2>1. Added(Measured(f, docs)) \in Nat /\ Added(Measured(f, Append(docs, d))) = Added(Measured(f, docs)) + f[d]
    BY <1>1, AddedMeasured, Zenon
  <2> QED BY <1>2, <1>3, <2>1
<1>5. Size(<<>>) = 0
  <2>1. [i \in DOMAIN <<>> |-> <<>>[i].size] = <<>>
    OBVIOUS
  <2> QED BY <2>1, AddedNothing DEF Size
<1> QED BY <1>4, <1>5

\* A batch has as many documents as its envelopes put together.
LEMMA CountAppend ==
  ASSUME NEW b \in Seq(Seq(Documents)), NEW e \in Seq(Documents)
  PROVE  BatchCount(b) \in Nat /\ BatchCount(Append(b, e)) = BatchCount(b) + Len(e)
<1>1. \A t : BatchCount(t) = Summed(Lengths(t))
  BY AddedSum DEF BatchCount, Lengths
<1>2. /\ Summed(Lengths(b)) \in Nat
      /\ Summed(Lengths(Append(b, e))) = Summed(Lengths(b)) + Len(e)
  BY LengthsAppend, Zenon
<1> QED BY <1>1, <1>2

LEMMA CountFlattened ==
  ASSUME NEW b \in Seq(Seq(Documents))
  PROVE  BatchCount(b) = Len(FlattenSeq(b))
<1>1. BatchCount(b) = Summed(Lengths(b))
  BY AddedSum DEF BatchCount, Lengths
<1>2. Len(FlattenSeq(b)) = Summed(Lengths(b))
  BY FlattenedLength, Zenon
<1> QED BY <1>1, <1>2

\* Envelopes and batches that obey the limits.
GoodEnvelopes ==
    {e \in Seq(Documents) :
        /\ e # <<>> /\ Len(e) <= PackLimit(e[1])
        /\ Len(e) > 1 => Size(e) + Len(e) - 1 + Reserved <= PolicyOf(e[1]).envelope
        /\ \A j, k \in DOMAIN e : j # k => /\ e[j].id # e[k].id
                                           /\ e[j].route = e[k].route /\ e[j].pipeline = e[k].pipeline}
GoodBatches ==
    {b \in Seq(GoodEnvelopes) :
        /\ b # <<>>
        /\ SendBatchSize(b) <= PolicyOf(b[1][1]).batch
        /\ BatchCount(b) <= PolicyOf(b[1][1]).publish
        /\ \A i \in DOMAIN b : PolicyOf(b[i][1]) = PolicyOf(b[1][1])}

LEMMA LimitsTyped ==
  ASSUME NEW d \in Documents
  PROVE  /\ d.size \in Nat
         /\ PolicyOf(d).count \in Nat /\ PolicyOf(d).publish \in Nat /\ PolicyOf(d).envelope \in Nat /\ PolicyOf(d).batch \in Nat
         /\ PackLimit(d) \in Nat /\ PackLimit(d) >= 1 /\ PackLimit(d) <= PolicyOf(d).publish
<1>1. d.size \in Nat /\ d.pipeline \in DOMAIN Policies
  BY QueueAssumption
<1>2. /\ PolicyOf(d).count \in Nat \ {0} /\ PolicyOf(d).publish \in Nat \ {0}
      /\ PolicyOf(d).envelope \in Nat /\ PolicyOf(d).batch \in Nat
  BY <1>1, QueueAssumption DEF PolicyOf
<1>3. PackLimit(d) = IF PolicyOf(d).count <= PolicyOf(d).publish THEN PolicyOf(d).count ELSE PolicyOf(d).publish
  BY DEF PackLimit
<1> QED BY <1>1, <1>2, <1>3

LEMMA EncodedTyped ==
  ASSUME NEW e \in GoodEnvelopes
  PROVE  /\ e \in Seq(Documents) /\ Len(e) \in Nat \ {0} /\ e[1] \in Documents
         /\ Encoded(e) \in Nat
         /\ Len(e) > 1 => Encoded(e) <= PolicyOf(e[1]).envelope
<1>1. e \in Seq(Documents) /\ e # <<>>
  BY DEF GoodEnvelopes
<1>2. Len(e) \in Nat \ {0} /\ e[1] \in Documents
  BY <1>1
<1>3. Size(e) \in Nat /\ e[1].size \in Nat /\ Framing \in Nat /\ Reserved \in Nat /\ Framing <= Reserved
  BY <1>1, <1>2, SumsAppend, LimitsTyped, QueueAssumption
<1>4. PolicyOf(e[1]).envelope \in Nat /\ (Len(e) > 1 => Size(e) + Len(e) - 1 + Reserved <= PolicyOf(e[1]).envelope)
  BY <1>2, LimitsTyped DEF GoodEnvelopes
<1>5. Encoded(e) = IF Len(e) = 1 THEN e[1].size ELSE Size(e) + Len(e) - 1 + Framing
  BY DEF Encoded
<1>6. CASE Len(e) = 1
  BY <1>1, <1>2, <1>3, <1>5, <1>6
<1>7. CASE Len(e) # 1
  <2>0. Encoded(e) = Size(e) + Len(e) - 1 + Framing
    BY <1>5, <1>7, Zenon
  <2>1. Len(e) > 1
    BY <1>2, <1>7
  <2>2. Encoded(e) \in Nat /\ Encoded(e) <= PolicyOf(e[1]).envelope
    BY <1>2, <1>3, <1>4, <2>0, <2>1
  <2> QED BY <1>1, <1>2, <2>2
<1> QED BY <1>6, <1>7

LEMMA BatchAppend ==
  ASSUME NEW b \in Seq(GoodEnvelopes), NEW e \in GoodEnvelopes
  PROVE  /\ SendBatchSize(b) \in Nat /\ SendBatchSize(Append(b, e)) = SendBatchSize(b) + Encoded(e)
         /\ SendBatchSize(<<>>) = 0
<1> DEFINE f == [x \in GoodEnvelopes |-> Encoded(x)]
<1>1. f \in [GoodEnvelopes -> Nat]
  BY EncodedTyped
<1>2. ASSUME NEW t \in Seq(GoodEnvelopes) PROVE SendBatchSize(t) = Added(Measured(f, t))
  <2>1. \A i \in DOMAIN t : t[i] \in GoodEnvelopes
    OBVIOUS
  <2>2. [i \in DOMAIN t |-> Encoded(t[i])] = Measured(f, t)
    BY <2>1 DEF Measured
  <2> QED BY <2>2 DEF SendBatchSize
<1>3. f[e] = Encoded(e) /\ Append(b, e) \in Seq(GoodEnvelopes)
  OBVIOUS
<1> HIDE DEF f
<1>4. SendBatchSize(b) \in Nat /\ SendBatchSize(Append(b, e)) = SendBatchSize(b) + Encoded(e)
  <2>1. Added(Measured(f, b)) \in Nat /\ Added(Measured(f, Append(b, e))) = Added(Measured(f, b)) + f[e]
    BY <1>1, AddedMeasured, Zenon
  <2> QED BY <1>2, <1>3, <2>1
<1>5. [i \in DOMAIN <<>> |-> Encoded(<<>>[i])] = <<>>
  OBVIOUS
<1> QED BY <1>4, <1>5, AddedNothing DEF SendBatchSize

LEMMA GoodTypes ==
  /\ \A b \in Seq(GoodEnvelopes) : b \in Seq(Seq(Documents))
  /\ \A b \in GoodBatches : b \in Seq(GoodEnvelopes) /\ b # <<>>
  /\ \A x \in Seq(GoodBatches) : x \in Seq(Seq(GoodEnvelopes))
<1>1. GoodEnvelopes \subseteq Seq(Documents) /\ GoodBatches \subseteq Seq(GoodEnvelopes)
  BY DEF GoodEnvelopes, GoodBatches
<1> QED BY <1>1, SeqMonotonic DEF GoodBatches

\* What is accepted or about to be sent, in order.
Placed(s) == FlattenSeq(FlattenSeq(s.accepted)) \o FlattenSeq(s.batch)

Underway(s) ==
    /\ s \in [batch : Seq(GoodEnvelopes), accepted : Seq(GoodBatches), count : Nat,
              state : {"open", "done", "too large", "over limit", "refused"}]
    /\ s.batch # <<>> => s.batch \in GoodBatches
    /\ s.count = Len(FlattenSeq(FlattenSeq(s.accepted)))

LEMMA SentTyped ==
  ASSUME NEW s, Underway(s)
  PROVE  /\ FlattenSeq(s.accepted) \in Seq(GoodEnvelopes)
         /\ FlattenSeq(FlattenSeq(s.accepted)) \in Seq(Documents)
         /\ FlattenSeq(s.batch) \in Seq(Documents)
         /\ Placed(s) \in Seq(Documents)
<1>1. s.accepted \in Seq(Seq(GoodEnvelopes)) /\ s.batch \in Seq(GoodEnvelopes)
  BY GoodTypes DEF Underway
<1>2. FlattenSeq(s.accepted) \in Seq(GoodEnvelopes)
  BY <1>1, FlattenedTyped
<1>3. FlattenSeq(s.accepted) \in Seq(Seq(Documents)) /\ s.batch \in Seq(Seq(Documents))
  BY <1>1, <1>2, GoodTypes
<1>4. FlattenSeq(FlattenSeq(s.accepted)) \in Seq(Documents) /\ FlattenSeq(s.batch) \in Seq(Documents)
  BY <1>3, FlattenedTyped, Zenon
<1> QED BY <1>2, <1>4, ConcatProperties DEF Placed

\* The batch under way is accepted.
LEMMA FlushProgress ==
  ASSUME NEW s, Underway(s)
  PROVE  /\ Underway(Flush(s)) /\ Flush(s).batch = <<>> /\ Flush(s).state = s.state
         /\ Placed(Flush(s)) = Placed(s)
<1>1. s.accepted \in Seq(GoodBatches) /\ s.batch \in Seq(GoodEnvelopes) /\ s.count \in Nat
  BY DEF Underway
<1> DEFINE docs == FlattenSeq(FlattenSeq(s.accepted))
<1>2. docs \in Seq(Documents) /\ FlattenSeq(s.batch) \in Seq(Documents) /\ s.count = Len(docs)
  BY SentTyped DEF Underway
<1>3. CASE s.batch = <<>>
  BY <1>3 DEF Flush
<1>4. CASE s.batch # <<>>
  <2> DEFINE r == [s EXCEPT !.accepted = Append(@, s.batch), !.count = @ + BatchCount(s.batch), !.batch = <<>>]
  <2>1. Flush(s) = r
    BY <1>4 DEF Flush
  <2>2. s.batch \in GoodBatches /\ BatchCount(s.batch) = Len(FlattenSeq(s.batch)) /\ BatchCount(s.batch) \in Nat
    <3>1. s.batch \in Seq(Seq(Documents))
      BY <1>1, GoodTypes
    <3>2. BatchCount(s.batch) = Len(FlattenSeq(s.batch))
      BY <3>1, CountFlattened
    <3>3. Len(FlattenSeq(s.batch)) \in Nat
      BY <1>2
    <3>4. s.batch \in GoodBatches
      BY <1>4 DEF Underway
    <3> QED BY <3>2, <3>3, <3>4
  <2>3. /\ r.accepted = Append(s.accepted, s.batch) /\ r.count = s.count + BatchCount(s.batch)
        /\ r.batch = <<>> /\ r.state = s.state
        /\ r \in [batch : Seq(GoodEnvelopes), accepted : Seq(GoodBatches), count : Nat,
                  state : {"open", "done", "too large", "over limit", "refused"}]
    <3>1. Append(s.accepted, s.batch) \in Seq(GoodBatches)
      BY <1>1, <2>2
    <3>2. s.count + BatchCount(s.batch) \in Nat
      BY <1>1, <2>2
    <3>3. <<>> \in Seq(GoodEnvelopes)
      OBVIOUS
    <3> QED BY <3>1, <3>2, <3>3 DEF Underway
  <2> HIDE DEF r
  <2>4. FlattenSeq(r.accepted) = FlattenSeq(s.accepted) \o s.batch
    <3>1. s.accepted \in Seq(Seq(GoodEnvelopes)) /\ s.batch \in Seq(GoodEnvelopes)
      BY <1>1, GoodTypes
    <3> QED BY <2>3, <3>1, FlattenedAppend
  <2>5. FlattenSeq(FlattenSeq(r.accepted)) = docs \o FlattenSeq(s.batch)
    <3>1. FlattenSeq(s.accepted) \in Seq(Seq(Documents)) /\ s.batch \in Seq(Seq(Documents))
      BY <1>1, SentTyped, GoodTypes
    <3> QED BY <2>4, <3>1, FlattenedBoth
  <2> DEFINE x == FlattenSeq(s.batch)
  <2>6. docs \in Seq(Documents) /\ x \in Seq(Documents)
    BY <1>2
  <2> HIDE DEF docs, x
  <2>7. Len(docs \o x) = Len(docs) + Len(x) /\ docs \o x \in Seq(Documents) /\ (docs \o x) \o <<>> = docs \o x
    BY <2>6
  <2>8. r.count = Len(FlattenSeq(FlattenSeq(r.accepted)))
    BY <1>2, <2>2, <2>3, <2>5, <2>7 DEF x
  <2>9. Underway(r)
    BY <2>3, <2>8 DEF Underway
  <2>10. Placed(r) = docs \o x
    BY <2>3, <2>5, <2>7, FlattenedNothing DEF Placed, x
  <2> QED BY <2>1, <2>3, <2>9, <2>10 DEF Placed, docs, x
<1> QED BY <1>3, <1>4

\* An envelope joins a batch that has room.
LEMMA JoinProgress ==
  ASSUME NEW s, Underway(s), NEW e \in GoodEnvelopes,
         s.batch # <<>> => /\ PolicyOf(s.batch[1][1]) = PolicyOf(e[1])
                           /\ BatchCount(s.batch) + Len(e) <= PolicyOf(e[1]).publish,
         SendBatchSize(s.batch) + Encoded(e) <= PolicyOf(e[1]).batch,
         NEW r, r = [s EXCEPT !.batch = Append(@, e)]
  PROVE  Underway(r) /\ Placed(r) = Placed(s) \o e /\ r.state = s.state
<1> DEFINE b == Append(s.batch, e)
<1>1. s.batch \in Seq(GoodEnvelopes)
  BY DEF Underway
<1>2. s.batch \in Seq(GoodEnvelopes) /\ b \in Seq(GoodEnvelopes) /\ b # <<>>
  BY <1>1, AppendProperties
<1>a. /\ r.batch = b /\ r.accepted = s.accepted /\ r.count = s.count /\ r.state = s.state
      /\ r \in [batch : Seq(GoodEnvelopes), accepted : Seq(GoodBatches), count : Nat,
                state : {"open", "done", "too large", "over limit", "refused"}]
  <2>1. r = [s EXCEPT !.batch = b]
    OBVIOUS
  <2> HIDE DEF b
  <2> QED BY <1>2, <2>1 DEF Underway
<1>3. e \in Seq(Documents) /\ e[1] \in Documents
  BY EncodedTyped
<1>4. SendBatchSize(b) <= PolicyOf(e[1]).batch
  BY <1>2, BatchAppend
<1>5. BatchCount(b) = BatchCount(s.batch) + Len(e) /\ BatchCount(s.batch) \in Nat
  BY <1>2, <1>3, GoodTypes, CountAppend
<1>6. ASSUME s.batch = <<>> PROVE b \in GoodBatches
  <2>1. BatchCount(<<>>) = 0
    <3>1. <<>> \in Seq(Seq(Documents)) /\ Len(<<>>) = 0
      OBVIOUS
    <3> QED BY <3>1, CountFlattened, FlattenedNothing
  <2>2. BatchCount(b) <= PolicyOf(e[1]).publish
    <3>1. Len(e) <= PackLimit(e[1]) /\ Len(e) \in Nat
      BY <1>3 DEF GoodEnvelopes
    <3>2. PackLimit(e[1]) <= PolicyOf(e[1]).publish /\ PackLimit(e[1]) \in Nat /\ PolicyOf(e[1]).publish \in Nat
      BY <1>3, LimitsTyped
    <3>3. BatchCount(b) = Len(e)
      BY <1>5, <1>6, <2>1, <3>1
    <3> QED BY <3>1, <3>2, <3>3
  <2>3. b[1] = e /\ DOMAIN b = {1}
    BY <1>6
  <2> HIDE DEF b
  <2>4. \A i \in DOMAIN b : b[i] = b[1]
    BY <2>3
  <2> QED BY <1>2, <1>4, <2>2, <2>3, <2>4 DEF GoodBatches
<1>7. ASSUME s.batch # <<>> PROVE b \in GoodBatches
  <2>1. s.batch \in GoodBatches
    BY <1>7 DEF Underway
  <2>2. \A i \in DOMAIN b : (i \in DOMAIN s.batch /\ b[i] = s.batch[i]) \/ b[i] = e
    BY <1>2
  <2>3. b[1] = s.batch[1]
    BY <1>2, <1>7
  <2>4. \A i \in DOMAIN s.batch : PolicyOf(s.batch[i][1]) = PolicyOf(e[1])
    BY <1>7, <2>1 DEF GoodBatches
  <2>5. \A i \in DOMAIN b : PolicyOf(b[i][1]) = PolicyOf(e[1])
    BY <2>2, <2>4
  <2>6. PolicyOf(b[1][1]) = PolicyOf(e[1])
    BY <1>7, <2>3
  <2>7. BatchCount(b) <= PolicyOf(e[1]).publish
    BY <1>5, <1>7
  <2> HIDE DEF b
  <2>8. \A i \in DOMAIN b : PolicyOf(b[i][1]) = PolicyOf(b[1][1])
    BY <2>5, <2>6
  <2> QED BY <1>2, <1>4, <2>6, <2>7, <2>8 DEF GoodBatches
<1>8. b \in GoodBatches
  BY <1>6, <1>7
<1> HIDE DEF b
<1>9. Underway(r)
  BY <1>a, <1>2, <1>8 DEF Underway
<1>10. FlattenSeq(b) = FlattenSeq(s.batch) \o e
  BY <1>2, <1>3, GoodTypes, FlattenedAppend DEF b
<1>11. PICK x \in Seq(Documents), y \in Seq(Documents) :
           x = FlattenSeq(FlattenSeq(s.accepted)) /\ y = FlattenSeq(s.batch)
  BY SentTyped
<1>12. (x \o y) \o e = x \o (y \o e)
  BY <1>3, <1>11, ConcatAssociative
<1> QED BY <1>a, <1>9, <1>10, <1>11, <1>12 DEF Placed

\* An envelope is put into a batch, or found too large for any.
LEMMA BatchedProgress ==
  ASSUME NEW s, Underway(s), s.state = "open", NEW e \in GoodEnvelopes, NEW r, r = Batched(s, e)
  PROVE  /\ Underway(r)
         /\ \/ r.state = "open" /\ Placed(r) = Placed(s) \o e
            \/ r.state = "too large" /\ FlattenSeq(FlattenSeq(r.accepted)) = Placed(s)
<1> DEFINE limits == PolicyOf(e[1])
           other == s.batch # <<>> /\ (PolicyOf(s.batch[1][1]) # limits \/ BatchCount(s.batch) + Len(e) > limits.publish)
           open == IF other THEN Flush(s) ELSE s
           fits(x) == SendBatchSize(x.batch) + Encoded(e) <= limits.batch
           added(x) == [x EXCEPT !.batch = Append(@, e)]
<1>1. r = IF fits(open) THEN added(open)
          ELSE IF fits(Flush(open)) THEN added(Flush(open))
          ELSE [Flush(open) EXCEPT !.state = "too large"]
  BY DEF Batched
<1>2. e \in Seq(Documents) /\ Len(e) \in Nat /\ e[1] \in Documents /\ limits.publish \in Nat
  BY EncodedTyped, LimitsTyped
<1>3. Underway(open) /\ open.state = "open" /\ Placed(open) = Placed(s)
  BY FlushProgress
<1>4. open.batch # <<>> => PolicyOf(open.batch[1][1]) = limits /\ BatchCount(open.batch) + Len(e) <= limits.publish
  <2>1. ASSUME open.batch # <<>> PROVE ~other /\ open = s
    BY <2>1, FlushProgress
  <2>2. BatchCount(s.batch) \in Nat
    <3>1. s.batch \in Seq(Seq(Documents))
      BY GoodTypes DEF Underway
    <3> QED BY <1>2, <3>1, CountAppend
  <2> HIDE DEF open, limits
  <2> QED BY <1>2, <2>1, <2>2
<1> HIDE DEF open, other
<1>5. /\ Underway(Flush(open)) /\ Flush(open).batch = <<>> /\ Flush(open).state = "open"
      /\ Placed(Flush(open)) = Placed(s)
  BY <1>3, FlushProgress
<1>6. CASE fits(open)
  <2>1. r = [open EXCEPT !.batch = Append(@, e)] /\ SendBatchSize(open.batch) + Encoded(e) <= PolicyOf(e[1]).batch
    BY <1>1, <1>6
  <2>2. Underway(r) /\ Placed(r) = Placed(open) \o e /\ r.state = open.state
    BY <1>3, <1>4, <2>1, JoinProgress
  <2> QED BY <1>3, <2>2
<1>7. CASE ~fits(open) /\ fits(Flush(open))
  <2> DEFINE f == Flush(open)
  <2>1. r = [f EXCEPT !.batch = Append(@, e)] /\ SendBatchSize(f.batch) + Encoded(e) <= PolicyOf(e[1]).batch
    BY <1>1, <1>7
  <2> HIDE DEF f
  <2>2. Underway(f) /\ f.batch = <<>> /\ f.state = "open" /\ Placed(f) = Placed(s)
    BY <1>5 DEF f
  <2>3. Underway(r) /\ Placed(r) = Placed(f) \o e /\ r.state = f.state
    BY <2>1, <2>2, JoinProgress
  <2> QED BY <2>2, <2>3
<1>8. CASE ~fits(open) /\ ~fits(Flush(open))
  <2> DEFINE f == Flush(open)
  <2>1. r = [f EXCEPT !.state = "too large"]
    BY <1>1, <1>8
  <2>2. Underway(f) /\ f.batch = <<>> /\ Placed(f) = Placed(s)
    BY <1>5
  <2> HIDE DEF f
  <2>3. Underway(r) /\ r.state = "too large" /\ r.accepted = f.accepted
    BY <2>1, <2>2 DEF Underway
  <2>4. PICK x \in Seq(Documents) : x = FlattenSeq(FlattenSeq(f.accepted))
    BY <2>2, SentTyped
  <2>5. x \o <<>> = x
    BY <2>4
  <2>6. Placed(f) = x
    BY <2>2, <2>4, <2>5, FlattenedNothing DEF Placed
  <2> QED BY <2>2, <2>3, <2>4, <2>6
<1> QED BY <1>6, <1>7, <1>8

QueueIInv ==
    /\ queueDocs \in Seq(Documents) /\ taken \in 0..Len(queueDocs)
    /\ packing # <<>> => packing \in GoodEnvelopes
    /\ Underway(sending) /\ sending.state # "over limit"
    /\ IsPrefix(FlattenSeq(FlattenSeq(sending.accepted)), queueDocs)
    /\ sending.state = "open" => Placed(sending) \o packing = SubSeq(queueDocs, 1, taken)
    /\ sending.state = "done" => FlattenSeq(FlattenSeq(sending.accepted)) = queueDocs

\* The first part of a prefix is one.
LEMMA PartOfPrefix ==
  ASSUME NEW T, NEW q \in Seq(T), NEW n \in 0..Len(q), NEW x \in Seq(T), NEW y \in Seq(T),
         x \o y = SubSeq(q, 1, n)
  PROVE  IsPrefix(x, q)
<1>1. Len(SubSeq(q, 1, n)) = n /\ \A i \in 1..n : SubSeq(q, 1, n)[i] = q[i]
  OBVIOUS
<1>2. Len(x \o y) = Len(x) + Len(y) /\ (\A i \in 1..Len(x) : (x \o y)[i] = x[i]) /\ Len(x) \in Nat /\ Len(y) \in Nat
  BY ConcatProperties
<1>3. Len(x) <= n /\ Len(x) <= Len(q)
  BY <1>1, <1>2
<1>4. \A i \in 1..Len(x) : x[i] = q[i]
  BY <1>1, <1>2, <1>3
<1>5. SubSeq(x, 1, Len(x)) = SubSeq(q, 1, Len(x))
  BY <1>3, <1>4
<1> QED BY <1>3, <1>5 DEF IsPrefix

LEMMA TypedByProgress ==
  ASSUME QueueIInv
  PROVE  /\ packing \in Seq(Documents) /\ Placed(sending) \in Seq(Documents)
         /\ FlattenSeq(FlattenSeq(sending.accepted)) \in Seq(Documents)
         /\ FlattenSeq(sending.batch) \in Seq(Documents)
<1>1. packing \in Seq(Documents)
  <2>1. <<>> \in Seq(Documents)
    OBVIOUS
  <2> QED BY <2>1 DEF QueueIInv, GoodEnvelopes
<1> QED BY <1>1, SentTyped DEF QueueIInv

\* An envelope is emitted within its limits, and what was read is on its way.
LEMMA EmittedProgress ==
  ASSUME QueueIInv, sending.state = "open", packing # <<>>, NEW r, r = Emitted(sending, packing)
  PROVE  /\ Underway(r)
         /\ \/ r.state = "open" /\ Placed(r) = SubSeq(queueDocs, 1, taken)
            \/ r.state = "too large"
         /\ IsPrefix(FlattenSeq(FlattenSeq(r.accepted)), queueDocs)
<1>1. packing \in GoodEnvelopes /\ Underway(sending)
  BY DEF QueueIInv
<1>2. Len(packing) > 1 => Encoded(packing) \in Nat /\ Encoded(packing) <= PolicyOf(packing[1]).envelope
                          /\ PolicyOf(packing[1]).envelope \in Nat
  BY <1>1, EncodedTyped, LimitsTyped
<1>3. r = Batched(sending, packing)
  <2>1. ~(Len(packing) > 1 /\ Encoded(packing) > PolicyOf(packing[1]).envelope)
    BY <1>2
  <2> QED BY <2>1, Zenon DEF Emitted
<1>4. Placed(sending) \o packing = SubSeq(queueDocs, 1, taken)
  BY DEF QueueIInv
<1>5. /\ Underway(r)
      /\ \/ r.state = "open" /\ Placed(r) = Placed(sending) \o packing
         \/ r.state = "too large" /\ FlattenSeq(FlattenSeq(r.accepted)) = Placed(sending)
  BY <1>1, <1>3, BatchedProgress
<1>6. queueDocs \in Seq(Documents) /\ taken \in 0..Len(queueDocs)
  BY DEF QueueIInv
<1>7. CASE r.state = "open" /\ Placed(r) = Placed(sending) \o packing
  <2>1. FlattenSeq(FlattenSeq(r.accepted)) \in Seq(Documents) /\ FlattenSeq(r.batch) \in Seq(Documents)
    BY <1>5, SentTyped
  <2>2. FlattenSeq(FlattenSeq(r.accepted)) \o FlattenSeq(r.batch) = SubSeq(queueDocs, 1, taken)
    BY <1>4, <1>7 DEF Placed
  <2>3. IsPrefix(FlattenSeq(FlattenSeq(r.accepted)), queueDocs)
    BY <1>6, <2>1, <2>2, PartOfPrefix
  <2> QED BY <1>4, <1>5, <1>7, <2>3
<1>8. CASE r.state = "too large" /\ FlattenSeq(FlattenSeq(r.accepted)) = Placed(sending)
  <2>1. IsPrefix(Placed(sending), queueDocs)
    BY <1>4, <1>6, TypedByProgress, PartOfPrefix
  <2> QED BY <1>5, <1>8, <2>1
<1> QED BY <1>5, <1>7, <1>8

\* A document alone is an envelope.
LEMMA AloneGood ==
  ASSUME NEW d \in Documents
  PROVE  <<d>> \in GoodEnvelopes
<1>1. <<d>> \in Seq(Documents) /\ Len(<<d>>) = 1 /\ <<d>>[1] = d /\ DOMAIN <<d>> = {1} /\ <<d>> # <<>>
  OBVIOUS
<1> QED BY <1>1, LimitsTyped DEF GoodEnvelopes

\* A document that may stay joins the envelope.
LEMMA PackedGood ==
  ASSUME NEW d \in Documents, packing \in GoodEnvelopes, ~Close(d)
  PROVE  Append(packing, d) \in GoodEnvelopes
<1> DEFINE e == Append(packing, d)
           n == Len(packing)
<1>1. packing \in Seq(Documents) /\ n \in Nat \ {0} /\ packing[1] \in Documents
  BY EncodedTyped
<1>2. e \in Seq(Documents) /\ e # <<>> /\ Len(e) = n + 1 /\ (\A i \in 1..n : e[i] = packing[i]) /\ e[n + 1] = d
  BY <1>1, AppendProperties
<1>3. /\ packing[1].route = d.route /\ packing[1].pipeline = d.pipeline
      /\ ~(n >= PackLimit(d)) /\ \A i \in 1..n : packing[i].id # d.id
      /\ ~(Size(packing) + d.size + n + Reserved > PolicyOf(d).envelope)
  BY <1>1 DEF Close
<1>4. PackLimit(e[1]) = PackLimit(d) /\ PolicyOf(e[1]) = PolicyOf(d)
  BY <1>1, <1>2, <1>3 DEF PackLimit, PolicyOf
<1>5. Size(e) = Size(packing) + d.size /\ Size(packing) \in Nat /\ d.size \in Nat /\ Reserved \in Nat
      /\ PolicyOf(d).envelope \in Nat /\ PackLimit(d) \in Nat
  BY <1>1, SumsAppend, LimitsTyped, QueueAssumption
<1>6. Len(e) <= PackLimit(e[1])
  BY <1>1, <1>2, <1>3, <1>4, <1>5
<1>7. Size(e) + Len(e) - 1 + Reserved <= PolicyOf(e[1]).envelope
  <2> DEFINE size == Size(packing)
             extra == d.size
             limit == PolicyOf(d).envelope
  <2>1. size \in Nat /\ extra \in Nat /\ limit \in Nat /\ n \in Nat /\ Reserved \in Nat /\ ~(size + extra + n + Reserved > limit)
    BY <1>1, <1>3, <1>5
  <2> HIDE DEF size, extra, limit, n
  <2>2. (size + extra) + (n + 1) - 1 + Reserved <= limit
    BY <2>1
  <2> QED BY <1>2, <1>4, <1>5, <2>2 DEF size, extra, limit
<1>8. ASSUME NEW j \in DOMAIN e, NEW k \in DOMAIN e, j # k
      PROVE  e[j].id # e[k].id /\ e[j].route = e[k].route /\ e[j].pipeline = e[k].pipeline
  <2>1. \A i \in DOMAIN e : i \in 1..n \/ i = n + 1
    BY <1>1, <1>2
  <2>2. \A a, b \in 1..n : a # b => /\ packing[a].id # packing[b].id
                                    /\ packing[a].route = packing[b].route /\ packing[a].pipeline = packing[b].pipeline
    BY <1>1 DEF GoodEnvelopes
  <2>3. \A a \in 1..n : packing[a].route = d.route /\ packing[a].pipeline = d.pipeline
    BY <1>1, <1>3, <2>2
  <2> HIDE DEF e, n
  <2> QED BY <1>2, <1>3, <1>8, <2>1, <2>2, <2>3
<1> HIDE DEF e
<1>9. e \in GoodEnvelopes
  BY <1>2, <1>6, <1>7, <1>8 DEF GoodEnvelopes
<1> QED BY <1>9 DEF e

LEMMA TakeKeeps ==
  ASSUME QueueIInv, Take
  PROVE  QueueIInv'
<1> DEFINE doc == queueDocs[taken + 1]
<1>1. queueDocs \in Seq(Documents) /\ taken \in 0..Len(queueDocs) /\ packing \in Seq(Documents)
  BY TypedByProgress DEF QueueIInv
<1>2. /\ sending.state = "open" /\ taken < Len(queueDocs) /\ taken' = taken + 1 /\ queueDocs' = queueDocs
      /\ \/ packing # <<>> /\ packing' = <<doc>> /\ sending' = Emitted(sending, packing)
         \/ (packing = <<>> \/ ~Close(doc)) /\ packing' = Append(packing, doc) /\ sending' = sending
  BY DEF Take
<1>3. taken + 1 \in 1..Len(queueDocs)
  BY <1>1, <1>2
<1>4. doc \in Documents /\ SubSeq(queueDocs, 1, taken + 1) = Append(SubSeq(queueDocs, 1, taken), doc)
  <2>1. (taken + 1) - 1 = taken
    BY <1>1
  <2> QED BY <1>1, <1>3, <2>1, PrefixGrowsBy
<1> DEFINE read == SubSeq(queueDocs, 1, taken)
<1>5. read \in Seq(Documents)
  BY <1>1
<1>6. Placed(sending) \o packing = read
  BY <1>2 DEF QueueIInv
<1> HIDE DEF doc, read
<1>7. CASE packing # <<>> /\ packing' = <<doc>> /\ sending' = Emitted(sending, packing)
  <2>1. /\ Underway(sending')
        /\ \/ sending'.state = "open" /\ Placed(sending') = read
           \/ sending'.state = "too large"
        /\ IsPrefix(FlattenSeq(FlattenSeq(sending'.accepted)), queueDocs)
    BY <1>2, <1>7, EmittedProgress DEF read
  <2>2. <<doc>> \in GoodEnvelopes
    BY <1>4, AloneGood
  <2>3. read \o <<doc>> = Append(read, doc)
    BY <1>4, <1>5
  <2>4. taken' \in 0..Len(queueDocs')
    BY <1>2, <1>3
  <2>5. sending'.state = "open" => Placed(sending') \o packing' = SubSeq(queueDocs', 1, taken')
    BY <1>2, <1>4, <1>7, <2>1, <2>3 DEF read, doc
  <2> QED BY <1>1, <1>2, <1>7, <2>1, <2>2, <2>4, <2>5 DEF QueueIInv
<1>8. CASE (packing = <<>> \/ ~Close(doc)) /\ packing' = Append(packing, doc) /\ sending' = sending
  <2>1. packing' \in GoodEnvelopes
    <3>1. CASE packing = <<>>
      <4>1. Append(<<>>, doc) = <<doc>>
        OBVIOUS
      <4> QED BY <1>4, <1>8, <3>1, <4>1, AloneGood
    <3>2. CASE packing # <<>>
      BY <1>4, <1>8, <3>2, PackedGood DEF QueueIInv
    <3> QED BY <3>1, <3>2
  <2>2. Placed(sending) \in Seq(Documents)
    BY TypedByProgress
  <2>3. Placed(sending) \o Append(packing, doc) = Append(read, doc)
    <3>1. PICK placed \in Seq(Documents), p \in Seq(Documents), d \in Documents :
            placed = Placed(sending) /\ p = packing /\ d = doc
      BY <1>1, <1>4, <2>2
    <3>2. placed \o Append(p, d) = Append(placed \o p, d)
      BY AppendOfConcat, SMTT(40)
    <3> QED BY <1>6, <3>1, <3>2
  <2>4. taken' \in 0..Len(queueDocs')
    BY <1>2, <1>3
  <2>5. Placed(sending') \o packing' = SubSeq(queueDocs', 1, taken')
    BY <1>2, <1>4, <1>8, <2>3 DEF read, doc
  <2> QED BY <1>1, <1>2, <1>8, <2>1, <2>4, <2>5 DEF QueueIInv
<1> QED BY <1>2, <1>7, <1>8

LEMMA LastKeeps ==
  ASSUME QueueIInv, LastEnvelope
  PROVE  QueueIInv'
<1> DEFINE s == IF packing = <<>> THEN sending ELSE Emitted(sending, packing)
<1>1. queueDocs \in Seq(Documents) /\ Underway(sending) /\ sending.state = "open" /\ taken = Len(queueDocs) /\ taken \in 0..Len(queueDocs)
  BY DEF QueueIInv, LastEnvelope
<1>2. packing' = <<>> /\ UNCHANGED <<queueDocs, taken>>
      /\ sending' = IF s.state = "open" THEN [Flush(s) EXCEPT !.state = "done"] ELSE s
  BY DEF LastEnvelope
<1>3. Placed(sending) \o packing = queueDocs /\ SubSeq(queueDocs, 1, taken) = queueDocs
  BY <1>1, SubSeqFull DEF QueueIInv
<1>4. Underway(s) /\ ((s.state = "open" /\ Placed(s) = queueDocs) \/ s.state = "too large")
      /\ IsPrefix(FlattenSeq(FlattenSeq(s.accepted)), queueDocs)
  <2>1. CASE packing = <<>>
    <3>1. PICK x \in Seq(Documents) : x = Placed(sending)
      BY TypedByProgress
    <3>2. x \o <<>> = x
      BY <3>1
    <3> QED BY <1>1, <1>3, <2>1, <3>1, <3>2 DEF QueueIInv
  <2>2. CASE packing # <<>>
    BY <1>1, <1>3, <2>2, EmittedProgress
  <2> QED BY <2>1, <2>2
<1> HIDE DEF s
<1>5. CASE s.state = "open"
  <2> DEFINE f == Flush(s)
  <2>1. Underway(f) /\ f.batch = <<>> /\ Placed(f) = queueDocs
    BY <1>4, <1>5, FlushProgress
  <2>2. sending' = [f EXCEPT !.state = "done"]
    BY <1>2, <1>5
  <2> HIDE DEF f
  <2>3. Underway(sending') /\ sending'.state = "done" /\ sending'.accepted = f.accepted
    BY <2>1, <2>2 DEF Underway
  <2>4. PICK x \in Seq(Documents) : x = FlattenSeq(FlattenSeq(f.accepted))
    BY <2>1, SentTyped
  <2>5. x \o <<>> = x
    BY <2>4
  <2>6. FlattenSeq(FlattenSeq(sending'.accepted)) = queueDocs
    BY <2>1, <2>3, <2>4, <2>5, FlattenedNothing DEF Placed
  <2>7. IsPrefix(queueDocs, queueDocs)
    BY <1>1 DEF IsPrefix
  <2> QED BY <1>1, <1>2, <2>3, <2>6, <2>7 DEF QueueIInv
<1>6. CASE s.state # "open"
  BY <1>1, <1>2, <1>4, <1>6 DEF QueueIInv
<1> QED BY <1>5, <1>6

LEMMA RefusalKeeps ==
  ASSUME QueueIInv, SendRefused
  PROVE  QueueIInv'
<1>1. sending' = [sending EXCEPT !.state = "refused"] /\ UNCHANGED <<queueDocs, taken, packing>> /\ Underway(sending)
  BY DEF SendRefused, QueueIInv
<1>2. Underway(sending') /\ sending'.state = "refused" /\ sending'.accepted = sending.accepted
  BY <1>1 DEF Underway
<1> QED BY <1>1, <1>2 DEF QueueIInv

LEMMA QueueKept == QueueIInv => EnvelopesFaithful
<1> SUFFICES ASSUME QueueIInv PROVE EnvelopesFaithful
  OBVIOUS
<1>1. Underway(sending)
  BY DEF QueueIInv
<1>2. /\ FlattenSeq(sending.accepted) \in Seq(GoodEnvelopes) /\ sending.batch \in Seq(GoodEnvelopes)
      /\ sending.accepted \in Seq(GoodBatches)
  BY <1>1, SentTyped DEF Underway
<1>3. Envelopes \in Seq(GoodEnvelopes)
  BY <1>2, ConcatProperties DEF Envelopes
<1>4. FlattenSeq(Envelopes) = Placed(sending)
  BY <1>2, GoodTypes, FlattenedBoth DEF Envelopes, Placed
<1>5. ASSUME NEW i \in DOMAIN Envelopes
      PROVE  LET e == Envelopes[i] IN
             /\ Len(e) <= PackLimit(e[1])
             /\ Len(e) > 1 => Encoded(e) <= PolicyOf(e[1]).envelope
             /\ \A j, k \in DOMAIN e : j # k => /\ e[j].id # e[k].id
                                                /\ e[j].route = e[k].route /\ e[j].pipeline = e[k].pipeline
  <2>1. PICK e \in GoodEnvelopes : e = Envelopes[i]
    BY <1>3
  <2> QED BY <2>1, EncodedTyped DEF GoodEnvelopes
<1>6. ASSUME NEW i \in DOMAIN sending.accepted
      PROVE  LET b == sending.accepted[i] IN
             /\ SendBatchSize(b) <= PolicyOf(b[1][1]).batch
             /\ BatchCount(b) <= PolicyOf(b[1][1]).publish
             /\ \A e \in ToSet(b) : PolicyOf(e[1]) = PolicyOf(b[1][1])
  <2>1. PICK b \in GoodBatches : b = sending.accepted[i]
    BY <1>2
  <2> QED BY <2>1 DEF GoodBatches, ToSet
<1>7. sending.count = Len(AcceptedDocs)
  BY <1>1 DEF Underway, AcceptedDocs
<1> QED BY <1>4, <1>5, <1>6, <1>7 DEF QueueIInv, EnvelopesFaithful, AcceptedDocs

\* For any documents and limits: each document is in one envelope, in order;
\* envelopes and batches obey all limits, and what is counted was accepted.
THEOREM QueueEnvelopesFaithful == QueueSpec => []EnvelopesFaithful
<1>1. QueueInit => QueueIInv
  <2> SUFFICES ASSUME QueueInit PROVE QueueIInv
    OBVIOUS
  <2>1. queueDocs \in Seq(Documents)
    BY QueueAssumption DEF QueueInit
  <2>2. 0 \in 0..Len(queueDocs) /\ packing = <<>> /\ taken = 0
    BY <2>1 DEF QueueInit
  <2>3. /\ sending.batch = <<>> /\ sending.accepted = <<>> /\ sending.state = "open" /\ Underway(sending)
    <3>1. FlattenSeq(FlattenSeq(<<>>)) = <<>> /\ Len(<<>>) = 0
      BY FlattenedNothing
    <3>2. <<>> \in Seq(GoodEnvelopes) /\ <<>> \in Seq(GoodBatches)
      OBVIOUS
    <3> QED BY <3>1, <3>2 DEF QueueInit, NoSending, Underway
  <2>4. FlattenSeq(FlattenSeq(sending.accepted)) = <<>> /\ FlattenSeq(sending.batch) = <<>>
    BY <2>3, FlattenedNothing
  <2>5. SubSeq(queueDocs, 1, 0) = <<>> /\ <<>> \o <<>> = <<>> /\ IsPrefix(<<>>, queueDocs)
    BY <2>1 DEF IsPrefix
  <2>6. Placed(sending) \o packing = SubSeq(queueDocs, 1, taken)
    BY <2>2, <2>4, <2>5 DEF Placed
  <2> QED BY <2>1, <2>2, <2>3, <2>4, <2>5, <2>6 DEF QueueIInv
<1>2. QueueIInv /\ [QueueNext]_queueVars => QueueIInv'
  <2> SUFFICES ASSUME QueueIInv, [QueueNext]_queueVars PROVE QueueIInv'
    OBVIOUS
  <2>1. CASE UNCHANGED queueVars
    BY <2>1 DEF queueVars, QueueIInv
  <2> QED BY <2>1, TakeKeeps, LastKeeps, RefusalKeeps DEF QueueNext
<1> QED BY <1>1, <1>2, QueueKept, PTL DEF QueueSpec

-----------------------------------------------------------------------------
(* LeaderElection, for any number of replicas and any lease duration.       *)

\* The initial states satisfy the inductive invariant.
LEMMA ElectionInit == Init => ElectionInv
  BY ElectionAssumption DEF Init, ElectionInv, LeaseInv, TypeOK, MayWrite, NoLease, LeaderActive, HoldsLease, Over

\* Time passes: who runs the main function renewed less than a duration ago.
LEMMA TickKeeps ==
  ASSUME ElectionInv, Tick
  PROVE  ElectionInv'
<1> USE ElectionAssumption DEF ElectionInv, LeaseInv
<1>1. TypeOK'
  BY DEF TypeOK, Tick, Over, InCall, Calling
<1>2. MayWrite'
  BY DEF TypeOK, MayWrite, Tick, Over, InCall, Calling, Elapsed
<1>3. NoLease' /\ LeaderActive'
  BY DEF TypeOK, NoLease, LeaderActive, Tick, Over
<1>4. Timely => HoldsLease'
  BY DEF TypeOK, HoldsLease, Timely, Tick, Over
<1> QED BY <1>1, <1>2, <1>3, <1>4

\* Steps that do not write the lease.
LEMMA QuietKeeps ==
  ASSUME ElectionInv, NEW p \in Pod,
         Attempt(p) \/ Stopped(p) \/ ReadLease(p) \/ ReadNotFound(p) \/ Crash(p)
  PROVE  ElectionInv'
<1> USE ElectionAssumption DEF ElectionInv, LeaseInv
<1>1. TypeOK'
  <2>1. /\ holder' \in Pod \union {NoPod} /\ left' \in Over .. TTL
        /\ mishaps' \in 0 .. MaxMishaps
    BY DEF TypeOK, Attempt, Stopped, ReadLease, ReadNotFound, Crash, lease
  <2>2. fresh' \in [Pod -> BOOLEAN]
    BY DEF TypeOK, Attempt, Stopped, ReadLease, ReadNotFound, Crash
  <2>3. pc' \in [Pod -> {"idle", "read", "create", "replace", "stopping", "gone"}]
    BY DEF TypeOK, Attempt, Stopped, ReadLease, ReadNotFound, Crash, Refused, StepDown, lease
  <2>4. age' \in [Pod -> 0 .. MaxCall] /\ since' \in [Pod -> Nat]
    BY DEF TypeOK, Attempt, Stopped, ReadLease, ReadNotFound, Crash, Refused, StepDown, lease
  <2>5. leader' \in [Pod -> BOOLEAN] /\ main' \in [Pod -> BOOLEAN]
    BY DEF TypeOK, Attempt, Stopped, ReadLease, ReadNotFound, Crash, Refused, StepDown, lease
  <2>6. failures' \in [Pod -> 0 .. MaxFailures]
    BY DEF TypeOK, Attempt, Stopped, ReadLease, ReadNotFound, Crash, Refused, StepDown, lease
  <2> QED BY <2>1, <2>2, <2>3, <2>4, <2>5, <2>6 DEF TypeOK
<1>2. NoLease' /\ UNCHANGED lease
  BY DEF NoLease, Attempt, Stopped, ReadLease, ReadNotFound, Crash, lease
<1>3. MayWrite'
  BY DEF TypeOK, MayWrite, MayReplace, Elapsed, LeaderActive, Attempt, Stopped, ReadLease, ReadNotFound,
     Crash, Refused, StepDown, lease
<1>4. LeaderActive'
  BY DEF TypeOK, LeaderActive, Attempt, Stopped, ReadLease, ReadNotFound, Crash, Refused, StepDown
<1>5. ASSUME NEW q \in Pod PROVE main'[q] => main[q] /\ since'[q] = since[q] /\ (age'[q] = age[q] \/ age'[q] = 0)
  BY DEF TypeOK, Attempt, Stopped, ReadLease, ReadNotFound, Crash, Refused, StepDown
<1>6. Timely => HoldsLease'
  BY <1>2, <1>5 DEF HoldsLease, TypeOK, lease
<1> QED BY <1>1, <1>2, <1>3, <1>4, <1>6

\* Whoever writes the lease may: nobody else runs the main function.
LEMMA NobodyActive ==
  ASSUME ElectionInv, Timely, NEW p \in Pod, NEW q \in Pod, main[q], Accepted(p)
  PROVE  p = q
<1> USE ElectionAssumption DEF ElectionInv, LeaseInv
<1>1. holder = q /\ left > 0
  BY DEF HoldsLease, TypeOK, Over
<1>2. holder = p \/ left + age[p] <= 0
  BY <1>1 DEF MayWrite, Elapsed, Accepted, SameVersion, TypeOK
<1> QED BY <1>1, <1>2 DEF TypeOK, Over

\* An attempt that ends, by success, refusal or failure, keeps the inductive
\* invariant.
LEMMA WriteKeeps ==
  ASSUME ElectionInv, NEW p \in Pod, WriteLease(p) \/ ServerError(p) \/ ConnectionError(p)
  PROVE  ElectionInv'
<1> USE ElectionAssumption DEF ElectionInv, LeaseInv
<1>1. p # NoPod /\ TTL - age[p] \in Over .. TTL
  BY DEF TypeOK, Over
<1>2. TypeOK'
  <2>1. holder' \in Pod \union {NoPod} /\ left' \in Over .. TTL
    BY <1>1 DEF TypeOK, WriteLease, ServerError, ConnectionError, CallFails, Written, lease
  <2>2. fresh' \in [Pod -> BOOLEAN]
    BY DEF TypeOK, WriteLease, ServerError, ConnectionError, CallFails, Written
  <2>3. mishaps' \in 0 .. MaxMishaps
    BY DEF TypeOK, WriteLease, ServerError, ConnectionError, CallFails
  <2>4. pc' \in [Pod -> {"idle", "read", "create", "replace", "stopping", "gone"}]
    BY DEF TypeOK, WriteLease, ServerError, ConnectionError, Succeeded, Refused, StepDown
  <2>5. age' \in [Pod -> 0 .. MaxCall] /\ since' \in [Pod -> Nat]
    BY DEF TypeOK, WriteLease, ServerError, ConnectionError, Succeeded, Refused, StepDown
  <2>6. leader' \in [Pod -> BOOLEAN] /\ main' \in [Pod -> BOOLEAN]
    BY DEF TypeOK, WriteLease, ServerError, ConnectionError, Succeeded, Refused, StepDown
  <2>7. failures' \in [Pod -> 0 .. MaxFailures]
    BY DEF TypeOK, WriteLease, ServerError, ConnectionError, Succeeded, Refused, StepDown
  <2> QED BY <2>1, <2>2, <2>3, <2>4, <2>5, <2>6, <2>7 DEF TypeOK
<1>3. pc'[p] \in {"idle", "stopping"} /\ age'[p] = 0
  BY DEF TypeOK, WriteLease, ServerError, ConnectionError, Succeeded, Refused, StepDown
<1>4. \A q \in Pod \ {p} :
        /\ pc'[q] = pc[q] /\ age'[q] = age[q] /\ since'[q] = since[q]
        /\ main'[q] = main[q] /\ leader'[q] = leader[q]
  BY DEF TypeOK, WriteLease, ServerError, ConnectionError, Succeeded, Refused, StepDown
<1>5. UNCHANGED <<holder, left, fresh>> \/ (Accepted(p) /\ Written(p))
  BY DEF WriteLease, ServerError, ConnectionError, CallFails, lease
<1>6. MayWrite'
  BY <1>3, <1>4, <1>5 DEF MayWrite, Elapsed, Written, TypeOK
<1>7. NoLease'
  BY <1>1, <1>5 DEF NoLease, Written
<1>8. LeaderActive'
  <2>1. leader'[p] => main'[p] /\ pc'[p] # "stopping"
    BY DEF TypeOK, LeaderActive, WriteLease, ServerError, ConnectionError, Succeeded, Refused, StepDown
  <2> QED BY <1>4, <2>1 DEF LeaderActive
<1>9. ASSUME Timely PROVE HoldsLease'
  <2>1. \/ main'[p] => main[p] /\ since'[p] = since[p]
        \/ Written(p) /\ since'[p] = age[p]
    BY DEF TypeOK, WriteLease, ServerError, ConnectionError, Succeeded, Refused, StepDown
  <2>2. CASE UNCHANGED <<holder, left, fresh>> /\ (main'[p] => main[p] /\ since'[p] = since[p])
    BY <1>3, <1>4, <1>9, <2>2 DEF HoldsLease, TypeOK
  <2>3. CASE Accepted(p) /\ Written(p)
    <3>1. \A q \in Pod \ {p} : ~main'[q]
      BY <1>4, <1>9, <2>3, NobodyActive
    <3>2. main'[p] => since'[p] >= age[p] /\ since'[p] < TTL
      BY <1>9, <2>1, <2>3 DEF HoldsLease, TypeOK, Timely
    <3>3. holder' = p /\ left' = TTL - age[p]
      BY <2>3 DEF Written
    <3> QED BY <1>2, <1>3, <3>1, <3>2, <3>3 DEF HoldsLease, TypeOK
  <2>4. Written(p) /\ UNCHANGED <<holder, left, fresh>> => Accepted(p) \/ (main'[p] => main[p] /\ since'[p] = since[p])
    BY DEF TypeOK, WriteLease, ServerError, ConnectionError, Succeeded, Refused, StepDown, CallFails
  <2> QED BY <1>5, <2>1, <2>2, <2>3, <2>4
<1> QED BY <1>2, <1>6, <1>7, <1>8, <1>9

\* Every step keeps the inductive invariant.
LEMMA ElectionStep == ElectionInv /\ [Next]_vars => ElectionInv'
<1> SUFFICES ASSUME ElectionInv, [Next]_vars PROVE ElectionInv'
  OBVIOUS
<1>1. CASE UNCHANGED vars
  BY <1>1 DEF vars, ElectionInv, LeaseInv, TypeOK, MayWrite, NoLease, LeaderActive, HoldsLease, Elapsed
<1>2. CASE Next
  BY <1>2, TickKeeps, QuietKeeps, WriteKeeps DEF Next, Attempting
<1> QED BY <1>1, <1>2

-----------------------------------------------------------------------------
\* What the election loop relies on holds throughout.
THEOREM ElectionInvariant == Spec => []ElectionInv
<1> QED BY ElectionInit, ElectionStep, PTL DEF Spec

\* "Ensures only one instance of a controller is active at a time"
\* (leader_election.py:4) - true of replicas whose attempts and renewals are quicker
\* than the lease duration.
THEOREM ElectionSingleActive ==
  ASSUME Timely
  PROVE  Spec => []SingleActive
<1>1. ElectionInv => SingleActive
  BY DEF ElectionInv, HoldsLease, SingleActive
<1> QED BY <1>1, ElectionInvariant, PTL

\* Reading and replacing the Lease object implements the abstract lease, however
\* slow the replicas are.
THEOREM ElectionImplementsLease == Spec => ImplementsLease
<1> DEFINE rest == IF left <= 0 THEN -1 ELSE left - 1
<1>1. Init => L!LeaseInit
  BY ElectionAssumption DEF Init, L!LeaseInit, Over
<1>2. ElectionInv /\ [Next]_vars => [L!LeaseNext]_<<holder, rest>>
  <2> SUFFICES ASSUME ElectionInv, [Next]_vars PROVE [L!LeaseNext]_<<holder, rest>>
    OBVIOUS
  <2> USE ElectionAssumption DEF ElectionInv, LeaseInv
  <2>1. CASE Tick
    <3>1. CASE left <= 0
      <4>1. left' <= 0
        BY <2>1, <3>1 DEF Tick, TypeOK, Over
      <4> QED BY <2>1, <3>1, <4>1 DEF Tick
    <3>2. CASE left > 0
      <4>1. left' = left - 1
        BY <2>1, <3>2 DEF Tick, TypeOK, Over
      <4> QED BY <2>1, <3>2, <4>1 DEF Tick, TypeOK, Over, L!LeaseNext, L!Elapse
    <3>3. left \in Int
      BY DEF TypeOK, Over
    <3>4. left <= 0 \/ left > 0
      BY <3>3
    <3> QED BY <3>1, <3>2, <3>4
  <2>2. ASSUME NEW p \in Pod, Written(p), Accepted(p)
        PROVE  L!LeaseNext
    <3>1. holder = p \/ left <= 0
      BY <2>2 DEF NoLease, MayWrite, Elapsed, Accepted, SameVersion, TypeOK, Over
    <3>2. left' = TTL - age[p] /\ holder' = p /\ age[p] \in Nat
      BY <2>2 DEF Written, TypeOK
    <3>3. rest' \in -1 .. TTL /\ (holder = p \/ rest < 0)
      BY <3>1, <3>2 DEF TypeOK, Over
    <3>4. L!Grant(p)
      BY <3>2, <3>3 DEF L!Grant
    <3> QED BY <3>4 DEF L!LeaseNext
  <2>3. ASSUME NEW p \in Pod, WriteLease(p) \/ ServerError(p) \/ ConnectionError(p)
        PROVE  [L!LeaseNext]_<<holder, rest>>
    BY <2>2, <2>3 DEF WriteLease, ServerError, ConnectionError, CallFails, lease
  <2>4. ASSUME NEW p \in Pod, Attempt(p) \/ Stopped(p) \/ ReadLease(p) \/ ReadNotFound(p) \/ Crash(p)
        PROVE  UNCHANGED <<holder, rest>>
    BY <2>4 DEF Attempt, Stopped, ReadLease, ReadNotFound, Crash, lease
  <2>5. CASE UNCHANGED vars
    BY <2>5 DEF vars
  <2> QED BY <2>1, <2>3, <2>4, <2>5 DEF Next, Attempting
<1> QED BY <1>1, <1>2, ElectionInvariant, PTL DEF Spec, ImplementsLease, L!LeaseSpec
=============================================================================
