-------------------------- MODULE TransformPipelines ------------------------
(* The transform pipelines of the Python DocGrok service: the registry a     *)
(* replica keeps in memory, changed through the admin API while PipelineExe- *)
(* cutor runs one of them.  A pipeline is the sequence of its steps, with    *)
(* the identifiers each depends on.                                          *)
EXTENDS Naturals, Sequences

CONSTANTS TransformSteps    \* the pipelines: sequences of [id, type, needs]

ASSUME TransformAssumption ==
    \A t \in TransformSteps : Len(t) \in Nat /\ DOMAIN t = 1 .. Len(t)

VARIABLES known, running    \* PIPELINES, and the execution under way
transformVars == <<known, running>>

NoRun == [steps |-> <<>>, ended |-> "none"]

-----------------------------------------------------------------------------

DefinePipeline(t) ==
    /\ t \notin known
    /\ known' = known \cup {t}
    /\ UNCHANGED running

RemovePipeline(t) ==
    /\ t \in known
    /\ known' = known \ {t}
    /\ UNCHANGED running

UpdatePipeline(t, u) ==
    /\ t \in known
    /\ known' = (known \ {t}) \cup {u}
    /\ UNCHANGED running

\* embed: the execution keeps the pipeline it looked up
Execute(t) ==
    /\ t \in known /\ running.ended # "no"
    /\ running' = [steps |-> t, pending |-> DOMAIN t, batch |-> {}, executed |-> <<>>, ended |-> "no"]
    /\ UNCHANGED known

Executed(run) == {run.steps[run.executed[i]].id : i \in DOMAIN run.executed}

\* a bug: a step is ready when one of the steps it needs was executed
AnyNeed(run, i) == run.steps[i].needs = {} \/ run.steps[i].needs \cap Executed(run) # {}
StepReady(run, i) == run.steps[i].needs \subseteq Executed(run)

\* one round of the loop: the pending steps that are ready
Round ==
    LET ready == {i \in running.pending : StepReady(running, i)}
    IN  /\ running.ended = "no" /\ running.batch = {} /\ running.pending # {}
        /\ running' = IF ready = {} THEN [running EXCEPT !.ended = "stuck"] ELSE [running EXCEPT !.batch = ready]
        /\ UNCHANGED known

\* The steps of a round run in the order of the pipeline.  A local function and
\* a backend can fail; an external step always does: PipelineStep has no provider.
RunStep ==
    LET i == CHOOSE j \in running.batch : \A k \in running.batch : j <= k
    IN  /\ running.ended = "no" /\ running.batch # {}
        /\ \/ /\ running.steps[i].type # "external"
              /\ running' = [running EXCEPT !.executed = Append(@, i), !.batch = @ \ {i}, !.pending = @ \ {i}]
           \/ running' = [running EXCEPT !.ended = "failed"]
        /\ UNCHANGED known

ExecuteEnds ==
    /\ running.ended = "no" /\ running.pending = {}
    /\ running' = [running EXCEPT !.ended = "done"]
    /\ UNCHANGED known

-----------------------------------------------------------------------------

TransformInit == known = {} /\ running = NoRun
TransformNext ==
    \/ Round \/ RunStep \/ ExecuteEnds
    \/ \E t \in TransformSteps : DefinePipeline(t) \/ RemovePipeline(t) \/ Execute(t)
    \/ \E t, u \in TransformSteps : UpdatePipeline(t, u)
TransformSpec == TransformInit /\ [][TransformNext]_transformVars

-----------------------------------------------------------------------------

\* A transform pipeline that ends ran every step once, after all it needs; one
\* that is reported as stuck has steps that wait for each other or for none.
StepsInOrder ==
    running # NoRun =>
        LET run == running
            Before(i) == {run.steps[run.executed[k]].id : k \in 1..(i - 1)}
        IN  /\ \A i \in DOMAIN run.executed : run.steps[run.executed[i]].needs \subseteq Before(i)
            /\ run.ended = "done" => {run.executed[i] : i \in DOMAIN run.executed} = DOMAIN run.steps
                                     /\ Len(run.executed) = Len(run.steps)
            /\ run.ended = "stuck" =>
                   \E W \in SUBSET run.pending : W # {} /\ \A i \in W :
                       \E n \in run.steps[i].needs : \A k \in DOMAIN run.steps : run.steps[k].id = n => k \in W
=============================================================================
