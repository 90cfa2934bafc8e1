---------------------------- MODULE SyntheticRuns ----------------------------
(***************************************************************************)
(* Benchmark runs of a synthetic source.  A replica of the API that is     *)
(* asked for a run stores a document of it and publishes the messages in a *)
(* task of its own, a page at a time, and notes the progress in the        *)
(* document.  The capacity policy of the pipeline is read again while the  *)
(* run goes on.  A run is cancelled through the replica that executes it;  *)
(* when that replica restarts, nobody executes the run any more.           *)
(*                                                                         *)
(* A message is its index.  How a page becomes messages and batches of the *)
(* broker is the subject of QueuePublish; here the broker accepts any part *)
(* of a page at a time.                                                    *)
(***************************************************************************)
EXTENDS Naturals, Sequences, FiniteSets, FiniteSetsExt

CONSTANTS Runs,            \* bound: IDs of runs
          RunReplicas,     \* of the API
          RunPipelines,    \* that use the source
          RunPolicies,     \* capacity policies: page, overhead of a message
          DocumentCount,   \* document_count
          MessageSize,     \* message_size_bytes
          Interval,        \* documents between two notes of the progress
          MaxTrouble       \* bound: changes of pipelines, failures, restarts

ASSUME RunAssumption ==
    /\ DocumentCount \in Nat /\ Interval \in Nat \ {0}
    /\ \A q \in RunPolicies : q.page \in Nat

VARIABLES pipelines,    \* of each: status and capacity policy
          destination,  \* "enabled", "disabled" or "missing"
          runDoc,       \* documents of the runs in the store
          task,         \* of each run: what executes it
          broker,       \* of each run: messages the broker accepted, in order
          trouble
runVars == <<pipelines, destination, runDoc, task, broker, trouble>>

NoRun == [status |-> "none", published |-> 0, pipeline |-> "none"]
NoTask == [phase |-> "none"]
RunOver == {"completed", "cancelled", "failed"}

RunsInit ==
    /\ pipelines \in [RunPipelines -> [status : {"active", "paused"}, policy : RunPolicies]]
    /\ destination \in {"enabled", "disabled", "missing"}
    /\ runDoc = [r \in Runs |-> NoRun] /\ task = [r \in Runs |-> NoTask]
    /\ broker = [r \in Runs |-> <<>>]
    /\ trouble = 0

-----------------------------------------------------------------------------
(* Requests.                                                                *)

\* all messages of a run are padded to one size, which must leave room for
\* content
Fits(policy) == policy.overhead < MessageSize

Candidates(wanted) == {p \in RunPipelines : pipelines[p].status = "active" /\ wanted \in {"any", p}}

\* 202 starts the run, all others change nothing
GenerateAnswer(wanted) ==
    IF Cardinality(Candidates(wanted)) # 1 THEN 400
    ELSE IF destination # "enabled" THEN 409
    ELSE IF \E p \in Candidates(wanted) : ~Fits(pipelines[p].policy) THEN 422 ELSE 202

StartedRun(p, rep) ==
    [phase |-> "pace", at |-> rep, pipeline |-> p, policy |-> pipelines[p].policy,
     published |-> 0, page |-> 0, next |-> Interval, cancel |-> FALSE]

Generate(r, rep, wanted) ==
    /\ runDoc[r] = NoRun /\ \A q \in Runs : task[q] = NoTask
    /\ GenerateAnswer(wanted) = 202
    /\ \E p \in Candidates(wanted) :
        /\ runDoc' = [runDoc EXCEPT ![r] = [status |-> "publishing", published |-> 0, pipeline |-> p]]
        /\ task' = [task EXCEPT ![r] = StartedRun(p, rep)]
    /\ UNCHANGED <<pipelines, destination, broker, trouble>>

\* only the replica that executes the run can cancel it, the others change nothing
Cancel(r, rep) ==
    /\ task[r] # NoTask /\ task[r].at = rep
    /\ task' = [task EXCEPT ![r].cancel = TRUE]
    /\ UNCHANGED <<pipelines, destination, runDoc, broker, trouble>>

-----------------------------------------------------------------------------
(* The task of a run.                                                       *)

SetStatus(r, status) == runDoc' = [runDoc EXCEPT ![r].status = status]

\* the task ends; its last note may be lost, and with it how the run ended
Ends(r, status, stored) ==
    /\ task' = [task EXCEPT ![r] = NoTask]
    /\ IF stored THEN SetStatus(r, status) /\ UNCHANGED trouble
       ELSE trouble < MaxTrouble /\ trouble' = trouble + 1 /\ UNCHANGED runDoc

Remaining(t) == DocumentCount - t.published
\* a bug: the last page is as large as the others
FullPage(t) == t.policy.page
Page(t) == Min({t.policy.page, Remaining(t)})

\* the pipeline is gone when its policy is to be read again
RefreshPolicy(r) ==
    /\ task[r].phase = "pace" /\ Remaining(task[r]) > 0
    /\ IF pipelines[task[r].pipeline].status # "deleted"
       THEN /\ task' = [task EXCEPT ![r].policy = pipelines[task[r].pipeline].policy]
            /\ UNCHANGED <<runDoc, trouble>>
       ELSE \E stored \in BOOLEAN : Ends(r, "failed", stored)
    /\ UNCHANGED <<pipelines, destination, broker>>

\* messages are built with the policy of the moment
BuildPage(r) ==
    /\ task[r].phase = "pace" /\ Remaining(task[r]) > 0
    /\ IF Fits(task[r].policy)
       THEN /\ task' = [task EXCEPT ![r].phase = "send", ![r].page = Page(task[r])]
            /\ UNCHANGED <<runDoc, trouble>>
       ELSE \E stored \in BOOLEAN : Ends(r, "failed", stored)
    /\ UNCHANGED <<pipelines, destination, broker>>

\* of the page under way
InBroker(r) == Len(broker[r]) - task[r].published
SendSome(r) ==
    /\ task[r].phase = "send"
    /\ \E k \in 1 .. (task[r].page - InBroker(r)) :
        broker' = [broker EXCEPT ![r] = @ \o [i \in 1 .. k |-> task[r].published + InBroker(r) + i]]
    /\ UNCHANGED <<pipelines, destination, runDoc, task, trouble>>

\* the page is counted when all of it is accepted, and noted at intervals and at
\* the end; a note that cannot be stored fails the run
Noted(t) == t.published + t.page = DocumentCount \/ t.published + t.page >= t.next
NextNote(t) == IF Noted(t) THEN Interval * ((t.published + t.page) \div Interval + 1) ELSE t.next
PageAccepted(r) ==
    LET t == task[r] IN
    /\ t.phase = "send" /\ InBroker(r) = t.page
    /\ \/ /\ task' = [task EXCEPT ![r].published = @ + t.page, ![r].page = 0, ![r].next = NextNote(t), ![r].phase = "pace"]
          /\ runDoc' = IF Noted(t) THEN [runDoc EXCEPT ![r].published = t.published + t.page] ELSE runDoc
          /\ UNCHANGED trouble
       \/ Noted(t) /\ trouble < MaxTrouble /\ trouble' = trouble + 1
          /\ task' = [task EXCEPT ![r] = NoTask] /\ SetStatus(r, "failed")
    /\ UNCHANGED <<pipelines, destination, broker>>

\* the broker refuses, or the connection to it cannot be closed; the last note
\* may be lost as well
PublishFails(r) ==
    /\ task[r].phase # "none" /\ trouble < MaxTrouble
    /\ trouble' = trouble + 1
    /\ task' = [task EXCEPT ![r] = NoTask]
    /\ SetStatus(r, "failed") \/ UNCHANGED runDoc
    /\ UNCHANGED <<pipelines, destination, broker>>

\* at any point where the task waits, the last one being the end of the
\* connection
Cancelled(r) ==
    /\ task[r].phase # "none" /\ task[r].cancel
    /\ \E stored \in BOOLEAN : Ends(r, "cancelled", stored)
    /\ UNCHANGED <<pipelines, destination, broker>>

\* storing the end fails: so it has failed
Completed(r) ==
    /\ task[r].phase = "pace" /\ Remaining(task[r]) = 0
    /\ task' = [task EXCEPT ![r] = NoTask]
    /\ \/ runDoc' = [runDoc EXCEPT ![r].status = "completed", ![r].published = DocumentCount] /\ UNCHANGED trouble
       \/ trouble < MaxTrouble /\ trouble' = trouble + 1 /\ SetStatus(r, "failed")
    /\ UNCHANGED <<pipelines, destination, broker>>

-----------------------------------------------------------------------------

\* the operators of pipelines; a paused pipeline does not stop a run
ChangeRunPipeline(p, status, policy) ==
    /\ trouble < MaxTrouble /\ pipelines[p].status # "deleted"
    /\ trouble' = trouble + 1
    /\ pipelines' = [pipelines EXCEPT ![p] = [status |-> status, policy |-> policy]]
    /\ UNCHANGED <<destination, runDoc, task, broker>>

RestartRunReplica(rep) ==
    /\ trouble < MaxTrouble /\ \E r \in Runs : task[r] # NoTask /\ task[r].at = rep
    /\ trouble' = trouble + 1
    /\ task' = [r \in Runs |-> IF task[r] # NoTask /\ task[r].at = rep THEN NoTask ELSE task[r]]
    /\ UNCHANGED <<pipelines, destination, runDoc, broker>>

RunsNext ==
    \/ \E r \in Runs :
        \/ (\E rep \in RunReplicas : Cancel(r, rep) \/ \E wanted \in RunPipelines \cup {"any"} : Generate(r, rep, wanted))
        \/ RefreshPolicy(r) \/ BuildPage(r) \/ SendSome(r) \/ PageAccepted(r) \/ PublishFails(r) \/ Cancelled(r) \/ Completed(r)
    \/ (\E p \in RunPipelines, s \in {"active", "paused", "deleted"}, q \in RunPolicies : ChangeRunPipeline(p, s, q))
    \/ (\E rep \in RunReplicas : RestartRunReplica(rep))

RunsSpec == RunsInit /\ [][RunsNext]_runVars

-----------------------------------------------------------------------------

\* Whatever policies change, fails, is cancelled or restarts in the middle of a
\* run: the broker has a prefix of its messages, each once and never more than
\* asked for; the document never claims more than the broker has, nor an end
\* while something still publishes, and says completed only of everything.
RunsTruthful ==
    \A r \in Runs : runDoc[r] # NoRun =>
        /\ broker[r] = [i \in 1 .. Len(broker[r]) |-> i] /\ Len(broker[r]) <= DocumentCount
        /\ runDoc[r].published <= Len(broker[r])
        /\ runDoc[r].status = "completed" => runDoc[r].published = DocumentCount
        /\ runDoc[r].status \in RunOver => task[r] = NoTask
        \* what is not noted is less than an interval and a page
        /\ task[r] # NoTask => task[r].published - runDoc[r].published < Interval
=============================================================================
