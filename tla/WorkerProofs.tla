---------------------------- MODULE WorkerProofs ----------------------------
(***************************************************************************)
(* Proofs about the worker: QueueEnvelope, for every envelope and every     *)
(* delivery count, FairScheduler, for every set of pipelines, every limit   *)
(* and every weight, cap and cost, and SharePointFence, for every set of    *)
(* calls and every bound.                                                   *)
(***************************************************************************)
EXTENDS QueueEnvelope, FairScheduler, SharePointFence,
        FiniteSetTheorems, SequenceTheorems, WellFoundedInduction, TLAPS

-----------------------------------------------------------------------------
(* Envelopes: what a delivery remembers of a document is true of it.        *)

\* The initial states satisfy the inductive invariant.
LEMMA EnvelopeBegins == EnvelopeInit => EnvelopeInv
  BY EnvelopeAssumption DEF EnvelopeInit, EnvelopeInv, EnvelopeTypeOK, CountBounded, WrittenFirst, DispositionTrue,
     NothingDropped, Delivery, Kind, Stage, Disposition

\* Actions of the broker keep the inductive invariant.
LEMMA BrokerKeeps ==
  ASSUME EnvelopeInv, Receive \/ LoseLock \/ \E d \in Doc : DeadLetterHandoff(d)
  PROVE  EnvelopeInv'
<1> USE EnvelopeAssumption DEF fixed
<1>1. CASE Receive
  <2>1. EnvelopeTypeOK'
    BY <1>1 DEF EnvelopeInv, EnvelopeTypeOK, CountBounded, Receive, Delivery
  <2>2. CountBounded' /\ WrittenFirst' /\ DispositionTrue' /\ NothingDropped'
    BY <1>1 DEF EnvelopeInv, EnvelopeTypeOK, CountBounded, WrittenFirst, DispositionTrue, NothingDropped,
       Safe, Receive, Delivery
  <2> QED BY <2>1, <2>2 DEF EnvelopeInv
<1>2. CASE LoseLock
  BY <1>2 DEF EnvelopeInv, EnvelopeTypeOK, CountBounded, WrittenFirst, DispositionTrue, NothingDropped,
     Safe, LoseLock, Returned, Delivery
<1>3. ASSUME NEW e \in Doc, DeadLetterHandoff(e) PROVE EnvelopeInv'
  <2>1. EnvelopeTypeOK' /\ CountBounded' /\ WrittenFirst'
    BY <1>3 DEF EnvelopeInv, EnvelopeTypeOK, CountBounded, WrittenFirst, DeadLetterHandoff
  <2>2. handoff' \union dlq' = handoff \union dlq
    BY <1>3 DEF DeadLetterHandoff
  <2>3. DispositionTrue'
    BY <1>3, <2>2 DEF EnvelopeInv, DispositionTrue, DeadLetterHandoff
  <2>4. NothingDropped'
    BY <1>3, <2>2 DEF EnvelopeInv, NothingDropped, Safe, DeadLetterHandoff
  <2> QED BY <2>1, <2>3, <2>4 DEF EnvelopeInv
<1> QED BY <1>1, <1>2, <1>3

\* Steps of a delivery that touch neither the parent nor a document's disposition.
LEMMA ProgressKeeps ==
  ASSUME EnvelopeInv, NEW n \in Delivery,
         \/ Checked(n) \/ WriteDocuments(n) \/ FailBatch(n)
         \/ \E d \in Doc : Check(n, d) \/ Reject(n, d) \/ AlreadySettled(n, d)
  PROVE  EnvelopeInv'
<1> USE EnvelopeAssumption DEF fixed
<1>1. CASE Checked(n)
  BY <1>1 DEF EnvelopeInv, EnvelopeTypeOK, CountBounded, WrittenFirst, DispositionTrue, NothingDropped,
     Safe, Checked, broker, Delivery
<1>2. ASSUME NEW B \in SUBSET Doc, NEW s \in Stage, AfterBatch(n, B, s),
             s = "complete" => B \subseteq applied', applied \subseteq applied', applied' \subseteq Doc,
             UNCHANGED <<fixed, broker, phase, disposition>>
      PROVE  EnvelopeInv'
  <2>1. EnvelopeTypeOK'
    BY <1>2 DEF EnvelopeInv, EnvelopeTypeOK, AfterBatch, broker
  <2>2. CountBounded' /\ DispositionTrue' /\ NothingDropped'
    BY <1>2 DEF EnvelopeInv, CountBounded, DispositionTrue, NothingDropped, Safe, broker
  <2>3. WrittenFirst'
    BY <1>2 DEF EnvelopeInv, EnvelopeTypeOK, WrittenFirst, AfterBatch
  <2> QED BY <2>1, <2>2, <2>3 DEF EnvelopeInv
<1>3. CASE WriteDocuments(n)
  <2>1. PICK B \in SUBSET Writable(n) : applied' = applied \union B /\ AfterBatch(n, B, "complete")
    BY <1>3 DEF WriteDocuments
  <2>2. B \in SUBSET Doc /\ applied' \subseteq Doc
    BY <2>1 DEF Writable, EnvelopeInv, EnvelopeTypeOK
  <2> QED BY <1>2, <1>3, <2>1, <2>2 DEF WriteDocuments, Stage
<1>4. CASE FailBatch(n)
  <2>1. PICK B \in SUBSET (Writable(n) \union Isolated(n)), s \in {"abandon", "deadLetter"} :
          /\ \E w \in SUBSET (B \intersect Writable(n)) : applied' = applied \union w
          /\ AfterBatch(n, B, s)
    BY <1>4 DEF FailBatch
  <2>2. B \in SUBSET Doc /\ applied \subseteq applied' /\ applied' \subseteq Doc
    BY <2>1 DEF Writable, Isolated, EnvelopeInv, EnvelopeTypeOK
  <2>3. s \in Stage /\ s # "complete"
    BY DEF Stage
  <2> QED BY <1>2, <1>4, <2>1, <2>2, <2>3 DEF FailBatch
<1>5. ASSUME NEW d \in Doc, Check(n, d) \/ Reject(n, d) \/ AlreadySettled(n, d) PROVE EnvelopeInv'
  <2>1. PICK s \in Stage : s # "complete" /\ At(n, d, s)
    BY <1>5 DEF Check, Reject, AlreadySettled, Stage
  <2>2. UNCHANGED <<fixed, broker, applied, phase, disposition>>
    BY <1>5 DEF Check, Reject, AlreadySettled
  <2>3. EnvelopeTypeOK' /\ WrittenFirst'
    BY <2>1, <2>2 DEF EnvelopeInv, EnvelopeTypeOK, WrittenFirst, At, broker
  <2>4. CountBounded' /\ DispositionTrue' /\ NothingDropped'
    BY <2>2 DEF EnvelopeInv, CountBounded, DispositionTrue, NothingDropped, Safe, broker
  <2> QED BY <2>3, <2>4 DEF EnvelopeInv
<1> QED BY <1>1, <1>3, <1>4, <1>5

\* Steps of a delivery that settle a document keep the inductive invariant.
LEMMA SettlingKeeps ==
  ASSUME EnvelopeInv, NEW n \in Delivery, NEW d \in Doc,
         \/ CompleteMessage(n, d) \/ AbandonMessage(n, d)
         \/ BeginHandoff(n, d) \/ ConfirmHandoff(n, d)
  PROVE  EnvelopeInv'
<1> USE EnvelopeAssumption DEF fixed
<1>1. CASE CompleteMessage(n, d)
  <2>1. EnvelopeTypeOK' /\ CountBounded' /\ WrittenFirst' /\ NothingDropped'
    BY <1>1 DEF EnvelopeInv, EnvelopeTypeOK, CountBounded, WrittenFirst, NothingDropped, Safe,
       CompleteMessage, At, Settled, Exchanged, Disposition, Stage, broker
  <2>2. DispositionTrue'
    BY <1>1 DEF EnvelopeInv, EnvelopeTypeOK, WrittenFirst, DispositionTrue,
       CompleteMessage, Settled, Exchanged, broker
  <2> QED BY <2>1, <2>2 DEF EnvelopeInv
<1>2. CASE AbandonMessage(n, d)
  <2>1. EnvelopeTypeOK' /\ CountBounded' /\ WrittenFirst' /\ NothingDropped'
    BY <1>2 DEF EnvelopeInv, EnvelopeTypeOK, CountBounded, WrittenFirst, NothingDropped, Safe,
       AbandonMessage, At, Settled, Exchanged, Disposition, Stage, broker
  <2>2. DispositionTrue'
    BY <1>2 DEF EnvelopeInv, EnvelopeTypeOK, DispositionTrue, AbandonMessage, Settled, Exchanged, broker
  <2> QED BY <2>1, <2>2 DEF EnvelopeInv
<1>3. CASE BeginHandoff(n, d)
  BY <1>3 DEF EnvelopeInv, EnvelopeTypeOK, CountBounded, WrittenFirst, DispositionTrue, NothingDropped,
     Safe, BeginHandoff, HandingOff, Disposition, broker
<1>4. CASE ConfirmHandoff(n, d)
  <2>1. EnvelopeTypeOK' /\ CountBounded' /\ WrittenFirst' /\ NothingDropped'
    BY <1>4 DEF EnvelopeInv, EnvelopeTypeOK, CountBounded, WrittenFirst, NothingDropped, Safe,
       ConfirmHandoff, At, Disposition, Stage
  <2>2. DispositionTrue'
    BY <1>4 DEF EnvelopeInv, EnvelopeTypeOK, DispositionTrue, ConfirmHandoff
  <2> QED BY <2>1, <2>2 DEF EnvelopeInv
<1> QED BY <1>1, <1>2, <1>3, <1>4

\* The ends of a delivery keep the inductive invariant: only a settlement of the
\* parent whose documents are all settled completes it.
LEMMA EndKeeps ==
  ASSUME EnvelopeInv, NEW n \in Delivery,
         SettleParent(n) \/ Stop(n) \/ \E d \in Doc : FailHandoff(n, d)
  PROVE  EnvelopeInv'
<1> USE EnvelopeAssumption DEF fixed
<1>1. parent = "locked" => Returned \in {"queued", "dead"} /\ (Returned = "queued" => count < MaxDelivery)
  BY DEF EnvelopeInv, EnvelopeTypeOK, CountBounded, Returned, Delivery
<1>2. CASE SettleParent(n)
  <2>1. EnvelopeTypeOK' /\ CountBounded' /\ WrittenFirst' /\ DispositionTrue'
    BY <1>1, <1>2 DEF EnvelopeInv, EnvelopeTypeOK, CountBounded, WrittenFirst, DispositionTrue,
       SettleParent, HoldsLock
  <2>2. NothingDropped'
    BY <1>1, <1>2 DEF EnvelopeInv, NothingDropped, DispositionTrue, Safe, SettleParent, AllSettled, HoldsLock
  <2> QED BY <2>1, <2>2 DEF EnvelopeInv
<1>3. CASE Stop(n)
  BY <1>1, <1>3 DEF EnvelopeInv, EnvelopeTypeOK, CountBounded, WrittenFirst, DispositionTrue, NothingDropped,
     Safe, Stop, LetGo, HoldsLock
<1>4. ASSUME NEW d \in Doc, FailHandoff(n, d) PROVE EnvelopeInv'
  <2>1. parent' = parent \/ (HoldsLock(n) /\ parent' = Returned)
    BY <1>4 DEF FailHandoff, LetGo
  <2>2. handoff \subseteq handoff' /\ handoff' \subseteq Doc /\ UNCHANGED <<fixed, count, applied, dlq>>
    BY <1>4 DEF FailHandoff, EnvelopeInv, EnvelopeTypeOK
  <2>3. EnvelopeTypeOK'
    BY <1>1, <1>4, <2>1, <2>2 DEF EnvelopeInv, EnvelopeTypeOK, FailHandoff, At, Disposition, Stage, HoldsLock
  <2>4. CountBounded' /\ NothingDropped'
    BY <1>1, <2>1, <2>2 DEF EnvelopeInv, CountBounded, NothingDropped, Safe, HoldsLock
  <2>5. WrittenFirst' /\ DispositionTrue'
    BY <1>4, <2>2 DEF EnvelopeInv, EnvelopeTypeOK, WrittenFirst, DispositionTrue, FailHandoff, At
  <2> QED BY <2>3, <2>4, <2>5 DEF EnvelopeInv
<1> QED BY <1>2, <1>3, <1>4

\* Every step keeps the inductive invariant.
LEMMA EnvelopeStep == EnvelopeInv /\ [EnvelopeNext]_envelopeVars => EnvelopeInv'
<1> SUFFICES ASSUME EnvelopeInv, [EnvelopeNext]_envelopeVars PROVE EnvelopeInv'
  OBVIOUS
<1>1. CASE UNCHANGED envelopeVars
  BY <1>1 DEF envelopeVars, broker, EnvelopeInv, EnvelopeTypeOK, CountBounded, WrittenFirst, DispositionTrue,
     NothingDropped, Safe, Delivery
<1>2. CASE Receive \/ LoseLock \/ \E d \in Doc : DeadLetterHandoff(d)
  BY <1>2, BrokerKeeps
<1>3. ASSUME NEW n \in Delivery, Work(n) PROVE EnvelopeInv'
  BY <1>3, ProgressKeeps, SettlingKeeps, EndKeeps DEF Work
<1>4. ASSUME NEW n \in Delivery, Trouble(n) PROVE EnvelopeInv'
  BY <1>4, ProgressKeeps, SettlingKeeps, EndKeeps DEF Trouble
<1> QED BY <1>1, <1>2, <1>3, <1>4 DEF EnvelopeNext, Terminated

\* The inductive invariant holds in every reachable state.
THEOREM EnvelopeInvariant == EnvelopeSpec => []EnvelopeInv
<1> QED BY EnvelopeBegins, EnvelopeStep, PTL DEF EnvelopeSpec

\* An envelope leaves the queue only when each of its documents was written or
\* durably handed off, however many deliveries overlap and whatever fails.
THEOREM EnvelopeNothingDropped == EnvelopeSpec => []NothingDropped
<1>1. EnvelopeInv => NothingDropped
  BY DEF EnvelopeInv
<1> QED BY <1>1, EnvelopeInvariant, PTL

\* Within a delivery the first settlement of a document is the last.
THEOREM EnvelopeSettledOnce == EnvelopeSpec => SettledOnce
<1>1. ASSUME EnvelopeTypeOK, [EnvelopeNext]_envelopeVars, NEW n \in Delivery, NEW d \in Doc,
             disposition[n][d] \notin {"none", "handingOff"}
      PROVE  disposition'[n][d] = disposition[n][d]
  <2>1. CASE UNCHANGED disposition
    BY <2>1
  <2>2. ASSUME NEW m \in Delivery, NEW e \in Doc,
               \/ CompleteMessage(m, e) \/ AbandonMessage(m, e) \/ BeginHandoff(m, e)
               \/ ConfirmHandoff(m, e) \/ FailHandoff(m, e)
        PROVE  disposition'[n][d] = disposition[n][d]
    <3> USE DEF EnvelopeTypeOK
    <3>1. CASE CompleteMessage(m, e)
      BY <1>1, <3>1 DEF CompleteMessage, Settled, Exchanged
    <3>2. CASE AbandonMessage(m, e)
      BY <1>1, <3>2 DEF AbandonMessage, Settled, Exchanged
    <3>3. CASE BeginHandoff(m, e)
      BY <1>1, <3>3 DEF BeginHandoff
    <3>4. CASE ConfirmHandoff(m, e)
      BY <1>1, <3>4 DEF ConfirmHandoff
    <3>5. CASE FailHandoff(m, e)
      BY <1>1, <3>5 DEF FailHandoff
    <3> QED BY <2>2, <3>1, <3>2, <3>3, <3>4, <3>5
  <2>3. ASSUME NEW m \in Delivery, Work(m) \/ Trouble(m)
        PROVE  disposition'[n][d] = disposition[n][d]
    <3>1. CASE Checked(m) \/ WriteDocuments(m) \/ FailBatch(m) \/ SettleParent(m) \/ Stop(m)
      BY <2>1, <3>1 DEF Checked, WriteDocuments, FailBatch, SettleParent, Stop
    <3>2. ASSUME NEW e \in Doc, Check(m, e) \/ Reject(m, e) \/ AlreadySettled(m, e)
          PROVE  disposition'[n][d] = disposition[n][d]
      BY <2>1, <3>2 DEF Check, Reject, AlreadySettled
    <3> QED BY <2>2, <2>3, <3>1, <3>2 DEF Work, Trouble
  <2>4. CASE Receive \/ LoseLock \/ Terminated \/ UNCHANGED envelopeVars \/ \E e \in Doc : DeadLetterHandoff(e)
    BY <2>1, <2>4 DEF Receive, LoseLock, Terminated, envelopeVars, DeadLetterHandoff
  <2> QED BY <1>1, <2>3, <2>4 DEF EnvelopeNext
<1>2. EnvelopeInv => EnvelopeTypeOK
  BY DEF EnvelopeInv
<1>3. EnvelopeTypeOK /\ [EnvelopeNext]_envelopeVars =>
        [\A n \in Delivery, d \in Doc :
            disposition[n][d] \notin {"none", "handingOff"} =>
                disposition'[n][d] = disposition[n][d]]_envelopeVars
  BY <1>1
<1> QED BY <1>2, <1>3, EnvelopeInvariant, PTL DEF EnvelopeSpec, SettledOnce

\* What becomes of a document when nothing else fails: a good one is written and
\* completed, any other handed off, and what a delivery has left of it says so.
GoodCourse(n, d) ==
    /\ stage[n][d] \in {"check", "write", "complete", "done"}
    /\ stage[n][d] = "done" => disposition[n][d] = "completed" /\ d \in applied
    /\ stage[n][d] # "done" => disposition[n][d] = "none"

BadCourse(n, d) ==
    /\ stage[n][d] \in {"check", "write", "deadLetter", "done"}
    /\ stage[n][d] = "done" => disposition[n][d] = "deadLettered" /\ d \in handoff \union dlq
    /\ stage[n][d] # "done" => disposition[n][d] \in {"none", "handingOff"}
    /\ disposition[n][d] = "handingOff" => stage[n][d] = "deadLetter"

\* Then there is one delivery, nothing but good documents is written, and nothing
\* but the others leaves for the dead-letter queue.
OneDelivery ==
    /\ count \in {0, 1}
    /\ parent \in {"queued", "locked", "completed"}
    /\ parent = "queued" => count = 0
    /\ \A n \in Delivery : phase[n] # "none" => n = 1 /\ count = 1
    /\ parent = "completed" => \A n \in Delivery : ~Running(n)

IsolationInv ==
    healthy =>
        /\ OneDelivery
        /\ applied \subseteq Good
        /\ handoff \union dlq \subseteq Doc \ Good
        /\ \A n \in Delivery, d \in Good : GoodCourse(n, d)
        /\ \A n \in Delivery, d \in Doc \ Good : BadCourse(n, d)
        /\ parent = "completed" => applied = Good /\ handoff \union dlq = Doc \ Good

LEMMA IsolationInit == EnvelopeInit => IsolationInv
  BY EnvelopeAssumption DEF EnvelopeInit, IsolationInv, OneDelivery, Running, Good, GoodCourse, BadCourse, Delivery

\* The broker: it delivers the parent once, and moves handoffs only.
LEMMA IsolationBroker ==
  ASSUME EnvelopeTypeOK, IsolationInv, healthy, Receive \/ \E d \in Doc : DeadLetterHandoff(d)
  PROVE  IsolationInv'
<1> USE EnvelopeAssumption DEF fixed
<1>1. CASE Receive
  <2>1. 1 \in Delivery /\ count = 0 /\ count' = 1 /\ parent' = "locked" /\ phase' = [phase EXCEPT ![1] = "checking"]
    BY <1>1 DEF IsolationInv, OneDelivery, Receive, Delivery
  <2>2. UNCHANGED <<fixed, applied, handoff, dlq, stage, disposition>>
    BY <1>1 DEF Receive
  <2>3. OneDelivery'
    BY <2>1 DEF EnvelopeTypeOK, IsolationInv, OneDelivery, Running
  <2> QED BY <2>1, <2>2, <2>3 DEF IsolationInv, Good, GoodCourse, BadCourse
<1>2. ASSUME NEW e \in Doc, DeadLetterHandoff(e) PROVE IsolationInv'
  <2>1. handoff' \union dlq' = handoff \union dlq
    BY <1>2 DEF DeadLetterHandoff
  <2>2. UNCHANGED <<fixed, parent, count, applied, phase, stage, disposition>>
    BY <1>2 DEF DeadLetterHandoff
  <2> QED BY <2>1, <2>2 DEF IsolationInv, OneDelivery, Running, Good, GoodCourse, BadCourse
<1> QED BY <1>1, <1>2

\* The delivery moves each document along its course and, when all are done,
\* completes the parent.
LEMMA IsolationWork ==
  ASSUME EnvelopeTypeOK, WrittenFirst, IsolationInv, healthy, NEW n \in Delivery, Work(n)
  PROVE  IsolationInv'
<1> USE DEF fixed, broker
<1>1. /\ Good \subseteq Doc
      /\ applied \subseteq Good /\ handoff \union dlq \subseteq Doc \ Good
      /\ \A m \in Delivery, d \in Good : GoodCourse(m, d)
      /\ \A m \in Delivery, d \in Doc \ Good : BadCourse(m, d)
  BY DEF IsolationInv, Good
<1>2. CASE Checked(n)
  BY <1>2 DEF Checked, EnvelopeTypeOK, IsolationInv, OneDelivery, Running, Good, GoodCourse, BadCourse
<1>3. CASE SettleParent(n)
  <2>1. \A d \in Good : disposition[n][d] = "completed" /\ d \in applied
    BY <1>1, <1>3 DEF SettleParent, GoodCourse
  <2>2. \A d \in Doc \ Good : disposition[n][d] = "deadLettered" /\ d \in handoff \union dlq
    BY <1>1, <1>3 DEF SettleParent, BadCourse
  <2>3. AllSettled(n)
    BY <2>1, <2>2 DEF AllSettled
  <2>4. applied = Good /\ handoff \union dlq = Doc \ Good
    BY <1>1, <2>1, <2>2
  <2>5. OneDelivery'
    <3>1. n = 1 /\ count = 1 /\ count' = 1 /\ phase' = [phase EXCEPT ![n] = "over"] /\ parent' \in {parent, "completed"}
      BY <1>3, <2>3 DEF SettleParent, IsolationInv, OneDelivery
    <3>2. parent \in {"locked", "completed"}
      BY <3>1 DEF IsolationInv, OneDelivery
    <3>3. \A m \in Delivery : phase'[m] # "none" => m = 1
      BY <3>1 DEF EnvelopeTypeOK, IsolationInv, OneDelivery
    <3>4. \A m \in Delivery : phase'[m] \notin {"checking", "processing"}
      BY <3>1 DEF EnvelopeTypeOK, IsolationInv, OneDelivery
    <3> QED BY <3>1, <3>2, <3>3, <3>4 DEF OneDelivery, Running
  <2> QED BY <1>1, <1>3, <2>4, <2>5 DEF SettleParent, IsolationInv, Good, GoodCourse, BadCourse
<1>4. ASSUME Running(n), UNCHANGED <<fixed, parent, count, phase>>,
             applied' \subseteq Good, applied \subseteq applied', handoff' \union dlq' \subseteq Doc \ Good,
             \A m \in Delivery, d \in Good : GoodCourse(m, d)',
             \A m \in Delivery, d \in Doc \ Good : BadCourse(m, d)'
      PROVE  IsolationInv'
  BY <1>4 DEF IsolationInv, OneDelivery, Running, Good
<1>5. CASE WriteDocuments(n)
  <2>1. PICK B \in SUBSET Writable(n) : applied' = applied \union B /\ AfterBatch(n, B, "complete")
    BY <1>5 DEF WriteDocuments
  <2>2. B \subseteq Good /\ \A d \in B : stage[n][d] = "write"
    BY DEF Writable, Good
  <2>3. \A m \in Delivery, d \in Doc :
          stage'[m][d] = IF m = n /\ d \in B THEN "complete" ELSE stage[m][d]
    BY <2>1 DEF AfterBatch, EnvelopeTypeOK
  <2>4. Running(n) /\ UNCHANGED <<fixed, broker, phase, disposition>>
    BY <1>5 DEF WriteDocuments, Running
  <2>5. ASSUME NEW m \in Delivery, NEW d \in Good PROVE GoodCourse(m, d)'
    <3>1. stage'[m][d] = IF m = n /\ d \in B THEN "complete" ELSE stage[m][d]
      BY <1>1, <2>3
    <3> QED BY <1>1, <2>1, <2>2, <2>4, <3>1 DEF GoodCourse
  <2>6. ASSUME NEW m \in Delivery, NEW d \in Doc \ Good PROVE BadCourse(m, d)'
    BY <1>1, <2>2, <2>3, <2>4 DEF BadCourse
  <2> QED BY <1>1, <1>4, <2>1, <2>2, <2>4, <2>5, <2>6
<1>6. ASSUME NEW d \in Doc,
             \/ Check(n, d) \/ Reject(n, d) \/ CompleteMessage(n, d)
             \/ BeginHandoff(n, d) \/ ConfirmHandoff(n, d)
      PROVE  IsolationInv'
  <2>1. Running(n) /\ UNCHANGED <<fixed, parent, count, applied, dlq, phase>>
    BY <1>6 DEF Check, Reject, CompleteMessage, BeginHandoff, ConfirmHandoff, Running
  <2>2. \A m \in Delivery, e \in Doc :
          <<m, e>> # <<n, d>> => stage'[m][e] = stage[m][e] /\ disposition'[m][e] = disposition[m][e]
    <3>1. \E s \in Stage : stage' = [stage EXCEPT ![n][d] = s]
      <4>1. CASE BeginHandoff(n, d)
        <5>1. stage' = [stage EXCEPT ![n][d] = stage[n][d]] /\ stage[n][d] \in Stage
          BY <4>1 DEF EnvelopeTypeOK, BeginHandoff
        <5> QED BY <5>1
      <4>2. CASE ~BeginHandoff(n, d)
        <5>1. \E s \in Stage : At(n, d, s)
          BY <1>6, <4>2 DEF Check, Reject, CompleteMessage, ConfirmHandoff, Stage
        <5> QED BY <5>1 DEF At
      <4> QED BY <4>1, <4>2
    <3>2. \E s \in Disposition : disposition' = [disposition EXCEPT ![n][d] = s]
      <4>1. disposition[n][d] \in Disposition
        BY DEF EnvelopeTypeOK
      <4>2. CASE CompleteMessage(n, d)
        BY <4>1, <4>2 DEF CompleteMessage, Settled, Exchanged, Disposition
      <4>3. CASE BeginHandoff(n, d) \/ ConfirmHandoff(n, d)
        BY <4>3 DEF BeginHandoff, ConfirmHandoff, HandingOff, Disposition
      <4>4. CASE Check(n, d) \/ Reject(n, d)
        <5>1. disposition' = [disposition EXCEPT ![n][d] = disposition[n][d]]
          BY <4>4 DEF EnvelopeTypeOK, Check, Reject
        <5> QED BY <4>1, <5>1
      <4> QED BY <1>6, <4>2, <4>3, <4>4
    <3> QED BY <3>1, <3>2 DEF EnvelopeTypeOK
  <2>3. handoff \union dlq \subseteq handoff' \union dlq' /\ (handoff' # handoff => d \notin Good /\ handoff' = handoff \union {d})
    BY <1>1, <1>6 DEF Check, Reject, CompleteMessage, BeginHandoff, ConfirmHandoff, GoodCourse
  <2>4. d \in Good => GoodCourse(n, d)'
    <3> SUFFICES ASSUME d \in Good PROVE GoodCourse(n, d)'
      OBVIOUS
    <3>1. CASE Check(n, d) \/ Reject(n, d)
      BY <1>1, <3>1 DEF EnvelopeTypeOK, Check, Reject, At, Good, GoodCourse
    <3>2. CASE CompleteMessage(n, d)
      BY <1>1, <3>2 DEF EnvelopeTypeOK, WrittenFirst, CompleteMessage, At, Settled, Exchanged, GoodCourse
    <3>3. CASE BeginHandoff(n, d) \/ ConfirmHandoff(n, d)
      BY <1>1, <3>3 DEF BeginHandoff, ConfirmHandoff, GoodCourse
    <3> QED BY <1>6, <3>1, <3>2, <3>3
  <2>5. d \notin Good => BadCourse(n, d)'
    <3> SUFFICES ASSUME d \notin Good PROVE BadCourse(n, d)'
      OBVIOUS
    <3>1. CASE Check(n, d) \/ Reject(n, d)
      <4>1. BadCourse(n, d) /\ stage[n][d] \in {"check", "write"} /\ UNCHANGED <<handoff, dlq, disposition>>
        BY <1>1, <3>1 DEF Check, Reject
      <4>2. stage'[n][d] \in {"deadLetter", "write"}
        <5>1. PICK s \in {"deadLetter", "write"} : At(n, d, s)
          BY <3>1 DEF Check, Reject
        <5> QED BY <5>1 DEF EnvelopeTypeOK, At
      <4> QED BY <4>1, <4>2 DEF BadCourse
    <3>2. CASE CompleteMessage(n, d)
      BY <1>1, <3>2 DEF CompleteMessage, BadCourse
    <3>3. CASE BeginHandoff(n, d)
      BY <1>1, <3>3 DEF EnvelopeTypeOK, BeginHandoff, HandingOff, BadCourse
    <3>4. CASE ConfirmHandoff(n, d)
      BY <1>1, <3>4 DEF EnvelopeTypeOK, ConfirmHandoff, At, BadCourse
    <3> QED BY <1>6, <3>1, <3>2, <3>3, <3>4
  <2>6. ASSUME NEW m \in Delivery, NEW e \in Good PROVE GoodCourse(m, e)'
    <3>1. CASE <<m, e>> = <<n, d>>
      BY <2>4, <3>1
    <3>2. CASE <<m, e>> # <<n, d>>
      BY <1>1, <2>1, <2>2, <3>2 DEF GoodCourse
    <3> QED BY <3>1, <3>2
  <2>7. ASSUME NEW m \in Delivery, NEW e \in Doc \ Good PROVE BadCourse(m, e)'
    <3>1. CASE <<m, e>> = <<n, d>>
      BY <2>5, <3>1
    <3>2. CASE <<m, e>> # <<n, d>>
      BY <1>1, <2>2, <2>3, <3>2 DEF BadCourse
    <3> QED BY <3>1, <3>2
  <2> QED BY <1>1, <1>4, <2>1, <2>3, <2>6, <2>7
<1> QED BY <1>2, <1>3, <1>5, <1>6 DEF Work

\* Every step keeps the courses: what may go wrong does not while nothing fails.
LEMMA IsolationStep == EnvelopeInv /\ IsolationInv /\ [EnvelopeNext]_envelopeVars => IsolationInv'
<1> SUFFICES ASSUME EnvelopeInv, IsolationInv, [EnvelopeNext]_envelopeVars PROVE IsolationInv'
  OBVIOUS
<1>1. EnvelopeTypeOK /\ WrittenFirst
  BY DEF EnvelopeInv
<1>2. CASE UNCHANGED envelopeVars
  BY <1>2 DEF envelopeVars, IsolationInv, OneDelivery, Running, Good, GoodCourse, BadCourse
<1>3. CASE ~healthy
  <2>1. ~healthy'
    BY <1>2, <1>3 DEF EnvelopeNext, Receive, LoseLock, Terminated, DeadLetterHandoff, Work, Trouble, Checked,
       WriteDocuments, SettleParent, Check, Reject, CompleteMessage, BeginHandoff, ConfirmHandoff, FailBatch,
       Stop, AbandonMessage, AlreadySettled, FailHandoff, fixed, envelopeVars
  <2> QED BY <2>1 DEF IsolationInv
<1>4. CASE healthy /\ EnvelopeNext
  BY <1>1, <1>2, <1>4, IsolationBroker, IsolationWork DEF EnvelopeNext, LoseLock, Trouble, Terminated
<1> QED BY <1>2, <1>3, <1>4

\* Documents that cannot be processed do not hold up the others: when nothing
\* else fails, the first delivery completes the parent with every good document
\* written and exactly the others handed off, for envelopes of any size.
THEOREM EnvelopeBadDocumentsIsolated == EnvelopeSpec => []BadDocumentsIsolated
<1>1. IsolationInv => BadDocumentsIsolated
  BY DEF IsolationInv, OneDelivery, BadDocumentsIsolated
<1> QED BY <1>1, IsolationInit, IsolationStep, EnvelopeInvariant, PTL DEF EnvelopeSpec

-----------------------------------------------------------------------------
(* The scheduler: the counters are the permits in use, and nobody who may   *)
(* have a permit waits for one that idles.                                  *)

\* A nonempty set of natural numbers has a least element.
LEMMA LeastNatural ==
  ASSUME NEW T \in SUBSET Nat, T # {}
  PROVE  \E n \in T : \A k \in T : n <= k
<1> DEFINE R == {ss \in Nat \X Nat : ss[1] < ss[2]}
<1>1. IsWellFoundedOn(R, Nat)
  BY NatLessThanWellFounded DEF OpToRel
<1>2. PICK n \in T : \A k \in T : <<k, n>> \notin R
  BY <1>1, WFMin, Zenon
<1>3. ASSUME NEW k \in T PROVE n <= k
  <2>1. <<k, n>> \in Nat \X Nat
    OBVIOUS
  <2>2. ~(<<k, n>>[1] < <<k, n>>[2])
    BY <1>2, <2>1, Zenon
  <2> QED BY <2>2
<1> QED BY <1>3

\* What a dispatch leaves of a queue: nothing that still waits is dropped, nothing
\* is added, and in front stands a request that still waits.
LEMMA PurgedProperties ==
  ASSUME NEW s \in Seq(Request)
  PROVE  /\ Purged(s) \in Seq(Request)
         /\ \A i \in 1 .. Len(Purged(s)) : \E j \in 1 .. Len(s) : Purged(s)[i] = s[j]
         /\ \A j \in 1 .. Len(s) : status[s[j]] = "waiting" =>
                \E i \in 1 .. Len(Purged(s)) : Purged(s)[i] = s[j]
         /\ Purged(s) # <<>> => status[Head(Purged(s))] = "waiting"
<1>1. CASE \A i \in 1 .. Len(s) : Over(s, i)
  BY <1>1, EmptySeq DEF Purged, Over
<1>2. CASE \E i \in 1 .. Len(s) : ~Over(s, i)
  <2> DEFINE F == {i \in 1 .. Len(s) : ~Over(s, i)}
             Front(i) == i \in 1 .. Len(s) /\ ~Over(s, i) /\ \A j \in 1 .. i - 1 : Over(s, j)
  <2>1. PICK n \in F : \A k \in F : n <= k
    <3>1. F \in SUBSET Nat /\ F # {}
      BY <1>2
    <3> QED BY <3>1, LeastNatural
  <2>2. Front(n)
    BY <2>1, LenProperties
  <2> DEFINE first == CHOOSE i \in 1 .. Len(s) : ~Over(s, i) /\ \A j \in 1 .. i - 1 : Over(s, j)
  <2>3. Front(first)
    BY <2>2
  <2>4. Purged(s) = SubSeq(s, first, Len(s))
    BY <1>2 DEF Purged
  <2> HIDE DEF first
  <2>5. Len(s) \in Nat /\ first \in 1 .. Len(s) /\ first \in Int
    BY <2>3, LenProperties
  <2>6. /\ Purged(s) \in Seq(Request)
        /\ Len(Purged(s)) = Len(s) - first + 1
        /\ \A i \in 1 .. Len(s) - first + 1 : Purged(s)[i] = s[first + i - 1]
    <3>1. \A i \in first .. Len(s) : s[i] \in Request
      BY <2>5, ElementOfSeq
    <3> QED BY <2>4, <2>5, <3>1, SubSeqProperties
  <2>7. \A j \in 1 .. Len(s) : status[s[j]] = "waiting" => j >= first
    BY <2>3, <2>5 DEF Over
  <2>8. ASSUME NEW j \in 1 .. Len(s), status[s[j]] = "waiting"
        PROVE  \E i \in 1 .. Len(Purged(s)) : Purged(s)[i] = s[j]
    <3>1. PICK i \in 1 .. Len(s) - first + 1 : first + i - 1 = j
      <4>1. j - first + 1 \in 1 .. Len(s) - first + 1 /\ first + (j - first + 1) - 1 = j
        BY <2>5, <2>7, <2>8
      <4> QED BY <4>1
    <3>2. Purged(s)[i] = s[j] /\ i \in 1 .. Len(Purged(s))
      BY <2>6, <3>1
    <3> QED BY <3>2
  <2>9. \A i \in 1 .. Len(Purged(s)) : \E j \in 1 .. Len(s) : Purged(s)[i] = s[j]
    <3>1. \A i \in 1 .. Len(s) - first + 1 : first + i - 1 \in 1 .. Len(s)
      BY <2>5
    <3> QED BY <2>6, <3>1
  <2>10. status[Head(Purged(s))] = "waiting"
    <3>1. Len(s) \in first .. Len(s)
      BY <2>5
    <3>2. Head(Purged(s)) = s[first]
      BY <2>4, <2>5, <3>1, HeadTailOfSubSeq
    <3> QED BY <2>3, <3>2 DEF Over
  <2> QED BY <2>6, <2>8, <2>9, <2>10
<1> QED BY <1>1, <1>2

\* A request that is granted is charged a natural number.
LEMMA ChargeNatural ==
  ASSUME NEW r \in Request, cost \in [Request -> Nat], policy \in [Pipeline -> [weight : Nat \ {0}, cap : Nat \ {0}]]
  PROVE  Charge(r) \in Nat
<1>1. Of(r) \in Pipeline
  BY SchedulerAssumption DEF Of
<1>2. cost[r] \in Nat /\ policy[Of(r)].weight \in Nat \ {0} /\ Unit \in Nat
  BY <1>1, SchedulerAssumption
<1>3. cost[r] * Unit \in Nat
  BY <1>2
<1>4. \A a \in Nat, b \in Nat \ {0} : a \div b \in Nat
  OBVIOUS
<1> QED BY <1>2, <1>3, <1>4 DEF Charge

\* Runtimes told apart up to MaxLag stay within it.
LEMMA RelativeType ==
  ASSUME NEW f \in [Pipeline -> Nat]
  PROVE  Relative(f) \in [Pipeline -> 0 .. MaxLag]
<1>1. CASE Pipeline = {}
  BY <1>1 DEF Relative
<1>2. CASE Pipeline # {}
  <2> DEFINE T == {f[p] : p \in Pipeline}
             least == CHOOSE n \in T : \A p \in Pipeline : n <= f[p]
  <2>1. \E n \in T : \A k \in T : n <= k
    <3>1. T \in SUBSET Nat /\ T # {}
      BY <1>2
    <3> QED BY <3>1, LeastNatural
  <2>2. least \in T /\ \A p \in Pipeline : least <= f[p]
    BY <2>1
  <2>3. \A p \in Pipeline : f[p] - least \in Nat
    BY <2>2
  <2> HIDE DEF least
  <2>4. MaxLag \in Nat
    BY SchedulerAssumption
  <2> QED BY <2>3, <2>4 DEF Relative, least
<1> QED BY <1>1, <1>2

-----------------------------------------------------------------------------
\* The requests are finitely many, and so are those that hold a permit.
LEMMA GrantedFinite ==
  /\ IsFiniteSet(Granted)
  /\ \A p \in Pipeline : IsFiniteSet(GrantedTo(p))
<1>1. IsFiniteSet(Request)
  BY SchedulerAssumption
<1>2. Granted \in SUBSET Request /\ \A p \in Pipeline : GrantedTo(p) \in SUBSET Request
  BY DEF Granted, GrantedTo
<1> QED BY <1>1, <1>2, FS_Subset

\* The initial states satisfy the inductive invariant.
LEMMA SchedulerStarts == SchedulerInit => SchedulerInv
<1> SUFFICES ASSUME SchedulerInit PROVE SchedulerInv
  OBVIOUS
<1>1. SchedulerTypeOK
  <2>1. queue \in [Pipeline -> Seq(Request)]
    BY EmptySeq DEF SchedulerInit
  <2>2. policy \in [Pipeline -> [weight : Nat \ {0}, cap : Nat \ {0}]]
    BY DEF SchedulerInit
  <2>3. /\ status \in [Request -> {"none", "waiting", "granted", "cancelled"}]
        /\ cost \in [Request -> Nat]
        /\ running \in [Pipeline -> Nat] /\ active \in Nat /\ dispatching \in BOOLEAN
    BY DEF SchedulerInit
  <2>4. runtime \in [Pipeline -> 0 .. MaxLag]
    BY SchedulerAssumption DEF SchedulerInit
  <2> QED BY <2>1, <2>2, <2>3, <2>4 DEF SchedulerTypeOK
<1>2. Queued
  BY DEF SchedulerInit, Queued
<1>3. PermitsConserved
  <2>1. Granted = {} /\ \A p \in Pipeline : GrantedTo(p) = {}
    BY DEF SchedulerInit, Granted, GrantedTo
  <2> QED BY <2>1, FS_EmptySet DEF SchedulerInit, PermitsConserved
<1>4. active <= GlobalLimit /\ NoIdlePermit
  BY SchedulerAssumption DEF SchedulerInit, NoIdlePermit
<1> QED BY <1>1, <1>2, <1>3, <1>4 DEF SchedulerInv

\* Asking keeps the inductive invariant: the new request goes to the end of its
\* pipeline's queue.
LEMMA AcquireKeeps ==
  ASSUME SchedulerInv, NEW r \in Request, Acquire(r)
  PROVE  SchedulerInv'
<1>1. Of(r) \in Pipeline /\ \A q \in Request : Of(q) \in Pipeline
  BY SchedulerAssumption DEF Of
<1>2. /\ queue[Of(r)] \in Seq(Request)
      /\ Append(queue[Of(r)], r) \in Seq(Request)
      /\ Len(Append(queue[Of(r)], r)) = Len(queue[Of(r)]) + 1
      /\ \A i \in 1 .. Len(queue[Of(r)]) : Append(queue[Of(r)], r)[i] = queue[Of(r)][i]
      /\ Append(queue[Of(r)], r)[Len(queue[Of(r)]) + 1] = r
      /\ Len(queue[Of(r)]) \in Nat
  BY <1>1, AppendProperties, LenProperties DEF SchedulerInv, SchedulerTypeOK
<1>3. SchedulerTypeOK'
  <2>1. Weights \subseteq Nat \ {0} /\ Caps \subseteq Nat \ {0} /\ Costs \subseteq Nat \ {0}
    BY SchedulerAssumption
  <2> QED BY <1>1, <1>2, <2>1 DEF SchedulerInv, SchedulerTypeOK, Acquire
<1>4. Queued'
  <2>1. ASSUME NEW p \in Pipeline, NEW i \in 1 .. Len(queue'[p]) PROVE Of(queue'[p][i]) = p
    <3>1. CASE p # Of(r)
      BY <3>1, <1>1 DEF SchedulerInv, SchedulerTypeOK, Queued, Acquire
    <3>2. CASE p = Of(r) /\ i \in 1 .. Len(queue[p])
      BY <3>2, <1>1, <1>2 DEF SchedulerInv, SchedulerTypeOK, Queued, Acquire
    <3>3. CASE p = Of(r) /\ i = Len(queue[p]) + 1
      BY <3>3, <1>1, <1>2 DEF SchedulerInv, SchedulerTypeOK, Acquire
    <3>4. p = Of(r) => i \in 1 .. Len(queue[p]) \/ i = Len(queue[p]) + 1
      BY <1>1, <1>2 DEF SchedulerInv, SchedulerTypeOK, Acquire
    <3> QED BY <3>1, <3>2, <3>3, <3>4
  <2>2. ASSUME NEW q \in Request, status'[q] = "waiting" PROVE InQueue(q)'
    <3>1. CASE q = r
      <4>1. queue'[Of(r)] = Append(queue[Of(r)], r)
        BY <1>1 DEF SchedulerInv, SchedulerTypeOK, Acquire
      <4>2. /\ Len(queue[Of(r)]) + 1 \in 1 .. Len(queue'[Of(r)])
            /\ queue'[Of(r)][Len(queue[Of(r)]) + 1] = r
        BY <4>1, <1>2
      <4> QED BY <3>1, <4>2 DEF InQueue
    <3>2. CASE q # r
      <4>1. InQueue(q)
        BY <2>2, <3>2 DEF SchedulerInv, SchedulerTypeOK, Queued, Acquire
      <4>2. PICK i \in 1 .. Len(queue[Of(q)]) : queue[Of(q)][i] = q
        BY <4>1 DEF InQueue
      <4>3. i \in 1 .. Len(queue'[Of(q)]) /\ queue'[Of(q)][i] = q
        <5>1. CASE Of(q) = Of(r)
          BY <5>1, <4>2, <1>1, <1>2 DEF SchedulerInv, SchedulerTypeOK, Acquire
        <5>2. CASE Of(q) # Of(r)
          BY <5>2, <4>2, <1>1 DEF SchedulerInv, SchedulerTypeOK, Acquire
        <5> QED BY <5>1, <5>2
      <4> QED BY <4>3 DEF InQueue
    <3> QED BY <3>1, <3>2
  <2> QED BY <2>1, <2>2 DEF Queued
<1>5. PermitsConserved'
  <2>1. Granted' = Granted /\ \A p \in Pipeline : GrantedTo(p)' = GrantedTo(p)
    BY DEF SchedulerInv, SchedulerTypeOK, Acquire, Granted, GrantedTo
  <2> QED BY <2>1 DEF SchedulerInv, PermitsConserved, Acquire
<1>6. active' <= GlobalLimit /\ NoIdlePermit'
  BY DEF SchedulerInv, NoIdlePermit, Acquire
<1> QED BY <1>3, <1>4, <1>5, <1>6 DEF SchedulerInv

\* Cancelling keeps the inductive invariant.
LEMMA CancelKeeps ==
  ASSUME SchedulerInv, NEW r \in Request, Cancel(r)
  PROVE  SchedulerInv'
<1>1. SchedulerTypeOK' /\ Queued' /\ active' <= GlobalLimit /\ NoIdlePermit'
  BY DEF SchedulerInv, SchedulerTypeOK, Queued, InQueue, NoIdlePermit, Cancel
<1>2. PermitsConserved'
  <2>1. Granted' = Granted /\ \A p \in Pipeline : GrantedTo(p)' = GrantedTo(p)
    BY DEF SchedulerInv, SchedulerTypeOK, Cancel, Granted, GrantedTo
  <2> QED BY <2>1 DEF SchedulerInv, PermitsConserved, Cancel
<1> QED BY <1>1, <1>2 DEF SchedulerInv

\* Giving a permit back keeps the inductive invariant: the counters, which the
\* permits in use account for, cannot be zero.
LEMMA ReleaseKeeps ==
  ASSUME SchedulerInv, NEW r \in Request, Release(r)
  PROVE  SchedulerInv'
<1>1. Of(r) \in Pipeline /\ \A q \in Request : Of(q) \in Pipeline
  BY SchedulerAssumption DEF Of
<1>2. dispatching' = TRUE
  BY DEF Release, Redispatch
<1>3. /\ Granted' = Granted \ {r} /\ r \in Granted
      /\ \A p \in Pipeline : GrantedTo(p)' = IF p = Of(r) THEN GrantedTo(p) \ {r} ELSE GrantedTo(p)
      /\ r \in GrantedTo(Of(r))
  BY <1>1 DEF SchedulerInv, SchedulerTypeOK, Release, Granted, GrantedTo
<1>4. /\ Cardinality(Granted') = Cardinality(Granted) - 1
      /\ Cardinality(GrantedTo(Of(r))') = Cardinality(GrantedTo(Of(r))) - 1
      /\ Cardinality(Granted') \in Nat
      /\ Cardinality(GrantedTo(Of(r))') \in Nat
  BY <1>1, <1>3, GrantedFinite, FS_RemoveElement, FS_CardinalityType
<1>5. active' = active - 1 /\ running' = [running EXCEPT ![Of(r)] = @ - 1]
  <2>1. active > 0 /\ running[Of(r)] > 0
    BY <1>1, <1>4 DEF SchedulerInv, SchedulerTypeOK, PermitsConserved
  <2>2. Monus(active) = active - 1 /\ Monus(running[Of(r)]) = running[Of(r)] - 1
    BY <2>1 DEF Monus
  <2> QED BY <2>2 DEF Release
<1>6. PermitsConserved'
  BY <1>1, <1>3, <1>4, <1>5 DEF SchedulerInv, SchedulerTypeOK, PermitsConserved
<1>7. SchedulerTypeOK'
  <2>1. active' \in Nat /\ running' \in [Pipeline -> Nat]
    BY <1>1, <1>4, <1>5 DEF SchedulerInv, SchedulerTypeOK, PermitsConserved
  <2>2. status' \in [Request -> {"none", "waiting", "granted", "cancelled"}]
    BY DEF SchedulerInv, SchedulerTypeOK, Release
  <2> QED BY <1>2, <2>1, <2>2 DEF SchedulerInv, SchedulerTypeOK, Release
<1>8. Queued'
  BY DEF SchedulerInv, SchedulerTypeOK, Queued, InQueue, Release
<1>9. active' <= GlobalLimit /\ NoIdlePermit'
  BY <1>2, <1>5, SchedulerAssumption DEF SchedulerInv, SchedulerTypeOK, NoIdlePermit
<1> QED BY <1>6, <1>7, <1>8, <1>9 DEF SchedulerInv

\* Handing out a permit keeps the inductive invariant: it goes to a request that
\* still waits, and the limit was not reached.
LEMMA GrantKeeps ==
  ASSUME SchedulerInv, NEW p \in Pipeline, Grant(p)
  PROVE  /\ SchedulerInv'
         /\ Cardinality(GrantedTo(p)') <= policy[p].cap
         /\ \A q \in Pipeline \ {p} : GrantedTo(q)' = GrantedTo(q)
<1> DEFINE s == Purged(queue[p])
           r == Head(s)
<1>1. \A q \in Pipeline :
        /\ queue[q] \in Seq(Request)
        /\ Purged(queue[q]) \in Seq(Request)
        /\ \A i \in 1 .. Len(Purged(queue[q])) : Of(Purged(queue[q])[i]) = q
  BY PurgedProperties DEF SchedulerInv, SchedulerTypeOK, Queued
<1>2. s \in Seq(Request) /\ s # <<>> /\ running[p] < policy[p].cap /\ status[r] = "waiting"
  BY <1>1, PurgedProperties DEF Grant, CanRun
<1>3. /\ r \in Request /\ Of(r) = p /\ r = s[1]
      /\ Tail(s) \in Seq(Request) /\ Len(Tail(s)) = Len(s) - 1 /\ Len(s) \in Nat \ {0}
      /\ \A i \in 1 .. Len(Tail(s)) : Tail(s)[i] = s[i + 1]
  <2>1. Len(s) \in Nat \ {0}
    BY <1>2, EmptySeq
  <2>2. r = s[1]
    BY <1>2, <2>1
  <2>3. Of(s[1]) = p
    BY <1>1, <2>1
  <2>4. \A i \in 1 .. Len(Tail(s)) : Tail(s)[i] = s[i + 1]
    BY <1>2, HeadTailProperties
  <2> QED BY <1>2, <2>1, <2>2, <2>3, <2>4, HeadTailProperties
<1> HIDE DEF s
<1>4. /\ status' = [status EXCEPT ![r] = "granted"]
      /\ queue' = [q \in Pipeline |-> IF q = p THEN Tail(s) ELSE Purged(queue[q])]
      /\ running' = [running EXCEPT ![p] = @ + 1]
      /\ active' = active + 1 /\ active < GlobalLimit
      /\ dispatching /\ UNCHANGED <<cost, policy, dispatching>>
      /\ runtime' = Relative([runtime EXCEPT ![p] = @ + Charge(r)])
  BY <1>2 DEF Grant, Completion, BelowLimit, s
<1> HIDE DEF r
<1>5. SchedulerTypeOK'
  <2>1. queue' \in [Pipeline -> Seq(Request)]
    BY <1>1, <1>3, <1>4
  <2>2. runtime' \in [Pipeline -> 0 .. MaxLag]
    <3>1. Charge(r) \in Nat
      BY <1>3, ChargeNatural DEF SchedulerInv, SchedulerTypeOK
    <3>2. [runtime EXCEPT ![p] = @ + Charge(r)] \in [Pipeline -> Nat]
      BY <3>1 DEF SchedulerInv, SchedulerTypeOK
    <3> QED BY <1>4, <3>2, RelativeType
  <2>3. running' \in [Pipeline -> Nat] /\ active' \in Nat
    BY <1>4 DEF SchedulerInv, SchedulerTypeOK
  <2> QED BY <1>3, <1>4, <2>1, <2>2, <2>3 DEF SchedulerInv, SchedulerTypeOK
<1>6. Queued'
  <2>1. \A q \in Pipeline : \A i \in 1 .. Len(queue'[q]) : Of(queue'[q][i]) = q
    <3>1. ASSUME NEW i \in 1 .. Len(Tail(s)) PROVE Of(Tail(s)[i]) = p
      <4>1. i + 1 \in 1 .. Len(s)
        BY <1>3
      <4> QED BY <1>1, <1>3, <4>1 DEF s
    <3> QED BY <1>1, <1>4, <3>1
  <2>2. ASSUME NEW q \in Request, status'[q] = "waiting" PROVE InQueue(q)'
    <3>1. q # r /\ status[q] = "waiting" /\ Of(q) \in Pipeline
      BY SchedulerAssumption, <2>2, <1>3, <1>4 DEF SchedulerInv, SchedulerTypeOK, Of
    <3>2. PICK j \in 1 .. Len(queue[Of(q)]) : queue[Of(q)][j] = q
      BY <3>1 DEF SchedulerInv, Queued, InQueue
    <3>3. PICK i \in 1 .. Len(Purged(queue[Of(q)])) : Purged(queue[Of(q)])[i] = q
      <4>1. PICK t \in Seq(Request) : t = queue[Of(q)]
        BY <1>1, <3>1
      <4>2. j \in 1 .. Len(t) /\ t[j] = q /\ status[t[j]] = "waiting"
        BY <3>1, <3>2, <4>1
      <4>3. \E i \in 1 .. Len(Purged(t)) : Purged(t)[i] = t[j]
        BY <4>2, PurgedProperties
      <4> QED BY <4>1, <4>2, <4>3
    <3>4. CASE Of(q) # p
      BY <1>4, <3>1, <3>3, <3>4 DEF InQueue
    <3>5. CASE Of(q) = p
      <4>1. i \in 1 .. Len(s) /\ s[i] = q
        BY <3>3, <3>5 DEF s
      <4>2. i # 1
        BY <1>3, <3>1, <4>1
      <4>3. i - 1 \in 1 .. Len(Tail(s)) /\ (i - 1) + 1 = i
        BY <1>3, <4>1, <4>2
      <4>4. Tail(s)[i - 1] = q
        BY <1>3, <4>1, <4>3
      <4>5. queue'[Of(q)] = Tail(s)
        BY <1>4, <3>5
      <4> QED BY <4>3, <4>4, <4>5 DEF InQueue
    <3> QED BY <3>4, <3>5
  <2> QED BY <2>1, <2>2 DEF Queued
<1>7. /\ Granted' = Granted \union {r} /\ r \notin Granted
      /\ \A q \in Pipeline : GrantedTo(q)' = IF q = p THEN GrantedTo(q) \union {r} ELSE GrantedTo(q)
      /\ r \notin GrantedTo(p)
  <2>1. status \in [Request -> {"none", "waiting", "granted", "cancelled"}] /\ status[r] = "waiting"
    BY <1>2 DEF SchedulerInv, SchedulerTypeOK, r
  <2>2. Granted' = Granted \union {r} /\ r \notin Granted
    BY <1>3, <1>4, <2>1 DEF Granted
  <2> QED BY <1>3, <2>2 DEF GrantedTo
<1>8. /\ Cardinality(Granted') = Cardinality(Granted) + 1
      /\ Cardinality(GrantedTo(p)') = Cardinality(GrantedTo(p)) + 1
  BY <1>7, GrantedFinite, FS_AddElement
<1>9. PermitsConserved'
  BY <1>4, <1>7, <1>8 DEF SchedulerInv, SchedulerTypeOK, PermitsConserved
<1>10. active' <= GlobalLimit /\ NoIdlePermit'
  BY <1>4, SchedulerAssumption DEF SchedulerInv, SchedulerTypeOK, NoIdlePermit
<1>11. Cardinality(GrantedTo(p)') <= policy[p].cap
  BY <1>2, <1>8 DEF SchedulerInv, SchedulerTypeOK, PermitsConserved
<1> QED BY <1>5, <1>6, <1>7, <1>9, <1>10, <1>11 DEF SchedulerInv

\* Leaving the monitor keeps the inductive invariant: the loop ended because the
\* limit is reached or because nobody who waits may run.
LEMMA LeaveKeeps ==
  ASSUME SchedulerInv, Leave
  PROVE  SchedulerInv'
<1>1. \A q \in Pipeline :
        /\ queue[q] \in Seq(Request)
        /\ Purged(queue[q]) \in Seq(Request)
        /\ \A i \in 1 .. Len(Purged(queue[q])) : Of(Purged(queue[q])[i]) = q
  BY PurgedProperties DEF SchedulerInv, SchedulerTypeOK, Queued
<1>2. ASSUME NEW q \in Request, status[q] = "waiting"
      PROVE  \E i \in 1 .. Len(Purged(queue[Of(q)])) : Purged(queue[Of(q)])[i] = q
  <2>1. Of(q) \in Pipeline
    BY SchedulerAssumption DEF Of
  <2>2. PICK j \in 1 .. Len(queue[Of(q)]) : queue[Of(q)][j] = q
    BY <1>2 DEF SchedulerInv, Queued, InQueue
  <2>3. queue[Of(q)] \in Seq(Request)
    BY <1>1, <2>1
  <2>4. \A k \in 1 .. Len(queue[Of(q)]) : status[queue[Of(q)][k]] = "waiting" =>
            \E i \in 1 .. Len(Purged(queue[Of(q)])) : Purged(queue[Of(q)])[i] = queue[Of(q)][k]
    BY ONLY <2>3, PurgedProperties
  <2> QED BY ONLY <1>2, <2>2, <2>4
<1>3. SchedulerTypeOK'
  BY <1>1 DEF SchedulerInv, SchedulerTypeOK, Leave
<1>4. Queued'
  <2>1. CASE BelowLimit
    <3>1. queue' = [q \in Pipeline |-> Purged(queue[q])] /\ status' = status
      BY <2>1 DEF Leave
    <3>2. \A q \in Pipeline : \A i \in 1 .. Len(queue'[q]) : Of(queue'[q][i]) = q
      BY <1>1, <3>1
    <3>3. \A q \in Request : status'[q] = "waiting" => InQueue(q)'
      <4>1. \A q \in Request : Of(q) \in Pipeline
        BY SchedulerAssumption DEF Of
      <4> QED BY <1>2, <3>1, <4>1 DEF InQueue
    <3> QED BY <3>2, <3>3 DEF Queued
  <2>2. CASE ~BelowLimit
    BY <2>2 DEF SchedulerInv, Queued, InQueue, Leave
  <2> QED BY <2>1, <2>2
<1>5. PermitsConserved'
  <2>1. Granted' = Granted /\ \A q \in Pipeline : GrantedTo(q)' = GrantedTo(q)
    BY DEF Leave, Granted, GrantedTo
  <2> QED BY <2>1 DEF SchedulerInv, PermitsConserved, Leave
<1>6. NoIdlePermit'
  <2> SUFFICES ASSUME active < GlobalLimit, NEW q \in Request, status[q] = "waiting"
               PROVE  running[Of(q)] >= policy[Of(q)].cap
    BY DEF NoIdlePermit, Leave
  <2>1. Of(q) \in Pipeline
    BY SchedulerAssumption DEF Of
  <2>2. ~CanRun(Of(q))
    BY <2>1 DEF Leave, BelowLimit
  <2>3. Purged(queue[Of(q)]) # <<>>
    BY <1>2, EmptySeq
  <2> QED BY <2>1, <2>2, <2>3 DEF CanRun, SchedulerInv, SchedulerTypeOK
<1> QED BY <1>3, <1>4, <1>5, <1>6 DEF SchedulerInv, Leave

\* Every step keeps the inductive invariant.
LEMMA SchedulerStep == SchedulerInv /\ [SchedulerNext]_schedulerVars => SchedulerInv'
<1> SUFFICES ASSUME SchedulerInv, [SchedulerNext]_schedulerVars PROVE SchedulerInv'
  OBVIOUS
<1>1. CASE UNCHANGED schedulerVars
  BY <1>1 DEF schedulerVars, SchedulerInv, SchedulerTypeOK, Queued, InQueue, PermitsConserved, NoIdlePermit, Granted, GrantedTo
<1>2. CASE SchedulerNext
  BY <1>2, AcquireKeeps, CancelKeeps, ReleaseKeeps, GrantKeeps, LeaveKeeps DEF SchedulerNext, Dispatch
<1> QED BY <1>1, <1>2

-----------------------------------------------------------------------------
\* The counters always are the permits in use (Release and DispatchLocked), the
\* queues hold whoever waits, and no permit idles.
THEOREM SchedulerInvariant == SchedulerSpec => []SchedulerInv
<1> QED BY SchedulerStarts, SchedulerStep, PTL DEF SchedulerSpec

\* The worker never has more work in progress than MaxConcurrentCalls.
THEOREM SchedulerWithinLimit == SchedulerSpec => []WithinLimit
<1>1. SchedulerInv => WithinLimit
  BY DEF SchedulerInv, PermitsConserved, WithinLimit
<1> QED BY <1>1, SchedulerInvariant, PTL

\* Work-conserving: outside the monitor nobody waits for a permit that it may have.
THEOREM SchedulerNoIdlePermit == SchedulerSpec => []NoIdlePermit
<1>1. SchedulerInv => NoIdlePermit
  BY DEF SchedulerInv
<1> QED BY <1>1, SchedulerInvariant, PTL

\* A pipeline starts work only within the concurrency it asked for last.
THEOREM SchedulerWithinCap == SchedulerSpec => WithinCap
<1> DEFINE Capped == \A p \in Pipeline :
             ~(GrantedTo(p)' \subseteq GrantedTo(p)) => Cardinality(GrantedTo(p)') <= policy'[p].cap
<1>1. SchedulerInv /\ [SchedulerNext]_schedulerVars => [Capped]_schedulerVars
  <2> SUFFICES ASSUME SchedulerInv, SchedulerNext PROVE Capped
    OBVIOUS
  <2>1. ASSUME NEW p \in Pipeline, Grant(p) PROVE Capped
    <3>1. policy' = policy
      BY <2>1 DEF Grant
    <3> QED BY <2>1, <3>1, GrantKeeps
  <2>2. ASSUME Leave \/ \E r \in Request : Acquire(r) \/ Cancel(r) \/ Release(r) PROVE Capped
    <3>1. \A q \in Request : status'[q] = "granted" => status[q] = "granted"
      BY <2>2 DEF SchedulerInv, SchedulerTypeOK, Leave, Acquire, Cancel, Release
    <3> QED BY <3>1 DEF Granted, GrantedTo
  <2> QED BY <2>1, <2>2 DEF SchedulerNext, Dispatch
<1> QED BY <1>1, SchedulerInvariant, PTL DEF SchedulerSpec, WithinCap

-----------------------------------------------------------------------------
(* SharePointFence: FenceInv is inductive, and the properties follow.       *)

USE DEF Current, Superseded, AlreadyApplied, AllWritten, NotKept

\* The first state satisfies the invariant.
LEMMA InitEstablishes == Init => FenceInv
  <1> SUFFICES ASSUME Init PROVE FenceInv
    OBVIOUS
  <1>1. TypeOK
    BY FenceAssumption DEF Init, TypeOK, Manifest, NoManifest, PC, Rev
  <1>2. VersionsBehind
    BY DEF Init, VersionsBehind, NoManifest
  <1>3. ClaimAllowed /\ OneHolder /\ HolderProgress
    BY DEF Init, ClaimAllowed, OneHolder, HolderProgress, Holds
  <1>4. CallSane
    BY FenceAssumption DEF Init, CallSane, Docs
  <1>5. NothingAhead /\ CompletedExact /\ AnswerSound
    BY DEF Init, NothingAhead, CompletedExact, AnswerSound, NoManifest
  <1> QED
    BY <1>1, <1>2, <1>3, <1>4, <1>5 DEF FenceInv

\* A stuttering step preserves it.
LEMMA StutterPreserves == FenceInv /\ UNCHANGED vars => FenceInv'
  BY DEF FenceInv, TypeOK, VersionsBehind, ClaimAllowed, OneHolder, HolderProgress,
         CallSane, NothingAhead, CompletedExact, AnswerSound, Holds, Docs, vars

\* The steps that leave the store alone: they change where one call is.
LEMMA StartPreserves ==
  ASSUME FenceInv, NEW c \in Call, Start(c)
  PROVE  FenceInv'
  <1> USE DEF FenceInv, Start, store
  <1>1. TypeOK'
    BY DEF TypeOK, PC
  <1>2. VersionsBehind'
    BY DEF VersionsBehind
  <1>3. ClaimAllowed' /\ OneHolder' /\ HolderProgress'
    BY DEF TypeOK, ClaimAllowed, OneHolder, HolderProgress, Holds, Docs
  <1>4. CallSane'
    BY DEF TypeOK, CallSane, Docs
  <1>5. NothingAhead' /\ CompletedExact' /\ AnswerSound'
    BY DEF NothingAhead, CompletedExact, AnswerSound, Docs
  <1> QED
    BY <1>1, <1>2, <1>3, <1>4, <1>5

LEMMA AbandonPreserves ==
  ASSUME FenceInv, NEW c \in Call, Abandon(c) \/ Fenced(c)
  PROVE  FenceInv'
  <1>0. /\ pc[c] \in {"read", "claim", "write", "delete"}
        /\ pc' = [pc EXCEPT ![c] = "failed"]
        /\ UNCHANGED <<store, rev, size, etag, next, obsolete, result>>
    BY DEF Abandon, Fenced
  <1> USE <1>0 DEF FenceInv, store
  <1>1. TypeOK'
    BY DEF TypeOK, PC
  <1>2. VersionsBehind'
    BY DEF VersionsBehind
  <1>3. ClaimAllowed' /\ OneHolder' /\ HolderProgress'
    BY DEF TypeOK, ClaimAllowed, OneHolder, HolderProgress, Holds, Docs
  <1>4. CallSane'
    BY DEF TypeOK, CallSane, Docs
  <1>5. NothingAhead' /\ CompletedExact' /\ AnswerSound'
    BY DEF NothingAhead, CompletedExact, AnswerSound, Docs
  <1> QED
    BY <1>1, <1>2, <1>3, <1>4, <1>5

\* A read of any version, however old, gives an answer that is still true or
\* an ETag that is current only if the claim is allowed.
LEMMA ReadStatePreserves ==
  ASSUME FenceInv, NEW c \in Call, ReadState(c)
  PROVE  FenceInv'
  <1> USE DEF FenceInv, store
  <1>0. PICK v \in versions :
          /\ v.etag >= etag[c]
          /\ \/ v.rev > rev[c] /\ Return(c, "superseded") /\ UNCHANGED etag
             \/ v.rev = rev[c] /\ v.completed /\ Return(c, "applied") /\ UNCHANGED etag
             \/ /\ ~(v.rev > rev[c])
                /\ ~(v.rev = rev[c] /\ v.completed)
                /\ pc' = [pc EXCEPT ![c] = "claim"]
                /\ etag' = [etag EXCEPT ![c] = v.etag]
                /\ UNCHANGED result
    BY DEF ReadState
  <1>1. v \in Manifest /\ manifest \in Manifest /\ rev[c] \in Nat
    BY FenceAssumption DEF TypeOK, Rev
  <1>2. /\ v.etag <= manifest.etag
        /\ v.etag = manifest.etag => v = manifest
        /\ v.rev <= manifest.rev
        /\ v.rev = manifest.rev /\ v.completed => manifest.completed
    BY DEF VersionsBehind
  <1>3. /\ pc[c] = "read"
        /\ UNCHANGED <<manifest, versions, vec, rev, size, next, obsolete>>
    BY DEF ReadState
  <1>4. TypeOK'
    BY <1>0, <1>1, <1>3 DEF TypeOK, PC, Manifest, Return
  <1>5. VersionsBehind'
    BY <1>0, <1>2, <1>3 DEF TypeOK, VersionsBehind, Return
  <1>6. ClaimAllowed' /\ OneHolder' /\ HolderProgress'
    <2>1. ClaimAllowed'
      BY <1>0, <1>1, <1>2, <1>3 DEF TypeOK, ClaimAllowed, Return, Manifest
    <2>2. OneHolder' /\ HolderProgress'
      BY <1>0, <1>3 DEF TypeOK, OneHolder, HolderProgress, Holds, Docs, Return
    <2> QED BY <2>1, <2>2
  <1>7. CallSane'
    BY <1>0, <1>3 DEF TypeOK, CallSane, Docs, Return
  <1>8. NothingAhead' /\ CompletedExact'
    BY <1>3 DEF NothingAhead, CompletedExact, Docs
  <1>9. AnswerSound'
    BY <1>0, <1>1, <1>2, <1>3 DEF TypeOK, AnswerSound, Return, Manifest
  <1> QED
    BY <1>4, <1>5, <1>6, <1>7, <1>8, <1>9

LEMMA ClaimConflictPreserves ==
  ASSUME FenceInv, NEW c \in Call, ClaimConflict(c)
  PROVE  FenceInv'
  <1> USE DEF FenceInv, ClaimConflict, store
  <1>1. TypeOK'
    BY DEF TypeOK, PC, Manifest
  <1>2. VersionsBehind'
    BY DEF TypeOK, VersionsBehind, Manifest
  <1>3. ClaimAllowed' /\ OneHolder' /\ HolderProgress'
    BY DEF TypeOK, ClaimAllowed, OneHolder, HolderProgress, Holds, Docs
  <1>4. CallSane'
    BY DEF TypeOK, CallSane, Docs
  <1>5. NothingAhead' /\ CompletedExact' /\ AnswerSound'
    BY DEF NothingAhead, CompletedExact, AnswerSound, Docs
  <1> QED
    BY <1>1, <1>2, <1>3, <1>4, <1>5

\* After its last write the call learns of every document that is not its own.
LEMMA FindObsoletePreserves ==
  ASSUME FenceInv, NEW c \in Call, FindObsolete(c)
  PROVE  FenceInv'
  <1> USE DEF FenceInv, FindObsolete, store
  <1>1. TypeOK'
    BY DEF TypeOK, PC
  <1>2. VersionsBehind'
    BY DEF VersionsBehind
  <1>3. ClaimAllowed' /\ OneHolder'
    BY DEF TypeOK, ClaimAllowed, OneHolder, Holds
  <1>4. HolderProgress'
    BY DEF TypeOK, HolderProgress, Holds, Docs
  <1>5. CallSane'
    BY DEF TypeOK, CallSane, Docs
  <1>6. NothingAhead' /\ CompletedExact' /\ AnswerSound'
    BY DEF NothingAhead, CompletedExact, AnswerSound, Docs
  <1> QED
    BY <1>1, <1>2, <1>3, <1>4, <1>5, <1>6

\* What every write of the manifest under the current ETag does to the parts of
\* the invariant that only depend on the manifest: other calls are fenced.
LEMMA PutManifestFences ==
  ASSUME FenceInv, NEW c \in Call, NEW done \in BOOLEAN,
         PutManifest(c, done),
         manifest.rev <= rev[c],
         manifest.rev = rev[c] /\ manifest.completed => done,
         etag' = [etag EXCEPT ![c] = manifest.etag + 1] \/ UNCHANGED etag
  PROVE  /\ manifest' \in Manifest
         /\ versions' \subseteq Manifest
         /\ VersionsBehind'
         /\ \A d \in Call : d # c => etag'[d] # manifest'.etag
         /\ etag'[c] = manifest'.etag <=> etag' = [etag EXCEPT ![c] = manifest.etag + 1]
  <1> USE DEF FenceInv
  <1>1. /\ manifest \in Manifest
        /\ versions \subseteq Manifest
        /\ rev[c] \in 0 .. MaxRev
        /\ etag \in [Call -> Nat]
    BY FenceAssumption DEF TypeOK, Rev
  <1>2. manifest' = [etag |-> manifest.etag + 1, rev |-> rev[c], completed |-> done]
    BY DEF PutManifest
  <1>3. versions' = versions \union {manifest'}
    BY DEF PutManifest
  <1>4. manifest' \in Manifest /\ versions' \subseteq Manifest
    BY <1>1, <1>2, <1>3 DEF Manifest
  <1>5. VersionsBehind'
    <2>1. manifest' \in versions'
      BY <1>3
    <2>2. ASSUME NEW v \in versions'
          PROVE  /\ v.etag <= manifest'.etag
                 /\ v.etag = manifest'.etag => v = manifest'
                 /\ v.rev <= manifest'.rev
                 /\ v.rev = manifest'.rev /\ v.completed => manifest'.completed
      <3>1. CASE v = manifest'
        BY <3>1, <1>4 DEF Manifest
      <3>2. CASE v \in versions
        BY <3>2, <1>1, <1>2 DEF VersionsBehind, Manifest
      <3> QED
        BY <1>3, <3>1, <3>2
    <2>3. \A d \in Call : etag'[d] <= manifest'.etag
      BY <1>1, <1>2 DEF VersionsBehind, Manifest
    <2> QED
      BY <2>1, <2>2, <2>3 DEF VersionsBehind
  <1>6. \A d \in Call : d # c => etag'[d] # manifest'.etag
    BY <1>1, <1>2 DEF VersionsBehind, Manifest
  <1>7. etag'[c] = manifest'.etag <=> etag' = [etag EXCEPT ![c] = manifest.etag + 1]
    BY <1>1, <1>2 DEF VersionsBehind, Manifest
  <1> QED
    BY <1>4, <1>5, <1>6, <1>7

\* A successful claim fences every other call of the identity.
LEMMA ClaimPreserves ==
  ASSUME FenceInv, NEW c \in Call, Claim(c)
  PROVE  FenceInv'
  <1> USE DEF FenceInv
  <1>1. /\ pc[c] = "claim"
        /\ etag[c] = manifest.etag
        /\ PutManifest(c, FALSE)
        /\ UNCHANGED <<vec, rev, size, next, obsolete, result>>
    BY DEF Claim
  <1>2. \/ pc' = [pc EXCEPT ![c] = "write"] /\ etag' = [etag EXCEPT ![c] = manifest.etag + 1]
        \/ pc' = [pc EXCEPT ![c] = "failed"] /\ UNCHANGED etag
    BY DEF Claim, Answered
  <1>3. /\ manifest.rev <= rev[c]
        /\ ~(manifest.rev = rev[c] /\ manifest.completed)
    BY <1>1 DEF ClaimAllowed
  <1>4. /\ manifest' \in Manifest
        /\ versions' \subseteq Manifest
        /\ VersionsBehind'
        /\ \A d \in Call : d # c => etag'[d] # manifest'.etag
        /\ etag'[c] = manifest'.etag <=> etag' = [etag EXCEPT ![c] = manifest.etag + 1]
    BY <1>1, <1>2, <1>3, PutManifestFences
  <1>5. manifest'.rev = rev[c] /\ ~manifest'.completed
    BY <1>1 DEF PutManifest
  <1>6. /\ rev[c] \in Nat
        /\ manifest \in Manifest
    BY FenceAssumption DEF TypeOK, Rev
  <1>7. TypeOK'
    BY <1>1, <1>2, <1>4, <1>6 DEF TypeOK, PC, Manifest
  <1>8. ClaimAllowed' /\ OneHolder'
    BY <1>1, <1>2, <1>4, <1>5 DEF TypeOK, ClaimAllowed, OneHolder, Holds
  <1>9. HolderProgress'
    BY <1>1, <1>2, <1>4, <1>6, FenceAssumption DEF TypeOK, HolderProgress, CallSane, Holds, Docs
  <1>10. CallSane'
    BY <1>1, <1>2 DEF TypeOK, CallSane, Docs
  <1>11. NothingAhead'
    BY <1>1, <1>3, <1>5, <1>6, FenceAssumption DEF NothingAhead, ChunkId, Rev, Manifest
  <1>12. CompletedExact'
    BY <1>5 DEF CompletedExact
  <1>13. AnswerSound'
    BY <1>1, <1>3, <1>5, <1>6, FenceAssumption DEF TypeOK, AnswerSound, Rev, Manifest
  <1> QED
    BY <1>4, <1>7, <1>8, <1>9, <1>10, <1>11, <1>12, <1>13

\* The holder of the current ETag writes its next documents and keeps the hold,
\* or applies the batch, loses the answer and with it the hold.
LEMMA WriteBatchPreserves ==
  ASSUME FenceInv, NEW c \in Call, WriteBatch(c)
  PROVE  FenceInv'
  <1> USE DEF FenceInv
  <1>1. /\ pc[c] = "write"
        /\ etag[c] = manifest.etag
        /\ PutManifest(c, FALSE)
        /\ UNCHANGED <<rev, size, obsolete, result>>
    BY DEF WriteBatch
  <1>2. \/ pc' = [pc EXCEPT ![c] = "write"] /\ etag' = [etag EXCEPT ![c] = manifest.etag + 1]
        \/ pc' = [pc EXCEPT ![c] = "failed"] /\ UNCHANGED etag
    BY DEF WriteBatch, Answered
  <1>3. PICK k \in next[c] + 1 .. size[c] :
          /\ vec' = [id \in ChunkId |->
                      IF id[1] = rev[c] /\ next[c] <= id[2] /\ id[2] < k THEN c ELSE vec[id]]
          /\ next' = [next EXCEPT ![c] = k]
    BY DEF WriteBatch
  <1>4. manifest.rev = rev[c] /\ ~manifest.completed
    BY <1>1 DEF OneHolder, Holds
  <1>5. /\ manifest.rev <= rev[c]
        /\ rev[c] \in Nat
        /\ manifest \in Manifest
        /\ next[c] \in Nat /\ size[c] \in 0 .. MaxChunks
    BY <1>4, FenceAssumption DEF TypeOK, Rev
  <1>6. /\ manifest' \in Manifest
        /\ versions' \subseteq Manifest
        /\ VersionsBehind'
        /\ \A d \in Call : d # c => etag'[d] # manifest'.etag
        /\ etag'[c] = manifest'.etag <=> etag' = [etag EXCEPT ![c] = manifest.etag + 1]
    BY <1>1, <1>2, <1>4, <1>5, PutManifestFences
  <1>7. manifest'.rev = rev[c] /\ ~manifest'.completed
    BY <1>1 DEF PutManifest
  <1>8. k \in 0 .. MaxChunks /\ k <= size[c]
    BY <1>5, FenceAssumption
  <1>9. TypeOK'
    BY <1>1, <1>2, <1>3, <1>5, <1>6, <1>8 DEF TypeOK, PC, Manifest
  <1>10. ClaimAllowed' /\ OneHolder'
    BY <1>1, <1>2, <1>6, <1>7 DEF TypeOK, ClaimAllowed, OneHolder, Holds
  <1>11. HolderProgress'
    <2>1. ASSUME NEW d \in Call, Holds(d)'
          PROVE  d = c /\ pc'[c] = "write"
      BY <2>1, <1>2, <1>6 DEF TypeOK, Holds
    <2>2. ASSUME NEW i \in 0 .. MaxChunks - 1, i < k
          PROVE  vec'[<<rev[c], i>>] = c
      <3>1. <<rev[c], i>> \in ChunkId
        BY DEF TypeOK, ChunkId
      <3>2. i < next[c] => vec[<<rev[c], i>>] = c
        BY <1>1 DEF HolderProgress, Holds
      <3> QED
        BY <3>1, <3>2, <2>2, <1>3, <1>5
    <2> QED
      BY <2>1, <2>2, <1>1, <1>3 DEF TypeOK, HolderProgress
  <1>12. CallSane'
    BY <1>1, <1>2, <1>3, <1>8 DEF TypeOK, CallSane, Docs
  <1>13. NothingAhead'
    BY <1>3, <1>4, <1>5, <1>7 DEF NothingAhead
  <1>14. CompletedExact'
    BY <1>7 DEF CompletedExact
  <1>15. AnswerSound'
    BY <1>1, <1>4, <1>5, <1>7 DEF TypeOK, AnswerSound
  <1> QED
    BY <1>6, <1>9, <1>10, <1>11, <1>12, <1>13, <1>14, <1>15

\* Deleting removes ids the call does not keep, so what it wrote stays.
LEMMA DeleteBatchPreserves ==
  ASSUME FenceInv, NEW c \in Call, DeleteBatch(c)
  PROVE  FenceInv'
  <1> USE DEF FenceInv
  <1>1. /\ pc[c] = "delete"
        /\ etag[c] = manifest.etag
        /\ PutManifest(c, FALSE)
        /\ UNCHANGED <<rev, size, next, result>>
    BY DEF DeleteBatch
  <1>2. \/ pc' = [pc EXCEPT ![c] = "delete"] /\ etag' = [etag EXCEPT ![c] = manifest.etag + 1]
        \/ pc' = [pc EXCEPT ![c] = "failed"] /\ UNCHANGED etag
    BY DEF DeleteBatch, Answered
  <1>3. PICK gone \in SUBSET obsolete[c] :
          /\ vec' = [id \in ChunkId |-> IF id \in gone THEN NoCall ELSE vec[id]]
          /\ obsolete' = [obsolete EXCEPT ![c] = @ \ gone]
    BY DEF DeleteBatch
  <1>4. manifest.rev = rev[c] /\ ~manifest.completed
    BY <1>1 DEF OneHolder, Holds
  <1>5. /\ manifest.rev <= rev[c]
        /\ rev[c] \in Nat
        /\ manifest \in Manifest
    BY <1>4, FenceAssumption DEF TypeOK, Rev
  <1>6. /\ manifest' \in Manifest
        /\ versions' \subseteq Manifest
        /\ VersionsBehind'
        /\ \A d \in Call : d # c => etag'[d] # manifest'.etag
        /\ etag'[c] = manifest'.etag <=> etag' = [etag EXCEPT ![c] = manifest.etag + 1]
    BY <1>1, <1>2, <1>4, <1>5, PutManifestFences
  <1>7. manifest'.rev = rev[c] /\ ~manifest'.completed
    BY <1>1 DEF PutManifest
  <1>8. TypeOK'
    BY <1>1, <1>2, <1>3, <1>6 DEF TypeOK, PC
  <1>9. ClaimAllowed' /\ OneHolder'
    BY <1>1, <1>2, <1>6, <1>7 DEF TypeOK, ClaimAllowed, OneHolder, Holds
  <1>10. HolderProgress'
    <2>1. ASSUME NEW d \in Call, Holds(d)'
          PROVE  d = c
      BY <2>1, <1>6 DEF Holds
    <2>2. ASSUME NEW i \in 0 .. MaxChunks - 1, i < next[c]
          PROVE  vec'[<<rev[c], i>>] = c
      <3>1. vec[<<rev[c], i>>] = c
        BY <2>2, <1>1 DEF HolderProgress, Holds
      <3>2. <<rev[c], i>> \in ChunkId
        BY DEF TypeOK, ChunkId
      <3>3. <<rev[c], i>> \in Docs(c)
        BY <2>2, <1>1, FenceAssumption DEF TypeOK, CallSane, Docs
      <3>4. <<rev[c], i>> \notin gone
        BY <3>3 DEF CallSane
      <3> QED
        BY <3>1, <3>2, <3>4, <1>3
    <2>3. \A id \in ChunkId : vec'[id] = NoCall \/ id \in obsolete'[c] \/ id \in Docs(c)
      BY <1>1, <1>3 DEF TypeOK, HolderProgress, Holds
    <2> QED
      BY <2>1, <2>2, <2>3, <1>1 DEF HolderProgress, Docs
  <1>11. CallSane'
    BY <1>1, <1>2, <1>3 DEF TypeOK, CallSane, Docs
  <1>12. NothingAhead'
    BY <1>3, <1>4, <1>7 DEF NothingAhead
  <1>13. CompletedExact'
    BY <1>7 DEF CompletedExact
  <1>14. AnswerSound'
    BY <1>1, <1>4, <1>5, <1>7 DEF TypeOK, AnswerSound
  <1> QED
    BY <1>6, <1>8, <1>9, <1>10, <1>11, <1>12, <1>13, <1>14

\* Nothing is left to delete: the index is what the call wrote, and is marked so.
LEMMA CompletePreserves ==
  ASSUME FenceInv, NEW c \in Call, Complete(c)
  PROVE  FenceInv'
  <1> USE DEF FenceInv
  <1>1. /\ pc[c] = "delete"
        /\ obsolete[c] = {}
        /\ etag[c] = manifest.etag
        /\ PutManifest(c, TRUE)
        /\ UNCHANGED <<vec, rev, size, next, obsolete>>
    BY DEF Complete
  <1>2. \/ /\ pc' = [pc EXCEPT ![c] = "done"]
           /\ result' = [result EXCEPT ![c] = "applied"]
           /\ etag' = [etag EXCEPT ![c] = manifest.etag + 1]
        \/ pc' = [pc EXCEPT ![c] = "failed"] /\ UNCHANGED <<etag, result>>
    BY DEF Complete, Return
  <1>3. manifest.rev = rev[c] /\ ~manifest.completed
    BY <1>1 DEF OneHolder, Holds
  <1>4. /\ manifest.rev <= rev[c]
        /\ rev[c] \in Nat
        /\ manifest \in Manifest
    BY <1>3, FenceAssumption DEF TypeOK, Rev
  <1>5. /\ manifest' \in Manifest
        /\ versions' \subseteq Manifest
        /\ VersionsBehind'
        /\ \A d \in Call : d # c => etag'[d] # manifest'.etag
    BY <1>1, <1>2, <1>3, <1>4, PutManifestFences
  <1>6. manifest'.rev = rev[c] /\ manifest'.completed
    BY <1>1 DEF PutManifest
  <1>7. TypeOK'
    BY <1>1, <1>2, <1>4, <1>5 DEF TypeOK, PC, Manifest
  <1>8. ClaimAllowed' /\ OneHolder' /\ HolderProgress'
    BY <1>1, <1>2, <1>5 DEF TypeOK, ClaimAllowed, OneHolder, HolderProgress, Holds
  <1>9. CallSane'
    BY <1>1, <1>2 DEF TypeOK, CallSane, Docs
  <1>10. NothingAhead'
    BY <1>1, <1>3, <1>6 DEF NothingAhead
  <1>11. CompletedExact'
    <2>1. ASSUME NEW id \in ChunkId
          PROVE  vec[id] = IF id \in Docs(c) THEN c ELSE NoCall
      <3>1. CASE id \in Docs(c)
        <4>1. id = <<rev[c], id[2]>> /\ id[2] \in 0 .. MaxChunks - 1
          BY <3>1 DEF Docs, ChunkId
        <4>2. id[2] < next[c]
          BY <3>1, <1>1, FenceAssumption DEF TypeOK, CallSane, Docs
        <4> QED
          BY <4>1, <4>2, <3>1, <1>1 DEF HolderProgress, Holds
      <3>2. CASE id \notin Docs(c)
        BY <3>2, <1>1 DEF HolderProgress, Holds
      <3> QED
        BY <3>1, <3>2
    <2> QED
      BY <2>1, <1>1, <1>6 DEF CompletedExact, Docs
  <1>12. AnswerSound'
    BY <1>1, <1>2, <1>3, <1>4, <1>6 DEF TypeOK, AnswerSound
  <1> QED
    BY <1>5, <1>7, <1>8, <1>9, <1>10, <1>11, <1>12

-----------------------------------------------------------------------------
LEMMA NextPreserves == FenceInv /\ [Next]_vars => FenceInv'
  <1> SUFFICES ASSUME FenceInv, [Next]_vars PROVE FenceInv'
    OBVIOUS
  <1>1. CASE UNCHANGED vars
    BY <1>1, StutterPreserves
  <1>2. ASSUME NEW c \in Call, Start(c) \/ Step(c) \/ Abandon(c)
        PROVE  FenceInv'
    BY <1>2, StartPreserves, ReadStatePreserves, ClaimPreserves, ClaimConflictPreserves,
       WriteBatchPreserves, FindObsoletePreserves, DeleteBatchPreserves, CompletePreserves,
       AbandonPreserves
       DEF Step
  <1> QED
    BY <1>1, <1>2 DEF Next, AllEnded

\* The invariant holds in every reachable state, for every set of calls.
THEOREM FenceInvariant == Spec => []FenceInv
  <1>1. Init => FenceInv
    BY InitEstablishes
  <1>2. FenceInv /\ [Next]_vars => FenceInv'
    BY NextPreserves
  <1> QED
    BY <1>1, <1>2, PTL DEF Spec

\* Type correctness of the fence.
THEOREM FenceTypes == Spec => []TypeOK
  <1>1. FenceInv => TypeOK
    BY DEF FenceInv
  <1> QED
    BY <1>1, FenceInvariant, PTL

\* A completed manifest describes the index exactly (lines 64-80 of the method).
THEOREM FenceCompletedExact == Spec => []CompletedExact
  <1>1. FenceInv => CompletedExact
    BY DEF FenceInv
  <1> QED
    BY <1>1, FenceInvariant, PTL

\* What the method returned, and the worker acknowledged, stays true.
THEOREM FenceAnswersSound == Spec => []AnswerSound
  <1>1. FenceInv => AnswerSound
    BY DEF FenceInv
  <1> QED
    BY <1>1, FenceInvariant, PTL

-----------------------------------------------------------------------------
\* The three things a step can do to the store.
LEMMA StoreSteps ==
  ASSUME FenceInv, [Next]_vars
  PROVE  \/ UNCHANGED store
         \/ \E c \in Call : Claim(c)
         \/ \E c \in Call : Holds(c) /\ (WriteBatch(c) \/ DeleteBatch(c) \/ Complete(c))
  <1>1. CASE UNCHANGED vars
    BY <1>1 DEF vars, store
  <1>2. ASSUME NEW c \in Call, Start(c) \/ Step(c) \/ Abandon(c)
        PROVE  \/ UNCHANGED store
               \/ Claim(c)
               \/ Holds(c) /\ (WriteBatch(c) \/ DeleteBatch(c) \/ Complete(c))
    BY <1>2 DEF Start, Step, Abandon, ReadState, ClaimConflict, FindObsolete, Fenced,
                WriteBatch, DeleteBatch, Complete, Holds, store
  <1> QED
    BY <1>1, <1>2 DEF Next, AllEnded

\* The high-water mark: a claim is never of an older revision, and the writes of
\* the holder leave revision and mark alone or complete it.
THEOREM FenceHighWater == Spec => HighWaterKept
  <1>1. ASSUME FenceInv, [Next]_vars
        PROVE  [ \/ manifest'.rev > manifest.rev
                 \/ /\ manifest'.rev = manifest.rev
                    /\ manifest.completed => manifest'.completed ]_vars
    <2>1. CASE UNCHANGED store
      BY <2>1 DEF store
    <2>2. ASSUME NEW c \in Call, Claim(c)
          PROVE  \/ manifest'.rev > manifest.rev
                 \/ manifest'.rev = manifest.rev /\ ~manifest.completed
      BY <1>1, <2>2, FenceAssumption
         DEF FenceInv, TypeOK, Manifest, Rev, ClaimAllowed, Claim, PutManifest
    <2>3. ASSUME NEW c \in Call, Holds(c), WriteBatch(c) \/ DeleteBatch(c) \/ Complete(c)
          PROVE  manifest'.rev = manifest.rev /\ ~manifest.completed
      BY <1>1, <2>3
         DEF FenceInv, OneHolder, WriteBatch, DeleteBatch, Complete, PutManifest
    <2> QED
      BY <1>1, <2>1, <2>2, <2>3, StoreSteps
  <1> QED
    BY <1>1, FenceInvariant, PTL DEF Spec, HighWaterKept

\* A document appears only under a claim of its own revision: a fenced worker's
\* upserts are refused however late they arrive.
THEOREM FenceNoResurrection == Spec => NoResurrection
  <1>1. ASSUME FenceInv, [Next]_vars
        PROVE  [ \A id \in ChunkId :
                   vec'[id] \notin {vec[id], NoCall} =>
                     manifest.rev = id[1] /\ ~manifest.completed ]_vars
    <2>1. CASE vec' = vec
      BY <2>1
    <2>2. ASSUME NEW c \in Call, Holds(c), WriteBatch(c)
          PROVE  \A id \in ChunkId :
                   vec'[id] # vec[id] => manifest.rev = id[1] /\ ~manifest.completed
      BY <1>1, <2>2 DEF FenceInv, OneHolder, WriteBatch
    <2>3. ASSUME NEW c \in Call, DeleteBatch(c)
          PROVE  \A id \in ChunkId : vec'[id] \in {vec[id], NoCall}
      BY <2>3 DEF DeleteBatch
    <2> QED
      BY <1>1, <2>1, <2>2, <2>3, StoreSteps DEF store, Claim, Complete
  <1> QED
    BY <1>1, FenceInvariant, PTL DEF Spec, NoResurrection

\* A document disappears only when a whole replacement is in the index.
THEOREM FenceRemovalCovered == Spec => RemovalCovered
  <1>1. ASSUME FenceInv, [Next]_vars
        PROVE  [ \A id \in ChunkId :
                   (vec[id] # NoCall /\ vec'[id] = NoCall) =>
                     \E c \in Call :
                       /\ id[1] <= rev[c]
                       /\ rev[c] = manifest.rev
                       /\ \A d \in Docs(c) : vec'[d] = c ]_vars
    <2>1. CASE vec' = vec
      BY <2>1
    <2>2. ASSUME NEW c \in Call, Holds(c), WriteBatch(c)
          PROVE  \A id \in ChunkId : vec'[id] = NoCall => vec[id] = NoCall
      BY <2>2, FenceAssumption DEF WriteBatch
    <2>3. ASSUME NEW c \in Call, Holds(c), DeleteBatch(c),
                 NEW id \in ChunkId, vec[id] # NoCall
          PROVE  /\ id[1] <= rev[c]
                 /\ rev[c] = manifest.rev
                 /\ \A d \in Docs(c) : vec'[d] = c
      <3>1. manifest.rev = rev[c]
        BY <1>1, <2>3 DEF FenceInv, OneHolder
      <3>2. id[1] <= rev[c]
        BY <1>1, <2>3, <3>1 DEF FenceInv, NothingAhead
      <3>3. PICK gone \in SUBSET obsolete[c] :
              vec' = [x \in ChunkId |-> IF x \in gone THEN NoCall ELSE vec[x]]
        BY <2>3 DEF DeleteBatch
      <3>4. ASSUME NEW d \in Docs(c) PROVE vec'[d] = c
        <4>1. /\ d = <<rev[c], d[2]>>
              /\ d[2] \in 0 .. MaxChunks - 1
              /\ d[2] < next[c]
              /\ d \in ChunkId
          BY <1>1, <2>3, FenceAssumption
             DEF FenceInv, TypeOK, CallSane, Docs, ChunkId, DeleteBatch
        <4>2. vec[d] = c
          BY <1>1, <2>3, <4>1 DEF FenceInv, HolderProgress
        <4>3. d \notin gone
          BY <1>1 DEF FenceInv, CallSane
        <4> QED
          BY <3>3, <4>1, <4>2, <4>3
      <3> QED
        BY <3>1, <3>2, <3>4
    <2> QED
      BY <1>1, <2>1, <2>2, <2>3, StoreSteps DEF store, Claim, Complete
  <1> QED
    BY <1>1, FenceInvariant, PTL DEF Spec, RemovalCovered

-----------------------------------------------------------------------------
\* The fence implements the register: every step is one of its steps or changes
\* nothing it can see.
LEMMA RegisterInitially == Init => Register!RegisterInit
  <1> SUFFICES ASSUME Init PROVE Register!RegisterInit
    OBVIOUS
  <1>1. VisibleRevisions = {}
    BY DEF Init, VisibleRevisions, ChunkId
  <1> QED
    BY <1>1 DEF Init, Register!RegisterInit, NoManifest

LEMMA RegisterStep ==
  ASSUME FenceInv, [Next]_vars
  PROVE  [Register!RegisterNext]_<<manifest.rev, manifest.completed, VisibleRevisions, rev, result>>
  <1> DEFINE regVars == <<manifest.rev, manifest.completed, VisibleRevisions, rev, result>>
             RStep == Register!RegisterNext \/ UNCHANGED regVars
  <1>a. manifest \in Manifest /\ rev \in [Call -> Rev] /\ Rev \subseteq Nat \ {0}
    BY FenceAssumption DEF FenceInv, TypeOK, Rev
  <1>b. manifest.rev \in Nat /\ \A c \in Call : rev[c] \in Nat
    <2>1. manifest.rev \in Nat
      BY <1>a, FenceAssumption DEF Manifest
    <2>2. ASSUME NEW c \in Call PROVE rev[c] \in Nat
      BY <1>a
    <2> QED
      BY <2>1, <2>2
  <1>1. ASSUME UNCHANGED <<manifest, vec, rev, result>>
        PROVE  RStep
    BY <1>1 DEF VisibleRevisions
  <1>2. ASSUME NEW c \in Call, ReadState(c)
        PROVE  RStep
    <2>1. PICK v \in versions :
            \/ v.rev > rev[c] /\ result' = [result EXCEPT ![c] = "superseded"]
            \/ v.rev = rev[c] /\ v.completed /\ result' = [result EXCEPT ![c] = "applied"]
            \/ UNCHANGED result
      BY <1>2 DEF ReadState, Return
    <2>2. /\ v.rev <= manifest.rev
          /\ v.rev = manifest.rev /\ v.completed => manifest.completed
          /\ v.rev \in Nat
      BY DEF FenceInv, TypeOK, Manifest, VersionsBehind
    <2>3. result[c] = "none"
      BY <1>2 DEF FenceInv, CallSane, ReadState
    <2>4. VisibleRevisions' = VisibleRevisions /\ UNCHANGED <<manifest, rev>>
      BY <1>2 DEF ReadState, store, VisibleRevisions
    <2>5. CASE UNCHANGED result
      BY <2>4, <2>5
    <2>6. CASE v.rev > rev[c] /\ result' = [result EXCEPT ![c] = "superseded"]
      <3>1. rev[c] < manifest.rev
        BY <2>2, <2>6, <1>b
      <3> QED
        BY <2>3, <2>4, <2>6, <3>1 DEF Register!RegisterNext, Register!Answer
    <2>7. CASE v.rev = rev[c] /\ v.completed /\ result' = [result EXCEPT ![c] = "applied"]
      <3>1. rev[c] < manifest.rev \/ (rev[c] = manifest.rev /\ manifest.completed)
        BY <2>2, <2>7, <1>b
      <3> QED
        BY <2>3, <2>4, <2>7, <3>1 DEF Register!RegisterNext, Register!Answer
    <2> QED
      BY <2>1, <2>5, <2>6, <2>7
  <1>3. ASSUME NEW c \in Call, Claim(c)
        PROVE  RStep
    <2>1. /\ manifest.rev <= rev[c]
          /\ ~(manifest.rev = rev[c] /\ manifest.completed)
      BY <1>3 DEF FenceInv, ClaimAllowed, Claim
    <2>2. /\ manifest'.rev = rev[c]
          /\ manifest'.completed = FALSE
          /\ VisibleRevisions' = VisibleRevisions
          /\ UNCHANGED <<rev, result>>
      BY <1>3 DEF Claim, PutManifest, VisibleRevisions
    <2>3. CASE rev[c] > manifest.rev
      BY <2>2, <2>3 DEF Register!RegisterNext, Register!ClaimNewer
    <2>4. CASE rev[c] = manifest.rev
      BY <2>1, <2>2, <2>4, <1>a DEF Manifest
    <2> QED
      BY <2>1, <2>3, <2>4, <1>b
  <1>4. ASSUME NEW c \in Call, Holds(c)
        PROVE  /\ manifest.rev = rev[c] /\ manifest.completed = FALSE
               /\ manifest.rev > 0
               /\ result[c] = "none"
    BY <1>4, <1>a DEF FenceInv, OneHolder, Holds, CallSane, Manifest
  <1>5. ASSUME NEW c \in Call, Holds(c), WriteBatch(c)
        PROVE  RStep
    <2>1. /\ manifest'.rev = manifest.rev /\ manifest'.completed = manifest.completed
          /\ UNCHANGED <<rev, result>>
      BY <1>4, <1>5 DEF WriteBatch, PutManifest
    <2>2. PICK k \in next[c] + 1 .. size[c] :
            vec' = [id \in ChunkId |->
                     IF id[1] = rev[c] /\ next[c] <= id[2] /\ id[2] < k THEN c ELSE vec[id]]
      BY <1>5 DEF WriteBatch
    <2>3. /\ next[c] \in 0 .. MaxChunks - 1
          /\ next[c] < k
      BY <2>2, FenceAssumption DEF FenceInv, TypeOK
    <2>4. <<rev[c], next[c]>> \in ChunkId /\ vec'[<<rev[c], next[c]>>] = c
      BY <2>2, <2>3, <1>a, FenceAssumption DEF ChunkId
    <2>5. ASSUME NEW r \in Rev, r # rev[c]
          PROVE  r \in VisibleRevisions' <=> r \in VisibleRevisions
      <3>1. \A i \in 0 .. MaxChunks - 1 : vec'[<<r, i>>] = vec[<<r, i>>]
        BY <2>2, <2>5 DEF ChunkId
      <3> QED
        BY <3>1 DEF VisibleRevisions
    <2>6. rev[c] \in VisibleRevisions'
      BY <2>3, <2>4, <1>a, FenceAssumption DEF VisibleRevisions
    <2>7. VisibleRevisions' = VisibleRevisions \union {manifest.rev}
      BY <2>5, <2>6, <1>4, <1>5 DEF VisibleRevisions
    <2>8. Register!Publish
      BY <2>1, <2>7, <1>4, <1>5 DEF Register!Publish
    <2> QED
      BY <2>8 DEF Register!RegisterNext
  <1>6. ASSUME NEW c \in Call, Holds(c), DeleteBatch(c)
        PROVE  RStep
    <2>1. /\ manifest'.rev = manifest.rev /\ manifest'.completed = manifest.completed
          /\ UNCHANGED <<rev, result>>
      BY <1>4, <1>6 DEF DeleteBatch, PutManifest
    <2>2. \A id \in ChunkId : vec'[id] \in {vec[id], NoCall}
      BY <1>6 DEF DeleteBatch
    <2>3. VisibleRevisions' \subseteq VisibleRevisions
      BY <2>2 DEF VisibleRevisions, ChunkId
    <2>4. Register!Withdraw
      BY <2>1, <2>3, <1>4, <1>6 DEF Register!Withdraw
    <2> QED
      BY <2>4 DEF Register!RegisterNext
  <1>7. ASSUME NEW c \in Call, Holds(c), Complete(c)
        PROVE  RStep
    <2>1. /\ manifest'.rev = manifest.rev /\ manifest'.completed = TRUE
          /\ UNCHANGED <<rev, vec>>
          /\ result' = [result EXCEPT ![c] = "applied"] \/ UNCHANGED result
      BY <1>4, <1>7 DEF Complete, PutManifest, Return
    <2>2. VisibleRevisions \subseteq {manifest.rev}
      <3>1. ASSUME NEW r \in Rev, NEW i \in 0 .. MaxChunks - 1, vec[<<r, i>>] # NoCall
            PROVE  r = rev[c]
        BY <1>7, <3>1 DEF FenceInv, HolderProgress, Complete, ChunkId, Docs
      <3> QED
        BY <3>1, <1>4, <1>7 DEF VisibleRevisions
    <2>3. VisibleRevisions' = VisibleRevisions
      BY <2>1 DEF VisibleRevisions
    <2>4. Register!Settle
      BY <2>1, <2>2, <2>3, <1>4, <1>7 DEF Register!Settle
    <2> QED
      BY <2>4 DEF Register!RegisterNext
  <1>8. CASE UNCHANGED vars
    BY <1>1, <1>8 DEF vars
  <1>9. ASSUME NEW c \in Call, Start(c) \/ Step(c) \/ Abandon(c)
        PROVE  RStep
    <2>1. CASE Start(c) \/ ClaimConflict(c) \/ FindObsolete(c) \/ Fenced(c) \/ Abandon(c)
      BY <2>1, <1>1 DEF Start, ClaimConflict, FindObsolete, Fenced, Abandon, store
    <2>2. CASE WriteBatch(c) \/ DeleteBatch(c) \/ Complete(c)
      BY <2>2, <1>5, <1>6, <1>7 DEF Holds, WriteBatch, DeleteBatch, Complete
    <2> QED
      BY <1>9, <1>2, <1>3, <2>1, <2>2 DEF Step
  <1> QED
    BY <1>8, <1>9 DEF Next, AllEnded

\* For every set of calls and all bounds, readers and senders see a revision
\* register: the detail of ETags, batches, retries and crashes is hidden.
THEOREM FenceRefinesRegister == Spec => ImplementsRegister
  <1>1. Init => Register!RegisterInit
    BY RegisterInitially
  <1>2. FenceInv /\ [Next]_vars => [Register!RegisterNext]_(Register!rvars)
    BY RegisterStep DEF Register!rvars
  <1> QED
    BY <1>1, <1>2, FenceInvariant, PTL
       DEF Spec, ImplementsRegister, Register!RegisterSpec
=============================================================================
