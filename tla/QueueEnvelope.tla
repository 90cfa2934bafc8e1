---------------------------- MODULE QueueEnvelope ----------------------------
(***************************************************************************)
(* One queue envelope on its way through the workers: QueueEnvelopeReceiver *)
(* and the parts of EmbeddingWorkerService that drive it.                  *)
(*                                                                         *)
(* The broker knows one message, the parent; its documents are settled in  *)
(* the worker's memory only, and the parent after all of them.  A document *)
(* that can never be processed is handed off first: sent back to the topic *)
(* as a message of its own, marked for the dead-letter queue.              *)
(*                                                                         *)
(* Each delivery of the parent is one run of ProcessQueueEnvelopeAsync.     *)
(* Its lock may be lost while it runs, so deliveries overlap; it may stop  *)
(* anywhere (crash, time budget, an exception).  After MaxDelivery         *)
(* deliveries the broker moves the parent to the dead-letter queue itself. *)
(***************************************************************************)
EXTENDS Naturals, FiniteSets

CONSTANTS
    Doc,            \* the documents of the envelope
    MaxDelivery     \* maxDeliveryCount of the subscription (10)

ASSUME EnvelopeAssumption == IsFiniteSet(Doc) /\ Doc # {} /\ MaxDelivery \in Nat \ {0}

VARIABLES
    healthy,    \* nothing fails but the documents that cannot be processed
    kind,       \* what becomes of each document in the worker
    parent,     \* the parent at the broker
    count,      \* deliveries so far; the last of them is the one with the lock
    applied,    \* documents written to the destination, or skipped as superseded or empty
    handoff,    \* documents sent back to the topic, marked for the dead-letter queue
    dlq,        \* documents in the dead-letter queue on their own
    phase,         \* per delivery: not yet, checking documents, processing them, over
    stage,      \* per delivery and document: how far the document is
    disposition \* per delivery and document: DocumentState.Disposition

fixed == <<healthy, kind>>
broker == <<parent, count, handoff, dlq>>
envelopeVars == <<healthy, kind, parent, count, applied, handoff, dlq, phase, stage, disposition>>

Delivery == 1 .. MaxDelivery

\* "malformed" fails the checks before processing, "rejected" the embedding (4xx).
Kind == {"good", "malformed", "rejected"}

\* The numbers 0, 1, 2, 3 and 4 of the code.
Disposition == {"none", "completed", "abandoned", "deadLettered", "handingOff"}

\* "write": may be embedded and written; "complete", "abandon", "deadLetter": what
\* the worker is about to call for it; "done": nothing more.
Stage == {"check", "write", "complete", "abandon", "deadLetter", "done"}

EnvelopeTypeOK ==
    /\ healthy \in BOOLEAN
    /\ kind \in [Doc -> Kind]
    /\ parent \in {"queued", "locked", "completed", "dead"}
    /\ count \in 0 .. MaxDelivery
    /\ applied \subseteq Doc
    /\ handoff \subseteq Doc
    /\ dlq \subseteq Doc
    /\ phase \in [Delivery -> {"none", "checking", "processing", "over"}]
    /\ stage \in [Delivery -> [Doc -> Stage]]
    /\ disposition \in [Delivery -> [Doc -> Disposition]]

EnvelopeInit ==
    /\ healthy \in BOOLEAN
    /\ kind \in [Doc -> Kind]
    /\ parent = "queued"
    /\ count = 0
    /\ applied = {}
    /\ handoff = {}
    /\ dlq = {}
    /\ phase = [n \in Delivery |-> "none"]
    /\ stage = [n \in Delivery |-> [d \in Doc |-> "check"]]
    /\ disposition = [n \in Delivery |-> [d \in Doc |-> "none"]]

-----------------------------------------------------------------------------
\* The broker.  Without its lock a delivery cannot settle the parent any more.
HoldsLock(n) == parent = "locked" /\ count = n

Receive ==
    /\ parent = "queued"
    /\ parent' = "locked"
    /\ count' = count + 1
    /\ phase' = [phase EXCEPT ![count + 1] = "checking"]
    /\ UNCHANGED <<fixed, applied, handoff, dlq, stage, disposition>>

\* What an abandoned or expired lock leaves: the next delivery or the broker's
\* own dead-lettering.
Returned == IF count = MaxDelivery THEN "dead" ELSE "queued"

LoseLock ==
    /\ ~healthy
    /\ parent = "locked"
    /\ parent' = Returned
    /\ UNCHANGED <<fixed, count, applied, handoff, dlq, phase, stage, disposition>>

\* The worker that gets a handed-off document dead-letters it at the broker.
DeadLetterHandoff(d) ==
    /\ d \in handoff
    /\ handoff' = handoff \ {d}
    /\ dlq' = dlq \union {d}
    /\ UNCHANGED <<fixed, parent, count, applied, phase, stage, disposition>>

-----------------------------------------------------------------------------
Running(n) == phase[n] \in {"checking", "processing"}

At(n, d, s) == stage' = [stage EXCEPT ![n][d] = s]

\* Interlocked.CompareExchange(ref Disposition, how, 0)
Exchanged(n, d, how) == IF disposition[n][d] = "none" THEN how ELSE disposition[n][d]

Settled(n, d, how) == disposition' = [disposition EXCEPT ![n][d] = Exchanged(n, d, how)]

\* What the scope's disposal makes of the parent: it tries to abandon it.
LetGo(n) == {parent, IF HoldsLock(n) THEN Returned ELSE parent}

\* ProcessDocumentBatchAsync, first loop: documents are checked one by one.
Check(n, d) ==
    /\ phase[n] = "checking"
    /\ stage[n][d] = "check"
    /\ \A e \in Doc : stage[n][e] # "deadLetter"
    /\ At(n, d, IF kind[d] = "malformed" THEN "deadLetter" ELSE "write")
    /\ UNCHANGED <<fixed, broker, applied, phase, disposition>>

Checked(n) ==
    /\ phase[n] = "checking"
    /\ \A d \in Doc : stage[n][d] \in {"write", "done"}
    /\ phase' = [phase EXCEPT ![n] = "processing"]
    /\ UNCHANGED <<fixed, broker, applied, stage, disposition>>

\* The bisection isolates an input the model does not accept.
Reject(n, d) ==
    /\ phase[n] = "processing"
    /\ stage[n][d] = "write"
    /\ kind[d] = "rejected"
    /\ At(n, d, "deadLetter")
    /\ UNCHANGED <<fixed, broker, applied, phase, disposition>>

\* ProcessBatchAsync: a batch of good documents is embedded and written, or fails.
AfterBatch(n, B, s) ==
    stage' = [stage EXCEPT ![n] = [d \in Doc |-> IF d \in B THEN s ELSE @[d]]]

Writable(n) == {d \in Doc : stage[n][d] = "write" /\ kind[d] = "good"}

WriteDocuments(n) ==
    /\ phase[n] = "processing"
    /\ \E B \in SUBSET Writable(n) :
        /\ B # {}
        /\ applied' = applied \union B
        /\ AfterBatch(n, B, "complete")
    /\ UNCHANGED <<fixed, broker, phase, disposition>>

\* The embedding or the write throws, perhaps after some documents were written.
\* SettleFailureAsync then dead-letters (permanent error) or abandons the whole
\* batch, with the documents that the bisection had isolated before.
Isolated(n) == {d \in Doc : kind[d] = "rejected" /\ stage[n][d] \in {"write", "done"}}

FailBatch(n) ==
    /\ phase[n] = "processing"
    /\ \E B \in SUBSET (Writable(n) \union Isolated(n)), how \in {"abandon", "deadLetter"} :
        /\ \E d \in B : stage[n][d] = "write"
        /\ \E written \in SUBSET (B \intersect Writable(n)) : applied' = applied \union written
        /\ AfterBatch(n, B, how)
    /\ UNCHANGED <<fixed, broker, phase, disposition>>

\* CompleteMessageAsync and AbandonMessageAsync of the envelope.
CompleteMessage(n, d) ==
    /\ Running(n)
    /\ stage[n][d] = "complete"
    /\ At(n, d, "done")
    /\ Settled(n, d, "completed")
    /\ UNCHANGED <<fixed, broker, applied, phase>>

AbandonMessage(n, d) ==
    /\ Running(n)
    /\ stage[n][d] = "abandon"
    /\ At(n, d, "done")
    /\ Settled(n, d, "abandoned")
    /\ UNCHANGED <<fixed, broker, applied, phase>>

\* DeadLetterMessageAsync: claim the document (or leave it to whoever settled it),
\* send the handoff, note the outcome.
HandingOff(n, d) == "handingOff"

BeginHandoff(n, d) ==
    /\ Running(n)
    /\ stage[n][d] = "deadLetter"
    /\ disposition[n][d] = "none"
    /\ disposition' = [disposition EXCEPT ![n][d] = HandingOff(n, d)]
    /\ UNCHANGED <<fixed, broker, applied, phase, stage>>

AlreadySettled(n, d) ==
    /\ Running(n)
    /\ stage[n][d] = "deadLetter"
    /\ disposition[n][d] \notin {"none", "handingOff"}
    /\ At(n, d, "done")
    /\ UNCHANGED <<fixed, broker, applied, phase, disposition>>

ConfirmHandoff(n, d) ==
    /\ Running(n)
    /\ disposition[n][d] = "handingOff"
    /\ handoff' = handoff \union {d}
    /\ disposition' = [disposition EXCEPT ![n][d] = "deadLettered"]
    /\ At(n, d, "done")
    /\ UNCHANGED <<fixed, parent, count, applied, dlq, phase>>

\* The send fails or its answer is lost.  While the documents are checked nobody
\* catches the exception; later the document is left as it was.
FailHandoff(n, d) ==
    /\ Running(n)
    /\ disposition[n][d] = "handingOff"
    /\ handoff' \in {handoff, handoff \union {d}}
    /\ disposition' = [disposition EXCEPT ![n][d] = "none"]
    /\ At(n, d, "done")
    /\ phase' = [phase EXCEPT ![n] = IF @ = "checking" THEN "over" ELSE @]
    /\ parent' \in IF phase[n] = "checking" THEN LetGo(n) ELSE {parent}
    /\ UNCHANGED <<fixed, count, applied, dlq>>

\* SettleParentAsync.  A delivery whose lock is gone only gets an exception.
NoneOpen(n) == \A d \in Doc : disposition[n][d] # "none"  \* mutant: abandoned counts as settled

AllCompleted(n) == \A d \in Doc : disposition[n][d] = "completed"  \* mutant: a handoff does not count

AllSettled(n) == \A d \in Doc : disposition[n][d] \in {"completed", "deadLettered"}

SettleParent(n) ==
    /\ phase[n] = "processing"
    /\ \A d \in Doc : stage[n][d] = "done"
    /\ phase' = [phase EXCEPT ![n] = "over"]
    /\ parent' = IF ~HoldsLock(n) THEN parent ELSE IF AllSettled(n) THEN "completed" ELSE Returned
    /\ UNCHANGED <<fixed, count, applied, handoff, dlq, stage, disposition>>

\* The run is cancelled (budget, lost lock) or throws: the scope abandons what it
\* still holds.  A crash leaves the lock to expire (LoseLock).
Stop(n) ==
    /\ Running(n)
    /\ phase' = [phase EXCEPT ![n] = "over"]
    /\ parent' \in LetGo(n)
    /\ UNCHANGED <<fixed, count, applied, handoff, dlq, stage, disposition>>

-----------------------------------------------------------------------------
\* What a worker does with a delivery, and what goes wrong in one.
Work(n) ==
    \/ Checked(n) \/ WriteDocuments(n) \/ SettleParent(n)
    \/ \E d \in Doc : \/ Check(n, d) \/ Reject(n, d) \/ CompleteMessage(n, d)
                      \/ BeginHandoff(n, d) \/ ConfirmHandoff(n, d)

Trouble(n) ==
    /\ ~healthy
    /\ \/ FailBatch(n) \/ Stop(n)
       \/ \E d \in Doc : AbandonMessage(n, d) \/ AlreadySettled(n, d) \/ FailHandoff(n, d)

Terminated ==
    /\ parent \in {"completed", "dead"}
    /\ handoff = {}
    /\ \A n \in Delivery : ~Running(n)
    /\ UNCHANGED envelopeVars

EnvelopeNext ==
    \/ Receive \/ LoseLock \/ Terminated
    \/ \E d \in Doc : DeadLetterHandoff(d)
    \/ \E n \in Delivery : Work(n) \/ Trouble(n)

EnvelopeSpec == EnvelopeInit /\ [][EnvelopeNext]_envelopeVars

-----------------------------------------------------------------------------
\* A document of the parent is safe when it was written, or is a message of its
\* own on the way to the dead-letter queue, or is there.
Safe(d) == d \in applied \union handoff \union dlq

\* The parent leaves the queue only when every one of its documents is safe: "A
\* confirmed durable handoff must precede releasing the original envelope"
\* (QueueEnvelopeReceiver.cs:82) and no document is completed unwritten.
NothingDropped == parent = "completed" => \A d \in Doc : Safe(d)

\* What a delivery remembers of a document is true of the document, also when
\* other deliveries of the same parent are still running.
DispositionTrue ==
    \A n \in Delivery, d \in Doc :
        /\ disposition[n][d] = "completed" => d \in applied
        /\ disposition[n][d] = "deadLettered" => d \in handoff \union dlq

\* The inductive invariant: with the types, the broker never delivers once too
\* often, and a document is about to be completed only when it was written.
CountBounded ==
    /\ parent = "queued" => count < MaxDelivery
    /\ parent = "locked" => count \in Delivery

WrittenFirst == \A n \in Delivery, d \in Doc : stage[n][d] = "complete" => d \in applied

EnvelopeInv == EnvelopeTypeOK /\ CountBounded /\ WrittenFirst /\ DispositionTrue /\ NothingDropped

\* A delivery settles a document once: a failure of the batch it was in does not
\* take back a handoff or a completion.
SettledOnce ==
    [][ \A n \in Delivery, d \in Doc :
            disposition[n][d] \notin {"none", "handingOff"} =>
                disposition'[n][d] = disposition[n][d] ]_envelopeVars

\* Documents that cannot be processed do not hold up the others: when nothing
\* else fails, the one delivery there is completes the parent, with every good
\* document written and only the others on their way to the dead-letter queue.
Good == {d \in Doc : kind[d] = "good"}

BadDocumentsIsolated ==
    healthy =>
        /\ parent = "queued" => count = 0
        /\ parent # "dead"
        /\ parent = "completed" => applied = Good /\ handoff \union dlq = Doc \ Good
=============================================================================
