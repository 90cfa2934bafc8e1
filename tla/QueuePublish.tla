---------------------------- MODULE QueuePublish ----------------------------
(***************************************************************************)
(* The queue library of the Python publishers: documents are packed into   *)
(* envelopes of one route and one policy, envelopes into send batches, and *)
(* the number of accepted documents is returned once all are sent.         *)
(*                                                                         *)
(* A document has an ID, a pipeline, a route and a size; a policy has the  *)
(* limits of its pipeline.  Sizes are counted in small units, with the     *)
(* framing of an envelope smaller than what is reserved for it.            *)
(***************************************************************************)
EXTENDS Naturals, Sequences, SequencesExt

CONSTANTS Documents,   \* that a caller may publish
          MaxDocuments,\* bound: documents of a call
          Policies,    \* limits of each pipeline: count, envelope, publish, batch
          Reserved,    \* size reserved for the framing of an envelope
          Framing      \* what the framing takes, at most Reserved

\* documents and limits are validated before
ASSUME QueueAssumption ==
    /\ Framing \in Nat /\ Reserved \in Nat /\ Framing <= Reserved
    /\ MaxDocuments \in Nat
    /\ \A d \in Documents : d.size \in Nat /\ d.pipeline \in DOMAIN Policies
    /\ \A p \in DOMAIN Policies :
        /\ Policies[p].count \in Nat \ {0} /\ Policies[p].publish \in Nat \ {0}
        /\ Policies[p].envelope \in Nat /\ Policies[p].batch \in Nat

VARIABLES queueDocs,  \* documents of the call
          taken,      \* how many of them the generator has read
          packing,    \* documents of the envelope under way
          sending     \* batch under way and what the broker accepted
queueVars == <<queueDocs, taken, packing, sending>>

PolicyOf(doc) == Policies[doc.pipeline]
PackLimit(doc) == IF PolicyOf(doc).count <= PolicyOf(doc).publish THEN PolicyOf(doc).count ELSE PolicyOf(doc).publish
Added(numbers) == FoldLeft(LAMBDA sum, n : sum + n, 0, numbers)
Size(docs) == Added([i \in DOMAIN docs |-> docs[i].size])
Encoded(e) == IF Len(e) = 1 THEN e[1].size ELSE Size(e) + Len(e) - 1 + Framing
SendBatchSize(b) == Added([i \in DOMAIN b |-> Encoded(b[i])])
BatchCount(b) == Added([i \in DOMAIN b |-> Len(b[i])])

NoSending == [batch |-> <<>>, accepted |-> <<>>, count |-> 0, state |-> "open"]

QueueInit ==
    /\ queueDocs \in UNION {[1 .. n -> Documents] : n \in 0 .. MaxDocuments}
    /\ taken = 0 /\ packing = <<>> /\ sending = NoSending

-----------------------------------------------------------------------------

\* a bug: duplicates of a document share an envelope
CloseWithoutIds(doc) ==
    LET last == packing[1] IN
    \/ last.route # doc.route \/ last.pipeline # doc.pipeline
    \/ Len(packing) >= PackLimit(doc)
    \/ Size(packing) + doc.size + Len(packing) + Reserved > PolicyOf(doc).envelope

\* the document does not go into the envelope under way
Close(doc) ==
    LET last == packing[1] IN
    \/ last.route # doc.route \/ last.pipeline # doc.pipeline
    \/ Len(packing) >= PackLimit(doc)
    \/ \E i \in DOMAIN packing : packing[i].id = doc.id
    \/ Size(packing) + doc.size + Len(packing) + Reserved > PolicyOf(doc).envelope

Flush(s) ==
    IF s.batch = <<>> THEN s
    ELSE [s EXCEPT !.accepted = Append(@, s.batch), !.count = @ + BatchCount(s.batch), !.batch = <<>>]

\* an envelope joins the batch under way, or opens another one
Batched(s, e) ==
    LET limits == PolicyOf(e[1])
        other == s.batch # <<>> /\ (PolicyOf(s.batch[1][1]) # limits \/ BatchCount(s.batch) + Len(e) > limits.publish)
        open == IF other THEN Flush(s) ELSE s
        fits(x) == SendBatchSize(x.batch) + Encoded(e) <= limits.batch
        added(x) == [x EXCEPT !.batch = Append(@, e)]
    IN IF fits(open) THEN added(open)
       ELSE IF fits(Flush(open)) THEN added(Flush(open))
       ELSE [Flush(open) EXCEPT !.state = "too large"]

\* the check after an envelope is encoded
Emitted(s, e) ==
    IF Len(e) > 1 /\ Encoded(e) > PolicyOf(e[1]).envelope THEN [s EXCEPT !.state = "over limit"]
    ELSE Batched(s, e)

Take ==
    /\ sending.state = "open" /\ taken < Len(queueDocs)
    /\ taken' = taken + 1
    /\ LET doc == queueDocs[taken + 1] IN
       IF packing # <<>> /\ Close(doc)
       THEN packing' = <<doc>> /\ sending' = Emitted(sending, packing)
       ELSE packing' = Append(packing, doc) /\ UNCHANGED sending
    /\ UNCHANGED queueDocs

LastEnvelope ==
    /\ sending.state = "open" /\ taken = Len(queueDocs)
    /\ packing' = <<>>
    /\ sending' = LET s == IF packing = <<>> THEN sending ELSE Emitted(sending, packing)
                  IN IF s.state = "open" THEN [Flush(s) EXCEPT !.state = "done"] ELSE s
    /\ UNCHANGED <<queueDocs, taken>>

\* the broker refuses a batch
SendRefused ==
    /\ sending.state = "open" /\ sending.batch # <<>>
    /\ sending' = [sending EXCEPT !.state = "refused"]
    /\ UNCHANGED <<queueDocs, taken, packing>>

QueueNext == Take \/ LastEnvelope \/ SendRefused
QueueSpec == QueueInit /\ [][QueueNext]_queueVars

-----------------------------------------------------------------------------

Envelopes == FlattenSeq(sending.accepted) \o sending.batch
AcceptedDocs == FlattenSeq(FlattenSeq(sending.accepted))

\* Envelopes are what consumers rely on: each document is in one envelope, in
\* the order of the call; the documents of an envelope share their route and
\* policy and are distinct; no limit is exceeded and the check of the encoded
\* size never fires; what the broker accepted is a prefix of the call, all of it
\* when the call returns, and its number is what is returned.
EnvelopesFaithful ==
    /\ sending.state # "over limit"
    /\ IsPrefix(AcceptedDocs, queueDocs) /\ sending.count = Len(AcceptedDocs)
    /\ sending.state = "open" => FlattenSeq(Envelopes) \o packing = SubSeq(queueDocs, 1, taken)
    /\ sending.state = "done" => AcceptedDocs = queueDocs
    /\ \A i \in DOMAIN Envelopes : LET e == Envelopes[i] IN
        /\ Len(e) <= PackLimit(e[1])
        /\ Len(e) > 1 => Encoded(e) <= PolicyOf(e[1]).envelope
        /\ \A j, k \in DOMAIN e : j # k => /\ e[j].id # e[k].id
                                           /\ e[j].route = e[k].route /\ e[j].pipeline = e[k].pipeline
    /\ \A i \in DOMAIN sending.accepted : LET b == sending.accepted[i] IN
        /\ SendBatchSize(b) <= PolicyOf(b[1][1]).batch
        /\ BatchCount(b) <= PolicyOf(b[1][1]).publish
        /\ \A e \in ToSet(b) : PolicyOf(e[1]) = PolicyOf(b[1][1])
=============================================================================
