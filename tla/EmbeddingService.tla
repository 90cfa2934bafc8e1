--------------------------- MODULE EmbeddingService -------------------------
(* The embedding services BGE and CLIP (src/docgrok/services/embedding) with *)
(* their dynamic batching, and the calls the Python DocGrok service makes to *)
(* them, with its fallbacks.  Concurrent requests are gathered into one      *)
(* forward pass, whose result is cut into one slice per request.             *)
(*                                                                           *)
(* An input is a text or the URL of an image; its vector is represented by   *)
(* the input itself.                                                         *)
EXTENDS Naturals, FiniteSets, SequencesExt

CONSTANTS
    EmbedCallers,
    TextCalls,      \* inputs of /embed/batch: sequences of texts
    ImageCalls,     \* inputs of bulk image requests: sequences of URLs
    MixedCalls,     \* inputs of OpenAI requests
    DynBatchMax,    \* _DYN_BATCH_MAX
    MaxCalls        \* bound: calls in a behaviour

Inputs == UNION {ToSet(inputs) : inputs \in TextCalls \cup ImageCalls \cup MixedCalls}

\* an empty list is refused, or answered without a service
ASSUME EmbeddingAssumption == TextCalls \cup ImageCalls \cup MixedCalls \subseteq Seq(Inputs) \ {<<>>}

VARIABLES
    service,        \* "bge" or "clip"
    embedCalls,     \* the call of every caller
    requestQueue,   \* _request_queue, _image_queue
    gathered,       \* items of the batch that is being gathered or run
    forwarding,     \* whether the batch is in its forward pass
    callCount

embeddingVars == <<service, embedCalls, requestQueue, gathered, forwarding, callCount>>

NoCall == [status |-> "idle", n |-> 0]
Failed(call) == [status |-> "failed", n |-> call.n]
Ended == {"idle", "done", "failed"}
IsUrl(input) == input[1] = "url"

\* call_model posts a list to /v1/embeddings (neither service has /embed/batch),
\* and text by text to /embed when that is refused.
Sent(call) == IF call.level = "list" THEN call.inputs ELSE <<call.inputs[Len(call.out) + 1]>>

\* BGE batches every text, CLIP its images only
Urls(inputs) == FoldLeft(LAMBDA urls, input : IF IsUrl(input) THEN Append(urls, input) ELSE urls, <<>>, inputs)
Batched(call) == IF service = "bge" THEN Sent(call) ELSE Urls(Sent(call))

\* what the handler makes of the vectors of the batch: CLIP puts those of images
\* and of texts into the places of their inputs
Placed(call, vectors) ==
    IF service = "bge" THEN vectors
    ELSE LET sent == Sent(call)
             Rank(i) == Cardinality({k \in 1..i : IsUrl(sent[k])})
         IN  [i \in DOMAIN sent |-> IF IsUrl(sent[i]) THEN vectors[Rank(i)] ELSE sent[i]]

\* the caller's side of an answer
Answered(call, ok, vectors) ==
    LET out == IF call.level = "list" THEN vectors ELSE call.out \o vectors IN
    CASE ok /\ Len(out) = Len(call.inputs) -> [call EXCEPT !.status = "done", !.out = out, !.vectors = <<>>]
      [] ok /\ Len(out) < Len(call.inputs) -> [call EXCEPT !.status = "received", !.out = out, !.vectors = <<>>]
      [] ~ok /\ call.level = "list" /\ call.kind = "texts" ->
             [call EXCEPT !.status = "received", !.level = "single", !.out = <<>>]
      [] OTHER -> Failed(call)

-----------------------------------------------------------------------------
(* Requests.                                                                 *)

\* embed and embed_batch of DocGrok, and clients of /v1/embeddings itself
InputsOf(kind) ==
    CASE kind = "texts" -> TextCalls
      [] kind = "images" -> IF service = "clip" THEN ImageCalls ELSE {}
      [] kind = "openai" -> IF service = "clip" THEN MixedCalls ELSE TextCalls

Call(c) ==
    /\ embedCalls[c].status \in Ended /\ callCount < MaxCalls
    /\ callCount' = callCount + 1
    /\ \E kind \in {"texts", "images", "openai"} :
       \E inputs \in InputsOf(kind) :
           embedCalls' = [embedCalls EXCEPT ![c] = [status |-> "received", n |-> callCount + 1, kind |-> kind,
                              level |-> "list", inputs |-> inputs, out |-> <<>>, vectors |-> <<>>]]
    /\ UNCHANGED <<service, requestQueue, gathered, forwarding>>

\* embed_batched, embed_images_batched; CLIP first downloads the images
Submit(c) ==
    /\ embedCalls[c].status = "received" /\ Batched(embedCalls[c]) # <<>>
    /\ requestQueue' = Append(requestQueue, [caller |-> c, n |-> embedCalls[c].n, items |-> Batched(embedCalls[c])])
    /\ embedCalls' = [embedCalls EXCEPT ![c].status = "queued"]
    /\ UNCHANGED <<service, gathered, forwarding, callCount>>

DownloadFails(c) ==
    /\ embedCalls[c].status = "received" /\ service = "clip" /\ Batched(embedCalls[c]) # <<>>
    /\ embedCalls' = [embedCalls EXCEPT ![c] = Answered(@, FALSE, <<>>)]
    /\ UNCHANGED <<service, requestQueue, gathered, forwarding, callCount>>

\* the handler goes on with its future's result, or without a batch: the texts
\* of CLIP are embedded in the handler itself, which can fail
Reply(c) ==
    LET call == embedCalls[c]
        text == service = "clip" /\ \E i \in DOMAIN Sent(call) : ~IsUrl(Sent(call)[i])
    IN  /\ \/ call.status = "result"
           \/ call.status = "received" /\ Batched(call) = <<>>
        /\ \E ok \in IF text THEN BOOLEAN ELSE {TRUE} :
               embedCalls' = [embedCalls EXCEPT ![c] =
                                 Answered(call, ok, IF ok THEN Placed(call, call.vectors) ELSE <<>>)]
        /\ UNCHANGED <<service, requestQueue, gathered, forwarding, callCount>>

ReplyError(c) ==
    /\ embedCalls[c].status = "error"
    /\ embedCalls' = [embedCalls EXCEPT ![c] = Answered(@, FALSE, <<>>)]
    /\ UNCHANGED <<service, requestQueue, gathered, forwarding, callCount>>

\* the caller gives up; a timeout is not a reason to fall back, and the item stays
\* in the queue or in the batch
CallTimeout(c) ==
    /\ embedCalls[c].status = "queued"
    /\ embedCalls' = [embedCalls EXCEPT ![c] = Failed(@)]
    /\ UNCHANGED <<service, requestQueue, gathered, forwarding, callCount>>

-----------------------------------------------------------------------------
(* _scheduler_loop.                                                          *)

Total(items) == FoldLeft(LAMBDA sum, n : sum + n, 0, [i \in DOMAIN items |-> Len(items[i].items)])

\* the first item opens a batch, others join while the window is open
TakeItem ==
    /\ ~forwarding /\ requestQueue # <<>> /\ (gathered = <<>> \/ Total(gathered) < DynBatchMax)
    /\ gathered' = Append(gathered, Head(requestQueue))
    /\ requestQueue' = Tail(requestQueue)
    /\ UNCHANGED <<service, embedCalls, forwarding, callCount>>

\* the batch is full or the window is over
CloseWindow ==
    /\ ~forwarding /\ gathered # <<>>
    /\ forwarding' = TRUE
    /\ UNCHANGED <<service, embedCalls, requestQueue, gathered, callCount>>

\* a bug: every earlier request is taken to have one input
EvenSlice(k) ==
    SubSeq(FlattenSeq([i \in DOMAIN gathered |-> gathered[i].items]), k, k - 1 + Len(gathered[k].items))

\* the slice of the flat result that belongs to the k-th item
Slice(k) ==
    LET start == Total(SubSeq(gathered, 1, k - 1)) IN
    SubSeq(FlattenSeq([i \in DOMAIN gathered |-> gathered[i].items]), start + 1, start + Len(gathered[k].items))

Awaits(c, k) == gathered[k].caller = c /\ embedCalls[c].n = gathered[k].n /\ embedCalls[c].status = "queued"

\* a bug: a failed forward pass leaves its requests waiting
NoFanOut(ok) == [c \in EmbedCallers |->
    IF ok /\ \E k \in DOMAIN gathered : Awaits(c, k)
    THEN [embedCalls[c] EXCEPT !.status = "result",
                               !.vectors = Slice(CHOOSE k \in DOMAIN gathered : Awaits(c, k))]
    ELSE embedCalls[c]]

\* one future per item gets its slice, or all of them the exception
FanOut(ok) == [c \in EmbedCallers |->
    IF \E k \in DOMAIN gathered : Awaits(c, k)
    THEN [embedCalls[c] EXCEPT !.status = IF ok THEN "result" ELSE "error",
                               !.vectors = IF ok THEN Slice(CHOOSE k \in DOMAIN gathered : Awaits(c, k)) ELSE <<>>]
    ELSE embedCalls[c]]

Forward ==
    /\ forwarding
    /\ \E ok \in BOOLEAN : embedCalls' = FanOut(ok)
    /\ gathered' = <<>> /\ forwarding' = FALSE
    /\ UNCHANGED <<service, requestQueue, callCount>>

-----------------------------------------------------------------------------

EmbeddingInit ==
    /\ service \in {"bge", "clip"}
    /\ embedCalls = [c \in EmbedCallers |-> NoCall]
    /\ requestQueue = <<>> /\ gathered = <<>> /\ forwarding = FALSE /\ callCount = 0

EmbeddingStep ==
    \/ TakeItem \/ CloseWindow \/ Forward
    \/ \E c \in EmbedCallers : Submit(c) \/ DownloadFails(c) \/ Reply(c) \/ ReplyError(c)
EmbeddingNext == EmbeddingStep \/ \E c \in EmbedCallers : Call(c) \/ CallTimeout(c)

\* the event loop runs its tasks, and a forward pass ends
EmbeddingSpec == EmbeddingInit /\ [][EmbeddingNext]_embeddingVars /\ WF_embeddingVars(EmbeddingStep)

-----------------------------------------------------------------------------

\* A caller whose call succeeds has one vector for each of its inputs, each of
\* that input and in their order, whoever shared the forward pass and whatever
\* part of the call was repeated text by text (_scheduler_loop, call_model).
OwnVectors ==
    \A c \in EmbedCallers : embedCalls[c].status = "done" => embedCalls[c].out = embedCalls[c].inputs

\* Every call ends without its caller giving up: neither a failed forward pass
\* nor an item whose caller has gone keeps the others waiting (_scheduler_loop).
EveryCallAnswered ==
    \A n \in 1..MaxCalls :
        LET open == \E c \in EmbedCallers : embedCalls[c].n = n /\ embedCalls[c].status \notin Ended
        IN  open ~> ~open
=============================================================================
