--------------------------- MODULE PipelineWorker ---------------------------
(* The DocGrok pipeline worker, src/docgrok/pipeline-worker/worker.py: a     *)
(* request names a document and a transform; the stages of the transform     *)
(* extract pages, split them into chunks and embed the chunks in batches     *)
(* that are under way at the same time; the answer pairs every chunk with    *)
(* its vector or is an error.                                                *)
(*                                                                           *)
(* Text is modelled by its length, a chunk by its position, a vector by the  *)
(* chunk it was computed for, its dimension and whether its values are       *)
(* finite.  Requests share nothing but the built-in transforms, so they are  *)
(* served one after the other.                                               *)
EXTENDS Naturals, Sequences, FiniteSets, SequencesExt

CONSTANTS
    Requests,       \* the requests that may arrive
    MaxRequests,    \* bound: requests that are served
    MaxLength,      \* bound: length of a document's text
    MaxFrames,      \* bound: frames of a video
    DefaultSize,    \* chunk_size where the request gives none, and max_chars of PDF
    DefaultOverlap, \* overlap_chars of PDF
    ParagraphSize,  \* max_chars and overlap_chars of Word and text documents
    ParagraphOverlap,
    MinChars,       \* PDF_OCR_MIN_CHARS
    Dim,            \* dimension of the vectors of a healthy model
    BatchSize, Concurrency,
    MaxRetries,     \* retries of one CLIP request
    DirectRoute     \* whether a direct route is configured for the model

ASSUME WorkerAssumption ==
    /\ BatchSize \in Nat \ {0} /\ MaxLength \in Nat /\ MaxFrames \in Nat
    /\ DefaultSize \in Nat /\ DefaultOverlap \in Nat /\ DefaultOverlap < DefaultSize
    /\ ParagraphSize \in Nat /\ ParagraphOverlap \in Nat /\ ParagraphOverlap < ParagraphSize
    /\ \A q \in Requests : q.size \in Nat \ {0} /\ q.length \in Nat

VARIABLES
    transforms,     \* BUILTIN_TRANSFORMS, one object for all requests
    work,           \* the request under way: its stages and its context
    embedding,      \* the embedding stage under way: batches, answers
    served          \* requests so far

workerVars == <<transforms, work, embedding, served>>

-----------------------------------------------------------------------------
(* Transforms.                                                               *)

ExtractStage(doctype, ocr) == [type |-> "extract", doctype |-> doctype, ocr |-> ocr]
ChunkStage(max, overlap) == [type |-> "chunk", max |-> max, overlap |-> overlap]
Stage(type) == [type |-> type]
STAGE_CATALOG == {"extract", "caption", "chunk", "embed", "image_embed", "extract_frames"}

BUILTIN_TRANSFORMS ==
    LET TextStages(doctype, max, overlap) ==
            <<ExtractStage(doctype, "paddleocr"), ChunkStage(max, overlap), Stage("embed")>>
    IN  [pdf   |-> [accepts |-> {"pdf"}, priority |-> 10, dim |-> 0,
                    stages |-> TextStages("pdf", DefaultSize, DefaultOverlap)],
         video |-> [accepts |-> {"video"}, priority |-> 15, dim |-> Dim,
                    stages |-> <<Stage("extract_frames"), Stage("image_embed")>>],
         image |-> [accepts |-> {"image"}, priority |-> 20, dim |-> Dim, stages |-> <<Stage("image_embed")>>],
         word  |-> [accepts |-> {"docx", "doc"}, priority |-> 25, dim |-> 0,
                    stages |-> TextStages("auto", ParagraphSize, ParagraphOverlap)],
         text  |-> [accepts |-> {"text"}, priority |-> 30, dim |-> 0,
                    stages |-> TextStages("text", ParagraphSize, ParagraphOverlap)]]

\* _validate_transform of a transform that came with the request
ValidTransform(stages) ==
    /\ stages # <<>>
    /\ \A i \in DOMAIN stages : stages[i].type \in STAGE_CATALOG
    /\ Last(stages).type \in {"embed", "image_embed"}

\* _pick_transform: the first by priority that accepts the name
PickTransform(name) ==
    LET fit == {t \in DOMAIN transforms : name \in transforms[t].accepts}
    IN  {t \in fit : \A u \in fit : transforms[t].priority <= transforms[u].priority}

\* the built-in transform of a request that names none
DefaultTransform(q) ==
    IF PickTransform(q.name) # {} THEN CHOOSE t \in PickTransform(q.name) : TRUE
    ELSE IF q.source = "inline_text" THEN "text" ELSE "pdf"

\* chunk_size replaces max_chars, in a copy, and the overlap stays below it
Resized(stages, size) ==
    [i \in DOMAIN stages |->
        IF stages[i].type = "chunk"
        THEN ChunkStage(size, IF stages[i].overlap < size THEN stages[i].overlap ELSE size - 1)
        ELSE stages[i]]

\* _classify_blob_doctype: the hint, then the extension, then PDF
Doctype(name, hint) ==
    IF hint \in {"docx", "text", "pdf"} THEN hint
    ELSE IF name \in {"docx", "doc", "pdf", "text"} THEN name
    ELSE IF name = "code" THEN "text" ELSE "pdf"

-----------------------------------------------------------------------------
(* Requests.                                                                 *)

NoWork == [status |-> "idle"]
NoEmbedding == [how |-> "none"]

\* A text in the request is to be one chunk: its length and one are asked for.
ChunkSize(q) ==
    IF q.source = "inline_text" /\ q.size <= q.length THEN q.length + 1 ELSE q.size

\* The size asked for counts where no transform is named and where it is not
\* the default of the request, whatever the size of the transform.
StagesOf(q) ==
    IF q.transform = "inline" THEN q.stages
    ELSE IF q.transform # "none" THEN transforms[q.transform].stages
    ELSE IF ChunkSize(q) # DefaultSize THEN Resized(transforms[DefaultTransform(q)].stages, ChunkSize(q))
    ELSE transforms[DefaultTransform(q)].stages

\* output_dimensions, unless the caller gives the dimension of the destination
EnforcedDim(q) ==
    IF q.dim # 0 THEN q.dim
    ELSE IF q.transform = "inline" THEN 0
    ELSE IF q.transform # "none" THEN transforms[q.transform].dim
    ELSE transforms[DefaultTransform(q)].dim

Acceptable(q) ==
    /\ q.transform = "inline" => ValidTransform(q.stages)
    /\ q.transform \in {"none", "inline"} \cup DOMAIN transforms
    /\ q.source # "nothing"

Started(q) ==
    [status |-> "running", request |-> q, stages |-> StagesOf(q), dim |-> EnforcedDim(q), at |-> 1,
     skip |-> FALSE, pages |-> <<>>, chunks |-> 0, frames |-> 0, vectors |-> <<>>,
     scratch |-> {}, ocred |-> {}, answer |-> <<>>]

\* POST /process
Process(q) ==
    /\ work.status # "running" /\ served < MaxRequests
    /\ q.endpoint = "process"
    /\ served' = served + 1
    /\ work' = IF Acceptable(q) THEN Started(q) ELSE [status |-> "refused", request |-> q, scratch |-> {}]
    /\ UNCHANGED <<transforms, embedding>>

\* POST /process/blob reads expected_dim, which its request does not have
ProcessBlob(q) ==
    /\ work.status # "running" /\ served < MaxRequests
    /\ q.endpoint = "blob"
    /\ served' = served + 1
    /\ work' = [status |-> IF Acceptable(q) THEN "error" ELSE "refused", request |-> q, scratch |-> {}]
    /\ UNCHANGED <<transforms, embedding>>

UnderWay == work.stages[work.at]
AtStage(type) ==
    /\ work.status = "running" /\ embedding = NoEmbedding
    /\ work.at <= Len(work.stages)
    /\ ~work.skip
    /\ UnderWay.type = type

Advance(w) == work' = [w EXCEPT !.at = @ + 1] /\ UNCHANGED <<transforms, embedding, served>>

\* The finally of _execute_pipeline removes the PDF the context names.
Cleaned(w) == w.scratch \ {"pdf"}

Fail(w) ==
    /\ work' = [w EXCEPT !.status = "failed", !.scratch = Cleaned(w)]
    /\ embedding' = NoEmbedding
    /\ UNCHANGED <<transforms, served>>

\* a stage after the pipeline was short-circuited
SkipStage ==
    /\ work.status = "running" /\ embedding = NoEmbedding
    /\ work.skip /\ work.at <= Len(work.stages)
    /\ Advance(work)

-----------------------------------------------------------------------------
(* Extraction.                                                               *)

StageDoctype ==
    LET q == work.request IN
    IF UnderWay.doctype # "auto" THEN UnderWay.doctype
    ELSE IF q.source = "inline_text" THEN "text"
    ELSE Doctype(q.name, q.hint)

ExtractText ==
    /\ AtStage("extract") /\ StageDoctype = "text"
    /\ \E length \in 0..MaxLength :
           /\ work.request.source = "inline_text" => length = work.request.length
           /\ Advance([work EXCEPT !.pages = <<length>>])

\* A Word document from a blob is left on the disk.
ExtractWord ==
    LET kept == IF work.request.source = "blob" THEN {"word"} ELSE {} IN
    /\ AtStage("extract") /\ StageDoctype \in {"docx", "doc"}
    /\ work.request.source # "inline_text"
    /\ \/ \E length \in 0..MaxLength : Advance([work EXCEPT !.pages = <<length>>, !.scratch = @ \cup kept])
       \/ Fail([work EXCEPT !.scratch = @ \cup kept])

\* A page with enough embedded text is taken as it is; a page without any is
\* read by OCR, whatever the threshold.
OcrThreshold == IF UnderWay.ocr = "none" THEN 0 ELSE MinChars
NeedsOcr(page) == page.embedded < OcrThreshold \/ page.embedded = 0
PageLength(page) == IF NeedsOcr(page) THEN page.scanned ELSE page.embedded
Pages == [embedded : 0..MaxLength, scanned : {0, MaxLength}]

ExtractPdf ==
    LET opened == [work EXCEPT !.scratch = @ \cup {"pdf"}] IN
    /\ AtStage("extract") /\ StageDoctype = "pdf"
    /\ work.request.source # "inline_text"
    /\ \/ \E page \in Pages :
              Advance([opened EXCEPT !.pages = <<PageLength(page)>>,
                                     !.ocred = IF NeedsOcr(page) THEN {UnderWay.ocr} ELSE {}])
       \/ Fail(opened)

\* Text was given where a file is needed, a blob cannot be read or is too large.
ExtractFails ==
    /\ AtStage("extract")
    /\ \/ work.request.source = "inline_text" /\ StageDoctype # "text"
       \/ work.request.source = "blob"
    /\ Fail(work)

\* The caption is the model's or is made from the file name: it never fails.
CaptionImage == AtStage("caption") /\ Advance([work EXCEPT !.pages = <<1>>, !.chunks = 1])

ExtractFrames ==
    /\ AtStage("extract_frames")
    /\ \/ work.request.source # "inline_text" /\
              \E n \in 1..MaxFrames : Advance([work EXCEPT !.frames = n])
       \/ Fail(work)

-----------------------------------------------------------------------------
(* Chunks.                                                                   *)

FullLength == FoldLeft(LAMBDA sum, length : sum + length, 0, work.pages)
ChunkConfigValid == UnderWay.max > 0 /\ UnderWay.overlap < UnderWay.max

\* how many chunks a text gives: one if it fits, else as many as boundaries make
ChunkCounts(length, max) ==
    IF length = 0 THEN {0}
    ELSE IF length <= max THEN {1}
    ELSE {n \in 1..length : n * max >= length}

SplitChunks ==
    /\ AtStage("chunk") /\ ChunkConfigValid
    /\ \E n \in ChunkCounts(FullLength, UnderWay.max) :
           Advance([work EXCEPT !.chunks = n, !.skip = (n = 0)])

ChunkRefused == AtStage("chunk") /\ ~ChunkConfigValid /\ Fail(work)

-----------------------------------------------------------------------------
(* Embedding.                                                                *)

Missing == <<>>     \* a batch that has no answer yet
Batches(n, size) == {b \in 1..n : (b - 1) * size < n}
BatchOf(b, n, size) == LET first == (b - 1) * size + 1
                       IN  [i \in 1..(IF first + size - 1 <= n THEN size ELSE n - first + 1) |-> first + i - 1]

StartEmbedding(how, n, size) ==
    /\ embedding' = [how |-> how, count |-> n, size |-> size, sent |-> 0, under |-> {},
                     ordered |-> [b \in Batches(n, size) |-> Missing], tries |-> [b \in Batches(n, size) |-> 0]]
    /\ UNCHANGED <<transforms, work, served>>

UsesDirect(q) == q.mode # "router" /\ DirectRoute

EmbedChunks ==
    /\ AtStage("embed") /\ work.request.model
    /\ \/ UsesDirect(work.request) /\ StartEmbedding("direct", work.chunks, BatchSize)
       \/ /\ ~UsesDirect(work.request) /\ work.request.mode # "direct"
          /\ StartEmbedding("router", work.chunks, BatchSize)

EmbedRefused ==
    /\ AtStage("embed")
    /\ ~work.request.model \/ (work.request.mode = "direct" /\ ~DirectRoute)
    /\ Fail(work)

\* frames, a query text, or the one image of the request
EmbedImages ==
    /\ AtStage("image_embed")
    /\ StartEmbedding("clip", IF work.frames > 0 THEN work.frames ELSE 1, 1)

\* CLIP is not configured, or the bytes of the image cannot be read
EmbedImagesFails == AtStage("image_embed") /\ Fail(work)

Limit == IF embedding.how = "router" THEN 1 ELSE Concurrency

Send ==
    LET b == embedding.sent + 1 IN
    /\ embedding # NoEmbedding
    /\ b \in DOMAIN embedding.ordered
    /\ Cardinality(embedding.under) < Limit
    /\ embedding' = [embedding EXCEPT !.sent = b, !.under = @ \cup {b}]
    /\ UNCHANGED <<transforms, work, served>>

Vector(chunk, dim, finite) == [chunk |-> chunk, dim |-> dim, finite |-> finite]
Item(i, vector) == [index |-> i, vector |-> vector]

\* what an endpoint can answer to a batch: with vectors of another model, with
\* values that are not finite, one too few, and where items carry an index, as
\* they do in the OpenAI protocol of a direct route, in another order
Answers(batch) ==
    LET Items(dim, finite) == [i \in DOMAIN batch |-> Item(i, Vector(batch[i], dim, finite))] IN
    {Items(Dim, TRUE), Items(Dim + 1, TRUE), Items(Dim, FALSE), Tail(Items(Dim, TRUE))}
    \cup IF embedding.how = "direct" THEN {Reverse(Items(Dim, TRUE))} ELSE {}

\* a bug: the vectors are taken as they come
Unsorted(data) == [i \in DOMAIN data |-> data[i].vector]

\* sorted by index, however the endpoint listed them
Place(data, k) == 1 + Cardinality({j \in DOMAIN data : data[j].index < data[k].index})
Vectors(data) == [i \in DOMAIN data |-> data[CHOOSE k \in DOMAIN data : Place(data, k) = i].vector]

\* _decode_binary_embeddings and base64 payloads refuse values that JSON lets through
Accepted(data, batch, binary) ==
    /\ Len(data) = Len(batch)
    /\ binary => \A i \in DOMAIN data : data[i].vector.finite

BatchAnswered(b, data) ==
    /\ embedding' = [embedding EXCEPT !.under = @ \ {b}, !.ordered[b] = Vectors(data)]
    /\ UNCHANGED <<transforms, work, served>>

\* A failed batch fails the stage; what the others answered is dropped, and
\* the router is asked for everything again where the mode says so.
BatchFails ==
    IF embedding.how = "direct" /\ work.request.mode = "direct-with-router-fallback"
    THEN StartEmbedding("router", embedding.count, embedding.size)
    ELSE Fail(work)

Receive(b) ==
    LET batch == BatchOf(b, embedding.count, embedding.size) IN
    /\ embedding # NoEmbedding /\ b \in embedding.under
    /\ \E data \in Answers(batch), binary \in BOOLEAN :
           IF Accepted(data, batch, binary) THEN BatchAnswered(b, data) ELSE BatchFails

\* a bug: the error of one batch is not raised
ErrorIgnored(b) ==
    /\ embedding # NoEmbedding /\ b \in embedding.under
    /\ embedding' = [embedding EXCEPT !.under = @ \ {b}]
    /\ UNCHANGED <<transforms, work, served>>

ReceiveError(b) == embedding # NoEmbedding /\ b \in embedding.under /\ BatchFails

\* 429 and 5xx of CLIP: the request is repeated and keeps its place
Retry(b) ==
    /\ embedding # NoEmbedding /\ embedding.how = "clip" /\ b \in embedding.under
    /\ embedding.tries[b] < MaxRetries
    /\ embedding' = [embedding EXCEPT !.tries[b] = @ + 1]
    /\ UNCHANGED <<transforms, work, served>>

\* the batches in their order, whatever order they were answered in
Concatenated == FlattenSeq([b \in 1..Cardinality(DOMAIN embedding.ordered) |-> embedding.ordered[b]])

Collect ==
    /\ embedding # NoEmbedding
    /\ \A b \in DOMAIN embedding.ordered : embedding.ordered[b] # Missing
    /\ work' = [work EXCEPT !.vectors = Concatenated,
                            !.chunks = IF embedding.how = "clip" THEN embedding.count ELSE @,
                            !.at = @ + 1]
    /\ embedding' = NoEmbedding
    /\ UNCHANGED <<transforms, served>>

-----------------------------------------------------------------------------
(* The answer.                                                               *)

Complete ==
    /\ work.chunks > 0
    /\ Len(work.vectors) = work.chunks
    /\ \A i \in DOMAIN work.vectors :
           work.vectors[i].finite /\ (work.dim # 0 => work.vectors[i].dim = work.dim)

\* Of a text in the request one vector is answered, however many chunks it made.
AnswerOf(w) ==
    IF w.skip THEN <<>>
    ELSE IF w.request.source = "inline_text" THEN SubSeq(w.vectors, 1, 1)
    ELSE w.vectors

Finish ==
    /\ work.status = "running" /\ embedding = NoEmbedding
    /\ work.at > Len(work.stages)
    /\ IF work.skip \/ Complete
       THEN /\ work' = [work EXCEPT !.status = "done", !.scratch = Cleaned(work),
                                    !.answer = AnswerOf(work)]
            /\ UNCHANGED <<transforms, embedding, served>>
       ELSE Fail(work)

WorkerInit ==
    /\ transforms = BUILTIN_TRANSFORMS
    /\ work = NoWork
    /\ embedding = NoEmbedding
    /\ served = 0

WorkerStep ==
    \/ SkipStage
    \/ ExtractText \/ ExtractWord \/ ExtractPdf \/ ExtractFails
    \/ CaptionImage \/ ExtractFrames
    \/ SplitChunks \/ ChunkRefused
    \/ EmbedChunks \/ EmbedRefused \/ EmbedImages \/ EmbedImagesFails
    \/ Send
    \/ \E b \in 1..(MaxLength + MaxFrames) : Receive(b) \/ ReceiveError(b) \/ Retry(b)
    \/ Collect
    \/ Finish

WorkerNext == WorkerStep \/ \E q \in Requests : Process(q) \/ ProcessBlob(q)

\* The event loop resumes what can go on, and every HTTP call has a timeout.
WorkerFairness == WF_workerVars(WorkerStep)
WorkerSpec == WorkerInit /\ [][WorkerNext]_workerVars /\ WorkerFairness

-----------------------------------------------------------------------------

\* A successful answer gives every chunk, or the first one of a text that was
\* in the request, the vector that was computed for it, though batches are
\* answered in any order, list their vectors in any order, and a failed direct
\* attempt is repeated through the router.
PairsKept ==
    work.status = "done" /\ ~work.skip =>
        /\ work.chunks > 0
        /\ Len(work.answer) = IF work.request.source = "inline_text" THEN 1 ELSE work.chunks
        /\ \A i \in DOMAIN work.answer :
               /\ work.answer[i].chunk = i /\ work.answer[i].finite
               /\ work.dim # 0 => work.answer[i].dim = work.dim

\* the size of PDF chunks for a PDF and a blob of an unknown kind, else that of
\* paragraphs
OwnSize(q) ==
    IF \/ q.transform = "pdf"
       \/ q.transform = "none" /\ q.name = "pdf"
       \/ q.transform = "none" /\ q.name \notin {"docx", "doc", "text"} /\ q.source # "inline_text"
    THEN DefaultSize ELSE ParagraphSize

\* A request without a transform of its own is chunked with the size it asked
\* for if that is not the default of the request, else with the size of the
\* transform that was picked for its document, never with the size of an earlier
\* request, and never with an overlap the chunker refuses.  A size that happens to be
\* the default is not honoured where the transform has another one, and a text in
\* the request may so be cut, although "text input -> single vector".
SizeHonoured ==
    work.status \in {"running", "done", "failed"} /\ work.request.transform # "inline" =>
        LET q == work.request IN
        \A i \in DOMAIN work.stages : work.stages[i].type = "chunk" =>
            /\ work.stages[i].max =
                  IF q.transform = "none" /\ ChunkSize(q) # DefaultSize THEN ChunkSize(q) ELSE OwnSize(q)
            /\ work.stages[i].overlap < work.stages[i].max

\* Both hold: what is stored for a chunk is its own vector, and the chunks are
\* the request's.
ChunksFaithful == PairsKept /\ SizeHonoured

\* A request that was accepted is answered or fails; none hangs.
EveryRequestEnds == (work.status = "running") ~> (work.status # "running")

=============================================================================
