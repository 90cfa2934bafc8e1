------------------------------ MODULE Chunking ------------------------------
(* How the pipeline worker cuts a text into chunks                           *)
(* (src/docgrok/pipeline-worker/worker.py, chunk_with_strategy).  One step   *)
(* is one round of the loop of the strategy.                                 *)
(*                                                                           *)
(* A text is a sequence of characters: a stop ends a sentence, a space and a *)
(* line feed are blank, a letter is any other.  A chunk is the sequence of   *)
(* the positions it takes from the text, Joint where pieces were joined, so  *)
(* that what is lost, repeated or reordered can be seen in it.               *)
EXTENDS Naturals, Sequences, SequencesExt

CONSTANTS
    Texts,
    ChunkSettings   \* [strategy, size, overlap, min]

ASSUME ChunkingAssumption ==
    /\ \A t \in Texts : t \in Seq({"letter", "stop", "space", "feed"})
    /\ \A s \in ChunkSettings : s.size \in Nat \ {0} /\ s.overlap \in Nat /\ s.min \in Nat

VARIABLES
    text, setting,
    start,      \* characters that were consumed
    current,    \* _pack_pieces: the chunk that is being filled
    chunks,
    cut         \* "cutting", "cut", or "done" with overlap and minimum applied

chunkingVars == <<text, setting, start, current, chunks, cut>>

Joint == 0
Blank(i) == i = Joint \/ text[i] \in {"space", "feed"}
BlankRange(c) == \A i \in DOMAIN c : Blank(c[i])
Positions(from, to) == [i \in 1..(to - from) |-> from + i]
Lesser(i, j) == IF i < j THEN i ELSE j

-----------------------------------------------------------------------------
(* Windows: fixed and recursive.                                             *)

\* the end of the last a b in the window that does not open the window, or 0
Boundary(a, b, end) ==
    LET found == {i \in (start + 1)..(end - 2) : text[i + 1] = a /\ text[i + 2] = b}
    IN  IF found = {} THEN 0 ELSE Max(found) + 2

\* _chunk_text: a paragraph, else the first kind of sentence end, else the size
RecursiveEnd ==
    LET end == start + setting.size
        paragraph == Boundary("feed", "feed", end)
        sentence == Boundary("stop", "space", end)
        line == Boundary("stop", "feed", end)
    IN  IF end >= Len(text) THEN Len(text)
        ELSE IF paragraph > 0 THEN paragraph
        ELSE IF sentence > 0 THEN sentence
        ELSE IF line > 0 THEN line
        ELSE end

FixedEnd == Lesser(start + setting.size, Len(text))

Windowed == setting.strategy \in {"fixed", "recursive"}

CutWindow ==
    LET end == IF setting.strategy = "fixed" THEN FixedEnd ELSE RecursiveEnd
        chunk == Positions(start, end)
        dropped == setting.strategy = "recursive" /\ BlankRange(chunk)
    IN  /\ cut = "cutting" /\ Windowed /\ start < Len(text)
        /\ chunks' = IF dropped THEN chunks ELSE Append(chunks, chunk)
        /\ start' = end
        /\ UNCHANGED <<text, setting, current, cut>>

-----------------------------------------------------------------------------
(* Packing: paragraphs or sentences, joined up to the size.                  *)

\* what a split consumes: pairs of line feeds, or the blanks after a sentence
Separator(i) ==
    IF setting.strategy = "paragraph"
    THEN text[i] = "feed" /\ \E j \in {i - 1, i + 1} : j \in DOMAIN text /\ text[j] = "feed"
    ELSE Blank(i) /\ \E j \in 1..(i - 1) : text[j] = "stop" /\ \A k \in (j + 1)..i : Blank(k)

\* what is left to split
Rest == {i \in (start + 1)..Len(text) : ~Blank(i)}

\* The next piece, stripped: what comes before it is a separator, or blank.
Piece ==
    LET first == Min(Rest)
    IN  Positions(first - 1, Max({j \in first..Len(text) : ~Blank(j) /\ \A k \in first..j : ~Separator(k)}))

\* a bug: the rest of a piece that does not fill a chunk is lost
FullChunksOnly(piece) ==
    LET size == setting.size IN
    [n \in 1..(Len(piece) \div size) |-> SubSeq(piece, (n - 1) * size + 1, n * size)]

\* _chunk_fixed of a piece that is longer than a chunk
HardSplit(piece) ==
    LET size == setting.size IN
    [n \in 1..((Len(piece) + size - 1) \div size) |->
        SubSeq(piece, (n - 1) * size + 1, Lesser(n * size, Len(piece)))]

Flushed == IF current = <<>> THEN chunks ELSE Append(chunks, current)

Joined(piece) ==
    IF current = <<>> THEN piece
    ELSE current \o (IF setting.strategy = "paragraph" THEN <<Joint, Joint>> ELSE <<Joint>>) \o piece

PackPiece ==
    LET piece == Piece IN
    /\ cut = "cutting" /\ ~Windowed /\ Rest # {}
    /\ start' = piece[Len(piece)]
    /\ \/ /\ Len(piece) > setting.size
          /\ chunks' = Flushed \o HardSplit(piece) /\ current' = <<>>
       \/ /\ Len(piece) <= setting.size /\ Len(Joined(piece)) <= setting.size
          /\ current' = Joined(piece) /\ UNCHANGED chunks
       \/ /\ Len(piece) <= setting.size /\ Len(Joined(piece)) > setting.size
          /\ chunks' = Flushed /\ current' = piece
    /\ UNCHANGED <<text, setting, cut>>

\* Everything was consumed; a text of blanks gives no chunks but the fixed ones.
CutEnds ==
    /\ cut = "cutting"
    /\ IF Windowed THEN start = Len(text) ELSE Rest = {}
    /\ chunks' = Flushed
    /\ cut' = "cut"
    /\ UNCHANGED <<text, setting, start, current>>

-----------------------------------------------------------------------------
(* Overlap, minimum.                                                         *)

\* _add_overlap: the tail of a chunk, its own overlap included, before the next
Tailed(prev) == SubSeq(prev, Len(prev) - Lesser(setting.overlap, Len(prev)) + 1, Len(prev))
AddOverlap[k \in DOMAIN chunks] == IF k = 1 THEN chunks[1] ELSE Tailed(AddOverlap[k - 1]) \o chunks[k]

Stripped(c) == LET kept == {i \in DOMAIN c : ~Blank(c[i])}
               IN  IF kept = {} THEN 0 ELSE Max(kept) + 1 - Min(kept)

\* what is left of the first k chunks
LongEnough[k \in 0..Len(chunks)] ==
    IF k = 0 THEN <<>>
    ELSE IF setting.min = 0 \/ Stripped(AddOverlap[k]) >= setting.min THEN Append(LongEnough[k - 1], AddOverlap[k])
    ELSE LongEnough[k - 1]

ChunksDone ==
    /\ cut = "cut"
    /\ chunks' = LongEnough[Len(chunks)]
    /\ cut' = "done"
    /\ UNCHANGED <<text, setting, start, current>>

ChunkingInit ==
    /\ text \in Texts
    /\ setting \in ChunkSettings
    /\ start = 0 /\ current = <<>> /\ chunks = <<>> /\ cut = "cutting"

ChunkingNext == CutWindow \/ PackPiece \/ CutEnds \/ ChunksDone
ChunkingSpec == ChunkingInit /\ [][ChunkingNext]_chunkingVars

-----------------------------------------------------------------------------

\* Whatever the strategy, every character that is not blank is in a chunk unless
\* a minimum drops it, positions never go back within a chunk, and no chunk is
\* longer than the size and the overlap: the chunks of one document are the
\* document, and each fits the model.
NothingLost ==
    cut = "done" =>
        /\ setting.min = 0 =>
               \A i \in DOMAIN text : ~Blank(i) => \E c \in DOMAIN chunks : i \in ToSet(chunks[c])
        /\ \A c \in DOMAIN chunks :
               /\ \A i, j \in DOMAIN chunks[c] :
                      i < j /\ chunks[c][i] # Joint /\ chunks[c][j] # Joint => chunks[c][i] < chunks[c][j]
               /\ Len(chunks[c]) <= setting.size + setting.overlap
=============================================================================
