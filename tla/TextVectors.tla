---------------------------- MODULE TextVectors ----------------------------
(***************************************************************************)
(* How the text of a document becomes chunks with vectors                  *)
(* (internal/service/document_chunk_service.go, embedding_service.go): the *)
(* text is cut into pieces that overlap, the pieces are sent in batches,   *)
(* and the vectors, which come back in any order and under an index, are   *)
(* put to their pieces.                                                    *)
(*                                                                         *)
(* A text is its length, a piece the interval <<from, to>>, and a vector   *)
(* is the piece it was made of and its dimension.  Keywords, normalisation *)
(* and the wording of errors are left out.                                 *)
(***************************************************************************)
EXTENDS Naturals, Sequences

CONSTANTS
    Lengths,     \* of texts
    Target,      \* 800 in the code: the length of a piece
    Overlap,     \* 100 in the code
    BatchSizes,  \* embedding.batch_size
    Dimensions   \* embedding.dimension, 0 if it is not set; models may answer with any

NoVector == [of |-> <<>>, dimension |-> 0]

VARIABLES
    length,      \* of the text
    batchSize, dimension,
    vectors,     \* [][]float32, of the batches so far
    chunks,      \* what BuildChunks returns
    stage        \* "embed", "build", "done" or "failed"

textVars == <<length, batchSize, dimension, vectors, chunks, stage>>

TextInit ==
    /\ length \in Lengths /\ batchSize \in BatchSizes /\ dimension \in Dimensions
    /\ vectors = <<>> /\ chunks = <<>> /\ stage = "embed"

-----------------------------------------------------------------------------
\* SplitContent: windows of Target at steps of Target - Overlap, until one
\* reaches the end.  Mutant: until one would begin behind the end.
SplitContent_ToTheLast(n) ==
    LET step == Target - Overlap
        count == IF n = 0 THEN 0 ELSE ((n - 1) \div step) + 1
    IN [k \in 1 .. count |-> <<(k - 1) * step, IF (k - 1) * step + Target > n THEN n ELSE (k - 1) * step + Target>>]

SplitContent(n) ==
    LET step == Target - Overlap
        count == IF n = 0 THEN 0 ELSE IF n <= Target THEN 1 ELSE ((n - Target + step - 1) \div step) + 1
    IN [k \in 1 .. count |-> <<(k - 1) * step, IF (k - 1) * step + Target > n THEN n ELSE (k - 1) * step + Target>>]

Pieces == SplitContent(length)

\* The next batch: what follows the vectors there are.
Batch == SubSeq(Pieces, Len(vectors) + 1,
                IF Len(vectors) + batchSize > Len(Pieces) THEN Len(Pieces) ELSE Len(vectors) + batchSize)

\* An answer of the service: as many items as it likes, each with the index
\* of a text of the batch, or one that is out of range, and a vector of it.
Items == [index : 0 .. Len(Batch), dimension : Dimensions \ {0}]
Replies == UNION {[1 .. n -> Items] : n \in {Len(Batch), Len(Batch) - 1} \ {0}}

\* Mutant: the vectors in the order in which they came.
Placed_AsTheyCome(reply) ==
    [k \in 1 .. Len(reply) |-> [of |-> Batch[reply[k].index + 1], dimension |-> reply[k].dimension]]

\* Where an index comes twice the later item counts, and another place stays empty.
Placed(reply) ==
    [k \in 1 .. Len(reply) |->
        LET at == {j \in 1 .. Len(reply) : reply[j].index = k - 1} IN
        IF at = {} THEN NoVector
        ELSE [of |-> Batch[k], dimension |-> reply[CHOOSE j \in at : \A i \in at : i <= j].dimension]]

\* EmbedTexts, one batch: the call fails, the answer is refused, or it is placed.
EmbedBatch ==
    /\ stage = "embed" /\ Len(vectors) < Len(Pieces)
    /\ \/ stage' = "failed" /\ UNCHANGED vectors
       \/ \E reply \in Replies :
             IF Len(reply) = Len(Batch) /\ \A k \in 1 .. Len(reply) : reply[k].index < Len(reply)
             THEN vectors' = vectors \o Placed(reply) /\ UNCHANGED stage
             ELSE stage' = "failed" /\ UNCHANGED vectors
    /\ UNCHANGED <<length, batchSize, dimension, chunks>>

EndOfTexts ==
    /\ stage = "embed" /\ Len(vectors) = Len(Pieces)
    /\ stage' = "build"
    /\ UNCHANGED <<length, batchSize, dimension, vectors, chunks>>

\* BuildChunks: nothing is returned unless every vector has the dimension
\* that is configured, if one is.
BuildChunks ==
    /\ stage = "build"
    /\ IF dimension > 0 /\ \E k \in 1 .. Len(Pieces) : vectors[k].dimension # dimension
       THEN stage' = "failed" /\ UNCHANGED chunks
       ELSE /\ stage' = "done"
            /\ chunks' = [k \in 1 .. Len(Pieces) |-> [content |-> Pieces[k], vector |-> vectors[k]]]
    /\ UNCHANGED <<length, batchSize, dimension, vectors>>

TextNext == EmbedBatch \/ EndOfTexts \/ BuildChunks

-----------------------------------------------------------------------------
TextTypeOK == stage \in {"embed", "build", "done", "failed"} /\ Len(vectors) <= Len(Pieces)

\* The chunks of a document hold its whole text: from the beginning to the
\* end, each shares Overlap with the one before, and none lies within it.
ChunksCoverText ==
    stage = "done" =>
        /\ chunks = <<>> <=> length = 0
        /\ chunks # <<>> => chunks[1].content[1] = 0 /\ chunks[Len(chunks)].content[2] = length
        /\ \A k \in 1 .. Len(chunks) : chunks[k].content[2] - chunks[k].content[1] \in 1 .. Target
        /\ \A k \in 2 .. Len(chunks) :
              /\ chunks[k].content[1] = chunks[k - 1].content[2] - Overlap
              /\ chunks[k].content[2] > chunks[k - 1].content[2]

\* Every chunk has the vector of its own text, in one dimension, however the
\* service orders or garbles its answers; only where no dimension is
\* configured may a vector be missing.
ChunksHaveTheirVectors ==
    stage = "done" =>
        \A k \in 1 .. Len(chunks) :
            IF dimension = 0 /\ chunks[k].vector = NoVector THEN TRUE
            ELSE /\ chunks[k].vector.of = chunks[k].content
                 /\ dimension > 0 => chunks[k].vector.dimension = dimension
=============================================================================
