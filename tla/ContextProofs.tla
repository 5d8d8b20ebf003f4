--------------------------- MODULE ContextProofs ---------------------------
(***************************************************************************)
(* Proofs about what a model reads: the vectors of documents and questions *)
(* (TextVectors, QueryVectors), the context of a session (SessionContext), *)
(* the passages of a search (Retrieval), and the messages of a run         *)
(* (RunContext).                                                           *)
(***************************************************************************)
EXTENDS MCContext, ListsProofs

-----------------------------------------------------------------------------
(* Texts and their vectors.                                                *)

\* Pieces lie one behind the other, from the beginning to the end, and overlap.  (SplitContent)
LEMMA PiecesCover ==
  ASSUME NEW n \in Nat
  PROVE  LET pieces == Text!SplitContent(n)
             count  == Len(pieces)
         IN  /\ pieces \in Seq(Nat \X Nat) /\ (count = 0 <=> n = 0)
             /\ count > 0 => pieces[1][1] = 0 /\ pieces[count][2] = n
             /\ \A k \in 1..count : pieces[k][2] - pieces[k][1] \in 1..Target
             /\ \A k \in 2..count : pieces[k][1] = pieces[k - 1][2] - Overlap /\ pieces[k][2] > pieces[k - 1][2]
<1> DEFINE size  == Target - Overlap
           quotient == (n - Target + size - 1) \div size
           count == IF n = 0 THEN 0 ELSE IF n <= Target THEN 1 ELSE quotient + 1
           from(k) == (k - 1) * size
           to(k) == IF from(k) + Target > n THEN n ELSE from(k) + Target
<1>1. Target \in Nat \ {0} /\ Overlap \in Nat /\ Overlap < Target /\ size \in Nat \ {0} /\ size <= Target
  BY TextAssumption
<1>2. ASSUME n > Target PROVE quotient \in Nat \ {0} /\ quotient * size >= n - Target /\ (quotient - 1) * size < n - Target
  <2>1. n - Target + size - 1 \in Nat /\ n - Target >= 1
    BY <1>1, <1>2
  <2> DEFINE a == n - Target + size - 1
  <2>2. quotient \in Nat /\ size * quotient <= a /\ a < size * quotient + size
    BY <1>1, <2>1, Quotients
  <2>3. quotient # 0
    <3>1. size * 0 = 0
      BY <1>1
    <3> HIDE DEF quotient, size
    <3> QED
      BY <1>1, <2>1, <2>2, <3>1
  <2> HIDE DEF quotient, size
  <2>4. (quotient - 1) * size = size * quotient - size /\ quotient * size = size * quotient
    BY <1>1, <2>2
  <2>5. size * quotient \in Int
    BY <1>1, <2>2
  <2> QED
    BY <1>1, <1>2, <2>2, <2>3, <2>4, <2>5
<1>3. Text!SplitContent(n) = [k \in 1..count |-> <<from(k), to(k)>>]
  BY DEF Text!SplitContent
<1>4. count \in Nat /\ (count = 0 <=> n = 0)
  BY <1>1, <1>2
<1>5. \A k \in 1..count : from(k) \in Nat /\ from(k) < n /\ (k < count => from(k) + Target < n)
  <2> SUFFICES ASSUME NEW k \in 1..count PROVE from(k) \in Nat /\ from(k) < n /\ (k < count => from(k) + Target < n)
    OBVIOUS
  <2>1. k - 1 \in Nat
    BY <1>4
  <2>2. from(k) \in Nat
    <3> HIDE DEF size, count
    <3> QED
      BY <1>1, <2>1
  <2>3. CASE n <= Target
    <3>1. k = 1 /\ count = 1 /\ n > 0
      BY <1>4, <2>3
    <3> HIDE DEF size, count
    <3>2. from(k) = 0
      BY <1>1, <3>1
    <3> QED
      BY <3>1, <3>2
  <2>4. CASE n > Target
    <3>1. count = quotient + 1 /\ quotient \in Nat \ {0}
      BY <1>1, <1>2, <2>4
    <3>2. ASSUME k < count PROVE from(k) + Target < n
      <4>1. k - 1 <= quotient - 1 /\ quotient - 1 \in Nat
        BY <2>1, <3>1, <3>2
      <4> HIDE DEF size, quotient, count
      <4>2. (k - 1) * size <= (quotient - 1) * size
        BY <1>1, <2>1, <4>1, Products
      <4>3. (quotient - 1) * size \in Int
        BY <1>1, <3>1
      <4> QED
        BY <1>1, <1>2, <2>2, <2>4, <4>2, <4>3
    <3>3. ASSUME k = count PROVE from(k) < n
      <4>1. from(k) = (quotient - 1) * size + size
        <5> HIDE DEF size, quotient
        <5> QED
          BY <1>1, <3>1, <3>3
      <4> HIDE DEF size, quotient, count
      <4>2. (quotient - 1) * size \in Int
        BY <1>1, <3>1
      <4> QED
        BY <1>1, <1>2, <2>4, <4>1, <4>2
    <3> HIDE DEF size, quotient, count
    <3> QED
      BY <1>1, <1>4, <2>2, <3>2, <3>3
  <2> QED
    BY <1>1, <2>3, <2>4
<1>6. count > 0 => to(count) = n /\ from(1) = 0
  <2> SUFFICES ASSUME count > 0 PROVE to(count) = n /\ from(1) = 0
    OBVIOUS
  <2>1. from(1) = 0
    BY <1>1
  <2>2. CASE n <= Target
    <3>1. count = 1
      BY <1>4, <2>2
    <3> HIDE DEF size, count
    <3> QED
      BY <1>1, <2>1, <2>2, <3>1
  <2>3. CASE n > Target
    <3>1. count = quotient + 1 /\ quotient \in Nat \ {0} /\ (quotient + 1) - 1 = quotient
      BY <1>1, <1>2, <2>3
    <3> HIDE DEF size, quotient, count
    <3>2. from(count) = quotient * size /\ quotient * size \in Nat
      BY <1>1, <3>1
    <3> QED
      BY <1>1, <1>2, <2>1, <2>3, <3>2
  <2> QED
    BY <1>1, <2>2, <2>3
<1>7. \A k \in 2..count : k - 1 \in 1..count /\ from(k) = from(k - 1) + size
  <2> HIDE DEF size, count
  <2> QED
    BY <1>1, <1>4
<1> HIDE DEF size, quotient, count, from
<1>8. ASSUME NEW k \in 2..count PROVE from(k) = to(k - 1) - Overlap /\ to(k) > to(k - 1)
  <2>1. k \in 1..count /\ k - 1 \in 1..count /\ k - 1 < count
    BY <1>4
  <2>2. to(k - 1) = from(k - 1) + Target
    BY <1>1, <1>5, <2>1
  <2>3. size = Target - Overlap
    BY DEF size
  <2> QED
    BY <1>1, <1>5, <1>7, <2>1, <2>2, <2>3
<1>9. \A k \in 1..count : to(k) \in Nat /\ to(k) - from(k) \in 1..Target
  BY <1>1, <1>5
<1> HIDE DEF to
<1>10. Text!SplitContent(n) \in Seq(Nat \X Nat) /\ Len(Text!SplitContent(n)) = count
  BY <1>3, <1>4, <1>5, <1>9
<1> QED
  BY <1>3, <1>4, <1>6, <1>8, <1>9, <1>10

\* What holds of the vectors so far: each is missing or that of its own piece; when the chunks are made there is one for
\* every piece.
Vectors == {Text!NoVector} \cup [of : Nat \X Nat, dimension : Nat]
TextInv ==
    /\ length \in Nat /\ batchSize \in Nat \ {0} /\ dimension \in Nat
    /\ stage \in {"embed", "build", "done", "failed"}
    /\ vectors \in Seq(Vectors) /\ Len(vectors) <= Len(Text!Pieces)
    /\ \A k \in 1..Len(vectors) : vectors[k] = Text!NoVector \/ vectors[k].of = Text!Pieces[k]
    /\ stage \in {"build", "done"} => Len(vectors) = Len(Text!Pieces)
    /\ stage = "done" =>
          /\ chunks = [k \in 1..Len(Text!Pieces) |-> [content |-> Text!Pieces[k], vector |-> vectors[k]]]
          /\ dimension > 0 => \A k \in 1..Len(Text!Pieces) : vectors[k].dimension = dimension

LEMMA TextStarts == Text!TextInit => TextInv
<1> SUFFICES ASSUME Text!TextInit PROVE TextInv
  OBVIOUS
<1>1. length \in Nat /\ batchSize \in Nat \ {0} /\ dimension \in Nat /\ vectors = <<>> /\ stage = "embed"
  BY TextAssumption DEF Text!TextInit
<1>2. Len(Text!Pieces) \in Nat
  BY <1>1, PiecesCover DEF Text!Pieces
<1> QED
  BY <1>1, <1>2 DEF TextInv

\* The vectors of an answer, each under its index, are those of the batch.
LEMMA PlacedToTheirPieces ==
  ASSUME TextInv, NEW reply \in Text!Replies, Len(reply) = Len(Text!Batch), Len(vectors) < Len(Text!Pieces)
  PROVE  /\ Text!Placed(reply) \in Seq(Vectors)
         /\ Len(vectors) + Len(Text!Placed(reply)) <= Len(Text!Pieces)
         /\ \A k \in 1..Len(Text!Placed(reply)) :
               \/ Text!Placed(reply)[k] = Text!NoVector
               \/ Text!Placed(reply)[k].of = Text!Pieces[Len(vectors) + k]
<1> DEFINE before == Len(vectors)
           end == IF before + batchSize > Len(Text!Pieces) THEN Len(Text!Pieces) ELSE before + batchSize
           n == end - before
<1>1. Text!Pieces \in Seq(Nat \X Nat) /\ batchSize \in Nat \ {0} /\ before \in Nat /\ before < Len(Text!Pieces)
  BY PiecesCover DEF TextInv, Text!Pieces
<1>2. end \in Nat /\ end <= Len(Text!Pieces) /\ n \in Nat \ {0}
  BY <1>1
<1>3. Len(Text!Batch) = n /\ \A k \in 1..n : Text!Batch[k] = Text!Pieces[before + k] /\ Text!Batch[k] \in Nat \X Nat
  <2>1. Text!Batch = SubSeq(Text!Pieces, before + 1, end)
    BY DEF Text!Batch
  <2>2. end \in before + 1..Len(Text!Pieces) /\ n = end - before
    BY <1>1
  <2> HIDE DEF n, end, before
  <2>3. Len(Text!Batch) = n
    BY <1>1, <2>1, <2>2
  <2>4. ASSUME NEW k \in 1..n PROVE Text!Batch[k] = Text!Pieces[before + k] /\ Text!Batch[k] \in Nat \X Nat
    <3>1. before + k \in 1..Len(Text!Pieces) /\ before + 1 \in Int /\ end \in Int /\ k \in 1..(end - (before + 1) + 1)
      BY <1>1, <1>2, <2>2
    <3>2. Text!Batch[k] = Text!Pieces[(before + 1) + k - 1]
      BY ONLY <1>1, <2>1, <3>1
    <3>3. (before + 1) + k - 1 = before + k
      BY <1>1
    <3> QED
      BY <1>1, <3>1, <3>2, <3>3
  <2> QED
    BY <2>3, <2>4
<1> HIDE DEF n, end
<1>4. reply \in [1..n -> Text!Items] /\ Len(reply) = n
  <2>1. PICK m \in {n, n - 1} \ {0} : reply \in [1..m -> Text!Items]
    BY <1>3 DEF Text!Replies
  <2>2. Len(reply) = m
    BY <1>2, <2>1
  <2> QED
    BY <1>3, <2>1, <2>2
<1>5. ASSUME NEW k \in 1..n
      PROVE  /\ Text!Placed(reply)[k] \in Vectors
             /\ Text!Placed(reply)[k] = Text!NoVector \/ Text!Placed(reply)[k].of = Text!Pieces[before + k]
  <2> DEFINE at == {j \in 1..n : reply[j].index = k - 1}
             last == CHOOSE j \in at : \A i \in at : i <= j
  <2>1. Text!Placed(reply)[k] = IF at = {} THEN Text!NoVector ELSE [of |-> Text!Batch[k], dimension |-> reply[last].dimension]
    BY <1>4 DEF Text!Placed
  <2>2. ASSUME at # {} PROVE reply[last].dimension \in Nat
    <3>1. at \in SUBSET Nat /\ \A j \in at : j <= n
      BY <1>2
    <3>2. PICK j \in at : \A i \in at : i <= j
      <4>1. Max(at) \in at /\ \A i \in at : Max(at) >= i
        BY <1>2, <2>2, <3>1, MaxOfNumbers
      <4> QED
        BY <3>1, <4>1
    <3>3. last \in at
      BY <3>2
    <3> QED
      BY <1>4, <3>3, TextAssumption DEF Text!Items
  <2> HIDE DEF at, last
  <2> QED
    BY <1>3, <2>1, <2>2 DEF Vectors
<1>6. Text!Placed(reply) \in Seq(Vectors) /\ Len(Text!Placed(reply)) = n
  <2>1. DOMAIN Text!Placed(reply) = 1..n /\ Text!Placed(reply) = [k \in 1..n |-> Text!Placed(reply)[k]]
    BY <1>4 DEF Text!Placed
  <2> QED
    BY <1>2, <1>5, <2>1
<1>7. before + n <= Len(Text!Pieces)
  BY <1>1, <1>2 DEF n
<1> QED
  BY <1>5, <1>6, <1>7

LEMMA TextStays == TextInv /\ [Text!TextNext]_textVars => TextInv'
<1> SUFFICES ASSUME TextInv, [Text!TextNext]_textVars PROVE TextInv'
  OBVIOUS
<1>1. CASE UNCHANGED textVars
  BY <1>1 DEF TextInv, textVars, Text!Pieces
<1>2. CASE Text!EmbedBatch
  <2>1. UNCHANGED <<length, batchSize, dimension, chunks>> /\ stage = "embed" /\ Len(vectors) < Len(Text!Pieces)
    BY <1>2 DEF Text!EmbedBatch
  <2>2. Text!Pieces' = Text!Pieces /\ Text!Pieces \in Seq(Nat \X Nat)
    BY <2>1, PiecesCover DEF Text!Pieces, TextInv
  <2>3. CASE stage' = "failed" /\ UNCHANGED vectors
    BY <2>1, <2>2, <2>3 DEF TextInv
  <2>4. CASE \E reply \in Text!Replies :
                Len(reply) = Len(Text!Batch) /\ vectors' = vectors \o Text!Placed(reply) /\ UNCHANGED stage
    <3>1. PICK reply \in Text!Replies :
                Len(reply) = Len(Text!Batch) /\ vectors' = vectors \o Text!Placed(reply) /\ UNCHANGED stage
      BY <2>4
    <3> DEFINE more == Text!Placed(reply)
    <3>2. /\ more \in Seq(Vectors) /\ Len(vectors) + Len(more) <= Len(Text!Pieces)
          /\ \A k \in 1..Len(more) : more[k] = Text!NoVector \/ more[k].of = Text!Pieces[Len(vectors) + k]
      BY <2>1, <3>1, PlacedToTheirPieces
    <3> HIDE DEF more
    <3>3. vectors \in Seq(Vectors) /\ vectors' = vectors \o more
      BY <3>1 DEF TextInv, more
    <3>4. vectors' \in Seq(Vectors) /\ Len(vectors') = Len(vectors) + Len(more)
      BY <3>2, <3>3
    <3>5. ASSUME NEW k \in 1..Len(vectors') PROVE vectors'[k] = Text!NoVector \/ vectors'[k].of = Text!Pieces[k]
      <4>1. CASE k <= Len(vectors)
        <5>1. vectors'[k] = vectors[k] /\ k \in 1..Len(vectors)
          BY <3>2, <3>3, <4>1
        <5> QED
          BY <5>1 DEF TextInv
      <4>2. CASE k > Len(vectors)
        <5>1. k - Len(vectors) \in 1..Len(more) /\ vectors'[k] = more[k - Len(vectors)]
          BY <3>2, <3>3, <3>4, <4>2
        <5>2. Len(vectors) + (k - Len(vectors)) = k
          BY <3>3
        <5> QED
          BY <3>2, <5>1, <5>2
      <4> QED
        BY <3>3, <4>1, <4>2
    <3>6. Text!NoVector' = Text!NoVector
      BY DEF Text!NoVector
    <3>7. stage' = "embed"
      BY <2>1, <3>1
    <3> QED
      BY <2>1, <2>2, <3>2, <3>4, <3>5, <3>6, <3>7 DEF TextInv, Vectors
  <2> QED
    BY <1>2, <2>3, <2>4 DEF Text!EmbedBatch
<1>3. CASE Text!EndOfTexts
  BY <1>3 DEF Text!EndOfTexts, TextInv, Text!Pieces
<1>4. CASE Text!BuildChunks
  <2>1. UNCHANGED <<length, batchSize, dimension, vectors>> /\ stage = "build"
    BY <1>4 DEF Text!BuildChunks
  <2>2. Text!Pieces' = Text!Pieces
    BY <2>1 DEF Text!Pieces
  <2>3. CASE dimension > 0 /\ \E k \in 1..Len(Text!Pieces) : vectors[k].dimension # dimension
    BY <1>4, <2>1, <2>2, <2>3 DEF Text!BuildChunks, TextInv
  <2>4. CASE ~(dimension > 0 /\ \E k \in 1..Len(Text!Pieces) : vectors[k].dimension # dimension)
    <3>1. /\ stage' = "done"
          /\ chunks' = [k \in 1..Len(Text!Pieces) |-> [content |-> Text!Pieces[k], vector |-> vectors[k]]]
      BY <1>4, <2>4 DEF Text!BuildChunks
    <3> QED
      BY <2>1, <2>2, <2>4, <3>1 DEF TextInv
  <2> QED
    BY <2>3, <2>4
<1> QED
  BY <1>1, <1>2, <1>3, <1>4 DEF Text!TextNext

\* So the chunks are what the property says.
LEMMA ChunksAreGood == TextInv => Text!TextTypeOK /\ Text!ChunksCoverText /\ Text!ChunksHaveTheirVectors
<1> SUFFICES ASSUME TextInv PROVE Text!TextTypeOK /\ Text!ChunksCoverText /\ Text!ChunksHaveTheirVectors
  OBVIOUS
<1> DEFINE count == Len(Text!Pieces)
<1>1. length \in Nat
  BY DEF TextInv
<1>2. /\ Text!Pieces \in Seq(Nat \X Nat) /\ (count = 0 <=> length = 0)
      /\ count > 0 => Text!Pieces[1][1] = 0 /\ Text!Pieces[count][2] = length
      /\ \A k \in 1..count : Text!Pieces[k][2] - Text!Pieces[k][1] \in 1..Target
      /\ \A k \in 2..count : /\ Text!Pieces[k][1] = Text!Pieces[k - 1][2] - Overlap
                             /\ Text!Pieces[k][2] > Text!Pieces[k - 1][2]
  BY <1>1, PiecesCover DEF Text!Pieces
<1>3. Text!TextTypeOK
  BY DEF TextInv, Text!TextTypeOK
<1>4. CASE stage # "done"
  BY <1>3, <1>4 DEF Text!ChunksCoverText, Text!ChunksHaveTheirVectors
<1>5. CASE stage = "done"
  <2>1. chunks = [k \in 1..count |-> [content |-> Text!Pieces[k], vector |-> vectors[k]]] /\ count \in Nat
    BY <1>2, <1>5 DEF TextInv
  <2>2. /\ Len(chunks) = count /\ (chunks = <<>> <=> count = 0)
        /\ \A k \in 1..count : chunks[k].content = Text!Pieces[k] /\ chunks[k].vector = vectors[k]
    BY <2>1
  <2> HIDE DEF count
  <2>3. Text!ChunksCoverText
    <3>1. chunks # <<>> => chunks[1].content[1] = 0 /\ chunks[Len(chunks)].content[2] = length
      BY <1>2, <2>1, <2>2
    <3>2. \A k \in 1..Len(chunks) : chunks[k].content[2] - chunks[k].content[1] \in 1..Target
      BY <1>2, <2>2
    <3>3. ASSUME NEW k \in 2..Len(chunks)
          PROVE  chunks[k].content[1] = chunks[k - 1].content[2] - Overlap /\ chunks[k].content[2] > chunks[k - 1].content[2]
      <4>1. k \in 2..count /\ k \in 1..count /\ k - 1 \in 1..count
        BY <2>1, <2>2
      <4>2. chunks[k].content = Text!Pieces[k] /\ chunks[k - 1].content = Text!Pieces[k - 1]
        BY ONLY <2>2, <4>1
      <4>3. Text!Pieces[k][1] = Text!Pieces[k - 1][2] - Overlap /\ Text!Pieces[k][2] > Text!Pieces[k - 1][2]
        BY ONLY <1>2, <4>1
      <4> QED
        BY ONLY <4>2, <4>3
    <3>4. chunks = <<>> <=> length = 0
      BY <1>2, <2>2
    <3> QED
      BY ONLY <3>1, <3>2, <3>3, <3>4 DEF Text!ChunksCoverText
  <2>4. Text!ChunksHaveTheirVectors
    <3>1. ASSUME NEW k \in 1..count, ~(dimension = 0 /\ chunks[k].vector = Text!NoVector)
          PROVE  chunks[k].vector.of = chunks[k].content /\ (dimension > 0 => chunks[k].vector.dimension = dimension)
      <4>1. dimension \in Nat /\ (dimension > 0 => vectors[k].dimension = dimension)
        BY <1>5 DEF TextInv, count
      <4>2. vectors[k] = Text!NoVector \/ vectors[k].of = Text!Pieces[k]
        BY <1>5 DEF TextInv, count
      <4>3. vectors[k] # Text!NoVector
        BY <2>2, <3>1, <4>1 DEF Text!NoVector
      <4> QED
        BY <2>2, <4>1, <4>2, <4>3
    <3> QED
      BY <2>2, <3>1 DEF Text!ChunksHaveTheirVectors
  <2> QED
    BY <1>3, <2>3, <2>4
<1> QED
  BY <1>4, <1>5

-----------------------------------------------------------------------------
(* Questions and their vectors.                                            *)

Flights == {Asked!NoFlight} \cup [pc : {"redis", "service", "write", "count"}, by : Callers, live : BOOLEAN]
Requests == {Asked!NoCaller} \cup [pc : {"got", "join", "wait", "failed"}, text : Texts, live : BOOLEAN]
Counting == {t \in Texts : flight[t].pc = "count"}

AskedTypes ==
    /\ memory \subseteq Texts /\ redis \subseteq Texts
    /\ counted \in Nat /\ copied \in Nat /\ lost \in Nat /\ asks \in 0..MaxAsks
    /\ paid \in [Texts -> Nat] /\ flight \in [Texts -> Flights] /\ caller \in [Callers -> Requests]

\* A text has been paid for at most once more than entries were lost; and not more often, while it is not in Redis and
\* no call has just paid for it, nor when a call with a context that has not ended is about to.
PaidInv ==
    \A t \in Texts :
        /\ paid[t] <= 1 + lost
        /\ flight[t].pc = "service" /\ flight[t].live => paid[t] <= lost
        /\ t \notin redis /\ flight[t].pc # "write" => paid[t] <= lost

\* What is in the map was counted, or copied from Redis, or is about to be counted.
MemoryInv ==
    /\ Cardinality(memory) <= counted + copied + Cardinality(Counting)
    /\ Cardinality(memory) <= Capacity + copied + Cardinality(Counting)

AskedInv == AskedTypes /\ PaidInv /\ MemoryInv

\* The instance counts as this module does.
LEMMA AskedCounts == \A S : Asked!Cardinality(S) = Cardinality(S)
  BY DEF Asked!Cardinality, Cardinality

LEMMA AskedIsGood == AskedInv => Asked!QueryTypeOK /\ Asked!PaidOnce /\ Asked!MemoryIsBounded
<1>1. AskedInv => Asked!QueryTypeOK
  BY DEF AskedInv, AskedTypes, Asked!QueryTypeOK
<1>2. AskedInv => Asked!PaidOnce
  BY DEF AskedInv, PaidInv, Asked!PaidOnce
<1>3. Asked!MemoryIsBounded <=> Cardinality(memory) <= Capacity + copied + Cardinality(Counting)
  BY AskedCounts DEF Counting, Asked!MemoryIsBounded
<1>4. AskedInv => Cardinality(memory) <= Capacity + copied + Cardinality(Counting)
  BY DEF AskedInv, MemoryInv
<1>5. AskedInv => Asked!MemoryIsBounded
  BY ONLY <1>3, <1>4
<1> QED
  BY <1>1, <1>2, <1>5

LEMMA AskedStarts == Asked!QueryInit => AskedInv
<1> SUFFICES ASSUME Asked!QueryInit PROVE AskedInv
  OBVIOUS
<1>1. AskedTypes
  BY AskedAssumption DEF Asked!QueryInit, AskedTypes, Flights, Requests, Asked!NoFlight, Asked!NoCaller
<1>2. PaidInv
  BY DEF Asked!QueryInit, PaidInv, Asked!NoFlight
<1>3. MemoryInv
  <2>1. Counting = {} /\ memory = {} /\ counted = 0 /\ copied = 0
    BY DEF Asked!QueryInit, Counting, Asked!NoFlight
  <2> QED
    BY <2>1, FS_EmptySet, AskedAssumption DEF MemoryInv
<1> QED
  BY <1>1, <1>2, <1>3 DEF AskedInv

\* The numbers of texts are numbers.
LEMMA AskedNumbers ==
  ASSUME AskedTypes
  PROVE  /\ IsFiniteSet(memory) /\ Cardinality(memory) \in Nat
         /\ IsFiniteSet(Counting) /\ Cardinality(Counting) \in Nat
         /\ Capacity \in Nat \ {0} /\ Share \in 1..Capacity
<1>1. memory \in SUBSET Texts /\ Counting \in SUBSET Texts /\ IsFiniteSet(Texts)
  BY AskedAssumption DEF AskedTypes, Counting
<1>2. IsFiniteSet(memory) /\ IsFiniteSet(Counting)
  BY <1>1, FS_Subset
<1> QED
  BY <1>2, FS_CardinalityType, AskedAssumption

\* The map with an entry more.
LEMMA OneMore ==
  ASSUME AskedTypes, NEW t
  PROVE  /\ Cardinality(memory \cup {t}) \in Nat
         /\ Cardinality(memory \cup {t}) = Cardinality(memory) + (IF t \in memory THEN 0 ELSE 1)
<1>1. IsFiniteSet(memory) /\ Cardinality(memory) \in Nat
  BY AskedNumbers
<1> HIDE DEF AskedTypes
<1> QED
  BY ONLY <1>1, FS_AddElement, FS_CardinalityType

\* While neither the map nor Redis changes, a step that moves no call to where it pays or counts keeps the invariant.
LEMMA RequestsKeep ==
  ASSUME AskedInv, UNCHANGED <<memory, counted, redis, lost, paid, copied>>, AskedTypes',
         \A t \in Texts :
            /\ flight'[t].pc = "count" <=> flight[t].pc = "count"
            /\ flight'[t].pc = "write" <=> flight[t].pc = "write"
            /\ flight'[t].pc = "service" /\ flight'[t].live => flight[t].pc = "service" /\ flight[t].live
  PROVE  AskedInv'
<1>1. Counting' = Counting
  BY DEF Counting
<1>2. PaidInv'
  BY DEF AskedInv, PaidInv
<1>3. MemoryInv'
  BY <1>1 DEF AskedInv, MemoryInv
<1> QED
  BY <1>2, <1>3 DEF AskedInv

LEMMA AsksKeep ==
  ASSUME AskedInv, NEW c \in Callers,
         (\E t \in Texts : Asked!Ask(c, t)) \/ Asked!Join(c) \/ Asked!Cancel(c) \/ Asked!GiveUp(c) \/ Asked!Return(c)
  PROVE  AskedInv'
<1>1. AskedTypes /\ caller[c] \in Requests
  BY DEF AskedInv, AskedTypes
<1>2. CASE \E t \in Texts : Asked!Ask(c, t)
  <2>1. PICK t \in Texts : Asked!Ask(c, t)
    BY <1>2
  <2>2. AskedTypes'
    BY <1>1, <2>1, AskedAssumption DEF AskedTypes, Asked!Ask, Requests
  <2> QED
    BY <2>1, <2>2, RequestsKeep DEF Asked!Ask
<1>3. CASE Asked!Join(c)
  <2>1. caller[c].pc = "join" /\ caller[c].text \in Texts /\ caller[c].live \in BOOLEAN
    BY <1>1, <1>3 DEF Asked!Join, Requests, Asked!NoCaller
  <2>2. caller' \in [Callers -> Requests]
    BY <1>1, <1>3 DEF Asked!Join, Requests, AskedTypes, Asked!NoCaller
  <2>3. flight' \in [Texts -> Flights]
    BY <1>1, <1>3, <2>1 DEF Asked!Join, Flights, AskedTypes
  <2>4. AskedTypes'
    BY <1>1, <1>3, <2>2, <2>3 DEF Asked!Join, AskedTypes
  <2>5. \A t \in Texts : flight'[t] = flight[t] \/ (flight[t].pc = "none" /\ flight'[t].pc = "redis")
    BY <1>1, <1>3, <2>1 DEF Asked!Join, AskedTypes, Asked!NoFlight
  <2> QED
    BY <1>3, <2>4, <2>5, RequestsKeep DEF Asked!Join
<1>4. CASE Asked!Cancel(c)
  <2>1. caller' \in [Callers -> Requests]
    <3>1. caller[c].pc \in {"join", "wait"} /\ caller[c] # Asked!NoCaller
      BY <1>4 DEF Asked!Cancel, Asked!NoCaller
    <3>2. [caller[c] EXCEPT !.live = FALSE] \in Requests
      BY <1>1, <3>1 DEF Requests
    <3>3. caller' = [caller EXCEPT ![c] = [caller[c] EXCEPT !.live = FALSE]]
      BY <1>4 DEF Asked!Cancel
    <3> QED
      BY <1>1, <3>2, <3>3 DEF AskedTypes
  <2>2. ASSUME NEW t \in Texts
        PROVE  /\ flight'[t] \in Flights /\ flight'[t].pc = flight[t].pc
               /\ flight'[t].pc = "service" /\ flight'[t].live => flight[t].live
    <3>1. flight[t] \in Flights
      BY <1>1 DEF AskedTypes
    <3>2. flight'[t] = IF flight[t] # Asked!NoFlight /\ flight[t].by = c THEN [flight[t] EXCEPT !.live = FALSE] ELSE flight[t]
      BY <1>4 DEF Asked!Cancel
    <3> QED
      BY <3>1, <3>2 DEF Flights
  <2>3. flight' = [t \in Texts |-> flight'[t]]
    BY <1>4 DEF Asked!Cancel
  <2>4. AskedTypes'
    BY <1>1, <1>4, <2>1, <2>2, <2>3 DEF Asked!Cancel, AskedTypes
  <2> QED
    BY <1>4, <2>2, <2>4, RequestsKeep DEF Asked!Cancel
<1>5. CASE Asked!GiveUp(c) \/ Asked!Return(c)
  <2>1. UNCHANGED <<memory, counted, redis, flight, asks, lost, paid, copied>> /\ caller' = [caller EXCEPT ![c] = Asked!NoCaller]
    BY <1>5 DEF Asked!GiveUp, Asked!Return
  <2>2. AskedTypes'
    BY <1>1, <2>1 DEF AskedTypes, Requests
  <2> QED
    BY <2>1, <2>2, RequestsKeep
<1> QED
  BY <1>2, <1>3, <1>4, <1>5

\* The end of a call leaves no call where it pays or counts that was not there.
LEMMA EndsTypes ==
  ASSUME AskedTypes, NEW t \in Texts, NEW result \in {"got", "failed"}, Asked!Ends(t, result)
  PROVE  /\ flight' \in [Texts -> Flights] /\ caller' \in [Callers -> Requests]
         /\ flight' = [flight EXCEPT ![t] = Asked!NoFlight]
<1>1. flight' \in [Texts -> Flights]
  BY DEF AskedTypes, Asked!Ends, Flights
<1>2. ASSUME NEW c \in Callers
      PROVE  (IF caller[c].pc = "wait" /\ caller[c].text = t THEN [caller[c] EXCEPT !.pc = result] ELSE caller[c]) \in Requests
  <2>1. caller[c] \in Requests
    BY DEF AskedTypes
  <2>2. CASE caller[c].pc = "wait"
    <3>1. caller[c] # Asked!NoCaller
      BY <2>2 DEF Asked!NoCaller
    <3> QED
      BY <2>1, <3>1 DEF Requests
  <2> QED
    BY <2>1, <2>2
<1>3. caller' \in [Callers -> Requests]
  BY <1>2 DEF Asked!Ends
<1> QED
  BY <1>1, <1>3 DEF Asked!Ends

LEMMA ReadsKeep ==
  ASSUME AskedInv, NEW t \in Texts, Asked!ReadRedis(t)
  PROVE  AskedInv'
<1>1. AskedTypes /\ flight[t].pc = "redis" /\ flight[t] \in Flights /\ flight[t] # Asked!NoFlight
  BY DEF AskedInv, AskedTypes, Asked!ReadRedis, Asked!NoFlight
<1>2. UNCHANGED <<counted, redis, asks, paid>>
  BY DEF Asked!ReadRedis
<1>3. CASE /\ t \in redis /\ flight[t].live
           /\ memory' = memory \cup {t} /\ copied' = copied + (IF t \in memory THEN 0 ELSE 1)
           /\ Asked!Ends(t, "got") /\ UNCHANGED lost
  <2>1. flight' = [flight EXCEPT ![t] = Asked!NoFlight]
    BY <1>1, <1>3, EndsTypes
  <2>2. AskedTypes'
    BY <1>1, <1>2, <1>3, EndsTypes DEF AskedTypes
  <2>3. Counting' = Counting
    BY <1>1, <2>1 DEF Counting, AskedTypes, Asked!NoFlight
  <2>4. PaidInv'
    BY <1>1, <1>2, <1>3, <2>1 DEF PaidInv, AskedInv, AskedTypes, Asked!NoFlight
  <2>5. Cardinality(memory') + copied = Cardinality(memory) + copied'
    <3>1. copied \in Nat /\ Cardinality(memory) \in Nat
      BY <1>1, AskedNumbers DEF AskedTypes
    <3> QED
      BY <1>1, <1>3, <3>1, OneMore
  <2>6. MemoryInv'
    <3>1. /\ Cardinality(memory) \in Nat /\ Cardinality(memory') \in Nat /\ Cardinality(Counting) \in Nat
          /\ Capacity \in Nat /\ copied \in Nat /\ copied' \in Nat /\ counted \in Nat /\ counted' = counted
      <4>1. /\ Cardinality(memory) \in Nat /\ Cardinality(Counting) \in Nat /\ Capacity \in Nat
            /\ copied \in Nat /\ counted \in Nat
        BY <1>1, AskedNumbers DEF AskedTypes
      <4>2. Cardinality(memory') \in Nat
        BY <1>1, <1>3, OneMore
      <4> QED
        BY <1>2, <1>3, <4>1, <4>2
    <3>2. /\ Cardinality(memory) <= counted + copied + Cardinality(Counting)
          /\ Cardinality(memory) <= Capacity + copied + Cardinality(Counting)
      BY DEF AskedInv, MemoryInv
    <3>3. Cardinality(Counting)' = Cardinality(Counting) /\ Cardinality(memory)' = Cardinality(memory')
      BY <2>3
    <3>4. /\ Cardinality(memory)' <= counted' + copied' + Cardinality(Counting)'
          /\ Cardinality(memory)' <= Capacity + copied' + Cardinality(Counting)'
      BY ONLY <2>5, <3>1, <3>2, <3>3
    <3> QED
      BY ONLY <3>4 DEF MemoryInv
  <2> QED
    BY <2>2, <2>4, <2>6 DEF AskedInv
<1>4. CASE /\ IF t \in redis /\ flight[t].live THEN Asked!Lost ELSE UNCHANGED lost
           /\ flight' = [flight EXCEPT ![t].pc = "service"]
           /\ UNCHANGED <<memory, caller, copied>>
  <2>1. flight' \in [Texts -> Flights] /\ lost' \in Nat /\ lost' >= lost /\ (t \in redis /\ flight[t].live => lost' = lost + 1)
    BY <1>1, <1>4 DEF AskedTypes, Flights, Asked!Lost
  <2>2. AskedTypes'
    BY <1>1, <1>2, <1>4, <2>1 DEF AskedTypes
  <2>3. Counting' = Counting
    BY <1>1, <1>4, <2>1 DEF Counting, AskedTypes
  <2>4. ASSUME NEW u \in Texts
        PROVE  /\ paid[u] <= 1 + lost'
               /\ flight'[u].pc = "service" /\ flight'[u].live => paid[u] <= lost'
               /\ u \notin redis /\ flight'[u].pc # "write" => paid[u] <= lost'
    <3>1. /\ paid[u] <= 1 + lost /\ (flight[u].pc = "service" /\ flight[u].live => paid[u] <= lost)
          /\ (u \notin redis /\ flight[u].pc # "write" => paid[u] <= lost)
          /\ paid[u] \in Nat /\ lost \in Nat
      BY <1>1 DEF AskedInv, PaidInv, AskedTypes
    <3>2. u # t => flight'[u] = flight[u]
      BY <1>1, <1>4 DEF AskedTypes
    <3>3. u = t => flight'[u].live = flight[t].live /\ flight[u].pc = "redis"
      BY <1>1, <1>4 DEF AskedTypes, Flights
    <3> QED
      BY <2>1, <3>1, <3>2, <3>3
  <2>5. PaidInv'
    BY <1>2, <2>4 DEF PaidInv
  <2>6. MemoryInv'
    BY <1>2, <1>4, <2>3 DEF AskedInv, MemoryInv
  <2> QED
    BY <2>2, <2>5, <2>6 DEF AskedInv
<1> QED
  BY <1>3, <1>4 DEF Asked!ReadRedis

LEMMA CallsKeep ==
  ASSUME AskedInv, NEW t \in Texts, Asked!CallService(t)
  PROVE  AskedInv'
<1>1. AskedTypes /\ flight[t].pc = "service" /\ flight[t] \in Flights /\ flight[t] # Asked!NoFlight
  BY DEF AskedInv, AskedTypes, Asked!CallService, Asked!NoFlight
<1>2. UNCHANGED <<memory, counted, redis, asks, lost, copied>>
  BY DEF Asked!CallService
<1>3. CASE /\ flight[t].live /\ flight' = [flight EXCEPT ![t].pc = "write"]
           /\ paid' = [paid EXCEPT ![t] = @ + 1] /\ UNCHANGED caller
  <2>1. AskedTypes'
    BY <1>1, <1>2, <1>3 DEF AskedTypes, Flights
  <2>2. Counting' = Counting
    BY <1>1, <1>3 DEF Counting, AskedTypes
  <2>3. PaidInv'
    BY <1>1, <1>2, <1>3 DEF PaidInv, AskedInv, AskedTypes
  <2>4. MemoryInv'
    BY <1>2, <2>2 DEF AskedInv, MemoryInv
  <2> QED
    BY <2>1, <2>3, <2>4 DEF AskedInv
<1>4. CASE Asked!Ends(t, "failed") /\ UNCHANGED paid
  <2>1. flight' = [flight EXCEPT ![t] = Asked!NoFlight]
    BY <1>1, <1>4, EndsTypes
  <2>2. AskedTypes'
    BY <1>1, <1>2, <1>4, EndsTypes DEF AskedTypes
  <2>3. Counting' = Counting
    BY <1>1, <2>1 DEF Counting, AskedTypes, Asked!NoFlight
  <2>4. PaidInv'
    BY <1>1, <1>2, <1>4, <2>1 DEF PaidInv, AskedInv, AskedTypes, Asked!NoFlight
  <2>5. MemoryInv'
    BY <1>2, <2>3 DEF AskedInv, MemoryInv
  <2> QED
    BY <2>2, <2>4, <2>5 DEF AskedInv
<1> QED
  BY <1>3, <1>4 DEF Asked!CallService

\* What is written is about to be counted.
LEMMA WritesKeep ==
  ASSUME AskedInv, NEW t \in Texts, Asked!WriteBoth(t)
  PROVE  AskedInv'
<1>1. AskedTypes /\ flight[t].pc = "write" /\ flight[t] \in Flights /\ flight[t] # Asked!NoFlight
  BY DEF AskedInv, AskedTypes, Asked!WriteBoth, Asked!NoFlight
<1>2. /\ flight' = [flight EXCEPT ![t].pc = "count"] /\ memory' = memory \cup {t}
      /\ UNCHANGED <<counted, caller, asks, paid, copied>>
  BY DEF Asked!WriteBoth
<1>3. /\ redis' \subseteq Texts /\ redis \subseteq redis' /\ lost' \in Nat /\ lost' >= lost
      /\ t \in redis' \/ lost' = lost + 1
  BY <1>1 DEF AskedTypes, Asked!WriteBoth, Asked!Lost
<1>4. flight' \in [Texts -> Flights]
  BY <1>1, <1>2 DEF AskedTypes, Flights
<1>5. AskedTypes'
  BY <1>1, <1>2, <1>3, <1>4 DEF AskedTypes
<1>6. Counting' = Counting \cup {t} /\ t \notin Counting
  BY <1>1, <1>2, <1>4 DEF Counting, AskedTypes
<1>7. PaidInv'
  <2>1. ASSUME NEW u \in Texts
        PROVE  /\ paid[u] <= 1 + lost'
               /\ flight'[u].pc = "service" /\ flight'[u].live => paid[u] <= lost'
               /\ u \notin redis' /\ flight'[u].pc # "write" => paid[u] <= lost'
    <3>1. /\ paid[u] <= 1 + lost /\ (flight[u].pc = "service" /\ flight[u].live => paid[u] <= lost)
          /\ (u \notin redis /\ flight[u].pc # "write" => paid[u] <= lost)
          /\ paid[u] \in Nat /\ lost \in Nat
      BY <1>1 DEF AskedInv, PaidInv, AskedTypes
    <3>2. u # t => flight'[u] = flight[u]
      BY <1>1, <1>2 DEF AskedTypes
    <3>3. u = t => flight'[u].pc = "count"
      BY <1>1, <1>2 DEF AskedTypes, Flights
    <3> QED
      BY <1>3, <3>1, <3>2, <3>3
  <2> QED
    BY <1>2, <2>1 DEF PaidInv
<1>8. MemoryInv'
  <2>1. /\ Cardinality(memory') <= Cardinality(memory) + 1 /\ Cardinality(Counting \cup {t}) = Cardinality(Counting) + 1
        /\ Cardinality(memory) \in Nat /\ Cardinality(memory') \in Nat /\ Cardinality(Counting) \in Nat
        /\ Capacity \in Nat /\ copied \in Nat /\ counted \in Nat
    <3>1. /\ Cardinality(memory) \in Nat /\ Cardinality(Counting) \in Nat /\ Capacity \in Nat
          /\ copied \in Nat /\ counted \in Nat /\ IsFiniteSet(Counting)
      BY <1>1, AskedNumbers DEF AskedTypes
    <3>2. Cardinality(memory') \in Nat /\ Cardinality(memory') <= Cardinality(memory) + 1
      BY <1>1, <1>2, <3>1, OneMore
    <3>3. Cardinality(Counting \cup {t}) = Cardinality(Counting) + 1
      BY <1>6, <3>1, FS_AddElement
    <3> QED
      BY <3>1, <3>2, <3>3
  <2>2. /\ Cardinality(memory) <= counted + copied + Cardinality(Counting)
        /\ Cardinality(memory) <= Capacity + copied + Cardinality(Counting)
    BY DEF AskedInv, MemoryInv
  <2>3. Cardinality(Counting)' = Cardinality(Counting) + 1 /\ Cardinality(memory)' = Cardinality(memory') /\ counted' = counted /\ copied' = copied
    BY <1>2, <1>6, <2>1
  <2>4. /\ Cardinality(memory)' <= counted' + copied' + Cardinality(Counting)'
        /\ Cardinality(memory)' <= Capacity + copied' + Cardinality(Counting)'
    BY ONLY <2>1, <2>2, <2>3
  <2> QED
    BY ONLY <2>4 DEF MemoryInv
<1> QED
  BY <1>5, <1>7, <1>8 DEF AskedInv

\* A share of the map goes when the number passes the capacity, and the number goes down by what went.
LEMMA CountsKeep ==
  ASSUME AskedInv, NEW t \in Texts, Asked!CountEntry(t)
  PROVE  AskedInv'
<1>1. AskedTypes /\ flight[t].pc = "count" /\ flight[t] \in Flights
  BY DEF AskedInv, AskedTypes, Asked!CountEntry
<1>2. Asked!Ends(t, "got") /\ UNCHANGED <<redis, asks, lost, paid, copied>>
  BY DEF Asked!CountEntry
<1>3. flight' = [flight EXCEPT ![t] = Asked!NoFlight] /\ flight' \in [Texts -> Flights] /\ caller' \in [Callers -> Requests]
  BY <1>1, <1>2, EndsTypes
<1>4. Counting' = Counting \ {t} /\ t \in Counting
  BY <1>1, <1>3 DEF Counting, AskedTypes, Asked!NoFlight
<1>5. PaidInv'
  BY <1>1, <1>2, <1>3 DEF PaidInv, AskedInv, AskedTypes, Asked!NoFlight
<1>6. /\ Cardinality(memory) \in Nat /\ Cardinality(Counting) \in Nat /\ Capacity \in Nat \ {0} /\ Share \in 1..Capacity
      /\ copied \in Nat /\ counted \in Nat /\ IsFiniteSet(memory) /\ IsFiniteSet(Counting)
  BY <1>1, AskedNumbers DEF AskedTypes
<1>7. Cardinality(Counting)' = Cardinality(Counting) - 1 /\ Cardinality(Counting) >= 1 /\ copied' = copied
  <2>1. Cardinality(Counting \ {t}) = Cardinality(Counting) - 1 /\ Cardinality(Counting \ {t}) \in Nat
    BY <1>4, <1>6, FS_RemoveElement, FS_CardinalityType
  <2> QED
    BY <1>2, <1>4, <1>6, <2>1
<1>8. /\ Cardinality(memory) <= counted + copied + Cardinality(Counting)
      /\ Cardinality(memory) <= Capacity + copied + Cardinality(Counting)
  BY DEF AskedInv, MemoryInv
<1>9. /\ memory' \subseteq Texts /\ counted' \in Nat
      /\ Cardinality(memory)' <= counted' + copied' + Cardinality(Counting)'
      /\ Cardinality(memory)' <= Capacity + copied' + Cardinality(Counting)'
  <2>1. CASE counted + 1 <= Capacity /\ counted' = counted + 1 /\ UNCHANGED memory
    BY <1>1, <1>6, <1>7, <1>8, <2>1 DEF AskedTypes
  <2>2. CASE /\ ~(counted + 1 <= Capacity)
             /\ \E gone \in SUBSET memory :
                   /\ Cardinality(gone) = (IF Cardinality(memory) < Share THEN Cardinality(memory) ELSE Share)
                   /\ memory' = memory \ gone
                   /\ counted' = counted + 1 - Cardinality(gone)
    <3>1. PICK gone \in SUBSET memory :
                   /\ Cardinality(gone) = (IF Cardinality(memory) < Share THEN Cardinality(memory) ELSE Share)
                   /\ memory' = memory \ gone
                   /\ counted' = counted + 1 - Cardinality(gone)
      BY <2>2
    <3>2. memory \cap gone = gone /\ IsFiniteSet(gone)
      BY <1>6, FS_Subset
    <3>3. Cardinality(memory \ gone) = Cardinality(memory) - Cardinality(gone) /\ Cardinality(gone) \in Nat
      BY <1>6, <3>2, FS_Difference, FS_CardinalityType
    <3>4. Cardinality(memory)' = Cardinality(memory) - Cardinality(gone)
      BY <3>1, <3>3
    <3>5. memory' \subseteq Texts
      BY <1>1, <3>1 DEF AskedTypes
    <3>6. counted' = counted + 1 - Cardinality(gone) /\ ~(counted + 1 <= Capacity)
      BY <2>2, <3>1
    <3>7. Cardinality(gone) = (IF Cardinality(memory) < Share THEN Cardinality(memory) ELSE Share)
      BY <3>1
    <3>8. Cardinality(gone) <= Share /\ (Cardinality(gone) = Cardinality(memory) \/ Cardinality(gone) >= 1)
      BY ONLY <1>6, <3>3, <3>7
    <3> QED
      BY ONLY <1>6, <1>7, <1>8, <3>3, <3>4, <3>5, <3>6, <3>8
  <2>3. CASE counted + 1 <= Capacity
    BY <2>1, <2>3 DEF Asked!CountEntry
  <2>4. CASE ~(counted + 1 <= Capacity)
    BY <2>2, <2>4, AskedCounts DEF Asked!CountEntry
  <2> QED
    BY <2>3, <2>4
<1>10. AskedTypes'
  BY <1>1, <1>2, <1>3, <1>9 DEF AskedTypes
<1>11. MemoryInv'
  BY ONLY <1>9 DEF MemoryInv
<1> QED
  BY <1>5, <1>10, <1>11 DEF AskedInv

LEMMA ExpiryKeeps ==
  ASSUME AskedInv, NEW t \in Texts, Asked!Expires(t)
  PROVE  AskedInv'
<1>1. AskedTypes /\ lost' = lost + 1 /\ redis' = redis \ {t}
      /\ UNCHANGED <<memory, counted, flight, caller, asks, paid, copied>>
  BY DEF AskedInv, Asked!Expires, Asked!Lost
<1>2. AskedTypes'
  BY <1>1 DEF AskedTypes
<1>3. PaidInv'
  BY <1>1 DEF PaidInv, AskedInv, AskedTypes
<1>4. Counting' = Counting
  BY <1>1 DEF Counting
<1>5. MemoryInv'
  BY <1>1, <1>4 DEF AskedInv, MemoryInv
<1> QED
  BY <1>2, <1>3, <1>5 DEF AskedInv

LEMMA AskedStays == AskedInv /\ [Asked!QueryNext]_askVars => AskedInv'
<1> SUFFICES ASSUME AskedInv, [Asked!QueryNext]_askVars PROVE AskedInv'
  OBVIOUS
<1>1. CASE UNCHANGED askVars
  BY <1>1 DEF AskedInv, AskedTypes, PaidInv, MemoryInv, Counting, askVars
<1>2. CASE Asked!QueryNext
  <2>1. ASSUME NEW c \in Callers,
               (\E t \in Texts : Asked!Ask(c, t)) \/ Asked!Join(c) \/ Asked!Cancel(c) \/ Asked!GiveUp(c) \/ Asked!Return(c)
        PROVE  AskedInv'
    BY <2>1, AsksKeep
  <2>2. ASSUME NEW t \in Texts, Asked!ReadRedis(t) \/ Asked!CallService(t) \/ Asked!WriteBoth(t) \/ Asked!CountEntry(t) \/ Asked!Expires(t)
        PROVE  AskedInv'
    BY <2>2, ReadsKeep, CallsKeep, WritesKeep, CountsKeep, ExpiryKeeps
  <2> QED
    BY <1>2, <2>1, <2>2 DEF Asked!QueryNext
<1> QED
  BY <1>1, <1>2

-----------------------------------------------------------------------------
(* Sessions and their summaries.                                           *)

Roles == {"user", "assistant"}
Summaries == [last : Nat, count : Nat, covers : SUBSET Nat]
Refreshes == [stage : {"idle", "list", "read", "store"}, tries : 0..Attempts, listed : Nat, base : Summaries]

\* It covers the messages up to its mark, and counts them.
Prefix(s) == s.covers = 1..s.last /\ s.count = s.last

\* A summary of n messages at most.
SummaryOf(s, n) == s \in Summaries /\ s.last <= n /\ s.covers \subseteq 1..n

\* A refresh has listed messages of the session; and unless one of them was overtaken, every summary that was stored or
\* read is one of the session's beginning.
RefreshSound(r, n, over) ==
    /\ r \in Refreshes /\ r.listed <= n
    /\ r.stage # "idle" => r.tries > 0
    /\ r.stage \in {"read", "store"} => r.listed >= MinMessages
    /\ r.stage = "store" =>
          /\ SummaryOf(r.base, n) /\ Start(r.listed, r.base) + MinSegment <= End(r.listed)
          /\ ~over => Prefix(r.base) /\ r.base.last <= r.listed

SummaryInv ==
    /\ messages \in Seq(Roles) /\ Len(messages) <= MaxMessages /\ overtaken \in BOOLEAN
    /\ SummaryOf(summary, Len(messages)) /\ (~overtaken => Prefix(summary))
    /\ DOMAIN refresh = Slots /\ \A t \in Slots : RefreshSound(refresh[t], Len(messages), overtaken)
    /\ refresh = [t \in Slots |-> refresh[t]]

LEMMA Sizes ==
  /\ TailKeep \in Nat \ {0} /\ MinSegment \in Nat \ {0} /\ MaxRecent \in Nat \ {0} /\ RecallTopK \in Nat \ {0}
  /\ Attempts \in Nat \ {0} /\ MinMessages \in Nat /\ MinMessages > TailKeep /\ MaxMessages \in Nat
BY SessionSizes

LEMMA BudgetSizes ==
  /\ Budgets \subseteq Nat /\ MarkTokens \in Nat /\ LabelTokens \in Nat /\ TailSpare \in Nat \ {0}
  /\ MaxMessages \in Nat /\ Tokens \in [1..MaxMessages -> Nat \ {0}]
BY SessionSizes

LEMMA SummaryStarts == SessionInit => SummaryInv
<1> SUFFICES ASSUME SessionInit PROVE SummaryInv
  OBVIOUS
<1>1. messages \in Seq(Roles) /\ Len(messages) <= MaxMessages /\ Len(messages) \in Nat
  BY SessionSizes DEF SessionInit, Roles
<1>2. NoSummary \in Summaries /\ SummaryOf(NoSummary, Len(messages)) /\ Prefix(NoSummary)
  BY <1>1 DEF NoSummary, Summaries, SummaryOf, Prefix
<1>3. RefreshSound(NoRefresh, Len(messages), overtaken)
  BY <1>1, <1>2, Sizes DEF RefreshSound, NoRefresh, Refreshes
<1>4. summary = NoSummary /\ refresh = [t \in Slots |-> NoRefresh] /\ overtaken \in BOOLEAN
  BY DEF SessionInit
<1> QED
  BY <1>1, <1>2, <1>3, <1>4 DEF SummaryInv

\* A session that grows, and a mark of having been overtaken that is set, keep what is sound.
LEMMA StillSound ==
  ASSUME NEW n \in Nat, NEW m \in Nat, n <= m, NEW over \in BOOLEAN, NEW later \in BOOLEAN, over => later
  PROVE  /\ \A s : SummaryOf(s, n) => SummaryOf(s, m)
         /\ \A r : RefreshSound(r, n, over) => RefreshSound(r, m, later)
<1>1. \A s : SummaryOf(s, n) => SummaryOf(s, m)
  BY DEF SummaryOf, Summaries
<1>2. ASSUME NEW r, RefreshSound(r, n, over) PROVE RefreshSound(r, m, later)
  <2>1. r \in Refreshes /\ r.listed <= m
    BY <1>2 DEF RefreshSound, Refreshes
  <2>2. r.stage = "store" => SummaryOf(r.base, m)
    BY <1>1, <1>2 DEF RefreshSound
  <2> QED
    BY <1>2, <2>1, <2>2 DEF RefreshSound
<1> QED
  BY <1>1, <1>2

\* The steps that leave the refreshes and the summary alone.
LEMMA TurnsKeepSummary ==
  ASSUME SummaryInv, UNCHANGED <<summary, refresh, overtaken>>,
         messages' = messages \/ (Len(messages) < MaxMessages /\ \E role \in Roles : messages' = Append(messages, role))
  PROVE  SummaryInv' /\ GrowsAsPrefix
<1>1. messages' \in Seq(Roles) /\ Len(messages') <= MaxMessages /\ Len(messages') \in Nat /\ Len(messages') >= Len(messages)
  <2>1. messages \in Seq(Roles) /\ Len(messages) \in Nat /\ Len(messages) <= MaxMessages /\ MaxMessages \in Nat
    BY Sizes DEF SummaryInv
  <2>2. CASE messages' = messages
    BY <2>1, <2>2
  <2>3. CASE Len(messages) < MaxMessages /\ \E role \in Roles : messages' = Append(messages, role)
    <3>1. PICK role \in Roles : messages' = Append(messages, role)
      BY <2>3
    <3>2. messages' \in Seq(Roles) /\ Len(messages') = Len(messages) + 1
      BY <2>1, <3>1
    <3> QED
      BY ONLY <2>1, <2>3, <3>2
  <2> QED
    BY <2>2, <2>3
<1>2. Len(messages) \in Nat /\ overtaken \in BOOLEAN
  BY DEF SummaryInv
<1>3. /\ SummaryOf(summary, Len(messages'))
      /\ \A t \in Slots : RefreshSound(refresh[t], Len(messages'), overtaken)
  BY <1>1, <1>2, StillSound DEF SummaryInv
<1>4. SummaryInv'
  BY <1>1, <1>3 DEF SummaryInv
<1>5. GrowsAsPrefix
  BY DEF GrowsAsPrefix, SummaryInv, SummaryOf, Prefix, Summaries
<1> QED
  BY <1>4, <1>5

\* A step of one refresh, to r.
LEMMA RefreshKeeps ==
  ASSUME SummaryInv, NEW t \in Slots, NEW r, UNCHANGED <<messages, summary>>, refresh' = [refresh EXCEPT ![t] = r],
         overtaken' \in BOOLEAN, overtaken => overtaken', RefreshSound(r, Len(messages), overtaken')
  PROVE  SummaryInv' /\ GrowsAsPrefix
<1>1. Len(messages) \in Nat /\ overtaken \in BOOLEAN
  BY DEF SummaryInv
<1>2. \A u \in Slots : RefreshSound(refresh[u], Len(messages), overtaken')
  BY <1>1, StillSound DEF SummaryInv
<1>3. \A u \in Slots : refresh'[u] = IF u = t THEN r ELSE refresh[u]
  BY DEF SummaryInv
<1>4. \A u \in Slots : RefreshSound(refresh'[u], Len(messages), overtaken')
  BY <1>2, <1>3
<1>5. DOMAIN refresh' = Slots /\ refresh' = [u \in Slots |-> refresh'[u]]
  BY DEF SummaryInv
<1>6. SummaryInv'
  BY <1>4, <1>5 DEF SummaryInv
<1>7. GrowsAsPrefix
  BY DEF GrowsAsPrefix, SummaryInv, SummaryOf, Prefix, Summaries
<1> QED
  BY <1>6, <1>7

LEMMA NoRefreshIsSound ==
  ASSUME NEW n \in Nat, NEW over
  PROVE  /\ RefreshSound(NoRefresh, n, over)
         /\ \A k \in 1..Attempts : RefreshSound([NoRefresh EXCEPT !.stage = "list", !.tries = k], n, over)
<1>1. NoSummary \in Summaries
  BY DEF NoSummary, Summaries
<1>2. NoRefresh = [stage |-> "idle", tries |-> 0, listed |-> 0, base |-> NoSummary]
  BY DEF NoRefresh
<1>3. RefreshSound(NoRefresh, n, over)
  BY <1>1, <1>2, Sizes DEF RefreshSound, Refreshes
<1>4. ASSUME NEW k \in 1..Attempts PROVE RefreshSound([NoRefresh EXCEPT !.stage = "list", !.tries = k], n, over)
  <2> DEFINE a == [NoRefresh EXCEPT !.stage = "list"]
             r == [a EXCEPT !.tries = k]
  <2>1. NoRefresh \in Refreshes /\ NoRefresh.listed = 0
    BY <1>2, <1>3 DEF RefreshSound
  <2>2. a \in Refreshes /\ a.stage = "list" /\ a.listed = 0
    BY <2>1 DEF Refreshes
  <2> HIDE DEF a
  <2>3. r \in Refreshes /\ r.stage = "list" /\ r.tries = k /\ r.listed = 0
    BY <2>2, Sizes DEF Refreshes
  <2> HIDE DEF r
  <2>4. RefreshSound(r, n, over)
    BY <2>3, Sizes DEF RefreshSound
  <2> QED
    BY <2>4 DEF r, a
<1> QED
  BY <1>3, <1>4

\* What is made of a segment and the summary before it.
LEMMA SummarisedIsSound ==
  ASSUME NEW r, NEW n \in Nat, NEW over \in BOOLEAN, RefreshSound(r, n, over), r.stage = "store"
  PROVE  /\ SummaryOf(Summarised(r.listed, r.base), n)
         /\ ~over => Prefix(Summarised(r.listed, r.base))
<1>1. r.listed \in Nat /\ r.listed <= n /\ r.base \in Summaries /\ r.base.covers \subseteq 1..n /\ r.base.last \in Nat /\ r.base.count \in Nat
  BY DEF RefreshSound, Refreshes, SummaryOf, Summaries
<1>2. End(r.listed) \in Nat /\ End(r.listed) <= n /\ Start(r.listed, r.base) \in Nat /\ Start(r.listed, r.base) <= End(r.listed)
  BY <1>1, Sizes DEF RefreshSound, End, Start
<1> DEFINE start == Start(r.listed, r.base)
           end   == End(r.listed)
           new   == [last |-> end, count |-> r.base.count + end - start, covers |-> r.base.covers \cup (start + 1)..end]
<1>3. Summarised(r.listed, r.base) = new
  BY DEF Summarised
<1>4. ~over => Prefix(new)
  <2>1. SUFFICES ASSUME ~over PROVE Prefix(new)
    OBVIOUS
  <2>2. start = r.base.last /\ r.base.covers = 1..r.base.last /\ r.base.count = r.base.last
    BY <2>1 DEF RefreshSound, Prefix, Start
  <2> QED
    BY <1>1, <1>2, <2>2 DEF Prefix
<1>5. SummaryOf(new, n)
  <2>1. (start + 1)..end \subseteq 1..n /\ r.base.count + end - start \in Nat
    BY <1>1, <1>2
  <2> QED
    BY <1>1, <1>2, <2>1 DEF SummaryOf, Summaries
<1> QED
  BY <1>3, <1>4, <1>5

LEMMA SummaryGrows ==
  ASSUME SummaryInv, [SessionNext]_sessionVars
  PROVE  SummaryInv' /\ GrowsAsPrefix
<1>0. Len(messages) \in Nat /\ overtaken \in BOOLEAN /\ \A t \in Slots : RefreshSound(refresh[t], Len(messages), overtaken)
  BY DEF SummaryInv
<1>1. CASE UNCHANGED sessionVars
  BY <1>1, TurnsKeepSummary DEF sessionVars
<1>2. ASSUME NEW t \in Slots, Ask(t) PROVE SummaryInv' /\ GrowsAsPrefix
  BY <1>2, TurnsKeepSummary DEF Ask, Roles
<1>3. ASSUME NEW t \in Slots, LoadSummary(t) \/ LoadRecent(t) \/ Assemble(t) \/ FailTurn(t) PROVE SummaryInv' /\ GrowsAsPrefix
  BY <1>3, TurnsKeepSummary DEF LoadSummary, LoadRecent, Load, Assemble, FailTurn
<1>4. ASSUME NEW t \in Slots, Answer(t) PROVE SummaryInv' /\ GrowsAsPrefix
  <2> DEFINE r == [NoRefresh EXCEPT !.stage = "list", !.tries = Attempts]
  <2>1. /\ messages' = Append(messages, "assistant") /\ Len(messages) < MaxMessages /\ UNCHANGED <<summary, overtaken>>
        /\ refresh' = [refresh EXCEPT ![t] = r]
    BY <1>4 DEF Answer
  <2>2. messages' \in Seq(Roles) /\ Len(messages') \in Nat /\ Len(messages') <= MaxMessages /\ Len(messages') >= Len(messages)
    BY <2>1, Sizes DEF SummaryInv, Roles
  <2>3. Attempts \in 1..Attempts
    BY Sizes
  <2>4. RefreshSound(r, Len(messages'), overtaken)
    BY <2>2, <2>3, NoRefreshIsSound
  <2>5. SummaryOf(summary, Len(messages')) /\ \A u \in Slots : RefreshSound(refresh[u], Len(messages'), overtaken)
    BY <1>0, <2>2, StillSound DEF SummaryInv
  <2>6. \A u \in Slots : refresh'[u] = IF u = t THEN r ELSE refresh[u]
    BY <2>1 DEF SummaryInv
  <2>7. \A u \in Slots : RefreshSound(refresh'[u], Len(messages'), overtaken)
    BY <2>4, <2>5, <2>6
  <2>8. DOMAIN refresh' = Slots /\ refresh' = [u \in Slots |-> refresh'[u]]
    BY <2>1 DEF SummaryInv
  <2> HIDE DEF r
  <2>9. SummaryInv'
    BY <2>1, <2>2, <2>5, <2>7, <2>8 DEF SummaryInv
  <2>10. GrowsAsPrefix
    BY <2>1 DEF GrowsAsPrefix, SummaryInv, SummaryOf, Prefix, Summaries
  <2> QED
    BY <2>9, <2>10
<1>5. ASSUME NEW t \in Slots, ListMessages(t) PROVE SummaryInv' /\ GrowsAsPrefix
  <2> DEFINE r == IF Len(messages) < MinMessages THEN NoRefresh ELSE [refresh[t] EXCEPT !.stage = "read", !.listed = Len(messages)]
  <2>1. refresh' = [refresh EXCEPT ![t] = r] /\ UNCHANGED <<messages, summary, overtaken>> /\ refresh[t].stage = "list"
    BY <1>5 DEF ListMessages
  <2>2. RefreshSound(r, Len(messages), overtaken)
    <3>1. CASE Len(messages) < MinMessages
      BY <1>0, <3>1, NoRefreshIsSound
    <3>2. CASE ~(Len(messages) < MinMessages)
      <4>1. RefreshSound(refresh[t], Len(messages), overtaken) /\ r = [refresh[t] EXCEPT !.stage = "read", !.listed = Len(messages)]
        BY <1>0, <3>2
      <4>2. r \in Refreshes /\ r.stage = "read" /\ r.listed = Len(messages) /\ r.tries = refresh[t].tries
        BY <1>0, <4>1 DEF RefreshSound, Refreshes
      <4> HIDE DEF r
      <4> QED
        BY <1>0, <2>1, <3>2, <4>1, <4>2, Sizes DEF RefreshSound
    <3> QED
      BY <3>1, <3>2
  <2> HIDE DEF r
  <2> QED
    BY <1>0, <2>1, <2>2, RefreshKeeps
<1>6. ASSUME NEW t \in Slots, ReadSummary(t) PROVE SummaryInv' /\ GrowsAsPrefix
  <2>1. PICK base \in {summary, NoSummary} :
         /\ refresh' = [refresh EXCEPT ![t] =
                 IF End(refresh[t].listed) < Start(refresh[t].listed, base) + MinSegment THEN NoRefresh
                 ELSE [refresh[t] EXCEPT !.stage = "store", !.base = base]]
         /\ overtaken' = (overtaken \/ base.last > refresh[t].listed)
    BY <1>6 DEF ReadSummary
  <2>2. refresh[t].stage = "read" /\ UNCHANGED <<messages, summary>>
    BY <1>6 DEF ReadSummary
  <2> DEFINE old == refresh[t]
             r == IF End(old.listed) < Start(old.listed, base) + MinSegment THEN NoRefresh
                  ELSE [old EXCEPT !.stage = "store", !.base = base]
  <2>3. SummaryOf(base, Len(messages)) /\ (~overtaken => Prefix(base))
    <3>1. SummaryOf(NoSummary, Len(messages)) /\ Prefix(NoSummary)
      BY <1>0 DEF NoSummary, SummaryOf, Prefix, Summaries
    <3> QED
      BY <3>1 DEF SummaryInv
  <2>4. overtaken' \in BOOLEAN /\ (overtaken => overtaken')
    BY <1>0, <2>1
  <2>5. RefreshSound(r, Len(messages), overtaken')
    <3>1. CASE End(old.listed) < Start(old.listed, base) + MinSegment
      BY <1>0, <3>1, NoRefreshIsSound
    <3>2. CASE ~(End(old.listed) < Start(old.listed, base) + MinSegment)
      <4>1. RefreshSound(old, Len(messages), overtaken) /\ old.stage = "read"
        BY <1>0, <2>2
      <4>2. r = [old EXCEPT !.stage = "store", !.base = base]
        BY <3>2
      <4>3. old \in Refreshes /\ base \in Summaries /\ old.listed \in Nat /\ base.last \in Nat
        BY <2>3, <4>1 DEF RefreshSound, SummaryOf, Refreshes, Summaries
      <4>4. r \in Refreshes /\ r.stage = "store" /\ r.base = base /\ r.listed = old.listed /\ r.tries = old.tries
        BY <4>2, <4>3 DEF Refreshes
      <4>5. Start(old.listed, base) + MinSegment <= End(old.listed)
        <5>1. Start(old.listed, base) \in Nat /\ End(old.listed) \in Int /\ MinSegment \in Nat
          BY <4>3, Sizes DEF Start, End
        <5> HIDE DEF r, old
        <5> QED
          BY ONLY <3>2, <5>1
      <4>6. ~overtaken' => Prefix(base) /\ base.last <= old.listed
        <5>1. ~overtaken' => ~overtaken /\ ~(base.last > refresh[t].listed)
          BY ONLY <2>1, Zenon
        <5>2. ~(base.last > old.listed) => base.last <= old.listed
          BY <4>3
        <5> QED
          BY ONLY <2>3, <5>1, <5>2
      <4> HIDE DEF r, old
      <4> QED
        BY <2>3, <4>1, <4>4, <4>5, <4>6 DEF RefreshSound
    <3> QED
      BY <3>1, <3>2
  <2>6. refresh' = [refresh EXCEPT ![t] = r]
    BY <2>1
  <2> HIDE DEF r
  <2> QED
    BY <1>0, <2>2, <2>4, <2>5, <2>6, RefreshKeeps
<1>7. ASSUME NEW t \in Slots, StoreSummary(t) PROVE SummaryInv' /\ GrowsAsPrefix
  <2> DEFINE new == Summarised(refresh[t].listed, refresh[t].base)
  <2>1. /\ refresh[t].stage = "store" /\ summary' = Upsert(new) /\ refresh' = [refresh EXCEPT ![t] = NoRefresh]
        /\ UNCHANGED <<messages, turn, overtaken>>
    BY <1>7 DEF StoreSummary
  <2>2. SummaryOf(new, Len(messages)) /\ (~overtaken => Prefix(new))
    BY <1>0, <2>1, SummarisedIsSound
  <2> HIDE DEF new
  <2>3. SummaryOf(summary, Len(messages)) /\ (~overtaken => Prefix(summary))
    BY DEF SummaryInv
  <2>4. (summary' = new /\ (summary = NoSummary \/ new.count > summary.count)) \/ summary' = summary
    BY <2>1 DEF Upsert
  <2>5. SummaryOf(summary', Len(messages)) /\ (~overtaken => Prefix(summary'))
    BY <2>2, <2>3, <2>4
  <2>6. ~overtaken => summary'.last >= summary.last
    BY <2>2, <2>3, <2>4 DEF Prefix, SummaryOf, Summaries, NoSummary
  <2>7. \A u \in Slots : RefreshSound(refresh'[u], Len(messages), overtaken)
    BY <1>0, <2>1, NoRefreshIsSound DEF SummaryInv
  <2>8. DOMAIN refresh' = Slots /\ refresh' = [u \in Slots |-> refresh'[u]]
    BY <2>1 DEF SummaryInv
  <2>9. SummaryInv'
    BY <2>1, <2>5, <2>7, <2>8 DEF SummaryInv
  <2>10. GrowsAsPrefix
    BY <2>1, <2>5, <2>6 DEF GrowsAsPrefix, Prefix
  <2> QED
    BY <2>9, <2>10
<1>8. ASSUME NEW t \in Slots, RefreshFails(t) PROVE SummaryInv' /\ GrowsAsPrefix
  <2> DEFINE r == IF refresh[t].tries = 1 THEN NoRefresh
                  ELSE [NoRefresh EXCEPT !.stage = "list", !.tries = refresh[t].tries - 1]
  <2>1. refresh[t].stage # "idle" /\ refresh' = [refresh EXCEPT ![t] = r] /\ UNCHANGED <<messages, summary, overtaken>>
    BY <1>8 DEF RefreshFails
  <2>2. refresh[t].tries \in 1..Attempts
    BY <1>0, <2>1, Sizes DEF RefreshSound, Refreshes
  <2>3. RefreshSound(r, Len(messages), overtaken)
    <3>1. refresh[t].tries # 1 => refresh[t].tries - 1 \in 1..Attempts
      BY <2>2, Sizes
    <3> QED
      BY <1>0, <3>1, NoRefreshIsSound
  <2> HIDE DEF r
  <2> QED
    BY <1>0, <2>1, <2>3, RefreshKeeps
<1> QED
  BY <1>1, <1>2, <1>3, <1>4, <1>5, <1>6, <1>7, <1>8 DEF SessionNext

\* A list of messages in the order of the session.
Increasing(s) == \A i, j \in DOMAIN s : i < j => s[i] < s[j]

\* A cost is a number, and nothing costs nothing.
LEMMA CostIsANumber ==
  ASSUME NEW S, NEW around \in Nat
  PROVE  CostOf(S, around) \in Nat /\ (S = {} => CostOf(S, around) = 0)
<1> DEFINE n == MaxMessages
           Here(k) == IF k \in S THEN Tokens[k] + around ELSE 0
           F == [k \in Nat |-> [x \in Nat |-> IF k \in 1..n THEN x + Here(k) ELSE x]]
           Made(f) == [k \in 0..n |-> IF k = 0 THEN 0 ELSE f[k - 1] + Here(k)]
           q == CHOOSE f : f = Made(f)
<1>1. CostOf(S, around) = q[n]
  BY DEF CostOf
<1>2. n \in Nat /\ \A k \in 1..n : Tokens[k] \in Nat
  BY BudgetSizes
<1>3. \A k \in 1..n : Here(k) \in Nat /\ (S = {} => Here(k) = 0)
  BY <1>2
<1> HIDE DEF Here, q, n
<1>4. F \in [Nat -> [Nat -> Nat]] /\ 0 \in Nat
  BY <1>3
<1>5. PICK f \in [0..n -> Nat] : Steps(f, n, 0, F)
  <2> HIDE DEF F
  <2> QED
    BY ONLY <1>2, <1>4, StepsExist
<1>6. f = Made(f)
  <2>1. ASSUME NEW k \in 0..n, k # 0 PROVE f[k] = f[k - 1] + Here(k)
    <3>1. k \in 1..n /\ f[k - 1] \in Nat /\ k \in Nat
      BY <1>2, <2>1
    <3>2. f[k] = F[k][f[k - 1]]
      <4> HIDE DEF F
      <4> QED
        BY <1>5, <3>1 DEF Steps
    <3> QED
      BY <3>1, <3>2
  <2>2. f[0] = 0
    BY <1>5 DEF Steps
  <2> QED
    BY <2>1, <2>2
<1>7. q = Made(q)
  <2> HIDE DEF Made
  <2> QED
    BY <1>6 DEF q
<1>8. q[0] = 0 /\ \A k \in 1..n : q[k] = q[k - 1] + Here(k)
  <2>1. 0 \in 0..n /\ \A k \in 1..n : k \in 0..n /\ k # 0
    BY <1>2
  <2> QED
    BY <1>7, <2>1
<1> HIDE DEF Made
<1> DEFINE T == {k \in Nat : k <= n => q[k] \in Nat /\ (S = {} => q[k] = 0)}
<1>9. 0 \in T
  BY <1>8
<1>10. ASSUME NEW k \in T PROVE k + 1 \in T
  <2>1. SUFFICES ASSUME k + 1 <= n PROVE q[k + 1] \in Nat /\ (S = {} => q[k + 1] = 0)
    OBVIOUS
  <2>2. k \in Nat /\ k + 1 \in 1..n /\ (k + 1) - 1 = k /\ q[k] \in Nat /\ (S = {} => q[k] = 0)
    BY <1>2, <2>1
  <2>3. q[k + 1] = q[k] + Here(k + 1)
    BY <1>8, <2>2
  <2> QED
    BY <1>3, <2>2, <2>3
<1>11. T = Nat
  <2>1. T \in SUBSET Nat
    OBVIOUS
  <2> HIDE DEF T
  <2> QED
    BY <1>9, <1>10, <2>1, AllNumbers
<1>12. n \in T
  BY <1>2, <1>11
<1> QED
  BY <1>1, <1>2, <1>12

\* What follows one another in a list and in the session.
LEMMA Joined ==
  ASSUME NEW a \in Seq(Nat), NEW b \in Seq(Nat), Increasing(a), Increasing(b), \A x \in Range(a), y \in Range(b) : x < y
  PROVE  a \o b \in Seq(Nat) /\ Increasing(a \o b) /\ Range(a \o b) = Range(a) \cup Range(b)
<1> DEFINE c == a \o b
           m == Len(a)
<1>1. /\ c \in Seq(Nat) /\ m \in Nat /\ Range(c) = Range(a) \cup Range(b) /\ DOMAIN c \subseteq Nat
      /\ \A i \in DOMAIN a : c[i] = a[i]
      /\ \A i \in DOMAIN b : c[m + i] = b[i]
      /\ \A i \in DOMAIN c : IF i <= m THEN i \in DOMAIN a ELSE i - m \in DOMAIN b /\ i = m + (i - m)
  BY Concatenated
<1> HIDE DEF c, m
<1>2. ASSUME NEW i \in DOMAIN c, NEW j \in DOMAIN c, i < j PROVE c[i] < c[j]
  <2>1. i \in Nat /\ j \in Nat
    BY <1>1
  <2>2. CASE j <= m
    <3>1. i <= m
      BY ONLY <1>1, <1>2, <2>1, <2>2
    <3>2. i \in DOMAIN a /\ j \in DOMAIN a
      BY <1>1, <2>2, <3>1
    <3> QED
      BY <1>1, <1>2, <3>2 DEF Increasing
  <2>3. CASE ~(i <= m)
    <3>1. ~(j <= m) /\ i - m < j - m
      BY ONLY <1>1, <1>2, <2>1, <2>3
    <3>2. i - m \in DOMAIN b /\ j - m \in DOMAIN b /\ c[i] = b[i - m] /\ c[j] = b[j - m]
      BY <1>1, <2>3, <3>1
    <3> QED
      BY <3>1, <3>2 DEF Increasing
  <2>4. CASE i <= m /\ ~(j <= m)
    <3>1. i \in DOMAIN a /\ c[i] = a[i] /\ j - m \in DOMAIN b /\ c[j] = b[j - m]
      BY <1>1, <2>4
    <3>2. a[i] \in Range(a) /\ b[j - m] \in Range(b)
      BY <3>1 DEF Range
    <3> QED
      BY <3>1, <3>2
  <2> QED
    BY <2>2, <2>3, <2>4
<1> QED
  BY <1>1, <1>2 DEF Increasing, c

\* What stays of a list in order is in order.
LEMMA PickedStays ==
  ASSUME NEW s \in Seq(Nat), Increasing(s), NEW S
  PROVE  /\ Picked(s, S) \in Seq(Nat) /\ Increasing(Picked(s, S))
         /\ Range(Picked(s, S)) = {s[i] : i \in S \cap DOMAIN s}
<1>0. PICK at \in [DOMAIN Picked(s, S) -> DOMAIN s] : PicksAt(at, s, S)
  BY PickedInOrder
<1>1. /\ \A i \in DOMAIN Picked(s, S) : at[i] \in S /\ Picked(s, S)[i] = s[at[i]]
      /\ \A i, j \in DOMAIN Picked(s, S) : i < j => at[i] < at[j]
      /\ \A k \in DOMAIN s : k \in S => \E i \in DOMAIN Picked(s, S) : at[i] = k
  BY <1>0 DEF PicksAt
<1>2. Picked(s, S) \in Seq(Nat)
  BY PickedInOrder
<1>3. Increasing(Picked(s, S))
  BY <1>1 DEF Increasing
<1>4. Range(Picked(s, S)) \subseteq {s[i] : i \in S \cap DOMAIN s}
  BY <1>1 DEF Range
<1>5. ASSUME NEW k \in S \cap DOMAIN s PROVE s[k] \in Range(Picked(s, S))
  <2>1. PICK i \in DOMAIN Picked(s, S) : at[i] = k
    BY <1>1
  <2>2. Picked(s, S)[i] = s[k]
    BY <1>1, <2>1
  <2> QED
    BY <2>2 DEF Range
<1> QED
  BY <1>2, <1>3, <1>4, <1>5

LEMMA PartStays ==
  ASSUME NEW s \in Seq(Nat), Increasing(s), NEW i \in 1..Len(s), NEW j \in 1..Len(s), i <= j
  PROVE  /\ SubSeq(s, i, j) \in Seq(Nat) /\ Increasing(SubSeq(s, i, j))
         /\ Range(SubSeq(s, i, j)) = {s[k] : k \in i..j}
<1> DEFINE t == SubSeq(s, i, j)
<1>1. t \in Seq(Nat) /\ Len(t) = j - i + 1 /\ \A k \in 1..(j - i + 1) : t[k] = s[i + k - 1]
  <2>1. i \in Nat /\ j \in Nat /\ 1 <= i /\ j <= Len(s) /\ Len(s) \in Nat
    OBVIOUS
  <2>2. Len(t) = j - i + 1
    BY ONLY s \in Seq(Nat), i <= j, <2>1
  <2>3. \A k \in 1..(j - i + 1) : t[k] = s[i + k - 1]
    BY ONLY s \in Seq(Nat), i <= j, <2>1
  <2>4. t \in Seq(Nat)
    BY ONLY s \in Seq(Nat), i <= j, <2>1
  <2> QED
    BY <2>2, <2>3, <2>4
<1>2. \A k \in 1..(j - i + 1) : i + k - 1 \in i..j /\ i + k - 1 \in DOMAIN s
  OBVIOUS
<1>3. DOMAIN t = 1..(j - i + 1)
  BY <1>1
<1> HIDE DEF t
<1>4. Increasing(t)
  <2>1. ASSUME NEW k \in DOMAIN t, NEW l \in DOMAIN t, k < l PROVE t[k] < t[l]
    <3>1. t[k] = s[i + k - 1] /\ t[l] = s[i + l - 1] /\ i + k - 1 \in DOMAIN s /\ i + l - 1 \in DOMAIN s /\ i + k - 1 < i + l - 1
      <4>1. k \in 1..(j - i + 1) /\ l \in 1..(j - i + 1)
        BY <1>3
      <4>2. k \in Nat /\ l \in Nat /\ i \in Nat
        BY <4>1
      <4>3. i + k - 1 < i + l - 1
        BY ONLY <2>1, <4>2
      <4> QED
        BY <1>1, <1>2, <4>1, <4>3
    <3> QED
      BY <3>1 DEF Increasing
  <2> QED
    BY <2>1 DEF Increasing
<1>5. Range(t) = {s[k] : k \in i..j}
  <2>1. Range(t) \subseteq {s[k] : k \in i..j}
    BY <1>1, <1>2, <1>3 DEF Range
  <2>2. ASSUME NEW k \in i..j PROVE s[k] \in Range(t)
    <3>1. k - i + 1 \in 1..(j - i + 1) /\ i + (k - i + 1) - 1 = k
      BY ONLY <2>2, i \in 1..Len(s), j \in 1..Len(s), i <= j
    <3>2. k - i + 1 \in DOMAIN t /\ t[k - i + 1] = s[k]
      BY <1>1, <1>3, <3>1
    <3> QED
      BY <3>2 DEF Range
  <2> QED
    BY <2>1, <2>2
<1> QED
  BY <1>1, <1>4, <1>5 DEF t

\* The elements of a list are finitely many, at most its length, and as many if none stands there twice.
LEMMA RangeIsFinite ==
  ASSUME NEW V, NEW s \in Seq(V)
  PROVE  /\ IsFiniteSet(Range(s)) /\ Cardinality(Range(s)) \in Nat /\ Cardinality(Range(s)) <= Len(s)
         /\ (\A i, j \in DOMAIN s : s[i] = s[j] => i = j) => Cardinality(Range(s)) = Len(s)
<1>1. Len(s) \in Nat /\ DOMAIN s = 1..Len(s) /\ s \in [1..Len(s) -> Range(s)]
  BY DEF Range
<1>2. s \in Surjection(1..Len(s), Range(s))
  BY <1>1 DEF Surjection, Range
<1>3. IsFiniteSet(1..Len(s)) /\ Cardinality(1..Len(s)) = Len(s)
  BY <1>1, FS_Interval
<1>4. /\ IsFiniteSet(Range(s)) /\ Cardinality(Range(s)) <= Len(s)
      /\ Cardinality(Range(s)) = Len(s) <=> s \in Injection(1..Len(s), Range(s))
  <2> DEFINE S == 1..Len(s)
             T == Range(s)
  <2>1. s \in Surjection(S, T) /\ IsFiniteSet(S) /\ Cardinality(S) = Len(s)
    BY <1>2, <1>3
  <2> HIDE DEF S, T
  <2>2. /\ IsFiniteSet(T) /\ Cardinality(T) <= Cardinality(S)
        /\ Cardinality(T) = Cardinality(S) <=> s \in Injection(S, T)
    BY <2>1, FS_Surjection
  <2> QED
    BY <2>1, <2>2 DEF S, T
<1>5. (\A i, j \in DOMAIN s : s[i] = s[j] => i = j) => s \in Injection(1..Len(s), Range(s))
  BY <1>1 DEF Injection, IsInjective
<1>6. Cardinality(Range(s)) \in Nat
  BY <1>4, FS_CardinalityType
<1> QED
  BY <1>4, <1>5, <1>6

\* Histories, and those of messages of S in the order of the session that cost so much at most, but for a marker.
Histories == [shown : Seq(Nat), tokens : Nat, marked : BOOLEAN]
Fits(h, S, room) ==
    /\ h \in Histories /\ Increasing(h.shown) /\ Range(h.shown) \subseteq S
    /\ h.tokens <= room + (IF h.marked THEN MarkTokens ELSE 0)

\* The pair from q to a behind what is older, and the beginning of a question.
WithPair(older, ms, q, a) ==
    [shown |-> older.shown \o SubSeq(ms, q, a), tokens |-> older.tokens + CostOf(Range(SubSeq(ms, q, a)), 0),
     marked |-> older.marked]
OnlyStart(m, room) == [shown |-> <<m>>, tokens |-> Min({Tokens[m], room}) + MarkTokens, marked |-> TRUE]

\* The three cases of PairsUpTo: no pair, or no room; the last pair up to i is from q to a and fits; only its question.
NoPair(ms, i, room) == \A before : PairsUpTo(ms, i, room, before) = NoHistory
PairFits(ms, i, room, q, a) ==
    /\ q \in 1..i /\ a \in q..i /\ CostOf(Range(SubSeq(ms, q, a)), 0) <= room
    /\ \A before : PairsUpTo(ms, i, room, before) =
                      WithPair(before[q - 1][room - CostOf(Range(SubSeq(ms, q, a)), 0)], ms, q, a)
OnlyQuestion(ms, i, room, q) ==
    /\ q \in 1..i
    /\ \A before : PairsUpTo(ms, i, room, before) = OnlyStart(ms[q], room)

\* What PairsUpTo makes of the pairs up to an earlier position.
LEMMA JoinedHistory ==
  ASSUME NEW older \in Histories, NEW ms \in Seq(Nat), NEW q \in 1..Len(ms), NEW a \in q..Len(ms)
  PROVE  WithPair(older, ms, q, a) \in Histories
<1> DEFINE pair == SubSeq(ms, q, a)
           cost == CostOf(Range(pair), 0)
<1>1. older.shown \in Seq(Nat) /\ older.tokens \in Nat /\ older.marked \in BOOLEAN
  BY DEF Histories
<1>2. pair \in Seq(Nat)
  OBVIOUS
<1>3. cost \in Nat
  <2> HIDE DEF pair
  <2>1. 0 \in Nat
    OBVIOUS
  <2> QED
    BY <2>1, CostIsANumber
<1>4. WithPair(older, ms, q, a) = [shown |-> older.shown \o pair, tokens |-> older.tokens + cost, marked |-> older.marked]
  BY DEF WithPair
<1> HIDE DEF pair, cost
<1>5. older.shown \o pair \in Seq(Nat) /\ older.tokens + cost \in Nat
  BY <1>1, <1>2, <1>3
<1> QED
  BY <1>1, <1>4, <1>5 DEF Histories

LEMMA LeastOfTwo ==
  ASSUME NEW x \in Nat, NEW y \in Nat
  PROVE  Min({x, y}) \in {x, y} /\ Min({x, y}) <= x /\ Min({x, y}) <= y /\ Min({x, y}) \in Nat
<1> DEFINE S == {x, y}
<1>1. S \in SUBSET Nat /\ S # {}
  OBVIOUS
<1>2. Min(S) \in S /\ \A z \in S : Min(S) <= z
  <2> HIDE DEF S
  <2> QED
    BY <1>1, MinIsLeast
<1> QED
  BY <1>2

\* The messages of a list are messages of the session.
LEMMA StartFits ==
  ASSUME NEW m \in 1..MaxMessages, NEW S, m \in S, NEW room \in Nat
  PROVE  Fits(OnlyStart(m, room), S, room)
<1> DEFINE cut == Min({Tokens[m], room})
<1>1. Tokens[m] \in Nat /\ MarkTokens \in Nat /\ m \in Nat
  BY BudgetSizes
<1>2. cut \in Nat /\ cut <= room
  BY <1>1, LeastOfTwo
<1>3. OnlyStart(m, room) = [shown |-> <<m>>, tokens |-> cut + MarkTokens, marked |-> TRUE]
  BY DEF OnlyStart
<1> HIDE DEF cut
<1>4. cut + MarkTokens \in Nat /\ cut + MarkTokens <= room + MarkTokens
  BY <1>1, <1>2
<1>5. <<m>> \in Seq(Nat) /\ Range(<<m>>) = {m} /\ Increasing(<<m>>)
  BY <1>1 DEF Range, Increasing
<1> QED
  BY <1>3, <1>4, <1>5 DEF Fits, Histories

LEMMA PairsCases ==
  ASSUME NEW ms \in Seq(Nat), NEW i \in 0..Len(ms), NEW room \in Nat
  PROVE  \/ NoPair(ms, i, room)
         \/ \E q, a : PairFits(ms, i, room, q, a)
         \/ \E q : OnlyQuestion(ms, i, room, q)
<1> DEFINE Before(k, role) == {j \in 1..k : messages[ms[j]] = role}
           a == Max(Before(i, "assistant"))
           q == Max(Before(a - 1, "user"))
           pair == SubSeq(ms, q, a)
           cost == CostOf(Range(pair), 0)
<1>1. \A before : PairsUpTo(ms, i, room, before) =
         IF Before(i, "assistant") = {} \/ Before(a - 1, "user") = {} THEN NoHistory
         ELSE IF cost <= room THEN WithPair(before[q - 1][room - cost], ms, q, a)
         ELSE IF room >= CutMin THEN OnlyStart(ms[q], room) ELSE NoHistory
  BY DEF PairsUpTo, WithPair, OnlyStart
<1>2. \A k \in Nat : \A role :
         /\ Before(k, role) \in SUBSET Nat
         /\ \A x \in Before(k, role) : x <= k /\ x \in 1..k /\ messages[ms[x]] = role
  OBVIOUS
<1> HIDE DEF Before
<1>3. ASSUME NEW k \in Nat, NEW role, Before(k, role) # {}
      PROVE  Max(Before(k, role)) \in 1..k /\ messages[ms[Max(Before(k, role))]] = role
  <2>1. /\ Before(k, role) \in SUBSET Nat /\ \A x \in Before(k, role) : x <= k
        /\ \A x \in Before(k, role) : x \in 1..k /\ messages[ms[x]] = role
    BY <1>2
  <2>2. Max(Before(k, role)) \in Before(k, role)
    BY <1>3, <2>1, MaxOfNumbers
  <2> QED
    BY <2>1, <2>2
<1>4. CASE Before(i, "assistant") = {} \/ Before(a - 1, "user") = {}
  <2> HIDE DEF a, q, pair, cost
  <2>1. NoPair(ms, i, room)
    BY <1>1, <1>4 DEF NoPair
  <2> QED
    BY <2>1
<1>5. CASE Before(i, "assistant") # {} /\ Before(a - 1, "user") # {}
  <2>1. a \in 1..i
    BY <1>3, <1>5
  <2> HIDE DEF a
  <2>2. a \in Nat /\ a - 1 \in Nat /\ i \in Nat
    BY <2>1
  <2>3. q \in 1..(a - 1)
    BY <1>3, <1>5, <2>2
  <2> HIDE DEF q
  <2>4. q \in 1..i /\ a \in q..i
    BY <2>1, <2>2, <2>3
  <2> HIDE DEF cost, pair
  <2>5. CASE cost <= room
    <3>1. \A before : PairsUpTo(ms, i, room, before) = WithPair(before[q - 1][room - cost], ms, q, a)
      BY <1>1, <1>5, <2>5
    <3>2. PairFits(ms, i, room, q, a)
      BY <2>4, <2>5, <3>1 DEF cost, pair, PairFits
    <3> QED
      BY <3>2
  <2>6. CASE ~(cost <= room) /\ room >= CutMin
    <3>1. \A before : PairsUpTo(ms, i, room, before) = OnlyStart(ms[q], room)
      BY <1>1, <1>5, <2>6
    <3>2. OnlyQuestion(ms, i, room, q)
      BY <2>4, <3>1 DEF OnlyQuestion
    <3> QED
      BY <3>2
  <2>7. CASE ~(cost <= room) /\ ~(room >= CutMin)
    <3>1. NoPair(ms, i, room)
      BY <1>1, <1>5, <2>7 DEF NoPair
    <3> QED
      BY <3>1
  <2> QED
    BY <2>5, <2>6, <2>7
<1> QED
  BY <1>4, <1>5

\* Pairs is as its recursive definition says.
LEMMA PairsExist ==
  ASSUME NEW ms \in Seq(Nat), Range(ms) \subseteq 1..MaxMessages, NEW limit \in Nat
  PROVE  /\ Pairs(ms, limit) \in [0..Len(ms) -> [0..limit -> Histories]]
         /\ \A i \in 0..Len(ms) : \A room \in 0..limit : Pairs(ms, limit)[i][room] = PairsUpTo(ms, i, room, Pairs(ms, limit))
<1> DEFINE D == 0..Len(ms)
           V == [0..limit -> Histories]
           size == [i \in D |-> i]
           Step(f) == [i \in D |-> [room \in 0..limit |-> PairsUpTo(ms, i, room, f)]]
           H == [f \in [D -> V] |-> Step(f)]
<1>0. Len(ms) \in Nat
  OBVIOUS
<1>e. NoHistory \in Histories
  <2>1. <<>> \in Seq(Nat)
    OBVIOUS
  <2> QED
    BY <2>1 DEF NoHistory, Histories
<1>1. ASSUME NEW f \in [D -> V], NEW i \in D, NEW room \in 0..limit PROVE PairsUpTo(ms, i, room, f) \in Histories
  <2>1. CASE NoPair(ms, i, room)
    BY <1>e, <2>1 DEF NoPair
  <2>2. ASSUME NEW q, NEW a, PairFits(ms, i, room, q, a)
        PROVE  PairsUpTo(ms, i, room, f) \in Histories
    <3> DEFINE cost == CostOf(Range(SubSeq(ms, q, a)), 0)
    <3>1. /\ q \in 1..i /\ a \in q..i /\ cost <= room
          /\ PairsUpTo(ms, i, room, f) = WithPair(f[q - 1][room - cost], ms, q, a)
      BY <2>2 DEF PairFits
    <3>2. 0 \in Nat
      OBVIOUS
    <3>3. cost \in Nat
      BY <3>2, CostIsANumber
    <3> HIDE DEF cost
    <3>4. q - 1 \in D /\ room - cost \in 0..limit /\ q \in 1..Len(ms) /\ a \in q..Len(ms)
      BY <1>0, <3>1, <3>3
    <3>5. f[q - 1] \in V
      BY <3>4
    <3>6. f[q - 1][room - cost] \in Histories
      BY <3>4, <3>5
    <3> QED
      BY <3>1, <3>4, <3>6, JoinedHistory
  <2>3. ASSUME NEW q, OnlyQuestion(ms, i, room, q)
        PROVE  PairsUpTo(ms, i, room, f) \in Histories
    <3>1. q \in 1..i /\ PairsUpTo(ms, i, room, f) = OnlyStart(ms[q], room)
      BY <2>3 DEF OnlyQuestion
    <3>2. ms[q] \in 1..MaxMessages /\ room \in Nat
      BY <1>0, <3>1 DEF Range
    <3>3. Fits(OnlyStart(ms[q], room), {ms[q]}, room)
      BY <3>2, StartFits
    <3> QED
      BY <3>1, <3>3 DEF Fits
  <2>4. room \in Nat
    OBVIOUS
  <2> QED
    BY <2>1, <2>2, <2>3, <2>4, PairsCases
<1>2. H \in [[D -> V] -> [D -> V]]
  <2>1. ASSUME NEW f \in [D -> V] PROVE Step(f) \in [D -> V]
    BY <1>1
  <2> HIDE DEF D, V, Step
  <2> QED
    BY <2>1
<1>s. ASSUME NEW f, NEW g, NEW i \in D, \A y \in D : y < i => f[y] = g[y], NEW room \in 0..limit
      PROVE  PairsUpTo(ms, i, room, f) = PairsUpTo(ms, i, room, g)
  <2>1. CASE NoPair(ms, i, room)
    BY <2>1 DEF NoPair
  <2>2. ASSUME NEW q, NEW a, PairFits(ms, i, room, q, a)
        PROVE  PairsUpTo(ms, i, room, f) = PairsUpTo(ms, i, room, g)
    <3>1. /\ q \in 1..i
          /\ PairsUpTo(ms, i, room, f) = WithPair(f[q - 1][room - CostOf(Range(SubSeq(ms, q, a)), 0)], ms, q, a)
          /\ PairsUpTo(ms, i, room, g) = WithPair(g[q - 1][room - CostOf(Range(SubSeq(ms, q, a)), 0)], ms, q, a)
      BY <2>2 DEF PairFits
    <3>2. q - 1 \in D /\ q - 1 < i
      BY <1>0, <3>1
    <3>3. f[q - 1] = g[q - 1]
      BY <1>s, <3>2
    <3> QED
      BY <3>1, <3>3
  <2>3. ASSUME NEW q, OnlyQuestion(ms, i, room, q)
        PROVE  PairsUpTo(ms, i, room, f) = PairsUpTo(ms, i, room, g)
    BY <2>3 DEF OnlyQuestion
  <2>4. room \in Nat
    OBVIOUS
  <2> QED
    BY <2>1, <2>2, <2>3, <2>4, PairsCases
<1>3. ASSUME NEW f \in [D -> V], NEW g \in [D -> V], NEW i \in D, \A y \in D : size[y] < size[i] => f[y] = g[y]
      PROVE  H[f][i] = H[g][i]
  <2>1. \A y \in D : y < i => f[y] = g[y]
    BY <1>3
  <2> DEFINE Row(h) == [room \in 0..limit |-> PairsUpTo(ms, i, room, h)]
  <2>2. Row(f) = Row(g)
    BY <1>s, <2>1
  <2>3. H[f][i] = Row(f) /\ H[g][i] = Row(g)
    OBVIOUS
  <2> HIDE DEF Row
  <2> QED
    BY <2>2, <2>3
<1>4. V # {} /\ size \in [D -> Nat]
  <2>2. [room \in 0..limit |-> NoHistory] \in V
    BY <1>e
  <2>3. V # {}
    <3> HIDE DEF V
    <3> QED
      BY <2>2
  <2>4. \A i \in D : i \in Nat
    BY <1>0
  <2>5. size \in [D -> Nat]
    <3> HIDE DEF D
    <3> QED
      BY <2>4
  <2> QED
    BY <2>3, <2>5
<1>5. PICK f : Defines(f, D, V, H)
  <2>1. LooksBack(D, V, size, H)
    <3> HIDE DEF D, V, size, H
    <3> QED
      BY <1>3 DEF LooksBack
  <2> HIDE DEF D, V, size, H
  <2> QED
    BY <1>2, <1>4, <2>1, RecursionExists
<1> DEFINE p == CHOOSE p : p = Step(p)
<1>6. Pairs(ms, limit) = p
  BY DEF Pairs
<1>u. f \in [D -> V]
  <2> HIDE DEF D, V, H
  <2> QED
    BY <1>5 DEF Defines
<1>7. f = Step(f)
  <2>1. H[f] = Step(f)
    <3> HIDE DEF D, V, Step
    <3> QED
      BY <1>u
  <2> HIDE DEF D, V, H, Step
  <2> QED
    BY <1>5, <2>1 DEF Defines
<1>8. p = Step(p)
  <2> HIDE DEF Step
  <2> QED
    BY <1>7
<1> HIDE DEF p
<1>r. ASSUME NEW h, h = Step(h)
      PROVE  \A i \in D : h[i] = [room \in 0..limit |-> PairsUpTo(ms, i, room, h)]
  <2> DEFINE Row(i) == [room \in 0..limit |-> PairsUpTo(ms, i, room, h)]
  <2>1. h = [i \in D |-> Row(i)]
    BY <1>r
  <2> HIDE DEF Row, D, Step
  <2>2. \A i \in D : h[i] = Row(i)
    BY <2>1
  <2> QED
    BY <2>2 DEF Row
<1>t. /\ \A i \in D : f[i] = [room \in 0..limit |-> PairsUpTo(ms, i, room, f)]
      /\ \A i \in D : p[i] = [room \in 0..limit |-> PairsUpTo(ms, i, room, p)]
  <2> HIDE DEF Step
  <2> QED
    BY <1>7, <1>8, <1>r
<1>9. p = f
  <2> DEFINE T == {n \in Nat : \A i \in D : i < n => p[i] = f[i]}
  <2>1. 0 \in T
    BY <1>0
  <2>2. ASSUME NEW n \in T PROVE n + 1 \in T
    <3>1. ASSUME NEW i \in D, i < n + 1 PROVE p[i] = f[i]
      <4>1. \A y \in D : y < i => p[y] = f[y]
        BY <1>0, <3>1
      <4> DEFINE Row(h) == [room \in 0..limit |-> PairsUpTo(ms, i, room, h)]
      <4>2. Row(p) = Row(f)
        BY <1>s, <4>1
      <4>3. p[i] = Row(p) /\ f[i] = Row(f)
        BY <1>t
      <4> HIDE DEF Row
      <4> QED
        BY <4>2, <4>3
    <3> QED
      BY <3>1
  <2>3. T = Nat
    <3>1. T \in SUBSET Nat
      OBVIOUS
    <3> HIDE DEF T
    <3> QED
      BY <2>1, <2>2, <3>1, AllNumbers
  <2>4. \A i \in D : p[i] = f[i]
    <3>1. \A i \in D : i + 1 \in Nat /\ i < i + 1
      BY <1>0
    <3>2. \A i \in D : i + 1 \in T
      <4> HIDE DEF T, D
      <4> QED
        BY <2>3, <3>1
    <3> QED
      BY <3>1, <3>2
  <2>5. DOMAIN p = D /\ p = [i \in DOMAIN p |-> p[i]]
    <3> DEFINE Row(i) == [room \in 0..limit |-> PairsUpTo(ms, i, room, p)]
    <3>1. p = [i \in D |-> Row(i)]
      BY <1>8
    <3> HIDE DEF Row, D, Step
    <3> QED
      BY <3>1
  <2>6. DOMAIN f = D /\ f = [i \in DOMAIN f |-> f[i]]
    <3> HIDE DEF D, V
    <3> QED
      BY <1>u
  <2> HIDE DEF D
  <2> QED
    BY <2>4, <2>5, <2>6
<1>v. ASSUME NEW i \in 0..Len(ms), NEW room \in 0..limit PROVE p[i][room] = PairsUpTo(ms, i, room, p)
  <2>1. p[i] = [r \in 0..limit |-> PairsUpTo(ms, i, r, p)]
    BY <1>t
  <2> QED
    BY <2>1
<1> HIDE DEF Step, H, size
<1> QED
  BY <1>6, <1>9, <1>u, <1>v

LEMMA NothingFits ==
  ASSUME NEW S, NEW room \in Nat
  PROVE  Fits(NoHistory, S, room)
<1>1. Range(<<>>) = {} /\ Increasing(<<>>) /\ <<>> \in Seq(Nat)
  BY DEF Range, Increasing
<1> QED
  BY <1>1 DEF Fits, NoHistory, Histories

\* Later messages behind a history, and what they cost.
LEMMA JoinedFit ==
  ASSUME NEW h, NEW b, NEW S, NEW T, NEW here \in Nat, NEW there \in Nat, Fits(h, S, here),
         b \in Seq(Nat), Increasing(b), Range(b) \subseteq T, \A x \in S, y \in T : x < y
  PROVE  Fits([shown |-> h.shown \o b, tokens |-> h.tokens + there, marked |-> h.marked], S \cup T, here + there)
<1>1. /\ h.shown \in Seq(Nat) /\ h.tokens \in Nat /\ h.marked \in BOOLEAN /\ Increasing(h.shown) /\ Range(h.shown) \subseteq S
      /\ h.tokens <= here + (IF h.marked THEN MarkTokens ELSE 0)
  BY DEF Fits, Histories
<1>2. \A x \in Range(h.shown), y \in Range(b) : x < y
  BY <1>1
<1>3. h.shown \o b \in Seq(Nat) /\ Increasing(h.shown \o b) /\ Range(h.shown \o b) = Range(h.shown) \cup Range(b)
  BY <1>1, <1>2, Joined
<1>4. /\ h.tokens + there \in Nat
      /\ h.tokens + there <= (here + there) + (IF h.marked THEN MarkTokens ELSE 0)
  BY <1>1, BudgetSizes
<1> QED
  BY <1>1, <1>3, <1>4 DEF Fits, Histories

\* What the pairs up to a position are: messages up to there, in order, in the room there is.  (truncateHistoryByTokens)
LEMMA PairsFit ==
  ASSUME NEW ms \in Seq(Nat), Increasing(ms), Range(ms) \subseteq 1..MaxMessages, NEW limit \in Nat, NEW i \in 0..Len(ms), NEW room \in 0..limit
  PROVE  Fits(Pairs(ms, limit)[i][room], {ms[j] : j \in 1..i}, room)
<1> DEFINE p == Pairs(ms, limit)
           D == 0..Len(ms)
           Upto(k) == {ms[j] : j \in 1..k}
           T == {n \in Nat : \A k \in D : k < n => \A r \in 0..limit : Fits(p[k][r], Upto(k), r)}
<1>0. Len(ms) \in Nat
  OBVIOUS
<1>1. 0 \in T
  BY <1>0
<1>2. ASSUME NEW n \in T PROVE n + 1 \in T
  <2>1. ASSUME NEW k \in D, k < n + 1, NEW r \in 0..limit PROVE Fits(p[k][r], Upto(k), r)
    <3>1. p[k][r] = PairsUpTo(ms, k, r, p)
      BY PairsExist
    <3>2. k \in Nat /\ r \in Nat /\ n \in Nat
      BY <1>0
    <3>3. \A l \in D : l < n => \A x \in 0..limit : Fits(p[l][x], Upto(l), x)
      OBVIOUS
    <3> HIDE DEF p, T
    <3>4. CASE NoPair(ms, k, r)
      <4>1. p[k][r] = NoHistory
        BY <3>1, <3>4 DEF NoPair
      <4> HIDE DEF Upto
      <4> QED
        BY <3>2, <4>1, NothingFits
    <3>5. ASSUME NEW q, OnlyQuestion(ms, k, r, q) PROVE Fits(p[k][r], Upto(k), r)
      <4>1. q \in 1..k /\ p[k][r] = OnlyStart(ms[q], r)
        BY <3>1, <3>5 DEF OnlyQuestion
      <4>2. ms[q] \in Upto(k) /\ ms[q] \in 1..MaxMessages
        BY <1>0, <4>1 DEF Range
      <4> HIDE DEF Upto
      <4> QED
        BY <3>2, <4>1, <4>2, StartFits
    <3>6. ASSUME NEW q, NEW a, PairFits(ms, k, r, q, a) PROVE Fits(p[k][r], Upto(k), r)
      <4> DEFINE pair == SubSeq(ms, q, a)
                 cost == CostOf(Range(pair), 0)
                 S == {ms[j] : j \in q..a}
                 older == p[q - 1][r - cost]
      <4>1. q \in 1..k /\ a \in q..k /\ cost <= r /\ p[k][r] = [shown |-> older.shown \o pair, tokens |-> older.tokens + cost,
                                                               marked |-> older.marked]
        BY <3>1, <3>6 DEF PairFits, WithPair
      <4>2. pair \in Seq(Nat) /\ Increasing(pair) /\ Range(pair) = S
        <5>1. q \in 1..Len(ms) /\ a \in 1..Len(ms) /\ q <= a
          BY <1>0, <4>1
        <5> QED
          BY <5>1, PartStays
      <4> HIDE DEF pair
      <4>3. cost \in Nat
        <5>1. 0 \in Nat
          OBVIOUS
        <5> QED
          BY <5>1, CostIsANumber
      <4> HIDE DEF cost
      <4>5. q - 1 \in D /\ q - 1 < n /\ r - cost \in 0..limit /\ r - cost \in Nat
        BY <1>0, <2>1, <3>2, <4>1, <4>3
      <4>6. Fits(older, Upto(q - 1), r - cost)
        BY <3>3, <4>5
      <4>7. \A x \in Upto(q - 1), y \in S : x < y
        <5>1. ASSUME NEW j \in 1..(q - 1), NEW l \in q..a PROVE ms[j] < ms[l]
          <6>1. j \in DOMAIN ms /\ l \in DOMAIN ms /\ j < l
            BY <1>0, <4>1
          <6> QED
            BY <6>1 DEF Increasing
        <5> QED
          BY <5>1
      <4>8. Upto(q - 1) \cup S \subseteq Upto(k)
        BY <4>1
      <4> HIDE DEF Upto, S, older
      <4> DEFINE here == r - cost
                 later == Upto(q - 1) \cup S
      <4>9. here + cost = r /\ here \in Nat
        BY <3>2, <4>3, <4>5
      <4>10. Fits(older, Upto(q - 1), here) /\ Range(pair) \subseteq S
        BY <4>2, <4>6
      <4> HIDE DEF here
      <4>11. Fits([shown |-> older.shown \o pair, tokens |-> older.tokens + cost, marked |-> older.marked], later, here + cost)
        BY ONLY <4>2, <4>3, <4>7, <4>9, <4>10, JoinedFit
      <4>12. Fits(p[k][r], later, r)
        BY ONLY <4>1, <4>9, <4>11
      <4> QED
        BY <4>8, <4>12 DEF Fits
    <3> HIDE DEF Upto
    <3> QED
      BY <3>2, <3>4, <3>5, <3>6, PairsCases
  <2> HIDE DEF Upto, p
  <2> QED
    BY <2>1
<1>3. T = Nat
  <2>1. T \in SUBSET Nat
    OBVIOUS
  <2> HIDE DEF T
  <2> QED
    BY <1>1, <1>2, <2>1, AllNumbers
<1>4. i + 1 \in Nat /\ i < i + 1
  BY <1>0
<1>5. i + 1 \in T
  BY <1>3, <1>4
<1> HIDE DEF p
<1>6. Fits(p[i][room], Upto(i), room)
  BY <1>4, <1>5
<1> QED
  BY <1>6 DEF p

\* A history is messages of the list it is cut from, in their order; it costs the budget at most, but for a marker, or
\* is an open question that was cut to what it keeps at least.
LEMMA HistoryFits ==
  ASSUME NEW ms \in Seq(Nat), Increasing(ms), Range(ms) \subseteq 1..MaxMessages, NEW limit \in Nat
  PROVE  LET h == TruncateHistory(ms, limit) IN
         /\ h \in Histories /\ Increasing(h.shown) /\ Range(h.shown) \subseteq Range(ms) /\ InRoom(h, limit)
<1> DEFINE n == Len(ms)
           open == messages[ms[n]] = "user"
           size == Tokens[ms[n]]
           least == IF limit > 2 * TailSpare THEN limit - TailSpare ELSE TailSpare
           kept == IF size <= limit THEN size ELSE Min({size, least})
           rest == IF kept <= limit THEN Pairs(ms, limit)[n - 1][limit - kept] ELSE NoHistory
           h == TruncateHistory(ms, limit)
<1>0. n \in Nat /\ {ms[j] : j \in 1..n} = Range(ms)
  BY DEF Range
<1>1. h = IF limit = 0 \/ n = 0 THEN NoHistory
          ELSE IF open THEN [shown |-> Append(rest.shown, ms[n]), tokens |-> rest.tokens + kept, marked |-> rest.marked]
          ELSE Pairs(ms, limit)[n][limit]
  BY DEF TruncateHistory
<1> HIDE DEF h
<1>f. Fits(h, Range(ms), limit) => h \in Histories /\ Increasing(h.shown) /\ Range(h.shown) \subseteq Range(ms) /\ InRoom(h, limit)
  BY DEF Fits, InRoom
<1>2. CASE limit = 0 \/ n = 0
  <2>1. h = NoHistory
    BY <1>1, <1>2
  <2> QED
    BY <1>f, <2>1, NothingFits DEF h
<1>3. CASE ~(limit = 0 \/ n = 0) /\ ~open
  <2>1. h = Pairs(ms, limit)[n][limit]
    BY <1>1, <1>3
  <2>2. n \in 0..Len(ms) /\ limit \in 0..limit
    BY <1>0
  <2>3. Fits(Pairs(ms, limit)[n][limit], {ms[j] : j \in 1..n}, limit)
    BY <2>2, PairsFit
  <2> QED
    BY <1>0, <1>f, <2>1, <2>3 DEF h
<1>4. CASE ~(limit = 0 \/ n = 0) /\ open
  <2> DEFINE m == ms[n]
             S == {ms[j] : j \in 1..(n - 1)}
  <2>1. n \in DOMAIN ms /\ m \in 1..MaxMessages /\ m \in Nat /\ n - 1 \in 0..Len(ms) /\ n - 1 \in Nat
    BY <1>0, <1>4 DEF Range
  <2>2. size \in Nat /\ least \in Nat /\ TailSpare \in Nat \ {0}
    BY <2>1, BudgetSizes
  <2>3. h = [shown |-> Append(rest.shown, m), tokens |-> rest.tokens + kept, marked |-> rest.marked]
    BY <1>1, <1>4
  <2>4. /\ <<m>> \in Seq(Nat) /\ Increasing(<<m>>) /\ Range(<<m>>) \subseteq {m}
        /\ \A x \in S, y \in {m} : x < y
        /\ S \cup {m} \subseteq Range(ms)
    BY <1>0, <2>1 DEF Range, Increasing
  <2> HIDE DEF open, size, least
  <2>5. kept \in Nat /\ (kept > limit => kept <= least)
    BY <2>2, LeastOfTwo
  <2>6. kept > limit => limit < TailSpare /\ least = TailSpare
    BY <2>2, <2>5 DEF least
  <2> HIDE DEF kept
  <2>7. Fits(rest, S, IF kept <= limit THEN limit - kept ELSE 0) /\ rest.shown \in Seq(Nat)
    <3>1. CASE kept <= limit
      <4>1. limit - kept \in 0..limit
        BY <2>5, <3>1
      <4>2. Fits(Pairs(ms, limit)[n - 1][limit - kept], S, limit - kept)
        BY <2>1, <4>1, PairsFit
      <4> QED
        BY <3>1, <4>2 DEF Fits, Histories
    <3>2. CASE ~(kept <= limit)
      <4>1. Fits(NoHistory, S, 0)
        <5>1. 0 \in Nat
          OBVIOUS
        <5> HIDE DEF S
        <5> QED
          BY <5>1, NothingFits
      <4>2. NoHistory.shown \in Seq(Nat)
        BY DEF NoHistory
      <4> QED
        BY <3>2, <4>1, <4>2
    <3> QED
      BY <3>1, <3>2
  <2>8. ~(kept <= limit) => rest = NoHistory
    OBVIOUS
  <2> HIDE DEF rest, S, m
  <2>9. Append(rest.shown, m) = rest.shown \o <<m>>
    <3> DEFINE head == rest.shown
    <3>1. head \in Seq(Nat) /\ m \in Nat
      BY <2>1, <2>7
    <3> HIDE DEF head
    <3>2. Append(head, m) = head \o <<m>>
      BY ONLY <3>1
    <3> QED
      BY <3>2 DEF head
  <2> DEFINE room == IF kept <= limit THEN limit - kept ELSE 0
  <2>10. room \in Nat
    BY <2>5
  <2> HIDE DEF room
  <2>11. Fits(h, S \cup {m}, room + kept)
    <3>1. Fits(rest, S, room)
      BY <2>7 DEF room
    <3>2. h = [shown |-> rest.shown \o <<m>>, tokens |-> rest.tokens + kept, marked |-> rest.marked]
      BY <2>3, <2>9
    <3> QED
      BY <2>4, <2>5, <2>10, <3>1, <3>2, JoinedFit
  <2>12. CASE kept <= limit
    <3>1. room + kept = limit
      BY <2>5, <2>12 DEF room
    <3> QED
      BY <1>f, <2>4, <2>11, <3>1 DEF Fits, h
  <2>13. CASE ~(kept <= limit)
    <3>1. kept > limit
      BY <2>5, <2>13
    <3>2. h.tokens = kept /\ limit < TailSpare /\ kept <= TailSpare
      BY <2>3, <2>5, <2>6, <2>8, <2>13, <3>1 DEF NoHistory
    <3> QED
      BY <2>4, <2>11, <3>2 DEF Fits, InRoom, h
  <2> QED
    BY <2>12, <2>13
<1> QED
  BY <1>2, <1>3, <1>4 DEF h

\* What follows the summary is messages of the list in their order, and later ones if the summary's mark is there.
LEMMA SummaryIsApplied ==
  ASSUME NEW ms \in Seq(Nat), Increasing(ms), NEW s \in Summaries
  PROVE  /\ ApplySummary(ms, s) \in Seq(Nat) /\ Increasing(ApplySummary(ms, s))
         /\ Range(ApplySummary(ms, s)) \subseteq Range(ms)
         /\ s.last \in Range(ms) => \A m \in Range(ApplySummary(ms, s)) : m > s.last
<1> DEFINE S == {i \in DOMAIN ms : ms[i] > s.last}
           after == Picked(ms, S)
           questions == {i \in DOMAIN after : messages[after[i]] = "user"}
<1>1. after \in Seq(Nat) /\ Increasing(after) /\ Range(after) = {ms[i] : i \in S \cap DOMAIN ms}
  BY PickedStays
<1>2. Range(after) \subseteq Range(ms) /\ \A m \in Range(after) : m > s.last
  BY <1>1 DEF Range
<1>3. ApplySummary(ms, s) = IF s.last \notin Range(ms) THEN ms ELSE IF questions = {} THEN <<>>
                            ELSE SubSeq(after, Min(questions), Len(after))
  BY DEF ApplySummary
<1> HIDE DEF after
<1>4. CASE s.last \notin Range(ms)
  BY <1>3, <1>4
<1>5. CASE s.last \in Range(ms) /\ questions = {}
  <2>1. ApplySummary(ms, s) = <<>>
    BY <1>3, <1>5
  <2>2. <<>> \in Seq(Nat) /\ Increasing(<<>>) /\ Range(<<>>) = {}
    BY DEF Increasing, Range
  <2> QED
    BY <2>1, <2>2
<1>6. CASE s.last \in Range(ms) /\ questions # {}
  <2>1. ApplySummary(ms, s) = SubSeq(after, Min(questions), Len(after))
    BY <1>3, <1>6
  <2>2. questions \in SUBSET Nat /\ \A x \in questions : x \in 1..Len(after)
    BY <1>1
  <2>3. Min(questions) \in questions
    BY <1>6, <2>2, MinIsLeast
  <2>4. Min(questions) \in 1..Len(after) /\ Len(after) \in 1..Len(after) /\ Min(questions) <= Len(after)
    <3>1. Min(questions) \in 1..Len(after) /\ Len(after) \in Nat
      BY <1>1, <2>2, <2>3
    <3> HIDE DEF questions
    <3> QED
      BY <3>1
  <2> HIDE DEF questions
  <2> DEFINE a == Min(questions)
             b == Len(after)
  <2>5. a \in 1..Len(after) /\ b \in 1..Len(after) /\ a <= b
    BY <2>4
  <2> HIDE DEF a, b
  <2>6. /\ SubSeq(after, a, b) \in Seq(Nat) /\ Increasing(SubSeq(after, a, b))
        /\ Range(SubSeq(after, a, b)) = {after[k] : k \in a..b}
    BY <1>1, <2>5, PartStays
  <2>7. {after[k] : k \in a..b} \subseteq Range(after)
    BY <1>1, <2>5 DEF Range
  <2> QED
    BY <1>2, <2>1, <2>6, <2>7 DEF a, b
<1> QED
  BY <1>4, <1>5, <1>6

LEMMA ScoresAreNumbers ==
  ASSUME NEW list \in Seq(Nat), NEW m
  PROVE  Score(m, list) \in Nat
<1>1. {i \in DOMAIN list : list[i] = m} \in SUBSET Nat
  OBVIOUS
<1> QED
  BY <1>1, Sizes, UnitIsANumber, ReciprocalsAreNumbers DEF Score, RecallUnit

\* More points first, and of equal ones the older message.
LEMMA PointsOrder ==
  ASSUME NEW S \in SUBSET Nat, NEW points \in [S -> Nat], NEW R,
         \A x, y \in S : <<x, y>> \in R <=> points[x] > points[y] \/ (points[x] = points[y] /\ x < y)
  PROVE  Orders(R, S)
<1>1. \A x \in S : <<x, x>> \notin R
  OBVIOUS
<1>2. ASSUME NEW x \in S, NEW y \in S, NEW z \in S, <<x, y>> \in R, <<y, z>> \in R PROVE <<x, z>> \in R
  <2>1. x \in Nat /\ y \in Nat /\ z \in Nat /\ points[x] \in Nat /\ points[y] \in Nat /\ points[z] \in Nat
    OBVIOUS
  <2>2. points[x] > points[y] \/ (points[x] = points[y] /\ x < y)
    BY <1>2
  <2>3. points[y] > points[z] \/ (points[y] = points[z] /\ y < z)
    BY <1>2
  <2>4. points[x] > points[z] \/ (points[x] = points[z] /\ x < z)
    BY ONLY <2>1, <2>2, <2>3
  <2> QED
    BY <2>4
<1>3. ASSUME NEW x \in S, NEW y \in S, x # y PROVE <<x, y>> \in R \/ <<y, x>> \in R
  <2>1. x \in Nat /\ y \in Nat /\ points[x] \in Nat /\ points[y] \in Nat
    OBVIOUS
  <2>2. (points[x] > points[y] \/ (points[x] = points[y] /\ x < y)) \/ (points[y] > points[x] \/ (points[y] = points[x] /\ y < x))
    BY ONLY <1>3, <2>1
  <2> QED
    BY <2>2
<1> QED
  BY <1>1, <1>2, <1>3 DEF Orders

\* What is recalled is of the candidates, and in the budget.  (buildRecallContainer)
LEMMA RecallFits ==
  ASSUME NEW keywords \in Seq(Nat), NEW similar \in Seq(Nat), NEW limit \in Nat
  PROVE  /\ RecallContainer(keywords, similar, limit) \subseteq Range(keywords) \cup Range(similar)
         /\ CostOf(RecallContainer(keywords, similar, limit), LabelTokens) <= limit
<1> DEFINE Rank(m) == Score(m, keywords) + Score(m, similar)
           both == Range(keywords) \cup Range(similar)
           R == {p \in both \X both : Rank(p[1]) > Rank(p[2]) \/ (Rank(p[1]) = Rank(p[2]) /\ p[1] < p[2])}
           ranked == Ranked(both, R)
           n == Cardinality(both)
           V == SUBSET both
           F == [i \in Nat |-> [x \in V |-> IF i \in 1..n /\ CostOf(x \cup {ranked[i]}, LabelTokens) <= limit THEN x \cup {ranked[i]} ELSE x]]
           Made(c) == [i \in 0..n |-> IF i = 0 THEN {}
                                      ELSE LET before == c[i - 1]
                                               more == before \cup {ranked[i]}
                                           IN  IF CostOf(more, LabelTokens) <= limit THEN more ELSE before]
           q == CHOOSE c : c = Made(c)
<1>1. RecallContainer(keywords, similar, limit) = q[n]
  BY DEF RecallContainer
<1>2. IsFiniteSet(both) /\ both \in SUBSET Nat /\ n \in Nat
  <2>1. IsFiniteSet(Range(keywords)) /\ IsFiniteSet(Range(similar))
    BY RangeIsFinite
  <2>2. IsFiniteSet(both)
    BY <2>1, FS_Union
  <2>3. both \in SUBSET Nat
    BY DEF Range
  <2> HIDE DEF both
  <2> QED
    BY <2>2, <2>3, FS_CardinalityType
<1>3. Orders(R, both)
  <2> DEFINE points == [m \in both |-> Rank(m)]
  <2>1. \A m : Rank(m) \in Nat
    BY ScoresAreNumbers
  <2> HIDE DEF Rank, both
  <2>2. points \in [both -> Nat]
    BY <2>1
  <2>3. \A x, y \in both : <<x, y>> \in R <=> points[x] > points[y] \/ (points[x] = points[y] /\ x < y)
    OBVIOUS
  <2> HIDE DEF points, R
  <2> QED
    BY <1>2, <2>2, <2>3, PointsOrder
<1> HIDE DEF R, both
<1>4. \A i \in 1..n : ranked[i] \in both
  <2>1. ranked \in Seq(both) /\ Len(ranked) = n
    BY <1>2, <1>3, RankedInOrder
  <2> HIDE DEF ranked, n
  <2> QED
    BY <2>1
<1> HIDE DEF ranked, n, q
<1>5. F \in [Nat -> [V -> V]] /\ {} \in V
  BY <1>4
<1>6. PICK f \in [0..n -> V] : Steps(f, n, {}, F)
  <2> HIDE DEF F, V
  <2> QED
    BY ONLY <1>2, <1>5, StepsExist
<1>7. f = Made(f)
  <2>1. ASSUME NEW i \in 0..n, i # 0
        PROVE  f[i] = LET before == f[i - 1]
                          more == before \cup {ranked[i]}
                      IN  IF CostOf(more, LabelTokens) <= limit THEN more ELSE before
    <3>1. i \in 1..n /\ f[i - 1] \in V /\ i \in Nat
      BY <1>2, <2>1
    <3>2. f[i] = F[i][f[i - 1]]
      <4> HIDE DEF F
      <4> QED
        BY <1>6, <3>1 DEF Steps
    <3>3. F[i][f[i - 1]] = IF CostOf(f[i - 1] \cup {ranked[i]}, LabelTokens) <= limit THEN f[i - 1] \cup {ranked[i]} ELSE f[i - 1]
      <4> DEFINE x == f[i - 1]
      <4> HIDE DEF x, V
      <4>1. x \in V
        BY <3>1 DEF x
      <4>2. F[i][x] = IF CostOf(x \cup {ranked[i]}, LabelTokens) <= limit THEN x \cup {ranked[i]} ELSE x
        BY <3>1, <4>1
      <4> HIDE DEF F
      <4> QED
        BY <4>2 DEF x
    <3> HIDE DEF F
    <3> QED
      BY <3>2, <3>3
  <2>2. f[0] = {}
    BY <1>6 DEF Steps
  <2>3. f \in [0..n -> V]
    OBVIOUS
  <2> HIDE DEF V
  <2> QED
    BY <2>1, <2>2, <2>3
<1>8. q = Made(q)
  <2> HIDE DEF Made
  <2> QED
    BY <1>7 DEF q
<1>9. q[0] = {} /\ \A i \in 1..n : q[i] = IF CostOf(q[i - 1] \cup {ranked[i]}, LabelTokens) <= limit THEN q[i - 1] \cup {ranked[i]} ELSE q[i - 1]
  <2>1. 0 \in 0..n /\ \A i \in 1..n : i \in 0..n /\ i # 0
    BY <1>2
  <2> QED
    BY <1>8, <2>1
<1> DEFINE T == {k \in Nat : k <= n => q[k] \in V /\ CostOf(q[k], LabelTokens) <= limit}
<1>10. 0 \in T
  <2>2. CostOf({}, LabelTokens) = 0
    BY BudgetSizes, CostIsANumber
  <2>3. q[0] = {} /\ 0 <= limit
    BY <1>9
  <2>4. q[0] \in V /\ CostOf(q[0], LabelTokens) <= limit
    BY <2>2, <2>3
  <2> QED
    BY <2>4
<1>11. ASSUME NEW k \in T PROVE k + 1 \in T
  <2>1. SUFFICES ASSUME k + 1 <= n PROVE q[k + 1] \in V /\ CostOf(q[k + 1], LabelTokens) <= limit
    OBVIOUS
  <2>2. k + 1 \in 1..n /\ q[k] \in V /\ CostOf(q[k], LabelTokens) <= limit /\ (k + 1) - 1 = k /\ k \in Nat
    BY <1>2, <2>1
  <2>3. q[k + 1] = IF CostOf(q[k] \cup {ranked[k + 1]}, LabelTokens) <= limit THEN q[k] \cup {ranked[k + 1]} ELSE q[k]
    BY <1>9, <2>2
  <2>4. ranked[k + 1] \in both
    BY <1>4, <2>2
  <2> QED
    BY <2>2, <2>3, <2>4
<1>12. T = Nat
  <2>1. T \in SUBSET Nat
    OBVIOUS
  <2> HIDE DEF T
  <2> QED
    BY <1>10, <1>11, <2>1, AllNumbers
<1>13. n \in T
  BY <1>2, <1>12
<1> QED
  BY <1>1, <1>2, <1>13 DEF both

LEMMA ShareIsAPart ==
  ASSUME NEW total \in Nat
  PROVE  RecallShare(total) \in Nat /\ RecallShare(total) <= total /\ total - RecallShare(total) \in Nat
<1> DEFINE share == (total * 35) \div 100
           some == IF share < 1 /\ total > 1 THEN 1 ELSE share
<1>1. share \in Nat /\ total \div 2 \in Nat /\ total \div 2 <= total
  OBVIOUS
<1>2. RecallShare(total) = IF some >= total THEN total \div 2 ELSE some
  BY DEF RecallShare
<1> HIDE DEF share
<1>3. RecallShare(total) \in Nat /\ RecallShare(total) <= total
  BY <1>1, <1>2
<1> QED
  BY <1>3

Turns == [stage : {"idle", "loading", "answering"}, question : Nat, loading : SUBSET Loads, summary : Summaries,
          recent : Nat, budget : Nat, history : Histories, recall : SUBSET Nat]

\* What ContextIsSound says of an answering turn, and that it shows messages of the session.
Shows(r, session) ==
    /\ Increasing(r.history.shown) /\ Range(r.history.shown) \cup r.recall \subseteq 1..Len(session)
    /\ Range(r.history.shown) \cap r.recall = {} /\ r.question \notin Range(r.history.shown) \cup r.recall
    /\ r.summary.last + MaxRecent > r.recent /\ r.summary.last <= r.recent /\ r.summary.last # r.question =>
          \A m \in Range(r.history.shown) : m > r.summary.last
    /\ CostOf(r.recall, LabelTokens) <= RecallShare(r.budget)
    /\ InRoom(r.history, IF r.recall = {} THEN r.budget ELSE r.budget - RecallShare(r.budget))

TurnSound(r, session) ==
    r \in Turns /\ r.recent <= Len(session) /\ (r.stage = "answering" => Shows(r, session))

TurnInv == turn = [t \in Slots |-> turn[t]] /\ \A t \in Slots : TurnSound(turn[t], messages)

\* A context stays what it is while the session grows.
LEMMA LongerSession ==
  ASSUME NEW session \in Seq(Roles), NEW role \in Roles, NEW r, TurnSound(r, session)
  PROVE  TurnSound(r, Append(session, role))
<1> DEFINE longer == Append(session, role)
<1>1. Len(session) \in Nat /\ Len(longer) = Len(session) + 1 /\ \A m \in 1..Len(session) : longer[m] = session[m]
  OBVIOUS
<1>2. r \in Turns /\ r.recent \in Nat /\ r.recent <= Len(session)
  BY DEF TurnSound, Turns
<1> HIDE DEF longer
<1>4. ASSUME r.stage = "answering" PROVE Shows(r, longer)
  <2>1. Shows(r, session)
    BY <1>4 DEF TurnSound
  <2>2. Range(r.history.shown) \cup r.recall \subseteq 1..Len(longer)
    BY <1>1, <2>1 DEF Shows
  <2> QED
    BY <2>1, <2>2 DEF Shows
<1>5. r.recent <= Len(longer)
  BY <1>1, <1>2
<1> QED
  BY <1>2, <1>4, <1>5 DEF TurnSound, longer

\* The recent messages of a turn but its question, in their order.
Recent(r) ==
    LET n == Min({MaxRecent, r.recent})
        loaded == [i \in 1..n |-> r.recent - n + i]
    IN  Picked(loaded, {i \in DOMAIN loaded : loaded[i] # r.question})

LEMMA RecentMessages ==
  ASSUME NEW r \in Turns
  PROVE  /\ Recent(r) \in Seq(Nat) /\ Increasing(Recent(r))
         /\ \A m : m \in Range(Recent(r)) <=> m \in 1..r.recent /\ m + MaxRecent > r.recent /\ m # r.question
<1> DEFINE n == Min({MaxRecent, r.recent})
           loaded == [i \in 1..n |-> r.recent - n + i]
           S == {i \in DOMAIN loaded : loaded[i] # r.question}
<1>1. r.recent \in Nat /\ MaxRecent \in Nat
  BY Sizes DEF Turns
<1>2. n \in Nat /\ n <= r.recent /\ n <= MaxRecent /\ (n = r.recent \/ n = MaxRecent)
  <2>1. {MaxRecent, r.recent} \in SUBSET Nat /\ {MaxRecent, r.recent} # {}
    BY <1>1
  <2>2. n \in {MaxRecent, r.recent} /\ \A y \in {MaxRecent, r.recent} : n <= y
    BY <2>1, MinIsLeast
  <2> QED
    BY <1>1, <2>2
<1>3. Recent(r) = Picked(loaded, S)
  BY DEF Recent
<1> HIDE DEF n
<1>4. loaded \in Seq(Nat) /\ Increasing(loaded) /\ DOMAIN loaded = 1..n
  <2>1. \A i \in 1..n : r.recent - n + i \in Nat
    BY <1>1, <1>2
  <2>2. loaded \in Seq(Nat)
    BY <1>2, <2>1
  <2>3. Increasing(loaded)
    BY <1>1, <1>2 DEF Increasing
  <2> QED
    BY <2>2, <2>3
<1>5. \A m : (\E i \in 1..n : m = r.recent - n + i) <=> m \in 1..r.recent /\ m + MaxRecent > r.recent
  <2>1. ASSUME NEW i \in 1..n PROVE r.recent - n + i \in 1..r.recent /\ (r.recent - n + i) + MaxRecent > r.recent
    BY <1>1, <1>2
  <2>2. ASSUME NEW m \in 1..r.recent, m + MaxRecent > r.recent PROVE \E i \in 1..n : m = r.recent - n + i
    <3>1. m + n - r.recent \in 1..n /\ m = r.recent - n + (m + n - r.recent)
      BY <1>1, <1>2, <2>2
    <3> QED
      BY <3>1
  <2> QED
    BY <2>1, <2>2
<1>6. \A i \in 1..n : loaded[i] = r.recent - n + i
  OBVIOUS
<1> HIDE DEF loaded
<1>7. /\ Picked(loaded, S) \in Seq(Nat) /\ Increasing(Picked(loaded, S))
      /\ Range(Picked(loaded, S)) = {loaded[i] : i \in S \cap DOMAIN loaded}
  <2> HIDE DEF S
  <2> QED
    BY <1>4, PickedStays
<1>8. \A m : m \in Range(Picked(loaded, S)) <=> (\E i \in 1..n : m = r.recent - n + i) /\ m # r.question
  BY <1>4, <1>6, <1>7
<1> HIDE DEF S
<1> QED
  BY <1>3, <1>5, <1>7, <1>8

\* What BuildContext assembles is sound, whatever both searches have found.
LEMMA AssembledShows ==
  ASSUME SummaryInv, NEW r, TurnSound(r, messages), NEW keywords \in Seq(Nat), NEW similar \in Seq(Nat),
         Range(keywords) \cup Range(similar) \subseteq 1..Len(messages), NEW budget \in Nat
  PROVE  TurnSound(Assembled(r, keywords, similar, budget), messages)
<1> DEFINE applied == ApplySummary(Recent(r), r.summary)
           share == RecallShare(budget)
           first == TruncateHistory(applied, budget - share)
           Kept(list) == {i \in DOMAIN list : list[i] \notin Range(first.shown) \cup {r.question}}
           Others(list) == Picked(list, Kept(list))
           recall == RecallContainer(Others(keywords), Others(similar), share)
           history == IF recall = {} THEN TruncateHistory(applied, budget) ELSE first
           a == Assembled(r, keywords, similar, budget)
<1>0. /\ r \in Turns /\ r.recent \in Nat /\ r.recent <= Len(messages) /\ Len(messages) \in Nat
      /\ r.summary \in Summaries /\ r.summary.last \in Nat
  BY DEF TurnSound, Turns, Summaries, SummaryInv
<1>1. a = [r EXCEPT !.stage = "answering", !.budget = budget, !.recall = recall, !.history = history]
  BY DEF Assembled, Recent
<1>2. share \in Nat /\ share <= budget /\ budget - share \in Nat
  BY ShareIsAPart
<1>3. /\ Recent(r) \in Seq(Nat) /\ Increasing(Recent(r))
      /\ \A m : m \in Range(Recent(r)) <=> m \in 1..r.recent /\ m + MaxRecent > r.recent /\ m # r.question
  BY <1>0, RecentMessages
<1>4. /\ applied \in Seq(Nat) /\ Increasing(applied) /\ Range(applied) \subseteq Range(Recent(r))
      /\ r.summary.last \in Range(Recent(r)) => \A m \in Range(applied) : m > r.summary.last
  BY <1>0, <1>3, SummaryIsApplied
<1> HIDE DEF share, applied
<1>s. Range(applied) \subseteq 1..MaxMessages
  <2>1. MaxMessages \in Nat /\ Len(messages) <= MaxMessages
    BY Sizes DEF SummaryInv
  <2>2. 1..r.recent \subseteq 1..MaxMessages
    BY <1>0, <2>1
  <2> QED
    BY <1>3, <1>4, <2>2
<1> DEFINE whole == TruncateHistory(applied, budget)
<1>5. /\ first \in Histories /\ Increasing(first.shown) /\ Range(first.shown) \subseteq Range(applied)
      /\ InRoom(first, budget - share)
      /\ whole \in Histories /\ Increasing(whole.shown) /\ Range(whole.shown) \subseteq Range(applied) /\ InRoom(whole, budget)
  BY <1>2, <1>4, <1>s, HistoryFits
<1> HIDE DEF first, whole
<1>6. ASSUME NEW list \in Seq(Nat)
      PROVE  Others(list) \in Seq(Nat) /\ Range(Others(list)) \subseteq Range(list) \ (Range(first.shown) \cup {r.question})
  <2> DEFINE S == Kept(list)
  <2>0. \A i \in S : i \in DOMAIN list /\ list[i] \notin Range(first.shown) \cup {r.question}
    OBVIOUS
  <2> HIDE DEF S
  <2>1. /\ Picked(list, S) \in Seq(Nat)
        /\ \E at \in [DOMAIN Picked(list, S) -> DOMAIN list] : PicksAt(at, list, S)
    BY PickedInOrder
  <2>2. PICK at \in [DOMAIN Picked(list, S) -> DOMAIN list] : PicksAt(at, list, S)
    BY <2>1
  <2>3. \A i \in DOMAIN Picked(list, S) : at[i] \in S /\ Picked(list, S)[i] = list[at[i]]
    BY <2>2 DEF PicksAt
  <2>4. Range(Picked(list, S)) \subseteq Range(list) \ (Range(first.shown) \cup {r.question})
    BY <2>0, <2>3 DEF Range
  <2> QED
    BY <2>1, <2>4 DEF S
<1> HIDE DEF Others, Kept
<1>7. /\ recall \subseteq 1..Len(messages) /\ recall \cap Range(first.shown) = {} /\ r.question \notin recall
      /\ CostOf(recall, LabelTokens) <= share
  <2>1. recall \subseteq Range(Others(keywords)) \cup Range(Others(similar)) /\ CostOf(recall, LabelTokens) <= share
    BY <1>2, <1>6, RecallFits
  <2> HIDE DEF recall
  <2> QED
    BY <1>6, <2>1
<1> HIDE DEF recall
<1>8. /\ history \in Histories /\ Increasing(history.shown) /\ Range(history.shown) \subseteq Range(applied)
      /\ InRoom(history, IF recall = {} THEN budget ELSE budget - share)
  <2>1. CASE recall = {}
    BY <1>5, <2>1 DEF whole
  <2>2. CASE recall # {}
    BY <1>5, <2>2
  <2> QED
    BY <2>1, <2>2
<1>9. Range(history.shown) \cap recall = {}
  <2>1. recall # {} => history = first
    OBVIOUS
  <2> HIDE DEF history
  <2> QED
    BY <1>7, <2>1
<1> HIDE DEF history
<1>10. /\ history \in Histories /\ Increasing(history.shown)
       /\ \A m \in Range(history.shown) : m \in 1..r.recent /\ m # r.question /\ m \in Range(applied)
  BY <1>3, <1>4, <1>8
<1>11. /\ a \in Turns /\ a.recall = recall /\ a.history = history /\ a.budget = budget
       /\ a.recent = r.recent /\ a.summary = r.summary /\ a.question = r.question
  <2> HIDE DEF a
  <2>1. recall \in SUBSET Nat /\ history \in Histories
    BY <1>0, <1>7, <1>10
  <2> DEFINE Rest(x) == x.recent = r.recent /\ x.summary = r.summary /\ x.question = r.question
             b == [r EXCEPT !.stage = "answering"]
             c == [b EXCEPT !.budget = budget]
             d == [c EXCEPT !.recall = recall]
             e == [d EXCEPT !.history = history]
  <2>2. b \in Turns /\ Rest(b)
    BY <1>0 DEF Turns
  <2>3. a = e
    BY <1>1
  <2> HIDE DEF b
  <2>4. c \in Turns /\ Rest(c) /\ c.budget = budget
    BY <2>2 DEF Turns
  <2> HIDE DEF c
  <2>5. d \in Turns /\ Rest(d) /\ d.budget = budget /\ d.recall = recall
    BY <2>1, <2>4 DEF Turns
  <2> HIDE DEF d
  <2>6. e \in Turns /\ Rest(e) /\ e.budget = budget /\ e.recall = recall /\ e.history = history
    BY <2>1, <2>5 DEF Turns
  <2> HIDE DEF e
  <2> QED
    BY <2>3, <2>6
<1> HIDE DEF a
<1>12. r.summary.last + MaxRecent > r.recent /\ r.summary.last <= r.recent /\ r.summary.last # r.question =>
          \A m \in Range(history.shown) : m > r.summary.last
  <2>1. CASE r.summary.last = 0
    BY <1>0, <1>10, <2>1
  <2>2. CASE r.summary.last # 0
    <3>1. SUFFICES ASSUME r.summary.last + MaxRecent > r.recent, r.summary.last <= r.recent, r.summary.last # r.question
                   PROVE  r.summary.last \in Range(Recent(r))
      BY <1>4, <1>10
    <3>2. r.summary.last \in 1..r.recent
      BY <1>0, <2>2, <3>1
    <3> QED
      BY <1>3, <3>1, <3>2
  <2> QED
    BY <2>1, <2>2
<1>13. Range(history.shown) \cup recall \subseteq 1..Len(messages)
  <2>1. 1..r.recent \subseteq 1..Len(messages)
    BY <1>0
  <2>2. \A m \in Range(history.shown) : m \in 1..Len(messages)
    BY <1>10, <2>1
  <2> QED
    BY <1>7, <2>2
<1>14. r.question \notin Range(history.shown) \cup recall
  BY <1>7, <1>10
<1>15. /\ CostOf(recall, LabelTokens) <= RecallShare(budget)
       /\ InRoom(history, IF recall = {} THEN budget ELSE budget - RecallShare(budget))
  BY <1>7, <1>8 DEF share
<1>16. Shows(a, messages)
  BY <1>9, <1>10, <1>11, <1>12, <1>13, <1>14, <1>15 DEF Shows
<1> QED
  BY <1>0, <1>11, <1>16 DEF TurnSound, a

\* A step of one turn, to r.
LEMMA TurnKeeps ==
  ASSUME TurnInv, NEW t \in Slots, NEW r, turn' = [turn EXCEPT ![t] = r], TurnSound(r, messages'),
         SummaryInv, messages' = messages \/ \E role \in Roles : messages' = Append(messages, role)
  PROVE  TurnInv'
<1>1. \A u \in Slots : TurnSound(turn[u], messages')
  <2>1. messages \in Seq(Roles) /\ \A u \in Slots : TurnSound(turn[u], messages)
    BY DEF SummaryInv, TurnInv
  <2> QED
    BY <2>1, LongerSession
<1>2. \A u \in Slots : turn'[u] = IF u = t THEN r ELSE turn[u]
  BY DEF TurnInv
<1>3. turn' = [u \in Slots |-> turn'[u]]
  BY DEF TurnInv
<1>4. \A u \in Slots : TurnSound(turn'[u], messages')
  BY <1>1, <1>2
<1> QED
  BY <1>3, <1>4 DEF TurnInv

LEMMA NoTurnIsSound ==
  ASSUME NEW session \in Seq(Roles), NEW n \in Nat, n <= Len(session)
  PROVE  /\ TurnSound(NoTurn, session)
         /\ TurnSound([NoTurn EXCEPT !.stage = "loading", !.question = n, !.loading = Loads], session)
<1>1. NoSummary \in Summaries /\ NoHistory \in Histories /\ {} \in SUBSET Loads /\ Loads \in SUBSET Loads /\ {} \in SUBSET Nat
  <2>1. <<>> \in Seq(Nat)
    OBVIOUS
  <2> QED
    BY <2>1 DEF NoSummary, Summaries, NoHistory, Histories
<1>2. NoTurn \in Turns /\ NoTurn.stage = "idle" /\ NoTurn.recent = 0
  BY <1>1 DEF NoTurn, Turns
<1> DEFINE a == [NoTurn EXCEPT !.stage = "loading"]
           b == [a EXCEPT !.question = n]
           asked == [b EXCEPT !.loading = Loads]
<1>3. a \in Turns /\ a.stage = "loading" /\ a.recent = 0
  BY <1>2 DEF Turns
<1> HIDE DEF a
<1>4. b \in Turns /\ b.stage = "loading" /\ b.recent = 0
  BY <1>3 DEF Turns
<1> HIDE DEF b
<1>5. asked \in Turns /\ asked.stage = "loading" /\ asked.recent = 0
  BY <1>1, <1>4 DEF Turns
<1>6. Len(session) \in Nat
  OBVIOUS
<1> HIDE DEF asked
<1>7. TurnSound(NoTurn, session) /\ TurnSound(asked, session)
  BY <1>2, <1>5, <1>6 DEF TurnSound
<1> QED
  BY <1>7 DEF asked, a, b

LEMMA TurnsStart == SessionInit => SummaryInv /\ TurnInv
<1> SUFFICES ASSUME SessionInit PROVE SummaryInv /\ TurnInv
  OBVIOUS
<1>1. SummaryInv
  BY SummaryStarts
<1>2. messages \in Seq(Roles) /\ turn = [t \in Slots |-> NoTurn]
  BY <1>1 DEF SessionInit, SummaryInv
<1>3. TurnSound(NoTurn, messages)
  <2>1. 0 \in Nat /\ 0 <= Len(messages)
    BY <1>2
  <2> QED
    BY <1>2, <2>1, NoTurnIsSound
<1> QED
  BY <1>1, <1>2, <1>3 DEF TurnInv

LEMMA TurnsStay == SummaryInv /\ TurnInv /\ [SessionNext]_sessionVars => SummaryInv' /\ TurnInv'
<1> SUFFICES ASSUME SummaryInv, TurnInv, [SessionNext]_sessionVars PROVE TurnInv'
  BY SummaryGrows
<1>0. /\ messages \in Seq(Roles) /\ Len(messages) \in Nat /\ SummaryOf(summary, Len(messages)) /\ summary \in Summaries
      /\ \A t \in Slots : TurnSound(turn[t], messages)
  BY DEF SummaryInv, TurnInv, SummaryOf
<1>1. CASE UNCHANGED sessionVars
  BY <1>1 DEF TurnInv, sessionVars
<1>2. ASSUME NEW t \in Slots, Ask(t) PROVE TurnInv'
  <2> DEFINE r == [NoTurn EXCEPT !.stage = "loading", !.question = Len(messages) + 1, !.loading = Loads]
  <2>1. turn' = [turn EXCEPT ![t] = r] /\ messages' = Append(messages, "user") /\ "user" \in Roles
    BY <1>2 DEF Ask, Roles
  <2>2. messages' \in Seq(Roles) /\ Len(messages) + 1 \in Nat /\ Len(messages) + 1 <= Len(messages')
    BY <1>0, <2>1
  <2>3. TurnSound(r, messages')
    BY <2>2, NoTurnIsSound
  <2> HIDE DEF r
  <2> QED
    BY <2>1, <2>3, TurnKeeps
<1>3. ASSUME NEW t \in Slots, NEW what, NEW outcomes, Load(t, what, outcomes), \A r \in outcomes : TurnSound(r, messages)
      PROVE  TurnInv'
  <2>1. PICK r \in {turn[t]} \cup outcomes : turn' = [turn EXCEPT ![t] = [r EXCEPT !.loading = @ \ {what}]]
    BY <1>3 DEF Load
  <2>2. messages' = messages
    BY <1>3 DEF Load
  <2>3. r.stage = "loading" \/ TurnSound(r, messages)
    BY <1>0, <1>3, <2>1
  <2>4. TurnSound(r, messages)
    BY <1>0, <1>3, <2>1
  <2> DEFINE s == [r EXCEPT !.loading = @ \ {what}]
  <2>5. /\ s \in Turns /\ s.stage = r.stage /\ s.recent = r.recent /\ s.history = r.history /\ s.recall = r.recall
        /\ s.summary = r.summary /\ s.question = r.question /\ s.budget = r.budget
    BY <2>4 DEF TurnSound, Turns
  <2> HIDE DEF s
  <2>6. TurnSound(s, messages')
    BY <2>2, <2>4, <2>5 DEF TurnSound, Shows
  <2> QED
    BY <2>1, <2>2, <2>6, TurnKeeps DEF s
<1>4. ASSUME NEW t \in Slots, LoadSummary(t) PROVE TurnInv'
  <2> DEFINE r == [turn[t] EXCEPT !.summary = summary]
  <2>1. turn[t] \in Turns /\ turn[t].stage = "loading" /\ turn[t].recent <= Len(messages)
    BY <1>0, <1>4 DEF LoadSummary, Load, TurnSound
  <2>2. r \in Turns /\ r.stage = "loading" /\ r.recent = turn[t].recent
    BY <1>0, <2>1 DEF Turns
  <2> HIDE DEF r
  <2>3. TurnSound(r, messages)
    BY <2>1, <2>2 DEF TurnSound
  <2>4. Load(t, "summary", {r})
    BY <1>4 DEF LoadSummary, r
  <2> QED
    BY <1>3, <2>3, <2>4
<1>5. ASSUME NEW t \in Slots, LoadRecent(t) PROVE TurnInv'
  <2> DEFINE r == [turn[t] EXCEPT !.recent = Len(messages)]
  <2>1. turn[t] \in Turns /\ turn[t].stage = "loading"
    BY <1>0, <1>5 DEF LoadRecent, Load, TurnSound
  <2>2. r \in Turns /\ r.stage = "loading" /\ r.recent = Len(messages)
    BY <1>0, <2>1 DEF Turns
  <2> HIDE DEF r
  <2>3. TurnSound(r, messages)
    BY <1>0, <2>1, <2>2 DEF TurnSound
  <2>4. Load(t, "recent", {r})
    BY <1>5 DEF LoadRecent, r
  <2> QED
    BY <1>3, <2>3, <2>4
<1>6. ASSUME NEW t \in Slots, Assemble(t) PROVE TurnInv'
  <2>1. PICK keywords \in Matches, similar \in Matches, budget \in Budgets :
           turn' = [turn EXCEPT ![t] = Assembled(@, keywords, similar, budget)]
    BY <1>6 DEF Assemble
  <2>2. /\ messages' = messages /\ turn' = [turn EXCEPT ![t] = Assembled(turn[t], keywords, similar, budget)]
        /\ budget \in Nat
    BY <1>6, <2>1, BudgetSizes DEF Assemble
  <2>3. \A list \in Matches : list \in Seq(Nat) /\ Range(list) \subseteq 1..Len(messages)
    <3>1. ASSUME NEW list \in Matches PROVE list \in Seq(Nat) /\ Range(list) \subseteq 1..Len(messages)
      <4> DEFINE S == {1, 2, Len(messages) - 2} \cap DOMAIN messages
      <4>1. S \in SUBSET Nat /\ S \subseteq 1..Len(messages)
        BY <1>0
      <4>2. list \in SeqOf(S, RecallTopK)
        BY DEF Matches
      <4> HIDE DEF S
      <4>3. PICK n \in 0..RecallTopK : list \in [1..n -> S]
        BY <4>2 DEF SeqOf
      <4>4. n \in Nat
        BY Sizes
      <4>5. list \in Seq(Nat)
        <5>1. list \in [1..n -> Nat]
          BY <4>1, <4>3
        <5> QED
          BY <4>4, <5>1
      <4> QED
        BY <4>1, <4>3, <4>5 DEF Range
    <3> QED
      BY <3>1
  <2>4. TurnSound(turn[t], messages)
    BY <1>0
  <2>5. TurnSound(Assembled(turn[t], keywords, similar, budget), messages)
    BY <2>2, <2>3, <2>4, AssembledShows
  <2> QED
    BY <2>2, <2>5, TurnKeeps
<1>7. ASSUME NEW t \in Slots, Answer(t) PROVE TurnInv'
  <2>1. turn' = [turn EXCEPT ![t] = NoTurn] /\ messages' = Append(messages, "assistant") /\ "assistant" \in Roles
    BY <1>7 DEF Answer, Roles
  <2>2. messages' \in Seq(Roles) /\ 0 \in Nat /\ 0 <= Len(messages')
    BY <1>0, <2>1
  <2>3. TurnSound(NoTurn, messages')
    BY <2>2, NoTurnIsSound
  <2> QED
    BY <2>1, <2>3, TurnKeeps
<1>8. ASSUME NEW t \in Slots, FailTurn(t) PROVE TurnInv'
  <2>1. turn' = [turn EXCEPT ![t] = NoTurn] /\ messages' = messages
    BY <1>8 DEF FailTurn
  <2>2. 0 \in Nat /\ 0 <= Len(messages)
    BY <1>0
  <2>3. TurnSound(NoTurn, messages')
    BY <1>0, <2>1, <2>2, NoTurnIsSound
  <2> QED
    BY <2>1, <2>3, TurnKeeps
<1>9. ASSUME NEW t \in Slots, ListMessages(t) \/ ReadSummary(t) \/ StoreSummary(t) \/ RefreshFails(t) PROVE TurnInv'
  <2>1. turn' = turn /\ messages' = messages
    BY <1>9 DEF ListMessages, ReadSummary, StoreSummary, RefreshFails
  <2> QED
    BY <2>1 DEF TurnInv
<1> QED
  BY <1>1, <1>2, <1>4, <1>5, <1>6, <1>7, <1>8, <1>9 DEF SessionNext

LEMMA SessionIsGood == SummaryInv /\ TurnInv => SessionTypeOK /\ ContextIsSound
<1> SUFFICES ASSUME SummaryInv, TurnInv PROVE SessionTypeOK /\ ContextIsSound
  OBVIOUS
<1>1. /\ messages \in Seq({"user", "assistant"}) /\ Len(messages) \in 0..MaxMessages
      /\ summary.last \in 0..Len(messages) /\ summary.covers \subseteq 1..Len(messages)
  BY Sizes DEF SummaryInv, SummaryOf, Summaries, Roles
<1>2. \A t \in Slots : refresh[t].stage \in {"idle", "list", "read", "store"} /\ refresh[t].tries \in 0..Attempts
  BY DEF SummaryInv, RefreshSound, Refreshes
<1>3. \A t \in Slots : turn[t].stage \in {"idle", "loading", "answering"}
  BY DEF TurnInv, TurnSound, Turns
<1>4. ContextIsSound
  <2>1. ASSUME NEW t \in Slots, turn[t].stage = "answering" PROVE Shows(turn[t], messages)
    BY <2>1 DEF TurnInv, TurnSound
  <2> QED
    BY <2>1 DEF ContextIsSound, Shows, Increasing
<1> QED
  BY <1>1, <1>2, <1>3, <1>4 DEF SessionTypeOK

-----------------------------------------------------------------------------
(* A search of the knowledge bases.                                        *)

LEMMA Bounds ==
  /\ TopK \in Nat \ {0} /\ TopN \in Nat \ {0} /\ Multiplier \in Nat \ {0} /\ Retries \in Nat /\ Window \in Nat
  /\ CandidateLimit \in Nat /\ Chunks \in SUBSET Nat /\ IsFiniteSet(Chunks) /\ Scores \in SUBSET Nat
  /\ \A c \in Chunks : Place[c].index \in Nat /\ Place[c].document \in Documents
<1>1. Multiplier \in Nat /\ TopK \in Nat
  BY RetrievalSizes
<1>2. TopK * Multiplier \in Nat
  BY <1>1
<1> QED
  BY <1>2, RetrievalSizes DEF CandidateLimit, Documents

Sorted(s) == \A i, j \in DOMAIN s : i < j => Better(s[i], s[j])
Distinct(s) == \A i, j \in DOMAIN s : s[i].id = s[j].id => i = j

\* Elements with ids of their own, ranked: each once, the best first.
LEMMA RankedBest ==
  ASSUME NEW S, IsFiniteSet(S), \A x \in S : x.id \in Nat /\ x.score \in Nat, \A x, y \in S : x.id = y.id => x = y
  PROVE  /\ BestFirst(S) \in Seq(S) /\ \A x \in S : \E i \in DOMAIN BestFirst(S) : BestFirst(S)[i] = x
         /\ Sorted(BestFirst(S)) /\ Distinct(BestFirst(S))
<1> DEFINE R == {p \in S \X S : Better(p[1], p[2])}
           s == Ranked(S, R)
<1>1. \A x, y \in S : <<x, y>> \in R <=> Better(x, y)
  OBVIOUS
<1> HIDE DEF R
<1>2. Orders(R, S)
  <2>1. \A x \in S : ~Better(x, x)
    BY DEF Better
  <2>2. ASSUME NEW x \in S, NEW y \in S, NEW z \in S, Better(x, y), Better(y, z) PROVE Better(x, z)
    <3>1. x.score \in Nat /\ y.score \in Nat /\ z.score \in Nat /\ x.id \in Nat /\ y.id \in Nat /\ z.id \in Nat
      OBVIOUS
    <3>2. x.score > y.score \/ (x.score = y.score /\ x.id < y.id)
      BY <2>2 DEF Better
    <3>3. y.score > z.score \/ (y.score = z.score /\ y.id < z.id)
      BY <2>2 DEF Better
    <3>4. x.score > z.score \/ (x.score = z.score /\ x.id < z.id)
      BY ONLY <3>1, <3>2, <3>3
    <3> QED
      BY <3>4 DEF Better
  <2>3. ASSUME NEW x \in S, NEW y \in S, x # y PROVE Better(x, y) \/ Better(y, x)
    <3>1. x.score \in Nat /\ y.score \in Nat /\ x.id \in Nat /\ y.id \in Nat /\ x.id # y.id
      BY <2>3
    <3>2. (x.score > y.score \/ (x.score = y.score /\ x.id < y.id)) \/ (y.score > x.score \/ (y.score = x.score /\ y.id < x.id))
      BY ONLY <3>1
    <3> QED
      BY <3>2 DEF Better
  <2> QED
    BY <1>1, <2>1, <2>2, <2>3 DEF Orders
<1>3. /\ s \in Seq(S) /\ \A x \in S : \E i \in DOMAIN s : s[i] = x
      /\ \A i, j \in DOMAIN s : i < j => <<s[i], s[j]>> \in R
  BY <1>2, RankedInOrder
<1>4. BestFirst(S) = s
  BY DEF BestFirst, R
<1> HIDE DEF s
<1>5. \A i \in DOMAIN s : i \in Nat /\ s[i] \in S
  BY <1>3
<1>6. Sorted(s)
  BY <1>1, <1>3, <1>5 DEF Sorted
<1>7. Distinct(s)
  <2>1. ASSUME NEW i \in DOMAIN s, NEW j \in DOMAIN s, i < j, s[i].id = s[j].id PROVE FALSE
    <3>1. <<s[i], s[j]>> \in R /\ s[i] = s[j]
      BY <1>3, <1>5, <2>1
    <3> QED
      BY <1>1, <1>5, <3>1 DEF Better
  <2>2. \A i, j \in DOMAIN s : i = j \/ i < j \/ j < i
    BY <1>5
  <2> QED
    BY <2>1, <2>2 DEF Distinct
<1> QED
  BY <1>3, <1>4, <1>6, <1>7

\* What is kept of a list, and its beginning, are in its order.
LEMMA KeptSorted ==
  ASSUME NEW V, NEW s \in Seq(V), NEW S
  PROVE  /\ Picked(s, S) \in Seq(V) /\ Range(Picked(s, S)) \subseteq Range(s)
         /\ Sorted(s) => Sorted(Picked(s, S))
         /\ Distinct(s) => Distinct(Picked(s, S))
         /\ \A i \in DOMAIN s : i \in S => s[i] \in Range(Picked(s, S))
<1> DEFINE t == Picked(s, S)
<1>1. t \in Seq(V)
  BY PickedInOrder
<1>2. PICK at \in [DOMAIN t -> DOMAIN s] : PicksAt(at, s, S)
  BY PickedInOrder
<1>3. /\ \A i \in DOMAIN t : at[i] \in S /\ t[i] = s[at[i]]
      /\ \A i, j \in DOMAIN t : i < j => at[i] < at[j]
      /\ \A k \in DOMAIN s : k \in S => \E i \in DOMAIN t : at[i] = k
  BY <1>2 DEF PicksAt
<1>4. \A i \in DOMAIN t : i \in Nat
  BY <1>1
<1>5. \A i \in DOMAIN t : at[i] \in DOMAIN s
  BY <1>2
<1> HIDE DEF t
<1>6. Range(t) \subseteq Range(s)
  BY <1>3, <1>5 DEF Range
<1>7. Sorted(s) => Sorted(t)
  BY <1>3, <1>5 DEF Sorted
<1>8. Distinct(s) => Distinct(t)
  <2>1. ASSUME Distinct(s), NEW i \in DOMAIN t, NEW j \in DOMAIN t, t[i].id = t[j].id PROVE i = j
    <3>1. at[i] = at[j]
      BY <1>3, <1>5, <2>1 DEF Distinct
    <3>2. ~(at[i] < at[j]) /\ ~(at[j] < at[i])
      <4>1. at[i] \in Nat
        <5>1. \A k \in DOMAIN s : k \in Nat
          OBVIOUS
        <5> QED
          BY <1>5, <5>1
      <4> QED
        BY <3>1, <4>1
    <3> QED
      BY <1>3, <1>4, <3>2
  <2> QED
    BY <2>1 DEF Distinct
<1>9. ASSUME NEW k \in DOMAIN s, k \in S PROVE s[k] \in Range(t)
  <2>1. PICK i \in DOMAIN t : at[i] = k
    BY <1>3, <1>9
  <2>2. t[i] = s[k]
    BY <1>3, <2>1
  <2> QED
    BY <2>2 DEF Range
<1> QED
  BY <1>1, <1>6, <1>7, <1>8, <1>9 DEF t

LEMMA CutSorted ==
  ASSUME NEW V, NEW s \in Seq(V), NEW n \in Nat
  PROVE  /\ Cut(s, n) \in Seq(V) /\ Len(Cut(s, n)) <= n /\ Len(Cut(s, n)) \in {n, Len(s)} /\ Len(Cut(s, n)) <= Len(s)
         /\ DOMAIN Cut(s, n) \subseteq DOMAIN s /\ \A i \in DOMAIN Cut(s, n) : Cut(s, n)[i] = s[i]
         /\ Sorted(s) => Sorted(Cut(s, n))
         /\ Distinct(s) => Distinct(Cut(s, n))
<1> DEFINE m == Min({n, Len(s)})
           t == SubSeq(s, 1, m)
<1>1. Len(s) \in Nat
  OBVIOUS
<1>2. m \in Nat /\ m <= n /\ m <= Len(s) /\ m \in {n, Len(s)}
  <2>1. {n, Len(s)} \in SUBSET Nat /\ {n, Len(s)} # {}
    BY <1>1
  <2>2. m \in {n, Len(s)} /\ \A y \in {n, Len(s)} : m <= y
    BY <2>1, MinIsLeast
  <2> QED
    BY <1>1, <2>2
<1>3. Cut(s, n) = t
  BY DEF Cut
<1> HIDE DEF m
<1>4. t \in Seq(V) /\ Len(t) = m /\ DOMAIN t = 1..m /\ \A i \in 1..m : t[i] = s[i]
  BY <1>1, <1>2
<1> HIDE DEF t
<1>5. 1..m \subseteq DOMAIN s
  BY <1>1, <1>2
<1>6. Sorted(s) => Sorted(t)
  BY <1>4, <1>5 DEF Sorted
<1>7. Distinct(s) => Distinct(t)
  BY <1>4, <1>5 DEF Distinct
<1> QED
  BY <1>2, <1>3, <1>4, <1>5, <1>6, <1>7

\* The elements of a list of numbers have a greatest one.
LEMMA ListIsBounded ==
  ASSUME NEW s \in Seq(Nat)
  PROVE  \E b \in Nat : \A x \in Range(s) : x <= b
<1> DEFINE T == {n \in Nat : n <= Len(s) => \E b \in Nat : \A i \in 1..n : s[i] <= b}
<1>1. 0 \in T
  OBVIOUS
<1>2. ASSUME NEW n \in T PROVE n + 1 \in T
  <2>1. SUFFICES ASSUME n + 1 <= Len(s) PROVE \E b \in Nat : \A i \in 1..(n + 1) : s[i] <= b
    OBVIOUS
  <2>2. PICK b \in Nat : \A i \in 1..n : s[i] <= b
    BY <2>1
  <2>3. n \in Nat /\ s[n + 1] \in Nat /\ \A i \in 1..n : s[i] \in Nat
    BY <2>1
  <2> DEFINE c == IF s[n + 1] <= b THEN b ELSE s[n + 1]
  <2>4. c \in Nat /\ b <= c /\ s[n + 1] <= c
    BY <2>3
  <2> HIDE DEF c
  <2>5. \A i \in 1..(n + 1) : s[i] <= c
    <3>1. \A i \in 1..(n + 1) : i \in 1..n \/ i = n + 1
      BY <2>3
    <3> QED
      BY <2>2, <2>3, <2>4, <3>1
  <2> QED
    BY <2>4, <2>5
<1>3. T = Nat
  <2>1. T \in SUBSET Nat
    OBVIOUS
  <2> HIDE DEF T
  <2> QED
    BY <1>1, <1>2, <2>1, AllNumbers
<1>4. Len(s) \in Nat /\ Len(s) <= Len(s) /\ DOMAIN s = 1..Len(s)
  OBVIOUS
<1>5. PICK b \in Nat : \A i \in 1..Len(s) : s[i] <= b
  BY <1>3, <1>4
<1> QED
  BY <1>4, <1>5 DEF Range

HitSet == [id : Chunks, score : Nat]
HitList(s) == s \in Seq(HitSet) /\ Sorted(s)
Side(x) == x.state \in {"pending", "ok", "failed"} /\ HitList(x.list)

LEMMA NoHits == HitList(<<>>) /\ Side(Pending) /\ Side(Failed)
<1>1. <<>> \in Seq(HitSet) /\ Sorted(<<>>)
  BY DEF Sorted
<1> QED
  BY <1>1 DEF HitList, Side, Pending, Failed

LEMMA HitsAreSorted ==
  ASSUME NEW score \in [Chunks -> Scores]
  PROVE  HitList(Hits(score))
<1> DEFINE C == {c \in Chunks : Place[c].document \in visible}
           hit == [c \in Chunks |-> [id |-> c, score |-> score[c]]]
           S == {[id |-> c, score |-> score[c]] : c \in C}
<1>1. S = {hit[c] : c \in C}
  OBVIOUS
<1>2. IsFiniteSet(S)
  <2>1. IsFiniteSet(C)
    BY Bounds, FS_Subset
  <2> DEFINE shown == [c \in C |-> hit[c]]
  <2>2. shown \in Surjection(C, S)
    BY <1>1 DEF Surjection
  <2> HIDE DEF shown, S, C
  <2> QED
    BY <2>1, <2>2, FS_Surjection
<1>3. S \in SUBSET HitSet
  <2>1. \A c \in Chunks : score[c] \in Nat
    BY Bounds
  <2>2. \A c \in C : [id |-> c, score |-> score[c]] \in HitSet
    BY <2>1 DEF HitSet
  <2> QED
    BY <2>2
<1>4. \A x, y \in S : x.id = y.id => x = y
  OBVIOUS
<1>5. \A x \in S : x.id \in Nat /\ x.score \in Nat
  BY <1>3, Bounds DEF HitSet
<1>6. Hits(score) = Cut(BestFirst(S), CandidateLimit)
  BY DEF Hits
<1> HIDE DEF S
<1>7. BestFirst(S) \in Seq(S) /\ Sorted(BestFirst(S))
  BY <1>2, <1>4, <1>5, RankedBest
<1>8. BestFirst(S) \in Seq(HitSet)
  BY <1>3, <1>7
<1> HIDE DEF C, hit
<1>9. Cut(BestFirst(S), CandidateLimit) \in Seq(HitSet) /\ Sorted(Cut(BestFirst(S), CandidateLimit))
  BY <1>7, <1>8, Bounds, CutSorted
<1> QED
  BY <1>6, <1>9 DEF HitList

LEMMA EnoughIsSorted ==
  ASSUME NEW s, HitList(s), NEW floor
  PROVE  HitList(AtLeast(s, floor))
  BY KeptSorted DEF HitList, AtLeast

LEMMA PassingIsSorted ==
  ASSUME Side(vector), Side(keyword)
  PROVE  HitList(VectorPassing) /\ HitList(KeywordPassing)
<1>1. HitList(VectorPassing)
  BY EnoughIsSorted DEF Side, VectorPassing
<1> DEFINE sharp == IF Steep(keyword.list) THEN <<keyword.list[1]>> ELSE keyword.list
<1>2. HitList(sharp)
  <2>1. HitList(keyword.list)
    BY DEF Side
  <2>2. CASE Steep(keyword.list)
    <3>1. keyword.list \in Seq(HitSet) /\ 1 \in DOMAIN keyword.list
      <4>1. keyword.list \in Seq(HitSet) /\ Len(keyword.list) >= 2
        BY <2>1, <2>2 DEF Steep, HitList
      <4> QED
        BY <4>1
    <3>2. keyword.list[1] \in HitSet
      BY <3>1
    <3>3. <<keyword.list[1]>> \in Seq(HitSet) /\ Sorted(<<keyword.list[1]>>)
      BY <3>2 DEF Sorted
    <3> QED
      BY <2>2, <3>3 DEF HitList
  <2> QED
    BY <2>1, <2>2
<1>3. KeywordPassing = IF VectorPassing = <<>> THEN AtLeast(sharp, KeywordFloor) ELSE sharp
  BY DEF KeywordPassing
<1> HIDE DEF sharp
<1> QED
  BY <1>1, <1>2, <1>3, EnoughIsSorted

\* The hits of both sides are as many as there are, each with an id of its own.
LEMMA FusionIsRanked ==
  ASSUME NEW v, NEW k, HitList(v), HitList(k)
  PROVE  /\ Fusion(v, k) \in Seq(HitSet) /\ Sorted(Fusion(v, k)) /\ Distinct(Fusion(v, k))
         /\ \A c \in Ids(v) \cup Ids(k) : \E i \in DOMAIN Fusion(v, k) : Fusion(v, k)[i].id = c
<1> DEFINE C == Ids(v) \cup Ids(k)
           points == [c \in C |-> 7 * RankScore(c, v) + 3 * RankScore(c, k)]
           hit == [c \in C |-> [id |-> c, score |-> points[c]]]
           S == {hit[c] : c \in C}
<1>1. C \in SUBSET Chunks
  <2>1. v \in Seq(HitSet) /\ k \in Seq(HitSet)
    BY DEF HitList
  <2>2. \A h \in Range(v) \cup Range(k) : h \in HitSet
    BY <2>1 DEF Range
  <2> QED
    BY <2>2 DEF Ids, HitSet
<1>2. points \in [C -> Nat]
  <2>1. ASSUME NEW c, NEW s, HitList(s) PROVE RankScore(c, s) \in Nat
    <3>1. {i \in DOMAIN s : s[i].id = c} \in SUBSET Nat
      BY <2>1 DEF HitList
    <3> QED
      BY <3>1, Bounds, UnitIsANumber, ReciprocalsAreNumbers DEF RankScore, Unit
  <2>2. \A c \in C : RankScore(c, v) \in Nat /\ RankScore(c, k) \in Nat
    BY <2>1
  <2> HIDE DEF C
  <2> QED
    BY <2>2
<1>3. Fusion(v, k) = BestFirst(S)
  <2>1. S = {[id |-> c, score |-> 7 * RankScore(c, v) + 3 * RankScore(c, k)] : c \in C}
    OBVIOUS
  <2> HIDE DEF S
  <2> QED
    BY <2>1 DEF Fusion
<1> HIDE DEF C, points
<1>4. S \in SUBSET HitSet
  BY <1>1, <1>2 DEF HitSet
<1>5. \A x, y \in S : x.id = y.id => x = y
  OBVIOUS
<1>6. IsFiniteSet(S)
  <2>1. IsFiniteSet(C)
    BY <1>1, Bounds, FS_Subset
  <2>2. hit \in Surjection(C, S)
    BY DEF Surjection
  <2> HIDE DEF hit, S
  <2> QED
    BY <2>1, <2>2, FS_Surjection
<1>7. \A c \in C : hit[c] \in S /\ hit[c].id = c
  OBVIOUS
<1> HIDE DEF hit, S
<1>8. \A x \in S : x.id \in Nat /\ x.score \in Nat
  BY <1>4, Bounds DEF HitSet
<1>9. /\ BestFirst(S) \in Seq(S) /\ \A x \in S : \E i \in DOMAIN BestFirst(S) : BestFirst(S)[i] = x
      /\ Sorted(BestFirst(S)) /\ Distinct(BestFirst(S))
  BY <1>5, <1>6, <1>8, RankedBest
<1>10. BestFirst(S) \in Seq(HitSet)
  BY <1>4, <1>9
<1>11. \A c \in C : \E i \in DOMAIN BestFirst(S) : BestFirst(S)[i].id = c
  <2>1. ASSUME NEW c \in C PROVE \E i \in DOMAIN BestFirst(S) : BestFirst(S)[i].id = c
    <3>1. PICK i \in DOMAIN BestFirst(S) : BestFirst(S)[i] = hit[c]
      BY <1>7, <1>9
    <3> QED
      BY <1>7, <3>1
  <2> QED
    BY <2>1
<1> QED
  BY <1>3, <1>9, <1>10, <1>11 DEF C

\* The best hit of a side is not the least of it, unless all are alike.
LEMMA BestIsConfirmed ==
  ASSUME NEW v, NEW k, HitList(v), HitList(k)
  PROVE  /\ v # <<>> => v[1].id \in Ids(v) /\ Confirmed(v[1].id, v, k)
         /\ k # <<>> => k[1].id \in Ids(k) /\ Confirmed(k[1].id, v, k)
<1>1. ASSUME NEW s, HitList(s), s # <<>> PROVE s[1] \in Range(s) /\ Normal(s[1], s) >= 1
  <2>1. s \in Seq(HitSet) /\ Len(s) \in Nat \ {0} /\ 1 \in DOMAIN s /\ Len(s) \in DOMAIN s
    BY <1>1 DEF HitList
  <2>2. s[1] \in HitSet /\ s[Len(s)] \in HitSet /\ s[1] \in Range(s)
    BY <2>1 DEF Range
  <2> DEFINE least == s[Len(s)].score
             top == s[1].score
             span == top - least
  <2>3. top \in Nat /\ least \in Nat
    BY <2>2 DEF HitSet
  <2>4. top >= least
    <3>1. CASE Len(s) = 1
      BY <2>3, <3>1
    <3>2. CASE Len(s) # 1
      <4>1. 1 < Len(s)
        <5>1. Len(s) \in Nat /\ Len(s) # 0
          BY <2>1
        <5>2. \A n \in Nat : n # 0 /\ n # 1 => 1 < n
          OBVIOUS
        <5> QED
          BY <3>2, <5>1, <5>2
      <4>2. Better(s[1], s[Len(s)])
        BY <1>1, <2>1, <4>1 DEF HitList, Sorted
      <4> QED
        BY <2>3, <4>2 DEF Better
    <3> QED
      BY <3>1, <3>2
  <2>5. Normal(s[1], s) = IF span = 0 THEN 20 ELSE (20 * span) \div span
    BY DEF Normal
  <2>6. span \in Nat
    BY <2>3, <2>4
  <2> HIDE DEF span
  <2>7. CASE span = 0
    BY <2>2, <2>5, <2>7
  <2>8. CASE span # 0
    <3> DEFINE q == (20 * span) \div span
    <3>1. 20 * span \in Nat /\ span \in Nat \ {0}
      BY <2>6, <2>8
    <3>2. q \in Nat /\ 20 * span < span * q + span
      BY <3>1, Quotients
    <3>3. q # 0
      <4>1. SUFFICES ASSUME q = 0 PROVE FALSE
        OBVIOUS
      <4>2. span * q = 0
        BY <3>1, <4>1
      <4>3. 20 * span < span
        BY <3>1, <3>2, <4>2
      <4> QED
        BY <3>1, <4>3
    <3> HIDE DEF q
    <3>4. q >= 1
      BY <3>2, <3>3
    <3> QED
      BY <2>2, <2>5, <2>8, <3>4 DEF q
  <2> QED
    BY <2>7, <2>8
<1>2. ASSUME v # <<>> PROVE v[1].id \in Ids(v) /\ Confirmed(v[1].id, v, k)
  <2>1. v[1] \in Range(v) /\ Normal(v[1], v) >= 1
    BY <1>1, <1>2
  <2>2. v[1].id \in Ids(v)
    BY <2>1 DEF Ids
  <2> QED
    BY <2>1, <2>2 DEF Confirmed
<1>3. ASSUME k # <<>> PROVE k[1].id \in Ids(k) /\ Confirmed(k[1].id, v, k)
  <2>1. k[1] \in Range(k) /\ Normal(k[1], k) >= 1
    BY <1>1, <1>3
  <2>2. k[1].id \in Ids(k)
    BY <2>1 DEF Ids
  <2> QED
    BY <2>1, <2>2 DEF Confirmed
<1> QED
  BY <1>2, <1>3

Passages == [id : Chunks, document : Documents, from : Nat, to : Nat, score : Nat, by : {"fusion", "rerank"}]
AllBy(s, kind) == \A p \in Range(s) : p.by = kind

\* What the first stage finds, and that the best hit of either side is there when there is room.
LEMMA FusedPassages ==
  ASSUME Side(vector), Side(keyword)
  PROVE  /\ Fused \in Seq(Passages) /\ Sorted(Fused) /\ Distinct(Fused) /\ AllBy(Fused, "fusion") /\ Len(Fused) <= TopK
         /\ \A s \in {VectorPassing, KeywordPassing} :
               s # <<>> => Len(Fused) = TopK \/ s[1].id \in {p.id : p \in Range(Fused)}
<1> DEFINE v == VectorPassing
           k == KeywordPassing
           all == Fusion(v, k)
           C == {i \in DOMAIN all : Confirmed(all[i].id, v, k)}
           kept == Picked(all, C)
           cut == Cut(kept, TopK)
<1>1. HitList(v) /\ HitList(k)
  BY PassingIsSorted
<1>2. Fused = [i \in DOMAIN cut |-> Passage(kept[i])]
  BY DEF Fused
<1> HIDE DEF v, k
<1>3. /\ all \in Seq(HitSet) /\ Sorted(all) /\ Distinct(all)
      /\ \A c \in Ids(v) \cup Ids(k) : \E i \in DOMAIN all : all[i].id = c
  BY <1>1, FusionIsRanked
<1>4. \A i \in C : i \in DOMAIN all
  OBVIOUS
<1>5. \A i \in DOMAIN all : Confirmed(all[i].id, v, k) => i \in C
  OBVIOUS
<1> HIDE DEF all, C
<1>6. /\ kept \in Seq(HitSet) /\ Sorted(kept) /\ Distinct(kept)
      /\ \A i \in DOMAIN all : i \in C => all[i] \in Range(kept)
  BY <1>3, KeptSorted
<1> HIDE DEF kept
<1>7. /\ cut \in Seq(HitSet) /\ Len(cut) <= TopK /\ Len(cut) \in {TopK, Len(kept)}
      /\ DOMAIN cut \subseteq DOMAIN kept /\ \A i \in DOMAIN cut : cut[i] = kept[i]
      /\ Sorted(cut) /\ Distinct(cut)
  BY <1>6, Bounds, CutSorted
<1> HIDE DEF cut
<1>8. Len(cut) \in Nat /\ DOMAIN cut = 1..Len(cut) /\ Len(kept) \in Nat /\ DOMAIN kept = 1..Len(kept)
  BY <1>6, <1>7
<1>9. \A h \in HitSet : Passage(h) \in Passages /\ Passage(h).id = h.id /\ Passage(h).score = h.score /\ Passage(h).by = "fusion"
  <2>1. ASSUME NEW h \in HitSet
        PROVE  Passage(h) \in Passages /\ Passage(h).id = h.id /\ Passage(h).score = h.score /\ Passage(h).by = "fusion"
    <3>1. h.id \in Chunks /\ h.score \in Nat
      BY DEF HitSet
    <3>2. Place[h.id].document \in Documents /\ Place[h.id].index \in Nat
      BY <3>1, Bounds
    <3> QED
      BY <3>1, <3>2 DEF Passage, Passages
  <2> QED
    BY <2>1
<1>10. \A i \in 1..Len(cut) : Fused[i] = Passage(cut[i]) /\ cut[i] \in HitSet
  <2>1. ASSUME NEW i \in 1..Len(cut) PROVE Fused[i] = Passage(cut[i]) /\ cut[i] \in HitSet
    <3>1. i \in DOMAIN cut /\ cut[i] = kept[i]
      BY <1>7, <1>8
    <3>2. Fused[i] = Passage(kept[i])
      BY <1>2, <3>1
    <3> QED
      BY <1>7, <3>1, <3>2
  <2> QED
    BY <2>1
<1>11. Fused \in [1..Len(cut) -> Passages]
  BY <1>2, <1>8, <1>9, <1>10
<1>12. Fused \in Seq(Passages) /\ Len(Fused) = Len(cut) /\ DOMAIN Fused = 1..Len(cut)
  BY <1>8, <1>11
<1>13. \A i \in DOMAIN Fused : Fused[i].id = cut[i].id /\ Fused[i].score = cut[i].score /\ Fused[i].by = "fusion"
  BY <1>9, <1>10, <1>12
<1>14. Sorted(Fused)
  <2>1. DOMAIN Fused = DOMAIN cut
    BY <1>8, <1>12
  <2>2. ASSUME NEW i \in DOMAIN Fused, NEW j \in DOMAIN Fused, i < j PROVE Better(Fused[i], Fused[j])
    <3>1. Better(cut[i], cut[j])
      BY <1>7, <2>1, <2>2 DEF Sorted
    <3> QED
      BY <1>13, <3>1 DEF Better
  <2> QED
    BY <2>2 DEF Sorted
<1>15. Distinct(Fused)
  BY <1>7, <1>8, <1>12, <1>13 DEF Distinct
<1>16. AllBy(Fused, "fusion")
  BY <1>13 DEF AllBy, Range
<1>17. ASSUME NEW c \in Ids(v) \cup Ids(k), Confirmed(c, v, k), Len(Fused) # TopK PROVE c \in {p.id : p \in Range(Fused)}
  <2>1. PICK i \in DOMAIN all : all[i].id = c
    BY <1>3
  <2>2. all[i] \in Range(kept)
    BY <1>5, <1>6, <1>17, <2>1
  <2>3. PICK j \in DOMAIN kept : kept[j].id = c
    BY <2>1, <2>2 DEF Range
  <2>4. j \in DOMAIN cut /\ cut[j] = kept[j]
    BY <1>7, <1>8, <1>12, <1>17
  <2>5. j \in DOMAIN Fused /\ Fused[j].id = c
    BY <1>8, <1>12, <1>13, <2>3, <2>4
  <2> QED
    BY <2>5 DEF Range
<1>18. ASSUME NEW s \in {v, k}, s # <<>>, Len(Fused) # TopK PROVE s[1].id \in {p.id : p \in Range(Fused)}
  <2>1. s[1].id \in Ids(v) \cup Ids(k) /\ Confirmed(s[1].id, v, k)
    BY <1>1, <1>18, BestIsConfirmed
  <2> QED
    BY <1>17, <1>18, <2>1
<1>19. \A s \in {v, k} : s # <<>> => Len(Fused) = TopK \/ s[1].id \in {p.id : p \in Range(Fused)}
  BY <1>18
<1> QED
  BY <1>7, <1>12, <1>14, <1>15, <1>16, <1>19 DEF v, k

\* What the service's scores leave of the passages.
LEMMA RerankedPassages ==
  ASSUME found \in Seq(Passages), Distinct(found), NEW some, NEW score \in [some -> Scores]
  PROVE  /\ Reranked(score) \in Seq(Passages) /\ Sorted(Reranked(score)) /\ Distinct(Reranked(score))
         /\ AllBy(Reranked(score), "rerank") /\ Len(Reranked(score)) <= TopN
<1> DEFINE R == {p \in Range(found) : p.id \in DOMAIN score}
           new == [p \in R |-> [p EXCEPT !.score = score[p.id], !.by = "rerank"]]
           S == {new[p] : p \in R}
           best == BestFirst(S)
           enough == AtLeast(best, RerankFloor)
<1>1. Reranked(score) = Cut(enough, TopN)
  <2>1. S = {[p EXCEPT !.score = score[p.id], !.by = "rerank"] : p \in {p \in Range(found) : p.id \in DOMAIN score}}
    OBVIOUS
  <2> HIDE DEF S
  <2> QED
    BY <2>1 DEF Reranked
<1>2. IsFiniteSet(R) /\ \A p \in R : p \in Passages /\ score[p.id] \in Nat
  <2>1. IsFiniteSet(Range(found))
    BY RangeIsFinite
  <2>2. \A p \in Range(found) : p \in Passages
    BY DEF Range
  <2>3. \A x \in some : score[x] \in Nat
    BY Bounds
  <2> QED
    BY <2>1, <2>2, <2>3, FS_Subset
<1>3. \A p \in R, q \in R : p.id = q.id => p = q
  BY DEF Range, Distinct
<1> HIDE DEF R
<1>4. \A p \in R : new[p] \in Passages /\ new[p].id = p.id /\ new[p].by = "rerank"
  <2>1. ASSUME NEW p \in R PROVE new[p] \in Passages /\ new[p].id = p.id /\ new[p].by = "rerank"
    <3> DEFINE a == [p EXCEPT !.score = score[p.id]]
               b == [a EXCEPT !.by = "rerank"]
    <3>1. a \in Passages /\ a.id = p.id
      BY <1>2 DEF Passages
    <3>2. new[p] = b
      OBVIOUS
    <3> HIDE DEF a, new
    <3>3. b \in Passages /\ b.id = a.id /\ b.by = "rerank"
      BY <3>1 DEF Passages
    <3> QED
      BY <3>1, <3>2, <3>3
  <2> QED
    BY <2>1
<1>5. IsFiniteSet(S)
  <2>1. new \in Surjection(R, S)
    BY DEF Surjection
  <2> HIDE DEF new, S
  <2> QED
    BY <1>2, <2>1, FS_Surjection
<1> HIDE DEF new
<1>6. S \in SUBSET Passages /\ (\A x \in S : x.by = "rerank") /\ \A x, y \in S : x.id = y.id => x = y
  BY <1>3, <1>4
<1> HIDE DEF S
<1>7. \A x \in S : x.id \in Nat /\ x.score \in Nat
  BY <1>6, Bounds DEF Passages
<1>8. best \in Seq(S) /\ Sorted(best) /\ Distinct(best)
  BY <1>5, <1>6, <1>7, RankedBest
<1> HIDE DEF best
<1>9. enough \in Seq(S) /\ Sorted(enough) /\ Distinct(enough)
  BY <1>8, KeptSorted DEF AtLeast
<1> HIDE DEF enough
<1> DEFINE cut == Cut(enough, TopN)
<1>10. cut \in Seq(S) /\ Sorted(cut) /\ Distinct(cut) /\ Len(cut) <= TopN
  BY <1>9, Bounds, CutSorted
<1> HIDE DEF cut
<1>11. cut \in Seq(Passages) /\ AllBy(cut, "rerank")
  BY <1>6, <1>10 DEF AllBy, Range
<1> QED
  BY <1>1, <1>10, <1>11 DEF cut

Spans == [from : Nat, to : Nat]

LEMMA MergedIsAList ==
  ASSUME NEW d, NEW segments \in Seq(Spans), NEW i \in Nat
  PROVE  Merged(d, segments, i) \in Seq(Spans)
<1> DEFINE grown == [segments EXCEPT ![Len(segments)].to = i]
           more == Append(segments, [from |-> i, to |-> i])
<1>1. Merged(d, segments, i) \in {segments, more} \/ (segments # <<>> /\ Merged(d, segments, i) = grown)
  <2> HIDE DEF grown, more
  <2> QED
    BY DEF Merged, grown, more
<1>2. more \in Seq(Spans)
  <2>1. [from |-> i, to |-> i] \in Spans
    BY DEF Spans
  <2> QED
    BY <2>1
<1>3. segments # <<>> => grown \in Seq(Spans)
  <2>1. SUFFICES ASSUME segments # <<>> PROVE grown \in Seq(Spans)
    OBVIOUS
  <2>2. Len(segments) \in Nat /\ Len(segments) \in 1..Len(segments) /\ DOMAIN segments = 1..Len(segments)
    BY <2>1
  <2> DEFINE last == segments[Len(segments)]
             span == [last EXCEPT !.to = i]
  <2>3. span \in Spans
    <3>1. last \in Spans
      BY <2>2
    <3> HIDE DEF last
    <3> QED
      BY <3>1 DEF Spans
  <2>4. grown = [segments EXCEPT ![Len(segments)] = span]
    OBVIOUS
  <2> HIDE DEF span, grown
  <2>5. [segments EXCEPT ![Len(segments)] = span] \in [1..Len(segments) -> Spans]
    BY <2>2, <2>3
  <2> QED
    BY <2>2, <2>4, <2>5
<1> QED
  BY <1>1, <1>2, <1>3

LEMMA SegmentsAreAList ==
  ASSUME NEW d, NEW first \in Nat, NEW last \in Nat, first <= last + 1
  PROVE  Segments(d, first, last) \in Seq(Spans)
<1> DEFINE D == first..(last + 1)
           V == Seq(Spans)
           size == [i \in D |-> i]
           Step(f) == [i \in D |-> IF i = first THEN <<>> ELSE Merged(d, f[i - 1], i - 1)]
           H == [f \in [D -> V] |-> Step(f)]
           p == CHOOSE p : p = Step(p)
<1>1. \A i \in D : i \in Nat /\ (i # first => i - 1 \in D /\ i - 1 \in Nat /\ i - 1 < i)
  OBVIOUS
<1>2. Segments(d, first, last) = p[last + 1]
  BY DEF Segments
<1>3. <<>> \in V
  OBVIOUS
<1> HIDE DEF D, V
<1>4. ASSUME NEW f \in [D -> V] PROVE Step(f) \in [D -> V]
  <2>1. ASSUME NEW i \in D, i # first PROVE Merged(d, f[i - 1], i - 1) \in V
    <3>1. f[i - 1] \in V /\ i - 1 \in Nat
      BY <1>1, <2>1
    <3> QED
      BY <3>1, MergedIsAList DEF V
  <2> QED
    BY <1>3, <2>1
<1>5. H \in [[D -> V] -> [D -> V]]
  <2> HIDE DEF Step
  <2> QED
    BY <1>4
<1>6. V # {} /\ size \in [D -> Nat]
  BY <1>1, <1>3
<1>7. LooksBack(D, V, size, H)
  <2>1. ASSUME NEW f \in [D -> V], NEW g \in [D -> V], NEW i \in D, \A y \in D : size[y] < size[i] => f[y] = g[y]
        PROVE  H[f][i] = H[g][i]
    <3>1. i # first => f[i - 1] = g[i - 1]
      BY <1>1, <2>1
    <3>2. H[f][i] = IF i = first THEN <<>> ELSE Merged(d, f[i - 1], i - 1)
      OBVIOUS
    <3>3. H[g][i] = IF i = first THEN <<>> ELSE Merged(d, g[i - 1], i - 1)
      OBVIOUS
    <3> HIDE DEF H
    <3> QED
      BY <3>1, <3>2, <3>3
  <2> HIDE DEF H, size
  <2> QED
    BY <2>1 DEF LooksBack
<1>8. PICK f : Defines(f, D, V, H)
  <2> HIDE DEF size, H, p
  <2> QED
    BY <1>5, <1>6, <1>7, RecursionExists
<1>9. f = Step(f)
  <2>1. f \in [D -> V] /\ f = H[f]
    BY <1>8 DEF Defines
  <2>2. H[f] = Step(f)
    <3> HIDE DEF Step
    <3> QED
      BY <2>1
  <2> QED
    BY <2>1, <2>2
<1>10. p = Step(p)
  <2> HIDE DEF Step
  <2> QED
    BY <1>9
<1> HIDE DEF p, H
<1>11. /\ first \in D => p[first] = <<>>
       /\ \A i \in D : i # first => p[i] = Merged(d, p[i - 1], i - 1)
  BY <1>10
<1> HIDE DEF Step
<1> DEFINE T == {n \in Nat : first + n \in D => p[first + n] \in V}
<1>12. 0 \in T
  BY <1>3, <1>11
<1>13. ASSUME NEW n \in T PROVE n + 1 \in T
  <2>1. SUFFICES ASSUME first + (n + 1) \in D PROVE p[first + (n + 1)] \in V
    OBVIOUS
  <2> DEFINE i == first + (n + 1)
  <2>2. n \in Nat /\ i # first /\ i - 1 = first + n
    OBVIOUS
  <2>3. i \in D
    BY <2>1
  <2> HIDE DEF i
  <2>4. i - 1 \in D /\ i - 1 \in Nat /\ p[i] = Merged(d, p[i - 1], i - 1)
    BY <1>1, <1>11, <2>2, <2>3
  <2>5. p[i - 1] \in V
    BY <2>2, <2>4
  <2>6. p[i] \in V
    BY <2>4, <2>5, MergedIsAList DEF V
  <2> QED
    BY <2>6 DEF i
<1>14. T = Nat
  <2>1. T \in SUBSET Nat
    OBVIOUS
  <2> HIDE DEF T
  <2> QED
    BY <1>12, <1>13, <2>1, AllNumbers
<1>15. (last + 1) - first \in Nat /\ first + ((last + 1) - first) = last + 1 /\ last + 1 \in D
  BY DEF D
<1>16. p[last + 1] \in V
  BY <1>14, <1>15
<1> QED
  BY <1>2, <1>16 DEF V

\* Passages that are, by their ids and the kind of their scores, of those that were found.
OfFound(ps) == ps \in Seq(Passages) /\ \A q \in Range(ps) : \E p \in Range(found) : q.id = p.id /\ q.by = p.by

LEMMA ExpandedIsFound ==
  ASSUME found \in Seq(Passages), NEW d, \E p \in Range(found) : p.document = d
  PROVE  OfFound(Of(d)) /\ OfFound(ExpandedDocument(d))
<1> DEFINE C == {i \in DOMAIN found : found[i].document = d}
           ps == Of(d)
<1>1. /\ ps \in Seq(Passages) /\ Range(ps) \subseteq Range(found)
      /\ \A i \in DOMAIN found : i \in C => found[i] \in Range(ps)
  BY KeptSorted DEF Of
<1>2. ps # <<>>
  <2>1. PICK i \in DOMAIN found : found[i].document = d
    BY DEF Range
  <2>2. found[i] \in Range(ps)
    BY <1>1, <2>1
  <2> QED
    BY <2>2 DEF Range
<1> HIDE DEF ps, C
<1>3. OfFound(ps)
  BY <1>1 DEF OfFound
<1>4. Len(ps) \in Nat \ {0} /\ 1 \in DOMAIN ps /\ ps[1] \in Range(ps) /\ ps[1] \in Passages
  BY <1>1, <1>2 DEF Range
<1> DEFINE hits == {p.from : p \in Range(ps)}
           marks == {p.score : p \in Range(ps)}
           first == IF Min(hits) > Window THEN Min(hits) - Window ELSE 0
           last == Max(hits) + Window
           range == Segments(d, first, last)
           score == ScoreOf(ps)
           Scored(s) == IF hits \cap s.from..s.to # {} THEN score ELSE score \div 2
           row == [i \in DOMAIN range |-> [ps[1] EXCEPT !.from = range[i].from, !.to = range[i].to, !.score = Scored(range[i])]]
<1>5. ExpandedDocument(d) = IF d \notin visible THEN <<>> ELSE row
  BY DEF ExpandedDocument, ps
<1>6. \A p \in Range(ps) : p.from \in Nat /\ p.score \in Nat
  <2>1. \A p \in Range(ps) : p \in Passages
    BY <1>1 DEF Range
  <2> QED
    BY <2>1 DEF Passages
<1>7. \E b \in Nat : \A x \in hits : x <= b
  <2> DEFINE s == [i \in 1..Len(ps) |-> ps[i].from]
  <2>1. s \in Seq(Nat) /\ Len(s) = Len(ps) /\ DOMAIN ps = 1..Len(ps)
    <3>1. \A i \in 1..Len(ps) : ps[i].from \in Nat
      BY <1>1, <1>6 DEF Range
    <3> QED
      BY <1>1, <1>4, <3>1
  <2>2. \E b \in Nat : \A x \in Range(s) : x <= b
    BY <2>1, ListIsBounded
  <2>3. hits \subseteq Range(s)
    BY <2>1 DEF Range
  <2> QED
    BY <2>2, <2>3
<1>8. \E b \in Nat : \A x \in marks : x <= b
  <2> DEFINE s == [i \in 1..Len(ps) |-> ps[i].score]
  <2>1. s \in Seq(Nat) /\ Len(s) = Len(ps) /\ DOMAIN ps = 1..Len(ps)
    <3>1. \A i \in 1..Len(ps) : ps[i].score \in Nat
      BY <1>1, <1>6 DEF Range
    <3> QED
      BY <1>1, <1>4, <3>1
  <2>2. \E b \in Nat : \A x \in Range(s) : x <= b
    BY <2>1, ListIsBounded
  <2>3. marks \subseteq Range(s)
    BY <2>1 DEF Range
  <2> QED
    BY <2>2, <2>3
<1>9. hits \in SUBSET Nat /\ hits # {} /\ marks \in SUBSET Nat /\ marks # {}
  BY <1>4, <1>6
<1>10. score = Max(marks)
  BY DEF ScoreOf
<1> HIDE DEF hits, marks, score
<1>11. score \in Nat
  BY <1>8, <1>9, <1>10, MaxOfNumbers
<1>12. Min(hits) \in Nat /\ Max(hits) \in Nat /\ Min(hits) <= Max(hits)
  <2>1. Max(hits) \in hits /\ \A y \in hits : Max(hits) >= y
    BY <1>7, <1>9, MaxOfNumbers
  <2>2. Min(hits) \in hits
    BY <1>9, MinIsLeast
  <2> QED
    BY <1>9, <2>1, <2>2
<1>13. range \in Seq(Spans)
  <2>1. first \in Nat /\ last \in Nat /\ first <= last + 1
    BY <1>12, Bounds
  <2> HIDE DEF first, last
  <2> QED
    BY <2>1, SegmentsAreAList
<1> HIDE DEF range
<1>14. \A s : Scored(s) \in Nat
  BY <1>11
<1> HIDE DEF Scored
<1>15. ASSUME NEW i \in DOMAIN range PROVE row[i] \in Passages /\ row[i].id = ps[1].id /\ row[i].by = ps[1].by
  <2> DEFINE a == [ps[1] EXCEPT !.from = range[i].from]
             b == [a EXCEPT !.to = range[i].to]
             c == [b EXCEPT !.score = Scored(range[i])]
  <2>1. range[i].from \in Nat /\ range[i].to \in Nat /\ Scored(range[i]) \in Nat
    <3>1. range[i] \in Spans
      BY <1>13
    <3> QED
      BY <1>14, <3>1 DEF Spans
  <2>2. a \in Passages /\ a.id = ps[1].id /\ a.by = ps[1].by
    BY <1>4, <2>1 DEF Passages
  <2>3. row[i] = c
    OBVIOUS
  <2> HIDE DEF a, row
  <2>4. b \in Passages /\ b.id = a.id /\ b.by = a.by
    BY <2>1, <2>2 DEF Passages
  <2> HIDE DEF b
  <2>5. c \in Passages /\ c.id = b.id /\ c.by = b.by
    BY <2>1, <2>4 DEF Passages
  <2> QED
    BY <2>2, <2>3, <2>4, <2>5
<1>16. DOMAIN row = DOMAIN range
  OBVIOUS
<1>17. row = [i \in DOMAIN range |-> row[i]]
  OBVIOUS
<1> HIDE DEF row
<1>18. row \in Seq(Passages)
  <2>1. DOMAIN range = 1..Len(range) /\ Len(range) \in Nat
    BY <1>13
  <2>2. row \in [1..Len(range) -> Passages]
    BY <1>15, <1>17, <2>1
  <2> QED
    BY <2>1, <2>2
<1>19. OfFound(row)
  <2>1. \A q \in Range(row) : q.id = ps[1].id /\ q.by = ps[1].by
    BY <1>15, <1>16 DEF Range
  <2> QED
    BY <1>1, <1>4, <1>18, <2>1 DEF OfFound
<1>20. OfFound(<<>>)
  <2>1. <<>> \in Seq(Passages) /\ Range(<<>>) = {}
    BY DEF Range
  <2> QED
    BY <2>1 DEF OfFound
<1> QED
  BY <1>3, <1>5, <1>19, <1>20 DEF ps

\* The different ids of a list are finitely many, at most as many as its passages.
LEMMA IdsAreFew ==
  ASSUME NEW ps \in Seq(Passages)
  PROVE  /\ IsFiniteSet(Ids(ps)) /\ Cardinality(Ids(ps)) \in Nat /\ Cardinality(Ids(ps)) <= Len(ps)
         /\ Distinct(ps) => Cardinality(Ids(ps)) = Len(ps)
<1> DEFINE s == [i \in 1..Len(ps) |-> ps[i].id]
<1>1. s \in Seq(Chunks) /\ Len(s) = Len(ps) /\ DOMAIN s = 1..Len(ps) /\ DOMAIN ps = 1..Len(ps)
  <2>1. \A i \in 1..Len(ps) : ps[i].id \in Chunks
    <3>1. \A i \in 1..Len(ps) : ps[i] \in Passages
      OBVIOUS
    <3> QED
      BY <3>1 DEF Passages
  <2> QED
    BY <2>1
<1>2. \A i \in 1..Len(ps) : s[i] = ps[i].id
  OBVIOUS
<1> HIDE DEF s
<1>3. Range(s) = Ids(ps)
  BY <1>1, <1>2 DEF Range, Ids
<1>4. Distinct(ps) => \A i, j \in DOMAIN s : s[i] = s[j] => i = j
  BY <1>1, <1>2 DEF Distinct
<1> QED
  BY <1>1, <1>3, <1>4, RangeIsFinite

LEMMA CollectedAreFew ==
  ASSUME NEW ps \in Seq(Passages)
  PROVE  Collected(ps) \in Seq(Passages) /\ Len(Collected(ps)) <= Cardinality(Ids(ps))
<1> DEFINE C == {i \in DOMAIN ps : \A j \in 1..(i - 1) : ps[j].id # ps[i].id}
           t == Picked(ps, C)
<1>1. t \in Seq(Passages) /\ Range(t) \subseteq Range(ps)
  BY KeptSorted
<1>2. PICK at \in [DOMAIN t -> DOMAIN ps] : PicksAt(at, ps, C)
  BY PickedInOrder
<1>3. \A i \in DOMAIN t : at[i] \in DOMAIN ps /\ at[i] \in C /\ t[i] = ps[at[i]]
  BY <1>2 DEF PicksAt
<1>4. \A i, j \in DOMAIN t : i < j => at[i] < at[j]
  BY <1>2 DEF PicksAt
<1>5. DOMAIN ps = 1..Len(ps) /\ Len(ps) \in Nat /\ DOMAIN t = 1..Len(t) /\ Len(t) \in Nat
  <2> HIDE DEF t, C
  <2> QED
    BY <1>1
<1>6. \A k \in C, j \in DOMAIN ps : j < k => ps[j].id # ps[k].id
  BY <1>5
<1>7. Collected(ps) = t
  BY DEF Collected
<1> HIDE DEF t, C
<1>8. Distinct(t)
  <2>1. ASSUME NEW i \in DOMAIN t, NEW j \in DOMAIN t, i < j PROVE t[i].id # t[j].id
    BY <1>3, <1>4, <1>6, <2>1
  <2>2. \A i, j \in DOMAIN t : i = j \/ i < j \/ j < i
    BY <1>5
  <2> QED
    BY <2>1, <2>2 DEF Distinct
<1>9. Cardinality(Ids(t)) = Len(t)
  BY <1>1, <1>8, IdsAreFew
<1>10. Ids(t) \subseteq Ids(ps)
  BY <1>1 DEF Ids
<1>11. Cardinality(Ids(t)) <= Cardinality(Ids(ps))
  BY <1>10, IdsAreFew, FS_Subset
<1> QED
  BY <1>1, <1>7, <1>9, <1>11

Stages == {"search", "rerank", "expand", "collect", "done", "failed"}
Most == Max({TopK, TopN})

LEMMA MostIsMore == Most \in Nat /\ TopK <= Most /\ TopN <= Most
<1>1. {TopK, TopN} \in SUBSET Nat /\ {TopK, TopN} # {} /\ TopK + TopN \in Nat /\ \A x \in {TopK, TopN} : x <= TopK + TopN
  BY Bounds
<1>2. Max({TopK, TopN}) \in {TopK, TopN} /\ \A y \in {TopK, TopN} : Max({TopK, TopN}) >= y
  BY <1>1, MaxOfNumbers
<1> QED
  BY <1>1, <1>2 DEF Most

\* What was found: passages whose scores are of one kind, of few chunks, and in order unless they were expanded.
FoundSound(s) ==
    /\ s \in Seq(Passages) /\ Cardinality(Ids(s)) <= Most
    /\ \A p, q \in Range(s) : p.by = q.by
    /\ ~setup.expand => Sorted(s)

RetrievalInv ==
    /\ setup \in [rerank : BOOLEAN, expand : BOOLEAN]
    /\ step \in Stages /\ Side(vector) /\ Side(keyword) /\ tries \in 0..Retries
    /\ FoundSound(found)
    /\ sources \in Seq(Passages) /\ Len(sources) <= Most
    /\ step = "rerank" => found = Fused /\ setup.rerank
    /\ step \in {"collect", "done"} /\ ~setup.rerank /\ ~setup.expand => found = Fused
    /\ step = "expand" => setup.expand
    /\ step \in {"rerank", "expand"} => \A d \in left : \E p \in Range(found) : p.document = d

LEMMA NothingFound == FoundSound(<<>>)
<1>1. <<>> \in Seq(Passages) /\ Range(<<>>) = {} /\ Sorted(<<>>) /\ Len(<<>>) = 0
  BY DEF Sorted, Range
<1>2. Cardinality(Ids(<<>>)) <= Len(<<>>) /\ Cardinality(Ids(<<>>)) \in Nat
  BY <1>1, IdsAreFew
<1>3. Cardinality(Ids(<<>>)) <= Most
  BY <1>1, <1>2, MostIsMore
<1> QED
  BY <1>1, <1>3 DEF FoundSound

LEMMA ListIsSound ==
  ASSUME NEW s \in Seq(Passages), Sorted(s), NEW kind, AllBy(s, kind), NEW n \in Nat, Len(s) <= n, n <= Most
  PROVE  FoundSound(s)
<1>1. Cardinality(Ids(s)) \in Nat /\ Cardinality(Ids(s)) <= Len(s) /\ Len(s) \in Nat
  BY IdsAreFew
<1>2. Cardinality(Ids(s)) <= Most
  BY <1>1, MostIsMore
<1> QED
  BY <1>2 DEF FoundSound, AllBy

\* What is left of the passages, with some in their place.
LEMMA PartIsSound ==
  ASSUME FoundSound(found), NEW ps, OfFound(ps), setup.expand
  PROVE  FoundSound(ps)
<1>1. ps \in Seq(Passages) /\ found \in Seq(Passages) /\ Ids(ps) \subseteq Ids(found)
  BY DEF OfFound, FoundSound, Ids
<1>2. Cardinality(Ids(ps)) <= Cardinality(Ids(found)) /\ Cardinality(Ids(ps)) \in Nat /\ Cardinality(Ids(found)) \in Nat
  BY <1>1, IdsAreFew, FS_Subset
<1>3. Cardinality(Ids(ps)) <= Most
  BY <1>2, MostIsMore DEF FoundSound
<1>4. \A p, q \in Range(ps) : p.by = q.by
  BY DEF OfFound, FoundSound
<1> QED
  BY <1>1, <1>3, <1>4 DEF FoundSound

LEMMA RetrievalStarts == RetrievalInit => RetrievalInv
<1> SUFFICES ASSUME RetrievalInit PROVE RetrievalInv
  OBVIOUS
<1>1. /\ setup \in [rerank : BOOLEAN, expand : BOOLEAN] /\ step = "search" /\ vector = Pending /\ keyword = Pending
      /\ found = <<>> /\ tries = 0 /\ sources = <<>>
  BY DEF RetrievalInit
<1>2. sources \in Seq(Passages) /\ Len(sources) <= Most
  BY <1>1, MostIsMore
<1>3. tries \in 0..Retries
  BY <1>1, Bounds
<1> QED
  BY <1>1, <1>2, <1>3, NothingFound, NoHits DEF RetrievalInv, Stages

\* The passages of a stage go on to the next one.
LEMMA GoesOn ==
  ASSUME RetrievalInv, UNCHANGED <<setup, vector, keyword, tries, sources>>, NEW from \in {"search", "rerank"}, NEW ps,
         FoundSound(ps), found' = ps, step' = After(from, ps), left' = Expanding(ps),
         from = "search" => ps = Fused, from = "rerank" => setup.rerank
  PROVE  RetrievalInv'
<1>1. /\ step' \in Stages /\ step' # "failed"
      /\ step' = "rerank" => from = "search" /\ setup.rerank
      /\ step' = "expand" => setup.expand
      /\ step' \in {"collect", "done"} /\ ~setup.rerank => from = "search"
  BY DEF After, Stages, RetrievalInv
<1>2. \A d \in left' : \E p \in Range(found') : p.document = d
  BY DEF Expanding
<1>3. Fused' = Fused
  BY DEF Fused, VectorPassing, KeywordPassing
<1>4. FoundSound(found)'
  BY DEF FoundSound
<1> QED
  BY <1>1, <1>2, <1>3, <1>4 DEF RetrievalInv, Side

\* What the other chunks of the base do is no matter of a search.
LEMMA SearchUntouched ==
  ASSUME RetrievalInv, UNCHANGED <<setup, step, vector, keyword, found, tries, left, sources>>
  PROVE  RetrievalInv'
<1>1. Fused' = Fused
  BY DEF Fused, VectorPassing, KeywordPassing
<1>2. FoundSound(found) /\ Side(vector) /\ Side(keyword)
  BY DEF RetrievalInv
<1>3. FoundSound(found)'
  BY <1>2 DEF FoundSound
<1>4. Side(vector)' /\ Side(keyword)'
  BY <1>2 DEF Side
<1> QED
  BY <1>1, <1>3, <1>4 DEF RetrievalInv

LEMMA RetrievalStays == RetrievalInv /\ [RetrievalNext]_retrievalVars => RetrievalInv'
<1> SUFFICES ASSUME RetrievalInv, [RetrievalNext]_retrievalVars PROVE RetrievalInv'
  OBVIOUS
<1>0. /\ Side(vector) /\ Side(keyword) /\ FoundSound(found) /\ found \in Seq(Passages)
      /\ setup \in [rerank : BOOLEAN, expand : BOOLEAN] /\ step \in Stages /\ tries \in 0..Retries
      /\ sources \in Seq(Passages) /\ Len(sources) <= Most
  BY DEF RetrievalInv, FoundSound
<1>1. CASE UNCHANGED retrievalVars
  BY <1>1, SearchUntouched DEF retrievalVars
<1>2. CASE VectorSearch
  <2>1. Side(vector')
    <3>1. CASE vector' = Failed
      BY <3>1, NoHits
    <3>2. ASSUME NEW score \in [Chunks -> Scores], vector' = [state |-> "ok", list |-> Hits(score)] PROVE Side(vector')
      BY <3>2, HitsAreSorted DEF Side
    <3> QED
      BY <1>2, <3>1, <3>2 DEF VectorSearch
  <2>2. step = "search" /\ UNCHANGED <<setup, step, keyword, found, tries, left, sources>>
    BY <1>2 DEF VectorSearch
  <2> QED
    BY <2>1, <2>2 DEF RetrievalInv, FoundSound, Side
<1>3. CASE KeywordSearch
  <2>1. Side(keyword')
    <3>1. CASE keyword' = Failed
      BY <3>1, NoHits
    <3>2. ASSUME NEW score \in [Chunks -> Scores], keyword' = [state |-> "ok", list |-> AtLeast(Hits(score), 1)] PROVE Side(keyword')
      BY <3>2, HitsAreSorted, EnoughIsSorted DEF Side
    <3> QED
      BY <1>3, <3>1, <3>2 DEF KeywordSearch
  <2>2. step = "search" /\ UNCHANGED <<setup, step, vector, found, tries, left, sources>>
    BY <1>3 DEF KeywordSearch
  <2> QED
    BY <2>1, <2>2 DEF RetrievalInv, FoundSound, Side
<1>4. CASE Fuse
  <2>1. UNCHANGED <<setup, vector, keyword, tries, sources>>
    BY <1>4 DEF Fuse
  <2>2. CASE found' = <<>> /\ step' = "failed" /\ left' = {}
    <3>1. FoundSound(found)'
      BY <2>1, <2>2, NothingFound DEF FoundSound
    <3> QED
      BY <2>1, <2>2, <3>1 DEF RetrievalInv, Stages, Side
  <2>3. CASE found' = Fused /\ step' = After("search", Fused) /\ left' = Expanding(Fused)
    <3>1. Fused \in Seq(Passages) /\ Sorted(Fused) /\ AllBy(Fused, "fusion") /\ Len(Fused) <= TopK
      BY <1>0, FusedPassages
    <3>2. FoundSound(Fused)
      BY <3>1, ListIsSound, MostIsMore, Bounds
    <3> QED
      BY <2>1, <2>3, <3>2, GoesOn
  <2> QED
    BY <1>4, <2>2, <2>3 DEF Fuse
<1>5. CASE Rerank
  <2>1. PICK some \in SUBSET {p.id : p \in Range(found)} : \E score \in [some -> Scores] :
          found' = Reranked(score) /\ step' = After("rerank", Reranked(score)) /\ left' = Expanding(Reranked(score))
    BY <1>5 DEF Rerank
  <2>2. PICK score \in [some -> Scores] :
          found' = Reranked(score) /\ step' = After("rerank", Reranked(score)) /\ left' = Expanding(Reranked(score))
    BY <2>1
  <2>3. UNCHANGED <<setup, vector, keyword, tries, sources>> /\ step = "rerank"
    BY <1>5 DEF Rerank
  <2>4. found = Fused /\ setup.rerank /\ Distinct(found)
    BY <1>0, <2>3, FusedPassages DEF RetrievalInv
  <2>5. /\ Reranked(score) \in Seq(Passages) /\ Sorted(Reranked(score))
        /\ AllBy(Reranked(score), "rerank") /\ Len(Reranked(score)) <= TopN
    BY <1>0, <2>4, RerankedPassages
  <2>6. FoundSound(Reranked(score))
    BY <2>5, ListIsSound, MostIsMore, Bounds
  <2> QED
    BY <2>2, <2>3, <2>4, <2>6, GoesOn
<1>6. CASE RerankFails
  <2>1. UNCHANGED <<setup, vector, keyword, found, left, sources>> /\ step = "rerank"
    BY <1>6 DEF RerankFails
  <2>2. /\ tries' \in 0..Retries
        /\ step' = "rerank" \/ step' = After("rerank", found)
    BY <1>0, <1>6, <2>1, Bounds DEF RerankFails
  <2>3. /\ step' \in Stages /\ (step' = "expand" => setup.expand) /\ setup.rerank /\ found = Fused
        /\ \A d \in left : \E p \in Range(found) : p.document = d
    BY <1>0, <2>1, <2>2 DEF After, Stages, RetrievalInv
  <2>4. Fused' = Fused
    BY <2>1 DEF Fused, VectorPassing, KeywordPassing
  <2>5. FoundSound(found)' /\ Side(vector)' /\ Side(keyword)'
    BY <1>0, <2>1 DEF FoundSound, Side
  <2> QED
    BY <1>0, <2>1, <2>2, <2>3, <2>4, <2>5 DEF RetrievalInv
<1>7. CASE Deduplicate
  <2>1. /\ step = "expand" /\ left = {} /\ left' = {} /\ setup.expand
        /\ UNCHANGED <<setup, vector, keyword, tries, sources>> /\ step' \in {"done", "collect"}
    BY <1>7 DEF Deduplicate, RetrievalInv
  <2>2. OfFound(found')
    <3>1. PICK S : found' = Picked(found, S)
      BY <1>7 DEF Deduplicate, Deduplicated
    <3>2. found' \in Seq(Passages) /\ Range(found') \subseteq Range(found)
      BY <1>0, <3>1, KeptSorted
    <3> QED
      BY <3>2 DEF OfFound
  <2>3. FoundSound(found')
    BY <1>0, <2>1, <2>2, PartIsSound
  <2>4. FoundSound(found)' /\ Side(vector)' /\ Side(keyword)'
    BY <1>0, <2>1, <2>3 DEF FoundSound, Side
  <2> QED
    BY <1>0, <2>1, <2>4 DEF RetrievalInv, Stages
<1>8. CASE Collect
  <2>1. /\ step = "collect" /\ step' = "done" /\ sources' = Collected(found)
        /\ UNCHANGED <<setup, vector, keyword, found, tries, left>>
    BY <1>8 DEF Collect
  <2>2. sources' \in Seq(Passages) /\ Len(sources') <= Cardinality(Ids(found))
    BY <1>0, <2>1, CollectedAreFew
  <2>3. Len(sources') <= Most
    <3>1. Len(sources') \in Nat /\ Cardinality(Ids(found)) \in Nat /\ Cardinality(Ids(found)) <= Most
      BY <1>0, <2>2, IdsAreFew DEF FoundSound
    <3> QED
      BY <2>2, <3>1, MostIsMore
  <2>4. Fused' = Fused
    BY <2>1 DEF Fused, VectorPassing, KeywordPassing
  <2>5. FoundSound(found)' /\ Side(vector)' /\ Side(keyword)'
    BY <1>0, <2>1 DEF FoundSound, Side
  <2> QED
    BY <1>0, <2>1, <2>2, <2>3, <2>4, <2>5 DEF RetrievalInv, Stages
<1>9. ASSUME NEW d \in Documents, Expand(d) PROVE RetrievalInv'
  <2> DEFINE C == {i \in DOMAIN found : found[i].document # d}
             rest == Picked(found, C)
  <2>1. /\ step = "expand" /\ d \in left /\ left' = left \ {d} /\ setup.expand
        /\ UNCHANGED <<setup, step, vector, keyword, tries, sources>>
        /\ \A e \in left : \E p \in Range(found) : p.document = e
    BY <1>9 DEF Expand, RetrievalInv
  <2>2. PICK ps \in {ExpandedDocument(d), Of(d)} : found' = rest \o ps
    BY <1>9 DEF Expand
  <2>3. OfFound(ps)
    BY <1>0, <2>1, <2>2, ExpandedIsFound
  <2>4. /\ rest \in Seq(Passages) /\ Range(rest) \subseteq Range(found)
        /\ \A i \in DOMAIN found : i \in C => found[i] \in Range(rest)
    BY <1>0, KeptSorted
  <2>5. \A i \in DOMAIN found : found[i].document # d => i \in C
    OBVIOUS
  <2> HIDE DEF rest, C
  <2>6. found' \in Seq(Passages) /\ Range(found') = Range(rest) \cup Range(ps)
    <3>1. ps \in Seq(Passages)
      BY <2>3 DEF OfFound
    <3>2. Range(rest \o ps) = Range(rest) \cup Range(ps)
      BY <2>4, <3>1, Concatenated
    <3> QED
      BY <2>2, <2>4, <3>1, <3>2
  <2>7. OfFound(found')
    BY <2>3, <2>4, <2>6 DEF OfFound
  <2>8. FoundSound(found')
    BY <1>0, <2>1, <2>7, PartIsSound
  <2>9. ASSUME NEW e \in left' PROVE \E p \in Range(found') : p.document = e
    <3>1. PICK i \in DOMAIN found : found[i].document = e
      BY <2>1, <2>9 DEF Range
    <3>2. found[i] \in Range(found')
      BY <2>1, <2>4, <2>5, <2>6, <2>9, <3>1
    <3> QED
      BY <3>1, <3>2
  <2>10. FoundSound(found)' /\ Side(vector)' /\ Side(keyword)'
    BY <1>0, <2>1, <2>8 DEF FoundSound, Side
  <2> QED
    BY <1>0, <2>1, <2>9, <2>10 DEF RetrievalInv
<1>10. ASSUME NEW d \in Documents, DeleteFound(d) PROVE RetrievalInv'
  BY <1>10, SearchUntouched DEF DeleteFound
<1> QED
  BY <1>1, <1>2, <1>3, <1>4, <1>5, <1>6, <1>7, <1>8, <1>9, <1>10 DEF RetrievalNext

LEMMA RetrievalIsGood == RetrievalInv => RetrievalTypeOK /\ BestHitSurvives /\ RankedByOneScore
<1> SUFFICES ASSUME RetrievalInv PROVE RetrievalTypeOK /\ BestHitSurvives /\ RankedByOneScore
  OBVIOUS
<1>1. RetrievalTypeOK
  <2>1. \A p \in Range(found) : p \in Passages
    BY DEF RetrievalInv, FoundSound, Range
  <2>2. {p.id : p \in Range(found)} \subseteq Chunks
    BY <2>1 DEF Passages
  <2> QED
    BY <2>2 DEF RetrievalInv, RetrievalTypeOK, Stages, Most
<1>2. BestHitSurvives
  <2>1. SUFFICES ASSUME step \in {"rerank", "done"}, step = "done" => ~setup.rerank /\ ~setup.expand
                 PROVE  \A s \in {VectorPassing, KeywordPassing} :
                           s # <<>> => Len(found) = TopK \/ s[1].id \in {p.id : p \in Range(found)}
    BY DEF BestHitSurvives
  <2>2. found = Fused
    BY <2>1 DEF RetrievalInv
  <2> QED
    BY <2>2, FusedPassages DEF RetrievalInv
<1>3. RankedByOneScore
  BY DEF RetrievalInv, FoundSound, RankedByOneScore, Sorted
<1> QED
  BY <1>1, <1>2, <1>3

-----------------------------------------------------------------------------
(* The messages of a run.                                                  *)

RunCalls == [id : Nat, danger : BOOLEAN]
RunRoles == {"system", "user", "assistant", "tool"}
RunKinds == {"text", "material", "summary", "failed", "page", "ref"}
RunMessages == [id : Int, role : RunRoles, kind : RunKinds, size : Nat, shown : Nat, calls : Seq(RunCalls), call : Nat]

LEMMA MessageParts ==
  /\ \A m \in RunMessages : /\ m.id \in Int /\ m.role \in RunRoles /\ m.kind \in RunKinds /\ m.size \in Nat
                            /\ m.shown \in Nat /\ m.calls \in Seq(RunCalls) /\ m.call \in Nat
  /\ \A ms \in Seq(RunMessages) : Len(ms) \in Nat /\ DOMAIN ms = 1..Len(ms) /\ \A i \in DOMAIN ms : ms[i] \in RunMessages
<1>1. \A m \in RunMessages : /\ m.id \in Int /\ m.role \in RunRoles /\ m.kind \in RunKinds /\ m.size \in Nat
                              /\ m.shown \in Nat /\ m.calls \in Seq(RunCalls) /\ m.call \in Nat
  BY DEF RunMessages
<1>. QED
  BY <1>1

\* The instance counts, picks and ranks as this module does.
LEMMA RunCounts ==
  /\ \A S : Run!Max(S) = Max(S) /\ Run!Min(S) = Min(S) /\ Run!Cardinality(S) = Cardinality(S)
  /\ \A s, S : Run!Picked(s, S) = Picked(s, S)
  /\ \A S, R : Run!Ranked(S, R) = Ranked(S, R)
  /\ \A f : Run!Range(f) = Range(f)
<1>1. \A S : Run!Max(S) = Max(S) /\ Run!Min(S) = Min(S)
  BY DEF Run!Max, Max, Run!Min, Min
<1>2. \A S : Run!Cardinality(S) = Cardinality(S)
  BY DEF Run!Cardinality, Cardinality
<1>3. \A s, S : Run!Picked(s, S) = Picked(s, S)
  BY DEF Run!Picked, Picked
<1>4. \A S, R : Run!Ranked(S, R) = Ranked(S, R)
  BY DEF Run!Ranked, Ranked, Run!Cardinality, Cardinality
<1>5. \A f : Run!Range(f) = Range(f)
  BY DEF Run!Range, Range
<1>. QED
  BY <1>1, <1>2, <1>3, <1>4, <1>5

\* Two messages are the same but for how much of them is shown.
SameFact(m, n) ==
    /\ m.id = n.id /\ m.role = n.role /\ m.kind = n.kind
    /\ m.size = n.size /\ m.calls = n.calls /\ m.call = n.call

RunTurns(g) == {i \in DOMAIN g : g[i].calls # <<>>}

\* One message of all that were added, the question being the one at q: calls come behind the question and nothing but
\* their results follows them, a result has its call before it.
FactOK(g, q, i) ==
    /\ g[i].id = i /\ g[i].kind # "summary"
    /\ i <= q => g[i].role # "tool" /\ g[i].calls = <<>>
    /\ i > q => g[i].role = "tool" \/ g[i].calls # <<>>
    /\ g[i].calls # <<>> => g[i].role = "assistant" /\ g[i].kind = "text" /\ Len(g[i].calls) \in 1..2
    /\ g[i].kind \in {"failed", "ref", "page"} => g[i].role = "tool"
    /\ g[i].kind = "material" => g[i].role = "user"
    /\ \A k \in 1..Len(g[i].calls) : i + k \in DOMAIN g => g[i + k].role = "tool" /\ g[i + k].call = k
    /\ g[i].role = "tool" => \E t \in RunTurns(g) : i \in (t + 1)..(t + Len(g[t].calls))

RunShape(g, q) ==
    /\ g \in Seq(RunMessages)
    /\ q \in DOMAIN g /\ g[q].role = "user" /\ g[q].kind = "text"
    /\ \A i \in DOMAIN g : FactOK(g, q, i)

\* Every call has its results, but for those at the places in open.
Settled(g, open) == \A t \in RunTurns(g) \ open : t + Len(g[t].calls) \in DOMAIN g

\* Of all that was added, what has the ids in K lacks nothing: the question, what failed, the latest round, results of
\* their calls and calls of their results, and what is neither summarised nor referred to.
WholeIds(K, g, q, s) ==
    /\ q \in K
    /\ \A i \in DOMAIN g : g[i].kind = "failed" => i \in K
    /\ \A t \in RunTurns(g) : (\A u \in RunTurns(g) : u <= t) => \A i \in DOMAIN g : i >= t => i \in K
    /\ \A t \in RunTurns(g) : \A k \in 1..Len(g[t].calls) : t + k \in DOMAIN g => (t \in K <=> t + k \in K)
    /\ \A i \in DOMAIN g : g[i].role = "tool" => i \in K \cup s.covered
    /\ \A i \in DOMAIN g : g[i].kind = "ref" => i \in K \cup s.refs
    /\ s.covered # {} => s.summary \in K /\ s.summary < 0

\* A message of a list: one of those that were added, or the summary.
Genuine(m, g, s) ==
    \/ m.id \in DOMAIN g /\ SameFact(m, g[m.id])
    \/ m.id = s.summary /\ m.id < 0 /\ m.kind = "summary" /\ m.role = "user" /\ m.calls = <<>>

Ascending(ms) == \A i, j \in DOMAIN ms : i < j => ms[i].id < ms[j].id

SoundList(ms, g, q, s) ==
    /\ ms \in Seq(RunMessages) /\ Ascending(ms)
    /\ \A i \in DOMAIN ms : Genuine(ms[i], g, s)
    /\ WholeIds(Run!Ids(ms), g, q, s)

\* A list of the same messages, of which more or less is shown.
Reshown(new, ms) ==
    /\ new \in Seq(RunMessages) /\ Len(new) = Len(ms)
    /\ \A i \in 1..Len(ms) : SameFact(new[i], ms[i])

LEMMA ReshownIsSound ==
  ASSUME NEW ms, NEW g, NEW q, NEW s, SoundList(ms, g, q, s), NEW new, Reshown(new, ms)
  PROVE  SoundList(new, g, q, s) /\ Run!Ids(new) = Run!Ids(ms)
<1>1. ms \in Seq(RunMessages) /\ new \in Seq(RunMessages) /\ DOMAIN ms = DOMAIN new
  BY DEF SoundList, Reshown
<1>2. \A i \in DOMAIN ms : SameFact(new[i], ms[i])
  BY <1>1 DEF Reshown
<1>3. \A i \in DOMAIN ms : new[i].id = ms[i].id
  BY <1>2 DEF SameFact
<1>4. Ascending(new)
  BY <1>1, <1>3 DEF SoundList, Ascending
<1>5. Run!Ids(new) = Run!Ids(ms)
  BY <1>1, <1>3 DEF Run!Ids
<1>6. ASSUME NEW i \in DOMAIN new PROVE Genuine(new[i], g, s)
  BY <1>1, <1>2, <1>6 DEF SoundList, Genuine, SameFact
<1>. QED
  BY <1>1, <1>4, <1>5, <1>6 DEF SoundList

LEMMA ReshownAgain ==
  ASSUME NEW a, NEW b, NEW c, Reshown(b, a), Reshown(c, b)
  PROVE  Reshown(c, a)
BY DEF Reshown, SameFact

\* What is left when messages are taken out stands in its order.
LEMMA WithoutIs ==
  ASSUME NEW ms \in Seq(RunMessages), Ascending(ms), NEW gone \in SUBSET DOMAIN ms, NEW r, r = Run!Without(ms, gone)
  PROVE  /\ r \in Seq(RunMessages) /\ Ascending(r)
         /\ \A i \in DOMAIN r : \E k \in DOMAIN ms \ gone : r[i] = ms[k]
         /\ \A k \in DOMAIN ms \ gone : \E i \in DOMAIN r : r[i] = ms[k]
         /\ Run!Ids(r) = Run!Ids(ms) \ {ms[i].id : i \in gone}
<1>. DEFINE S == {i \in DOMAIN ms : ms[i].id \notin {ms[j].id : j \in gone}}
<1>1. \A i \in DOMAIN ms : ms[i].id \in Int
  BY MessageParts
<1>0. ASSUME NEW i \in DOMAIN ms, NEW j \in DOMAIN ms, ms[i].id = ms[j].id PROVE i = j
  <2>1. i \in Int /\ j \in Int /\ ms[i].id \in Int
    BY <1>1
  <2>2. ~(i < j) /\ ~(j < i)
    BY <1>1, <1>0, <2>1 DEF Ascending
  <2>. QED
    BY <2>1, <2>2
<1>2. S = DOMAIN ms \ gone
  <2>2. ASSUME NEW i \in DOMAIN ms PROVE ms[i].id \in {ms[j].id : j \in gone} <=> i \in gone
    <3>1. ASSUME ms[i].id \in {ms[j].id : j \in gone} PROVE i \in gone
      <4>1. PICK j \in gone : ms[i].id = ms[j].id
        BY <3>1
      <4>. QED
        BY <1>0, <4>1
    <3>. QED
      BY <3>1
  <2>. QED
    BY <2>2
<1>3. r = Picked(ms, S)
  BY RunCounts DEF Run!Without
<1>. HIDE DEF S
<1>4. r \in Seq(RunMessages) /\ \E at \in [DOMAIN r -> DOMAIN ms] : PicksAt(at, ms, S)
  BY ONLY <1>3, PickedInOrder, ms \in Seq(RunMessages)
<1>5. PICK at \in [DOMAIN r -> DOMAIN ms] : PicksAt(at, ms, S)
  BY <1>4
<1>6. /\ \A i \in DOMAIN r : at[i] \in S /\ r[i] = ms[at[i]] /\ at[i] \in DOMAIN ms
      /\ \A i, j \in DOMAIN r : i < j => at[i] < at[j]
      /\ \A k \in DOMAIN ms : k \in S => \E i \in DOMAIN r : at[i] = k
  BY <1>3, <1>5 DEF PicksAt
<1>7. Ascending(r)
  BY <1>6 DEF Ascending
<1>8. \A i \in DOMAIN r : \E k \in DOMAIN ms \ gone : r[i] = ms[k]
  BY <1>2, <1>6
<1>9. \A k \in DOMAIN ms \ gone : \E i \in DOMAIN r : r[i] = ms[k]
  BY <1>2, <1>6
<1>10. Run!Ids(r) = Run!Ids(ms) \ {ms[i].id : i \in gone}
  <2>1. ASSUME NEW x \in Run!Ids(r) PROVE x \in Run!Ids(ms) \ {ms[i].id : i \in gone}
    <3>1. PICK i \in DOMAIN r : x = r[i].id
      BY DEF Run!Ids
    <3>2. PICK k \in DOMAIN ms \ gone : r[i] = ms[k]
      BY <1>8
    <3>3. x \notin {ms[j].id : j \in gone}
      BY <1>0, <3>1, <3>2
    <3>. QED
      BY <3>1, <3>2, <3>3 DEF Run!Ids
  <2>2. ASSUME NEW x \in Run!Ids(ms) \ {ms[i].id : i \in gone} PROVE x \in Run!Ids(r)
    <3>1. PICK k \in DOMAIN ms : x = ms[k].id
      BY DEF Run!Ids
    <3>2. k \notin gone
      BY <2>2, <3>1
    <3>3. PICK i \in DOMAIN r : r[i] = ms[k]
      BY <1>9, <3>2
    <3>. QED
      BY <3>1, <3>3 DEF Run!Ids
  <2>. QED
    BY <2>1, <2>2
<1>. QED
  BY <1>4, <1>7, <1>8, <1>9, <1>10

\* What may be missing: old conversation and material.
Spare(m, q) == m.calls = <<>> /\ m.role # "tool" /\ m.id # q /\ m.kind # "summary"

LEMMA BehindTheQuestion ==
  ASSUME NEW g, NEW q, RunShape(g, q), NEW t \in RunTurns(g)
  PROVE  t \in Nat /\ q \in Nat /\ t > q
<1>1. g \in Seq(RunMessages) /\ q \in DOMAIN g /\ t \in DOMAIN g /\ g[t].calls # <<>> /\ FactOK(g, q, t)
  BY DEF RunShape, RunTurns
<1>2. t \in Nat /\ q \in Nat
  BY <1>1, MessageParts
<1>3. ~(t <= q)
  BY <1>1 DEF FactOK
<1>. QED
  BY <1>2, <1>3

LEMMA SpareMayGo ==
  ASSUME NEW g, NEW q, RunShape(g, q), NEW K, NEW s, WholeIds(K, g, q, s), NEW D,
         \A d \in D : d \in DOMAIN g /\ Spare(g[d], q)
  PROVE  WholeIds(K \ D, g, q, s)
<1>1. /\ g \in Seq(RunMessages) /\ \A i \in DOMAIN g : i \in Nat /\ g[i].id = i /\ FactOK(g, q, i)
      /\ q \in DOMAIN g
  BY MessageParts DEF RunShape, FactOK
<1>2. q \notin D
  BY <1>1 DEF Spare
<1>3. \A i \in DOMAIN g : g[i].role = "tool" \/ g[i].calls # <<>> => i \notin D
  BY DEF Spare
<1>4. \A i \in DOMAIN g : g[i].kind \in {"failed", "ref"} => i \notin D
  BY <1>1, <1>3 DEF FactOK
<1>5. ASSUME NEW t \in RunTurns(g), NEW i \in DOMAIN g, i >= t PROVE i \notin D
  <2>1. i > q
    BY <1>1, <1>5, BehindTheQuestion
  <2>. QED
    BY <1>1, <1>3, <2>1 DEF FactOK
<1>6. ASSUME NEW t \in RunTurns(g), NEW k \in 1..Len(g[t].calls), t + k \in DOMAIN g PROVE t \notin D /\ t + k \notin D
  BY <1>1, <1>3, <1>6 DEF RunTurns, FactOK
<1>7. s.summary < 0 => s.summary \notin D
  BY <1>1
<1>. QED
  BY <1>2, <1>3, <1>4, <1>5, <1>6, <1>7 DEF WholeIds

LEMMA SoundWithout ==
  ASSUME NEW g, NEW q, RunShape(g, q), NEW ms, NEW s, SoundList(ms, g, q, s), NEW gone \in SUBSET DOMAIN ms,
         \A i \in gone : Spare(ms[i], q)
  PROVE  SoundList(Run!Without(ms, gone), g, q, s)
<1>. DEFINE r == Run!Without(ms, gone)
            D == {ms[i].id : i \in gone}
<1>1. ms \in Seq(RunMessages) /\ Ascending(ms) /\ \A i \in DOMAIN ms : Genuine(ms[i], g, s)
  BY DEF SoundList
<1>2. /\ r \in Seq(RunMessages) /\ Ascending(r) /\ Run!Ids(r) = Run!Ids(ms) \ D
      /\ \A i \in DOMAIN r : \E k \in DOMAIN ms \ gone : r[i] = ms[k]
  <2>. HIDE DEF r
  <2>1. r = Run!Without(ms, gone)
    BY DEF r
  <2>. QED
    BY ONLY <1>1, <2>1, WithoutIs, gone \in SUBSET DOMAIN ms
<1>3. ASSUME NEW i \in gone PROVE ms[i].id \in DOMAIN g /\ Spare(g[ms[i].id], q)
  <2>1. Genuine(ms[i], g, s) /\ Spare(ms[i], q)
    BY <1>1
  <2>. QED
    BY <2>1 DEF Genuine, Spare, SameFact
<1>4. \A d \in D : d \in DOMAIN g /\ Spare(g[d], q)
  BY <1>3
<1>. HIDE DEF D, r
<1>5. WholeIds(Run!Ids(ms) \ D, g, q, s)
  BY <1>4, SpareMayGo DEF SoundList
<1>. QED
  BY <1>1, <1>2, <1>5 DEF SoundList, r

LEMMA MessagesCost ==
  ASSUME NEW ms \in Seq(RunMessages)
  PROVE  Run!Cost(ms) \in Nat
<1>. DEFINE n == Len(ms)
            F == [i \in Nat |-> [x \in Nat |-> IF i \in 1..n THEN x + 1 + ms[i].shown ELSE x]]
            Made(p) == [i \in 0..n |-> IF i = 0 THEN 0 ELSE p[i - 1] + 1 + ms[i].shown]
            q == CHOOSE p : p = Made(p)
<1>1. n \in Nat /\ \A i \in 1..n : ms[i].shown \in Nat
  BY MessageParts
<1>2. F \in [Nat -> [Nat -> Nat]]
  BY <1>1
<1>3. PICK f \in [0..n -> Nat] : Steps(f, n, 0, F)
  <2>. HIDE DEF F, n
  <2>. QED
    BY ONLY <1>1, <1>2, StepsExist
<1>4. f = Made(f)
  <2>1. ASSUME NEW i \in 0..n, i # 0 PROVE f[i] = f[i - 1] + 1 + ms[i].shown
    <3>1. i \in 1..n /\ f[i - 1] \in Nat
      BY <2>1
    <3>2. F[i][f[i - 1]] = f[i - 1] + 1 + ms[i].shown
      BY <3>1
    <3>. HIDE DEF F
    <3>. QED
      BY <1>3, <3>1, <3>2 DEF Steps
  <2>2. f[0] = 0
    BY <1>3 DEF Steps
  <2>. QED
    BY <2>1, <2>2
<1>5. q = Made(q)
  BY <1>4
<1>6. Run!Cost(ms) = q[n]
  BY DEF Run!Cost
<1>. HIDE DEF q
<1>7. q[0] = 0 /\ \A i \in 1..n : q[i] = q[i - 1] + 1 + ms[i].shown
  <2>. HIDE DEF n
  <2>1. 0 \in 0..n /\ \A i \in 1..n : i \in 0..n /\ i # 0
    BY <1>1
  <2>. QED
    BY <1>5, <2>1
<1>8. \A k \in 0..n : q[k] \in Nat
  <2>. HIDE DEF n
  <2>1. ASSUME NEW k \in 1..n, q[k - 1] \in Nat PROVE q[k] \in Nat
    <3>1. ms[k].shown \in Nat /\ q[k] = q[k - 1] + 1 + ms[k].shown
      BY <1>1, <1>7
    <3>. QED
      BY <2>1, <3>1
  <2>2. q[0] \in Nat /\ \A k \in 1..n : q[k - 1] \in Nat => q[k] \in Nat
    <3>1. q[0] \in Nat
      BY <1>7
    <3>. QED
      BY ONLY <2>1, <3>1
  <2>. QED
    BY ONLY <1>1, <2>2, LoopStays
<1>. QED
  BY <1>1, <1>6, <1>8

\* What the instance is run with.
LEMMA RunSizes ==
  /\ ModelWindow \in Nat /\ Output \in Nat /\ Margin \in Nat /\ MinOutput \in Nat
  /\ Run!Hard \in Int /\ Run!SummaryTarget \in Int /\ Run!RefHead = 1
  /\ SummaryMaxCalls \in Nat /\ Large \in Nat /\ MaxPairs \in Nat
<1>1. /\ ModelWindow \in Nat /\ Output \in Nat /\ Margin \in Nat /\ MinOutput \in Nat
      /\ SoftTenths \in Nat /\ TargetTenths \in Nat
      /\ SummaryMaxCalls \in Nat /\ Large \in Nat /\ MaxPairs \in Nat
  BY RunAssumption
<1>2. Run!Hard \in Int
  BY <1>1 DEF Run!Hard
<1>3. Run!SummaryTarget \in Int
  <2>1. Run!Hard * TargetTenths \in Int
    BY <1>1, <1>2
  <2>. QED
    BY <2>1 DEF Run!SummaryTarget
<1>. QED
  BY <1>1, <1>2, <1>3 DEF Run!RefHead

LEMMA GreaterOfTwo ==
  ASSUME NEW a \in Int, NEW b \in Int
  PROVE  /\ Max({a, b}) \in {a, b} /\ Max({a, b}) >= a /\ Max({a, b}) >= b
         /\ Min({a, b}) \in {a, b} /\ Min({a, b}) <= a /\ Min({a, b}) <= b
<1>1. \E x \in {a, b} : \A y \in {a, b} : x >= y
  OBVIOUS
<1>2. \E x \in {a, b} : \A y \in {a, b} : x <= y
  OBVIOUS
<1>. QED
  BY <1>1, <1>2 DEF Max, Min

LEMMA NotNegative ==
  ASSUME NEW x \in Int
  PROVE  Max({0, x}) \in Nat
<1>1. CASE x >= 0
  <2>1. x \in {0, x} /\ \A y \in {0, x} : x >= y
    BY <1>1
  <2>2. \A y \in {0, x} : y \in Int
    OBVIOUS
  <2>. QED
    BY <1>1, <2>1, <2>2 DEF Max
<1>2. CASE x < 0
  <2>1. 0 \in {0, x} /\ \A y \in {0, x} : 0 >= y
    BY <1>2
  <2>2. \A y \in {0, x} : y \in Int
    OBVIOUS
  <2>. QED
    BY <1>2, <2>1, <2>2 DEF Max
<1>. QED
  BY <1>1, <1>2

\* As much of a result as there is room for.
LEMMA ProjectedSize ==
  ASSUME NEW shown \in Nat, NEW allowance \in Nat
  PROVE  Run!Project(shown, allowance) \in Nat
<1>1. Max({1, allowance}) \in Nat
  BY GreaterOfTwo
<1>. QED
  BY <1>1, RunCounts, RunSizes DEF Run!Project

LEMMA ShownChanged ==
  ASSUME NEW m \in RunMessages, NEW v \in Nat, NEW r, r = [m EXCEPT !.shown = v]
  PROVE  r \in RunMessages /\ SameFact(r, m)
<1>1. r \in RunMessages
  BY DEF RunMessages
<1>2. r.id = m.id /\ r.role = m.role /\ r.kind = m.kind /\ r.size = m.size /\ r.calls = m.calls /\ r.call = m.call
  BY DEF RunMessages
<1>. QED
  BY <1>1, <1>2 DEF SameFact

LEMMA OneReshown ==
  ASSUME NEW ms \in Seq(RunMessages), NEW old, Reshown(old, ms), NEW o \in DOMAIN ms, NEW v \in Nat,
         NEW new, new = [old EXCEPT ![o].shown = v]
  PROVE  Reshown(new, ms)
<1>1. old \in Seq(RunMessages) /\ Len(old) = Len(ms) /\ \A i \in 1..Len(ms) : SameFact(old[i], ms[i])
  BY DEF Reshown
<1>2. o \in 1..Len(ms) /\ DOMAIN old = 1..Len(ms) /\ \A i \in 1..Len(ms) : old[i] \in RunMessages
  BY <1>1, MessageParts
<1>. DEFINE r == [old[o] EXCEPT !.shown = v]
<1>3. new = [i \in 1..Len(ms) |-> IF i = o THEN r ELSE old[i]]
  BY <1>2
<1>4. r \in RunMessages /\ SameFact(r, old[o])
  BY <1>2, ShownChanged
<1>. HIDE DEF r
<1>5. Len(ms) \in Nat
  BY MessageParts
<1>6. \A i \in 1..Len(ms) : new[i] \in RunMessages /\ SameFact(new[i], ms[i])
  <2>1. ASSUME NEW i \in 1..Len(ms) PROVE new[i] \in RunMessages /\ SameFact(new[i], ms[i])
    <3>1. CASE i = o
      <4>1. new[i] = r /\ SameFact(old[o], ms[o])
        BY <1>1, <1>2, <1>3, <3>1
      <4>. QED
        BY <1>4, <3>1, <4>1 DEF SameFact
    <3>2. CASE i # o
      BY <1>1, <1>2, <1>3, <3>2
    <3>. QED
      BY <3>1, <3>2
  <2>. QED
    BY <2>1
<1>7. new \in Seq(RunMessages) /\ Len(new) = Len(ms)
  <2>1. new \in [1..Len(ms) -> RunMessages]
    BY <1>3, <1>6
  <2>. QED
    BY ONLY <1>5, <2>1
<1>. QED
  BY <1>6, <1>7 DEF Reshown

\* The state of the loop that shares what is many.
Shares(ms) == {b \in [ms : Seq(RunMessages), rest : Nat] : Reshown(b.ms, ms)}
ShareStep(ms, b, o, many) ==
    LET shown == Run!Project(ms[o].shown, b.rest \div many)
    IN  [ms |-> [b.ms EXCEPT ![o].shown = shown], rest |-> Max({0, b.rest - shown})]

LEMMA SharesStay ==
  ASSUME NEW ms \in Seq(RunMessages), NEW b \in Shares(ms), NEW o \in DOMAIN ms, NEW many \in Nat \ {0}
  PROVE  ShareStep(ms, b, o, many) \in Shares(ms)
<1>. DEFINE shown == Run!Project(ms[o].shown, b.rest \div many)
            new == [b.ms EXCEPT ![o].shown = shown]
<1>1. b.rest \in Nat /\ Reshown(b.ms, ms)
  BY DEF Shares
<1>2. b.rest \div many \in Nat /\ ms[o].shown \in Nat
  BY <1>1, MessageParts, Quotients
<1>3. shown \in Nat
  BY <1>2, ProjectedSize
<1>. HIDE DEF shown
<1>4. Reshown(new, ms)
  BY <1>1, <1>3, OneReshown
<1>5. Max({0, b.rest - shown}) \in Nat
  <2>. DEFINE x == b.rest - shown
  <2>1. x \in Int
    BY <1>1, <1>3
  <2>. HIDE DEF x
  <2>2. Max({0, x}) \in Nat
    BY <2>1, NotNegative
  <2>. QED
    BY <2>2 DEF x
<1>6. ShareStep(ms, b, o, many) = [ms |-> new, rest |-> Max({0, b.rest - shown})]
  BY DEF ShareStep, shown
<1>. HIDE DEF new
<1>7. new \in Seq(RunMessages)
  BY <1>4 DEF Reshown
<1>. QED
  BY <1>4, <1>5, <1>6, <1>7 DEF Shares

LEMMA SharedIsReshown ==
  ASSUME NEW ms \in Seq(RunMessages), NEW order \in Seq(DOMAIN ms), NEW rest \in Nat
  PROVE  Reshown(Run!Shared(ms, order, rest), ms)
<1>. DEFINE n == Len(order)
            W == Shares(ms)
            base == [ms |-> ms, rest |-> rest]
            F == [i \in Nat |-> [b \in W |-> IF i \in 1..n THEN ShareStep(ms, b, order[i], n - i + 1) ELSE b]]
            Made(p) == [i \in 0..n |-> IF i = 0 THEN base ELSE ShareStep(ms, p[i - 1], order[i], n - i + 1)]
            q == CHOOSE p : p = Made(p)
<1>1. n \in Nat /\ \A i \in 1..n : order[i] \in DOMAIN ms /\ n - i + 1 \in Nat \ {0}
  OBVIOUS
<1>2. base \in W
  BY DEF Shares, Reshown, SameFact
<1>3. \A i \in 1..n : \A b \in W : ShareStep(ms, b, order[i], n - i + 1) \in W
  <2>. HIDE DEF n
  <2>. QED
    BY <1>1, SharesStay
<1>. HIDE DEF W, base
<1>4. F \in [Nat -> [W -> W]]
  BY <1>3
<1>5. PICK f \in [0..n -> W] : Steps(f, n, base, F)
  <2>. HIDE DEF F, n
  <2>. QED
    BY ONLY <1>1, <1>2, <1>4, StepsExist
<1>6. f = Made(f)
  <2>1. ASSUME NEW i \in 0..n, i # 0 PROVE f[i] = ShareStep(ms, f[i - 1], order[i], n - i + 1)
    <3>1. i \in 1..n /\ f[i - 1] \in W
      BY <2>1
    <3>2. F[i] = [b \in W |-> IF i \in 1..n THEN ShareStep(ms, b, order[i], n - i + 1) ELSE b]
      BY <3>1
    <3>. HIDE DEF F
    <3>3. f[i] = F[i][f[i - 1]]
      BY <1>5, <3>1 DEF Steps
    <3>. QED
      BY <3>1, <3>2, <3>3
  <2>2. f[0] = base
    BY <1>5 DEF Steps
  <2>. QED
    BY <2>1, <2>2
<1>7. q = Made(q)
  BY <1>6
<1>8. Run!Shared(ms, order, rest) = q[n].ms
  BY RunCounts DEF Run!Shared, ShareStep, base
<1>. HIDE DEF q
<1>9. q[0] = base /\ \A i \in 1..n : q[i] = ShareStep(ms, q[i - 1], order[i], n - i + 1)
  <2>. HIDE DEF n
  <2>1. 0 \in 0..n /\ \A i \in 1..n : i \in 0..n /\ i # 0
    BY <1>1
  <2>. QED
    BY <1>7, <2>1
<1>10. \A k \in 0..n : q[k] \in W
  <2>1. q[0] \in W /\ \A k \in 1..n : q[k - 1] \in W => q[k] \in W
    BY <1>2, <1>3, <1>9
  <2>. HIDE DEF n
  <2>. QED
    BY ONLY <1>1, <2>1, LoopStays
<1>. QED
  BY <1>1, <1>8, <1>10 DEF W, Shares

LEMMA FitIsReshown ==
  ASSUME NEW ms \in Seq(RunMessages), Ascending(ms)
  PROVE  Reshown(Run!Fit(ms), ms)
<1>. DEFINE stores == {i \in DOMAIN ms : ms[i].kind \in {"ref", "page"} /\ ms[i].shown > Run!RefHead}
            others == Run!Cost(Run!Without(ms, stores)) + Run!Cardinality(stores)
            R == {p \in stores \X stores : \/ ms[p[1]].shown < ms[p[2]].shown
                                           \/ ms[p[1]].shown = ms[p[2]].shown /\ p[1] < p[2]}
            order == Ranked(stores, R)
            rest == Max({0, Run!SummaryTarget - others})
<1>1. Reshown(ms, ms)
  BY DEF Reshown, SameFact
<1>2. DOMAIN ms = 1..Len(ms) /\ Len(ms) \in Nat /\ \A i \in DOMAIN ms : ms[i].shown \in Nat
  BY MessageParts
<1>3. IsFiniteSet(stores)
  <2>1. IsFiniteSet(1..Len(ms))
    BY <1>2, FS_Interval
  <2>2. stores \subseteq 1..Len(ms)
    BY <1>2
  <2>. HIDE DEF stores
  <2>. QED
    BY ONLY <2>1, <2>2, FS_Subset
<1>4. \A x \in stores : x \in DOMAIN ms /\ x \in Nat /\ ms[x].shown \in Nat
  BY <1>2
<1>5. stores \in SUBSET DOMAIN ms
  OBVIOUS
<1>. HIDE DEF stores
<1>6. Orders(R, stores)
  <2>1. \A x, y : <<x, y>> \in R <=> x \in stores /\ y \in stores /\ (ms[x].shown < ms[y].shown \/ (ms[x].shown = ms[y].shown /\ x < y))
    OBVIOUS
  <2>. HIDE DEF R
  <2>2. \A x \in stores : <<x, x>> \notin R
    BY <1>4, <2>1
  <2>3. \A x, y, z \in stores : <<x, y>> \in R /\ <<y, z>> \in R => <<x, z>> \in R
    BY <1>4, <2>1
  <2>4. \A x, y \in stores : x # y => <<x, y>> \in R \/ <<y, x>> \in R
    BY <1>4, <2>1
  <2>. QED
    BY <2>2, <2>3, <2>4 DEF Orders
<1>. HIDE DEF R
<1>7. order \in Seq(stores)
  BY <1>3, <1>6, RankedInOrder
<1>. HIDE DEF order
<1>8. order \in Seq(DOMAIN ms)
  BY <1>5, <1>7
<1>9. others \in Int
  <2>. DEFINE r == Run!Without(ms, stores)
  <2>1. r \in Seq(RunMessages)
    <3>1. r = Run!Without(ms, stores)
      OBVIOUS
    <3>. HIDE DEF r
    <3>. QED
      BY <1>5, <3>1, WithoutIs
  <2>2. Run!Cost(r) \in Nat
    BY <2>1, MessagesCost
  <2>3. Run!Cardinality(stores) \in Nat
    BY <1>3, RunCounts, FS_CardinalityType
  <2>. QED
    BY <2>2, <2>3
<1>. HIDE DEF others
<1>10. rest \in Nat
  <2>. DEFINE x == Run!SummaryTarget - others
  <2>1. x \in Int
    BY <1>9, RunSizes
  <2>. HIDE DEF x
  <2>2. Max({0, x}) \in Nat
    BY <2>1, NotNegative
  <2>. QED
    BY <2>2 DEF x
<1>11. Run!Fit(ms) = IF Run!Cost(ms) <= Run!Soft THEN ms ELSE Run!Shared(ms, order, rest)
  BY RunCounts DEF Run!Fit, stores, others, order, R
<1>. HIDE DEF rest
<1>12. Reshown(Run!Shared(ms, order, rest), ms)
  BY <1>8, <1>10, SharedIsReshown
<1>. QED
  BY <1>1, <1>11, <1>12

LEMMA FitIsSound ==
  ASSUME NEW ms, NEW g, NEW q, NEW s, SoundList(ms, g, q, s)
  PROVE  SoundList(Run!Fit(ms), g, q, s)
<1>1. ms \in Seq(RunMessages) /\ Ascending(ms)
  BY DEF SoundList
<1>. QED
  BY <1>1, FitIsReshown, ReshownIsSound

LEMMA ExpandIsReshown ==
  ASSUME NEW ms, NEW g, NEW q, NEW s, SoundList(ms, g, q, s)
  PROVE  SoundList(Run!Expand(ms), g, q, s) /\ Reshown(Run!Expand(ms), ms)
<1>. DEFINE e == [i \in DOMAIN ms |-> Run!Whole(ms[i])]
            whole == SubSeq(e, 1, Len(ms))
<1>1. ms \in Seq(RunMessages) /\ DOMAIN ms = 1..Len(ms) /\ Len(ms) \in Nat
  BY MessageParts DEF SoundList
<1>2. ASSUME NEW m \in RunMessages PROVE Run!Whole(m) \in RunMessages /\ SameFact(Run!Whole(m), m)
  <2>1. Run!RefHead + m.size \in Nat
    BY RunSizes, MessageParts
  <2>. DEFINE v == Run!RefHead + m.size
  <2>. HIDE DEF v
  <2>2. [m EXCEPT !.shown = v] \in RunMessages /\ SameFact([m EXCEPT !.shown = v], m)
    BY <2>1, ShownChanged DEF v
  <2>3. SameFact(m, m)
    BY DEF SameFact
  <2>. QED
    BY <2>2, <2>3 DEF Run!Whole, v
<1>3. \A i \in 1..Len(ms) : ms[i] \in RunMessages
  BY <1>1
<1>4. \A i \in 1..Len(ms) : e[i] \in RunMessages /\ SameFact(e[i], ms[i])
  BY <1>1, <1>2, <1>3
<1>5. e \in [1..Len(ms) -> RunMessages]
  BY <1>1, <1>4
<1>. HIDE DEF e
<1>6. e \in Seq(RunMessages) /\ Len(e) = Len(ms)
  BY ONLY <1>1, <1>5
<1>7. whole \in Seq(RunMessages) /\ Len(whole) = Len(ms) /\ \A i \in 1..Len(ms) : whole[i] = e[i]
  BY <1>1, <1>6, Beginning
<1>. HIDE DEF whole
<1>8. Reshown(whole, ms)
  BY <1>4, <1>7 DEF Reshown
<1>9. SoundList(whole, g, q, s)
  BY <1>8, ReshownIsSound
<1>10. Run!Expand(ms) = Run!Fit(whole)
  BY DEF Run!Expand, whole, e
<1>11. Reshown(Run!Fit(whole), whole)
  BY <1>9, FitIsReshown DEF SoundList
<1>. QED
  BY <1>8, <1>9, <1>10, <1>11, FitIsSound, ReshownAgain

\* What the proofs use of a genuine message.
LEMMA GenuineMessages ==
  ASSUME NEW g, NEW q, RunShape(g, q), NEW s, NEW m \in RunMessages, Genuine(m, g, s)
  PROVE  /\ m.role = "user" => m.calls = <<>> /\ (m.id <= q \/ m.id < 0)
         /\ m.role = "assistant" => m.kind # "summary"
         /\ m.kind = "material" => m.role = "user" /\ m.id # q
         /\ m.id = q => m.role = "user" /\ m.kind = "text"
         /\ m.kind # "summary" => m.id \in DOMAIN g /\ SameFact(m, g[m.id])
         /\ m.calls # <<>> => m.id \in RunTurns(g)
         /\ m.role = "tool" => m.id \in DOMAIN g /\ SameFact(m, g[m.id])
<1>1. q \in Nat /\ q >= 1 /\ q \in DOMAIN g /\ g[q].role = "user" /\ g[q].kind = "text"
  BY MessageParts DEF RunShape
<1>2. CASE m.id \in DOMAIN g /\ SameFact(m, g[m.id])
  <2>1. FactOK(g, q, m.id) /\ m.id \in Nat
    BY <1>2, MessageParts DEF RunShape
  <2>2. m.role = g[m.id].role /\ m.kind = g[m.id].kind /\ m.calls = g[m.id].calls
    BY <1>2 DEF SameFact
  <2>. QED
    BY <1>1, <1>2, <2>1, <2>2 DEF FactOK, RunTurns
<1>3. CASE m.id = s.summary /\ m.id < 0 /\ m.kind = "summary" /\ m.role = "user" /\ m.calls = <<>>
  BY <1>1, <1>3, MessageParts
<1>. QED
  BY <1>2, <1>3 DEF Genuine

\* The last message of the user is the question.
LEMMA LastUserIsTheQuestion ==
  ASSUME NEW g, NEW q, RunShape(g, q), NEW ms, NEW s, SoundList(ms, g, q, s), NEW other \in SUBSET {"summary"},
         NEW p \in DOMAIN ms, ms[p].id = q
  PROVE  Run!LastUser(ms, other) = p
<1>. DEFINE U == {0} \cup {i \in DOMAIN ms : ms[i].role = "user" /\ ms[i].kind \notin other}
<1>1. /\ ms \in Seq(RunMessages) /\ Len(ms) \in Nat /\ DOMAIN ms = 1..Len(ms) /\ Ascending(ms)
      /\ \A i \in DOMAIN ms : ms[i] \in RunMessages /\ ms[i].id \in Int /\ Genuine(ms[i], g, s)
  BY MessageParts DEF SoundList
<1>2. q \in Nat /\ p \in Nat
  BY <1>1, MessageParts DEF RunShape
<1>3. p \in U
  <2>1. ms[p].role = "user" /\ ms[p].kind = "text"
    BY <1>1, GenuineMessages
  <2>. QED
    BY <2>1
<1>4. ASSUME NEW i \in U PROVE i <= p
  <2>1. CASE i = 0
    BY <1>2, <2>1
  <2>2. CASE i # 0
    <3>1. i \in DOMAIN ms /\ ms[i].role = "user" /\ i \in Nat
      BY <1>1, <2>2
    <3>2. ms[i].id <= q \/ ms[i].id < 0
      BY <1>1, <3>1, GenuineMessages
    <3>3. ~(p < i)
      BY <1>1, <1>2, <3>1, <3>2 DEF Ascending
    <3>. QED
      BY <1>2, <3>1, <3>3
  <2>. QED
    BY <2>1, <2>2
<1>5. U \in SUBSET Nat /\ U # {} /\ \A i \in U : i <= Len(ms)
  BY <1>1
<1>6. Run!LastUser(ms, other) = Max(U)
  BY RunCounts DEF Run!LastUser
<1>. HIDE DEF U
<1>7. Max(U) \in U /\ \A y \in U : Max(U) >= y
  BY ONLY <1>1, <1>5, MaxOfNumbers
<1>. QED
  BY <1>2, <1>3, <1>4, <1>5, <1>6, <1>7

LEMMA QuestionIsThere ==
  ASSUME NEW ms, NEW g, NEW q, NEW s, SoundList(ms, g, q, s)
  PROVE  \E p \in DOMAIN ms : ms[p].id = q
<1>1. q \in Run!Ids(ms)
  BY DEF SoundList, WholeIds
<1>. QED
  BY <1>1 DEF Run!Ids

\* Both halves of an old pair may be missing.
LEMMA PairsAreSpare ==
  ASSUME NEW g, NEW q, RunShape(g, q), NEW ms, NEW s, SoundList(ms, g, q, s), NEW other \in SUBSET {"summary"},
         NEW i \in 1..(Run!LastUser(ms, other) - 2), Run!Pair(ms, i)
  PROVE  i \in DOMAIN ms /\ i + 1 \in DOMAIN ms /\ Spare(ms[i], q) /\ Spare(ms[i + 1], q) /\ Run!LastUser(ms, other) \in DOMAIN ms
<1>1. /\ ms \in Seq(RunMessages) /\ Len(ms) \in Nat /\ DOMAIN ms = 1..Len(ms) /\ Ascending(ms)
      /\ \A k \in DOMAIN ms : ms[k] \in RunMessages /\ ms[k].id \in Int /\ Genuine(ms[k], g, s)
  BY MessageParts DEF SoundList
<1>2. PICK p \in DOMAIN ms : ms[p].id = q
  BY QuestionIsThere
<1>3. Run!LastUser(ms, other) = p
  BY <1>2, LastUserIsTheQuestion
<1>4. p \in Nat /\ i \in Nat /\ i >= 1 /\ i + 2 <= p /\ p <= Len(ms)
  BY <1>1, <1>3
<1>5. i \in DOMAIN ms /\ i + 1 \in DOMAIN ms /\ i < p /\ i + 1 < p
  BY <1>1, <1>4
<1>6. ms[i].id # q /\ ms[i + 1].id # q
  BY <1>1, <1>2, <1>5 DEF Ascending
<1>7. /\ ms[i].role = "user" /\ ms[i].kind # "summary"
      /\ ms[i + 1].role = "assistant" /\ ms[i + 1].calls = <<>>
  BY DEF Run!Pair
<1>8. Spare(ms[i], q)
  <2>1. ms[i].calls = <<>>
    BY <1>1, <1>5, <1>7, GenuineMessages
  <2>. QED
    BY <1>6, <1>7, <2>1 DEF Spare
<1>9. Spare(ms[i + 1], q)
  <2>. DEFINE m == ms[i + 1]
  <2>1. m \in RunMessages /\ Genuine(m, g, s) /\ m.role = "assistant"
    BY <1>1, <1>5, <1>7
  <2>. HIDE DEF m
  <2>2. m.kind # "summary"
    BY <2>1, GenuineMessages
  <2>. QED
    BY <1>6, <1>7, <2>2 DEF Spare, m
<1>. QED
  BY <1>2, <1>3, <1>5, <1>8, <1>9

LEMMA OldPairsAreFew ==
  ASSUME NEW g, NEW q, RunShape(g, q), NEW ms, NEW s, SoundList(ms, g, q, s)
  PROVE  Run!OldPairs(ms) \in SUBSET Nat /\ IsFiniteSet(Run!OldPairs(ms))
<1>1. PICK p \in DOMAIN ms : ms[p].id = q
  BY QuestionIsThere
<1>2. Run!LastUser(ms, {}) = p
  BY <1>1, LastUserIsTheQuestion
<1>3. p \in Nat
  BY <1>1, MessageParts DEF SoundList
<1>4. Run!OldPairs(ms) \subseteq 1..(p - 2)
  BY <1>2 DEF Run!OldPairs
<1>5. IsFiniteSet(1..(p - 2))
  BY <1>3, FS_Interval
<1>. QED
  BY <1>3, <1>4, <1>5, FS_Subset

LEMMA DropPairIsSound ==
  ASSUME NEW g, NEW q, RunShape(g, q), NEW ms, NEW s, SoundList(ms, g, q, s)
  PROVE  SoundList(Run!DropPair(ms), g, q, s)
<1>. DEFINE i == Min(Run!OldPairs(ms))
<1>1. CASE Run!OldPairs(ms) = {}
  BY <1>1 DEF Run!DropPair
<1>2. CASE Run!OldPairs(ms) # {}
  <2>1. i \in Run!OldPairs(ms)
    BY <1>2, OldPairsAreFew, MinIsLeast
  <2>2. Run!DropPair(ms) = Run!Without(ms, {i, i + 1})
    BY <1>2, RunCounts DEF Run!DropPair
  <2>. HIDE DEF i
  <2>3. i \in 1..(Run!LastUser(ms, {}) - 2) /\ Run!Pair(ms, i)
    BY <2>1 DEF Run!OldPairs
  <2>4. i \in DOMAIN ms /\ i + 1 \in DOMAIN ms /\ Spare(ms[i], q) /\ Spare(ms[i + 1], q)
    BY <2>3, PairsAreSpare
  <2>5. {i, i + 1} \in SUBSET DOMAIN ms /\ \A k \in {i, i + 1} : Spare(ms[k], q)
    BY <2>4
  <2>. QED
    BY <2>2, <2>5, SoundWithout
<1>. QED
  BY <1>1, <1>2

\* The lists that a run may send.
SoundLists(g, q, s) == {ms \in Seq(RunMessages) : SoundList(ms, g, q, s)}

LEMMA DropPairsIsSound ==
  ASSUME NEW g, NEW q, RunShape(g, q), NEW ms, NEW s, SoundList(ms, g, q, s)
  PROVE  SoundList(Run!DropPairs(ms), g, q, s)
<1>. DEFINE n == Run!Cardinality(Run!OldPairs(ms))
            W == SoundLists(g, q, s)
            Next1(x) == IF Run!Cost(x) <= Run!Soft THEN x ELSE Run!DropPair(x)
            F == [i \in Nat |-> [x \in W |-> Next1(x)]]
            Made(p) == [i \in 0..n |-> IF i = 0 THEN ms ELSE Next1(p[i - 1])]
            r == CHOOSE p : p = Made(p)
<1>1. n \in Nat
  BY OldPairsAreFew, RunCounts, FS_CardinalityType
<1>2. ms \in W
  BY DEF SoundLists, SoundList
<1>3. ASSUME NEW x \in W PROVE Next1(x) \in W
  <2>1. SoundList(x, g, q, s)
    BY DEF SoundLists
  <2>2. SoundList(Run!DropPair(x), g, q, s)
    BY <2>1, DropPairIsSound
  <2>. QED
    BY <2>1, <2>2 DEF SoundLists, SoundList
<1>4. Run!DropPairs(ms) = r[n]
  BY DEF Run!DropPairs
<1>. HIDE DEF W, n
<1>. HIDE DEF Next1
<1>5. F \in [Nat -> [W -> W]]
  BY <1>3
<1>6. PICK f \in [0..n -> W] : Steps(f, n, ms, F)
  <2>. HIDE DEF F
  <2>. QED
    BY ONLY <1>1, <1>2, <1>5, StepsExist
<1>7. f = Made(f)
  <2>1. ASSUME NEW i \in 0..n, i # 0 PROVE f[i] = Next1(f[i - 1])
    <3>1. i \in 1..n /\ f[i - 1] \in W /\ i \in Nat
      BY <1>1, <2>1
    <3>2. F[i][f[i - 1]] = Next1(f[i - 1])
      BY <3>1
    <3>. HIDE DEF F
    <3>. QED
      BY <1>6, <3>1, <3>2 DEF Steps
  <2>2. f[0] = ms
    BY <1>6 DEF Steps
  <2>. QED
    BY <2>1, <2>2
<1>8. r = Made(r)
  BY <1>7
<1>. HIDE DEF r
<1>9. r[0] = ms /\ \A i \in 1..n : r[i] = Next1(r[i - 1])
  <2>1. 0 \in 0..n /\ \A i \in 1..n : i \in 0..n /\ i # 0
    BY <1>1
  <2>. QED
    BY <1>8, <2>1
<1>10. \A k \in 0..n : r[k] \in W
  <2>1. r[0] \in W /\ \A k \in 1..n : r[k - 1] \in W => r[k] \in W
    BY <1>2, <1>3, <1>9
  <2>. QED
    BY ONLY <1>1, <2>1, LoopStays
<1>. QED
  BY <1>1, <1>4, <1>10 DEF W, SoundLists

\* Material may be missing, whichever is the last.
MaterialOf(ms) == {i \in DOMAIN ms : ms[i].kind = "material"}

LEMMA MaterialIsSpare ==
  ASSUME NEW g, NEW q, RunShape(g, q), NEW ms, NEW s, SoundList(ms, g, q, s), MaterialOf(ms) # {}
  PROVE  SoundList(Run!Without(ms, {Max(MaterialOf(ms))}), g, q, s)
<1>. DEFINE S == MaterialOf(ms)
            i == Max(S)
<1>1. /\ ms \in Seq(RunMessages) /\ Len(ms) \in Nat /\ DOMAIN ms = 1..Len(ms)
      /\ \A k \in DOMAIN ms : ms[k] \in RunMessages /\ Genuine(ms[k], g, s)
  BY MessageParts DEF SoundList
<1>2. S \in SUBSET Nat /\ S # {} /\ \A k \in S : k <= Len(ms)
  BY <1>1 DEF MaterialOf
<1>. HIDE DEF S
<1>3. i \in S
  BY <1>1, <1>2, MaxOfNumbers
<1>. HIDE DEF i
<1>4. i \in DOMAIN ms /\ ms[i].kind = "material"
  BY <1>3 DEF S, MaterialOf
<1>5. Spare(ms[i], q)
  <2>1. ms[i].role = "user" /\ ms[i].id # q /\ ms[i].calls = <<>>
    BY <1>1, <1>4, GenuineMessages
  <2>. QED
    BY <1>4, <2>1 DEF Spare
<1>6. {i} \in SUBSET DOMAIN ms /\ \A k \in {i} : Spare(ms[k], q)
  BY <1>4, <1>5
<1>. QED
  BY <1>6, SoundWithout DEF i, S

LEMMA DropMaterialIsSound ==
  ASSUME NEW g, NEW q, RunShape(g, q), NEW ms, NEW s, SoundList(ms, g, q, s)
  PROVE  SoundList(Run!DropMaterial(ms), g, q, s)
<1>. DEFINE n == Run!Cardinality(MaterialOf(ms))
            W == SoundLists(g, q, s)
            Next1(x) == IF Run!Cost(x) <= Run!Hard \/ MaterialOf(x) = {} THEN x ELSE Run!Without(x, {Run!Max(MaterialOf(x))})
            F == [i \in Nat |-> [x \in W |-> Next1(x)]]
            Made(p) == [i \in 0..n |-> IF i = 0 THEN ms ELSE Next1(p[i - 1])]
            r == CHOOSE p : p = Made(p)
<1>1. n \in Nat
  <2>1. ms \in Seq(RunMessages) /\ Len(ms) \in Nat /\ DOMAIN ms = 1..Len(ms)
    BY MessageParts DEF SoundList
  <2>2. MaterialOf(ms) \subseteq 1..Len(ms)
    BY <2>1 DEF MaterialOf
  <2>3. IsFiniteSet(1..Len(ms))
    BY <2>1, FS_Interval
  <2>4. IsFiniteSet(MaterialOf(ms))
    BY ONLY <2>2, <2>3, FS_Subset
  <2>. QED
    BY <2>4, RunCounts, FS_CardinalityType
<1>2. ms \in W
  BY DEF SoundLists, SoundList
<1>3. ASSUME NEW x \in W PROVE Next1(x) \in W
  <2>1. SoundList(x, g, q, s)
    BY DEF SoundLists
  <2>2. MaterialOf(x) # {} => SoundList(Run!Without(x, {Run!Max(MaterialOf(x))}), g, q, s)
    BY <2>1, MaterialIsSpare, RunCounts
  <2>. QED
    BY <2>1, <2>2 DEF SoundLists, SoundList
<1>4. Run!DropMaterial(ms) = r[n]
  BY DEF Run!DropMaterial, MaterialOf
<1>. HIDE DEF W, n
<1>. HIDE DEF Next1
<1>5. F \in [Nat -> [W -> W]]
  BY <1>3
<1>6. PICK f \in [0..n -> W] : Steps(f, n, ms, F)
  <2>. HIDE DEF F
  <2>. QED
    BY ONLY <1>1, <1>2, <1>5, StepsExist
<1>7. f = Made(f)
  <2>1. ASSUME NEW i \in 0..n, i # 0 PROVE f[i] = Next1(f[i - 1])
    <3>1. i \in 1..n /\ f[i - 1] \in W /\ i \in Nat
      BY <1>1, <2>1
    <3>2. F[i][f[i - 1]] = Next1(f[i - 1])
      BY <3>1
    <3>. HIDE DEF F
    <3>. QED
      BY <1>6, <3>1, <3>2 DEF Steps
  <2>2. f[0] = ms
    BY <1>6 DEF Steps
  <2>. QED
    BY <2>1, <2>2
<1>8. r = Made(r)
  BY <1>7
<1>. HIDE DEF r
<1>9. r[0] = ms /\ \A i \in 1..n : r[i] = Next1(r[i - 1])
  <2>1. 0 \in 0..n /\ \A i \in 1..n : i \in 0..n /\ i # 0
    BY <1>1
  <2>. QED
    BY <1>8, <2>1
<1>10. \A k \in 0..n : r[k] \in W
  <2>1. r[0] \in W /\ \A k \in 1..n : r[k - 1] \in W => r[k] \in W
    BY <1>2, <1>3, <1>9
  <2>. QED
    BY ONLY <1>1, <2>1, LoopStays
<1>. QED
  BY <1>1, <1>4, <1>10 DEF W, SoundLists

\* Whatever the budget takes out.
LEMMA GuardIsSound ==
  ASSUME NEW g, NEW q, RunShape(g, q), NEW ms, NEW s, SoundList(ms, g, q, s)
  PROVE  SoundList(Run!Guard(ms), g, q, s)
<1>1. SoundList(Run!Fit(ms), g, q, s)
  BY FitIsSound
<1>2. SoundList(Run!DropPairs(Run!Fit(ms)), g, q, s)
  BY <1>1, DropPairsIsSound
<1>. QED
  BY <1>2, DropMaterialIsSound DEF Run!Guard

-----------------------------------------------------------------------------
(* Rounds: a call and its results.                                         *)

LEMMA NextPlace ==
  ASSUME NEW ms \in Seq(RunMessages), Ascending(ms), NEW i \in DOMAIN ms, NEW p \in DOMAIN ms, ms[p].id = ms[i].id + 1
  PROVE  p = i + 1
<1>1. /\ DOMAIN ms = 1..Len(ms) /\ Len(ms) \in Nat /\ i \in Nat /\ p \in Nat
      /\ \A k \in DOMAIN ms : ms[k].id \in Int
  BY MessageParts
<1>2. i < p
  <2>1. ~(p < i) /\ p # i
    BY <1>1 DEF Ascending
  <2>. QED
    BY <1>1, <2>1
<1>3. ~(i + 1 < p)
  <2>1. SUFFICES ASSUME i + 1 < p PROVE FALSE
    OBVIOUS
  <2>2. i + 1 \in DOMAIN ms
    BY <1>1, <2>1
  <2>3. ms[i].id < ms[i + 1].id /\ ms[i + 1].id < ms[p].id
    BY <1>1, <2>1, <2>2 DEF Ascending
  <2>. QED
    BY <1>1, <2>2, <2>3
<1>. QED
  BY <1>1, <1>2, <1>3

\* In a list with a call its results stand behind it.
LEMMA ResultsStandBehind ==
  ASSUME NEW g, NEW q, RunShape(g, q), Settled(g, {}), NEW ms, NEW s, SoundList(ms, g, q, s),
         NEW i \in DOMAIN ms, ms[i].calls # <<>>, NEW k \in 1..Len(ms[i].calls)
  PROVE  /\ ms[i].id \in RunTurns(g) /\ g[ms[i].id].calls = ms[i].calls
         /\ i + k \in DOMAIN ms /\ ms[i + k].id = ms[i].id + k /\ ms[i].id + k \in DOMAIN g
         /\ ms[i + k].role = "tool" /\ ms[i + k].call = k
<1>. DEFINE t == ms[i].id
<1>1. /\ ms \in Seq(RunMessages) /\ Ascending(ms) /\ Len(ms) \in Nat /\ DOMAIN ms = 1..Len(ms)
      /\ \A j \in DOMAIN ms : ms[j] \in RunMessages /\ ms[j].id \in Int /\ Genuine(ms[j], g, s)
  BY MessageParts DEF SoundList
<1>2. g \in Seq(RunMessages) /\ DOMAIN g = 1..Len(g) /\ Len(g) \in Nat
  BY MessageParts DEF RunShape
<1>3. t \in RunTurns(g) /\ g[t].calls = ms[i].calls /\ t \in DOMAIN g /\ t \in Nat
  <2>1. t \in DOMAIN g /\ SameFact(ms[i], g[t])
    BY <1>1 DEF Genuine
  <2>. QED
    BY <1>2, <2>1 DEF SameFact, RunTurns
<1>4. FactOK(g, q, t)
  BY <1>3 DEF RunShape
<1>5. Len(ms[i].calls) \in 1..2 /\ t + Len(ms[i].calls) \in DOMAIN g
  BY <1>3, <1>4 DEF FactOK, Settled, RunTurns
<1>6. ASSUME NEW j \in 1..Len(ms[i].calls)
      PROVE  t + j \in DOMAIN g /\ g[t + j].role = "tool" /\ g[t + j].call = j /\ \E p \in DOMAIN ms : ms[p].id = t + j
  <2>1. t + j \in DOMAIN g
    BY <1>2, <1>3, <1>5
  <2>2. t \in Run!Ids(ms)
    BY DEF Run!Ids
  <2>3. t + j \in Run!Ids(ms)
    BY <1>3, <2>1, <2>2 DEF SoundList, WholeIds
  <2>4. \E p \in DOMAIN ms : ms[p].id = t + j
    BY <2>3 DEF Run!Ids
  <2>. QED
    BY <1>3, <1>4, <2>1, <2>4 DEF FactOK
<1>7. i + 1 \in DOMAIN ms /\ ms[i + 1].id = t + 1
  <2>1. 1 \in 1..Len(ms[i].calls)
    BY <1>5
  <2>2. PICK p \in DOMAIN ms : ms[p].id = t + 1
    BY <1>6, <2>1
  <2>3. p = i + 1
    BY <1>1, <2>2, NextPlace
  <2>. QED
    BY <2>2, <2>3
<1>8. ASSUME k = 2 PROVE i + 2 \in DOMAIN ms /\ ms[i + 2].id = t + 2
  <2>1. PICK p \in DOMAIN ms : ms[p].id = t + 2
    BY <1>6, <1>8
  <2>2. ms[p].id = ms[i + 1].id + 1
    BY <1>3, <1>7, <2>1
  <2>3. p = (i + 1) + 1
    BY ONLY <1>1, <1>7, <2>1, <2>2, NextPlace
  <2>4. (i + 1) + 1 = i + 2
    BY <1>1
  <2>. QED
    BY <2>1, <2>3, <2>4
<1>9. i + k \in DOMAIN ms /\ ms[i + k].id = t + k
  <2>0. \A l \in 1..2 : \A x \in 1..l : x = 1 \/ x = 2
    OBVIOUS
  <2>1. k = 1 \/ k = 2
    BY <1>5, <2>0
  <2>. QED
    BY <1>7, <1>8, <2>1
<1>10. SameFact(ms[i + k], g[t + k])
  <2>1. t + k \in DOMAIN g /\ t + k \in Nat
    BY <1>2, <1>6
  <2>. QED
    BY <1>1, <1>9, <2>1 DEF Genuine
<1>. QED
  BY <1>3, <1>6, <1>9, <1>10 DEF SameFact

\* And in a list with a result its call stands before it.
LEMMA CallsStandBefore ==
  ASSUME NEW g, NEW q, RunShape(g, q), Settled(g, {}), NEW ms, NEW s, SoundList(ms, g, q, s),
         NEW j \in DOMAIN ms, ms[j].role = "tool"
  PROVE  \E i \in DOMAIN ms : ms[i].calls # <<>> /\ j \in (i + 1)..(i + Len(ms[i].calls))
<1>1. /\ ms \in Seq(RunMessages) /\ Ascending(ms) /\ Len(ms) \in Nat /\ DOMAIN ms = 1..Len(ms)
      /\ \A i \in DOMAIN ms : ms[i] \in RunMessages /\ ms[i].id \in Int /\ Genuine(ms[i], g, s)
  BY MessageParts DEF SoundList
<1>2. g \in Seq(RunMessages) /\ DOMAIN g = 1..Len(g) /\ Len(g) \in Nat
  BY MessageParts DEF RunShape
<1>3. ms[j].id \in DOMAIN g /\ g[ms[j].id].role = "tool"
  BY <1>1, GenuineMessages DEF SameFact
<1>4. PICK t \in RunTurns(g) : ms[j].id \in (t + 1)..(t + Len(g[t].calls))
  BY <1>3 DEF RunShape, FactOK
<1>5. t \in DOMAIN g /\ t \in Nat /\ g[t].calls # <<>> /\ Len(g[t].calls) \in Nat
  BY <1>2, <1>4, MessageParts DEF RunTurns
<1>. DEFINE k == ms[j].id - t
<1>6. k \in 1..Len(g[t].calls) /\ t + k = ms[j].id
  BY <1>1, <1>4, <1>5
<1>. HIDE DEF k
<1>7. t \in Run!Ids(ms)
  <2>1. ms[j].id \in Run!Ids(ms)
    BY DEF Run!Ids
  <2>2. t + k \in DOMAIN g /\ t + k \in Run!Ids(ms)
    BY <1>3, <1>6, <2>1
  <2>. QED
    BY <1>4, <1>6, <2>2 DEF SoundList, WholeIds
<1>8. PICK i \in DOMAIN ms : ms[i].id = t
  BY <1>7 DEF Run!Ids
<1>9. ms[i].calls = g[t].calls
  BY <1>1, <1>5, <1>8 DEF Genuine, SameFact
<1>10. i + k \in DOMAIN ms /\ ms[i + k].id = ms[j].id
  BY <1>5, <1>6, <1>8, <1>9, ResultsStandBehind
<1>11. i + k = j
  <2>1. i + k \in Nat /\ j \in Nat
    BY <1>1, <1>10
  <2>2. ~(i + k < j) /\ ~(j < i + k)
    BY <1>1, <1>10 DEF Ascending
  <2>. QED
    BY <2>1, <2>2
<1>12. i \in Nat
  BY <1>1
<1>. QED
  BY <1>5, <1>6, <1>9, <1>11, <1>12

\* What is summarised: rounds that are over, none of which failed or is the last one, and pairs before the question.
RoundAt(ms, i) == i..(i + Len(ms[i].calls))
OverAt(ms, q, i, c) ==
    /\ i \in DOMAIN ms
    /\ \/ /\ ms[i].calls # <<>> /\ c = RoundAt(ms, i)
          /\ \A j \in c : ms[j].kind # "failed"
          /\ \E u \in DOMAIN ms : u > i /\ ms[u].calls # <<>>
       \/ c = {i, i + 1} /\ i + 1 \in DOMAIN ms /\ Spare(ms[i], q) /\ Spare(ms[i + 1], q)
GroupsAreOver(groups, ms, q) == \A c \in groups : \E i \in DOMAIN ms : OverAt(ms, q, i, c)

LEMMA ToolGroupsAreOver ==
  ASSUME NEW g, NEW q, RunShape(g, q), Settled(g, {}), NEW ms, NEW s, SoundList(ms, g, q, s)
  PROVE  GroupsAreOver(Run!ToolGroups(ms), ms, q)
<1>. DEFINE C == {i \in DOMAIN ms : /\ ms[i].role = "assistant" /\ ms[i].calls # <<>>
                                    /\ ~\E c \in Run!Range(ms[i].calls) : c.danger
                                    /\ {ms[j].call : j \in Run!Results(ms, i)} = {c.id : c \in Run!Range(ms[i].calls)}
                                    /\ ~\E j \in Run!Results(ms, i) : ms[j].kind = "failed"}
            U == {0} \cup C
            last == Max(U)
<1>1. /\ ms \in Seq(RunMessages) /\ Len(ms) \in Nat /\ DOMAIN ms = 1..Len(ms)
      /\ \A i \in DOMAIN ms : ms[i] \in RunMessages /\ Genuine(ms[i], g, s)
  BY MessageParts DEF SoundList
<1>2. C \subseteq DOMAIN ms /\ \A i \in C : ms[i].calls # <<>> /\ ~\E j \in Run!Results(ms, i) : ms[j].kind = "failed"
  OBVIOUS
<1>3. Run!ToolGroups(ms) = {i..(i + Len(ms[i].calls)) : i \in C \ {Run!Max(U)}}
  BY DEF Run!ToolGroups
<1>. HIDE DEF C
<1>4. U \in SUBSET Nat /\ U # {} /\ \A i \in U : i <= Len(ms)
  BY <1>1, <1>2
<1>5. last \in U /\ \A y \in U : last >= y
  <2>. HIDE DEF U
  <2>. QED
    BY ONLY <1>1, <1>4, MaxOfNumbers
<1>6. Run!Max(U) = last
  BY RunCounts
<1>. HIDE DEF last
<1>7. ASSUME NEW i \in C, i # last PROVE OverAt(ms, q, i, i..(i + Len(ms[i].calls)))
  <2>1. i \in DOMAIN ms /\ ms[i].calls # <<>> /\ i \in Nat /\ last \in Nat
    BY <1>1, <1>2, <1>4, <1>5, <1>7
  <2>2. last > i /\ last \in DOMAIN ms /\ ms[last].calls # <<>>
    <3>1. last >= i
      BY <1>5
    <3>2. last > i /\ last # 0
      BY <1>1, <1>7, <2>1, <3>1
    <3>. QED
      BY <1>2, <1>5, <3>2
  <2>3. ASSUME NEW j \in i..(i + Len(ms[i].calls)) PROVE ms[j].kind # "failed"
    <3>1. CASE j = i
      <4>1. ms[i].id \in DOMAIN g /\ SameFact(ms[i], g[ms[i].id])
        BY <1>1, <2>1 DEF Genuine
      <4>2. FactOK(g, q, ms[i].id)
        BY <4>1 DEF RunShape
      <4>. QED
        BY <2>1, <3>1, <4>1, <4>2 DEF FactOK, SameFact
    <3>2. CASE j # i
      <4>. DEFINE k == j - i
      <4>1. Len(ms[i].calls) \in Nat
        BY <1>1, <2>1, MessageParts
      <4>2. k \in 1..Len(ms[i].calls) /\ i + k = j
        BY <2>1, <3>2, <4>1
      <4>. HIDE DEF k
      <4>3. j \in DOMAIN ms /\ ms[j].role = "tool"
        BY <2>1, <4>2, ResultsStandBehind
      <4>4. j \in (i + 1)..(i + Len(ms[i].calls))
        BY <2>1, <4>1, <4>2
      <4>5. j \in Run!Results(ms, i)
        BY <4>3, <4>4 DEF Run!Results
      <4>. QED
        BY <1>2, <4>5
    <3>. QED
      BY <3>1, <3>2
  <2>. QED
    BY <2>1, <2>2, <2>3 DEF OverAt, RoundAt
<1>8. ASSUME NEW c \in Run!ToolGroups(ms) PROVE \E i \in DOMAIN ms : OverAt(ms, q, i, c)
  <2>1. PICK i \in C : i # last /\ c = i..(i + Len(ms[i].calls))
    BY <1>3, <1>6
  <2>. QED
    BY <1>2, <1>7, <2>1
<1>. QED
  BY <1>8 DEF GroupsAreOver

LEMMA ConversationGroupsAreOver ==
  ASSUME NEW g, NEW q, RunShape(g, q), NEW ms, NEW s, SoundList(ms, g, q, s)
  PROVE  GroupsAreOver(Run!ConversationGroups(ms), ms, q)
<1>1. ASSUME NEW c \in Run!ConversationGroups(ms) PROVE \E i \in DOMAIN ms : OverAt(ms, q, i, c)
  <2>1. PICK i \in 1..(Run!LastUser(ms, {"summary"}) - 2) : Run!Pair(ms, i) /\ c = {i, i + 1}
    BY DEF Run!ConversationGroups
  <2>2. i \in DOMAIN ms /\ i + 1 \in DOMAIN ms /\ Spare(ms[i], q) /\ Spare(ms[i + 1], q)
    BY <2>1, PairsAreSpare
  <2>. QED
    BY <2>1, <2>2 DEF OverAt
<1>. QED
  BY <1>1 DEF GroupsAreOver

\* A group is known by where it begins.
LEMMA GroupBegins ==
  ASSUME NEW g, NEW q, RunShape(g, q), Settled(g, {}), NEW ms, NEW s, SoundList(ms, g, q, s),
         NEW i \in DOMAIN ms, NEW c, OverAt(ms, q, i, c)
  PROVE  c \in SUBSET DOMAIN ms /\ i \in c /\ Min(c) = i /\ Max(c) \in DOMAIN ms /\ Max(c) >= i
<1>1. ms \in Seq(RunMessages) /\ Len(ms) \in Nat /\ DOMAIN ms = 1..Len(ms) /\ i \in Nat /\ Len(ms[i].calls) \in Nat
  BY MessageParts DEF SoundList
<1>2. c \in SUBSET DOMAIN ms /\ i \in c /\ \A j \in c : i <= j
  <2>1. CASE ms[i].calls # <<>> /\ c = RoundAt(ms, i)
    <3>1. ASSUME NEW j \in c PROVE j \in DOMAIN ms
      <4>. DEFINE k == j - i
      <4>1. CASE j = i
        BY <4>1
      <4>2. CASE j # i
        <5>1. k \in 1..Len(ms[i].calls) /\ i + k = j
          BY <1>1, <2>1, <4>2 DEF RoundAt
        <5>. HIDE DEF k
        <5>. QED
          BY <2>1, <5>1, ResultsStandBehind
      <4>. QED
        BY <4>1, <4>2
    <3>2. i \in c /\ \A j \in c : i <= j
      BY <1>1, <2>1 DEF RoundAt
    <3>. QED
      BY <3>1, <3>2
  <2>2. CASE c = {i, i + 1} /\ i + 1 \in DOMAIN ms
    BY <1>1, <2>2
  <2>. QED
    BY <2>1, <2>2 DEF OverAt
<1>3. c \in SUBSET Nat /\ c # {} /\ \A j \in c : j <= Len(ms)
  BY <1>1, <1>2
<1>4. Min(c) \in c /\ \A y \in c : Min(c) <= y
  BY ONLY <1>3, MinIsLeast
<1>5. Max(c) \in c /\ \A y \in c : Max(c) >= y
  BY ONLY <1>1, <1>3, MaxOfNumbers
<1>6. Min(c) = i
  BY <1>1, <1>2, <1>3, <1>4
<1>. QED
  BY <1>2, <1>5, <1>6

LEMMA GroupsBeginApart ==
  ASSUME NEW ms, NEW q, NEW i \in DOMAIN ms, NEW c, NEW d, OverAt(ms, q, i, c), OverAt(ms, q, i, d)
  PROVE  c = d
BY DEF OverAt, Spare

LEMMA GroupsAreOrdered ==
  ASSUME NEW g, NEW q, RunShape(g, q), Settled(g, {}), NEW ms, NEW s, SoundList(ms, g, q, s),
         NEW groups, GroupsAreOver(groups, ms, q), NEW R, R = {p \in groups \X groups : Min(p[1]) < Min(p[2])}
  PROVE  IsFiniteSet(groups) /\ Orders(R, groups)
<1>1. ms \in Seq(RunMessages) /\ Len(ms) \in Nat /\ DOMAIN ms = 1..Len(ms)
  BY MessageParts DEF SoundList
<1>2. ASSUME NEW c \in groups PROVE c \in SUBSET DOMAIN ms /\ Min(c) \in DOMAIN ms /\ OverAt(ms, q, Min(c), c)
  <2>1. PICK i \in DOMAIN ms : OverAt(ms, q, i, c)
    BY DEF GroupsAreOver
  <2>2. c \in SUBSET DOMAIN ms /\ Min(c) = i
    BY <2>1, GroupBegins
  <2>. QED
    BY <2>1, <2>2
<1>3. IsFiniteSet(groups)
  <2>1. IsFiniteSet(DOMAIN ms)
    BY <1>1, FS_Interval
  <2>2. IsFiniteSet(SUBSET DOMAIN ms)
    BY <2>1, FS_SUBSET
  <2>3. groups \in SUBSET (SUBSET DOMAIN ms)
    BY <1>2
  <2>. QED
    BY ONLY <2>2, <2>3, FS_Subset
<1>4. \A c \in groups : Min(c) \in Nat
  BY <1>1, <1>2
<1>5. ASSUME NEW c \in groups, NEW d \in groups, Min(c) = Min(d) PROVE c = d
  BY <1>2, <1>5, GroupsBeginApart
<1>6. \A x, y : <<x, y>> \in R <=> x \in groups /\ y \in groups /\ Min(x) < Min(y)
  OBVIOUS
<1>7. \A x \in groups : <<x, x>> \notin R
  BY <1>4, <1>6
<1>8. \A x, y, z \in groups : <<x, y>> \in R /\ <<y, z>> \in R => <<x, z>> \in R
  BY <1>4, <1>6
<1>9. \A x, y \in groups : x # y => <<x, y>> \in R \/ <<y, x>> \in R
  BY <1>4, <1>5, <1>6
<1>. QED
  BY <1>3, <1>7, <1>8, <1>9 DEF Orders

\* The state of the loop that takes groups, and one step of it.
Takings(groups, places) == {b \in [members : SUBSET places, used : Nat] : \E G \in SUBSET groups : b.members = UNION G}
TakeStep(ms, b, c) ==
    LET next == b.used + Run!Cost(SubSeq(ms, Min(c), Max(c)))
    IN  IF next <= SummaryInput THEN [members |-> b.members \cup c, used |-> next] ELSE b

LEMMA TakingsStay ==
  ASSUME NEW ms \in Seq(RunMessages), NEW groups, NEW c \in groups, c \in SUBSET DOMAIN ms,
         Min(c) \in DOMAIN ms, Max(c) \in DOMAIN ms, Max(c) >= Min(c), NEW b \in Takings(groups, DOMAIN ms)
  PROVE  TakeStep(ms, b, c) \in Takings(groups, DOMAIN ms)
<1>. DEFINE part1 == SubSeq(ms, Min(c), Max(c))
            new == [members |-> b.members \cup c, used |-> b.used + Run!Cost(part1)]
<1>1. Len(ms) \in Nat /\ DOMAIN ms = 1..Len(ms)
  BY MessageParts
<1>2. part1 \in Seq(RunMessages)
  <2>. DEFINE a == Min(c) - 1
              e == Max(c)
  <2>1. e \in 0..Len(ms) /\ a \in 0..e /\ a + 1 = Min(c)
    BY <1>1
  <2>2. SubSeq(ms, a + 1, e) \in Seq(RunMessages)
    <3>. HIDE DEF a, e
    <3>. QED
      BY <2>1, Sliced
  <2>. QED
    BY <2>1, <2>2
<1>. HIDE DEF part1
<1>3. Run!Cost(part1) \in Nat
  BY <1>2, MessagesCost
<1>4. b.members \in SUBSET DOMAIN ms /\ b.used \in Nat /\ \E G \in SUBSET groups : b.members = UNION G
  BY DEF Takings
<1>5. PICK G \in SUBSET groups : b.members = UNION G
  BY <1>4
<1>6. b.members \cup c = UNION (G \cup {c}) /\ G \cup {c} \in SUBSET groups
  BY <1>5
<1>7. new.members = b.members \cup c /\ new \in [members : SUBSET DOMAIN ms, used : Nat]
  BY <1>3, <1>4
<1>8. new \in Takings(groups, DOMAIN ms)
  <2>. HIDE DEF new
  <2>. QED
    BY <1>6, <1>7 DEF Takings
<1>9. TakeStep(ms, b, c) = new \/ TakeStep(ms, b, c) = b
  BY DEF TakeStep, part1
<1>. QED
  BY <1>8, <1>9

\* What is taken is made of whole groups.
LEMMA TakenIsWhole ==
  ASSUME NEW g, NEW q, RunShape(g, q), Settled(g, {}), NEW ms, NEW s, SoundList(ms, g, q, s),
         NEW groups, GroupsAreOver(groups, ms, q)
  PROVE  Run!Taken(ms, groups) \in SUBSET DOMAIN ms /\ \E G \in SUBSET groups : Run!Taken(ms, groups) = UNION G
<1>. DEFINE R == {p \in groups \X groups : Min(p[1]) < Min(p[2])}
            order == Run!Ranked(groups, R)
            n == Run!Cardinality(groups)
            W == Takings(groups, DOMAIN ms)
            base == [members |-> {}, used |-> 2]
            F == [i \in Nat |-> [b \in W |-> IF i \in 1..n THEN TakeStep(ms, b, order[i]) ELSE b]]
            Made(p) == [i \in 0..n |-> IF i = 0 THEN base ELSE TakeStep(ms, p[i - 1], order[i])]
            r == CHOOSE p : p = Made(p)
<1>1. ms \in Seq(RunMessages)
  BY DEF SoundList
<1>2. IsFiniteSet(groups) /\ Orders(R, groups)
  <2>. HIDE DEF R
  <2>1. R = {p \in groups \X groups : Min(p[1]) < Min(p[2])}
    BY DEF R
  <2>. QED
    BY <2>1, GroupsAreOrdered
<1>3. Run!Taken(ms, groups) = r[n].members
  BY DEF Run!Taken, TakeStep, Run!Min, Min, Run!Max, Max
<1>. HIDE DEF R
<1>4. n \in Nat /\ \A i \in 1..n : order[i] \in groups
  <2>1. order \in Seq(groups) /\ Len(order) = n
    BY <1>2, RankedInOrder, RunCounts
  <2>2. n \in Nat
    BY <1>2, FS_CardinalityType, RunCounts
  <2>. HIDE DEF order, n
  <2>. QED
    BY <2>1, <2>2
<1>. HIDE DEF order, n
<1>5. ASSUME NEW c \in groups, NEW b \in W PROVE TakeStep(ms, b, c) \in W
  <2>1. PICK i \in DOMAIN ms : OverAt(ms, q, i, c)
    BY DEF GroupsAreOver
  <2>2. c \in SUBSET DOMAIN ms /\ Min(c) = i /\ Max(c) \in DOMAIN ms /\ Max(c) >= i
    BY <2>1, GroupBegins
  <2>. QED
    BY <1>1, <2>1, <2>2, TakingsStay
<1>6. base \in W
  <2>1. base \in [members : SUBSET DOMAIN ms, used : Nat] /\ base.members = UNION {} /\ {} \in SUBSET groups
    OBVIOUS
  <2>. HIDE DEF base
  <2>. QED
    BY <2>1 DEF Takings
<1>. HIDE DEF W, base
<1>7. F \in [Nat -> [W -> W]]
  BY <1>4, <1>5
<1>8. PICK f \in [0..n -> W] : Steps(f, n, base, F)
  <2>. HIDE DEF F
  <2>. QED
    BY ONLY <1>4, <1>6, <1>7, StepsExist
<1>9. f = Made(f)
  <2>1. ASSUME NEW i \in 0..n, i # 0 PROVE f[i] = TakeStep(ms, f[i - 1], order[i])
    <3>1. i \in 1..n /\ f[i - 1] \in W /\ i \in Nat
      BY <1>4, <2>1
    <3>2. F[i][f[i - 1]] = TakeStep(ms, f[i - 1], order[i])
      BY <3>1
    <3>. HIDE DEF F
    <3>. QED
      BY <1>8, <3>1, <3>2 DEF Steps
  <2>2. f[0] = base
    BY <1>8 DEF Steps
  <2>. QED
    BY <2>1, <2>2
<1>10. r = Made(r)
  BY <1>9
<1>. HIDE DEF r
<1>11. r[0] = base /\ \A i \in 1..n : r[i] = TakeStep(ms, r[i - 1], order[i])
  <2>1. 0 \in 0..n /\ \A i \in 1..n : i \in 0..n /\ i # 0
    BY <1>4
  <2>. QED
    BY <1>10, <2>1
<1>12. \A k \in 0..n : r[k] \in W
  <2>1. r[0] \in W /\ \A k \in 1..n : r[k - 1] \in W => r[k] \in W
    BY <1>4, <1>5, <1>6, <1>11
  <2>. QED
    BY ONLY <1>4, <2>1, LoopStays
<1>13. r[n] \in W
  BY <1>4, <1>12
<1>. QED
  BY <1>3, <1>13 DEF W, Takings

\* Rounds do not overlap.
LEMMA RoundsAreApart ==
  ASSUME NEW g, NEW q, RunShape(g, q), NEW t \in RunTurns(g), NEW u \in RunTurns(g),
         NEW k \in 1..Len(g[t].calls), t + k \in DOMAIN g
  PROVE  u # t + k /\ \A j \in 1..Len(g[u].calls) : t + k = u + j => t = u
<1>1. g \in Seq(RunMessages) /\ DOMAIN g = 1..Len(g) /\ Len(g) \in Nat
  BY MessageParts DEF RunShape
<1>2. t \in Nat /\ u \in Nat /\ t \in DOMAIN g /\ u \in DOMAIN g /\ g[u].calls # <<>> /\ g[t].calls # <<>>
  BY <1>1 DEF RunTurns
<1>3. Len(g[t].calls) \in Nat /\ Len(g[u].calls) \in Nat
  BY <1>1, <1>2, MessageParts
<1>4. FactOK(g, q, t) /\ FactOK(g, q, u)
  BY <1>2 DEF RunShape
<1>5. g[t].role = "assistant" /\ g[u].role = "assistant"
  BY <1>2, <1>4 DEF FactOK
<1>6. \A j \in 1..Len(g[t].calls) : t + j \in DOMAIN g => g[t + j].role = "tool"
  BY <1>4 DEF FactOK
<1>7. \A j \in 1..Len(g[u].calls) : u + j \in DOMAIN g => g[u + j].role = "tool"
  BY <1>4 DEF FactOK
<1>8. u # t + k
  BY <1>5, <1>6
<1>9. ASSUME NEW j \in 1..Len(g[u].calls), t + k = u + j PROVE t = u
  <2>1. CASE t < u
    <3>. DEFINE x == u - t
    <3>1. x \in 1..Len(g[t].calls) /\ t + x = u
      BY <1>2, <1>3, <1>9, <2>1
    <3>. HIDE DEF x
    <3>. QED
      BY <1>2, <1>5, <1>6, <3>1
  <2>2. CASE u < t
    <3>. DEFINE x == t - u
    <3>1. x \in 1..Len(g[u].calls) /\ u + x = t
      BY <1>2, <1>3, <1>9, <2>2
    <3>. HIDE DEF x
    <3>. QED
      BY <1>2, <1>5, <1>7, <3>1
  <2>. QED
    BY <1>2, <2>1, <2>2
<1>. QED
  BY <1>8, <1>9

\* Ids whose messages may go when a summary tells of them.
MayBeCovered(D, g, q) ==
    /\ D \subseteq DOMAIN g /\ q \notin D
    /\ \A d \in D : g[d].kind # "failed"
    /\ \A t \in RunTurns(g) : (\A u \in RunTurns(g) : u <= t) => \A d \in D : d < t
    /\ \A t \in RunTurns(g) : \A k \in 1..Len(g[t].calls) : t + k \in DOMAIN g => (t \in D <=> t + k \in D)

\* Where the message with the id d stands: in the group c, which begins at i, at p.
PlacedAt(d, c, i, p, ms, g, q) ==
    /\ OverAt(ms, q, i, c) /\ p \in DOMAIN ms /\ d = ms[p].id
    /\ d \in DOMAIN g /\ SameFact(ms[p], g[d])
    /\ \/ Spare(ms[p], q)
       \/ /\ ms[i].calls # <<>> /\ c = RoundAt(ms, i)
          /\ p = i \/ (ms[p].role = "tool" /\ \E k \in 1..Len(ms[i].calls) : p = i + k)

LEMMA CoveredArePlaced ==
  ASSUME NEW g, NEW q, RunShape(g, q), Settled(g, {}), NEW ms, NEW s, SoundList(ms, g, q, s),
         NEW G, GroupsAreOver(G, ms, q), NEW d \in {ms[i].id : i \in UNION G}
  PROVE  \E c \in G : \E i \in DOMAIN ms : \E p \in c : PlacedAt(d, c, i, p, ms, g, q)
<1>0. /\ ms \in Seq(RunMessages) /\ Ascending(ms) /\ Len(ms) \in Nat /\ DOMAIN ms = 1..Len(ms)
      /\ \A i \in DOMAIN ms : ms[i] \in RunMessages /\ ms[i].id \in Int /\ Genuine(ms[i], g, s) /\ Len(ms[i].calls) \in Nat
  BY MessageParts DEF SoundList
<1>1. PICK c \in G : \E p \in c : d = ms[p].id
  OBVIOUS
<1>2. PICK p \in c : d = ms[p].id
  BY <1>1
<1>3. PICK i \in DOMAIN ms : OverAt(ms, q, i, c)
  BY DEF GroupsAreOver
<1>4. p \in DOMAIN ms
  BY <1>3, GroupBegins
<1>5. \/ Spare(ms[p], q)
      \/ /\ ms[i].calls # <<>> /\ c = RoundAt(ms, i)
         /\ p = i \/ (ms[p].role = "tool" /\ \E k \in 1..Len(ms[i].calls) : p = i + k)
  <2>1. CASE ms[i].calls # <<>> /\ c = RoundAt(ms, i)
    <3>. DEFINE k == p - i
    <3>1. CASE p # i
      <4>1. k \in 1..Len(ms[i].calls) /\ p = i + k
        BY <1>0, <2>1, <3>1 DEF RoundAt
      <4>. HIDE DEF k
      <4>2. ms[p].role = "tool"
        BY <2>1, <4>1, ResultsStandBehind
      <4>. QED
        BY <2>1, <4>1, <4>2
    <3>. QED
      BY <2>1, <3>1
  <2>2. CASE c = {i, i + 1} /\ Spare(ms[i], q) /\ Spare(ms[i + 1], q)
    BY <2>2
  <2>. QED
    BY <1>3, <2>1, <2>2 DEF OverAt
<1>6. d \in DOMAIN g /\ SameFact(ms[p], g[d])
  <2>1. CASE ms[p].kind # "summary"
    BY <1>0, <1>2, <1>4, <2>1, GenuineMessages
  <2>2. CASE ms[p].role = "tool"
    BY <1>0, <1>2, <1>4, <2>2, GenuineMessages
  <2>3. CASE ms[p].calls # <<>>
    BY <1>0, <1>2, <1>4, <2>3 DEF Genuine
  <2>. QED
    BY <1>5, <2>1, <2>2, <2>3 DEF Spare
<1>. QED
  BY <1>2, <1>3, <1>4, <1>5, <1>6 DEF PlacedAt

LEMMA OverMayBeCovered ==
  ASSUME NEW g, NEW q, RunShape(g, q), Settled(g, {}), NEW ms, NEW s, SoundList(ms, g, q, s),
         NEW G, GroupsAreOver(G, ms, q), NEW D, D = {ms[i].id : i \in UNION G}
  PROVE  MayBeCovered(D, g, q)
<1>1. /\ ms \in Seq(RunMessages) /\ Ascending(ms) /\ Len(ms) \in Nat /\ DOMAIN ms = 1..Len(ms)
      /\ \A i \in DOMAIN ms : ms[i] \in RunMessages /\ ms[i].id \in Int /\ Genuine(ms[i], g, s) /\ Len(ms[i].calls) \in Nat
  BY MessageParts DEF SoundList
<1>2. g \in Seq(RunMessages) /\ DOMAIN g = 1..Len(g) /\ Len(g) \in Nat /\ q \in Nat
  BY MessageParts DEF RunShape
<1>3. ASSUME NEW d \in D PROVE \E c \in G : \E i \in DOMAIN ms : \E p \in c : PlacedAt(d, c, i, p, ms, g, q)
  BY CoveredArePlaced
<1>4. D \subseteq DOMAIN g
  BY <1>3 DEF PlacedAt
<1>5. ASSUME NEW d \in D PROVE d # q /\ g[d].kind # "failed"
  <2>1. PICK c \in G : \E i \in DOMAIN ms : \E p \in c : PlacedAt(d, c, i, p, ms, g, q)
    BY <1>3
  <2>2. PICK i \in DOMAIN ms : \E p \in c : PlacedAt(d, c, i, p, ms, g, q)
    BY <2>1
  <2>3. PICK p \in c : PlacedAt(d, c, i, p, ms, g, q)
    BY <2>2
  <2>4. FactOK(g, q, d) /\ p \in DOMAIN ms /\ d = ms[p].id /\ SameFact(ms[p], g[d])
    BY <2>3 DEF RunShape, PlacedAt
  <2>5. CASE Spare(ms[p], q)
    BY <2>4, <2>5 DEF Spare, SameFact, FactOK
  <2>6. CASE ms[i].calls # <<>> /\ c = RoundAt(ms, i) /\ (p = i \/ ms[p].role = "tool")
    <3>1. d # q
      <4>1. ms[p].calls # <<>> \/ ms[p].role = "tool"
        BY <2>6
      <4>. QED
        BY <1>1, <2>4, <4>1, GenuineMessages
    <3>2. \A j \in c : ms[j].kind # "failed"
      BY <2>3, <2>6 DEF PlacedAt, OverAt, Spare
    <3>. QED
      BY <2>4, <3>1, <3>2 DEF SameFact
  <2>. QED
    BY <2>3, <2>5, <2>6 DEF PlacedAt
\* The last call is in none of the groups, and all of them are before it.
<1>6. ASSUME NEW t \in RunTurns(g), \A u \in RunTurns(g) : u <= t, NEW d \in D PROVE d < t
  <2>1. PICK c \in G : \E i \in DOMAIN ms : \E p \in c : PlacedAt(d, c, i, p, ms, g, q)
    BY <1>3
  <2>2. PICK i \in DOMAIN ms : \E p \in c : PlacedAt(d, c, i, p, ms, g, q)
    BY <2>1
  <2>3. PICK p \in c : PlacedAt(d, c, i, p, ms, g, q)
    BY <2>2
  <2>4. FactOK(g, q, d) /\ p \in DOMAIN ms /\ d = ms[p].id /\ SameFact(ms[p], g[d]) /\ d \in Nat /\ OverAt(ms, q, i, c)
    BY <1>2, <2>3 DEF RunShape, PlacedAt
  <2>5. t \in Nat /\ t > q /\ q \in Nat
    BY BehindTheQuestion
  <2>6. CASE Spare(ms[p], q)
    <3>1. ~(d > q)
      BY <2>4, <2>6 DEF Spare, SameFact, FactOK
    <3>. QED
      BY <2>4, <2>5, <3>1
  <2>7. CASE ms[i].calls # <<>> /\ (p = i \/ \E k \in 1..Len(ms[i].calls) : p = i + k)
    <3>. DEFINE u == ms[i].id
    <3>1. u \in RunTurns(g) /\ u \in DOMAIN g /\ u \in Nat /\ g[u].calls = ms[i].calls
      BY <1>1, <1>2, <2>7 DEF Genuine, SameFact, RunTurns
    <3>2. u < t
      <4>1. PICK v \in DOMAIN ms : v > i /\ ms[v].calls # <<>>
        BY <2>4, <2>7 DEF OverAt, Spare
      <4>2. ms[v].id \in RunTurns(g) /\ ms[v].id > u
        BY <1>1, <4>1 DEF Genuine, SameFact, RunTurns, Ascending
      <4>3. ms[v].id <= t /\ ms[v].id \in Int
        BY <1>1, <1>6, <4>2
      <4>. QED
        BY <2>5, <3>1, <4>2, <4>3
    <3>3. ASSUME NEW k \in 1..Len(ms[i].calls), p = i + k PROVE d < t
      <4>1. d = u + k /\ u + k \in DOMAIN g
        BY <2>4, <2>7, <3>3, ResultsStandBehind
      <4>2. k \in 1..Len(g[u].calls) /\ k \in Nat
        BY <1>1, <3>1
      <4>3. t # u + k
        BY <3>1, <4>1, <4>2, RoundsAreApart
      <4>4. ~(t < u + k)
        <5>1. SUFFICES ASSUME t < u + k PROVE FALSE
          OBVIOUS
        <5>. DEFINE x == t - u
        <5>2. x \in 1..Len(g[u].calls) /\ u + x = t
          BY <1>1, <2>5, <3>1, <3>2, <4>2, <5>1
        <5>. HIDE DEF x, u
        <5>3. u + x \in DOMAIN g
          BY <5>2 DEF RunTurns
        <5>. QED
          BY <3>1, <5>2, <5>3, RoundsAreApart
      <4>. QED
        BY <2>5, <3>1, <4>1, <4>2, <4>3, <4>4
    <3>. QED
      BY <2>4, <2>7, <3>2, <3>3
  <2>. QED
    BY <2>3, <2>6, <2>7 DEF PlacedAt
\* With a call go its results, and with a result its call.
<1>7. ASSUME NEW t \in RunTurns(g), NEW k \in 1..Len(g[t].calls), t + k \in DOMAIN g PROVE t \in D <=> t + k \in D
  <2>0. t \in DOMAIN g /\ g[t].calls # <<>> /\ FactOK(g, q, t) /\ FactOK(g, q, t + k) /\ g[t + k].role = "tool"
    BY <1>7 DEF RunShape, RunTurns, FactOK
  <2>1. ASSUME t \in D PROVE t + k \in D
    <3>1. PICK c \in G : \E i \in DOMAIN ms : \E p \in c : PlacedAt(t, c, i, p, ms, g, q)
      BY <1>3, <2>1
    <3>2. PICK i \in DOMAIN ms : \E p \in c : PlacedAt(t, c, i, p, ms, g, q)
      BY <3>1
    <3>3. PICK p \in c : PlacedAt(t, c, i, p, ms, g, q)
      BY <3>2
    <3>4. ms[p].calls = g[t].calls /\ ms[p].role = "assistant"
      BY <2>0, <3>3 DEF PlacedAt, SameFact, FactOK
    <3>5. p = i /\ c = RoundAt(ms, i) /\ ms[i].id = t /\ ms[i].calls = g[t].calls
      BY <2>0, <3>3, <3>4 DEF PlacedAt, Spare
    <3>6. ms[i + k].id = t + k
      BY <2>0, <3>5, ResultsStandBehind
    <3>7. i + k \in c
      <4>1. i \in Nat /\ Len(ms[i].calls) \in Nat
        BY <1>1
      <4>2. k \in 1..Len(ms[i].calls)
        BY <3>5
      <4>. QED
        BY <3>5, <4>1, <4>2 DEF RoundAt
    <3>. QED
      BY <3>6, <3>7
  <2>2. ASSUME t + k \in D PROVE t \in D
    <3>1. PICK c \in G : \E i \in DOMAIN ms : \E p \in c : PlacedAt(t + k, c, i, p, ms, g, q)
      BY <1>3, <2>2
    <3>2. PICK i \in DOMAIN ms : \E p \in c : PlacedAt(t + k, c, i, p, ms, g, q)
      BY <3>1
    <3>3. PICK p \in c : PlacedAt(t + k, c, i, p, ms, g, q)
      BY <3>2
    <3>4. ms[p].role = "tool" /\ ms[p].calls = <<>> /\ ms[p].id = t + k
      BY <2>0, <3>3 DEF PlacedAt, SameFact, FactOK
    <3>5. c = RoundAt(ms, i) /\ ms[i].calls # <<>> /\ \E j \in 1..Len(ms[i].calls) : p = i + j
      BY <3>3, <3>4 DEF PlacedAt, Spare
    <3>6. PICK j \in 1..Len(ms[i].calls) : p = i + j
      BY <3>5
    <3>7. ms[i].id \in RunTurns(g) /\ g[ms[i].id].calls = ms[i].calls /\ ms[p].id = ms[i].id + j
      BY <3>5, <3>6, ResultsStandBehind
    <3>8. ms[i].id = t
      BY <1>7, <3>4, <3>6, <3>7, RoundsAreApart
    <3>9. i \in c
      <4>1. i \in Nat /\ Len(ms[i].calls) \in Nat
        BY <1>1
      <4>. QED
        BY <3>5, <4>1 DEF RoundAt
    <3>. QED
      BY <3>8, <3>9
  <2>. QED
    BY <2>1, <2>2
<1>8. q \notin D /\ \A d \in D : g[d].kind # "failed"
  BY <1>5
<1>9. \A t \in RunTurns(g) : (\A u \in RunTurns(g) : u <= t) => \A d \in D : d < t
  BY <1>6
<1>10. \A t \in RunTurns(g) : \A k \in 1..Len(g[t].calls) : t + k \in DOMAIN g => (t \in D <=> t + k \in D)
  BY <1>7
<1>. QED
  BY <1>4, <1>8, <1>9, <1>10 DEF MayBeCovered

\* What the summary tells of may go, and the summary before it.
LEMMA CoveredMayGo ==
  ASSUME NEW g, NEW q, RunShape(g, q), NEW K, NEW s, WholeIds(K, g, q, s), NEW D, MayBeCovered(D, g, q),
         NEW L, \A x \in DOMAIN g : x \in L <=> x \in K /\ x \notin D,
         NEW s2, s2.covered = s.covered \cup D, s2.summary \in L, s2.summary < 0,
         \A i \in DOMAIN g : g[i].kind = "ref" => i \in s2.refs
  PROVE  WholeIds(L, g, q, s2)
<1>1. \A t \in RunTurns(g) : t \in DOMAIN g
  BY DEF RunTurns
<1>2. q \in L /\ \A i \in DOMAIN g : g[i].kind = "failed" => i \in L
  BY DEF WholeIds, MayBeCovered, RunShape
<1>3. ASSUME NEW t \in RunTurns(g), \A u \in RunTurns(g) : u <= t, NEW i \in DOMAIN g, i >= t PROVE i \in L
  <2>1. i \in K
    BY <1>3 DEF WholeIds
  <2>2. i \notin D
    <3>1. i \in Nat /\ t \in Nat
      BY <1>1, MessageParts DEF RunShape
    <3>2. i \in D => i < t
      BY <1>3 DEF MayBeCovered
    <3>. QED
      BY <1>3, <3>1, <3>2
  <2>. QED
    BY <2>1, <2>2
<1>4. \A t \in RunTurns(g) : \A k \in 1..Len(g[t].calls) : t + k \in DOMAIN g => (t \in L <=> t + k \in L)
  BY <1>1 DEF WholeIds, MayBeCovered
<1>5. \A i \in DOMAIN g : g[i].role = "tool" => i \in L \cup s2.covered
  BY DEF WholeIds
<1>. QED
  BY <1>2, <1>3, <1>4, <1>5 DEF WholeIds

\* The references of a list.
LEMMA RefsAreKnown ==
  ASSUME NEW g, NEW q, RunShape(g, q), NEW ms, NEW s, SoundList(ms, g, q, s)
  PROVE  /\ \A i \in DOMAIN g : g[i].kind = "ref" => i \in s.refs \cup Run!RefsOf(ms)
         /\ Run!RefsOf(ms) \subseteq Run!RefsOf(g) /\ IsFiniteSet(Run!RefsOf(ms))
<1>1. /\ ms \in Seq(RunMessages) /\ Len(ms) \in Nat /\ DOMAIN ms = 1..Len(ms)
      /\ \A i \in DOMAIN ms : ms[i] \in RunMessages /\ Genuine(ms[i], g, s)
  BY MessageParts DEF SoundList
<1>2. g \in Seq(RunMessages) /\ DOMAIN g = 1..Len(g) /\ Len(g) \in Nat
  BY MessageParts DEF RunShape
<1>3. ASSUME NEW i \in DOMAIN g, g[i].kind = "ref" PROVE i \in s.refs \cup Run!RefsOf(ms)
  <2>1. CASE i \in Run!Ids(ms)
    <3>1. PICK p \in DOMAIN ms : ms[p].id = i
      BY <2>1 DEF Run!Ids
    <3>2. i \in Nat
      BY <1>2
    <3>3. ms[p].kind = "ref"
      BY <1>1, <1>3, <3>1, <3>2 DEF Genuine, SameFact
    <3>. QED
      BY <3>1, <3>3 DEF Run!RefsOf
  <2>2. CASE i \notin Run!Ids(ms)
    BY <1>3, <2>2 DEF SoundList, WholeIds
  <2>. QED
    BY <2>1, <2>2
<1>4. ASSUME NEW x \in Run!RefsOf(ms) PROVE x \in Run!RefsOf(g) /\ x \in 1..Len(g)
  <2>1. PICK p \in DOMAIN ms : ms[p].kind = "ref" /\ x = ms[p].id
    BY DEF Run!RefsOf
  <2>2. x \in DOMAIN g /\ SameFact(ms[p], g[x])
    BY <1>1, <2>1 DEF Genuine
  <2>3. g[x].kind = "ref" /\ g[x].id = x
    BY <2>1, <2>2 DEF SameFact
  <2>. QED
    BY <1>2, <2>2, <2>3 DEF Run!RefsOf
<1>5. IsFiniteSet(Run!RefsOf(ms))
  <2>1. IsFiniteSet(1..Len(g))
    BY <1>2, FS_Interval
  <2>2. Run!RefsOf(ms) \subseteq 1..Len(g)
    BY <1>4
  <2>. QED
    BY ONLY <2>1, <2>2, FS_Subset
<1>. QED
  BY <1>3, <1>4, <1>5

LEMMA SummarisedListIsSound ==
  ASSUME NEW g, NEW q, RunShape(g, q), NEW ms, SoundList(ms, g, q, snap), NEW covered \in SUBSET DOMAIN ms,
         NEW D, D = {ms[i].id : i \in covered}, MayBeCovered(D, g, q),
         NEW id \in Int, id < 0, NEW refs, IsFiniteSet(refs), refs = snap.refs \cup Run!RefsOf(ms),
         NEW s2, s2.covered = snap.covered \cup D, s2.summary = id, s2.refs = refs
  PROVE  SoundList(Run!Summarised(ms, covered, refs, id), g, q, s2)
<1>. DEFINE old == {i \in DOMAIN ms : i = 1 /\ ms[i].kind = "summary" /\ ms[i].id = snap.summary}
            gone == covered \cup old
            r == Run!Without(ms, gone)
            first == [Run!Message(id, "user", "summary", 1, <<>>, 0) EXCEPT !.shown = 1 + Run!Cardinality(refs)]
            new == <<first>> \o r
<1>1. /\ ms \in Seq(RunMessages) /\ Ascending(ms) /\ Len(ms) \in Nat /\ DOMAIN ms = 1..Len(ms)
      /\ \A i \in DOMAIN ms : ms[i] \in RunMessages /\ ms[i].id \in Int /\ Genuine(ms[i], g, snap)
  BY MessageParts DEF SoundList
<1>2. g \in Seq(RunMessages) /\ DOMAIN g = 1..Len(g) /\ Len(g) \in Nat /\ q \in DOMAIN g
  BY MessageParts DEF RunShape
<1>3. first \in RunMessages /\ first.id = id /\ first.kind = "summary" /\ first.role = "user" /\ first.calls = <<>>
  <2>1. 1 + Run!Cardinality(refs) \in Nat
    BY RunCounts, FS_CardinalityType
  <2>. DEFINE v == 1 + Run!Cardinality(refs)
              m == Run!Message(id, "user", "summary", 1, <<>>, 0)
  <2>2. m \in RunMessages /\ m.id = id /\ m.kind = "summary" /\ m.role = "user" /\ m.calls = <<>>
    BY DEF Run!Message, RunMessages, RunRoles, RunKinds
  <2>. HIDE DEF v, m
  <2>3. [m EXCEPT !.shown = v] \in RunMessages /\ SameFact([m EXCEPT !.shown = v], m)
    BY <2>1, <2>2, ShownChanged DEF v
  <2>. QED
    BY <2>2, <2>3 DEF SameFact, v, m
<1>4. Run!Summarised(ms, covered, refs, id) = new
  BY DEF Run!Summarised
<1>. HIDE DEF first
<1>5. ASSUME NEW i \in DOMAIN ms, i \notin old PROVE ms[i].id \in DOMAIN g /\ SameFact(ms[i], g[ms[i].id])
  <2>1. SUFFICES ASSUME ms[i].id = snap.summary, ms[i].id < 0, ms[i].kind = "summary" PROVE FALSE
    BY <1>1 DEF Genuine
  <2>2. i # 1 /\ i \in Nat /\ 1 \in DOMAIN ms /\ 1 < i
    BY <1>1, <1>5, <2>1
  <2>3. ms[1].id < ms[i].id
    BY <1>1, <2>2 DEF Ascending
  <2>4. ms[1].id \notin DOMAIN g /\ ms[1].id # snap.summary
    BY <1>1, <1>2, <2>1, <2>2, <2>3
  <2>. QED
    BY <1>1, <2>2, <2>4 DEF Genuine
<1>6. ASSUME NEW i \in old PROVE ms[i].id \notin DOMAIN g
  <2>1. ms[i].kind = "summary" /\ i \in DOMAIN ms
    OBVIOUS
  <2>2. ~(ms[i].id \in DOMAIN g /\ SameFact(ms[i], g[ms[i].id]))
    BY <2>1 DEF SameFact, RunShape, FactOK
  <2>3. ms[i].id < 0 /\ ms[i].id \in Int
    BY <1>1, <2>1, <2>2 DEF Genuine
  <2>. QED
    BY <1>2, <2>3
<1>7. gone \in SUBSET DOMAIN ms
  OBVIOUS
<1>8. {ms[i].id : i \in gone} = D \cup {ms[i].id : i \in old}
  OBVIOUS
<1>9. \A i \in DOMAIN ms \ gone : i \notin old
  OBVIOUS
<1>. HIDE DEF old, gone
<1>10. /\ r \in Seq(RunMessages) /\ Ascending(r)
       /\ \A i \in DOMAIN r : \E k \in DOMAIN ms \ gone : r[i] = ms[k]
       /\ Run!Ids(r) = Run!Ids(ms) \ {ms[i].id : i \in gone}
  <2>. HIDE DEF r
  <2>1. r = Run!Without(ms, gone)
    BY DEF r
  <2>. QED
    BY ONLY <1>1, <1>7, <2>1, WithoutIs
<1>. HIDE DEF r
<1>11. \A i \in DOMAIN r : r[i].id \in DOMAIN g /\ SameFact(r[i], g[r[i].id])
  BY <1>5, <1>9, <1>10
<1>12. /\ new \in Seq(RunMessages) /\ Len(new) = 1 + Len(r) /\ DOMAIN new = 1..(1 + Len(r)) /\ Len(r) \in Nat
       /\ new[1] = first /\ \A i \in 2..(1 + Len(r)) : i - 1 \in DOMAIN r /\ new[i] = r[i - 1]
       /\ \A i \in DOMAIN r : i + 1 \in DOMAIN new /\ new[i + 1] = r[i]
  BY <1>3, <1>10
<1>. HIDE DEF new
<1>13. Ascending(new)
  <2>1. ASSUME NEW i \in DOMAIN new, NEW j \in DOMAIN new, i < j PROVE new[i].id < new[j].id
    <3>1. j \in 2..(1 + Len(r)) /\ j - 1 \in DOMAIN r /\ new[j] = r[j - 1]
      BY <1>12, <2>1
    <3>2. CASE i = 1
      <4>1. r[j - 1].id \in DOMAIN g
        BY <1>11, <3>1
      <4>. QED
        BY <1>2, <1>3, <1>12, <3>1, <3>2, <4>1
    <3>3. CASE i # 1
      <4>1. i \in 2..(1 + Len(r)) /\ i - 1 \in DOMAIN r /\ new[i] = r[i - 1] /\ i - 1 < j - 1
        BY <1>12, <2>1, <3>3
      <4>. QED
        BY <1>10, <3>1, <4>1 DEF Ascending
    <3>. QED
      BY <3>2, <3>3
  <2>. QED
    BY <2>1 DEF Ascending
<1>14. ASSUME NEW i \in DOMAIN new PROVE Genuine(new[i], g, s2)
  <2>1. CASE i = 1
    BY <1>3, <1>12, <2>1 DEF Genuine
  <2>2. CASE i # 1
    <3>1. i - 1 \in DOMAIN r /\ new[i] = r[i - 1]
      BY <1>12, <2>2
    <3>. QED
      BY <1>11, <3>1 DEF Genuine
  <2>. QED
    BY <2>1, <2>2
<1>15. Run!Ids(new) = {id} \cup Run!Ids(r)
  <2>1. ASSUME NEW x \in Run!Ids(new) PROVE x \in {id} \cup Run!Ids(r)
    <3>1. PICK i \in DOMAIN new : x = new[i].id
      BY DEF Run!Ids
    <3>2. CASE i = 1
      BY <1>3, <1>12, <3>1, <3>2
    <3>3. CASE i # 1
      <4>1. i - 1 \in DOMAIN r /\ new[i] = r[i - 1]
        BY <1>12, <3>3
      <4>. QED
        BY <3>1, <4>1 DEF Run!Ids
    <3>. QED
      BY <3>2, <3>3
  <2>2. id \in Run!Ids(new)
    <3>1. 1 \in DOMAIN new /\ new[1].id = id
      BY <1>3, <1>12
    <3>. QED
      BY <3>1 DEF Run!Ids
  <2>3. ASSUME NEW x \in Run!Ids(r) PROVE x \in Run!Ids(new)
    <3>1. PICK i \in DOMAIN r : x = r[i].id
      BY DEF Run!Ids
    <3>2. i + 1 \in DOMAIN new /\ new[i + 1].id = x
      BY <1>12, <3>1
    <3>. QED
      BY <3>2 DEF Run!Ids
  <2>. QED
    BY <2>1, <2>2, <2>3
<1>16. ASSUME NEW x \in DOMAIN g PROVE x \in Run!Ids(new) <=> x \in Run!Ids(ms) /\ x \notin D
  <2>1. x # id /\ x \notin {ms[i].id : i \in old}
    BY <1>2, <1>6
  <2>. QED
    BY <1>8, <1>10, <1>15, <2>1
<1>17. WholeIds(Run!Ids(new), g, q, s2)
  <2>1. \A i \in DOMAIN g : g[i].kind = "ref" => i \in s2.refs
    BY RefsAreKnown
  <2>2. s2.summary \in Run!Ids(new) /\ s2.summary < 0
    BY <1>15
  <2>3. WholeIds(Run!Ids(ms), g, q, snap)
    BY DEF SoundList
  <2>. QED
    BY <1>16, <2>1, <2>2, <2>3, CoveredMayGo
<1>. QED
  BY <1>4, <1>12, <1>13, <1>14, <1>17 DEF SoundList

LEMMA MoreRefsAreKnown ==
  ASSUME NEW ms, NEW g, NEW q, NEW s, SoundList(ms, g, q, s), NEW s2,
         s2.summary = s.summary, s2.covered = s.covered, s.refs \subseteq s2.refs
  PROVE  SoundList(ms, g, q, s2)
<1>1. WholeIds(Run!Ids(ms), g, q, s2)
  BY DEF SoundList, WholeIds
<1>. QED
  BY <1>1 DEF SoundList, Genuine

-----------------------------------------------------------------------------
(* Requests.                                                               *)

\* A list and an output that fit the window together, if there is an output.
FitsWindow(r) == r.output # 0 => r.output \in Int /\ Run!Cost(r.ms) + r.output + Margin <= ModelWindow

LEMMA FittedOutput ==
  ASSUME NEW requested \in Int, NEW used \in Nat, Run!FitOutput(requested, used) # 0
  PROVE  Run!FitOutput(requested, used) \in Int /\ used + Run!FitOutput(requested, used) + Margin <= ModelWindow
<1>. DEFINE available == ModelWindow - Margin - used
            o == Min({requested, available})
<1>1. available \in Int
  BY RunSizes
<1>2. Run!FitOutput(requested, used) = o
  BY RunCounts DEF Run!FitOutput
<1>3. o \in Int /\ o <= available
  <2>. HIDE DEF available
  <2>1. Min({requested, available}) \in {requested, available} /\ Min({requested, available}) <= available
    BY <1>1, GreaterOfTwo
  <2>. QED
    BY <1>1, <2>1
<1>. HIDE DEF o
<1>. QED
  BY <1>2, <1>3, RunSizes

LEMMA PreparedFits ==
  ASSUME NEW g, NEW q, RunShape(g, q), NEW ms, NEW s, SoundList(ms, g, q, s), NEW requested \in Int
  PROVE  SoundList(Run!Prepared(ms, requested).ms, g, q, s) /\ FitsWindow(Run!Prepared(ms, requested))
<1>. DEFINE copy == Run!Guard(ms)
<1>1. SoundList(copy, g, q, s)
  BY GuardIsSound
<1>2. Run!Cost(copy) \in Nat
  BY <1>1, MessagesCost DEF SoundList
<1>3. Run!Prepared(ms, requested) = [ms |-> copy, output |-> Run!FitOutput(requested, Run!Cost(copy))]
  BY DEF Run!Prepared
<1>. HIDE DEF copy
<1>4. Run!FitOutput(requested, Run!Cost(copy)) # 0 =>
         /\ Run!FitOutput(requested, Run!Cost(copy)) \in Int
         /\ Run!Cost(copy) + Run!FitOutput(requested, Run!Cost(copy)) + Margin <= ModelWindow
  BY <1>2, FittedOutput
<1>. QED
  BY <1>1, <1>3, <1>4 DEF FitsWindow

LEMMA RecoveredFits ==
  ASSUME NEW g, NEW q, RunShape(g, q), NEW first \in [ms : Seq(RunMessages), output : Int], NEW s, SoundList(first.ms, g, q, s)
  PROVE  SoundList(Run!Recovered(first).ms, g, q, s) /\ FitsWindow(Run!Recovered(first))
<1>. DEFINE half == Max({MinOutput, first.output \div 2})
<1>1. half \in Int
  <2>1. first.output \div 2 \in Int /\ MinOutput \in Int
    BY RunSizes
  <2>. DEFINE x == first.output \div 2
  <2>. HIDE DEF x
  <2>2. Max({MinOutput, x}) \in {MinOutput, x}
    BY <2>1, GreaterOfTwo DEF x
  <2>. QED
    BY <2>1, <2>2 DEF x
<1>2. Run!Recovered(first) = IF half < first.output THEN Run!Prepared(first.ms, half) ELSE [first EXCEPT !.output = 0]
  BY RunCounts DEF Run!Recovered
<1>. HIDE DEF half
<1>3. SoundList(Run!Prepared(first.ms, half).ms, g, q, s) /\ FitsWindow(Run!Prepared(first.ms, half))
  BY <1>1, PreparedFits
<1>4. [first EXCEPT !.output = 0].ms = first.ms /\ [first EXCEPT !.output = 0].output = 0
  OBVIOUS
<1>5. FitsWindow([first EXCEPT !.output = 0])
  BY <1>4 DEF FitsWindow
<1>. QED
  BY <1>2, <1>3, <1>4, <1>5

\* What is said of a request holds of every list that is sound.
LEMMA SoundListsAreWhole ==
  ASSUME NEW g, NEW q, RunShape(g, q), Settled(g, {}), NEW ms, NEW s, SoundList(ms, g, q, s)
  PROVE  LET turns == {i \in DOMAIN ms : ms[i].calls # <<>>}
             last  == Max({0} \cup {i \in DOMAIN g : g[i].calls # <<>>})
         IN  /\ \A i \in turns : \A k \in DOMAIN ms[i].calls : i + k \in DOMAIN ms /\ ms[i + k].role = "tool" /\ ms[i + k].call = k
             /\ \A j \in DOMAIN ms : ms[j].role = "tool" => \E i \in turns : j \in (i + 1)..(i + Len(ms[i].calls))
             /\ \A i \in DOMAIN g : g[i].kind = "failed" \/ (last # 0 /\ i >= last) => g[i].id \in Run!Ids(ms)
             /\ g[Max({i \in DOMAIN g : g[i].role = "user"})].id \in Run!Ids(ms)
<1>. DEFINE turns == {i \in DOMAIN ms : ms[i].calls # <<>>}
            U == {0} \cup {i \in DOMAIN g : g[i].calls # <<>>}
            last == Max(U)
            A == {i \in DOMAIN g : g[i].role = "user"}
<1>1. /\ ms \in Seq(RunMessages) /\ Len(ms) \in Nat /\ DOMAIN ms = 1..Len(ms)
      /\ \A i \in DOMAIN ms : ms[i] \in RunMessages /\ DOMAIN ms[i].calls = 1..Len(ms[i].calls)
  BY MessageParts DEF SoundList
<1>2. /\ g \in Seq(RunMessages) /\ DOMAIN g = 1..Len(g) /\ Len(g) \in Nat /\ q \in DOMAIN g /\ g[q].role = "user"
      /\ \A i \in DOMAIN g : FactOK(g, q, i) /\ g[i].id = i
  BY MessageParts DEF RunShape, FactOK
<1>3. WholeIds(Run!Ids(ms), g, q, s)
  BY DEF SoundList
<1>4. \A i \in turns : \A k \in DOMAIN ms[i].calls : i + k \in DOMAIN ms /\ ms[i + k].role = "tool" /\ ms[i + k].call = k
  <2>1. ASSUME NEW i \in DOMAIN ms, ms[i].calls # <<>>, NEW k \in DOMAIN ms[i].calls
        PROVE  i + k \in DOMAIN ms /\ ms[i + k].role = "tool" /\ ms[i + k].call = k
    <3>1. k \in 1..Len(ms[i].calls)
      BY <1>1
    <3>. QED
      BY <2>1, <3>1, ResultsStandBehind
  <2>. QED
    BY <2>1
<1>5. \A j \in DOMAIN ms : ms[j].role = "tool" => \E i \in turns : j \in (i + 1)..(i + Len(ms[i].calls))
  BY CallsStandBefore
<1>6. U \in SUBSET Nat /\ U # {} /\ \A i \in U : i <= Len(g)
  BY <1>2
<1>7. last \in U /\ \A y \in U : last >= y
  <2>. HIDE DEF U
  <2>. QED
    BY ONLY <1>2, <1>6, MaxOfNumbers
<1>8. ASSUME last # 0, NEW i \in DOMAIN g, i >= last PROVE i \in Run!Ids(ms)
  <2>1. last \in RunTurns(g) /\ last \in Nat
    BY <1>6, <1>7, <1>8 DEF RunTurns
  <2>2. \A u \in RunTurns(g) : u \in U /\ u \in Nat /\ u <= last
    BY <1>2, <1>7, <2>1 DEF RunTurns
  <2>. HIDE DEF last
  <2>. QED
    BY <1>3, <1>8, <2>1, <2>2 DEF WholeIds
<1>9. \A i \in DOMAIN g : g[i].kind = "failed" \/ (last # 0 /\ i >= last) => g[i].id \in Run!Ids(ms)
  BY <1>2, <1>3, <1>8 DEF WholeIds
<1>10. Max(A) = q
  <2>1. A \in SUBSET Nat /\ A # {} /\ \A i \in A : i <= Len(g)
    BY <1>2
  <2>2. q \in A /\ q \in Nat
    BY <1>2
  <2>3. \A i \in A : i <= q
    <3>1. ASSUME NEW i \in A PROVE i <= q
      <4>1. ~(i > q)
        BY <1>2 DEF FactOK
      <4>. QED
        BY <1>2, <4>1
    <3>. QED
      BY <3>1
  <2>. HIDE DEF A
  <2>4. Max(A) \in A /\ \A y \in A : Max(A) >= y
    BY ONLY <1>2, <2>1, MaxOfNumbers
  <2>. DEFINE x == Max(A)
  <2>5. x \in Nat /\ x >= q /\ x <= q
    <3>1. x \in A /\ x >= q
      BY <2>2, <2>4
    <3>. HIDE DEF x
    <3>. QED
      BY <2>1, <2>3, <3>1
  <2>. HIDE DEF x
  <2>6. x = q
    BY ONLY <2>2, <2>5
  <2>. QED
    BY <2>6 DEF x
<1>11. g[Max(A)].id \in Run!Ids(ms)
  BY <1>2, <1>3, <1>10 DEF WholeIds
<1>. QED
  BY <1>4, <1>5, <1>9, <1>11

-----------------------------------------------------------------------------
(* The run.                                                                *)

Snaps == [refs : SUBSET Nat, calls : Nat, summary : Int, covered : SUBSET Nat]

\* While the run goes on: the list lacks nothing, a call without results is the last message and its tools are at work
\* or wait for an approval, what was sent lacks nothing either and fits, and what is referred to is stored.
Whole(q) ==
    /\ RunShape(given, q) /\ SoundList(msgs, given, q, snap)
    /\ phase \in {"ready", "model"} => Settled(given, {})
    /\ phase \in {"paused", "tools"} => Len(given) \in RunTurns(given) /\ Settled(given, {Len(given)})
    /\ phase = "model" => /\ SoundList(runSent.ms, given, q, snap) /\ FitsWindow(runSent) /\ runSent.output # 0
                          /\ Run!RefsOf(given) \subseteq snap.refs
    /\ Run!RefsOf(given) \subseteq DOMAIN stored

RunInv ==
    /\ phase \in {"ready", "model", "paused", "tools", "done", "failed"}
    /\ snap \in Snaps /\ snap.calls <= SummaryMaxCalls /\ IsFiniteSet(snap.refs)
    /\ phase \notin {"done", "failed"} => \E q \in Nat : Whole(q)

LEMMA RunIsGood == RunInv => Run!ContextTypeOK /\ Run!RequestIsWhole /\ Run!NothingIsForgotten
<1>. SUFFICES ASSUME RunInv PROVE Run!ContextTypeOK /\ Run!RequestIsWhole /\ Run!NothingIsForgotten
  OBVIOUS
<1>1. Run!ContextTypeOK
  BY DEF RunInv, Run!ContextTypeOK
<1>2. ASSUME phase = "model" PROVE Run!RequestIsWhole
  <2>1. PICK q \in Nat : Whole(q)
    BY <1>2 DEF RunInv
  <2>2. RunShape(given, q) /\ Settled(given, {}) /\ SoundList(runSent.ms, given, q, snap)
    BY <1>2, <2>1 DEF Whole
  <2>3. Run!Cost(runSent.ms) + runSent.output + Margin <= ModelWindow
    BY <1>2, <2>1 DEF Whole, FitsWindow
  <2>. DEFINE ms == runSent.ms
              turns == {i \in DOMAIN ms : ms[i].calls # <<>>}
              last  == Max({0} \cup {i \in DOMAIN given : given[i].calls # <<>>})
  <2>4. /\ \A i \in turns : \A k \in DOMAIN ms[i].calls : i + k \in DOMAIN ms /\ ms[i + k].role = "tool" /\ ms[i + k].call = k
        /\ \A j \in DOMAIN ms : ms[j].role = "tool" => \E i \in turns : j \in (i + 1)..(i + Len(ms[i].calls))
        /\ \A i \in DOMAIN given : given[i].kind = "failed" \/ (last # 0 /\ i >= last) => given[i].id \in Run!Ids(ms)
        /\ given[Max({i \in DOMAIN given : given[i].role = "user"})].id \in Run!Ids(ms)
    BY <2>2, SoundListsAreWhole
  <2>. QED
    BY <2>3, <2>4, RunCounts DEF Run!RequestIsWhole
<1>3. ASSUME phase = "model"
      PROVE  /\ \A i \in DOMAIN given : given[i].role = "tool" => given[i].id \in Run!Ids(runSent.ms) \cup snap.covered
             /\ snap.covered # {} => \E i \in DOMAIN runSent.ms : runSent.ms[i].kind = "summary" /\ runSent.ms[i].id = snap.summary
             /\ Run!RefsOf(given) \subseteq snap.refs
  <2>1. PICK q \in Nat : Whole(q)
    BY <1>3 DEF RunInv
  <2>2. RunShape(given, q) /\ SoundList(runSent.ms, given, q, snap) /\ Run!RefsOf(given) \subseteq snap.refs
    BY <1>3, <2>1 DEF Whole
  <2>. DEFINE ms == runSent.ms
  <2>3. WholeIds(Run!Ids(ms), given, q, snap) /\ \A i \in DOMAIN ms : Genuine(ms[i], given, snap)
    BY <2>2 DEF SoundList
  <2>. HIDE DEF ms
  <2>4. \A i \in DOMAIN given : given[i].id = i /\ i \in Nat
    BY <2>2, MessageParts DEF RunShape, FactOK
  <2>5. ASSUME snap.covered # {} PROVE \E i \in DOMAIN ms : ms[i].kind = "summary" /\ ms[i].id = snap.summary
    <3>1. snap.summary \in Run!Ids(ms) /\ snap.summary < 0
      BY <2>3, <2>5 DEF WholeIds
    <3>2. PICK i \in DOMAIN ms : ms[i].id = snap.summary
      BY <3>1 DEF Run!Ids
    <3>3. ms[i].id \notin DOMAIN given
      BY <2>4, <3>1, <3>2
    <3>. QED
      BY <2>3, <3>2, <3>3 DEF Genuine
  <2>6. \A i \in DOMAIN given : given[i].role = "tool" => given[i].id \in Run!Ids(ms) \cup snap.covered
    BY <2>3, <2>4 DEF WholeIds
  <2>. QED
    BY <2>2, <2>5, <2>6 DEF ms
<1>4. phase \notin {"done", "failed"} => Run!RefsOf(given) \subseteq DOMAIN stored
  BY DEF RunInv, Whole
<1>. QED
  BY <1>1, <1>2, <1>3, <1>4 DEF Run!RequestIsWhole, Run!NothingIsForgotten

LEMMA RunStarts == Run!ContextInit => RunInv
<1>. SUFFICES ASSUME Run!ContextInit PROVE RunInv
  OBVIOUS
<1>. DEFINE Names == {"system", "material", "user", "assistant"}
            A(material) == [i \in 1..material |-> "material"]
            B(pairs) == [i \in 1..(2 * pairs) |-> IF i % 2 = 1 THEN "user" ELSE "assistant"]
            OrderOf(pairs, material) == <<"system">> \o A(material) \o B(pairs) \o <<"user">>
            MessageOf(i, name) == IF name = "material" THEN Run!Message(i, "user", "material", 1, <<>>, 0) ELSE Run!Text(i, name)
<1>1. PICK pairs \in 0..MaxPairs, material \in 0..1 :
         msgs = [i \in DOMAIN OrderOf(pairs, material) |-> MessageOf(i, OrderOf(pairs, material)[i])]
  BY DEF Run!ContextInit
<1>2. PICK order : order = OrderOf(pairs, material)
  OBVIOUS
<1>3. msgs = [i \in DOMAIN order |-> MessageOf(i, order[i])]
  BY <1>1, <1>2
<1>4. order \in Seq(Names) /\ Len(order) \in Nat \ {0} /\ order[Len(order)] = "user"
  <2>1. pairs \in Nat /\ material \in Nat /\ 2 * pairs \in Nat
    BY RunSizes
  <2>2. A(material) \in Seq(Names)
    <3>1. A(material) \in [1..material -> Names]
      OBVIOUS
    <3>. HIDE DEF A, Names
    <3>. QED
      BY ONLY <2>1, <3>1
  <2>3. B(pairs) \in Seq(Names)
    <3>1. B(pairs) \in [1..(2 * pairs) -> Names]
      OBVIOUS
    <3>. HIDE DEF B, Names
    <3>. QED
      BY ONLY <2>1, <3>1
  <2>4. <<"system">> \in Seq(Names) /\ <<"user">> \in Seq(Names) /\ Len(<<"user">>) = 1 /\ <<"user">>[1] = "user"
    OBVIOUS
  <2>. HIDE DEF A, B, Names
  <2>. DEFINE x == <<"system">> \o A(material) \o B(pairs)
  <2>5. x \in Seq(Names)
    BY <2>2, <2>3, <2>4
  <2>6. order = x \o <<"user">>
    BY <1>2
  <2>. HIDE DEF x
  <2>. QED
    BY <2>4, <2>5, <2>6
<1>. HIDE DEF A, B, OrderOf
<1>. DEFINE q == Len(order)
<1>5. ASSUME NEW i \in Nat, NEW name \in Names
      PROVE  LET m == MessageOf(i, name)
             IN  /\ m \in RunMessages /\ m.id = i /\ m.calls = <<>> /\ m.role # "tool"
                 /\ m.kind \in {"text", "material"} /\ (m.kind = "material" => m.role = "user")
                 /\ name = "user" => m.role = "user" /\ m.kind = "text"
  BY DEF Run!Message, Run!Text, RunMessages, RunRoles, RunKinds
<1>6. DOMAIN order = 1..q /\ q \in Nat \ {0} /\ \A i \in 1..q : i \in Nat /\ order[i] \in Names
  BY <1>4
<1>. HIDE DEF MessageOf, Names
<1>7. DOMAIN msgs = 1..q /\ \A i \in 1..q : msgs[i] = MessageOf(i, order[i])
  BY <1>3, <1>6
<1>8. \A i \in 1..q : /\ msgs[i] \in RunMessages /\ msgs[i].id = i /\ msgs[i].calls = <<>> /\ msgs[i].role # "tool"
                      /\ msgs[i].kind \in {"text", "material"} /\ (msgs[i].kind = "material" => msgs[i].role = "user")
  BY <1>5, <1>6, <1>7
<1>9. q \in 1..q /\ msgs[q].role = "user" /\ msgs[q].kind = "text"
  BY <1>4, <1>5, <1>6, <1>7
<1>10. msgs \in Seq(RunMessages) /\ Len(msgs) = q
  <2>1. msgs \in [1..q -> RunMessages]
    BY <1>3, <1>6, <1>8
  <2>. HIDE DEF q
  <2>. QED
    BY ONLY <1>6, <2>1
<1>. HIDE DEF q
<1>11. RunTurns(msgs) = {}
  BY <1>7, <1>8 DEF RunTurns
<1>12. RunShape(msgs, q)
  <2>1. ASSUME NEW i \in DOMAIN msgs PROVE FactOK(msgs, q, i)
    BY <1>6, <1>7, <1>8 DEF FactOK
  <2>. QED
    BY <1>7, <1>9, <1>10, <2>1 DEF RunShape
<1>13. Settled(msgs, {})
  BY <1>11 DEF Settled
<1>14. snap = [refs |-> {}, calls |-> 0, summary |-> 0, covered |-> {}] /\ phase = "ready" /\ given = msgs /\ stored = <<>>
  BY DEF Run!ContextInit
<1>15. Run!Ids(msgs) = 1..q
  BY <1>7, <1>8 DEF Run!Ids
<1>16. SoundList(msgs, msgs, q, snap)
  <2>1. Ascending(msgs)
    BY <1>7, <1>8 DEF Ascending
  <2>2. \A i \in DOMAIN msgs : Genuine(msgs[i], msgs, snap)
    BY <1>7, <1>8 DEF Genuine, SameFact
  <2>3. WholeIds(Run!Ids(msgs), msgs, q, snap)
    BY <1>7, <1>9, <1>11, <1>14, <1>15 DEF WholeIds
  <2>. QED
    BY <1>10, <2>1, <2>2, <2>3 DEF SoundList
<1>17. Run!RefsOf(msgs) = {}
  BY <1>7, <1>8 DEF Run!RefsOf
<1>18. Whole(q)
  BY <1>12, <1>13, <1>14, <1>16, <1>17 DEF Whole
<1>19. snap \in Snaps /\ snap.calls <= SummaryMaxCalls /\ IsFiniteSet(snap.refs)
  BY <1>14, RunSizes, FS_EmptySet DEF Snaps
<1>. QED
  BY <1>6, <1>14, <1>18, <1>19 DEF RunInv

\* Before a call of the model.
LEMMA BeforeModelKeeps ==
  ASSUME RunInv, NEW ok \in BOOLEAN, NEW rejections \in 0..2, Run!BeforeModel(ok, rejections)
  PROVE  RunInv'
<1>. DEFINE shown == Run!Expand(msgs)
            refs == snap.refs \cup Run!RefsOf(shown)
            covered == Run!ToSummarise(shown)
            try == Run!Cost(shown) > Run!Soft /\ covered # {} /\ snap.calls < SummaryMaxCalls
            id == -(snap.calls + 1)
            new == Run!Summarised(shown, covered, refs, id)
            works == try /\ ok /\ Run!Cost(new) < Run!Cost(shown)
            kept == Run!Guard(IF works THEN new ELSE shown)
            first == Run!Prepared(kept, Output)
            request == IF rejections = 0 \/ first.output = 0 THEN first ELSE Run!Recovered(first)
            D == {shown[i].id : i \in covered}
<1>1. /\ phase = "ready" /\ UNCHANGED <<stored, quick, runExpired, given>>
      /\ \/ phase' = "failed" /\ UNCHANGED <<msgs, snap, runSent>>
         \/ /\ msgs' = kept /\ runSent' = request /\ phase' = "model" /\ request.output # 0
            /\ snap' = [snap EXCEPT !.refs = refs, !.calls = IF try THEN @ + 1 ELSE @,
                                    !.summary = IF works THEN id ELSE @,
                                    !.covered = IF works THEN @ \cup D ELSE @]
  BY DEF Run!BeforeModel, Run!Fail
<1>. HIDE DEF kept, request, first, works, try, id, new, covered, D, refs, shown
<1>2. PICK q \in Nat : Whole(q)
  BY <1>1 DEF RunInv
<1>3. /\ RunShape(given, q) /\ SoundList(msgs, given, q, snap) /\ Settled(given, {})
      /\ Run!RefsOf(given) \subseteq DOMAIN stored
  BY <1>1, <1>2 DEF Whole
<1>4. snap \in Snaps /\ snap.calls <= SummaryMaxCalls /\ IsFiniteSet(snap.refs)
  BY DEF RunInv
<1>5. CASE phase' = "failed" /\ UNCHANGED <<msgs, snap, runSent>>
  BY <1>4, <1>5 DEF RunInv
<1>6. CASE /\ msgs' = kept /\ runSent' = request /\ phase' = "model" /\ request.output # 0
           /\ snap' = [snap EXCEPT !.refs = refs, !.calls = IF try THEN @ + 1 ELSE @,
                                   !.summary = IF works THEN id ELSE @,
                                   !.covered = IF works THEN @ \cup D ELSE @]
  <2>1. /\ snap.refs \in SUBSET Nat /\ snap.calls \in Nat /\ snap.summary \in Int /\ snap.covered \in SUBSET Nat
        /\ snap'.refs = refs /\ snap'.calls = (IF try THEN snap.calls + 1 ELSE snap.calls)
        /\ snap'.summary = (IF works THEN id ELSE snap.summary)
        /\ snap'.covered = (IF works THEN snap.covered \cup D ELSE snap.covered)
        /\ snap' = [refs |-> snap'.refs, calls |-> snap'.calls, summary |-> snap'.summary, covered |-> snap'.covered]
    BY <1>4, <1>6 DEF Snaps
  <2>2. SoundList(shown, given, q, snap)
    BY <1>3, ExpandIsReshown DEF shown
  <2>3. IsFiniteSet(refs) /\ refs \in SUBSET Nat /\ \A i \in DOMAIN given : given[i].kind = "ref" => i \in refs
    <3>1. /\ \A i \in DOMAIN given : given[i].kind = "ref" => i \in refs
          /\ Run!RefsOf(shown) \subseteq Run!RefsOf(given) /\ IsFiniteSet(Run!RefsOf(shown))
      BY <1>3, <2>2, RefsAreKnown DEF refs
    <3>2. Run!RefsOf(given) \subseteq Nat
      BY <1>3, MessageParts DEF RunShape, FactOK, Run!RefsOf
    <3>3. IsFiniteSet(refs)
      BY <1>4, <3>1, FS_Union DEF refs
    <3>. QED
      BY <2>1, <3>1, <3>2, <3>3 DEF refs
  <2>4. Run!RefsOf(given) \subseteq refs
    BY <1>3, <2>3 DEF Run!RefsOf, RunShape, FactOK
  <2>5. id \in Int /\ id < 0
    BY <2>1 DEF id
  <2>. DEFINE groups == Run!ToolGroups(shown) \cup (IF quick THEN Run!ConversationGroups(shown) ELSE {})
  <2>6. GroupsAreOver(groups, shown, q)
    BY <1>3, <2>2, ToolGroupsAreOver, ConversationGroupsAreOver DEF GroupsAreOver
  <2>7. covered = Run!Taken(shown, groups)
    BY DEF covered, Run!ToSummarise
  <2>. HIDE DEF groups
  <2>8. covered \in SUBSET DOMAIN shown /\ \E G \in SUBSET groups : covered = UNION G
    BY <1>3, <2>2, <2>6, <2>7, TakenIsWhole
  <2>9. PICK G \in SUBSET groups : covered = UNION G
    BY <2>8
  <2>10. GroupsAreOver(G, shown, q) /\ D = {shown[i].id : i \in UNION G}
    BY <2>6, <2>9 DEF GroupsAreOver, D
  <2>11. MayBeCovered(D, given, q)
    BY <1>3, <2>2, <2>10, OverMayBeCovered
  <2>12. D \in SUBSET Nat
    BY <1>3, <2>11, MessageParts DEF MayBeCovered, RunShape
  <2>13. ASSUME works PROVE SoundList(new, given, q, snap')
    <3>1. snap'.covered = snap.covered \cup D /\ snap'.summary = id /\ snap'.refs = refs
      BY <2>1, <2>13
    <3>2. D = {shown[i].id : i \in covered} /\ new = Run!Summarised(shown, covered, refs, id)
      BY DEF D, new
    <3>3. refs = snap.refs \cup Run!RefsOf(shown)
      BY DEF refs
    <3>. QED
      BY <1>3, <2>2, <2>3, <2>5, <2>8, <2>11, <3>1, <3>2, <3>3, SummarisedListIsSound
  <2>14. ASSUME ~works PROVE SoundList(shown, given, q, snap')
    <3>1. snap'.covered = snap.covered /\ snap'.summary = snap.summary /\ snap.refs \subseteq snap'.refs
      BY <2>1, <2>14 DEF refs
    <3>. QED
      BY <2>2, <3>1, MoreRefsAreKnown
  <2>15. SoundList(kept, given, q, snap')
    BY <1>3, <2>13, <2>14, GuardIsSound DEF kept
  <2>16. SoundList(first.ms, given, q, snap') /\ FitsWindow(first) /\ first \in [ms : Seq(RunMessages), output : Int]
    <3>1. Output \in Int
      BY RunSizes
    <3>2. SoundList(first.ms, given, q, snap') /\ FitsWindow(first)
      BY <1>3, <2>15, <3>1, PreparedFits DEF first
    <3>3. first = [ms |-> first.ms, output |-> first.output]
      BY DEF first, Run!Prepared
    <3>4. first.output \in Int
      BY <3>2 DEF FitsWindow
    <3>5. first.ms \in Seq(RunMessages)
      BY <3>2 DEF SoundList
    <3>. QED
      BY <3>2, <3>3, <3>4, <3>5
  <2>17. SoundList(request.ms, given, q, snap') /\ FitsWindow(request)
    <3>1. SoundList(Run!Recovered(first).ms, given, q, snap') /\ FitsWindow(Run!Recovered(first))
      BY <1>3, <2>16, RecoveredFits
    <3>. QED
      BY <2>16, <3>1 DEF request
  <2>18. given' = given /\ stored' = stored /\ msgs' = kept /\ runSent' = request /\ phase' = "model" /\ request.output # 0
    BY <1>1, <1>6
  <2>19. Whole(q)'
    BY <1>3, <2>1, <2>4, <2>15, <2>17, <2>18 DEF Whole
  <2>20. snap' \in Snaps /\ snap'.calls <= SummaryMaxCalls /\ IsFiniteSet(snap'.refs)
    <3>1. snap'.calls \in Nat /\ snap'.calls <= SummaryMaxCalls
      BY <1>4, <2>1, RunSizes DEF try
    <3>2. snap'.summary \in Int /\ snap'.covered \in SUBSET Nat
      BY <2>1, <2>5, <2>12
    <3>. QED
      BY <2>1, <2>3, <3>1, <3>2 DEF Snaps
  <2>. QED
    BY <2>18, <2>19, <2>20 DEF RunInv
<1>. QED
  BY <1>1, <1>5, <1>6

\* Messages that are added, to all that were added and to the list.
News(new, n) == new \in Seq(RunMessages) /\ \A i \in 1..Len(new) : new[i].id = n + i

LEMMA NewsKeepLists ==
  ASSUME NEW g, NEW q, RunShape(g, q), NEW ms, NEW s, SoundList(ms, g, q, s), NEW new, News(new, Len(g)),
         WholeIds(Run!Ids(ms) \cup ((Len(g) + 1)..(Len(g) + Len(new))), g \o new, q, s)
  PROVE  SoundList(ms \o new, g \o new, q, s)
<1>. DEFINE n == Len(g)
            k == Len(ms)
            l == Len(new)
            a == ms \o new
            b == g \o new
<1>1. /\ ms \in Seq(RunMessages) /\ k \in Nat /\ DOMAIN ms = 1..k /\ Ascending(ms)
      /\ \A i \in DOMAIN ms : ms[i] \in RunMessages /\ ms[i].id \in Int /\ Genuine(ms[i], g, s)
  BY MessageParts DEF SoundList
<1>2. g \in Seq(RunMessages) /\ DOMAIN g = 1..n /\ n \in Nat
  BY MessageParts DEF RunShape
<1>3. new \in Seq(RunMessages) /\ l \in Nat /\ DOMAIN new = 1..l /\ \A i \in 1..l : new[i].id = n + i
  BY MessageParts DEF News
<1>4. /\ a \in Seq(RunMessages) /\ DOMAIN a = 1..(k + l)
      /\ \A i \in 1..k : a[i] = ms[i]
      /\ \A i \in 1..l : k + i \in 1..(k + l) /\ a[k + i] = new[i]
      /\ \A i \in 1..(k + l) : i > k => i - k \in 1..l /\ a[i] = new[i - k]
  BY <1>1, <1>3
<1>5. /\ b \in Seq(RunMessages) /\ DOMAIN b = 1..(n + l)
      /\ \A i \in 1..n : b[i] = g[i]
      /\ \A i \in 1..l : n + i \in 1..(n + l) /\ b[n + i] = new[i]
  BY <1>2, <1>3
<1>. HIDE DEF a, b, n, k, l
<1>6. ASSUME NEW i \in 1..k PROVE a[i].id <= n /\ a[i].id \in Int /\ Genuine(a[i], b, s)
  <2>1. a[i] = ms[i] /\ Genuine(ms[i], g, s) /\ ms[i].id \in Int
    BY <1>1, <1>4
  <2>2. CASE ms[i].id \in DOMAIN g /\ SameFact(ms[i], g[ms[i].id])
    <3>1. ms[i].id \in 1..n /\ ms[i].id \in DOMAIN b /\ b[ms[i].id] = g[ms[i].id] /\ ms[i].id <= n
      BY <1>2, <1>3, <1>5, <2>2
    <3>. QED
      BY <2>1, <2>2, <3>1 DEF Genuine
  <2>3. CASE ms[i].id < 0
    <3>1. ms[i].id \notin DOMAIN g /\ ms[i].id <= n
      BY <1>2, <2>1, <2>3
    <3>. QED
      BY <2>1, <3>1 DEF Genuine
  <2>. QED
    BY <2>1, <2>2, <2>3 DEF Genuine
<1>7. ASSUME NEW i \in 1..(k + l), i > k PROVE a[i].id = n + (i - k) /\ Genuine(a[i], b, s)
  <2>1. i - k \in 1..l /\ a[i] = new[i - k] /\ new[i - k].id = n + (i - k)
    BY <1>3, <1>4, <1>7
  <2>2. n + (i - k) \in DOMAIN b /\ b[n + (i - k)] = new[i - k]
    BY <1>5, <2>1
  <2>. QED
    BY <2>1, <2>2 DEF Genuine, SameFact
<1>8. Ascending(a)
  <2>1. ASSUME NEW i \in DOMAIN a, NEW j \in DOMAIN a, i < j PROVE a[i].id < a[j].id
    <3>1. i \in Nat /\ j \in Nat /\ k \in Nat /\ n \in Nat /\ l \in Nat /\ i \in 1..(k + l) /\ j \in 1..(k + l)
      BY <1>1, <1>2, <1>3, <1>4
    <3>2. CASE j <= k
      <4>1. i \in 1..k /\ j \in 1..k
        BY <2>1, <3>1, <3>2
      <4>. QED
        BY <1>1, <1>4, <2>1, <4>1 DEF Ascending
    <3>3. CASE j > k /\ i <= k
      <4>1. i \in 1..k
        BY <3>1, <3>3
      <4>2. a[i].id <= n /\ a[i].id \in Int /\ a[j].id = n + (j - k)
        BY <1>6, <1>7, <3>1, <3>3, <4>1
      <4>. QED
        BY <3>1, <3>3, <4>2
    <3>4. CASE i > k
      <4>1. a[i].id = n + (i - k) /\ a[j].id = n + (j - k)
        BY <1>7, <2>1, <3>1, <3>4
      <4>. QED
        BY <2>1, <3>1, <4>1
    <3>. QED
      BY <3>1, <3>2, <3>3, <3>4
  <2>. QED
    BY <2>1 DEF Ascending
<1>9. Run!Ids(a) = Run!Ids(ms) \cup ((n + 1)..(n + l))
  <2>1. ASSUME NEW x \in Run!Ids(a) PROVE x \in Run!Ids(ms) \cup ((n + 1)..(n + l))
    <3>1. PICK i \in 1..(k + l) : x = a[i].id
      BY <1>4 DEF Run!Ids
    <3>2. CASE i <= k
      <4>1. i \in 1..k /\ i \in DOMAIN ms
        BY <1>1, <3>1, <3>2
      <4>. QED
        BY <1>4, <3>1, <4>1 DEF Run!Ids
    <3>3. CASE i > k
      <4>1. x = n + (i - k) /\ i - k \in 1..l
        BY <1>4, <1>7, <3>1, <3>3
      <4>. QED
        BY <1>2, <1>3, <4>1
    <3>. QED
      BY <1>1, <3>1, <3>2, <3>3
  <2>2. ASSUME NEW x \in Run!Ids(ms) PROVE x \in Run!Ids(a)
    <3>1. PICK i \in DOMAIN ms : x = ms[i].id
      BY DEF Run!Ids
    <3>2. i \in DOMAIN a /\ a[i] = ms[i]
      BY <1>1, <1>3, <1>4
    <3>. QED
      BY <3>1, <3>2 DEF Run!Ids
  <2>3. ASSUME NEW x \in (n + 1)..(n + l) PROVE x \in Run!Ids(a)
    <3>. DEFINE i == x - n
    <3>1. i \in 1..l /\ n + i = x
      BY <1>2, <1>3
    <3>. HIDE DEF i
    <3>2. k + i \in DOMAIN a /\ a[k + i].id = x
      BY <1>3, <1>4, <3>1
    <3>. QED
      BY <3>2 DEF Run!Ids
  <2>. QED
    BY <2>1, <2>2, <2>3
<1>10. \A i \in DOMAIN a : Genuine(a[i], b, s)
  <2>1. ASSUME NEW i \in DOMAIN a PROVE Genuine(a[i], b, s)
    <3>1. i \in 1..(k + l) /\ i \in Nat /\ k \in Nat
      BY <1>1, <1>4
    <3>2. CASE i <= k
      <4>1. i \in 1..k
        BY <3>1, <3>2
      <4>. QED
        BY <1>6, <4>1
    <3>3. CASE i > k
      BY <1>7, <3>1, <3>3
    <3>. QED
      BY <3>1, <3>2, <3>3
  <2>. QED
    BY <2>1
<1>11. WholeIds(Run!Ids(a), b, q, s)
  BY <1>9 DEF n, l, b
<1>. QED
  BY <1>4, <1>8, <1>10, <1>11 DEF SoundList, a, b

\* The model calls tools.
LEMMA CallAdded ==
  ASSUME NEW g, NEW q, RunShape(g, q), Settled(g, {}), NEW ms, NEW s, SoundList(ms, g, q, s),
         NEW m \in RunMessages, m.id = Len(g) + 1, m.role = "assistant", m.kind = "text", m.calls # <<>>, Len(m.calls) \in 1..2
  PROVE  LET b == Append(g, m)
         IN  /\ RunShape(b, q) /\ SoundList(Append(ms, m), b, q, s)
             /\ Len(b) \in RunTurns(b) /\ Settled(b, {Len(b)}) /\ Run!RefsOf(b) = Run!RefsOf(g)
<1>. DEFINE n == Len(g)
            b == Append(g, m)
<1>1. /\ g \in Seq(RunMessages) /\ DOMAIN g = 1..n /\ n \in Nat /\ q \in 1..n
      /\ \A i \in 1..n : FactOK(g, q, i) /\ i \in Nat /\ Len(g[i].calls) \in Nat
      /\ g[q].role = "user" /\ g[q].kind = "text"
  BY MessageParts DEF RunShape
<1>2. /\ b \in Seq(RunMessages) /\ Len(b) = n + 1 /\ DOMAIN b = 1..(n + 1)
      /\ b[n + 1] = m /\ \A i \in 1..n : b[i] = g[i] /\ i \in DOMAIN b
  BY <1>1
<1>3. m.id = n + 1
  OBVIOUS
<1>. HIDE DEF n, b
<1>4. \A i \in DOMAIN b : i \in 1..n \/ i = n + 1
  BY <1>1, <1>2
<1>5. RunTurns(b) = RunTurns(g) \cup {n + 1} /\ RunTurns(g) \subseteq 1..n
  BY <1>1, <1>2, <1>4 DEF RunTurns
<1>6. ASSUME NEW t \in RunTurns(g), NEW k \in 1..Len(g[t].calls) PROVE t + k \in 1..n
  <2>1. t \in 1..n /\ t + Len(g[t].calls) \in 1..n
    BY <1>1, <1>5 DEF Settled
  <2>. QED
    BY <1>1, <2>1
<1>7. \A k \in 1..Len(m.calls) : n + 1 + k \notin DOMAIN b
  <2>1. Len(m.calls) \in Nat
    BY MessageParts
  <2>. QED
    BY <1>1, <1>2, <2>1
<1>8. ASSUME NEW i \in 1..n PROVE FactOK(b, q, i)
  <2>1. FactOK(g, q, i) /\ b[i] = g[i]
    BY <1>1, <1>2
  <2>2. \A k \in 1..Len(b[i].calls) : i + k \in DOMAIN b => b[i + k].role = "tool" /\ b[i + k].call = k
    <3>1. ASSUME NEW k \in 1..Len(g[i].calls) PROVE i + k \in 1..n /\ g[i + k].role = "tool" /\ g[i + k].call = k
      <4>1. g[i].calls # <<>>
        BY <3>1
      <4>2. i \in RunTurns(g)
        BY <1>1, <4>1 DEF RunTurns
      <4>3. i + k \in 1..n
        BY <1>6, <4>2
      <4>. QED
        BY <1>1, <2>1, <4>3 DEF FactOK
    <3>. QED
      BY <1>2, <2>1, <3>1
  <2>3. b[i].role = "tool" => \E t \in RunTurns(b) : i \in (t + 1)..(t + Len(b[t].calls))
    <3>1. SUFFICES ASSUME g[i].role = "tool" PROVE \E t \in RunTurns(b) : i \in (t + 1)..(t + Len(b[t].calls))
      BY <2>1
    <3>2. PICK t \in RunTurns(g) : i \in (t + 1)..(t + Len(g[t].calls))
      BY <2>1, <3>1 DEF FactOK
    <3>. QED
      BY <1>2, <1>5, <3>2
  <2>. QED
    BY <2>1, <2>2, <2>3 DEF FactOK
<1>9. FactOK(b, q, n + 1)
  <2>1. n + 1 > q /\ ~(n + 1 <= q)
    BY <1>1
  <2>. QED
    BY <1>2, <1>3, <1>7, <2>1 DEF FactOK
<1>10. RunShape(b, q)
  BY <1>1, <1>2, <1>4, <1>8, <1>9 DEF RunShape
<1>11. Settled(b, {n + 1})
  <2>1. ASSUME NEW t \in RunTurns(g) PROVE t + Len(b[t].calls) \in DOMAIN b
    <3>1. t \in 1..n /\ t + Len(g[t].calls) \in 1..n
      BY <1>1, <1>5 DEF Settled
    <3>. QED
      BY <1>2, <3>1
  <2>. QED
    BY <1>5, <2>1 DEF Settled
<1>12. Run!RefsOf(b) = Run!RefsOf(g)
  <2>1. \A x : x \in Run!RefsOf(b) <=> \E i \in DOMAIN b : b[i].kind = "ref" /\ x = b[i].id
    BY DEF Run!RefsOf
  <2>2. \A x : x \in Run!RefsOf(g) <=> \E i \in DOMAIN g : g[i].kind = "ref" /\ x = g[i].id
    BY DEF Run!RefsOf
  <2>3. \A x : x \in Run!RefsOf(b) <=> x \in Run!RefsOf(g)
    <3>1. ASSUME NEW x, NEW i \in DOMAIN b, b[i].kind = "ref", x = b[i].id PROVE x \in Run!RefsOf(g)
      <4>1. i # n + 1
        BY <1>2, <3>1
      <4>2. i \in DOMAIN g /\ g[i] = b[i]
        BY <1>1, <1>2, <1>4, <4>1
      <4>. QED
        BY <2>2, <3>1, <4>2
    <3>2. ASSUME NEW x, NEW i \in DOMAIN g, g[i].kind = "ref", x = g[i].id PROVE x \in Run!RefsOf(b)
      BY <1>1, <1>2, <2>1, <3>2
    <3>. QED
      BY <2>1, <2>2, <3>1, <3>2
  <2>. QED
    BY <2>3
<1>. DEFINE K == Run!Ids(ms)
            L == K \cup {n + 1}
<1>13. WholeIds(K, g, q, s)
  BY DEF SoundList
<1>. HIDE DEF K
<1>14. WholeIds(L, b, q, s)
  <2>1. q \in L /\ \A i \in DOMAIN b : b[i].kind = "failed" => i \in L
    BY <1>1, <1>2, <1>4, <1>13 DEF WholeIds
  <2>2. ASSUME NEW t \in RunTurns(b), \A u \in RunTurns(b) : u <= t, NEW i \in DOMAIN b, i >= t PROVE i \in L
    <3>1. n + 1 <= t /\ i \in 1..(n + 1) /\ t \in 1..(n + 1)
      BY <1>1, <1>2, <1>5, <2>2
    <3>2. i = n + 1
      BY <1>1, <2>2, <3>1
    <3>. QED
      BY <3>2
  <2>3. ASSUME NEW t \in RunTurns(b), NEW k \in 1..Len(b[t].calls), t + k \in DOMAIN b PROVE t \in L <=> t + k \in L
    <3>1. t # n + 1
      BY <1>2, <1>7, <2>3
    <3>2. t \in RunTurns(g) /\ t \in 1..n /\ b[t].calls = g[t].calls
      BY <1>2, <1>5, <3>1
    <3>3. t + k \in 1..n
      BY <1>6, <2>3, <3>2
    <3>4. t + k # n + 1 /\ t # n + 1
      BY <1>1, <3>2, <3>3
    <3>. QED
      BY <1>1, <1>13, <2>3, <3>2, <3>3, <3>4 DEF WholeIds
  <2>4. \A i \in DOMAIN b : b[i].role = "tool" => i \in L \cup s.covered
    BY <1>1, <1>2, <1>4, <1>13 DEF WholeIds
  <2>5. \A i \in DOMAIN b : b[i].kind = "ref" => i \in L \cup s.refs
    BY <1>1, <1>2, <1>4, <1>13 DEF WholeIds
  <2>6. s.covered # {} => s.summary \in L /\ s.summary < 0
    BY <1>13 DEF WholeIds
  <2>. HIDE DEF L
  <2>. QED
    BY <2>1, <2>2, <2>3, <2>4, <2>5, <2>6 DEF WholeIds
<1>15. SoundList(Append(ms, m), b, q, s)
  <2>1. <<m>> \in Seq(RunMessages) /\ Len(<<m>>) = 1 /\ <<m>>[1] = m
    OBVIOUS
  <2>2. News(<<m>>, n)
    BY <1>3, <2>1 DEF News
  <2>3. Append(ms, m) = ms \o <<m>> /\ b = g \o <<m>>
    <3>1. ms \in Seq(RunMessages)
      BY DEF SoundList
    <3>. QED
      BY <1>1, <3>1 DEF b
  <2>4. (n + 1)..(n + 1) = {n + 1}
    BY <1>1
  <2>5. WholeIds(Run!Ids(ms) \cup ((n + 1)..(n + Len(<<m>>))), g \o <<m>>, q, s)
    BY <1>14, <2>1, <2>3, <2>4 DEF K
  <2>. DEFINE new == <<m>>
  <2>. HIDE DEF new
  <2>6. SoundList(ms \o new, g \o new, q, s)
    BY <2>2, <2>5, NewsKeepLists DEF n, new
  <2>. QED
    BY <2>3, <2>6 DEF new
<1>. QED
  BY <1>2, <1>5, <1>10, <1>11, <1>12, <1>15 DEF b

\* The next id is that of the next place.
LEMMA NextIdIs ==
  ASSUME NEW q, RunShape(given, q)
  PROVE  Run!NewId = Len(given) + 1 /\ Len(given) \in Nat
<1>1. /\ DOMAIN given = 1..Len(given) /\ Len(given) \in Nat /\ Len(given) \in DOMAIN given
      /\ \A i \in DOMAIN given : given[i].id = i
  <2>1. given \in Seq(RunMessages) /\ q \in DOMAIN given /\ \A i \in DOMAIN given : given[i].id = i
    BY DEF RunShape, FactOK
  <2>2. Len(given) \in Nat /\ DOMAIN given = 1..Len(given)
    BY <2>1, MessageParts
  <2>3. Len(given) \in 1..Len(given)
    BY <2>1, <2>2
  <2>. QED
    BY <2>1, <2>2, <2>3
<1>. DEFINE n == Len(given)
            A == {0} \cup Run!Ids(given)
<1>2. A = 0..n
  BY <1>1 DEF Run!Ids
<1>3. Max(A) \in A /\ \A y \in A : Max(A) >= y
  <2>1. A \in SUBSET Nat /\ A # {} /\ \A x \in A : x <= n
    BY <1>1, <1>2
  <2>. HIDE DEF A, n
  <2>. QED
    BY ONLY <1>1, <2>1, MaxOfNumbers DEF n
<1>4. Max(A) = n
  <2>. DEFINE x == Max(A)
  <2>0. n \in A /\ n \in Nat
    BY <1>1, <1>2
  <2>. HIDE DEF n, A
  <2>1. x \in 0..n /\ x >= n
    BY ONLY <1>2, <1>3, <2>0
  <2>. HIDE DEF x
  <2>2. x = n
    BY ONLY <2>0, <2>1
  <2>. QED
    BY <2>2 DEF x
<1>. QED
  BY <1>1, <1>4, RunCounts DEF Run!NewId

\* The model calls tools.
LEMMA ToolCallsKeep ==
  ASSUME RunInv, NEW dangers \in {<<FALSE>>, <<TRUE>>, <<FALSE, FALSE>>}, Run!Calls(dangers)
  PROVE  RunInv'
<1>. DEFINE calls == [i \in DOMAIN dangers |-> [id |-> i, danger |-> dangers[i]]]
            m == Run!Message(Run!NewId, "assistant", "text", 1, calls, 0)
<1>1. /\ phase = "model" /\ msgs' = Append(msgs, m) /\ given' = Append(given, m) /\ phase' \in {"paused", "tools"}
      /\ UNCHANGED <<stored, snap>>
  BY DEF Run!Calls
<1>2. PICK q \in Nat : Whole(q)
  BY <1>1 DEF RunInv
<1>3. /\ RunShape(given, q) /\ SoundList(msgs, given, q, snap) /\ Settled(given, {})
      /\ Run!RefsOf(given) \subseteq DOMAIN stored
  BY <1>1, <1>2 DEF Whole
<1>4. Run!NewId = Len(given) + 1 /\ Len(given) \in Nat
  BY <1>3, NextIdIs
<1>5. calls \in Seq(RunCalls) /\ calls # <<>> /\ Len(calls) \in 1..2
  <2>1. PICK l \in 1..2 : DOMAIN dangers = 1..l /\ \A i \in 1..l : dangers[i] \in BOOLEAN
    <3>1. CASE dangers = <<FALSE>>
      <4>1. 1 \in 1..2 /\ DOMAIN dangers = 1..1 /\ dangers[1] \in BOOLEAN
        BY <3>1
      <4>. QED
        BY <4>1
    <3>3. CASE dangers = <<TRUE>>
      <4>1. 1 \in 1..2 /\ DOMAIN dangers = 1..1 /\ dangers[1] \in BOOLEAN
        BY <3>3
      <4>. QED
        BY <4>1
    <3>2. CASE dangers = <<FALSE, FALSE>>
      <4>1. 2 \in 1..2 /\ DOMAIN dangers = 1..2 /\ dangers[1] \in BOOLEAN /\ dangers[2] \in BOOLEAN
        BY <3>2
      <4>. QED
        BY <4>1
    <3>. QED
      BY <3>1, <3>2, <3>3
  <2>2. calls \in [1..l -> RunCalls] /\ l \in Nat
    BY <2>1 DEF RunCalls
  <2>. HIDE DEF calls
  <2>3. calls \in Seq(RunCalls) /\ Len(calls) = l
    BY ONLY <2>2
  <2>. QED
    BY <2>3
<1>. HIDE DEF calls
<1>6. /\ m \in RunMessages /\ m.id = Len(given) + 1 /\ m.role = "assistant" /\ m.kind = "text"
      /\ m.calls # <<>> /\ Len(m.calls) \in 1..2
  BY <1>4, <1>5 DEF Run!Message, RunMessages, RunRoles, RunKinds
<1>. HIDE DEF m
<1>7. /\ RunShape(given', q) /\ SoundList(msgs', given', q, snap)
      /\ Len(given') \in RunTurns(given') /\ Settled(given', {Len(given')}) /\ Run!RefsOf(given') = Run!RefsOf(given)
  BY <1>1, <1>3, <1>6, CallAdded
<1>8. Whole(q)'
  BY <1>1, <1>3, <1>7 DEF Whole
<1>. QED
  BY <1>1, <1>8 DEF RunInv, Snaps

\* The results of the latest calls.
ResultsOf(new, n) ==
    /\ new \in Seq(RunMessages)
    /\ \A i \in 1..Len(new) : /\ new[i].id = n + i /\ new[i].role = "tool" /\ new[i].calls = <<>> /\ new[i].call = i
                              /\ new[i].kind \in {"text", "failed", "page", "ref"}

LEMMA ResultsAdded ==
  ASSUME NEW g, NEW q, RunShape(g, q), Len(g) \in RunTurns(g), Settled(g, {Len(g)}),
         NEW ms, NEW s, SoundList(ms, g, q, s),
         NEW new, ResultsOf(new, Len(g)), Len(new) = Len(g[Len(g)].calls)
  PROVE  LET b == g \o new
         IN  /\ RunShape(b, q) /\ SoundList(ms \o new, b, q, s) /\ Settled(b, {})
             /\ \A x \in Run!RefsOf(b) : x \in Run!RefsOf(g) \/ \E i \in 1..Len(new) : new[i].kind = "ref" /\ x = new[i].id
<1>. DEFINE n == Len(g)
            l == Len(new)
            b == g \o new
<1>1. /\ g \in Seq(RunMessages) /\ DOMAIN g = 1..n /\ n \in Nat /\ q \in 1..n
      /\ \A i \in 1..n : FactOK(g, q, i) /\ i \in Nat /\ Len(g[i].calls) \in Nat
      /\ g[q].role = "user" /\ g[q].kind = "text"
  BY MessageParts DEF RunShape
<1>2. /\ new \in Seq(RunMessages) /\ l \in Nat /\ DOMAIN new = 1..l
      /\ \A i \in 1..l : /\ new[i].id = n + i /\ new[i].role = "tool" /\ new[i].calls = <<>> /\ new[i].call = i
                         /\ new[i].kind \in {"text", "failed", "page", "ref"}
  BY MessageParts DEF ResultsOf
<1>3. /\ b \in Seq(RunMessages) /\ Len(b) = n + l /\ DOMAIN b = 1..(n + l)
      /\ \A i \in 1..n : b[i] = g[i] /\ i \in 1..(n + l)
      /\ \A i \in 1..l : b[n + i] = new[i] /\ n + i \in 1..(n + l)
  BY <1>1, <1>2
<1>4. n \in RunTurns(g) /\ n \in 1..n /\ l = Len(g[n].calls) /\ q < n
  <2>1. n \in RunTurns(g) /\ n > q /\ n \in 1..n
    BY <1>1, BehindTheQuestion DEF RunTurns
  <2>. QED
    BY <1>1, <2>1
<1>. HIDE DEF n, b, l
<1>5. \A i \in DOMAIN b : i \in 1..n \/ \E j \in 1..l : i = n + j
  <2>1. ASSUME NEW i \in 1..(n + l), i \notin 1..n PROVE i - n \in 1..l /\ i = n + (i - n)
    BY <1>1, <1>2, <2>1
  <2>. QED
    BY <1>3, <2>1
<1>6. RunTurns(b) = RunTurns(g) /\ RunTurns(g) \subseteq 1..n
  <2>1. ASSUME NEW i \in RunTurns(b) PROVE i \in RunTurns(g)
    <3>1. i \in DOMAIN b /\ b[i].calls # <<>>
      BY <2>1 DEF RunTurns
    <3>2. i \in 1..n
      BY <1>2, <1>3, <1>5, <3>1
    <3>. QED
      BY <1>1, <1>3, <3>1, <3>2 DEF RunTurns
  <2>2. ASSUME NEW i \in RunTurns(g) PROVE i \in RunTurns(b) /\ i \in 1..n
    BY <1>1, <1>3, <2>2 DEF RunTurns
  <2>. QED
    BY <2>1, <2>2
<1>7. ASSUME NEW t \in RunTurns(g), t # n, NEW k \in 1..Len(g[t].calls) PROVE t + k \in 1..n
  <2>1. t \in 1..n /\ t + Len(g[t].calls) \in 1..n
    BY <1>1, <1>6, <1>7 DEF Settled, n
  <2>. QED
    BY <1>1, <2>1
<1>8. ASSUME NEW i \in 1..n PROVE FactOK(b, q, i)
  <2>1. FactOK(g, q, i) /\ b[i] = g[i]
    BY <1>1, <1>3
  <2>2. ASSUME NEW k \in 1..Len(g[i].calls) PROVE b[i + k].role = "tool" /\ b[i + k].call = k
    <3>1. CASE i = n
      <4>1. k \in 1..l
        BY <1>4, <3>1
      <4>. QED
        BY <1>2, <1>3, <3>1, <4>1
    <3>2. CASE i # n
      <4>1. g[i].calls # <<>>
        BY <2>2
      <4>2. i \in RunTurns(g)
        BY <1>1, <4>1 DEF RunTurns
      <4>3. i + k \in 1..n
        BY <1>7, <3>2, <4>2
      <4>. QED
        BY <1>1, <1>3, <2>1, <4>3 DEF FactOK
    <3>. QED
      BY <3>1, <3>2
  <2>3. g[i].role = "tool" => \E t \in RunTurns(b) : i \in (t + 1)..(t + Len(b[t].calls))
    <3>1. SUFFICES ASSUME g[i].role = "tool" PROVE \E t \in RunTurns(b) : i \in (t + 1)..(t + Len(b[t].calls))
      OBVIOUS
    <3>2. PICK t \in RunTurns(g) : i \in (t + 1)..(t + Len(g[t].calls))
      BY <2>1, <3>1 DEF FactOK
    <3>. QED
      BY <1>3, <1>6, <3>2
  <2>. QED
    BY <2>1, <2>2, <2>3 DEF FactOK
<1>9. ASSUME NEW j \in 1..l PROVE FactOK(b, q, n + j)
  <2>1. n + j > q /\ ~(n + j <= q)
    BY <1>1, <1>2, <1>4
  <2>2. b[n + j].calls = <<>> /\ Len(b[n + j].calls) = 0
    BY <1>2, <1>3
  <2>3. \E t \in RunTurns(b) : n + j \in (t + 1)..(t + Len(b[t].calls))
    <3>1. n \in RunTurns(b) /\ b[n] = g[n] /\ Len(b[n].calls) = l
      BY <1>3, <1>4, <1>6
    <3>2. n + j \in (n + 1)..(n + l)
      BY <1>1, <1>2
    <3>. QED
      BY <3>1, <3>2
  <2>. QED
    BY <1>2, <1>3, <2>1, <2>2, <2>3 DEF FactOK
<1>10. RunShape(b, q)
  <2>1. q \in DOMAIN b /\ b[q] = g[q]
    BY <1>1, <1>3
  <2>. QED
    BY <1>1, <1>3, <1>5, <1>8, <1>9, <2>1 DEF RunShape
<1>11. Settled(b, {})
  <2>1. ASSUME NEW t \in RunTurns(g) PROVE t + Len(b[t].calls) \in DOMAIN b
    <3>0. t \in 1..n /\ b[t] = g[t]
      BY <1>3, <1>6
    <3>1. CASE t = n
      <4>1. n + l \in 1..(n + l)
        BY <1>1, <1>2, <1>4
      <4>. QED
        BY <1>3, <1>4, <3>0, <3>1, <4>1
    <3>2. CASE t # n
      <4>1. t + Len(g[t].calls) \in 1..n
        BY <1>1, <3>2 DEF Settled, n
      <4>. QED
        BY <1>3, <3>0, <4>1
    <3>. QED
      BY <3>1, <3>2
  <2>. QED
    BY <1>6, <2>1 DEF Settled
<1>12. \A x \in Run!RefsOf(b) : x \in Run!RefsOf(g) \/ \E i \in 1..l : new[i].kind = "ref" /\ x = new[i].id
  <2>1. ASSUME NEW x \in Run!RefsOf(b)
        PROVE  x \in Run!RefsOf(g) \/ \E i \in 1..l : new[i].kind = "ref" /\ x = new[i].id
    <3>1. PICK i \in DOMAIN b : b[i].kind = "ref" /\ x = b[i].id
      BY DEF Run!RefsOf
    <3>2. CASE i \in 1..n
      BY <1>1, <1>3, <3>1, <3>2 DEF Run!RefsOf
    <3>3. ASSUME NEW j \in 1..l, i = n + j PROVE new[j].kind = "ref" /\ x = new[j].id
      BY <1>3, <3>1, <3>3
    <3>. QED
      BY <1>5, <3>2, <3>3
  <2>. QED
    BY <2>1
<1>. DEFINE K == Run!Ids(ms)
            L == K \cup ((n + 1)..(n + l))
<1>13. WholeIds(K, g, q, s)
  BY DEF SoundList
<1>. HIDE DEF K
<1>14. \A j \in 1..l : n + j \in L /\ n + j \notin 1..n
  BY <1>1, <1>2
<1>15. \A i \in 1..n : i \in L <=> i \in K
  BY <1>1, <1>2
<1>. HIDE DEF L
<1>16. \A i \in DOMAIN b : i \in 1..n \/ i \in L
  BY <1>5, <1>14
<1>17. WholeIds(L, b, q, s)
  <2>1. q \in L /\ \A i \in DOMAIN b : b[i].kind = "failed" => i \in L
    BY <1>1, <1>3, <1>13, <1>15, <1>16 DEF WholeIds
  <2>2. ASSUME NEW t \in RunTurns(b), \A u \in RunTurns(b) : u <= t, NEW i \in DOMAIN b, i >= t PROVE i \in L
    BY <1>1, <1>6, <1>13, <1>15, <1>16, <2>2 DEF WholeIds
  <2>3. ASSUME NEW t \in RunTurns(b), NEW k \in 1..Len(b[t].calls), t + k \in DOMAIN b PROVE t \in L <=> t + k \in L
    <3>1. t \in RunTurns(g) /\ t \in 1..n /\ b[t].calls = g[t].calls
      BY <1>3, <1>6
    <3>2. CASE t = n
      <4>1. k \in 1..l
        BY <1>4, <2>3, <3>1, <3>2
      <4>2. \A u \in RunTurns(g) : u <= n
        BY <1>1, <1>6
      <4>3. n \in K
        BY <1>1, <1>4, <1>13, <4>2 DEF WholeIds
      <4>. QED
        BY <1>4, <1>14, <1>15, <3>2, <4>1, <4>3
    <3>3. CASE t # n
      <4>1. t + k \in 1..n
        BY <1>7, <2>3, <3>1, <3>3
      <4>2. t \in K <=> t + k \in K
        BY <1>1, <1>13, <2>3, <3>1, <4>1 DEF WholeIds
      <4>. QED
        BY <1>15, <3>1, <4>1, <4>2
    <3>. QED
      BY <3>2, <3>3
  <2>4. \A i \in DOMAIN b : b[i].role = "tool" => i \in L \cup s.covered
    BY <1>1, <1>3, <1>13, <1>15, <1>16 DEF WholeIds
  <2>5. \A i \in DOMAIN b : b[i].kind = "ref" => i \in L \cup s.refs
    BY <1>1, <1>3, <1>13, <1>15, <1>16 DEF WholeIds
  <2>6. s.covered # {} => s.summary \in L /\ s.summary < 0
    BY <1>13 DEF WholeIds, L
  <2>. QED
    BY <2>1, <2>2, <2>3, <2>4, <2>5, <2>6 DEF WholeIds
<1>18. SoundList(ms \o new, b, q, s)
  <2>1. News(new, n)
    BY <1>2 DEF News, l
  <2>2. WholeIds(Run!Ids(ms) \cup ((Len(g) + 1)..(Len(g) + Len(new))), g \o new, q, s)
    BY <1>17 DEF L, K, n, l, b
  <2>. QED
    BY <2>1, <2>2, NewsKeepLists DEF n, b
<1>. QED
  BY <1>10, <1>11, <1>12, <1>18 DEF b, l

\* The tools return.
LEMMA ToolsKeep ==
  ASSUME RunInv, NEW c \in 1..2, NEW kinds \in [1..c -> Run!Kinds], Run!ToolsReturn(kinds)
  PROVE  RunInv'
<1>. DEFINE call == given[Len(given)]
            stores(i) == kinds[i] = "large" /\ ~call.calls[i].danger
            kindOf(i) == IF kinds[i] = "failed" THEN "failed" ELSE IF kinds[i] = "page" THEN "page" ELSE IF stores(i) THEN "ref" ELSE "text"
            sizeOf(i) == IF kinds[i] = "large" THEN Large ELSE IF kinds[i] = "page" THEN 1 + Run!RefHead ELSE 1
            results == [i \in DOMAIN kinds |-> Run!Message(Run!NewId + i - 1, "tool", kindOf(i), sizeOf(i), <<>>, i)]
            news == {i \in DOMAIN kinds : stores(i)}
<1>1. /\ phase = "tools" /\ Len(kinds) = Len(call.calls)
      /\ \/ phase' = "failed" /\ UNCHANGED <<msgs, snap, runSent>>
         \/ /\ stored' = [id \in DOMAIN stored \cup {results[i].id : i \in news} |-> Large]
            /\ msgs' = msgs \o results /\ given' = given \o results /\ phase' = "ready" /\ UNCHANGED snap
  BY DEF Run!ToolsReturn, Run!Fail
<1>2. PICK q \in Nat : Whole(q)
  BY <1>1 DEF RunInv
<1>3. /\ RunShape(given, q) /\ SoundList(msgs, given, q, snap)
      /\ Len(given) \in RunTurns(given) /\ Settled(given, {Len(given)})
      /\ Run!RefsOf(given) \subseteq DOMAIN stored
  BY <1>1, <1>2 DEF Whole
<1>4. Run!NewId = Len(given) + 1 /\ Len(given) \in Nat
  BY <1>3, NextIdIs
<1>5. DOMAIN kinds = 1..c /\ Len(kinds) = c /\ c \in Nat
  <2>1. c \in Nat
    OBVIOUS
  <2>2. kinds \in Seq(Run!Kinds) /\ Len(kinds) = c
    BY ONLY <2>1, kinds \in [1..c -> Run!Kinds]
  <2>. QED
    BY <2>1, <2>2
<1>6. \A i \in 1..c : sizeOf(i) \in Nat /\ kindOf(i) \in {"text", "failed", "page", "ref"} /\ (kindOf(i) = "ref" => stores(i))
  BY RunSizes DEF Run!RefHead
<1>. HIDE DEF sizeOf, kindOf, stores
<1>7. \A i \in 1..c : /\ results[i] \in RunMessages /\ results[i].id = Len(given) + i /\ results[i].role = "tool"
                      /\ results[i].kind = kindOf(i) /\ results[i].calls = <<>> /\ results[i].call = i
  <2>1. ASSUME NEW i \in 1..c
        PROVE  /\ results[i] \in RunMessages /\ results[i].id = Len(given) + i /\ results[i].role = "tool"
               /\ results[i].kind = kindOf(i) /\ results[i].calls = <<>> /\ results[i].call = i
    <3>1. /\ results[i] = Run!Message(Run!NewId + i - 1, "tool", kindOf(i), sizeOf(i), <<>>, i)
          /\ Run!NewId + i - 1 = Len(given) + i /\ Len(given) + i \in Int /\ i \in Nat
      BY <1>4, <1>5
    <3>2. kindOf(i) \in RunKinds /\ sizeOf(i) \in Nat /\ "tool" \in RunRoles /\ <<>> \in Seq(RunCalls)
      BY <1>6 DEF RunKinds, RunRoles
    <3>. QED
      BY <3>1, <3>2 DEF Run!Message, RunMessages
  <2>. QED
    BY <2>1
<1>8. DOMAIN results = 1..c /\ results \in [1..c -> RunMessages]
  BY <1>5, <1>7
<1>. HIDE DEF results
<1>9. results \in Seq(RunMessages) /\ Len(results) = c
  BY ONLY <1>5, <1>8
<1>10. ResultsOf(results, Len(given))
  BY <1>6, <1>7, <1>9 DEF ResultsOf
<1>11. CASE phase' = "failed" /\ UNCHANGED <<msgs, snap, runSent>>
  BY <1>11 DEF RunInv, Snaps
<1>12. CASE /\ stored' = [id \in DOMAIN stored \cup {results[i].id : i \in news} |-> Large]
            /\ msgs' = msgs \o results /\ given' = given \o results /\ phase' = "ready" /\ UNCHANGED snap
  <2>1. Len(results) = Len(given[Len(given)].calls)
    BY <1>1, <1>5, <1>9
  <2>2. /\ RunShape(given', q) /\ SoundList(msgs', given', q, snap) /\ Settled(given', {})
        /\ \A x \in Run!RefsOf(given') : \/ x \in Run!RefsOf(given)
                                         \/ \E i \in 1..Len(results) : results[i].kind = "ref" /\ x = results[i].id
    <3>. DEFINE b == given \o results
    <3>1. /\ RunShape(b, q) /\ SoundList(msgs \o results, b, q, snap) /\ Settled(b, {})
          /\ \A x \in Run!RefsOf(b) : \/ x \in Run!RefsOf(given)
                                      \/ \E i \in 1..Len(results) : results[i].kind = "ref" /\ x = results[i].id
      BY ONLY <1>3, <1>10, <2>1, ResultsAdded
    <3>2. given' = b /\ msgs' = msgs \o results
      BY <1>12
    <3>. HIDE DEF b
    <3>. QED
      BY ONLY <3>1, <3>2
  <2>3. DOMAIN stored' = DOMAIN stored \cup {results[i].id : i \in news}
    BY <1>12
  <2>4. \A i \in 1..Len(results) : results[i].kind = "ref" => i \in news
    BY <1>5, <1>6, <1>7, <1>9
  <2>5. Run!RefsOf(given') \subseteq DOMAIN stored'
    BY <1>3, <2>2, <2>3, <2>4
  <2>6. Whole(q)'
    BY <1>12, <2>2, <2>5 DEF Whole
  <2>. QED
    BY <1>12, <2>6 DEF RunInv, Snaps
<1>. QED
  BY <1>1, <1>11, <1>12

LEMMA RunStays == RunInv /\ [Run!ContextNext]_runVars => RunInv'
<1>. SUFFICES ASSUME RunInv, [Run!ContextNext]_runVars PROVE RunInv'
  OBVIOUS
<1>1. CASE UNCHANGED runVars
  BY <1>1 DEF runVars, RunInv, Whole
<1>2. ASSUME NEW ok \in BOOLEAN, NEW rejections \in 0..2, Run!BeforeModel(ok, rejections) PROVE RunInv'
  BY <1>2, BeforeModelKeeps
<1>3. CASE Run!Answers
  BY <1>3 DEF Run!Answers, RunInv, Snaps
<1>4. CASE Run!Resume
  BY <1>4 DEF Run!Resume, RunInv, Whole
<1>5. CASE Run!Expires
  BY <1>5 DEF Run!Expires, RunInv, Whole
<1>6. CASE Run!DeleteExpired
  BY <1>6 DEF Run!DeleteExpired, RunInv, Snaps
<1>7. ASSUME NEW dangers \in {<<FALSE>>, <<TRUE>>, <<FALSE, FALSE>>}, Run!Calls(dangers) PROVE RunInv'
  BY <1>7, ToolCallsKeep
<1>8. ASSUME NEW n \in 1..2, NEW kinds \in [1..n -> Run!Kinds], Run!ToolsReturn(kinds) PROVE RunInv'
  BY <1>8, ToolsKeep
<1>. QED
  BY <1>1, <1>2, <1>3, <1>4, <1>5, <1>6, <1>7, <1>8 DEF Run!ContextNext

-----------------------------------------------------------------------------
(* The parts together.                                                     *)

\* A step is a step of the part the behaviour is of.
LEMMA OnePartAtATime ==
  ASSUME [Next]_vars
  PROVE  /\ part' = part
         /\ part = "session" => [SessionNext]_sessionVars
         /\ part = "retrieval" => [RetrievalNext]_retrievalVars
         /\ part = "run" => [Run!ContextNext]_runVars
         /\ part = "text" => [Text!TextNext]_textVars
         /\ part = "asked" => [Asked!QueryNext]_askVars
BY DEF Next, vars

\* The chunks of every document, whatever its length and the sizes that are configured, are its text with the vectors
\* of their words; and however the requests for the vectors of questions overlap, each is paid for once for every entry
\* of Redis that is lost, and the map in the process stays in its bounds (TextVectors and QueryVectors).
THEOREM VectorsStayTrue == Spec => []VectorsAreTrue
<1> DEFINE Inv == (part = "text" => TextInv) /\ (part = "asked" => AskedInv)
<1>1. Init => Inv
  BY TextStarts, AskedStarts DEF Init
<1>2. Inv /\ [Next]_vars => Inv'
  BY OnePartAtATime, TextStays, AskedStays
<1>3. Inv => VectorsAreTrue
  BY ChunksAreGood, AskedIsGood DEF VectorsAreTrue
<1> QED
  BY <1>1, <1>2, <1>3, PTL DEF Spec, vars

\* Whatever a session's turns, failures and refreshes do to each other, and whatever a search recalls, no context shows
\* a message twice, out of order, or one that the summary beside it covers; what is recalled stays in its share, and
\* the history in the rest, but for a marker or for what an open question keeps at least (SessionContext).
THEOREM ContextsStaySound == Spec => []ContextsAreSound
<1> DEFINE Inv == part = "session" => SummaryInv /\ TurnInv
<1>1. Init => Inv
  BY TurnsStart DEF Init
<1>2. Inv /\ [Next]_vars => Inv'
  BY OnePartAtATime, TurnsStay
<1>3. Inv => ContextsAreSound
  BY SessionIsGood DEF ContextsAreSound
<1> QED
  BY <1>1, <1>2, <1>3, PTL DEF Spec, vars

\* The stored summary covers the session's beginning without a hole and never less of it, however refreshes overlap
\* and fail, in every session of any length (SessionContext).
THEOREM SummariesKeepGrowing == Spec => SummariesGrow
<1> DEFINE Inv == part = "session" => SummaryInv
<1>1. Init => Inv
  BY SummaryStarts DEF Init
<1>2. Inv /\ [Next]_vars => Inv' /\ [part = "session" => GrowsAsPrefix]_sessionVars
  BY OnePartAtATime, SummaryGrows
<1> QED
  BY <1>1, <1>2, PTL DEF Spec, vars, SummariesGrow

\* Whatever the two searches find, whichever of them fails, whatever the reranking answers or how often it fails, and
\* while documents are deleted, the best hit of a side that answered is kept while there is room, and passages are
\* compared by scores of one kind (Retrieval).
THEOREM HitsStayRanked == Spec => []HitsAreRanked
<1> DEFINE Inv == part = "retrieval" => RetrievalInv
<1>1. Init => Inv
  BY RetrievalStarts DEF Init
<1>2. Inv /\ [Next]_vars => Inv'
  BY OnePartAtATime, RetrievalStays
<1>3. Inv => HitsAreRanked
  BY RetrievalIsGood DEF HitsAreRanked
<1> QED
  BY <1>1, <1>2, <1>3, PTL DEF Spec, vars

\* Whatever the tools return, whichever summaries fail and however often the model finds a request too long, each call in a
\* request stands with all of its results, the question, the latest round and every failure are in it, the rest is in the
\* summary, the request leaves room for its output, and the stored results can be read again while the run may go on, for
\* every window, mark and quota (RunContext).
THEOREM RequestsStayWhole == Spec => []RequestsAreWhole
<1> DEFINE Inv == part = "run" => RunInv
<1>1. Init => Inv
  BY RunStarts DEF Init
<1>2. Inv /\ [Next]_vars => Inv'
  BY OnePartAtATime, RunStays
<1>3. Inv => RequestsAreWhole
  BY RunIsGood DEF RequestsAreWhole
<1> QED
  BY <1>1, <1>2, <1>3, PTL DEF Spec, vars

=============================================================================
