----------------------------- MODULE Retrieval ------------------------------
(***************************************************************************)
(* One search of the knowledge bases: the vector and the keyword search    *)
(* side by side, their fusion, the optional reranking by a remote service, *)
(* the optional expansion to neighbouring chunks, and the sources the tool *)
(* collects (internal/rag, internal/tool/knowledge_search.go).  Documents  *)
(* are deleted meanwhile.  A chunk is a number, the order of its id; its   *)
(* text is its place in the document, its size and the words it has.       *)
(***************************************************************************)
EXTENDS Naturals, Sequences, SequencesExt, FiniteSetsExt, FiniteSets, Lists

CONSTANTS Place,          \* the chunks: [Chunks -> [document, index, size, words]]
          Scores,         \* the scores a chunk may get from a side, in hundredths
          Threshold, KeywordFloor, RerankFloor,
          TopK, TopN, Multiplier,
          Retries,        \* maxRetries of the rerank call
          Window, MaxSize, DedupeAt

Chunks == DOMAIN Place
Documents == {Place[c].document : c \in Chunks}

ASSUME RetrievalSizes == /\ Chunks \subseteq Nat /\ IsFiniteSet(Chunks) /\ \A c \in Chunks : Place[c].index \in Nat
                         /\ Scores \subseteq 0..100 /\ {Retries, Window} \subseteq Nat
                         /\ {TopK, TopN, Multiplier} \subseteq Nat \ {0}

VARIABLES setup,    \* which decorators are switched on
          visible,  \* documents that are not deleted
          step, vector, keyword, found, tries, left, sources

retrievalVars == <<setup, visible, step, vector, keyword, found, tries, left, sources>>

Pending == [state |-> "pending", list |-> <<>>]
Failed  == [state |-> "failed", list |-> <<>>]

RetrievalInit ==
    /\ setup \in [rerank : BOOLEAN, expand : BOOLEAN]
    /\ visible = Documents
    /\ step = "search" /\ vector = Pending /\ keyword = Pending
    /\ found = <<>> /\ tries = 0 /\ left = {} /\ sources = <<>>

-----------------------------------------------------------------------------
(* Ranking and filters.                                                    *)

Better(a, b) == a.score > b.score \/ (a.score = b.score /\ a.id < b.id)
BestFirst(hits) == Ranked(hits, {p \in hits \X hits : Better(p[1], p[2])})

\* candidateLimitWith
CandidateLimit == TopK * Multiplier
Cut(s, n) == SubSeq(s, 1, Min({n, Len(s)}))

\* The rows a search reads: visible chunks, best first and by id among equals.
Hits(score) == Cut(BestFirst({[id |-> c, score |-> score[c]] : c \in {c \in Chunks : Place[c].document \in visible}}),
                   CandidateLimit)

AtLeast(s, floor) == Picked(s, {i \in DOMAIN s : s[i].score >= floor})
VectorPassing == AtLeast(vector.list, Threshold)

\* keywordSourceFilter: far ahead of the fifth, only the first counts.
Steep(s) == LET last == s[Min({5, Len(s)})]
            IN  Len(s) >= 2 /\ s[1].score > 0 /\ 10 * (s[1].score - last.score) > 8 * s[1].score

\* Without any vector hit a keyword hit needs a least score.
KeywordPassing == LET sharp == IF Steep(keyword.list) THEN <<keyword.list[1]>> ELSE keyword.list
                  IN  IF VectorPassing = <<>> THEN AtLeast(sharp, KeywordFloor) ELSE sharp

\* Mutant: hits that all score the same count for nothing.
Normal_EqualIsNothing(h, s) == LET least == s[Len(s)].score
                                   span  == s[1].score - least
                               IN  IF Len(s) = 1 THEN 20 ELSE IF span = 0 THEN 0 ELSE (20 * (h.score - least)) \div span

\* minMaxNormalize, in twentieths: one hit, or hits that all score the same, count in full.
Normal(h, s) == LET least == s[Len(s)].score
                    span  == s[1].score - least
                IN  IF span = 0 THEN 20 ELSE (20 * (h.score - least)) \div span

\* reciprocalRankFusion: weights 7 to 3.
Unit == RankUnit(CandidateLimit)
RankScore(c, s) == Reciprocal(Unit, {i \in DOMAIN s : s[i].id = c})
Ids(s) == {h.id : h \in Range(s)}
Fusion(v, k) ==
    BestFirst({[id |-> c, score |-> 7 * RankScore(c, v) + 3 * RankScore(c, k)] : c \in Ids(v) \cup Ids(k)})

\* crossSourceFilter: found by one side only, a hit must not be at the end of that side's scale.
Confirmed(c, v, k) ==
    \/ c \in Ids(v) \cap Ids(k)
    \/ c \notin Ids(k) /\ \E h \in Range(v) : h.id = c /\ Normal(h, v) >= 1
    \/ c \notin Ids(v) /\ \E h \in Range(k) : h.id = c /\ Normal(h, k) >= 1

Passage(h) == [id |-> h.id, document |-> Place[h.id].document, from |-> Place[h.id].index, to |-> Place[h.id].index,
               score |-> h.score, by |-> "fusion"]

Fused ==
    LET v == VectorPassing
        k == KeywordPassing
        all  == Fusion(v, k)
        kept == Picked(all, {i \in DOMAIN all : Confirmed(all[i].id, v, k)})
    IN  [i \in DOMAIN Cut(kept, TopK) |-> Passage(kept[i])]

-----------------------------------------------------------------------------
(* HybridRetriever.                                                        *)

\* A side fails, or the embedding of the question does.
VectorSearch ==
    /\ step = "search" /\ vector = Pending
    /\ vector' \in {Failed} \cup {[state |-> "ok", list |-> Hits(score)] : score \in [Chunks -> Scores]}
    /\ UNCHANGED <<setup, visible, step, keyword, found, tries, left, sources>>

\* A chunk that shares no word with the question is no hit.
KeywordSearch ==
    /\ step = "search" /\ keyword = Pending
    /\ keyword' \in {Failed} \cup {[state |-> "ok", list |-> AtLeast(Hits(score), 1)] :
                                    score \in [Chunks -> Scores]}
    /\ UNCHANGED <<setup, visible, step, vector, found, tries, left, sources>>

After(part, passages) ==
    IF passages = <<>> THEN "done"
    ELSE IF part = "search" /\ setup.rerank THEN "rerank"
    ELSE IF setup.expand THEN "expand" ELSE "collect"

\* The documents whose passages the expansion has still to replace.
Expanding(passages) == {p.document : p \in Range(passages)}

\* A failed side counts as empty; both failing is an error.
Fuse ==
    /\ step = "search" /\ Pending \notin {vector, keyword}
    /\ IF {vector, keyword} = {Failed}
       THEN found' = <<>> /\ step' = "failed" /\ left' = {}
       ELSE found' = Fused /\ step' = After("search", Fused) /\ left' = Expanding(Fused)
    /\ UNCHANGED <<setup, visible, vector, keyword, tries, sources>>

-----------------------------------------------------------------------------
(* RerankRetriever.                                                        *)

\* Mutant: passages the service did not score stay with their old score.
Reranked_KeepsOthers(score) ==
    LET scored == {IF p.id \in DOMAIN score THEN [p EXCEPT !.score = score[p.id], !.by = "rerank"] ELSE p : p \in Range(found)}
    IN  Cut(AtLeast(BestFirst(scored), RerankFloor), TopN)

\* The service scores some of the passages, the others are out.
Reranked(score) ==
    LET scored == {[p EXCEPT !.score = score[p.id], !.by = "rerank"] : p \in {p \in Range(found) : p.id \in DOMAIN score}}
    IN  Cut(AtLeast(BestFirst(scored), RerankFloor), TopN)

Rerank ==
    /\ step = "rerank"
    /\ \E some \in SUBSET {p.id : p \in Range(found)} : \E score \in [some -> Scores] :
          /\ found' = Reranked(score) /\ step' = After("rerank", Reranked(score)) /\ left' = Expanding(Reranked(score))
    /\ UNCHANGED <<setup, visible, vector, keyword, tries, sources>>

\* An error that a repetition may mend is repeated; after the last one, or another error, the fused passages stay.
RerankFails ==
    /\ step = "rerank"
    /\ \/ tries < Retries /\ tries' = tries + 1 /\ UNCHANGED step
       \/ step' = After("rerank", found) /\ UNCHANGED tries
    /\ UNCHANGED <<setup, visible, vector, keyword, found, left, sources>>

-----------------------------------------------------------------------------
(* ExpandRetriever: the documents in the order of a map.                   *)

Of(d) == Picked(found, {i \in DOMAIN found : found[i].document = d})
ScoreOf(ps) == Max({p.score : p \in Range(ps)})

\* mergeContiguousChunks: the chunk there is at i joins the segment before it, or begins one where the size would be
\* exceeded.
Merged(d, segments, i) ==
    LET There == \E c \in Chunks : Place[c].document = d /\ Place[c].index = i
        SizeAt(k) == Place[CHOOSE c \in Chunks : Place[c].document = d /\ Place[c].index = k].size
        Size(s)   == MapThenSumSet(SizeAt, s.from..s.to)
        Grows     == segments # <<>> /\ Last(segments).to = i - 1 /\ Size(Last(segments)) + SizeAt(i) <= MaxSize
    IN  IF ~There THEN segments
        ELSE IF Grows THEN [segments EXCEPT ![Len(segments)].to = i]
        ELSE Append(segments, [from |-> i, to |-> i])
Segments(d, first, last) ==
    LET segments[i \in first..(last + 1)] == IF i = first THEN <<>> ELSE Merged(d, segments[i - 1], i - 1)
    IN  segments[last + 1]

\* expandDocumentChunks: every segment carries the first hit's id; one without a hit scores half.
ExpandedDocument(d) ==
    LET hits  == {p.from : p \in Range(Of(d))}
        range == Segments(d, IF Min(hits) > Window THEN Min(hits) - Window ELSE 0, Max(hits) + Window)
        Scored(s) == IF hits \cap s.from..s.to # {} THEN ScoreOf(Of(d)) ELSE ScoreOf(Of(d)) \div 2
    IN  IF d \notin visible THEN <<>>
        ELSE [i \in DOMAIN range |-> [Of(d)[1] EXCEPT !.from = range[i].from, !.to = range[i].to, !.score = Scored(range[i])]]

\* A read that fails leaves the document's passages as they are.
Expand(d) ==
    /\ step = "expand" /\ d \in left
    /\ \E ps \in {ExpandedDocument(d), Of(d)} : found' = Picked(found, {i \in DOMAIN found : found[i].document # d}) \o ps
    /\ left' = left \ {d}
    /\ UNCHANGED <<setup, visible, step, vector, keyword, tries, sources>>

\* deduplicate: a passage goes when its words are almost those of an earlier one.
Words(p) == UNION {Place[c].words : c \in {c \in Chunks : Place[c].document = p.document /\ Place[c].index \in p.from..p.to}}
Alike(p, q) == 100 * Cardinality(Words(p) \cap Words(q)) >= DedupeAt * Cardinality(Words(p) \cup Words(q))
Deduplicated(ps) ==
    LET kept[i \in 0..Len(ps)] ==
            IF i = 0 THEN {}
            ELSE LET before == kept[i - 1]
                 IN  IF \E j \in before : Alike(ps[i], ps[j]) THEN before ELSE before \cup {i}
    IN  Picked(ps, kept[Len(ps)])

Deduplicate ==
    /\ step = "expand" /\ left = {}
    /\ found' = Deduplicated(found)
    /\ step' = IF found = <<>> THEN "done" ELSE "collect"
    /\ UNCHANGED <<setup, visible, vector, keyword, tries, left, sources>>

-----------------------------------------------------------------------------
\* The tool's sources: of the passages with one id the first.
Collected(ps) == Picked(ps, {i \in DOMAIN ps : \A j \in 1..(i - 1) : ps[j].id # ps[i].id})

Collect ==
    /\ step = "collect"
    /\ sources' = Collected(found) /\ step' = "done"
    /\ UNCHANGED <<setup, visible, vector, keyword, found, tries, left>>

\* Bound: a document is deleted while the search is under way.
DeleteFound(d) ==
    /\ step \notin {"done", "failed"} /\ d \in visible
    /\ visible' = visible \ {d}
    /\ UNCHANGED <<setup, step, vector, keyword, found, tries, left, sources>>

RetrievalNext ==
    \/ VectorSearch \/ KeywordSearch \/ Fuse
    \/ Rerank \/ RerankFails
    \/ Deduplicate \/ Collect
    \/ \E d \in Documents : Expand(d) \/ DeleteFound(d)

RetrievalSpec == RetrievalInit /\ [][RetrievalNext]_retrievalVars

-----------------------------------------------------------------------------
\* Results hold hits of the searches, never more than asked for.
RetrievalTypeOK ==
    /\ step \in {"search", "rerank", "expand", "collect", "done", "failed"}
    /\ {p.id : p \in Range(found)} \subseteq Chunks /\ tries \in 0..Retries
    /\ Len(sources) <= Max({TopK, TopN})

\* Whatever fails, the best hit of a side that answered is not filtered away: it is among the fused passages unless
\* they are full.  (vectorSearch, keywordSearch and the filters of Retrieve)
BestHitSurvives ==
    step \in {"rerank", "done"} /\ (step = "done" => ~setup.rerank /\ ~setup.expand) =>
       \A s \in {VectorPassing, KeywordPassing} : s # <<>> => Len(found) = TopK \/ s[1].id \in {p.id : p \in Range(found)}

\* Passages are compared by one kind of score only, whichever of the reranking's answers and errors came, and without
\* expansion they come best first.  (RerankRetriever.Retrieve)
RankedByOneScore ==
    step \in {"collect", "done"} =>
       /\ \A p, q \in Range(found) : p.by = q.by
       /\ ~setup.expand => \A i, j \in DOMAIN found : i < j => Better(found[i], found[j])

\* A source's text holds the chunk whose id it carries.  (the tool's "content is the full text of each chunk, id is the
\* real chunk_id")
SourceHoldsItsChunk ==
    \A p \in Range(sources) : Place[p.id].index \in p.from..p.to

=============================================================================
