------------------------------ MODULE MCContext ------------------------------
(***************************************************************************)
(* What a model reads and what its user sees, checked in one run: the      *)
(* context of a session, the vectors of documents and of questions, the    *)
(* passages that are retrieved, the citations and the decoding of an       *)
(* answer, and the messages of a run.  A behaviour is a behaviour of one   *)
(* part; the variables of the others are not used.                         *)
(***************************************************************************)
EXTENDS SessionContext, Retrieval, CitationStream, AnswerDecoder, TLC

CONSTANTS
    ModelWindow, Output, Margin, MinOutput, SoftTenths, TargetTenths, \* of RunContext
    SummaryInput, SummaryMaxCalls, Large, UserBytes, MaxRounds, MaxPairs,
    Lengths, Target, Overlap, BatchSizes, Dimensions,                  \* of TextVectors
    Texts, Callers, Capacity, Share, MaxAsks, MaxLost                  \* of QueryVectors

VARIABLES part,
          msgs, stored, snap, phase, rounds, runSent, quick, runExpired, given,
          length, batchSize, dimension, vectors, chunks, stage,
          memory, counted, redis, flight, caller, asks, lost, paid, copied

runVars  == <<msgs, stored, snap, phase, rounds, runSent, quick, runExpired, given>>
textVars == <<length, batchSize, dimension, vectors, chunks, stage>>
askVars  == <<memory, counted, redis, flight, caller, asks, lost, paid, copied>>
vars     == <<part, sessionVars, retrievalVars, citationVars, answerVars, runVars, textVars, askVars>>

-----------------------------------------------------------------------------
(* The instances.                                                          *)

\* Sessions of three complete pairs, one of them behind an unanswered question.
Pair == <<"user", "assistant">>
Complete == Pair \o Pair \o Pair
MCOldSessions == {Complete, <<"user">> \o Complete}
MCTokens == <<6, 3, 2, 1, 7, 1, 1, 1, 2, 9>>

\* Two chunks of one document and one of another that has the words of the first.
MCPlace == << [document |-> "a", index |-> 0, size |-> 2, words |-> {"u"}],
              [document |-> "a", index |-> 1, size |-> 2, words |-> {"v"}],
              [document |-> "b", index |-> 0, size |-> 2, words |-> {"u"}] >>

\* Answers made of the parts of a tag, of a link, or of code.
OtherTag == <<"<", "cite", "sp", "other", ">">>
TagFragments  == {<<c>> : c \in {"<", "cite", "sp", "known", "other", ">", "'"}}
LinkFragments == {<<c>> : c \in {"[", "]", "open", "close", "known", "#", "esc"}}
CodeFragments == {<<"bq">>, <<"bq", "bq", "bq">>, <<"~", "~", "~">>, <<"nl">>, <<"sp">>, <<"x">>, OtherTag}
MCAlphabets == {TagFragments, LinkFragments, CodeFragments}

\* Windows, water marks and results are counted.
ASSUME RunAssumption ==
    /\ {ModelWindow, Output, Margin, MinOutput, SoftTenths, TargetTenths} \subseteq Nat
    /\ {SummaryMaxCalls, Large, MaxPairs} \subseteq Nat

Run == INSTANCE RunContext WITH Window <- ModelWindow, sent <- runSent, expired <- runExpired

\* Pieces of a text begin before the one before them ends, and go on behind it.
ASSUME TextAssumption ==
    /\ Lengths \subseteq Nat /\ Target \in Nat \ {0} /\ Overlap \in 0..(Target - 1)
    /\ BatchSizes \subseteq Nat \ {0} /\ Dimensions \subseteq Nat

Text == INSTANCE TextVectors

\* The share that is removed is a part of the capacity.
ASSUME AskedAssumption ==
    /\ IsFiniteSet(Texts)
    /\ Capacity \in Nat \ {0} /\ Share \in 1..Capacity /\ MaxAsks \in Nat /\ MaxLost \in Nat

Asked == INSTANCE QueryVectors

-----------------------------------------------------------------------------
(* One part at a time.                                                     *)

NoSession   == /\ messages = 0 /\ summary = 0 /\ turn = 0 /\ refresh = 0 /\ overtaken = 0
NoRetrieval == /\ setup = 0 /\ visible = 0 /\ step = 0 /\ vector = 0 /\ keyword = 0 /\ found = 0
               /\ tries = 0 /\ left = 0 /\ sources = 0
NoCitation  == /\ fragments = 0 /\ text = 0 /\ parts = 0 /\ stream = 0 /\ late = 0 /\ closed = 0
NoAnswer    == /\ units = 0 /\ field = 0 /\ ready = 0 /\ arguments = 0 /\ named = 0 /\ buffer = 0
               /\ decoder = 0 /\ checked = 0 /\ sent = 0 /\ outcome = 0
NoRun       == /\ msgs = 0 /\ stored = 0 /\ snap = 0 /\ phase = 0 /\ rounds = 0 /\ runSent = 0
               /\ quick = 0 /\ runExpired = 0 /\ given = 0
NoText      == /\ length = 0 /\ batchSize = 0 /\ dimension = 0 /\ vectors = 0 /\ chunks = 0 /\ stage = 0
NoAsked     == /\ memory = 0 /\ counted = 0 /\ redis = 0 /\ flight = 0 /\ caller = 0 /\ asks = 0
               /\ lost = 0 /\ paid = 0 /\ copied = 0

Init ==
    /\ part \in {"session", "retrieval", "citation", "answer", "run", "text", "asked"}
    /\ IF part = "session"   THEN SessionInit ELSE NoSession
    /\ IF part = "retrieval" THEN RetrievalInit ELSE NoRetrieval
    /\ IF part = "citation"  THEN CitationInit ELSE NoCitation
    /\ IF part = "answer"    THEN AnswerInit ELSE NoAnswer
    /\ IF part = "run"       THEN Run!ContextInit ELSE NoRun
    /\ IF part = "text"      THEN Text!TextInit ELSE NoText
    /\ IF part = "asked"     THEN Asked!QueryInit ELSE NoAsked

Next ==
    \/ /\ part = "session" /\ SessionNext
       /\ UNCHANGED <<part, retrievalVars, citationVars, answerVars, runVars, textVars, askVars>>
    \/ /\ part = "retrieval" /\ RetrievalNext
       /\ UNCHANGED <<part, sessionVars, citationVars, answerVars, runVars, textVars, askVars>>
    \/ /\ part = "citation" /\ CitationNext
       /\ UNCHANGED <<part, sessionVars, retrievalVars, answerVars, runVars, textVars, askVars>>
    \/ /\ part = "answer" /\ AnswerNext
       /\ UNCHANGED <<part, sessionVars, retrievalVars, citationVars, runVars, textVars, askVars>>
    \/ /\ part = "run" /\ Run!ContextNext
       /\ UNCHANGED <<part, sessionVars, retrievalVars, citationVars, answerVars, textVars, askVars>>
    \/ /\ part = "text" /\ Text!TextNext
       /\ UNCHANGED <<part, sessionVars, retrievalVars, citationVars, answerVars, runVars, askVars>>
    \/ /\ part = "asked" /\ Asked!QueryNext
       /\ UNCHANGED <<part, sessionVars, retrievalVars, citationVars, answerVars, runVars, textVars>>

Spec == Init /\ [][Next]_vars

\* Nothing distinguishes the two slots of a session.
Symmetry == Permutations(Slots)

-----------------------------------------------------------------------------
(* The properties of the parts; each includes the types of its variables.  *)

\* What a turn is given shows no message twice or out of order and nothing the
\* summary has; what is recalled fits its share, and the history fits the rest
\* but for a marker, or for what an open question keeps at least
\* (SessionContext).
ContextsAreSound == part = "session" => SessionTypeOK /\ ContextIsSound

\* The summary of a session covers ever more of its beginning, without a hole
\* (SessionContext).
SummariesGrow == [][part = "session" => GrowsAsPrefix]_sessionVars

\* A side of the search that fails does not take the best hit of the other
\* one along, and scores of two kinds are never compared (Retrieval).
HitsAreRanked == part = "retrieval" => RetrievalTypeOK /\ BestHitSurvives /\ RankedByOneScore

\* However the answer is cut on its way, what was shown is what the filter
\* makes of the whole and what the model wrote (CitationStream, AnswerDecoder).
ShownIsTheAnswer ==
    /\ part = "citation" => CitationTypeOK /\ ShownIsStored
    /\ part = "answer" => AnswerTypeOK /\ ShownAsWritten

\* No request lacks a result, or holds one that no call asked for; it fits the
\* window; and what was taken out of it is summarised or can be read again
\* (RunContext).
RequestsAreWhole ==
    part = "run" => Run!ContextTypeOK /\ Run!RequestIsWhole /\ Run!NothingIsForgotten

\* The chunks of a document are its text, each with the vector of its own
\* words (TextVectors); and however requests for the vector of a question
\* overlap, it is paid for once, and the map of vectors stays in its bounds,
\* but for what came from Redis (QueryVectors).
VectorsAreTrue ==
    /\ part = "text" => Text!TextTypeOK /\ Text!ChunksCoverText /\ Text!ChunksHaveTheirVectors
    /\ part = "asked" => Asked!QueryTypeOK /\ Asked!PaidOnce /\ Asked!MemoryIsBounded
=============================================================================
