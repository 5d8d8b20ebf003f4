--------------------------- MODULE AnswerDecoder ----------------------------
(***************************************************************************)
(* The final answer of a deep run is an argument of the model's call to    *)
(* "respond": a JSON string that arrives in fragments cut at any byte.     *)
(* Its text is shown while it arrives, and the whole is only checked at    *)
(* the end (agent/deep_answer_stream.go, model_completion.go).             *)
(*                                                                         *)
(* The answer is a sequence of Units, each written in the bytes that       *)
(* UnitBytes gives; a byte is a symbol, "begin" and "end" the braces of    *)
(* the arguments.  A character that no escape needs both halves for is     *)
(* written as one of them only by mistake: a high half without its low one *)
(* is left out.                                                            *)
(***************************************************************************)
EXTENDS Naturals, Sequences, SequencesExt, Lists

CONSTANTS MaxUnits,     \* bound: units of an answer
          MaxFragment   \* bound: bytes of a fragment

VARIABLES units, field, ready,   \* the answer, its JSON key, whether the plan may be completed
          arguments,             \* the bytes that have not arrived
          named, buffer,         \* readAnswerStream: the tool's name came; arguments from before it
          decoder, checked, sent, outcome

answerVars == <<units, field, ready, arguments, named, buffer, decoder, checked, sent, outcome>>

Units == {"ascii", "rune", "escape", "code", "low", "pair"}
UnitBytes(u) ==
    CASE u = "ascii"  -> <<"a">>
      [] u = "rune"   -> <<"r3", "r", "r">>
      [] u = "escape" -> <<"esc", "n">>
      [] u = "code"   -> <<"esc", "u", "0", "0", "0", "0">>
      [] u = "low"    -> <<"esc", "u", "DC", "0", "0", "0">>
      [] u = "pair"   -> <<"esc", "u", "D8", "0", "0", "0", "esc", "u", "DC", "0", "0", "0">>

Body(us) == LET body[i \in 0..Len(us)] == IF i = 0 THEN <<>> ELSE body[i - 1] \o UnitBytes(us[i]) IN body[Len(us)]
Header   == {<<"begin", "response", ":">>, <<"begin", "ws", "response", ":", "ws">>}
Answers  == UNION {[1..n -> Units] : n \in 0..MaxUnits}

-----------------------------------------------------------------------------
(* peResponseDecoder                                                       *)

FreshDecoder == [header |-> <<>>, pending |-> <<>>, value |-> FALSE, started |-> FALSE, done |-> FALSE, out |-> <<>>, bad |-> FALSE]

\* json.Unmarshal of one escape.
UnitOf(bytes) == CHOOSE u \in Units \cup {"bad"} : IF \E v \in Units : UnitBytes(v) = bytes THEN u # "bad" /\ UnitBytes(u) = bytes ELSE u = "bad"

EscapeLength_NoPair(p) == IF Len(p) < 2 \/ p[2] # "u" THEN 2 ELSE 6

\* How many bytes an escape needs: a high half waits for its low half.
EscapeLength(p) ==
    IF Len(p) < 2 \/ p[2] # "u" THEN 2
    ELSE IF Len(p) >= 3 /\ p[3] = "D8" THEN 12 ELSE 6

Drop(d, n)   == [d EXCEPT !.pending = SubSeq(@, n + 1, Len(@))]
Show(d, u, n) == IF u = "bad" THEN [d EXCEPT !.bad = TRUE] ELSE [Drop(d, n) EXCEPT !.out = Append(@, u)]

\* The next step of push; the decoder itself when it waits or is done.
Decode(d) ==
    LET p == d.pending
        c == p[1]
    IN  IF p = <<>> \/ d.done \/ d.bad THEN d
        ELSE IF ~d.value THEN
            [Drop(d, 1) EXCEPT !.header = Append(@, c), !.value = (c = ":"),
                !.bad = (c = ":" /\ Picked(d.header, {i \in DOMAIN d.header : d.header[i] # "ws"}) # <<"begin", "response">>)]
        ELSE IF ~d.started THEN [Drop(d, 1) EXCEPT !.started = (c = "quote"), !.bad = (c \notin {"quote", "ws"})]
        ELSE IF c = "quote" THEN [d EXCEPT !.done = TRUE]
        ELSE IF c = "esc" THEN LET n == EscapeLength(p) IN IF Len(p) < n THEN d ELSE Show(d, UnitOf(SubSeq(p, 1, n)), n)
        ELSE IF c = "r3" THEN IF Len(p) < 3 THEN d ELSE Show(d, "rune", 3)
        ELSE Show(d, IF c = "a" THEN "ascii" ELSE "bad", 1)

\* push loops until a step changes nothing; every step takes a byte or ends it.
DecodeAll(d) == LET after[i \in 0..(Len(d.pending) + 1)] == IF i = 0 THEN d ELSE Decode(after[i - 1]) IN after[Len(d.pending) + 1]

-----------------------------------------------------------------------------
(* readAnswerStream                                                        *)

AnswerInit ==
    /\ units \in Answers /\ field \in {"response", "other"} /\ ready \in BOOLEAN
    /\ \E h \in Header : arguments = [i \in DOMAIN h |-> IF h[i] = "response" THEN field ELSE h[i]]
                                        \o <<"quote">> \o Body(units) \o <<"quote", "end">>
    /\ named = FALSE /\ buffer = <<>> /\ decoder = FreshDecoder
    /\ checked = FALSE /\ sent = <<>> /\ outcome = "open"

\* A chunk with the next bytes; the tool's name comes with one of them, and may be repeated.
Chunk(n, name) ==
    LET bytes  == buffer \o SubSeq(arguments, 1, n)
        pushed == DecodeAll([decoder EXCEPT !.pending = @ \o bytes, !.out = <<>>])
    IN  /\ outcome = "open" /\ n <= Len(arguments) /\ n + (IF name THEN 1 ELSE 0) > 0
        /\ arguments' = SubSeq(arguments, n + 1, Len(arguments)) /\ named' = (named \/ name)
        /\ IF ~named' THEN buffer' = bytes /\ UNCHANGED <<decoder, checked, sent, outcome>>
           ELSE IF ~checked /\ ~ready THEN outcome' = "failed" /\ UNCHANGED <<buffer, decoder, checked, sent>>
           ELSE /\ checked' = TRUE /\ buffer' = <<>> /\ decoder' = pushed
                /\ IF pushed.bad THEN outcome' = "failed" /\ UNCHANGED sent
                   ELSE sent' = sent \o pushed.out /\ UNCHANGED outcome
        /\ UNCHANGED <<units, field, ready>>

\* The stream fails or is cancelled.
Broken == outcome = "open" /\ outcome' = "failed" /\ UNCHANGED <<units, field, ready, arguments, named, buffer, decoder, checked, sent>>

\* The end of the stream, wherever the model was stopped: the whole is checked now.
Eof(reason) ==
    /\ outcome = "open"
    /\ outcome' = IF reason = "tool_calls" /\ checked /\ decoder.done /\ arguments = <<>> /\ sent = units
                  THEN "accepted" ELSE "failed"
    /\ UNCHANGED <<units, field, ready, arguments, named, buffer, decoder, checked, sent>>

AnswerNext ==
    \/ \E n \in 0..MaxFragment, name \in BOOLEAN : Chunk(n, name)
    \/ Broken
    \/ \E reason \in {"tool_calls", "length"} : Eof(reason)

AnswerSpec == AnswerInit /\ [][AnswerNext]_answerVars

-----------------------------------------------------------------------------
AnswerTypeOK == outcome \in {"open", "accepted", "failed"} /\ (decoder.done => decoder.started)

\* Text is shown before the answer has been checked, and cannot be taken back: however the bytes are cut, it is a
\* beginning of the answer of a plan that may be completed, and no well-formed answer is refused on the way.
\* (peResponseDecoder.push, readAnswerStream)
ShownAsWritten ==
    /\ IsPrefix(sent, units)
    /\ sent # <<>> => ready /\ field = "response"
    /\ field = "response" => ~decoder.bad
    /\ decoder.done => sent = units

=============================================================================
