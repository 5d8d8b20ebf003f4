--------------------------- MODULE CitationStream ---------------------------
(***************************************************************************)
(* The filter between the model's answer and the reader: citations of      *)
(* sources that a tool of this run returned become links, all others are   *)
(* marked, code stays as it is (agent/citation_stream.go, citation.go).    *)
(* The answer arrives in fragments cut anywhere; the filter holds back     *)
(* what may become a citation.  The complete text is filtered again at the *)
(* end and stored.                                                         *)
(*                                                                         *)
(* A character is a symbol: "<", "cite" (a tag's name), "known" and        *)
(* "other" (the id or link of a registered and of another source), "'" a   *)
(* quote, "#" the start of a link into the page, "bq" and "~" the marks of *)
(* code, "open" and "close" parentheses, "esc" a backslash, "[", "]", "nl",*)
(* "sp" and "x" any other.                                                 *)
(***************************************************************************)
EXTENDS Naturals, Sequences, FiniteSets, SequencesExt, FiniteSetsExt

CONSTANTS Alphabets,  \* sets of fragments that answers are made of
          MaxParts,   \* bound: fragments of an answer
          MaxPending  \* 4096: as much of an unfinished citation is held back

Symbols == {"<", "cite", "known", "other", ">", "'", "#", "bq", "~", "open", "close", "esc", "[", "]", "nl", "sp", "x"}

ASSUME AnswersAreSymbols == /\ \A a \in Alphabets : a \subseteq Seq(Symbols)
                            /\ MaxPending \in Nat

VARIABLES fragments,  \* the alphabet of this answer
          text,       \* the answer so far; it is filtered again when it is complete
          parts,      \* how many fragments it came in
          stream,     \* citationStream, its register (whether "known" is known) and what went out
          late,       \* ghost: the source was registered after the answer had begun
          closed

citationVars == <<fragments, text, parts, stream, late, closed>>

Fresh(symbols, known) == [pending |-> symbols, code |-> <<>>, fenced |-> FALSE, out |-> <<>>, known |-> known]

Verified   == <<"source">>
Unverified == <<"unverified">>
NoLink     == <<"nolink">>

-----------------------------------------------------------------------------
(* Where things end.  0 stands for nowhere.                                *)

FirstOf(S) == IF S = {} THEN 0 ELSE Min(S)
RestOf(s, n) == SubSeq(s, n + 1, Len(s))
RunLength(s) == FirstOf({i \in DOMAIN s : s[i] # s[1]} \cup {Len(s) + 1}) - 1
NewLine(s) == FirstOf({i \in DOMAIN s : s[i] = "nl"})

\* citationFenceStart: at most three blanks on the line so far.
FenceStart(out) ==
    LET nl   == Max({0} \cup {i \in DOMAIN out : out[i] = "nl"})
        line == RestOf(out, nl)
    IN  Len(line) <= 3 /\ Range(line) \subseteq {"sp"}

\* Mutant: backquotes at the end of a fragment are taken as they are.
CodeSpanEnd_AnyRun(s, width, final) ==
    FirstOf({i \in DOMAIN s : i >= width /\ \A k \in (i - width + 1)..i : s[k] = "bq"
                              /\ (i = width \/ s[i - width] # "bq") /\ (i < Len(s) => s[i + 1] # "bq")})

\* citationCodeSpanEnd: a run of exactly as many backquotes; one at the end may still grow.
CodeSpanEnd(s, width, final) ==
    LET runs == {r \in {<<i, j>> : i, j \in DOMAIN s} :
                    /\ r[1] <= r[2] /\ \A k \in r[1]..r[2] : s[k] = "bq"
                    /\ r[1] > 1 => s[r[1] - 1] # "bq"
                    /\ r[2] < Len(s) => s[r[2] + 1] # "bq"}
    IN  FirstOf({r[2] : r \in {r \in runs : r[2] - r[1] + 1 = width /\ (r[2] < Len(s) \/ final)}})

\* citationTagEnd: the first ">" outside of quotes.
TagEnd(s) ==
    FirstOf({i \in DOMAIN s : s[i] = ">" /\ Cardinality({j \in 1..i : s[j] = "'"}) % 2 = 0})

\* citationClosing: the bracket that closes the first one; one behind an odd number of backslashes does not count.
Escaped(s, i) == Cardinality({j \in 1..(i - 1) : \A k \in j..(i - 1) : s[k] = "esc"}) % 2 = 1
Count(s, i, c) == Cardinality({j \in 1..i : s[j] = c /\ ~Escaped(s, j)})
Closing(s, open, close) ==
    FirstOf({i \in DOMAIN s : s[i] = close /\ ~Escaped(s, i) /\ Count(s, i, open) = Count(s, i, close)})

\* citationPrefix: a tag's name, or what may become one.
IsTag(s)    == Len(s) >= 3 /\ s[2] = "cite" /\ s[3] \in {"sp", "nl", ">"}
MaybeTag(s) == Len(s) = 1 \/ (Len(s) = 2 /\ s[2] = "cite")

-----------------------------------------------------------------------------
(* push: one round of its loop, or Wait for more text.                     *)

Wait == Fresh(<<"wait">>, FALSE)
Emit(s, symbols, n) == [s EXCEPT !.out = @ \o symbols, !.pending = RestOf(@, n)]

FencedLine(s, final) ==
    LET p     == s.pending
        end   == IF NewLine(p) = 0 THEN Len(p) ELSE NewLine(p)
        line  == SubSeq(p, 1, end)
        blank == FirstOf({i \in DOMAIN line : line[i] # "sp"} \cup {end + 1}) - 1
        rest  == RestOf(line, blank)
        closes == /\ FenceStart(s.out) /\ blank <= 3 /\ rest # <<>> /\ rest[1] = s.code[1]
                  /\ RunLength(rest) >= Len(s.code) /\ Range(RestOf(rest, RunLength(rest))) \subseteq {"sp", "nl"}
    IN  IF NewLine(p) = 0 /\ ~final THEN Wait
        ELSE IF closes THEN [Emit(s, line, end) EXCEPT !.code = <<>>, !.fenced = FALSE]
        ELSE Emit(s, line, end)

\* A span that is never closed is ordinary text.
CodeSpan(s, final) ==
    LET end == CodeSpanEnd(s.pending, Len(s.code), final)
    IN  IF end # 0 THEN [Emit(s, s.code \o SubSeq(s.pending, 1, end), end) EXCEPT !.code = <<>>]
        ELSE IF ~final THEN Wait
        ELSE [s EXCEPT !.out = @ \o s.code, !.code = <<>>]

CodeStart(s, final) ==
    LET p      == s.pending
        n      == RunLength(p)
        atLine == n >= 3 /\ FenceStart(s.out)
        info   == SubSeq(p, n + 1, IF NewLine(p) = 0 THEN Len(p) ELSE NewLine(p))
        fenced == atLine /\ ~(p[1] = "bq" /\ "bq" \in Range(info))
    IN  IF ~final /\ (n = Len(p) \/ (atLine /\ NewLine(p) = 0)) THEN Wait
        ELSE IF p[1] = "~" /\ ~fenced THEN Emit(s, SubSeq(p, 1, n), n)
        ELSE [Emit(s, IF fenced THEN SubSeq(p, 1, n) ELSE <<>>, n) EXCEPT !.code = SubSeq(p, 1, n), !.fenced = fenced]

Tag(s, final) ==
    LET p   == s.pending
        end == TagEnd(p)
        ids == {i \in 1..end : p[i] \in {"known", "other"}}
    IN  IF MaybeTag(p) /\ ~final THEN Wait
        ELSE IF ~IsTag(p) /\ ~(MaybeTag(p) /\ Len(p) = 2) THEN Emit(s, <<"<">>, 1)
        ELSE IF end = 0 THEN IF ~final /\ Len(p) < MaxPending THEN Wait ELSE Emit(s, Unverified, Len(p))
        ELSE Emit(s, IF ids # {} /\ s.known /\ p[Max(ids)] = "known" THEN Verified ELSE Unverified, end)

\* The text of a link that goes nowhere is filtered by itself; "normal" gives what becomes of it.
Link(s, final, normal) ==
    LET p     == s.pending
        label == Closing(p, "[", "]")
        paren == RestOf(p, label)
        end   == label + Closing(paren, "open", "close")
        inner == SubSeq(p, 2, label - 1)
        to    == p[label + 2]
    IN  IF label = 0 THEN IF ~final /\ Len(p) < MaxPending THEN Wait ELSE Emit(s, <<"[">>, 1)
        ELSE IF label = Len(p) /\ ~final THEN Wait
        ELSE IF label = Len(p) \/ p[label + 1] # "open" THEN Emit(s, <<"[">>, 1)
        ELSE IF end = label THEN IF ~final /\ Len(p) < MaxPending THEN Wait ELSE Emit(s, NoLink, Len(p))
        ELSE IF to = "#" THEN Emit(s, <<"[">> \o normal[<<inner, s.known>>] \o SubSeq(p, label, end), end)
        ELSE IF s.known /\ to = "known" THEN Emit(s, Verified, end)
        ELSE Emit(s, normal[<<inner, s.known>>] \o NoLink, end)

Escape(s, final) ==
    IF Len(s.pending) = 1 /\ ~final THEN Wait ELSE LET n == Min({2, Len(s.pending)}) IN Emit(s, SubSeq(s.pending, 1, n), n)

Round(s, final, normal) ==
    IF s.code # <<>> THEN IF s.fenced THEN FencedLine(s, final) ELSE CodeSpan(s, final)
    ELSE IF s.pending[1] = "esc" THEN Escape(s, final)
    ELSE IF s.pending[1] \in {"bq", "~"} THEN CodeStart(s, final)
    ELSE IF s.pending[1] = "<" THEN Tag(s, final)
    ELSE IF s.pending[1] = "[" THEN Link(s, final, normal)
    ELSE Emit(s, <<s.pending[1]>>, 1)

\* The loop ends with nothing pending (an opened code is then still open) or waits; a round takes symbols or gives up a
\* code span, so that it has ended after so many.
Rounds(s, final, normal) ==
    LET after[k \in 0..(2 * Len(s.pending) + 1)] ==
            IF k = 0 THEN s
            ELSE LET before == after[k - 1]
                     then   == Round(before, final, normal)
                 IN  IF before.pending = <<>> \/ then = Wait THEN before ELSE then
    IN  after[2 * Len(s.pending) + 1]

\* normalizeCitations
Filtered[x \in Seq(Symbols) \X BOOLEAN] == Rounds(Fresh(x[1], x[2]), TRUE, Filtered).out
Normalize(symbols, known) == Filtered[<<symbols, known>>]

Push(s, final) == Rounds(s, final, Filtered)

-----------------------------------------------------------------------------
(* citationEventChannel                                                    *)

CitationInit ==
    /\ fragments \in Alphabets /\ stream = Fresh(<<>>, FALSE)
    /\ text = <<>> /\ parts = 0 /\ late = FALSE /\ closed = FALSE

\* citationRegistry.add: a tool returned the source.  Text before a tool call has been answered by then.
Register ==
    /\ ~closed /\ ~stream.known
    /\ stream' = [stream EXCEPT !.known = TRUE] /\ late' = (text # <<>>)
    /\ UNCHANGED <<fragments, text, parts, closed>>

\* A part of the answer.
Answered(f) ==
    /\ ~closed /\ parts < MaxParts
    /\ text' = text \o f /\ parts' = parts + 1
    /\ stream' = Push([stream EXCEPT !.pending = @ \o f], FALSE)
    /\ UNCHANGED <<fragments, late, closed>>

\* The end, an error or an interruption: what was held back goes out.
Flush ==
    /\ ~closed /\ closed' = TRUE
    /\ stream' = Push(stream, TRUE)
    /\ UNCHANGED <<fragments, text, parts, late>>

CitationNext == Register \/ Flush \/ \E f \in fragments : Answered(f)

CitationSpec == CitationInit /\ [][CitationNext]_citationVars

-----------------------------------------------------------------------------
\* Nothing stays behind once the answer is over.
CitationTypeOK ==
    /\ closed => stream.pending = <<>>
    /\ stream.fenced => stream.code # <<>>

\* However an answer is cut into fragments, its reader has seen what is stored of it.  Exempt are answers longer than
\* the hold-back limit, and sources registered while the answer was under way: a citation shown as unverified before is
\* then stored as a link.  (citationStream.push, normalizeCitations)
ShownIsStored ==
    closed /\ Len(text) < MaxPending /\ ~late => stream.out = Normalize(text, stream.known)

=============================================================================
