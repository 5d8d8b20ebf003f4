--------------------------- MODULE ArtifactReading ---------------------------
(***************************************************************************)
(* Reading stored tool results page by page, and what the review of a plan *)
(* is given of them as evidence (agent/context_artifact.go,                *)
(* context_artifact_select.go, context_artifact_dependency.go,             *)
(* context_tool_budget.go).                                                *)
(*                                                                         *)
(* A task stores its large results and reads them, or results of the tasks *)
(* it depends on, through a locator; every page leaves a reference in the  *)
(* task's result, without its text.  The review gets the text again from   *)
(* these references.  A text is a sequence of lines, the unit of offsets   *)
(* here; a JSON document is an opening and its members, in which a line is *)
(* quoted and costs more.                                                  *)
(***************************************************************************)
EXTENDS Integers, Sequences, FiniteSets, SequencesExt, FiniteSetsExt

CONSTANTS
    Documents,    \* [research -> results [kind : text, mcp or knowledge, parts : texts]]
    Plan,         \* [tasks -> the tasks they depend on]
    Review,       \* the task that reviews
    Vocabulary,   \* what locators name: words, titles, members
    Offsets,      \* where calls ask to start
    Limits,       \* lines of a page, as asked for and capped by the policy
    Allowances,   \* tokens that may be left for a page or for a piece
    MaxPages      \* bound: references of one task

Tasks == DOMAIN Plan
Research == Tasks \ {Review}

VARIABLES
    kept,      \* [research -> its stored result, or NoDocument]
    status,    \* of the tasks
    refs,      \* [research -> references of its result]
    shown,     \* history: [research -> pages with their text]
    expired,   \* stored results past their time
    evidence   \* what the review was given

readingVars == <<kept, status, refs, shown, expired, evidence>>

Lines == [word : Vocabulary \cup {0}, level : Nat, fence : {"", "backtick", "tilde"}, quoted : BOOLEAN]
NoDocument == [kind |-> "none", parts |-> <<>>]
NoEvidence == [state |-> "none", pieces |-> {}]

\* Lines are [word, level, fence, quoted]; level 0 is no heading, fence "" no mark of code.
Quoted(text) == [i \in DOMAIN text |-> [text[i] EXCEPT !.quoted = TRUE, !.level = 0, !.fence = ""]]
Opening == [word |-> 0, level |-> 0, fence |-> "", quoted |-> TRUE]
Joined(parts) == FlattenSeq([i \in DOMAIN parts |-> Quoted(parts[i])])
Json(parts) == <<Opening>> \o Joined(parts)

\* The stored result itself.
Source(doc) == IF doc.kind = "text" THEN doc.parts[1] ELSE Json(doc.parts)

\* A stored result is made of lines, joined or not; a page that is asked for has some.
ASSUME ReadingAssumption ==
    /\ Offsets \subseteq Nat /\ Limits \subseteq Nat \ {0} /\ MaxPages \in Nat
    /\ Review \in Tasks
    /\ \A t \in Research : \A doc \in Documents[t] :
          doc # NoDocument /\ doc.parts \in Seq(Seq(Lines)) /\ Source(doc) \in Seq(Lines)

LineCost(line) == IF line.quoted THEN 2 ELSE 1
CostOf(text) == LET upTo[i \in 0..Len(text)] == IF i = 0 THEN 0 ELSE upTo[i - 1] + LineCost(text[i])
                IN  upTo[Len(text)]
Fits(text, allowance) == CostOf(text) <= allowance

-----------------------------------------------------------------------------
(* Locators: a selection names a view of a document, offsets are in it.    *)

Selection(kind, value, start) == [kind |-> kind, value |-> value, start |-> start]
Unselected == Selection("none", 0, 0)
WholeSource == Selection("source", 0, 0)
NotFound == [found |-> FALSE, text |-> <<>>]
Found(text) == [found |-> TRUE, text |-> text]

\* The lines of a text that are headings, none of them in code.
Headings(text) ==
    LET open[i \in 0..Len(text)] ==
            IF i = 0 THEN ""
            ELSE IF text[i].fence = "" THEN open[i - 1]
            ELSE IF open[i - 1] = "" THEN text[i].fence
            ELSE IF open[i - 1] = text[i].fence THEN "" ELSE open[i - 1]
    IN  {i \in DOMAIN text : open[i] = "" /\ text[i].fence = "" /\ text[i].level \in 1..6}

\* Mutant: a section ends at the next heading of any rank.
Section_NextHeading(text, title) ==
    LET named == {i \in Headings(text) : text[i].word = title}
        first == Min(named)
    IN  IF named = {} THEN <<>>
        ELSE <<first - 1, Min({Len(text)} \cup {i - 1 : i \in {h \in Headings(text) : h > first}})>>

\* artifactSection: from the first heading with the title to the next one of
\* its rank or above, as <<start, end>>; <<>> without such a heading.
Section(text, title) ==
    LET named == {i \in Headings(text) : text[i].word = title}
        first == Min(named)
    IN  IF named = {} THEN <<>>
        ELSE <<first - 1, Min({Len(text)} \cup
                {i - 1 : i \in {h \in Headings(text) : h > first /\ text[h].level <= text[first].level}})>>

\* artifactJSONPointerView: 0 is the document, i its i-th member; the text of
\* an MCP member comes decoded.
AtPath(doc, i) ==
    IF doc.kind = "text" THEN NotFound
    ELSE IF i = 0 THEN Found(Json(doc.parts))
    ELSE IF i \notin DOMAIN doc.parts THEN NotFound
    ELSE Found(IF doc.kind = "mcp" THEN doc.parts[i] ELSE Quoted(doc.parts[i]))

\* artifactKnowledgeChunk
Chunk(doc, i) ==
    IF doc.kind = "knowledge" /\ i \in DOMAIN doc.parts THEN Found(Quoted(doc.parts[i])) ELSE NotFound

\* artifactTextPath: the only MCP text, or the only one that has the keyword.
TextPath(doc, keyword) ==
    LET having == {i \in DOMAIN doc.parts :
                      Len(doc.parts) > 1 => \E l \in ToSet(doc.parts[i]) : l.word = keyword}
    IN  IF doc.kind = "mcp" /\ Cardinality(having) = 1
        THEN Selection("json_path", Min(having), 0) ELSE WholeSource

\* The view of a selection, as a page or the evidence takes it.
View(doc, sel) ==
    CASE sel.kind \in {"none", "source"} -> Found(Source(doc))
      [] sel.kind = "json_path" -> AtPath(doc, sel.value)
      [] sel.kind = "chunk_id" -> Chunk(doc, sel.value)
      [] sel.kind = "section" ->
            LET at == Section(Source(doc), sel.value)
            IN  IF at = <<>> \/ at[1] # sel.start THEN NotFound
                ELSE Found(SubSeq(Source(doc), at[1] + 1, at[2]))

\* locateArtifact: the offset of the next line with the keyword, or -1.
Locate(text, keyword, offset) ==
    LET at == {i \in DOMAIN text : i > offset /\ text[i].word = keyword}
    IN  IF at = {} THEN -1 ELSE Min(at) - 1

\* The longest prefix that an allowance has room for, from `least' lines on.
Prefix(text, least, allowance) ==
    Max({-1} \cup {n \in least..Len(text) : Fits(SubSeq(text, 1, n), allowance)})

-----------------------------------------------------------------------------
\* peResearchAncestors
Ancestors(t) ==
    LET up[n \in 0..Cardinality(Tasks)] ==
            IF n = 0 THEN Plan[t] ELSE up[n - 1] \cup UNION {Plan[u] : u \in up[n - 1]}
    IN  up[Cardinality(Tasks)] \cap Research

\* dependencyArtifactGrants: results that successful ancestors refer to, if
\* their owner is one too.
Grants(t) ==
    LET good == {u \in Ancestors(t) : status[u] = "success"}
    IN  {r.owner : r \in {q \in UNION {refs[u] : u \in good} : q.owner \in good}}

\* A reference keeps where a page is, not its text.
Reference(owner, sel, offset, next, total) ==
    [owner |-> owner, sel |-> sel, offset |-> offset, next |-> next, total |-> total]

ReadingInit ==
    /\ kept = [t \in Research |-> NoDocument]
    /\ status = [t \in Tasks |-> "waiting"]
    /\ refs = [t \in Research |-> {}]
    /\ shown = [t \in Research |-> {}]
    /\ expired = {}
    /\ evidence = NoEvidence

BeginTask(t) ==
    /\ status[t] = "waiting"
    /\ \A u \in Plan[t] : status[u] = "success"
    /\ status' = [status EXCEPT ![t] = "running"]
    /\ UNCHANGED <<kept, refs, shown, expired, evidence>>

\* artifactMiddleware: a large result is stored and referred to as a whole.
Store(t, doc) ==
    /\ status[t] = "running"
    /\ kept[t] = NoDocument
    /\ kept' = [kept EXCEPT ![t] = doc]
    /\ refs' = [refs EXCEPT ![t] = @ \cup {Reference(t, Unselected, 0, 0, 0)}]
    /\ UNCHANGED <<status, shown, expired, evidence>>

\* Mutant: a page is cut to the allowance but says where the limit would end.
Page_CutLater(text, offset, limit, allowance) ==
    LET rest == SubSeq(text, offset + 1, Len(text))
        full == SubSeq(rest, 1, Min({limit, Len(rest)}))
        size == Prefix(full, 0, allowance)
    IN  [ok |-> size >= 0, text |-> SubSeq(rest, 1, size), next |-> offset + Len(full)]

\* A page of the view: whole if it fits, else the longest that does, of at
\* least one line; nothing fits is an error.
Page(text, offset, limit, allowance) ==
    LET full == SubSeq(text, offset + 1, Min({offset + limit, Len(text)}))
        size == IF Fits(full, allowance) THEN Len(full)
                ELSE Prefix(full, 1, allowance)
    IN  [ok |-> size >= 0, text |-> SubSeq(full, 1, size), next |-> offset + size]

\* What a call asks for: a locator, a keyword of its own or in a member.
Asked(doc, locator, value, keyword) ==
    CASE locator = "keyword" -> TextPath(doc, keyword)
      [] locator = "section" ->
            LET at == Section(Source(doc), value)
            IN  Selection("section", value, IF at = <<>> THEN 0 ELSE at[1])
      [] locator = "source" -> WholeSource
      [] OTHER -> Selection(locator, value, 0)

\* A task that runs reads its own result and those it was granted, while they are there.
Readable(t) ==
    IF status[t] # "running" THEN {}
    ELSE {u \in {t} \cup Grants(t) : kept[u] # NoDocument /\ u \notin expired}

\* InvokableRun of the reading tool; a wrong argument or a result that is gone
\* or not granted leaves no reference.
Read(t, owner, locator, value, keyword, from, limit, allowance) ==
    /\ owner \in Readable(t)
    /\ Cardinality(refs[t]) < MaxPages
    /\ LET sel == Asked(kept[owner], locator, value, keyword)
           view == View(kept[owner], sel)
           offset == IF keyword = 0 THEN from ELSE Locate(view.text, keyword, from)
           page == Page(view.text, offset, limit, allowance)
           total == Len(view.text)
       IN  /\ view.found
           /\ from <= total
           /\ offset >= 0
           /\ page.ok
           /\ refs' = [refs EXCEPT ![t] = @ \cup {Reference(owner, sel, offset, page.next, total)}]
           /\ shown' = [shown EXCEPT ![t] = @ \cup
                  {[owner |-> owner, sel |-> sel, offset |-> offset, next |-> page.next,
                    text |-> page.text, complete |-> page.next = total]}]
    /\ UNCHANGED <<kept, status, expired, evidence>>

Finish(t, outcome) ==
    /\ status[t] = "running"
    /\ outcome \in {"success", "error"}
    /\ t = Review => evidence.state = "given"
    /\ status' = [status EXCEPT ![t] = outcome]
    /\ UNCHANGED <<kept, refs, shown, expired, evidence>>

\* Results expire one by one; bound: one of them does.
Expire(t) ==
    /\ kept[t] # NoDocument
    /\ expired = {}
    /\ expired' = expired \cup {t}
    /\ UNCHANGED <<kept, status, refs, shown, evidence>>

\* Mutant: the text of a page is taken from the start of its view.
EvidenceView_FromStart(doc, r) ==
    IF r.sel.kind = "none" THEN Found(Source(doc))
    ELSE LET view == View(doc, r.sel)
         IN  IF view.found THEN Found(SubSeq(view.text, 1, r.next - r.offset)) ELSE NotFound

\* artifactEvidenceView: the text of a reference, found and measured again.
EvidenceView(doc, r) ==
    IF r.sel.kind = "none" THEN Found(Source(doc))
    ELSE LET view == View(doc, r.sel)
         IN  IF view.found /\ r.offset <= r.next /\ r.next <= Len(view.text) /\ r.total = Len(view.text)
             THEN Found(SubSeq(view.text, r.offset + 1, r.next))
             ELSE NotFound

\* projectJSONMembers: the members at the front that fit, in a valid document;
\* nothing when not even the empty one does.
Members(doc, allowance) ==
    LET n == Max({-1} \cup {k \in 0..Len(doc.parts) : Fits(Json(SubSeq(doc.parts, 1, k)), allowance)})
    IN  IF n < 0 THEN <<>> ELSE Json(SubSeq(doc.parts, 1, n))

\* Mutant: a page from the start to the end of its view counts as all there is.
IsComplete_OfView(r, cut) == ~cut /\ (r.sel.kind = "none" \/ (r.offset = 0 /\ r.next = r.total))

\* Only the whole source is complete, and only uncut.
IsComplete(r, cut) ==
    ~cut /\ (r.sel.kind = "none" \/ (r.sel.kind = "source" /\ r.offset = 0 /\ r.next = r.total))

\* A piece of evidence within its share; a cut JSON document has no offsets.
Piece(r, allowance) ==
    LET doc == kept[r.owner]
        view == EvidenceView(doc, r).text
        cut == ~Fits(view, allowance)
        structured == doc.kind # "text" /\ r.sel.kind = "none"
        text == IF ~cut THEN view
                ELSE IF structured THEN Members(doc, allowance)
                ELSE SubSeq(view, 1, Prefix(view, 0, allowance))
    IN  [owner |-> r.owner, sel |-> r.sel, offset |-> r.offset, text |-> text,
         next |-> IF cut /\ structured THEN 0 ELSE r.offset + Len(text),
         complete |-> IsComplete(r, cut)]

\* A result of which pages were read is not taken as a whole as well.
Usable(t) ==
    {r \in refs[t] : r.sel.kind = "none" => \A q \in refs[t] : q.owner = r.owner => q.sel.kind = "none"}

\* taskArtifactEvidence: any reference that is not to a result of a successful
\* ancestor, is gone or does not match fails the review.
TaskArtifactEvidence(shares) ==
    /\ status[Review] = "running"
    /\ evidence = NoEvidence
    /\ LET given == UNION {Usable(u) : u \in {v \in Ancestors(Review) : status[v] = "success"}}
           sound == \A r \in given :
                        /\ r.owner \in Ancestors(Review)
                        /\ status[r.owner] = "success"
                        /\ r.owner \notin expired
                        /\ EvidenceView(kept[r.owner], r).found
       IN  IF sound
           THEN /\ evidence' = [state |-> "given", pieces |-> {Piece(r, shares[r.owner]) : r \in given}]
                /\ status' = status
           ELSE /\ evidence' = [state |-> "refused", pieces |-> {}]
                /\ status' = [status EXCEPT ![Review] = "error"]
    /\ UNCHANGED <<kept, refs, shown, expired>>

\* Calls with one locator, or a path and a keyword; others are sent back.
Call(locator, value, keyword) == [locator |-> locator, value |-> value, keyword |-> keyword]
Calls ==
    {Call("source", 0, 0)} \cup {Call("keyword", 0, w) : w \in Vocabulary}
    \cup {Call(kind, w, 0) : kind \in {"section", "chunk_id"}, w \in Vocabulary}
    \cup {Call("json_path", v, w) : v \in Vocabulary \cup {0}, w \in Vocabulary \cup {0}}

ReadingNext ==
    \/ \E t \in Tasks : BeginTask(t) \/ \E outcome \in {"success", "error"} : Finish(t, outcome)
    \/ \E t \in Research : \E doc \in Documents[t] : Store(t, doc)
    \/ \E t \in Research : \E owner \in Readable(t), call \in Calls,
          from \in Offsets, limit \in Limits, allowance \in Allowances :
          Read(t, owner, call.locator, call.value, call.keyword, from, limit, allowance)
    \/ \E t \in Research : Expire(t)
    \/ \E shares \in [Research -> Allowances] : TaskArtifactEvidence(shares)

ReadingSpec == ReadingInit /\ [][ReadingNext]_readingVars

-----------------------------------------------------------------------------
ReadingTypeOK ==
    /\ \A t \in Research : kept[t] \in Documents[t] \cup {NoDocument}
    /\ DOMAIN kept = Research /\ DOMAIN refs = Research /\ DOMAIN shown = Research
    /\ status \in [Tasks -> {"waiting", "running", "success", "error"}]
    /\ \A t \in Research : IsFiniteSet(refs[t])
    /\ \A t \in Research : Cardinality(refs[t]) <= IF kept[t] = NoDocument THEN MaxPages ELSE MaxPages + 1
    /\ evidence = [state |-> evidence.state, pieces |-> evidence.pieces]
    /\ evidence.state \in {"none", "given", "refused"}

\* A task that goes on from next_offset misses nothing: a page shows exactly
\* the lines from its offset to its next one, moves on unless it is the last,
\* and the one that ends its view says so (InvokableRun, complete).
PagesMissNothing ==
    \A t \in Research : \A p \in shown[t] :
        LET view == View(kept[p.owner], p.sel).text
        IN  /\ p.text = SubSeq(view, p.offset + 1, p.next)
            /\ p.complete <=> p.next = Len(view)
            /\ p.complete \/ p.next > p.offset

\* A section ends where its outline says: at no heading below its own, and it
\* contains none of its rank (artifactSection).
SectionsAreWhole ==
    \A t \in Research : \A p \in shown[t] :
        (p.sel.kind = "section" /\ p.complete) =>
            LET text == Source(kept[p.owner])
                end == p.sel.start + p.next
            IN  end < Len(text) => text[end + 1].level \in 1..text[p.sel.start + 1].level

\* The review sees of a page no more and nothing else than the task saw, in the
\* lines the piece names, although only its place was kept; and a result no
\* page of which was read is shown from its start.
EvidenceIsWhatWasRead ==
    \A e \in evidence.pieces :
        e.sel.kind # "none" =>
            \E t \in Research : \E p \in shown[t] :
                /\ p.owner = e.owner /\ p.sel = e.sel /\ p.offset = e.offset
                /\ IsPrefix(e.text, p.text)
                /\ e.next = e.offset + Len(e.text)

\* Evidence that is said to be complete is the whole stored result.
CompleteIsAll == \A e \in evidence.pieces : e.complete => e.text = Source(kept[e.owner])

\* Why it is so.  A page is of a stored result, which stays as it is; a reference
\* is to a stored result, and of a page that was shown.
PagesAreKept ==
    \A t \in Research : \A p \in shown[t] :
        LET view == View(kept[p.owner], p.sel)
        IN  /\ p.owner \in Research /\ kept[p.owner] # NoDocument
            /\ p.sel.kind \in {"source", "section", "chunk_id", "json_path"}
            /\ view.found /\ p.offset \in Nat /\ p.next \in p.offset..Len(view.text)

PageOf(r, p) == p.owner = r.owner /\ p.sel = r.sel /\ p.offset = r.offset /\ p.next = r.next

RefersTo(r, pages) ==
    /\ r.owner \in Research /\ kept[r.owner] # NoDocument
    /\ r.sel.kind # "none" =>
          /\ \E p \in pages : PageOf(r, p)
          /\ r.total = Len(View(kept[r.owner], r.sel).text)

\* No reference goes stale: the review is refused only what is gone or not its own.
ReferencesStand ==
    /\ \A t \in Research : \A r \in refs[t] : RefersTo(r, shown[t])
    /\ \A e \in evidence.pieces : e.owner \in Research /\ kept[e.owner] # NoDocument

ReadingInv ==
    /\ ReadingTypeOK /\ PagesMissNothing /\ SectionsAreWhole /\ EvidenceIsWhatWasRead /\ CompleteIsAll
    /\ PagesAreKept /\ ReferencesStand
=============================================================================
