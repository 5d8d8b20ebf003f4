--------------------------- MODULE SessionContext ---------------------------
(***************************************************************************)
(* What a chat turn is shown of its session, and the summary that replaces *)
(* the old part of it (service/context_service.go, chat_service_mode.go,   *)
(* repository/summary_repository.go).                                      *)
(*                                                                         *)
(* A turn loads the summary, the recent messages and two recall lists      *)
(* concurrently, and assembles its context from whatever it got.  After    *)
(* its answer a goroutine summarises the session, with retries, while      *)
(* other turns ask, answer and summarise.  A message is its position in    *)
(* the session, its content is the number of its tokens.                   *)
(***************************************************************************)
EXTENDS Naturals, Sequences, FiniteSets, SequencesExt, FiniteSetsExt, Lists

CONSTANTS Slots,        \* turns that run at the same time
          OldSessions,  \* sequences of roles a session may have at the start
          MinMessages,  \* 10: a shorter session is not summarised
          TailKeep,     \* summaryTailKeep
          MinSegment,   \* summaryMinSegment
          MaxRecent,    \* MaxRecentMessages
          RecallTopK,   \* recallTopK
          Budgets,      \* the tokens of history a turn may be given, by its model and tools
          Tokens,       \* [1..MaxMessages -> the tokens of the message at that place]
          CutMin,       \* 120: a rest smaller than this holds no part of a question
          MarkTokens,   \* those of truncationMarker
          TailSpare,    \* 50: what an open question that is cut leaves free, and keeps at least
          LabelTokens,  \* what a recalled message costs beside its text
          Attempts,     \* 3 in refreshContextAsync
          MaxMessages   \* bound: messages of the session

ASSUME SessionSizes == /\ {TailKeep, MinSegment, MaxRecent, RecallTopK, CutMin, TailSpare, Attempts} \subseteq Nat \ {0}
                       /\ Budgets \subseteq Nat /\ {MarkTokens, LabelTokens} \subseteq Nat
                       /\ Tokens \in [1..MaxMessages -> Nat \ {0}]
                       /\ MinMessages \in Nat /\ MinMessages > TailKeep
                       /\ OldSessions \subseteq Seq({"user", "assistant"})
                       /\ MaxMessages \in Nat /\ \A s \in OldSessions : Len(s) <= MaxMessages

VARIABLES messages, summary, turn, refresh, overtaken

sessionVars == <<messages, summary, turn, refresh, overtaken>>

NoSummary == [last |-> 0, count |-> 0, covers |-> {}]
Loads == {"summary", "recent"}
\* A history is messages, what they cost as they are shown, and whether one of them ends in the truncation marker.
NoHistory == [shown |-> <<>>, tokens |-> 0, marked |-> FALSE]
NoTurn == [stage |-> "idle", question |-> 0, loading |-> {}, summary |-> NoSummary,
           recent |-> 0, budget |-> 0, history |-> NoHistory, recall |-> {}]
NoRefresh == [stage |-> "idle", tries |-> 0, listed |-> 0, base |-> NoSummary]

\* What messages cost, each with so much around it.
CostOf(ms, around) ==
    LET upto[k \in 0..MaxMessages] ==
            IF k = 0 THEN 0 ELSE upto[k - 1] + (IF k \in ms THEN Tokens[k] + around ELSE 0)
    IN  upto[MaxMessages]

SessionInit ==
    /\ messages \in OldSessions
    /\ summary = NoSummary
    /\ turn = [t \in Slots |-> NoTurn]
    /\ refresh = [t \in Slots |-> NoRefresh]
    /\ overtaken = FALSE

-----------------------------------------------------------------------------
(* The budget's two containers.                                            *)

\* splitHistoryBudget: about a third goes to recalled messages.
RecallShare(total) ==
    LET share == (total * 35) \div 100
        some  == IF share < 1 /\ total > 1 THEN 1 ELSE share
    IN  IF some >= total THEN total \div 2 ELSE some

\* The pairs of question and answer up to position i of ms that fit into "left", from the last one backwards; "before"
\* gives those up to an earlier position.  Of the pair that does not fit the question's beginning stays, when there is
\* room for one; it fills the room, and the marker comes on top.
PairsUpTo(ms, i, left, before) ==
    LET Before(k, role) == {j \in 1..k : messages[ms[j]] = role}
        answer   == Max(Before(i, "assistant"))
        question == Max(Before(answer - 1, "user"))
        pair     == SubSeq(ms, question, answer)
        cost     == CostOf(Range(pair), 0)
        older    == before[question - 1][left - cost]
    IN  IF Before(i, "assistant") = {} \/ Before(answer - 1, "user") = {} THEN NoHistory
        ELSE IF cost <= left
             THEN [shown |-> older.shown \o pair, tokens |-> older.tokens + cost, marked |-> older.marked]
        ELSE IF left >= CutMin
             THEN [shown |-> <<ms[question]>>, tokens |-> Min({Tokens[ms[question]], left}) + MarkTokens, marked |-> TRUE]
        ELSE NoHistory
Pairs(ms, limit) ==
    LET pairs[i \in 0..Len(ms)] == [left \in 0..limit |-> PairsUpTo(ms, i, left, pairs)] IN pairs

\* truncateHistoryByTokens: a question at the end stays, cut if it is longer than the budget, to TailSpare at least;
\* then whole pairs from the end.
TruncateHistory(ms, limit) ==
    LET n    == Len(ms)
        open == messages[ms[n]] = "user"
        size == Tokens[ms[n]]
        kept == IF size <= limit THEN size ELSE Min({size, IF limit > 2 * TailSpare THEN limit - TailSpare ELSE TailSpare})
        rest == IF kept <= limit THEN Pairs(ms, limit)[n - 1][limit - kept] ELSE NoHistory
    IN  IF limit = 0 \/ n = 0 THEN NoHistory
        ELSE IF open THEN [shown |-> Append(rest.shown, ms[n]), tokens |-> rest.tokens + kept, marked |-> rest.marked]
        ELSE Pairs(ms, limit)[n][limit]

\* Mutant: the summary's last message stays in the history.
ApplySummary_KeepsMark(ms, s) ==
    LET after == Picked(ms, {i \in DOMAIN ms : ms[i] >= s.last})
    IN  IF s.last \notin Range(ms) THEN ms ELSE after

\* applySummary: what follows the last message of the summary, from the first question on.
ApplySummary(ms, s) ==
    LET after == Picked(ms, {i \in DOMAIN ms : ms[i] > s.last})
        questions == {i \in DOMAIN after : messages[after[i]] = "user"}
    IN  IF s.last \notin Range(ms) THEN ms
        ELSE IF questions = {} THEN <<>>
        ELSE SubSeq(after, Min(questions), Len(after))

\* The reciprocal rank of a message in a list.
RecallUnit == RankUnit(RecallTopK)
Score(m, list) == Reciprocal(RecallUnit, {i \in DOMAIN list : list[i] = m})

\* buildRecallContainer: the candidates of both lists by their joint rank, as far as the budget goes.
RecallContainer(keywords, vector, limit) ==
    LET Rank(m) == Score(m, keywords) + Score(m, vector)
        both    == Range(keywords) \cup Range(vector)
        ranked  == Ranked(both, {p \in both \X both : Rank(p[1]) > Rank(p[2]) \/ (Rank(p[1]) = Rank(p[2]) /\ p[1] < p[2])})
        chosen[i \in 0..Cardinality(both)] ==
            IF i = 0 THEN {}
            ELSE LET before == chosen[i - 1]
                     more   == before \cup {ranked[i]}
                 IN  IF CostOf(more, LabelTokens) <= limit THEN more ELSE before
    IN  chosen[Cardinality(both)]

\* BuildContext: the recent part and the recalled part, cut apart from each other.
Assembled(r, keywords, vector, budget) ==
    LET loaded  == [i \in 1..Min({MaxRecent, r.recent}) |-> r.recent - Min({MaxRecent, r.recent}) + i]
        recent  == Picked(loaded, {i \in DOMAIN loaded : loaded[i] # r.question})
        applied == ApplySummary(recent, r.summary)
        share   == RecallShare(budget)
        first   == TruncateHistory(applied, budget - share)
        Others(list) == Picked(list, {i \in DOMAIN list : list[i] \notin Range(first.shown) \cup {r.question}})
        recall  == RecallContainer(Others(keywords), Others(vector), share)
    IN  [r EXCEPT !.stage = "answering", !.budget = budget, !.recall = recall,
                  !.history = IF recall = {} THEN TruncateHistory(applied, budget) ELSE first]

-----------------------------------------------------------------------------
(* A turn.                                                                 *)

\* The question is stored before anything is loaded.
Ask(t) ==
    /\ turn[t].stage = "idle" /\ Len(messages) < MaxMessages
    /\ messages' = Append(messages, "user")
    /\ turn' = [turn EXCEPT ![t] = [NoTurn EXCEPT !.stage = "loading", !.question = Len(messages) + 1, !.loading = Loads]]
    /\ UNCHANGED <<summary, refresh, overtaken>>

\* One load comes back; a failed one leaves its part out.
Load(t, part, outcomes) ==
    /\ turn[t].stage = "loading" /\ part \in turn[t].loading
    /\ \E r \in {turn[t]} \cup outcomes : turn' = [turn EXCEPT ![t] = [r EXCEPT !.loading = @ \ {part}]]
    /\ UNCHANGED <<messages, summary, refresh, overtaken>>

LoadSummary(t) == Load(t, "summary", {[turn[t] EXCEPT !.summary = summary]})
LoadRecent(t)  == Load(t, "recent", {[turn[t] EXCEPT !.recent = Len(messages)]})

\* The keyword list has the newest message first, the list of similar ones any order.  Any of a few old or new messages
\* match, none when a search failed.
Matches == {s \in SeqOf({1, 2, Len(messages) - 2} \cap DOMAIN messages, RecallTopK) : IsInjective(s)}
Assemble(t) ==
    /\ turn[t].stage = "loading" /\ turn[t].loading = {}
    /\ \E keywords \in {s \in Matches : \A i, j \in DOMAIN s : i < j => s[i] > s[j]}, vector \in Matches,
          budget \in Budgets :
          turn' = [turn EXCEPT ![t] = Assembled(@, keywords, vector, budget)]
    /\ UNCHANGED <<messages, summary, refresh, overtaken>>

\* The answer is stored and the refresh starts beside the next turns.  Bound: a slot's previous refresh is over.
Answer(t) ==
    /\ turn[t].stage = "answering" /\ refresh[t].stage = "idle" /\ Len(messages) < MaxMessages
    /\ messages' = Append(messages, "assistant")
    /\ turn' = [turn EXCEPT ![t] = NoTurn]
    /\ refresh' = [refresh EXCEPT ![t] = [NoRefresh EXCEPT !.stage = "list", !.tries = Attempts]]
    /\ UNCHANGED <<summary, overtaken>>

\* A turn that fails leaves its question without an answer, and refreshes nothing.
FailTurn(t) ==
    /\ turn[t].stage \in {"loading", "answering"}
    /\ turn' = [turn EXCEPT ![t] = NoTurn]
    /\ UNCHANGED <<messages, summary, refresh, overtaken>>

-----------------------------------------------------------------------------
(* SummarizeSession, in refreshContextAsync.                               *)

ListMessages(t) ==
    /\ refresh[t].stage = "list"
    /\ refresh' = [refresh EXCEPT ![t] = IF Len(messages) < MinMessages THEN NoRefresh
                                         ELSE [@ EXCEPT !.stage = "read", !.listed = Len(messages)]]
    /\ UNCHANGED <<messages, summary, turn, overtaken>>

\* The messages to summarise follow the last one of the summary, if it is among those listed, up to the tail.
Start(listed, base) == IF base.last <= listed THEN base.last ELSE 0
End(listed) == listed - TailKeep

\* A failed read of the summary counts as none.
ReadSummary(t) ==
    /\ refresh[t].stage = "read"
    /\ \E base \in {summary, NoSummary} :
         /\ refresh' = [refresh EXCEPT ![t] =
                 IF End(refresh[t].listed) < Start(refresh[t].listed, base) + MinSegment THEN NoRefresh
                 ELSE [@ EXCEPT !.stage = "store", !.base = base]]
         /\ overtaken' = (overtaken \/ base.last > refresh[t].listed)
    /\ UNCHANGED <<messages, summary, turn>>

\* What the model writes from the older summary and the segment.
Summarised(listed, base) ==
    LET start == Start(listed, base)
    IN  [last |-> End(listed), count |-> base.count + End(listed) - start,
         covers |-> base.covers \cup (start + 1)..End(listed)]

\* Mutant: the last writer's summary stays.
Upsert_LastWins(new) == new

\* Upsert: the row changes when the new one counts more messages.
Upsert(new) == IF summary = NoSummary \/ new.count > summary.count THEN new ELSE summary

StoreSummary(t) ==
    /\ refresh[t].stage = "store"
    /\ summary' = Upsert(Summarised(refresh[t].listed, refresh[t].base))
    /\ refresh' = [refresh EXCEPT ![t] = NoRefresh]
    /\ UNCHANGED <<messages, turn, overtaken>>

\* The list, the model's call or the write fails; the next attempt starts over.
RefreshFails(t) ==
    /\ refresh[t].stage \in {"list", "store"}
    /\ refresh' = [refresh EXCEPT ![t] = IF @.tries = 1 THEN NoRefresh
                                         ELSE [NoRefresh EXCEPT !.stage = "list", !.tries = refresh[t].tries - 1]]
    /\ UNCHANGED <<messages, summary, turn, overtaken>>

SessionNext ==
    \E t \in Slots :
       \/ Ask(t) \/ LoadSummary(t) \/ LoadRecent(t)
       \/ Assemble(t) \/ Answer(t) \/ FailTurn(t)
       \/ ListMessages(t) \/ ReadSummary(t) \/ StoreSummary(t) \/ RefreshFails(t)

SessionSpec == SessionInit /\ [][SessionNext]_sessionVars

-----------------------------------------------------------------------------
\* Counters and stages stay in their ranges.
SessionTypeOK ==
    /\ messages \in Seq({"user", "assistant"}) /\ Len(messages) \in 0..MaxMessages
    /\ summary.last \in 0..Len(messages) /\ summary.covers \subseteq 1..Len(messages)
    /\ \A t \in Slots : /\ turn[t].stage \in {"idle", "loading", "answering"}
                        /\ refresh[t].stage \in {"idle", "list", "read", "store"}
                        /\ refresh[t].tries \in 0..Attempts

\* However turns, failures and retries overlap, the stored summary covers exactly the messages up to its mark, counts
\* them, and its mark never moves back.  Exempt are sessions in which a refresh read a summary of messages it had not
\* listed: it starts over and adds its count to the summary's.  (SummarizeSession, Upsert)
GrowsAsPrefix ==
    \/ overtaken'
    \/ /\ summary'.covers = 1..summary'.last /\ summary'.count = summary'.last
       /\ summary'.last >= summary.last

\* A history in its room: a question whose beginning is shown may add the marker to it, and an open question that is
\* longer than a small room keeps TailSpare tokens.
InRoom(h, room) ==
    \/ h.tokens <= room + (IF h.marked THEN MarkTokens ELSE 0)
    \/ room < TailSpare /\ h.tokens <= TailSpare

\* A context shows a message once, as history or as recall and not its own question, shows nothing that the summary
\* beside it covers once that summary's mark is among its older recent messages, and is over its budget by a marker, or
\* by what an open question keeps at least, and by no more.  (BuildContext)
ContextIsSound ==
    \A t \in Slots : LET r     == turn[t]
                         shown == r.history.shown
                         share == RecallShare(r.budget) IN
       r.stage = "answering" =>
          /\ \A i, j \in DOMAIN shown : i < j => shown[i] < shown[j]
          /\ Range(shown) \cap r.recall = {} /\ r.question \notin Range(shown) \cup r.recall
          /\ r.summary.last + MaxRecent > r.recent /\ r.summary.last <= r.recent /\ r.summary.last # r.question =>
                \A m \in Range(shown) : m > r.summary.last
          /\ CostOf(r.recall, LabelTokens) <= share
          /\ InRoom(r.history, IF r.recall = {} THEN r.budget ELSE r.budget - share)

\* The two containers together cost no more than the budget.  (The comments at truncateHistoryByTokens and at the
\* history's share in calculateContextBudgetsWithInput.)
StaysInBudget ==
    \A t \in Slots : turn[t].history.tokens + CostOf(turn[t].recall, LabelTokens) <= turn[t].budget

\* The messages kept out of the summary are shown word for word in the context that has the summary: the last
\* ones always stay in the history.  (The comment at the segment's end in SummarizeSession.)
TailStaysVerbatim ==
    \A t \in Slots : LET r == turn[t] IN
       r.stage = "answering" /\ r.summary # NoSummary /\ r.recent > 0 =>
          ((r.summary.last + 1)..(r.summary.last + TailKeep) \cap 1..r.recent) \ {r.question} \subseteq Range(r.history.shown)

=============================================================================
