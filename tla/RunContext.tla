----------------------------- MODULE RunContext -----------------------------
(***************************************************************************)
(* What one agent run sends to the model.  Before every call the messages  *)
(* are rewritten: large tool results, whose text is stored as artifacts,   *)
(* are shown as far as the budget allows, finished rounds are summarised,  *)
(* old conversation and material is dropped (agent/context_summary.go,     *)
(* context_tool_budget.go, context_artifact.go, budget_guard.go,           *)
(* model_recovery.go, repository/context_artifact_repository.go).          *)
(*                                                                         *)
(* A message costs 1 and what it shows.  The id of a message that holds a  *)
(* reference is also the id of its artifact.                               *)
(***************************************************************************)
EXTENDS Integers, Sequences, FiniteSets, FiniteSetsExt, Functions, Lists

CONSTANTS Window, Output, Margin,   \* the model's window, the output reserved in it, the estimate's margin
          MinOutput,                \* MinimumAdaptiveOutput
          SoftTenths, TargetTenths, \* water marks, in tenths of the hard limit
          SummaryInput, SummaryMaxCalls,
          Large,                    \* size of a result that is stored as an artifact
          UserBytes,                \* quota of artifacts
          MaxRounds, MaxPairs       \* bounds: calls of the model; pairs of earlier conversation

VARIABLES msgs,      \* the state's messages, saved in checkpoints
          stored,    \* artifacts: id to size
          snap,      \* runtimeSnapshot: references, calls of the summary model, the current summary
          phase, rounds,
          sent,      \* what the model was sent last, and the output it may write
          quick,     \* the profile
          expired,   \* the artifacts' time is over
          given      \* ghost: all messages that questions, tools and the model added

contextVars == <<msgs, stored, snap, phase, rounds, sent, quick, expired, given>>

RefHead == 1
Hard    == Window - Output - Margin
Soft    == (Hard * SoftTenths) \div 10
SummaryTarget  == (Hard * TargetTenths) \div 10

Message(id, role, kind, size, calls, call) ==
    [id |-> id, role |-> role, kind |-> kind, size |-> size, shown |-> size, calls |-> calls, call |-> call]
Text(id, role) == Message(id, role, "text", 1, <<>>, 0)

Cost(ms) == LET upTo[i \in 0..Len(ms)] == IF i = 0 THEN 0 ELSE upTo[i - 1] + 1 + ms[i].shown IN upTo[Len(ms)]
Ids(ms)  == {ms[i].id : i \in DOMAIN ms}
Without(ms, gone) == LET ids == {ms[i].id : i \in gone} IN Picked(ms, {i \in DOMAIN ms : ms[i].id \notin ids})
NewId    == Max({0} \cup Ids(given)) + 1
\* Summaries get ids of their own.
LastUser(ms, other) == Max({0} \cup {i \in DOMAIN ms : ms[i].role = "user" /\ ms[i].kind \notin other})

-----------------------------------------------------------------------------
(* Groups of messages that belong together.                                *)

\* completedToolGroups: a call with all of its results, none of which is a fact that has to stay; the last group stays.
Results(ms, i) == {j \in (i + 1)..(i + Len(ms[i].calls)) : j \in DOMAIN ms /\ ms[j].role = "tool"}
\* Mutant: a round with a failure or a refusal counts as finished.
ToolGroups_FailedToo(ms) ==
    LET complete == {i \in DOMAIN ms : /\ ms[i].role = "assistant" /\ ms[i].calls # <<>>
                                       /\ ~\E c \in Range(ms[i].calls) : c.danger
                                       /\ {ms[j].call : j \in Results(ms, i)} = {c.id : c \in Range(ms[i].calls)}}
    IN  {i..(i + Len(ms[i].calls)) : i \in complete \ {Max({0} \cup complete)}}

ToolGroups(ms) ==
    LET complete == {i \in DOMAIN ms : /\ ms[i].role = "assistant" /\ ms[i].calls # <<>>
                                       /\ ~\E c \in Range(ms[i].calls) : c.danger
                                       /\ {ms[j].call : j \in Results(ms, i)} = {c.id : c \in Range(ms[i].calls)}
                                       /\ ~\E j \in Results(ms, i) : ms[j].kind = "failed"}
    IN  {i..(i + Len(ms[i].calls)) : i \in complete \ {Max({0} \cup complete)}}

\* completedConversationGroups: pairs before the question; the last pair stays.
Pair(ms, i) == /\ ms[i].role = "user" /\ ms[i].kind \notin {"material", "summary"}
               /\ ms[i + 1].role = "assistant" /\ ms[i + 1].calls = <<>>
               /\ ms[i + 2].role = "user"
ConversationGroups(ms) ==
    LET last  == LastUser(ms, {"summary"})
        pairs == {i \in 1..(last - 2) : Pair(ms, i)}
    IN  {{i, i + 1} : i \in pairs \ {Max({0} \cup pairs)}}

-----------------------------------------------------------------------------
(* Large results.                                                          *)

\* projectArtifact: as much of the text as the allowance has room for.
Project(shown, allowance) == IF shown <= allowance THEN shown ELSE Max({RefHead, allowance})

\* fitStoredToolResults: smaller results first, each with an equal share of what is left.
Shared(ms, order, rest) ==
    LET done[k \in 0..Len(order)] ==
            IF k = 0 THEN [ms |-> ms, rest |-> rest]
            ELSE LET before == done[k - 1]
                     shown  == Project(ms[order[k]].shown, before.rest \div (Len(order) - k + 1))
                 IN  [ms |-> [before.ms EXCEPT ![order[k]].shown = shown], rest |-> Max({0, before.rest - shown})]
    IN  done[Len(order)].ms

Fit(ms) ==
    LET stores == {i \in DOMAIN ms : ms[i].kind \in {"ref", "page"} /\ ms[i].shown > RefHead}
        others == Cost(Without(ms, stores)) + Cardinality(stores)
        Smaller(i, j) == ms[i].shown < ms[j].shown \/ (ms[i].shown = ms[j].shown /\ i < j)
    IN  IF Cost(ms) <= Soft THEN ms
        ELSE Shared(ms, Ranked(stores, {p \in stores \X stores : Smaller(p[1], p[2])}), Max({0, SummaryTarget - others}))

\* expandToolContext: every whole result is shown from its artifact again.
Whole(m) == IF m.kind = "ref" THEN [m EXCEPT !.shown = RefHead + m.size] ELSE m
Expand(ms) == Fit(SubSeq([i \in DOMAIN ms |-> Whole(ms[i])], 1, Len(ms)))

-----------------------------------------------------------------------------
(* The rewriting of the state before each call.                            *)

RefsOf(ms) == {ms[i].id : i \in {i \in DOMAIN ms : ms[i].kind = "ref"}}

\* Groups that do not fit into one summary are left for a later one.
Taken(ms, groups) ==
    LET order == Ranked(groups, {p \in groups \X groups : Min(p[1]) < Min(p[2])})
        taken[k \in 0..Cardinality(groups)] ==
            IF k = 0 THEN [members |-> {}, used |-> 2]
            ELSE LET before == taken[k - 1]
                     g      == order[k]
                     next   == before.used + Cost(SubSeq(ms, Min(g), Max(g)))
                 IN  IF next <= SummaryInput THEN [members |-> before.members \cup g, used |-> next] ELSE before
    IN  taken[Cardinality(groups)].members

ToSummarise(ms) == Taken(ms, ToolGroups(ms) \cup (IF quick THEN ConversationGroups(ms) ELSE {}))

Summarised(ms, covered, refs, id) ==
    LET old == {i \in DOMAIN ms : i = 1 /\ ms[i].kind = "summary" /\ ms[i].id = snap.summary}
    IN  <<[Message(id, "user", "summary", 1, <<>>, 0) EXCEPT !.shown = 1 + Cardinality(refs)]>> \o Without(ms, covered \cup old)

\* budgetGuard: dropOldConversation until the soft mark is met, then material while the hard limit is exceeded.
OldPairs(ms) == {i \in 1..(LastUser(ms, {}) - 2) : Pair(ms, i)}
DropPair(ms) == IF OldPairs(ms) = {} THEN ms ELSE Without(ms, {Min(OldPairs(ms)), Min(OldPairs(ms)) + 1})
DropPairs(ms) ==
    LET most == Cardinality(OldPairs(ms))
        after[k \in 0..most] ==
            IF k = 0 THEN ms
            ELSE LET before == after[k - 1] IN IF Cost(before) <= Soft THEN before ELSE DropPair(before)
    IN  after[most]
DropMaterial(ms) ==
    LET Material(s) == {i \in DOMAIN s : s[i].kind = "material"}
        most == Cardinality(Material(ms))
        after[k \in 0..most] ==
            IF k = 0 THEN ms
            ELSE LET before == after[k - 1]
                 IN  IF Cost(before) <= Hard \/ Material(before) = {} THEN before ELSE Without(before, {Max(Material(before))})
    IN  after[most]
Guard(ms) == DropMaterial(DropPairs(Fit(ms)))

\* FitOutputLimit: the output that is left, 0 when it is too little.
FitOutput(requested, used) ==
    LET available == Window - Margin - used
    IN  IF available < Min({requested, MinOutput}) THEN 0 ELSE Min({requested, available})

\* budgetModel.prepare: on a copy.
Prepared(ms, requested) == LET copy == Guard(ms) IN [ms |-> copy, output |-> FitOutput(requested, Cost(copy))]

\* recovery: once more with half of the output, unless that is too little.
Recovered(first) ==
    LET half == Max({MinOutput, first.output \div 2})
    IN  IF half < first.output THEN Prepared(first.ms, half) ELSE [first EXCEPT !.output = 0]

\* FindScoped and SaveImmutable, on the artifacts of one user.
Readable(refs) == refs \subseteq DOMAIN stored
OverQuota(n)   == Large * (Cardinality(DOMAIN stored) + n) > UserBytes

-----------------------------------------------------------------------------
ContextInit ==
    /\ quick \in BOOLEAN
    /\ \E pairs \in 0..MaxPairs, material \in 0..1 :
          LET order == <<"system">> \o [i \in 1..material |-> "material"] \o [i \in 1..(2 * pairs) |-> IF i % 2 = 1 THEN "user" ELSE "assistant"]
                       \o <<"user">>
          IN  msgs = [i \in DOMAIN order |-> IF order[i] = "material" THEN Message(i, "user", "material", 1, <<>>, 0) ELSE Text(i, order[i])]
    /\ stored = <<>> /\ snap = [refs |-> {}, calls |-> 0, summary |-> 0, covered |-> {}]
    /\ phase = "ready" /\ rounds = 0 /\ sent = [ms |-> <<>>, output |-> 0] /\ expired = FALSE /\ given = msgs

Fail == phase' = "failed" /\ UNCHANGED <<msgs, snap, sent>>

\* runtimeContextMiddleware, budgetGuard and budgetModel before a call; the summary model may fail.  The model may
\* reject the request as too long: it is repeated once with half of the output.
BeforeModel(summaryWorks, rejections) ==
    /\ phase = "ready" /\ rounds < MaxRounds /\ rounds' = rounds + 1
    /\ \E shown \in {Expand(msgs)} :
         LET refs    == snap.refs \cup RefsOf(shown)
             covered == ToSummarise(shown)
             try     == Cost(shown) > Soft /\ covered # {} /\ snap.calls < SummaryMaxCalls
             new     == Summarised(shown, covered, refs, -(snap.calls + 1))
             works   == try /\ summaryWorks /\ Cost(new) < Cost(shown)
         IN  \E kept \in {Guard(IF works THEN new ELSE shown)} :
               LET first   == Prepared(kept, Output)
                   request == IF rejections = 0 \/ first.output = 0 THEN first ELSE Recovered(first)
               IN  IF rejections = 2 \/ ~Readable(refs) \/ request.output = 0
                   THEN Fail
                   ELSE /\ msgs' = kept /\ sent' = request /\ phase' = "model"
                        /\ snap' = [snap EXCEPT !.refs = refs, !.calls = IF try THEN @ + 1 ELSE @,
                                                !.summary = IF works THEN -(snap.calls + 1) ELSE @,
                                                !.covered = IF works THEN @ \cup {shown[i].id : i \in covered} ELSE @]
    /\ UNCHANGED <<stored, quick, expired, given>>

\* The model's final answer, or the tools it calls, with whether each needs an approval.
Answers == phase = "model" /\ phase' = "done" /\ UNCHANGED <<msgs, stored, snap, rounds, sent, quick, expired, given>>
Calls(dangers) ==
    LET m == Message(NewId, "assistant", "text", 1, [i \in DOMAIN dangers |-> [id |-> i, danger |-> dangers[i]]], 0)
    IN  /\ phase = "model" /\ msgs' = Append(msgs, m) /\ given' = Append(given, m)
        /\ phase' = IF TRUE \in Range(dangers) THEN "paused" ELSE "tools"
        /\ UNCHANGED <<stored, snap, rounds, sent, quick, expired>>

\* The user decides; the run goes on from its checkpoint.
Resume == phase = "paused" /\ phase' = "tools" /\ UNCHANGED <<msgs, stored, snap, rounds, sent, quick, expired, given>>

\* All results of a round, through artifactMiddleware: a large one of a call without approval is stored.
ToolsReturn(kinds) ==
    LET call      == given[Len(given)]
        stores(i) == kinds[i] = "large" /\ ~call.calls[i].danger
        kindOf(i) == IF kinds[i] = "failed" THEN "failed" ELSE IF kinds[i] = "page" THEN "page" ELSE IF stores(i) THEN "ref" ELSE "text"
        sizeOf(i) == IF kinds[i] = "large" THEN Large ELSE IF kinds[i] = "page" THEN 1 + RefHead ELSE 1
        results   == [i \in DOMAIN kinds |-> Message(NewId + i - 1, "tool", kindOf(i), sizeOf(i), <<>>, i)]
        news      == {i \in DOMAIN kinds : stores(i)}
    IN  /\ phase = "tools" /\ Len(kinds) = Len(call.calls)
        /\ "page" \in Range(kinds) => snap.refs # {}
        /\ IF OverQuota(Cardinality(news))
           THEN Fail /\ UNCHANGED <<stored, given>>
           ELSE /\ stored' = [id \in DOMAIN stored \cup {results[i].id : i \in news} |-> Large]
                /\ msgs' = msgs \o results /\ given' = given \o results /\ phase' = "ready"
                /\ UNCHANGED <<snap, sent>>
        /\ UNCHANGED <<rounds, quick, expired>>

\* A pause lasts longer than the artifacts' time; DeleteExpired keeps what a checkpoint's session refers to.
Expires == phase = "paused" /\ ~expired /\ expired' = TRUE /\ UNCHANGED <<msgs, stored, snap, phase, rounds, sent, quick, given>>
\* Mutant: expired artifacts are deleted although a checkpoint refers to them.
DeleteExpired_Checkpointed ==
    /\ expired /\ stored # <<>>
    /\ stored' = <<>> /\ UNCHANGED <<msgs, snap, phase, rounds, sent, quick, expired, given>>

DeleteExpired ==
    /\ expired /\ stored # <<>> /\ phase \in {"done", "failed"}
    /\ stored' = <<>> /\ UNCHANGED <<msgs, snap, phase, rounds, sent, quick, expired, given>>

Kinds == {"small", "large", "failed", "page"}
ContextNext ==
    \/ \E ok \in BOOLEAN, rejections \in 0..2 : BeforeModel(ok, rejections)
    \/ Answers \/ Resume \/ Expires \/ DeleteExpired
    \/ \E dangers \in {<<FALSE>>, <<TRUE>>, <<FALSE, FALSE>>} : Calls(dangers)
    \/ \E n \in 1..2 : \E kinds \in [1..n -> Kinds] : ToolsReturn(kinds)

ContextSpec == ContextInit /\ [][ContextNext]_contextVars

-----------------------------------------------------------------------------
ContextTypeOK == phase \in {"ready", "model", "paused", "tools", "done", "failed"} /\ snap.calls <= SummaryMaxCalls

\* Whatever was summarised, dropped and cut: every call in a request is followed by all of its results and every result
\* follows its call, the question and the latest round are there, no failure or refusal is lost, and the request leaves
\* room for its output.  (completedToolGroups, dropOldConversation, fitStoredToolResults, FitOutputLimit)
RequestIsWhole ==
    phase = "model" =>
        LET ms == sent.ms
            turns == {i \in DOMAIN ms : ms[i].calls # <<>>}
            last == Max({0} \cup {i \in DOMAIN given : given[i].calls # <<>>})
        IN  /\ \A i \in turns : \A k \in DOMAIN ms[i].calls : i + k \in DOMAIN ms /\ ms[i + k].role = "tool" /\ ms[i + k].call = k
            /\ \A j \in DOMAIN ms : ms[j].role = "tool" => \E i \in turns : j \in (i + 1)..(i + Len(ms[i].calls))
            /\ \A i \in DOMAIN given : given[i].kind = "failed" \/ (last # 0 /\ i >= last) => given[i].id \in Ids(ms)
            /\ given[Max({i \in DOMAIN given : given[i].role = "user"})].id \in Ids(ms)
            /\ Cost(ms) + sent.output + Margin <= Window

\* What tools returned is in the request or covered by the summary in it, and the texts of stored results can be read
\* again as long as the run may go on, however long it was paused.  (BeforeModelRewriteState, SaveImmutable, DeleteExpired)
NothingIsForgotten ==
    /\ phase = "model" =>
          /\ \A i \in DOMAIN given : given[i].role = "tool" => given[i].id \in Ids(sent.ms) \cup snap.covered
          /\ snap.covered # {} => \E i \in DOMAIN sent.ms : sent.ms[i].kind = "summary" /\ sent.ms[i].id = snap.summary
          /\ RefsOf(given) \subseteq snap.refs
    /\ phase \notin {"done", "failed"} => RefsOf(given) \subseteq DOMAIN stored

=============================================================================
