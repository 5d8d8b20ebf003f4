----------------------------- MODULE MCServices -----------------------------
(***************************************************************************)
(* What a run may do and who may ask for it, checked in one run: the tools *)
(* an agent gets, the rounds of one run with their approvals, the tasks an *)
(* older program left waiting, the reading of stored results, the accounts *)
(* and the tokens.  A behaviour is a behaviour of one part; the variables  *)
(* of the others are not used in it.                                       *)
(***************************************************************************)
EXTENDS ToolSet, ArtifactReading, Accounts, LoginTokens, TLC

CONSTANTS
    Configured, MaxRetries, Dangerous, Batches, Texts, MaxPauses,  \* of AgentRun
    DependsOn, Order, MaxCards                                     \* of LegacyResume

VARIABLES part,
          phase, round, attempt, calls, target, stored, answer, agentShown,
          ending, alive, found, pauses, ghost,
          saved, card, behind, parallel, legacyPc, plan, result, batch, answered, told

agentVars  == <<phase, round, attempt, calls, target, stored, answer, agentShown,
                ending, alive, found, pauses, ghost>>
legacyVars == <<saved, card, behind, parallel, legacyPc, plan, result, batch, answered, told>>

-----------------------------------------------------------------------------
(* The instances.                                                          *)

\* Four of the program's tools, two of them with the same order.
Entry(name, rank, order, dangerous, domain) ==
    [name |-> name, rank |-> rank, order |-> order, dangerous |-> dangerous, domain |-> domain]
MCCatalogue ==
    {Entry("knowledge_search", 4, 2, FALSE, Knowledge),
     Entry("grep_chunks", 3, 2, FALSE, Knowledge),
     Entry("delete_document", 2, 1, TRUE, DocMgmt),
     Entry("ask_clarify", 1, 3, FALSE, Clarify)}

\* A Markdown text with a heading in code and two ranks of headings, an MCP
\* result of two texts, a knowledge result of two chunks; two researches, one
\* after the other, and their review.
Line(word, level, fence) == [word |-> word, level |-> level, fence |-> fence, quoted |-> FALSE]
Markdown ==
    [kind |-> "text", parts |-> <<<<Line(1, 1, ""), Line(2, 2, ""), Line(2, 0, "backtick"),
                                    Line(1, 1, ""), Line(0, 0, "backtick"), Line(1, 1, "")>>>>]
McpResult == [kind |-> "mcp", parts |-> <<<<Line(1, 0, "")>>, <<Line(2, 0, ""), Line(1, 0, "")>>>>]
KnowledgeResult == [kind |-> "knowledge", parts |-> <<<<Line(1, 0, "")>>, <<Line(2, 0, "")>>>>]
MCDocuments == [t \in {"first", "second"} |->
                    IF t = "first" THEN {Markdown, KnowledgeResult} ELSE {McpResult}]
MCPlan == [t \in {"first", "second", "review"} |->
                    CASE t = "first" -> {} [] t = "second" -> {"first"} [] OTHER -> {"second"}]

\* Messages of one search, of one question, and of two dangerous calls at once.
MCBatches == {{"knowledge_search"}, {"ask_clarify"}, {"delete", "publish"}}

ASSUME AgentAssumption ==
    /\ Configured \in Nat /\ MaxRetries \in Nat /\ MaxPauses \in Nat
    /\ "none" \notin Texts \cup UNION Batches

Agent == INSTANCE AgentRun WITH shown <- agentShown

\* Two researches, a third that builds on one of them, and the review of all.
MCDependsOn == [t \in {"a", "b", "c", "review"} |->
                   CASE t = "c" -> {"a"} [] t = "review" -> {"b", "c"} [] OTHER -> {}]
MCOrder == [t \in {"a", "b", "c", "review"} |->
               CASE t = "a" -> 1 [] t = "b" -> 2 [] t = "c" -> 3 [] OTHER -> 4]

ASSUME LegacyAssumption ==
    /\ DependsOn \in [DOMAIN DependsOn -> SUBSET DOMAIN DependsOn]
    /\ Order \in [DOMAIN DependsOn -> Nat] /\ Review \in DOMAIN DependsOn
    /\ MaxCards \in Nat \ {0}

Legacy == INSTANCE LegacyResume WITH pc <- legacyPc

-----------------------------------------------------------------------------
(* One part at a time.                                                     *)

NoTools    == /\ internalTools = 0 /\ planExecute = 0 /\ bundle = 0 /\ req = 0 /\ external = 0
              /\ waiting = 0 /\ mounted = 0 /\ pc = 0
NoReading  == /\ kept = 0 /\ status = 0 /\ refs = 0 /\ shown = 0 /\ expired = 0 /\ evidence = 0
NoAccounts == /\ users = 0 /\ codes = 0 /\ lastCode = 0 /\ cached = 0 /\ unsaved = 0
              /\ requests = 0 /\ passwords = 0 /\ gone = 0
NoTokens   == /\ now = 0 /\ userStatus = 0 /\ captchas = 0 /\ tokens = 0 /\ revoked = 0 /\ out = 0 /\ late = 0
NoAgent    == /\ phase = 0 /\ round = 0 /\ attempt = 0 /\ calls = 0 /\ target = 0 /\ stored = 0
              /\ answer = 0 /\ agentShown = 0 /\ ending = 0 /\ alive = 0 /\ found = 0
              /\ pauses = 0 /\ ghost = 0
NoLegacy   == /\ saved = 0 /\ card = 0 /\ behind = 0 /\ parallel = 0 /\ legacyPc = 0 /\ plan = 0 /\ result = 0
              /\ batch = 0 /\ answered = 0 /\ told = 0

Init ==
    /\ part \in {"tools", "reading", "accounts", "tokens", "agent", "legacy"}
    /\ IF part = "tools"    THEN ToolInit ELSE NoTools
    /\ IF part = "reading"  THEN ReadingInit ELSE NoReading
    /\ IF part = "accounts" THEN AccountInit ELSE NoAccounts
    /\ IF part = "tokens"   THEN TokenInit ELSE NoTokens
    /\ IF part = "agent"    THEN Agent!AgentInit ELSE NoAgent
    /\ IF part = "legacy"   THEN Legacy!LegacyInit ELSE NoLegacy

Next ==
    \/ /\ part = "tools" /\ ToolNext
       /\ UNCHANGED <<part, readingVars, accountVars, tokenVars, agentVars, legacyVars>>
    \/ /\ part = "reading" /\ ReadingNext
       /\ UNCHANGED <<part, toolVars, accountVars, tokenVars, agentVars, legacyVars>>
    \/ /\ part = "accounts" /\ AccountNext
       /\ UNCHANGED <<part, toolVars, readingVars, tokenVars, agentVars, legacyVars>>
    \/ /\ part = "tokens" /\ TokenNext
       /\ UNCHANGED <<part, toolVars, readingVars, accountVars, agentVars, legacyVars>>
    \/ /\ part = "agent" /\ Agent!AgentNext
       /\ UNCHANGED <<part, toolVars, readingVars, accountVars, tokenVars, legacyVars>>
    \/ /\ part = "legacy" /\ Legacy!LegacyNext
       /\ UNCHANGED <<part, toolVars, readingVars, accountVars, tokenVars, agentVars>>

Spec == Init /\ [][Next]_<<part, toolVars, readingVars, accountVars, tokenVars, agentVars, legacyVars>>

\* Nothing distinguishes the requests that change accounts.
Symmetry == Permutations(Requests)

-----------------------------------------------------------------------------
(* The properties of the parts; each includes the types of its variables.  *)

\* The prompt lists the tools an agent has, in an order that does not depend on
\* when they were registered; and no agent is given a dangerous tool without its
\* guard, or one from outside of what its user chose (ToolSet).
ToolsAreBounded ==
    part = "tools" => /\ ToolTypeOK /\ PromptMatchesTools /\ ListsAreStable
                      /\ RiskIsGuarded /\ StaysInside /\ TasksKeepTheChoice

\* Pages add up to the source, sections end where their headings say, and the
\* evidence of the review is what was read (ArtifactReading).
ReadingIsHonest ==
    part = "reading" => ReadingInv

\* What was taken back stays so: a user that was deleted, a password that was
\* replaced, a token that was logged out (Accounts, LoginTokens).
WithdrawnStaysWithdrawn ==
    /\ part = "accounts" => AccountInv
    /\ part = "tokens" => TokenInv

\* A dangerous call runs once at most, and only after its approval (AgentRun).
OnlyApprovedRuns == part = "agent" => Agent!AgentTypeOK /\ Agent!OnlyApprovedRuns /\ Agent!CallsAreOpen

\* A run that ends well shows the whole answer, once, and what was shown is
\* what is stored; asking the user leaves room for the answer (AgentRun).
AnswerIsWhole ==
    part = "agent" => /\ Agent!DoneIsWhole /\ Agent!AnswerIsAsShown /\ Agent!RoomForClarify
                      /\ Agent!RoundsAreCounted /\ Agent!TextIsWhole /\ Agent!GhostIsWhole

\* A resumed task of an older program runs on finished work only, and the card
\* that is shown is one that can be answered (LegacyResume).
LegacyIsResumable ==
    part = "legacy" => Legacy!LegacyInv
=============================================================================
