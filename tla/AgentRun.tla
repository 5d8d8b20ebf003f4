------------------------------ MODULE AgentRun ------------------------------
(***************************************************************************)
(* One run of an agent: rounds of a model call and the tools it asked for, *)
(* read by runWithRunner, which turns them into the events of the answer,  *)
(* pauses for the user and goes on from the checkpoint                     *)
(* (agent/runner_adapter.go, quick_agent.go, deep_agent.go and the         *)
(* middlewares around model and tools).  The events of a run reach its     *)
(* reader in order, so producing and reading one is one step.              *)
(***************************************************************************)
EXTENDS Naturals, Sequences

CONSTANTS Configured,   \* the configured iterations
          MaxRetries,   \* ModelMaxRetries
          Dangerous,    \* tools that need an approval
          Batches,      \* sets of tools that one message may ask for
          Texts,        \* kinds of text: a word, one that ends a paragraph, a space
          MaxPauses     \* bound on the pauses of a run

VARIABLES phase,       \* idle, call, stream, tools, settled, finish, paused, over
          round,       \* model calls so far: kept in the checkpoint
          attempt,     \* of this call: its number, whether output came, the text it shows, the tools it asks for
          calls,       \* the asked tools: waiting, done or stopped
          target,      \* what the user answered, and to which card
          stored,      \* the checkpoint
          answer,      \* fullAnswer: pieces of text
          shown,       \* the text the client got
          ending,      \* the events that end this execution
          alive,       \* the request's context
          found,       \* this execution searched with a result
          pauses,
          ghost        \* tools that ran or were approved, rounds of tools, attempts whose text broke off, the last end

agentVars == <<phase, round, attempt, calls, target, stored, answer, shown, ending, alive, found, pauses, ghost>>

Nothing == [is |-> "nothing"]
NoTarget == [tool |-> "none", verdict |-> "none"]
Clarify == "ask_clarify"
Search == "knowledge_search"
Tools == UNION Batches
Pausing == (Dangerous \cup {Clarify}) \cap Tools
Fresh(n) == [number |-> n, output |-> FALSE, text |-> "none", asked |-> {}]
Running == phase \notin {"idle", "paused", "over"}

-----------------------------------------------------------------------------
(* Operators                                                               *)

\* Mutant: the configured number as it is.
AgentIterations_AsConfigured == Configured

\* agentIterations: an answer, a search, and with tools that pause two rounds more.
AgentIterations == LET need == 2 + IF Pausing # {} THEN 2 ELSE 0 IN IF Configured >= need THEN Configured ELSE need

\* Mutant: an attempt that showed something is tried again.
MayRetry_Anyway(error) == error # "refused" /\ alive

\* modelRetryConfig: only before any output, and for errors that may pass.
MayRetry(error) == ~attempt.output /\ error # "refused" /\ alive

\* Mutant: text is enough.
Completes_WithText(reason) == IF attempt.asked = {} THEN attempt.text # "none" ELSE reason = "tool_calls"

\* validateModelCompletion: the end that the model names fits what it wrote.
Completes(reason) == reason = IF attempt.asked = {} THEN "stop" ELSE "tool_calls"

Piece(text) == [round |-> round, number |-> attempt.number, text |-> text]
Separator == [round |-> 0, number |-> 0, text |-> "break"]
EndsParagraph(s) == Len(s) > 0 /\ s[Len(s)].text \in {"paragraph", "break"}
Blank(s) == \A i \in DOMAIN s : s[i].text \in {"space", "break"}

\* Mutant: the text of a round follows the last one directly.
Segment_Joined(text) == <<Piece(text)>>

\* beginAnswerSegment: a blank line between the text of two rounds.
Segment(text) == IF answer = <<>> \/ EndsParagraph(answer) THEN <<Piece(text)>> ELSE <<Separator, Piece(text)>>

\* eventch.Send: to a client that left, the event gets through or is dropped.
Terminal(event) == \/ ending' = Append(ending, event)
                   \/ ~alive /\ ending' = ending

Over(event) == Terminal(event) /\ phase' = "over"

-----------------------------------------------------------------------------
(* Rounds                                                                  *)

AgentInit ==
    /\ phase = "idle" /\ round = 0 /\ attempt = Fresh(0) /\ calls = [t \in Tools |-> "none"]
    /\ target = NoTarget /\ stored = Nothing /\ answer = <<>> /\ shown = <<>> /\ ending = <<>>
    /\ alive = TRUE /\ found = FALSE /\ pauses = 0
    /\ ghost = [ran |-> [t \in Tools |-> 0], approved |-> {}, rounds |-> 0, broken |-> {}, last |-> "none"]

Start == phase = "idle" /\ phase' = "call"
         /\ UNCHANGED <<round, attempt, calls, target, stored, answer, shown, ending, alive, found, pauses, ghost>>

\* The agent's next model call, unless it had its number of them.
CallModel ==
    /\ phase = "call" /\ alive
    /\ IF round < AgentIterations
       THEN phase' = "stream" /\ round' = round + 1 /\ attempt' = Fresh(1) /\ UNCHANGED ending
       ELSE Over("max_iterations") /\ UNCHANGED <<round, attempt>>
    /\ UNCHANGED <<calls, target, stored, answer, shown, alive, found, pauses, ghost>>

\* consumeMessageStream: text of a message that has not asked for a tool is part of the answer.
StreamText(text) ==
    /\ phase = "stream" /\ attempt.text = "none" /\ alive
    /\ attempt' = [attempt EXCEPT !.output = TRUE, !.text = text]
    /\ IF attempt.asked = {}
       THEN answer' = answer \o Segment(text) /\ shown' = shown \o Segment(text)
       ELSE UNCHANGED <<answer, shown>>
    /\ UNCHANGED <<phase, round, calls, target, stored, ending, alive, found, pauses, ghost>>

\* A fragment that has only a role, or calls of tools.
StreamCalls(batch) ==
    /\ phase = "stream" /\ attempt.asked = {} /\ alive
    /\ attempt' = [attempt EXCEPT !.output = TRUE, !.asked = batch]
    /\ UNCHANGED <<phase, round, calls, target, stored, answer, shown, ending, alive, found, pauses, ghost>>

\* The call fails: another attempt, with a notice, or the end of the run.
StreamFails(error) ==
    /\ phase = "stream"
    /\ ghost' = IF attempt.text = "none" THEN ghost ELSE [ghost EXCEPT !.broken = @ \cup {<<round, attempt.number>>}]
    /\ IF MayRetry(error) /\ attempt.number <= MaxRetries
       THEN attempt' = Fresh(attempt.number + 1) /\ UNCHANGED <<phase, ending>>
       ELSE attempt' = attempt /\ Over("error")
    /\ UNCHANGED <<round, calls, target, stored, answer, shown, alive, found, pauses>>

\* completionGuard: a message that is cut, filtered or does not fit its end is an error.
StreamEnds(reason) ==
    /\ phase = "stream"
    /\ ghost' = [ghost EXCEPT !.last = reason,
                              !.rounds = IF Completes(reason) /\ attempt.asked # {} THEN @ + 1 ELSE @,
                              !.ran = [t \in Tools |-> IF t \in attempt.asked THEN 0 ELSE @[t]],
                              !.approved = @ \ attempt.asked]
    /\ IF ~Completes(reason) THEN Over("error") /\ UNCHANGED calls
       ELSE /\ phase' = IF attempt.asked = {} THEN "finish" ELSE "tools"
            /\ calls' = [t \in Tools |-> IF t \in attempt.asked THEN "waiting" ELSE "none"]
            /\ UNCHANGED ending
    /\ attempt' = Fresh(0)
    /\ UNCHANGED <<round, target, stored, answer, shown, alive, found, pauses>>

-----------------------------------------------------------------------------
(* Tools                                                                   *)

\* Mutant: any answer of the user lets every tool that was stopped go on.
Go_Any(t) == t \in Dangerous /\ calls[t] = "stopped" /\ target.verdict = "approve"

\* buildDangerousToolMiddleware: a tool goes on with the approval of its own card.
Go(t) == t \in Dangerous /\ calls[t] = "stopped" /\ target = [tool |-> t, verdict |-> "approve"]

\* A denied tool and an answered question are done without running.
Answered(t) == /\ calls[t] = "stopped" /\ target.tool = t
               /\ target.verdict = IF t = Clarify THEN "answer" ELSE "deny"

Runs(t) == t \notin Pausing \/ Go(t)

\* First call, or the resume is for another card: stop (again).
Stops(t) == t \in Pausing /\ ~Runs(t) /\ ~Answered(t) /\ (calls[t] = "waiting" \/ target.tool # t)

\* The tools of a message run side by side; toolTimeoutMiddleware ends one that takes too long.
ToolReturns(t) ==
    /\ phase = "tools" /\ calls[t] \in {"waiting", "stopped"}
    /\ Runs(t) \/ Answered(t)
    /\ calls' = [calls EXCEPT ![t] = "done"]
    /\ ghost' = IF Runs(t) THEN [ghost EXCEPT !.ran[t] = @ + 1] ELSE ghost
    /\ found' \in (IF t = Search THEN {TRUE, found} ELSE {found})
    /\ UNCHANGED <<phase, round, attempt, target, stored, answer, shown, ending, alive, pauses>>

ToolStops(t) ==
    /\ phase = "tools" /\ calls[t] = "waiting" /\ Stops(t)
    /\ calls' = [calls EXCEPT ![t] = "stopped"]
    /\ UNCHANGED <<phase, round, attempt, target, stored, answer, shown, ending, alive, found, pauses, ghost>>

\* A tool that fails, times out or was resumed without an answer fails the run; it may have had its effect.
ToolFails(t) ==
    /\ phase = "tools" /\ calls[t] \in {"waiting", "stopped"} /\ ~Stops(t)
    /\ ghost' \in (IF Runs(t) THEN {ghost, [ghost EXCEPT !.ran[t] = @ + 1]} ELSE {ghost})
    /\ Over("error")
    /\ UNCHANGED <<round, attempt, calls, target, stored, answer, shown, alive, found, pauses>>

Unsettled == {t \in Tools : calls[t] = "waiting" \/ (calls[t] = "stopped" /\ ~Stops(t))}

\* All tools are done: the next round.
ToolsDone ==
    /\ phase = "tools" /\ Unsettled = {} /\ \A t \in Tools : calls[t] # "stopped"
    /\ phase' = "call" /\ target' = NoTarget
    /\ UNCHANGED <<round, attempt, calls, stored, answer, shown, ending, alive, found, pauses, ghost>>

\* Some stopped: what is done is kept in the checkpoint and the card of the first one is shown.
Pause(card, kept) ==
    /\ phase = "tools" /\ Unsettled = {} /\ calls[card] = "stopped" /\ pauses < MaxPauses
    /\ IF kept
       THEN /\ stored' = [is |-> "stored", round |-> round, calls |-> calls, card |-> card]
            /\ Terminal("interrupt") /\ phase' = "paused"
       ELSE Over("error") /\ UNCHANGED stored
    /\ target' = NoTarget /\ pauses' = pauses + 1
    /\ UNCHANGED <<round, attempt, calls, answer, shown, alive, found, ghost>>

-----------------------------------------------------------------------------
(* End and resume                                                          *)

\* Nothing was written but the search found something: its passages are the answer.
Fallback == IF Blank(answer) /\ found THEN <<[round |-> 0, number |-> 0, text |-> "passages"]>> ELSE <<>>

\* The end of the events: the checkpoint goes, then the client hears it.
Finish ==
    /\ phase = "finish" /\ alive
    /\ answer' = answer \o Fallback /\ shown' = shown \o Fallback
    /\ stored' \in {Nothing, stored}    \* a failed deletion is logged
    /\ Over("done")
    /\ UNCHANGED <<round, attempt, calls, target, alive, found, pauses, ghost>>

\* The client left: whatever runs comes to its end without another word.
Cancel == Running /\ alive /\ alive' = FALSE
          /\ UNCHANGED <<phase, round, attempt, calls, target, stored, answer, shown, ending, found, pauses, ghost>>
Stop == Running /\ ~alive /\ phase' = "over"
        /\ UNCHANGED <<round, attempt, calls, target, stored, answer, shown, ending, alive, found, pauses, ghost>>

\* The user answers the card (once, see ChatTurn): a new execution from the checkpoint, if it is still there.
Resume(verdict) ==
    /\ phase = "paused"
    /\ answer' = <<>> /\ shown' = <<>> /\ alive' = TRUE /\ found' = FALSE
    /\ IF stored = Nothing THEN ending' = <<"error">> /\ phase' = "over" /\ UNCHANGED <<round, calls, target, ghost>>
       ELSE /\ ending' = <<>> /\ phase' = "tools"
            /\ round' = stored.round /\ calls' = stored.calls
            /\ target' = [tool |-> stored.card, verdict |-> verdict]
            /\ ghost' = IF verdict = "approve" THEN [ghost EXCEPT !.approved = @ \cup {stored.card}] ELSE ghost
    /\ UNCHANGED <<stored, pauses, attempt>>

\* DBCheckPointStore: after 24 hours the row is not found.
Expire == phase = "paused" /\ stored # Nothing /\ stored' = Nothing
          /\ UNCHANGED <<phase, round, attempt, calls, target, answer, shown, ending, alive, found, pauses, ghost>>

AgentNext ==
    \/ Start \/ CallModel \/ ToolsDone \/ Finish \/ Cancel \/ Stop \/ Expire
    \/ \E text \in Texts : StreamText(text)
    \/ \E batch \in Batches : StreamCalls(batch)
    \/ \E error \in {"timeout", "refused"} : StreamFails(error)
    \/ \E reason \in {"stop", "tool_calls", "length"} : StreamEnds(reason)
    \/ \E t \in Tools : ToolReturns(t) \/ ToolStops(t) \/ ToolFails(t)
    \/ \E t \in Tools, kept \in BOOLEAN : Pause(t, kept)
    \/ \E verdict \in {"approve", "deny", "answer"} : Resume(verdict)

-----------------------------------------------------------------------------
(* Properties                                                              *)

AgentTypeOK ==
    /\ phase \in {"idle", "call", "stream", "tools", "finish", "paused", "over"}
    /\ round \in 0..AgentIterations /\ attempt.number \in 0..MaxRetries + 1
    /\ \A t \in Tools : calls[t] \in {"none", "waiting", "done", "stopped"}
    /\ Len(ending) <= 1 /\ pauses \in 0..MaxPauses

\* A dangerous tool of a message runs once, and only after the user approved its own card: not because
\* another card of the same message was approved, and not again when the run goes on for that other card.
OnlyApprovedRuns == \A t \in Pausing : ghost.ran[t] <= IF t \in ghost.approved THEN 1 ELSE 0

\* An answer that is called done ended as the model meant it to, and holds no text of an attempt that broke
\* off, whatever attempts a round took.
DoneIsWhole ==
    ending = <<"done">> => /\ ghost.last = "stop"
                           /\ \A i \in DOMAIN answer : <<answer[i].round, answer[i].number>> \notin ghost.broken

\* What is kept as the answer is what the client was shown, and the text of two rounds stands apart in it.
AnswerIsAsShown ==
    /\ alive => answer = shown
    /\ \A i \in 2..Len(answer) : answer[i].round > 0 => EndsParagraph(SubSeq(answer, 1, i - 1))

\* With tools that pause, a run is cut off for its number of rounds only if its fourth round asks for tools
\* again: search, question, search and answer always fit, though rounds before a pause count as those after.
RoomForClarify ==
    ending = <<"max_iterations">> /\ Pausing # {} => ghost.rounds >= 4

\* Why it is so.  A tool that pauses has not run while its call is open, and an
\* approval in the hands of a run is of a card that was approved.
CallsAreOpen ==
    /\ calls \in [Tools -> {"none", "waiting", "done", "stopped"}]
    /\ phase \in {"tools", "paused"} =>
          \A t \in Pausing : calls[t] \in {"waiting", "stopped"} => ghost.ran[t] = 0
    /\ target = [tool |-> target.tool, verdict |-> target.verdict]
    /\ phase = "tools" /\ target.verdict = "approve" => target.tool \in ghost.approved
    /\ phase \in {"idle", "call", "stream", "finish", "paused"} => target = NoTarget

\* A checkpoint in use is the last one; rounds are counted over pauses.
RoundsAreCounted ==
    /\ phase = "idle" => round = 0
    /\ phase \in {"stream", "finish"} => round = ghost.rounds + 1
    /\ phase \notin {"stream", "finish", "over"} => round = ghost.rounds
    /\ phase = "paused" /\ stored # Nothing =>
          /\ stored = [is |-> "stored", round |-> round, calls |-> calls, card |-> stored.card]
          /\ calls[stored.card] = "stopped" /\ stored.card \in Tools
    /\ round \in Nat /\ ghost.rounds \in Nat

\* Text that broke off ends the run, so it is in no answer that is done; text of
\* a round that goes on is the attempt's own.
TextIsWhole ==
    /\ attempt \in [number : Nat, output : BOOLEAN, text : Texts \cup {"none"}, asked : {{}} \cup Batches]
    /\ attempt.text # "none" => attempt.output
    /\ phase = "stream" => round > 0
    /\ ghost.broken # {} => phase = "over" /\ ending # <<"done">>
    /\ phase = "finish" => ghost.last = "stop"
    /\ phase \notin {"paused", "over"} => ending = <<>>
    /\ answer = shown
    /\ answer \in Seq([round : Nat, number : Nat, text : Texts \cup {"break", "passages"}])

GhostIsWhole ==
    /\ ghost = [ran |-> ghost.ran, approved |-> ghost.approved, rounds |-> ghost.rounds,
                broken |-> ghost.broken, last |-> ghost.last]
    /\ ghost.ran \in [Tools -> Nat] /\ ghost.approved \subseteq Tools

\* The inductive invariant of a run.
AgentInv ==
    /\ AgentTypeOK /\ OnlyApprovedRuns /\ DoneIsWhole /\ AnswerIsAsShown /\ RoomForClarify
    /\ CallsAreOpen /\ RoundsAreCounted /\ TextIsWhole /\ GhostIsWhole

=============================================================================
