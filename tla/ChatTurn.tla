------------------------------ MODULE ChatTurn ------------------------------
(***************************************************************************)
(* The turns of one chat session and the question that stops one of them:  *)
(* a dangerous call waits for the user's approval, the run is kept as a    *)
(* checkpoint row, the session shows a card, and the next message answers  *)
(* it (internal/service/chat_service_mode.go and chat_resume.go,           *)
(* internal/agent/execute.go, runner_adapter.go, deep_plan_execute.go).    *)
(*                                                                         *)
(* A turn is the message that starts it, numbered in the order of sending. *)
(* Two goroutines run it: the service's, which reads and writes the card,  *)
(* and the engine's, which reads, writes and deletes the checkpoint row;   *)
(* the engine sends events to the service and closes the channel.  Nothing *)
(* keeps two turns of a session apart.  The name of a checkpoint is the    *)
(* turn whose run it keeps; a resumed run saves under the same name.       *)
(*                                                                         *)
(* A clarifying question stops a run and is answered in the same way; its  *)
(* answer executes nothing, so it is here a question that is refused.      *)
(***************************************************************************)
EXTENDS Naturals

CONSTANTS
    MaxTurns,   \* bound: messages sent to the session
    MaxCards,   \* bound: questions asked, of all turns together
    MaxFaults   \* bound: restarts of the process and failed updates of the session row

ASSUME ChatAssumption ==
    /\ MaxTurns \in Nat \ {0}
    /\ MaxCards \in Nat
    /\ MaxFaults \in Nat

VARIABLES
    turn,       \* the goroutines of each turn
    pending,    \* chat_sessions.pending_checkpoint, the card
    store,      \* agent_checkpoints, a row for each run that was stopped
    cards,      \* how many questions were asked
    executed,   \* which turn executed which dangerous call
    spoiled,    \* history: see Spoiled
    faults      \* how many faults happened

vars == <<turn, pending, store, cards, executed, spoiled, faults>>

Turns == 1 .. MaxTurns
Cards == 1 .. MaxCards
None == 0

NoCard == [card |-> None]
Card == [ckpt : Turns, plan : BOOLEAN, card : Cards, call : Cards, expired : BOOLEAN]

\* A row holds the call that waits and the id of the question about it; one
\* past its expired_at is not found any more.
NoRow == [card |-> None]
AgedRow == [card |-> None, aged |-> TRUE]
Row == [card : Cards, call : Cards]

ServicePhases == {"unsent", "sent", "expired", "streaming", "released",
                  "draining", "over"}
EnginePhases == {"off", "restore", "resume", "approved", "run", "cleanup", "closed"}

NewTurn == [pc |-> "unsent", engine |-> "off", event |-> "none",
            approves |-> FALSE, shown |-> None, target |-> None,
            ckpt |-> None, plan |-> FALSE, call |-> None, asked |-> None,
            cancelled |-> FALSE, rivals |-> {}]
Over == [NewTurn EXCEPT !.pc = "over"]

Active(t) == turn[t].pc \notin {"unsent", "over"}
Resumed(t) == turn[t].target # None

Init ==
    /\ turn = [t \in Turns |-> NewTurn]
    /\ pending = NoCard
    /\ store = [t \in Turns |-> NoRow]
    /\ cards = 0
    /\ executed = {}
    /\ spoiled = {}
    /\ faults = 0

-----------------------------------------------------------------------------
\* The service, up to the start of the engine.

\* The user answers the card on the screen, or asks something else: the text
\* decides, not the card it was typed under.  rivals are the turns that are
\* active at the same time at some moment.
SendMessage(t, approves) ==
    LET active == {u \in Turns : Active(u)}
    IN  /\ turn[t].pc = "unsent"
        /\ \A u \in 1 .. t - 1 : turn[u].pc # "unsent"
        /\ turn' = [u \in Turns |->
               CASE u = t -> [NewTurn EXCEPT !.pc = "sent", !.approves = approves,
                                  !.shown = IF pending = NoCard THEN None ELSE pending.call,
                                  !.rivals = active]
                 [] u \in active -> [turn[u] EXCEPT !.rivals = @ \cup {t}]
                 [] OTHER -> turn[u]]
        /\ UNCHANGED <<pending, store, cards, executed, spoiled, faults>>

\* Mutant: the card is dropped with the message.
TurnRefused_Clears(t) ==
    /\ turn[t].pc = "sent"
    /\ turn' = [turn EXCEPT ![t] = Over]
    /\ pending' = NoCard
    /\ UNCHANGED <<store, cards, executed, spoiled, faults>>

\* The context, the model or the session cannot be loaded.
TurnRefused(t) ==
    /\ turn[t].pc = "sent"
    /\ turn' = [turn EXCEPT ![t] = Over]
    /\ UNCHANGED <<pending, store, cards, executed, spoiled, faults>>

\* The first run of a plan-and-execute engine or of a single agent: the text
\* is a question and no longer a verdict.
Started(t) ==
    \E plan \in BOOLEAN :
        turn' = [turn EXCEPT ![t].pc = "streaming", ![t].engine = "run",
                             ![t].approves = FALSE, ![t].shown = None,
                             ![t].ckpt = t, ![t].plan = plan]

\* Turns that worked on the checkpoint c while t was active.
Rivals(t, c) == {u \in turn[t].rivals : turn[u].ckpt = c}

ApplyResumeParams(t) ==
    /\ turn[t].pc = "sent"
    /\ ~turn[t].cancelled
    /\ \/ pending = NoCard /\ Started(t) /\ UNCHANGED spoiled
       \/ /\ pending # NoCard
          /\ pending.expired
          /\ turn' = [turn EXCEPT ![t].pc = "expired"]
          /\ UNCHANGED spoiled
       \/ /\ pending # NoCard
          /\ ~pending.expired
          /\ turn' = [turn EXCEPT ![t].pc = "streaming", ![t].engine = "restore",
                                  ![t].target = pending.card, ![t].ckpt = pending.ckpt,
                                  ![t].plan = pending.plan]
          /\ spoiled' = IF Rivals(t, pending.ckpt) = {} THEN spoiled
                        ELSE spoiled \cup {pending.ckpt}
    /\ UNCHANGED <<pending, store, cards, executed, faults>>

\* clearPendingResume: whatever card the session shows by now.
ClearPendingResume(t) ==
    \/ pending' = NoCard /\ UNCHANGED <<spoiled, faults>>
    \/ /\ faults < MaxFaults
       /\ faults' = faults + 1
       /\ spoiled' = spoiled \cup ({turn[t].ckpt} \ {None})
       /\ UNCHANGED pending

DropExpired(t) ==
    /\ turn[t].pc = "expired"
    /\ ClearPendingResume(t)
    /\ Started(t)
    /\ UNCHANGED <<store, cards, executed>>

-----------------------------------------------------------------------------
\* The engine.

\* Once the request is cancelled an event may be dropped.
Sent(t, event) == IF turn[t].cancelled THEN {event, "none"} ELSE {event}

Found(t) == store[turn[t].ckpt].card # None

\* Mutant: a missing row returns without closing the channel.
Restore_Silent(t) ==
    /\ turn[t].engine = "restore"
    /\ turn' = [turn EXCEPT ![t].engine = IF Found(t) THEN "resume" ELSE "off"]
    /\ UNCHANGED <<pending, store, cards, executed, spoiled, faults>>

\* restoreContextRequest: without a row, or if it cannot be read, or was saved
\* under another model or policy, the resume ends before the engine.
Restore(t) ==
    /\ turn[t].engine = "restore"
    /\ \/ /\ Found(t)
          /\ turn' = [turn EXCEPT ![t].engine = "resume"]
       \/ \E event \in Sent(t, "error") :
              turn' = [turn EXCEPT ![t].engine = "closed", ![t].event = event]
    /\ UNCHANGED <<pending, store, cards, executed, spoiled, faults>>

\* Mutant: any approval releases the call that waits.
Answers_Any(t) == store[turn[t].ckpt].card # None

\* The runner reads the row again, which may fail now; the answer counts for
\* the question it names.
Answers(t) == store[turn[t].ckpt].card = turn[t].target

Ends(t) == IF turn[t].plan THEN "cleanup" ELSE "closed"

Resume(t) ==
    /\ turn[t].engine = "resume"
    /\ \/ /\ Found(t)
          /\ turn' = [turn EXCEPT
                 ![t].engine = IF Answers(t) /\ turn[t].approves THEN "approved" ELSE "run",
                 ![t].call = IF Answers(t) /\ ~turn[t].approves THEN None
                             ELSE store[turn[t].ckpt].call]
       \/ \E event \in Sent(t, "error") :
              turn' = [turn EXCEPT ![t].engine = Ends(t), ![t].event = event]
    /\ UNCHANGED <<pending, store, cards, executed, spoiled, faults>>

\* The approval middleware lets the call through.
ExecuteCall(t) ==
    /\ turn[t].engine = "approved"
    /\ executed' = executed \cup {<<t, turn[t].call>>}
    /\ turn' = [turn EXCEPT ![t].engine = "run", ![t].call = None, ![t].approves = FALSE]
    /\ UNCHANGED <<pending, store, cards, spoiled, faults>>

\* Mutant: the way out does not know that the run was interrupted.
Interrupt_Cleanup(t) ==
    LET card == cards + 1
        call == IF turn[t].call = None THEN card ELSE turn[t].call
    IN  /\ turn[t].engine = "run"
        /\ ~turn[t].cancelled
        /\ cards < MaxCards
        /\ cards' = card
        /\ store' = [store EXCEPT ![turn[t].ckpt] = [card |-> card, call |-> call]]
        /\ turn' = [turn EXCEPT ![t].engine = Ends(t), ![t].event = "interrupt",
                                ![t].call = call, ![t].asked = card]
        /\ UNCHANGED <<pending, executed, spoiled, faults>>

\* A dangerous call asks, or the one whose answer named another question asks
\* again: the run is saved under its name and the event is sent.  If the
\* client disconnects in between the event is dropped.
Interrupt(t) ==
    LET card == cards + 1
        call == IF turn[t].call = None THEN card ELSE turn[t].call
    IN  /\ turn[t].engine = "run"
        /\ ~turn[t].cancelled
        /\ cards < MaxCards
        /\ cards' = card
        /\ store' = [store EXCEPT ![turn[t].ckpt] = [card |-> card, call |-> call]]
        /\ \E dropped \in BOOLEAN :
              turn' = [turn EXCEPT ![t].engine = "closed", ![t].call = call,
                           ![t].event = IF dropped THEN "none" ELSE "interrupt",
                           ![t].cancelled = dropped,
                           ![t].asked = IF dropped THEN None ELSE card]
        /\ UNCHANGED <<pending, executed, spoiled, faults>>

\* The answer is complete: the row goes before the channel closes.
Finish(t) ==
    /\ turn[t].engine = "run"
    /\ turn[t].call = None
    /\ ~turn[t].cancelled
    /\ store' = [store EXCEPT ![turn[t].ckpt] = NoRow]
    /\ turn' = [turn EXCEPT ![t].engine = "closed", ![t].event = "done"]
    /\ UNCHANGED <<pending, cards, executed, spoiled, faults>>

\* The model, a tool or the runtime fails, or the request is cancelled.  A
\* single agent keeps its row, the plan engine deletes it on its way out.
Fail(t) ==
    /\ turn[t].engine \in {"approved", "run"}
    /\ \E event \in Sent(t, "error") :
          turn' = [turn EXCEPT ![t].engine = Ends(t), ![t].event = event]
    /\ UNCHANGED <<pending, store, cards, executed, spoiled, faults>>

Cleanup(t) ==
    /\ turn[t].engine = "cleanup"
    /\ store' = [store EXCEPT ![turn[t].ckpt] = NoRow]
    /\ turn' = [turn EXCEPT ![t].engine = "closed"]
    /\ UNCHANGED <<pending, cards, executed, spoiled, faults>>

-----------------------------------------------------------------------------
\* The service, consuming the events.

Streaming(t, event) ==
    /\ turn[t].pc = "streaming"
    /\ turn[t].event = event

\* Mutant: the card names the question that was answered.
StoreQuestion_Old(t) ==
    /\ Streaming(t, "interrupt")
    /\ pending' = [ckpt |-> turn[t].ckpt, plan |-> turn[t].plan, card |-> turn[t].target,
                   call |-> turn[t].call, expired |-> FALSE]
    /\ turn' = [turn EXCEPT ![t] = Over]
    /\ UNCHANGED <<store, cards, executed, spoiled, faults>>

\* The card is stored before the client hears of the question; on failure,
\* and every failure if the client is gone, the turn ends with an error.
StoreQuestion(t) ==
    /\ Streaming(t, "interrupt")
    /\ \/ /\ ~turn[t].cancelled
          /\ pending' = [ckpt |-> turn[t].ckpt, plan |-> turn[t].plan, card |-> turn[t].asked,
                         call |-> turn[t].call, expired |-> FALSE]
          /\ UNCHANGED faults
       \/ /\ \/ turn[t].cancelled /\ UNCHANGED faults
             \/ faults < MaxFaults /\ faults' = faults + 1
          /\ UNCHANGED pending
    /\ turn' = [turn EXCEPT ![t] = Over]
    /\ UNCHANGED <<store, cards, executed, spoiled>>

\* Mutant: only the end of the stream takes the card away.
ReleaseOnError_Never(t) ==
    /\ Streaming(t, "error")
    /\ turn' = [turn EXCEPT ![t].pc = "released"]
    /\ UNCHANGED <<pending, store, cards, executed, spoiled, faults>>

\* A failed resume takes its card away before the client is told.
ReleaseOnError(t) ==
    /\ Streaming(t, "error")
    /\ IF Resumed(t) THEN ClearPendingResume(t) ELSE UNCHANGED <<pending, spoiled, faults>>
    /\ turn' = [turn EXCEPT ![t].pc = "released"]
    /\ UNCHANGED <<store, cards, executed>>

ForwardError(t) ==
    /\ turn[t].pc = "released"
    /\ turn' = [turn EXCEPT ![t].pc = "draining"]
    /\ UNCHANGED <<pending, store, cards, executed, spoiled, faults>>

\* Mutant: a cancelled resume keeps its card while the row is kept.
EndOfStream_CancelKeeps(t) ==
    /\ turn[t].engine = "closed"
    /\ \/ turn[t].pc = "draining"
       \/ turn[t].pc = "streaming" /\ turn[t].event \in {"none", "done"}
    /\ IF Resumed(t) /\ turn[t].pc = "streaming" /\ (turn[t].plan \/ turn[t].event = "done")
          THEN ClearPendingResume(t)
          ELSE UNCHANGED <<pending, spoiled, faults>>
    /\ turn' = [turn EXCEPT ![t] = Over]
    /\ UNCHANGED <<store, cards, executed>>

\* The channel is closed.  Both a cancelled and a finished resume take the
\* card away; after an error it is gone already.
EndOfStream(t) ==
    /\ turn[t].engine = "closed"
    /\ \/ turn[t].pc = "draining"
       \/ turn[t].pc = "streaming" /\ turn[t].event \in {"none", "done"}
    /\ IF Resumed(t) /\ turn[t].pc = "streaming"
          THEN ClearPendingResume(t)
          ELSE UNCHANGED <<pending, spoiled, faults>>
    /\ turn' = [turn EXCEPT ![t] = Over]
    /\ UNCHANGED <<store, cards, executed>>

-----------------------------------------------------------------------------
\* What happens to them.

\* The client disconnects.
Disconnect(t) ==
    /\ Active(t)
    /\ ~turn[t].cancelled
    /\ turn' = [turn EXCEPT ![t].cancelled = TRUE]
    /\ UNCHANGED <<pending, store, cards, executed, spoiled, faults>>

\* The user leaves the card for longer than it is valid.
CardExpires ==
    /\ pending # NoCard
    /\ ~pending.expired
    /\ pending' = [pending EXCEPT !.expired = TRUE]
    /\ UNCHANGED <<turn, store, cards, executed, spoiled, faults>>

\* A row passes its expired_at; the hourly job deletes it some time later.
\* A row that neither the card nor a turn names any more is left out.
RowExpires(c) ==
    /\ store[c].card # None
    /\ \/ pending # NoCard /\ pending.ckpt = c
       \/ \E t \in Turns : turn[t].ckpt = c
    /\ store' = [store EXCEPT ![c] = AgedRow]
    /\ UNCHANGED <<turn, pending, cards, executed, spoiled, faults>>

\* The process stops and starts again: no turn is taken up.
Crash ==
    /\ faults < MaxFaults
    /\ \E t \in Turns : Active(t)
    /\ faults' = faults + 1
    /\ turn' = [t \in Turns |-> IF Active(t) THEN Over ELSE turn[t]]
    /\ spoiled' = spoiled \cup ({turn[t].ckpt : t \in Turns} \ {None})
    /\ UNCHANGED <<pending, store, cards, executed>>

-----------------------------------------------------------------------------
TurnStep(t) ==
    \/ TurnRefused(t) \/ ApplyResumeParams(t) \/ DropExpired(t)
    \/ Restore(t) \/ Resume(t) \/ ExecuteCall(t)
    \/ Interrupt(t) \/ Finish(t) \/ Fail(t) \/ Cleanup(t)
    \/ StoreQuestion(t) \/ ReleaseOnError(t) \/ ForwardError(t) \/ EndOfStream(t)

Next ==
    \/ \E t \in Turns : TurnStep(t) \/ Disconnect(t)
    \/ \E t \in Turns, approves \in BOOLEAN : SendMessage(t, approves)
    \/ \E c \in Turns : RowExpires(c)
    \/ CardExpires
    \/ Crash

Spec == Init /\ [][Next]_vars

-----------------------------------------------------------------------------
\* Shape of the state.
TypeOK ==
    /\ turn \in [Turns -> [pc : ServicePhases, engine : EnginePhases,
                           event : {"none", "interrupt", "error", "done"},
                           approves : BOOLEAN, shown : Cards \cup {None},
                           target : Cards \cup {None}, ckpt : Turns \cup {None},
                           plan : BOOLEAN, call : Cards \cup {None},
                           asked : Cards \cup {None}, cancelled : BOOLEAN,
                           rivals : SUBSET Turns]]
    /\ pending \in Card \cup {NoCard}
    /\ store \in [Turns -> Row \cup {NoRow, AgedRow}]
    /\ cards \in 0 .. MaxCards
    /\ executed \subseteq Turns \X Cards
    /\ spoiled \subseteq Turns
    /\ faults \in 0 .. MaxFaults

\* Two turns worked on the checkpoint at the same time, or one of its turns
\* was killed or failed to take its card away.
Spoiled(c) == c \in spoiled

\* docs/context-management-plan.md:158: one approval, one execution.
ApprovedOnce ==
    \A x, y \in executed : x[2] = y[2] => x = y

\* What t executes in this step.
Executes(t, call) == <<t, call>> \in executed' \ executed

\* A call runs a second time only on a spoiled checkpoint: neither a failure
\* nor a disconnection leaves an approved card to be approved again.
NoRepeat ==
    [][\A t \in Turns, call \in Cards :
          Executes(t, call) =>
              Spoiled(turn[t].ckpt) \/ \A u \in Turns : <<u, call>> \notin executed]_vars

\* A call runs only if the user approved while the card of that very call was
\* on the screen, or another turn was changing the card at that time.
ApprovalMatchesCard ==
    [][\A t \in Turns, call \in Cards :
          Executes(t, call) =>
              /\ turn[t].approves
              /\ turn[t].shown = call \/ turn[t].rivals # {}]_vars

\* Comment of processAgentMode: when the client hears of the error of a
\* resumed turn and asks for the session, it does not see the card that turn
\* has used up.
ErrorAfterClear ==
    \A t \in Turns :
        turn[t].pc = "draining" /\ Resumed(t) /\ ~Spoiled(turn[t].ckpt) =>
            pending = NoCard \/ pending.card # turn[t].target

\* A card goes away only when a turn that answers it ends, when it is too old,
\* or when turns overlap: no other message loses the user's question.
QuestionIsKept ==
    [][pending # NoCard /\ (pending' = NoCard \/ pending'.card # pending.card) =>
          \E t \in Turns :
              /\ Active(t)
              /\ \/ turn[t].target = pending.card \/ pending.expired
                 \/ turn[t].rivals # {}]_vars

\* Between turns a card can be answered: its checkpoint was not deleted,
\* unless it was spoiled.
CardHasCheckpoint ==
    (\A t \in Turns : ~Active(t)) /\ pending # NoCard =>
        store[pending.ckpt] # NoRow \/ Spoiled(pending.ckpt)

\* Why it is so.  A turn has a checkpoint while its engine is at work, an answer to
\* give while it resumes, and a question of its own until that is stored.
TurnsAreShaped ==
    \A t \in Turns :
        LET w == turn[t]
        IN  /\ w.pc \in {"unsent", "sent", "expired", "over"} =>
                  /\ w.engine = "off" /\ w.event = "none"
                  /\ w.ckpt = None /\ w.target = None /\ w.call = None
            /\ w.pc \in {"streaming", "released", "draining"} => w.engine # "off" /\ w.ckpt # None
            /\ w.pc \in {"released", "draining"} => w.event = "error"
            /\ w.event # "none" => w.engine \in {"cleanup", "closed"}
            /\ w.asked # None <=> w.event = "interrupt"
            /\ w.event = "interrupt" => w.engine = "closed" /\ w.call # None
            /\ w.engine \in {"restore", "resume", "approved"} => w.target # None
            /\ w.engine \in {"restore", "resume"} => w.call = None
            /\ w.engine = "approved" => w.approves /\ w.call # None
            /\ w.target = None => w.ckpt \in {None, t}

\* Turns that are active at the same time know of each other; if they work on the
\* same checkpoint, it is spoiled.
RivalsAreKnown ==
    \A t, u \in Turns : t # u =>
        /\ Active(t) /\ Active(u) => u \in turn[t].rivals
        /\ turn[t].ckpt # None /\ turn[t].ckpt = turn[u].ckpt => Spoiled(turn[t].ckpt)

\* The name of a checkpoint is known to nobody before the turn that makes it asks.
NamesAreFresh ==
    \A t \in Turns : turn[t].pc # "over" /\ turn[t].target = None =>
        /\ pending # NoCard => pending.ckpt # t
        /\ \A u \in Turns : turn[u].ckpt = t => u = t
        /\ turn[t].ckpt = None => store[t] = NoRow

\* Questions are numbered as they are asked, calls after their first question.
NumbersAreUsed ==
    /\ pending # NoCard => pending.card <= cards /\ pending.call <= cards
    /\ \A c \in Turns : store[c].card # None => store[c].card <= cards /\ store[c].call <= cards
    /\ \A t \in Turns : turn[t].target <= cards /\ turn[t].asked <= cards /\ turn[t].call <= cards
    /\ \A x \in executed : x[2] <= cards

\* A call waits in one checkpoint only.
CallsHaveOneRun ==
    \A c \in Turns :
        /\ \A d \in Turns : store[c].card # None /\ store[d].card # None /\ store[c].call = store[d].call => c = d
        /\ \A t \in Turns : store[c].card # None /\ turn[t].call # None /\ store[c].call = turn[t].call => turn[t].ckpt = c
        /\ \A t, u \in Turns : turn[t].call # None /\ turn[t].call = turn[u].call => turn[t].ckpt = turn[u].ckpt

\* A question is of one call, wherever it is kept; one that is not stored yet is
\* nobody's card, and a turn that answers a card works on its checkpoint.
QuestionsAreOfOneCall ==
    /\ pending # NoCard /\ store[pending.ckpt].card = pending.card => store[pending.ckpt].call = pending.call
    /\ \A t \in Turns : turn[t].asked # None =>
          /\ store[turn[t].ckpt].card = turn[t].asked => store[turn[t].ckpt].call = turn[t].call
          /\ pending # NoCard => pending.card # turn[t].asked
          /\ \A u \in Turns : turn[u].target # turn[t].asked /\ (turn[u].asked = turn[t].asked => u = t)
    /\ pending # NoCard => \A t \in Turns : turn[t].target = pending.card => turn[t].ckpt = pending.ckpt

\* Without rivals, the card a turn saw when it was sent is the one it finds.
AloneIsTold ==
    \A t \in Turns : turn[t].rivals = {} =>
        LET w == turn[t]
        IN  /\ w.pc = "sent" => w.shown = IF pending = NoCard THEN None ELSE pending.call
            /\ w.pc = "expired" => pending # NoCard /\ pending.expired
            /\ w.ckpt # None => pending = NoCard \/ pending.expired \/ pending.card = w.target
            /\ w.engine \in {"restore", "resume"} /\ store[w.ckpt].card = w.target => store[w.ckpt].call = w.shown
            /\ w.engine = "approved" => w.call = w.shown

\* A turn that will take the card away when it ends.
Holds(t, c) ==
    /\ turn[t].ckpt = c /\ turn[t].target # None
    /\ turn[t].pc = "streaming" /\ turn[t].event # "interrupt"

\* An unspoiled card has its row, or a turn is about to take it away; one that a turn
\* has taken away is not there.
CardIsBacked ==
    /\ pending # NoCard /\ ~Spoiled(pending.ckpt) /\ store[pending.ckpt] = NoRow =>
          \E t \in Turns : Holds(t, pending.ckpt)
    /\ \A t \in Turns : turn[t].ckpt # None /\ ~Spoiled(turn[t].ckpt) =>
          /\ turn[t].event = "interrupt" => store[turn[t].ckpt] # NoRow
          /\ turn[t].pc \in {"released", "draining"} /\ turn[t].target # None =>
                pending = NoCard \/ pending.ckpt # turn[t].ckpt

Done(call) == \E u \in Turns : <<u, call>> \in executed

\* A call that was executed waits nowhere, unless its checkpoint is spoiled; its row
\* may stay, but then no card leads there and no turn is about to read it.
DoneIsNotOffered ==
    /\ \A t \in Turns : turn[t].call # None /\ ~Spoiled(turn[t].ckpt) => ~Done(turn[t].call)
    /\ \A c \in Turns : store[c].card # None /\ ~Spoiled(c) /\ Done(store[c].call) =>
          /\ pending # NoCard /\ pending.ckpt = c => \E t \in Turns : Holds(t, c)
          /\ \A t \in Turns : turn[t].ckpt = c =>
                turn[t].engine \notin {"restore", "resume"} /\ turn[t].event # "interrupt"

ChatInv ==
    /\ TypeOK /\ TurnsAreShaped /\ RivalsAreKnown /\ NamesAreFresh /\ NumbersAreUsed /\ CallsHaveOneRun
    /\ QuestionsAreOfOneCall /\ AloneIsTold /\ CardIsBacked /\ DoneIsNotOffered

\* What is shown to the user between and after turns is true: an offered card
\* can be answered, and an error comes after the card it used up is gone.
CardsAreTrue == ErrorAfterClear /\ CardHasCheckpoint /\ ChatInv

\* Every message gets an end: a turn always has a step of its own to make, and
\* each of them brings it closer to its end.  The engine closes its channel on
\* every way out and the service waits for nothing else.
NeverStuck == \A t \in Turns : Active(t) => ENABLED TurnStep(t)
=============================================================================
