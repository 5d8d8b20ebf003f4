---------------------------- MODULE LegacyResume ----------------------------
(***************************************************************************)
(* Deep tasks that an older program left waiting, and how they go on       *)
(* (agent/deep_legacy_resume.go, deep_plan.go, and the part of the service *)
(* that keeps the card: service/chat_service_mode.go, chat_resume.go).     *)
(*                                                                         *)
(* The checkpoint of such a task holds its plan, the results so far and    *)
(* the cards of the parts that wait.  A user's answer to the one card that *)
(* is shown loads it, runs what is ready, side by side if the plan says    *)
(* so, and either waits again with the next card or ends.  The checkpoint  *)
(* is written by the run, the card by the service's goroutine, each in a   *)
(* statement of its own that may fail; and a run may be cut off at any     *)
(* time, also between the two.                                             *)
(***************************************************************************)
EXTENDS Naturals, FiniteSets

CONSTANTS
    DependsOn,   \* [tasks -> the tasks they depend on]
    Order,       \* [tasks -> their places in the plan]
    Review,      \* the task whose result is the answer
    MaxCards     \* bound: cards of one task

Tasks == DOMAIN DependsOn
Statuses == {"pending", "running", "waiting", "success", "error", "canceled"}

VARIABLES
    saved,      \* the checkpoint: statuses and cards of results; or None
    card,       \* the card in the session's row: <<task, number>>, or None
    behind,     \* ghost: the checkpoint was saved after the card was shown
    parallel,   \* the plan's strategy and the configuration
    pc,         \* of the run
    plan,       \* [tasks -> Statuses], in memory
    result,     \* [tasks -> [card, round]]: open card and the attempt it is from
    batch,      \* tasks that run now
    answered,   \* the card the run was resumed with
    told        \* the outcome

legacyVars == <<saved, card, behind, parallel, pc, plan, result, batch, answered, told>>

None == <<>>

First(tasks) == CHOOSE t \in tasks : \A u \in tasks : Order[t] <= Order[u]
Waiting(p) == {t \in Tasks : p[t] = "waiting"}
Finished(p) == {t \in Tasks : p[t] = "success"}

\* Mutant: a task is ready when what it depends on has ended.
Ready_Ended(p) ==
    {t \in Tasks : p[t] = "pending" /\ \A u \in DependsOn[t] : p[u] \in {"success", "error"}}

\* ReadyTasks
Ready(p) == {t \in Tasks : p[t] = "pending" /\ DependsOn[t] \subseteq Finished(p)}

\* What the older program saved: a plan in which something waits.
LegacyInit ==
    /\ parallel \in BOOLEAN
    /\ \E p \in [Tasks -> {"pending", "waiting", "success", "error"}] :
          /\ Waiting(p) # {}
          /\ \A t \in Tasks : p[t] # "pending" => DependsOn[t] \subseteq Finished(p)
          /\ Ready(p) = {}
          /\ plan = p
          /\ result = [t \in Tasks |-> [card |-> IF p[t] = "waiting" THEN 1 ELSE 0, round |-> 0]]
          /\ card = <<First(Waiting(p)), 1>>
    /\ saved = [plan |-> plan, result |-> result]
    /\ behind = FALSE
    /\ pc = "away"
    /\ batch = {}
    /\ answered = None
    /\ told = "card"

\* The task whose card was answered goes on.
Resumed(answer) ==
    [t \in Tasks |-> IF answer = <<t, saved.result[t].card>> THEN "pending" ELSE saved.plan[t]]

\* resumeLegacyDeepOrchestrator up to its loop: a checkpoint that is missing, or
\* was made with another model or window, is an error.  The card stays in its row
\* while the run goes on.  Bound: one run at a time.
Resume(accepted) ==
    /\ pc = "away"
    /\ card # None
    /\ answered' = card
    /\ IF saved = None \/ ~accepted
       THEN /\ pc' = "ended" /\ told' = "error"
            /\ UNCHANGED <<plan, result>>
       ELSE /\ pc' = "loop" /\ told' = "nothing"
            /\ result' = saved.result
            /\ plan' = Resumed(card)
    /\ UNCHANGED <<saved, card, behind, parallel, batch>>

\* applyResumeParams: a card that is too old, or a message without a text, clears the row.
GiveUp ==
    /\ pc = "away"
    /\ card # None
    /\ card' = None
    /\ UNCHANGED <<saved, behind, parallel, pc, plan, result, batch, answered, told>>

\* runParallelTasks
RunTasks ==
    /\ pc = "loop"
    /\ Ready(plan) # {}
    /\ batch' = IF parallel THEN Ready(plan) ELSE {First(Ready(plan))}
    /\ plan' = [t \in Tasks |-> IF t \in batch' THEN "running" ELSE plan[t]]
    /\ pc' = "batch"
    /\ UNCHANGED <<saved, card, behind, parallel, result, answered, told>>

\* executeDeepTask and mergeTaskResult: a task ends well, fails, or waits for
\* an answer of its own; only a task with an open card is resumed in the middle.
TaskReturns(t, status) ==
    /\ pc = "batch"
    /\ t \in batch
    /\ status = "waiting" => result[t].card < MaxCards
    /\ status = "waiting" => t # Review     \* it has no tool that asks
    /\ plan' = [plan EXCEPT ![t] = status]
    /\ result' = [result EXCEPT ![t] =
                    [card |-> IF status = "waiting" THEN @.card + 1 ELSE 0, round |-> @.round + 1]]
    /\ batch' = batch \ {t}
    /\ pc' = IF batch' = {} THEN "loop" ELSE "batch"
    /\ UNCHANGED <<saved, card, behind, parallel, answered, told>>

\* Mutant: the state saved is the one from before the batch.
Kept_AsLoaded == saved

\* What a run that waits saves.
Kept == [plan |-> plan, result |-> result]

\* Something waits: the state is saved. A save that fails, or whose answer is
\* lost, ends the run with an error.
SaveWaiting ==
    /\ pc = "loop"
    /\ Ready(plan) = {}
    /\ Waiting(plan) # {}
    /\ \/ saved' = Kept /\ behind' = TRUE /\ pc' \in {"saved", "ended"}
       \/ UNCHANGED <<saved, behind>> /\ pc' = "ended"
    /\ told' = IF pc' = "ended" THEN "error" ELSE told
    /\ UNCHANGED <<card, parallel, plan, result, batch, answered>>

\* The service has the interrupt and replaces the card by the first that waits;
\* if that fails, the user sees an error and the old card may stay.
ShowCard ==
    /\ pc = "saved"
    /\ pc' = "away"
    /\ \/ /\ LET t == First(Waiting(plan)) IN card' = <<t, result[t].card>>
          /\ behind' = FALSE
          /\ told' \in {"card", "error"}
       \/ /\ told' = "error"
          /\ UNCHANGED <<card, behind>>
    /\ UNCHANGED <<saved, parallel, plan, result, batch, answered>>

\* Nothing waits and not all is done: what was never started is canceled.
Fail ==
    /\ pc = "loop"
    /\ Ready(plan) = {}
    /\ Waiting(plan) = {}
    /\ Finished(plan) # Tasks
    /\ plan' = [t \in Tasks |-> IF plan[t] = "pending" THEN "canceled" ELSE plan[t]]
    /\ told' = "error"
    /\ pc' = "ended"
    /\ UNCHANGED <<saved, card, behind, parallel, result, batch, answered>>

\* All is done: the checkpoint goes before the answer, if it can be deleted.
Complete ==
    /\ pc = "loop"
    /\ Finished(plan) = Tasks
    /\ saved' \in {saved, None}
    /\ told' = "answer"
    /\ pc' = "ended"
    /\ UNCHANGED <<card, behind, parallel, plan, result, batch, answered>>

\* After an error or an answer the service clears the card, or fails to, or dies.
ClearCard ==
    /\ pc = "ended"
    /\ card' \in {card, None}
    /\ pc' = "away"
    /\ UNCHANGED <<saved, behind, parallel, plan, result, batch, answered, told>>

\* The request is cancelled, or the program dies, before the state is saved or
\* after it. What was in memory is lost; of a cancelled run the card is cleared,
\* unless that fails.
CutOff ==
    /\ pc \in {"loop", "batch", "saved"}
    /\ batch' = {}
    /\ pc' = "away"
    /\ card' \in {card, None}
    /\ told' = "nothing"
    /\ IF saved = None THEN UNCHANGED <<plan, result>>
       ELSE plan' = saved.plan /\ result' = saved.result
    /\ UNCHANGED <<saved, behind, parallel, answered>>

\* The checkpoint's time is over.
Expire ==
    /\ saved # None
    /\ saved' = None
    /\ UNCHANGED <<card, behind, parallel, pc, plan, result, batch, answered, told>>

LegacyNext ==
    \/ GiveUp \/ RunTasks \/ SaveWaiting \/ ShowCard \/ Fail \/ Complete \/ ClearCard \/ CutOff \/ Expire
    \/ \E accepted \in BOOLEAN : Resume(accepted)
    \/ \E t \in Tasks, status \in {"success", "error", "waiting"} : TaskReturns(t, status)

LegacySpec == LegacyInit /\ [][LegacyNext]_legacyVars

-----------------------------------------------------------------------------
LegacyTypeOK ==
    /\ saved = None \/ saved.plan \in [Tasks -> Statuses]
    /\ pc \in {"away", "loop", "batch", "saved", "ended"}
    /\ plan \in [Tasks -> Statuses]
    /\ \A t \in Tasks : result[t].card \in 0..MaxCards
    /\ told \in {"nothing", "card", "answer", "error"}

\* No task is worked on, and none has ended, before what it depends on ended
\* well; so an answer is made of the whole plan (ReadyTasks).
DependenciesHold ==
    /\ \A t \in Tasks : plan[t] \in {"running", "waiting", "success", "error"}
                            => \A u \in DependsOn[t] : plan[u] = "success"
    /\ told = "answer" => plan[Review] = "success"

\* The card a user sees is of a task that waits for just this answer in the
\* checkpoint. Between the save and the next card, and for good if a run is cut
\* off there, the answered card stands beside the newer checkpoint: its answer
\* must start no task a second time, and the resume it begins has nothing to run
\* but shows the card that is due.
CardIsSaved ==
    card # None /\ saved # None =>
        IF behind THEN Resumed(card) = saved.plan /\ Ready(saved.plan) = {} /\ Waiting(saved.plan) # {}
        ELSE saved.plan[card[1]] = "waiting" /\ saved.result[card[1]].card = card[2]

\* Why it is so.  A checkpoint is of a plan in which something waits and nothing
\* can run.  The task whose card was answered runs before its run saves; if the
\* card was behind, that had happened before.
Results == [card : 0..MaxCards, round : Nat]
Sound(p) ==
    /\ p \in [Tasks -> Statuses]
    /\ \A t \in Tasks : p[t] \in {"running", "waiting", "success", "error"} =>
          DependsOn[t] \subseteq Finished(p)
CardOf(c) == c = <<c[1], c[2]>> /\ c[1] \in Tasks /\ c[2] \in Nat \ {0}
Numbered(p, r) == r \in [Tasks -> Results] /\ \A t \in Tasks : p[t] = "waiting" => r[t].card # 0
HasRun(c, p, r) == p[c[1]] \in {"waiting", "success", "error"} /\ r[c[1]].card # c[2]
CheckpointStands ==
    /\ Sound(plan) /\ Numbered(plan, result)
    /\ saved # None => /\ saved = [plan |-> saved.plan, result |-> saved.result]
                       /\ Sound(saved.plan) /\ Numbered(saved.plan, saved.result)
                       /\ \A t \in Tasks : saved.plan[t] # "running"
                       /\ Ready(saved.plan) = {} /\ Waiting(saved.plan) # {}
    /\ batch \subseteq Tasks /\ \A t \in batch : plan[t] = "running"
    /\ pc # "batch" => batch = {}
    /\ pc \in {"loop", "saved"} => \A t \in Tasks : plan[t] # "running"
    /\ pc = "batch" => \A t \in Tasks : plan[t] = "running" => t \in batch
    /\ behind \in BOOLEAN
    /\ card # None => CardOf(card)
    /\ card # None /\ saved # None /\ behind => HasRun(card, saved.plan, saved.result)
    /\ pc \in {"loop", "batch"} =>
          /\ card = answered /\ CardOf(answered)
          /\ \/ HasRun(answered, plan, result)
             \/ /\ result[answered[1]].card = answered[2] /\ plan[answered[1]] \in {"pending", "running"}
                /\ DependsOn[answered[1]] \subseteq Finished(plan)
    /\ pc = "saved" => Waiting(plan) # {} /\ saved \in {None, Kept}
    /\ told = "answer" => pc \in {"ended", "away"}

\* The inductive invariant of such a task.
LegacyInv == LegacyTypeOK /\ DependenciesHold /\ CardIsSaved /\ CheckpointStands
=============================================================================
