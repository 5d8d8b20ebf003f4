------------------------------ MODULE DeepPlan ------------------------------
(***************************************************************************)
(* One run of the deep agent: plan, execute a batch of tasks, replan       *)
(* (internal/agent/deep_plan.go, deep_stage.go, deep_task.go,              *)
(* deep_plan_execute.go and the approval middleware of tool_middleware.go).*)
(*                                                                         *)
(* The language model may submit any plan of Proposals, end a task with    *)
(* any outcome and call any tool; the code decides what is accepted.  The  *)
(* tasks of a batch run in parallel, and so do the tool calls of a task.   *)
(* A call of a dangerous tool interrupts the run until the user answers,   *)
(* and an answer is for one call.  Left out: titles, summaries, evidence,  *)
(* events, artifacts, and the clarifying questions of a task, which        *)
(* interrupt in the same way and record nothing.  A direct plan is a       *)
(* sequential one of one synthesis.                                        *)
(***************************************************************************)
EXTENDS Naturals, FiniteSets

CONSTANTS
    Tasks,          \* task ids the model may use
    Jobs,           \* what a task is: its agent and its description
    Synthesis,      \* jobs of the agent synthesis_review
    Operations,     \* jobs of an agent that has dangerous tools
    Calls,          \* bound: dangerous calls of one task
    Proposals,      \* plans the model may submit: task -> [deps, job]
    MaxPlanTasks,   \* agent.deep_max_plan_tasks
    MaxRounds       \* agent.deep_max_plan_execute_rounds

ASSUME DeepAssumption ==
    /\ IsFiniteSet(Tasks)
    /\ Synthesis \subseteq Jobs /\ Operations \subseteq Jobs \ Synthesis /\ Jobs # {}
    /\ \A p \in Proposals : /\ DOMAIN p \subseteq Tasks
                            /\ \A t \in DOMAIN p : p[t] \in [deps : SUBSET Tasks, job : Jobs]
    /\ MaxPlanTasks \in Nat \ {0} /\ MaxRounds \in Nat \ {0}

VARIABLES
    plan,       \* peState.Plan.Tasks; status "absent" when never planned
    version,    \* Plan.Version
    parallel,   \* Plan.Strategy is parallel
    phase,      \* where the run is
    round,      \* peState.Round
    batch,      \* peState.Batch
    results,    \* peState.Results, the status of each
    facts,      \* RetryUsed, Denied, Blocked, Unsafe, Failures
    calls,      \* the dangerous calls of each running or waiting task
    answer,     \* the call that the user's answer is for, and the answer
    fatal,      \* a task ended with an error that ends the run
    given       \* the tasks whose results were handed to each task

planVars == <<plan, version, parallel, round, batch>>
taskVars == <<results, facts, calls, answer, fatal, given>>
deepVars == <<planVars, phase, taskVars>>

TaskStatuses == {"absent", "pending", "running", "waiting", "success", "error", "canceled"}
Finished(s) == s \in {"success", "error", "canceled"}
Ended == {"completed", "failed", "cancelled"}

NoTask == [status |-> "absent", deps |-> {}, job |-> CHOOSE j \in Jobs : TRUE, added |-> 0]
NoAnswer == [task |-> "none"]
NoCalls == [c \in Calls |-> "none"]

Known(pl) == {t \in Tasks : pl[t].status # "absent"}
Syntheses(pl) == {t \in Known(pl) : pl[t].job \in Synthesis}
Research(pl) == Known(pl) \ Syntheses(pl)

DeepInit ==
    /\ plan = [t \in Tasks |-> NoTask]
    /\ version = 0 /\ parallel = FALSE /\ round = 0 /\ batch = {}
    /\ phase = "planning"
    /\ results = [t \in Tasks |-> "none"]
    /\ facts = [retryUsed |-> FALSE, denied |-> FALSE, blocked |-> FALSE,
                unsafe |-> {}, failures |-> {}]
    /\ calls = [t \in Tasks |-> NoCalls]
    /\ answer = NoAnswer
    /\ fatal = FALSE
    /\ given = [t \in Tasks |-> {}]

-----------------------------------------------------------------------------
(***************************************************************************)
(* installPlan.                                                            *)
(***************************************************************************)

\* With every task, its dependencies.
Closed(pl, S) == \A d \in S : pl[d].deps \subseteq S

\* Everything a task depends on, directly or not: what the walk over the
\* dependencies collects is the least such set.
Ancestors(pl, t) ==
    {x \in Tasks : \A S \in SUBSET Tasks : pl[t].deps \subseteq S /\ Closed(pl, S) => x \in S}

\* Validate: known dependencies, no cycle.
WellFormed(pl) ==
    \A t \in Known(pl) : pl[t].deps \subseteq Known(pl) /\ t \notin Ancestors(pl, t)

\* ReadyTasks.
Ready(pl) ==
    {t \in Known(pl) : pl[t].status = "pending"
                       /\ \A d \in pl[t].deps : pl[d].status = "success"}

\* The submitted tasks over the current ones: a finished task stays as it is,
\* one that is left out is kept if finished and canceled otherwise.
Merged(p) ==
    [t \in Tasks |->
        IF t \in DOMAIN p /\ ~Finished(plan[t].status)
        THEN [status |-> "pending", deps |-> p[t].deps, job |-> p[t].job,
              added |-> IF plan[t].status = "absent" THEN version + 1 ELSE plan[t].added]
        ELSE IF plan[t].status = "pending"
        THEN [plan[t] EXCEPT !.status = "canceled"] ELSE plan[t]]

Live(pl, t) == pl[t].status \in {"pending", "success"}

\* Candidates for latestSynthesis; ties are broken by the order of the plan.
LatestSyntheses(p, pl) ==
    LET live == {t \in DOMAIN p \cap Syntheses(pl) : Live(pl, t)}
    IN  {s \in live : \A t \in live : pl[t].added <= pl[s].added}

\* Variant: a finished synthesis is completed as well.
Completed_Finished(pl, s) ==
    IF version = 0 THEN pl
    ELSE [pl EXCEPT ![s].deps =
             @ \cup {t \in Research(pl) : Live(pl, t) /\ t \notin Ancestors(pl, s)}]

\* completeSynthesisDependencies: a replan's pending synthesis gets the live
\* research it does not cover.
Completed(pl, s) ==
    IF version = 0 \/ pl[s].status # "pending" THEN pl
    ELSE [pl EXCEPT ![s].deps =
             @ \cup {t \in Research(pl) : Live(pl, t) /\ t \notin Ancestors(pl, s)}]

Changes(p, t) == p[t].deps # plan[t].deps \/ p[t].job # plan[t].job

\* Variant: the tasks of a refused plan may be described anew.
KeepsHistory_Open(p) ==
    \A t \in DOMAIN p : Finished(plan[t].status) => ~Changes(p, t)

\* Finished tasks may not be modified; nor may a pending task be modified into
\* research once an approval was denied or a permission refused.
KeepsHistory(p) ==
    \A t \in DOMAIN p :
        /\ Finished(plan[t].status) => ~Changes(p, t)
        /\ (plan[t].status = "pending" /\ p[t].job \notin Synthesis
            /\ (facts.denied \/ facts.blocked)) => ~Changes(p, t)

AddsResearch(p) == \E t \in DOMAIN p : plan[t].status = "absent" /\ p[t].job \notin Synthesis
Failed == {t \in Tasks : results[t] = "error"}

\* No new research after a refusal or after a failed task that called a
\* dangerous tool; one replan may add some after another failure.
MayAddResearch ==
    /\ ~facts.denied /\ ~facts.blocked
    /\ Failed \cap facts.unsafe = {}
    /\ Failed # {} => ~facts.retryUsed

Sound(pl, s) ==
    /\ {t \in Research(pl) : Live(pl, t)} \subseteq Ancestors(pl, s)
    /\ \A t \in Tasks : Live(pl, t) => \A d \in pl[t].deps : Live(pl, d)

\* The plan stage and the replan stage: the submitted plan is installed, or
\* refused (RunFails: the model may correct it once, which changes nothing).
InstallPlan(p, s) ==
    /\ phase \in {"planning", "replanning"}
    /\ KeepsHistory(p)
    /\ AddsResearch(p) => MayAddResearch
    /\ LET merged == Merged(p)
           pl == Completed(merged, s)
       IN  /\ Cardinality({t \in DOMAIN p : merged[t].status = "pending"}) <= MaxPlanTasks
           /\ WellFormed(merged)
           /\ s \in LatestSyntheses(p, merged)
           /\ WellFormed(pl)
           /\ Sound(pl, s)
           /\ Ready(pl) # {}
           /\ plan' = pl
    /\ facts' = [facts EXCEPT !.retryUsed = @ \/ (AddsResearch(p) /\ Failed # {})]
    /\ version' = version + 1
    /\ parallel' \in BOOLEAN
    /\ phase' = "planned"
    /\ UNCHANGED <<round, batch, results, calls, answer, fatal, given>>

(***************************************************************************)
(* The stages.                                                             *)
(***************************************************************************)

\* failPlan: what has not finished is canceled.
FailPlan ==
    /\ plan' = [t \in Tasks |-> IF plan[t].status \in {"pending", "running", "waiting"}
                                THEN [plan[t] EXCEPT !.status = "canceled"] ELSE plan[t]]
    /\ phase' = "failed"

\* Variant: one round too many.
BeginBatch_OneMore ==
    /\ phase = "planned" /\ round <= MaxRounds
    /\ round' = round + 1
    /\ IF parallel THEN batch' = Ready(plan) ELSE \E t \in Ready(plan) : batch' = {t}
    /\ phase' = "executing"
    /\ UNCHANGED <<plan, version, parallel, taskVars>>

\* The execute stage begins: the whole ready set, or one task of it.
BeginBatch ==
    /\ phase = "planned" /\ round < MaxRounds
    /\ round' = round + 1
    /\ IF parallel THEN batch' = Ready(plan) ELSE \E t \in Ready(plan) : batch' = {t}
    /\ phase' = "executing"
    /\ UNCHANGED <<plan, version, parallel, taskVars>>

\* The loop of the framework has used its iterations.
RoundsExhausted ==
    /\ phase = "planned" /\ round = MaxRounds
    /\ FailPlan
    /\ UNCHANGED <<version, parallel, round, batch, taskVars>>

Quiet == \A t \in Tasks : plan[t].status # "running"

\* The execute stage ends when every branch has returned: with the error of a
\* task, with an interrupt, or with a result for every task of the batch.
EndBatch ==
    /\ phase = "executing" /\ Quiet
    /\ \A t \in batch : results[t] # "none"
    /\ IF fatal THEN FailPlan
       ELSE /\ phase' = IF \E t \in batch : results[t] = "waiting"
                        THEN "waiting" ELSE "replanning"
            /\ UNCHANGED plan
    /\ answer' = NoAnswer
    /\ UNCHANGED <<version, parallel, round, batch, results, facts, calls, fatal, given>>

\* validatePECompletion.
CompletionValid ==
    /\ \A t \in Tasks : plan[t].status \notin {"pending", "running", "waiting"}
    /\ LET done == {s \in Syntheses(plan) : plan[s].status = "success"}
           latest == {s \in done : \A u \in done : plan[u].added <= plan[s].added}
       IN \E s \in latest :
             {t \in Research(plan) : plan[t].status = "success"} \subseteq Ancestors(plan, s)

Respond ==
    /\ phase = "replanning"
    /\ CompletionValid
    /\ phase' = "completed"
    /\ UNCHANGED <<planVars, taskVars>>

\* A model error, an invalid plan, answer or delegation, a failing publish.
RunFails ==
    /\ phase \in {"planning", "replanning"} \/ (phase = "executing" /\ Quiet)
    /\ FailPlan
    /\ UNCHANGED <<version, parallel, round, batch, taskVars>>

\* The request's context is cancelled: the run stops without failPlan.
Cancel ==
    /\ phase \notin Ended \cup {"waiting"}
    /\ phase' = "cancelled"
    /\ UNCHANGED <<planVars, taskVars>>

(***************************************************************************)
(* A task: peTaskAgent.execute and its tool middleware.                    *)
(***************************************************************************)

\* Variant: a synthesis is handed what its own dependencies found, no more.
Inputs_Direct(t) == plan[t].deps \cap Research(plan)

\* What buildTaskQuery hands over: the dependencies, or all the research
\* above a synthesis.
Inputs(t) == IF plan[t].job \in Synthesis THEN Ancestors(plan, t) \cap Research(plan)
             ELSE plan[t].deps

\* Variant: a finished task may be delegated again.
StartTask_Twice(t) ==
    /\ phase = "executing" /\ t \in batch /\ plan[t].status # "running"
    /\ results[t] # "waiting"
    /\ \A d \in plan[t].deps : results[d] = "success"
    /\ plan' = [plan EXCEPT ![t].status = "running"]
    /\ given' = [given EXCEPT ![t] = Inputs(t)]
    /\ UNCHANGED <<version, parallel, round, batch, phase, results, facts, calls, answer, fatal>>

StartTask(t) ==
    /\ phase = "executing" /\ t \in batch
    /\ results[t] = "none" /\ plan[t].status # "running"
    /\ \A d \in plan[t].deps : results[d] = "success"
    /\ plan' = [plan EXCEPT ![t].status = "running"]
    /\ given' = [given EXCEPT ![t] = Inputs(t)]
    /\ UNCHANGED <<version, parallel, round, batch, phase, results, facts, calls, answer, fatal>>

Working(t) == phase = "executing" /\ plan[t].status = "running"
CallsIn(t, s) == {c \in Calls : calls[t][c] = s}

\* The model calls dangerous tools, several at once if it likes.
CallTools(t, cs) ==
    /\ Working(t) /\ plan[t].job \in Operations
    /\ CallsIn(t, "open") = {} /\ CallsIn(t, "asking") = {} /\ CallsIn(t, "running") = {}
    /\ cs # {} /\ cs \subseteq CallsIn(t, "none")
    /\ calls' = [calls EXCEPT ![t] = [c \in Calls |-> IF c \in cs THEN "open" ELSE @[c]]]
    /\ UNCHANGED <<planVars, phase, results, facts, answer, fatal, given>>

\* Variant: an earlier failure of the task does not stop its other calls.
Refused_Never(t) == FALSE

\* resultMiddleware refuses every further call of a task that failed for good.
Refused(t) ==
    t \in facts.failures /\ (facts.denied \/ facts.blocked \/ t \in facts.unsafe)

\* A call of a read-only tool; only a failure that matters is a step: a refused
\* permission, or any failure after a dangerous call.
ReadFails(t, blocked) ==
    /\ Working(t) /\ t \in Research(plan)
    /\ ~Refused(t)
    /\ blocked \/ t \in facts.unsafe
    /\ facts' = [facts EXCEPT !.failures = @ \cup {t}, !.blocked = @ \/ blocked]
    /\ UNCHANGED <<planVars, phase, results, calls, answer, fatal, given>>

Targeted(t, c) == answer # NoAnswer /\ answer.task = t /\ answer.call = c

\* One call enters resultMiddleware and the approval middleware: refused at
\* once, executed with the user's approval, stopped by the user's denial, or
\* (again) waiting for an answer of its own.
RunCall(t, c) ==
    LET asked == [facts EXCEPT !.unsafe = @ \cup {t}]
        Becomes(s) == calls' = [calls EXCEPT ![t][c] = s]
    IN
    /\ Working(t) /\ calls[t][c] = "open"
    /\ \/ Refused(t) /\ Becomes("done") /\ UNCHANGED facts
       \/ /\ ~Refused(t) /\ Targeted(t, c) /\ answer.approved
          /\ Becomes("running") /\ facts' = asked
       \/ /\ ~Refused(t) /\ Targeted(t, c) /\ ~answer.approved
          /\ Becomes("done")
          /\ facts' = [asked EXCEPT !.denied = TRUE, !.failures = @ \cup {t}]
       \/ ~Refused(t) /\ ~Targeted(t, c) /\ Becomes("asking") /\ facts' = asked
    /\ UNCHANGED <<planVars, phase, results, answer, fatal, given>>

\* Variant: a result that comes after another call failed is dropped.
CallReturns_Dropped(t, c, outcome) ==
    /\ Working(t) /\ calls[t][c] = "running" /\ ~Refused(t)
    /\ calls' = [calls EXCEPT ![t][c] = "done"]
    /\ facts' = IF outcome = "success" THEN facts
                ELSE [facts EXCEPT !.failures = @ \cup {t},
                                   !.blocked = @ \/ outcome = "forbidden"]
    /\ UNCHANGED <<planVars, phase, results, answer, fatal, given>>

\* The dangerous tool returns; resultMiddleware classifies its result, unless
\* another call of the task failed meanwhile.
CallReturns(t, c, outcome) ==
    /\ Working(t) /\ calls[t][c] = "running"
    /\ calls' = [calls EXCEPT ![t][c] = "done"]
    /\ facts' = IF outcome = "success" \/ Refused(t) THEN facts
                ELSE [facts EXCEPT !.failures = @ \cup {t},
                                   !.blocked = @ \/ outcome = "forbidden"]
    /\ UNCHANGED <<planVars, phase, results, answer, fatal, given>>

\* mergeTaskResult: the result and the task's status in the plan.
SetResult(t, s) ==
    /\ results' = [results EXCEPT ![t] = s]
    /\ plan' = [plan EXCEPT ![t].status = s]
    /\ calls' = IF s = "waiting" THEN calls ELSE [calls EXCEPT ![t] = NoCalls]
    /\ UNCHANGED <<version, parallel, round, batch, phase, facts, answer, given>>

CallsReturned(t) == CallsIn(t, "open") = {} /\ CallsIn(t, "running") = {}

\* A call asks for approval: the task waits.
TaskWaits(t) ==
    /\ Working(t) /\ CallsReturned(t) /\ CallsIn(t, "asking") # {}
    /\ SetResult(t, "waiting")
    /\ UNCHANGED fatal

\* Variant: the recorded failure is ignored.
OutcomesOf_Ignored(t) == {"success", "error"}

\* A recorded failure overrides whatever the agent concludes.
OutcomesOf(t) == IF t \in facts.failures THEN {"error"} ELSE {"success", "error"}

\* The agent has answered, or failed to.
TaskEnds(t) ==
    /\ Working(t) /\ CallsReturned(t) /\ CallsIn(t, "asking") = {}
    /\ \E s \in OutcomesOf(t) : SetResult(t, s)
    /\ UNCHANGED fatal

\* An error of the model, of a tool or of the runtime ends the task and the run.
TaskBreaks(t) ==
    /\ Working(t) /\ CallsReturned(t)
    /\ SetResult(t, "error")
    /\ fatal' = TRUE

\* The user answers one interrupt: the waiting tasks of the batch run again,
\* and each of their open calls goes through the middleware again.
Resume(t, c, approved) ==
    /\ phase = "waiting"
    /\ calls[t][c] = "asking" /\ results[t] = "waiting"
    /\ answer' = [task |-> t, call |-> c, approved |-> approved]
    /\ LET waiting == {u \in batch : results[u] = "waiting"} IN
       /\ plan' = [u \in Tasks |-> IF u \in waiting
                                   THEN [plan[u] EXCEPT !.status = "running"] ELSE plan[u]]
       /\ calls' = [u \in Tasks |-> [d \in Calls |->
                        IF u \in waiting /\ calls[u][d] = "asking" THEN "open" ELSE calls[u][d]]]
    /\ phase' = "executing"
    /\ UNCHANGED <<version, parallel, round, batch, results, facts, fatal, given>>

-----------------------------------------------------------------------------
PlannerStep ==
    \/ \E p \in Proposals : \E s \in DOMAIN p : InstallPlan(p, s)
    \/ Respond
    \/ RunFails

Outcomes == {"success", "failed", "forbidden"}

DeepTaskStep(t) ==
    \/ StartTask(t)
    \/ TaskWaits(t)
    \/ TaskEnds(t)
    \/ TaskBreaks(t)
    \/ \E c \in Calls : RunCall(t, c)
    \/ \E c \in Calls, o \in Outcomes : CallReturns(t, c, o)

DeepNext ==
    \/ PlannerStep
    \/ BeginBatch \/ RoundsExhausted \/ EndBatch
    \/ Cancel
    \/ \E t \in Tasks :
          \/ DeepTaskStep(t)
          \/ \E cs \in SUBSET Calls : CallTools(t, cs)
          \/ \E blocked \in BOOLEAN : ReadFails(t, blocked)
          \/ \E c \in Calls, approved \in BOOLEAN : Resume(t, c, approved)

DeepSpec == DeepInit /\ [][DeepNext]_deepVars

\* Goroutines are scheduled; a model call and a tool call have deadlines, and
\* a task has a budget of model calls, so it ends.
DeepFairness ==
    /\ WF_deepVars(PlannerStep)
    /\ WF_deepVars(BeginBatch \/ RoundsExhausted \/ EndBatch)
    /\ \A t \in Tasks : WF_deepVars(DeepTaskStep(t))

FairDeepSpec == DeepSpec /\ DeepFairness

-----------------------------------------------------------------------------
(***************************************************************************)
(* Properties.                                                             *)
(***************************************************************************)

\* The state has the shape of peState: only operations call dangerous tools,
\* only tasks with tools record a failure.
DeepTypeOK ==
    /\ plan \in [Tasks -> [status : TaskStatuses, deps : SUBSET Tasks, job : Jobs, added : Nat]]
    /\ version \in Nat /\ round \in 0..MaxRounds /\ parallel \in BOOLEAN
    /\ phase \in Ended \cup {"planning", "planned", "executing", "waiting", "replanning"}
    /\ batch \subseteq Tasks
    /\ results \in [Tasks -> {"none", "waiting", "success", "error"}]
    /\ facts \in [retryUsed : BOOLEAN, denied : BOOLEAN, blocked : BOOLEAN,
                  unsafe : SUBSET Tasks, failures : SUBSET Research(plan)]
    /\ \A t \in facts.unsafe : plan[t].job \in Operations
    /\ calls \in [Tasks -> [Calls -> {"none", "open", "asking", "running", "done"}]]
    /\ answer = NoAnswer \/ answer \in [task : Tasks, call : Calls, approved : BOOLEAN]
    /\ fatal \in BOOLEAN
    /\ given \in [Tasks -> SUBSET Tasks]

\* The status of a task and its result say the same; a result stays "waiting"
\* while the task runs again, and for good when the run ends.
ResultsMatch ==
    \A t \in Tasks :
        /\ \A s \in {"success", "error"} : results[t] = s <=> plan[t].status = s
        /\ plan[t].status \in {"absent", "pending"} => results[t] = "none"
        /\ plan[t].status = "waiting" => results[t] = "waiting"
        /\ results[t] = "waiting" => plan[t].status \in {"running", "waiting"} \/ phase \in Ended

\* Only tasks of the current batch run or wait, and none of it is canceled while
\* the batch goes on.
BatchAtWork ==
    \A t \in Tasks :
        /\ plan[t].status \in {"running", "waiting"} =>
              t \in batch /\ phase \in {"executing", "waiting", "cancelled"}
        /\ phase = "waiting" => plan[t].status # "running"
        /\ phase \in {"executing", "waiting"} /\ t \in batch =>
              plan[t].status \notin {"absent", "canceled"}

Begun(t) == plan[t].status \notin {"absent", "pending"}

\* Dangerous calls are those of an operation that began; one that was let
\* through or asks for approval made its task unsafe, and a failure is recorded
\* of a task that will not succeed, with what made it final.
CallsBelong ==
    \A t \in Tasks :
        /\ \A c \in Calls : calls[t][c] # "none" => Begun(t) /\ plan[t].job \in Operations
        /\ \A c \in Calls : calls[t][c] \in {"asking", "running"} => t \in facts.unsafe
        /\ t \in facts.unsafe => Begun(t)
        /\ t \in facts.failures => /\ Begun(t) /\ plan[t].status # "success"
                                   /\ Refused(t)

\* A task that runs, waits or succeeded has only successful dependencies, and
\* was handed exactly the results its place in the plan calls for, although
\* plans are rewritten while tasks wait for their turn.
DependenciesFirst ==
    \A t \in Tasks : plan[t].status \in {"running", "waiting", "success"} =>
        /\ \A d \in plan[t].deps : results[d] = "success"
        /\ given[t] = Inputs(t)

\* The final answer rests on a synthesis that was handed the result of every
\* research task that succeeded, however often the plan was changed.
AnswerCoversResearch ==
    phase = "completed" =>
        \E s \in Syntheses(plan) :
            /\ results[s] = "success"
            /\ {t \in Research(plan) : results[t] = "success"} \subseteq given[s]

\* The parts above hold together: each step keeps all of them.
DeepInv ==
    /\ DeepTypeOK /\ ResultsMatch /\ BatchAtWork /\ CallsBelong
    /\ DependenciesFirst /\ AnswerCoversResearch

\* A refused or failed side effect is the end of its task: no other call of it
\* is executed, even one the user approves, and it never counts as a success.
RefusalEndsTask ==
    \A t \in facts.failures :
        /\ results'[t] # "success"
        /\ \A c \in Calls : calls'[t][c] = "running" => calls[t][c] = "running"

\* A finished task keeps its result and its place in the plan for ever.
FinishedIsFinal ==
    \A t \in Tasks : Finished(plan[t].status) =>
        plan'[t] = plan[t] /\ results'[t] = results[t]

\* After the user denied an approval, or a permission was refused, no research
\* or operation is added or redefined: the refusal cannot be worked around.
RefusalNotBypassed ==
    facts.denied \/ facts.blocked =>
        \A t \in Tasks : plan'[t].status # "absent" /\ plan'[t].job \notin Synthesis =>
            plan[t].status # "absent" /\ plan'[t].deps = plan[t].deps /\ plan'[t].job = plan[t].job

\* A run that is not waiting for the user comes to an end.
RunEnds == phase \notin Ended \cup {"waiting"} ~> phase \in Ended \cup {"waiting"}

\* What the error text of installPlan says, and the code does not keep: after a
\* task with a dangerous call failed, no operation retries it or replaces it.
NoSubstituteForSideEffect ==
    [][Failed \cap facts.unsafe # {} =>
          \A t \in Tasks : plan'[t].status = "pending" /\ plan'[t].job \in Operations =>
              plan[t].status = "pending" /\ plan'[t].job = plan[t].job]_deepVars
=============================================================================
