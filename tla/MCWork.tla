------------------------------- MODULE MCWork -------------------------------
(***************************************************************************)
(* Work that goes on behind a request, checked in one run: the processing, *)
(* editing and deletion of documents, and the deep plan.  A behaviour is a *)
(* behaviour of one part; the variables of the other are not used in it.   *)
(***************************************************************************)
EXTENDS DocumentLifecycle, MCDeepPlan

CONSTANTS d1, d2, r1, r2, r3

VARIABLE part

NoPlan      == /\ plan = 0 /\ version = 0 /\ parallel = 0 /\ phase = 0 /\ round = 0 /\ batch = 0
               /\ results = 0 /\ facts = 0 /\ calls = 0 /\ answer = 0 /\ fatal = 0 /\ given = 0
NoDocuments == /\ status = 0 /\ job = 0 /\ task = 0 /\ versions = 0 /\ chunks = 0 /\ req = 0
               /\ kbCount = 0 /\ faults = 0

WorkInit ==
    /\ part \in {"documents", "deep"}
    /\ IF part = "documents" THEN Init ELSE NoDocuments
    /\ IF part = "deep" THEN DeepInit ELSE NoPlan

WorkNext ==
    \/ part = "documents" /\ Next /\ UNCHANGED <<part, deepVars>>
    \/ part = "deep" /\ DeepNext /\ UNCHANGED <<part, vars>>

WorkSpec == WorkInit /\ [][WorkNext]_<<part, vars, deepVars>>

\* Nothing distinguishes the documents, nor the requests.
Symmetry == Permutations(Docs) \cup Permutations(Requests)

-----------------------------------------------------------------------------
\* The jobs, the versions, the chunks and the count of documents agree, and what
\* is offered to retrieval can be retrieved, in whatever order jobs, edits,
\* deletions and crashes come (DocumentLifecycle).
RecordsAgree ==
    part = "documents" => DocInv

\* Saved versions are only added to, and a document whose deletion found no work
\* under way is not brought back (DocumentLifecycle).
HistoryStands ==
    [][part = "documents" => VersionsAppendOnly /\ QuietDeletionIsFinal]_vars

\* However often the plan was changed, a task runs on the successful results its
\* place calls for (DeepPlan).
PlansAreSound ==
    part = "deep" => /\ DeepTypeOK /\ ResultsMatch /\ BatchAtWork /\ CallsBelong
                     /\ DependenciesFirst

\* The final answer was handed every research that succeeded (DeepPlan).
AnswerIsComplete == part = "deep" => AnswerCoversResearch

\* What was decided stands, whatever the planner writes afterwards: a result, a
\* refusal, a failed side effect (DeepPlan).
DecisionsStand == [][part = "deep" => RefusalEndsTask /\ FinishedIsFinal /\ RefusalNotBypassed]_deepVars
=============================================================================
