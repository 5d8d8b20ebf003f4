---------------------------- MODULE MCResolution ----------------------------
(***************************************************************************)
(* What must eventually happen, checked in one run for five components     *)
(* that do not interact in it: the model streams, the jobs of the message  *)
(* embedding queue, the processing of documents, the synchronisation of a  *)
(* space and the run of a deep plan.  A behaviour is one of a single part, *)
(* under that part's fairness; the others rest in their initial states.    *)
(***************************************************************************)
EXTENDS ModelStream, FiniteSets, Functions, TLC

VARIABLES part,
          row, mode, pc, ejob, claims, stops, backfills,
          status, djob, task, versions, dchunks, req, kbCount, faults,
          source, lastSync, jobs, items, docs, imports, spaceCount, raced, syncFaults,
          plan, version, parallel, phase, round, batch, results, facts,
          calls, answer, fatal, given

Embedding == INSTANCE MessageEmbedding WITH
    Messages <- {"m1", "m2"}, Processes <- {"p1"}, Concurrency <- 2,
    MaxAttempts <- 2, MaxStops <- 1, MaxBackfills <- 0, job <- ejob

Documents == INSTANCE DocumentLifecycle WITH
    Docs <- {"d1", "d2"}, Requests <- {"r1", "r2"}, First <- "first",
    MaxFaults <- 0, job <- djob, chunks <- dchunks

\* One file, imported by two requests while a job lists it.
Sync == INSTANCE DingTalkSync WITH
    Nodes <- {"f1"}, Root <- "root", ParentOf <- [n \in {"f1"} |-> "root"],
    KindsOf <- [n \in {"f1"} |-> {"readable"}], Importers <- {"i1", "i2"},
    SyncJobs <- {"j1"}, SyncedDocs <- {"x1"}, NoDoc <- "none", MaxVersions <- 2,
    MaxSyncFaults <- 0, kbCount <- spaceCount

\* Two operations of two dangerous calls each, side by side, and their synthesis.
Entries(kinds, deps) == {[deps |-> {}, job |-> "none"]} \cup [deps : deps, job : kinds]
Listed(p) == Restrict(p, {t \in DOMAIN p : p[t].job # "none"})
PairProposals ==
    {Listed(("o1" :> a) @@ ("o2" :> b) @@ ("s1" :> c)) :
        a \in Entries({"op"}, {{}}), b \in Entries({"op"}, {{}}),
        c \in Entries({"sum"}, {{"o1", "o2"}})}

Deep == INSTANCE DeepPlan WITH
    Tasks <- {"o1", "o2", "s1"}, Jobs <- {"op", "sum"}, Synthesis <- {"sum"},
    Operations <- {"op"}, Calls <- {"c1", "c2"}, Proposals <- PairProposals,
    MaxPlanTasks <- 3, MaxRounds <- 2

embVars  == <<row, mode, pc, ejob, claims, stops, backfills>>
docVars  == <<status, djob, task, versions, dchunks, req, kbCount, faults>>
syncVars == <<source, lastSync, jobs, items, docs, imports, spaceCount, raced, syncFaults>>
deepVars == <<plan, version, parallel, phase, round, batch, results, facts,
              calls, answer, fatal, given>>

vars == <<part, streamVars, embVars, docVars, syncVars, deepVars>>

Init == /\ part \in {"stream", "embedding", "documents", "space", "deep"}
        /\ StreamInit /\ Embedding!Init /\ Documents!Init /\ Sync!SyncInit /\ Deep!DeepInit

StreamPart    == /\ part = "stream" /\ StreamNext
                 /\ UNCHANGED <<part, embVars, docVars, syncVars, deepVars>>
EmbeddingPart == /\ part = "embedding" /\ Embedding!Next
                 /\ UNCHANGED <<part, streamVars, docVars, syncVars, deepVars>>
DocumentsPart == /\ part = "documents" /\ Documents!Next
                 /\ UNCHANGED <<part, streamVars, embVars, syncVars, deepVars>>
SpacePart     == /\ part = "space" /\ Sync!SyncNext
                 /\ UNCHANGED <<part, streamVars, embVars, docVars, deepVars>>
DeepPart      == /\ part = "deep" /\ Deep!DeepNext
                 /\ UNCHANGED <<part, streamVars, embVars, docVars, syncVars>>

Next == StreamPart \/ EmbeddingPart \/ DocumentsPart \/ SpacePart \/ DeepPart

-----------------------------------------------------------------------------
(* The fairness of each component, for the behaviours of its part.         *)

FairStream ==
    /\ WF_streamVars(part = "stream" /\ Tick) /\ WF_streamVars(part = "stream" /\ TimerFires)
    /\ WF_streamVars(part = "stream" /\ Expire) /\ WF_streamVars(part = "stream" /\ Read)
    /\ WF_streamVars(part = "stream" /\ context # "open" /\ (ReadFails \/ Refused))
    /\ WF_streamVars(part = "stream" /\ BodyCloses)

FairEmbedding ==
    /\ \A w \in Embedding!Loops :
          /\ WF_embVars(part = "embedding" /\ Embedding!LoopStep(w))
          /\ SF_embVars(part = "embedding" /\ \E m \in {"m1", "m2"} : Embedding!Pick(w, m))
    /\ \A m \in {"m1", "m2"} :
          /\ WF_embVars(part = "embedding" /\ Embedding!LeaseRunsOut(m))
          /\ WF_embVars(part = "embedding" /\ Embedding!BackoffElapses(m))
    /\ WF_embVars(part = "embedding" /\ Embedding!RunReturns("p1"))
    /\ WF_embVars(part = "embedding" /\ Embedding!StartProcess("p1"))

FairDocuments ==
    /\ \A d \in {"d1", "d2"}, w \in Documents!Writers :
          WF_docVars(part = "documents" /\ Documents!TaskStep(d, w))
    /\ \A r \in {"r1", "r2"} : WF_docVars(part = "documents" /\ Documents!RequestStep(r))

FairSpace ==
    /\ WF_syncVars(part = "space" /\ Sync!JobStep("j1"))
    /\ \A r \in {"i1", "i2"} : WF_syncVars(part = "space" /\ Sync!ImportStep(r))

FairDeep ==
    /\ WF_deepVars(part = "deep" /\ Deep!PlannerStep)
    /\ WF_deepVars(part = "deep" /\ (Deep!BeginBatch \/ Deep!RoundsExhausted \/ Deep!EndBatch))
    /\ \A t \in {"o1", "o2", "s1"} : WF_deepVars(part = "deep" /\ Deep!DeepTaskStep(t))

Spec == Init /\ [][Next]_vars /\ FairStream /\ FairEmbedding /\ FairDocuments /\ FairSpace /\ FairDeep

-----------------------------------------------------------------------------
\* Every model call ends, silent as its service may be; until then only silence
\* cuts it, and an answer that was complete stays so for its reader (ModelStream).
CallsEndWell ==
    /\ [](part = "stream" => StreamTypeOK /\ CompleteIsComplete)
    /\ [][part = "stream" => CutOnlyInSilence /\ LateReaderKeepsAnswer]_streamVars
    /\ part = "stream" => EveryCallEnds

\* No embedding job stays registered, no shutdown stays open (MessageEmbedding).
QueueComesToRest == part = "embedding" => Embedding!QueueComesToRest

\* Without faults no document stays in processing, and no request waits for
\* ever for another one's row locks (DocumentLifecycle).
DocumentsComeToRest == part = "documents" => Documents!DocumentsComeToRest

\* While nothing fails to write, no import and no synchronisation stays open
\* (DingTalkSync).
SpaceComesToRest == part = "space" => Sync!SyncResolves

\* A deep run that does not wait for its user ends, and of two tasks side by
\* side the one that was refused a side effect makes no other call (DeepPlan).
RunEndsWell ==
    /\ [][part = "deep" => Deep!RefusalEndsTask]_deepVars
    /\ part = "deep" => Deep!RunEnds
=============================================================================
