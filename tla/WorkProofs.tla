----------------------------- MODULE WorkProofs -----------------------------
(***************************************************************************)
(* Machine-checked proofs about the work behind a request, for every value *)
(* of the constants: DocumentLifecycle, for every number of documents,     *)
(* requests and faults; DeepPlan, for every set of tasks and jobs and      *)
(* whatever plans the model submits; and the run Work, of which a          *)
(* behaviour is a behaviour of one of them.                                *)
(*                                                                         *)
(* That a document has one job under way needs to know where goroutines    *)
(* are (OneJobAtWork) and that the status failed, which CreateProcessJob   *)
(* claims, is only ever set by the last of them (FailedIsIdle).  That a    *)
(* version has one generation of chunks needs to know that a request       *)
(* rebuilds a version that is saved (ReindexesSavedVersion).               *)
(*                                                                         *)
(* Plans are rewritten while their tasks run.  What carries over is that a *)
(* plan is only installed when nothing runs (BatchAtWork), so that a task  *)
(* that began has ended and keeps its place, and so does all it depends    *)
(* on, because it began after that had succeeded (DependenciesFirst).      *)
(***************************************************************************)
EXTENDS MCWork, FiniteSetTheorems, TLAPS

-----------------------------------------------------------------------------
(***************************************************************************)
(* Documents.                                                              *)
(***************************************************************************)

\* The parts of DocInv: shape, jobs, contents.
Shape ==
    /\ status \in [Docs -> Statuses]
    /\ job \in [Docs -> [Writers -> JobStatuses]]
    /\ task \in [Docs -> [Writers -> TaskPhases]]
    /\ versions \in [Docs -> Seq(Writers)]
    /\ chunks \in [Docs -> SUBSET Batch]
    /\ req \in [Requests -> Request \cup {Unused, Done}]
    /\ kbCount \in Nat
    /\ faults \in 0..MaxFaults

JobsAgree == OneActiveJob /\ OneJobAtWork /\ FailedIsIdle

ContentsAgree == ReindexesSavedVersion /\ OneGenerationPerVersion /\ ReadyIsSearchable

-----------------------------------------------------------------------------
\* The first state has all of it.
LEMMA InitEstablishesDocInv == Init => DocInv
<1> SUFFICES ASSUME Init PROVE DocInv
  OBVIOUS
<1>1. CountNeverAhead
  <2> DEFINE live == {d \in Docs : status[d] \notin {"absent", "deleted"}}
  <2>1. live = {}
    BY DEF Init
  <2>2. Cardinality(live) = 0
    BY <2>1, FS_EmptySet
  <2> QED
    BY <2>2 DEF CountNeverAhead, Init
<1>2. Cardinality(Docs) \in Nat
  BY FS_CardinalityType, LifecycleAssumption
<1>3. TypeOK
  BY <1>2, LifecycleAssumption DEF Init, TypeOK, Statuses, JobStatuses, TaskPhases
<1>4. JobsAgree
  BY DEF Init, JobsAgree, OneActiveJob, OneJobAtWork, FailedIsIdle, Active
<1>5. AbsentIsUntouched /\ ContentsAgree
  BY DEF Init, AbsentIsUntouched, ContentsAgree, ReindexesSavedVersion, InFlight, Unused,
         OneGenerationPerVersion, ReadyIsSearchable
<1> QED
  BY <1>1, <1>3, <1>4, <1>5 DEF DocInv, JobsAgree, ContentsAgree

-----------------------------------------------------------------------------
\* The shape of the state, and the count of documents.

\* TypeOK bounds the count; that is CountNeverAhead.
LEMMA BoundedCount ==
  /\ TypeOK => Shape
  /\ Shape /\ CountNeverAhead => TypeOK
<1>1. Cardinality(Docs) \in Nat
  BY FS_CardinalityType, LifecycleAssumption
<1>2. TypeOK => Shape
  BY <1>1 DEF TypeOK, Shape
<1>3. ASSUME Shape, CountNeverAhead PROVE TypeOK
  <2> DEFINE live == {d \in Docs : status[d] \notin {"absent", "deleted"}}
  <2>1. Cardinality(live) \in Nat /\ Cardinality(live) <= Cardinality(Docs)
    BY FS_Subset, FS_CardinalityType, LifecycleAssumption
  <2>2. kbCount <= Cardinality(live)
    BY <1>3 DEF CountNeverAhead
  <2> HIDE DEF live
  <2>3. kbCount \in 0..Cardinality(Docs)
    BY <1>1, <1>3, <2>1, <2>2 DEF Shape
  <2> QED
    BY <1>3, <2>3 DEF TypeOK, Shape
<1> QED
  BY <1>2, <1>3

\* What a request in flight looks like, and what marks one.
LEMMA RequestShape ==
  ASSUME Shape, NEW r \in Requests
  PROVE  /\ InFlight(r) => req[r] \in Request /\ req[r].doc \in Docs
         /\ InFlight(r) /\ req[r].phase # "checked" => req[r].op \in {"version", "reindex"}
         /\ req[r].op \in {"process", "delete", "version", "reindex"} => InFlight(r)
         /\ req[r] \in Request => InFlight(r)
BY DEF Shape, InFlight, Request, RequestOf, Unused, Done

\* One request changes, to a request or to none.
LEMMA OneRequestChanges ==
  ASSUME Shape, NEW r \in Requests, NEW q \in Request \cup {Unused, Done},
         req' = [req EXCEPT ![r] = q]
  PROVE  /\ req' \in [Requests -> Request \cup {Unused, Done}]
         /\ req'[r] = q
         /\ \A x \in Requests \ {r} : req'[x] = req[x]
BY DEF Shape

LEMMA StepKeepsShape == DocInv /\ Next => Shape'
<1> SUFFICES ASSUME DocInv, Next PROVE Shape'
  OBVIOUS
<1>0. Shape /\ MaxFaults \in Nat /\ First \in Writers
  BY BoundedCount, LifecycleAssumption DEF Writers, DocInv
<1> USE <1>0
<1>1. ASSUME NEW d \in Docs, Upload(d) \/ CreateNote(d) PROVE Shape'
  <2> USE DEF Shape, Statuses, JobStatuses, TaskPhases
  <2>1. CASE Upload(d)
    BY <2>1 DEF Upload
  <2>2. CASE CreateNote(d)
    BY <2>2 DEF CreateNote
  <2> QED
    BY <1>1, <2>1, <2>2
<1>2. ASSUME NEW d \in Docs, NEW w \in Writers, TaskStep(d, w) PROVE Shape'
  <2> USE DEF Shape, TaskMoves, Fault, TaskPhases, JobStatuses, Statuses
  <2>1. CASE StartJob(d, w)
    <3>1. CASE job' = [job EXCEPT ![d][w] = "running"] /\ TaskMoves(d, w, "parse") /\ UNCHANGED faults
      BY <2>1, <3>1 DEF StartJob
    <3>2. CASE Fault /\ TaskMoves(d, w, "fail") /\ UNCHANGED job
      BY <2>1, <3>2 DEF StartJob
    <3> QED
      BY <2>1, <3>1, <3>2 DEF StartJob
  <2>2. CASE ParseReturns(d, w)
    BY <2>2 DEF ParseReturns
  <2>3. ASSUME SaveResultTx(d, w)
        PROVE  /\ versions' \in [Docs -> Seq(Writers)]
               /\ chunks' \in [Docs -> SUBSET Batch]
               /\ status' \in [Docs -> Statuses]
               /\ job' \in [Docs -> [Writers -> JobStatuses]]
    <3>1. <<w>> \in Seq(Writers) /\ [version |-> 1, by |-> w] \in Batch
      BY DEF Batch
    <3> QED
      BY <2>3, <3>1 DEF SaveResultTx, JobEnds
  <2>4. CASE SaveResult(d, w)
    BY <2>3, <2>4 DEF SaveResult
  <2>5. CASE SaveAnswerLost(d, w)
    BY <2>3, <2>5 DEF SaveAnswerLost, AfterSaveError
  <2>6. CASE SaveRefused(d, w)
    BY <2>6 DEF SaveRefused, AfterSaveError
  <2>7. CASE MarkFailed(d, w)
    BY <2>7 DEF MarkFailed, JobEnds
  <2>8. CASE MarkFailedLost(d, w)
    BY <2>8 DEF MarkFailedLost
  <2> QED
    BY <1>2, <2>1, <2>2, <2>4, <2>5, <2>6, <2>7, <2>8 DEF TaskStep
<1>3. ASSUME NEW r \in Requests, NEW d \in Docs,
             NEW o, NEW ph, NEW n \in Nat, Begin(r, o, d, ph, n),
             <<o, ph>> \in {<<"process", "checked">>, <<"delete", "checked">>,
                                <<"version", "building">>, <<"reindex", "building">>}
      PROVE  Shape'
  <2>1. [op |-> o, doc |-> d, phase |-> ph, version |-> n, seen |-> {}] \in Request
    BY <1>3 DEF Request, RequestOf
  <2> QED
    BY <1>3, <2>1, OneRequestChanges DEF Begin, Shape
<1>4. ASSUME NEW r \in Requests, NEW d \in Docs,
             BeginProcess(r, d) \/ BeginDelete(r, d) \/ BeginCreateVersion(r, d)
      PROVE  Shape'
  BY <1>3, <1>4 DEF BeginProcess, BeginDelete, BeginCreateVersion
<1>5. ASSUME NEW r \in Requests, NEW d \in Docs, BeginReindex(r, d) PROVE Shape'
  <2>1. Len(versions[d]) \in Nat
    BY DEF Shape
  <2> QED
    BY <1>3, <1>5, <2>1 DEF BeginReindex
<1>6. ASSUME NEW r \in Requests, Finish(r) PROVE req' \in [Requests -> Request \cup {Unused, Done}]
  BY <1>6, OneRequestChanges DEF Finish
<1>7. ASSUME NEW r \in Requests, CommitProcess(r) PROVE Shape'
  <2>1. req[r].doc \in Docs /\ r \in Writers
    BY <1>7, RequestShape DEF CommitProcess, Writers
  <2>2. CASE ClaimForProcessing(req[r].doc)
    <3> DEFINE d == req[r].doc
    <3>1. /\ status' = [status EXCEPT ![d] = "processing"]
          /\ job' = [job EXCEPT ![d][r] = "pending"]
          /\ task' = [task EXCEPT ![d][r] = "start"]
          /\ UNCHANGED <<versions, chunks, kbCount, faults>>
          /\ Finish(r)
      BY <1>7, <2>2 DEF CommitProcess
    <3> HIDE DEF d
    <3> QED
      BY <1>6, <2>1, <3>1 DEF d, Shape, Statuses, JobStatuses, TaskPhases
  <2>3. CASE ~ClaimForProcessing(req[r].doc)
    BY <1>6, <1>7, <2>3 DEF CommitProcess, Shape
  <2> QED
    BY <2>2, <2>3
<1>8. ASSUME NEW r \in Requests, CommitDelete(r) PROVE Shape'
  <2>1. req[r].doc \in Docs
    BY <1>8, RequestShape DEF CommitDelete
  <2> QED
    BY <1>6, <1>8, <2>1 DEF CommitDelete, Shape, Statuses
<1>9. ASSUME NEW r \in Requests, ReplaceBegins(r) PROVE Shape'
  <2> DEFINE d == req[r].doc
             n == IF req[r].op = "version" THEN Len(versions[d]) + 1 ELSE req[r].version
             q == [req[r] EXCEPT !.phase = "replacing", !.seen = chunks[d], !.version = n]
  <2>1. req[r] \in Request /\ d \in Docs /\ req[r].op \in {"version", "reindex"}
    BY <1>9, RequestShape DEF ReplaceBegins
  <2>2. n \in Nat /\ chunks[d] \in SUBSET Batch
    BY <2>1 DEF Shape, Request, RequestOf
  <2>3. q \in Request
    BY <2>1, <2>2 DEF Request, RequestOf
  <2>4. req' = [req EXCEPT ![r] = q]
    BY <1>9, <2>1, <2>2 DEF ReplaceBegins, Shape
  <2> QED
    BY <1>9, <2>3, <2>4, OneRequestChanges DEF ReplaceBegins, Shape
<1>10. ASSUME NEW r \in Requests, ReplaceLocks(r) PROVE Shape'
  <2> DEFINE q == [req[r] EXCEPT !.phase = "holding"]
  <2>1. req[r] \in Request /\ req[r].op \in {"version", "reindex"}
    BY <1>10, RequestShape DEF ReplaceLocks
  <2>2. q \in Request
    BY <2>1 DEF Request, RequestOf
  <2>3. req' = [req EXCEPT ![r] = q]
    BY <1>10 DEF ReplaceLocks
  <2> QED
    BY <1>10, <2>2, <2>3, OneRequestChanges DEF ReplaceLocks, Shape
<1>11. ASSUME NEW r \in Requests, ReplaceCommits(r) PROVE Shape'
  <2> DEFINE d == req[r].doc
  <2>1. d \in Docs /\ req[r] \in Request /\ r \in Writers /\ req[r].op \in {"version", "reindex"}
    BY <1>11, RequestShape DEF ReplaceCommits, Writers
  <2>2. Accepted(r) => req[r].version \in Nat \ {0}
    BY <2>1 DEF Accepted, DocInv, ReindexesSavedVersion, Shape
  <2>3. CASE ~Accepted(r)
    BY <1>6, <1>11, <2>3 DEF ReplaceCommits, Shape
  <2>4. CASE Accepted(r)
    <3>1. [version |-> req[r].version, by |-> r] \in Batch
      BY <2>1, <2>2, <2>4 DEF Batch
    <3>2. ReplacedChunks(r) \in SUBSET Batch
      BY <2>1, <3>1 DEF ReplacedChunks, Shape
    <3>3. Append(versions[d], r) \in Seq(Writers)
      BY <2>1 DEF Shape
    <3> DEFINE new == IF req[r].op = "version" THEN [versions EXCEPT ![d] = Append(versions[d], r)]
                      ELSE versions
    <3>4. /\ versions' = new /\ chunks' = [chunks EXCEPT ![d] = ReplacedChunks(r)]
          /\ status' = [status EXCEPT ![d] = "ready"]
          /\ Finish(r) /\ UNCHANGED <<job, task, kbCount, faults>>
      BY <1>11, <2>4 DEF ReplaceCommits
    <3>5. new \in [Docs -> Seq(Writers)]
      BY <2>1, <3>3 DEF Shape
    <3> HIDE DEF d, new
    <3> QED
      BY <1>6, <2>1, <3>2, <3>4, <3>5 DEF Shape, Statuses
  <2> QED
    BY <2>3, <2>4
<1>12. ASSUME NEW r \in Requests, RequestAborts(r) PROVE Shape'
  BY <1>6, <1>12 DEF RequestAborts, Shape
<1>13. CASE Crash
  BY <1>13 DEF Crash, Fault, Shape, TaskPhases
<1> QED
  BY <1>1, <1>2, <1>4, <1>5, <1>7, <1>8, <1>9, <1>10, <1>11, <1>12, <1>13 DEF Next, RequestStep

-----------------------------------------------------------------------------
(***************************************************************************)
(* Jobs and goroutines.  A goroutine begins with the document, or on a     *)
(* document that failed, and both are idle; all others only move on, and   *)
(* the status failed comes from the one that is there.                     *)
(***************************************************************************)
LEMMA StepKeepsJobs == DocInv /\ Next => JobsAgree'
<1> SUFFICES ASSUME DocInv, Next PROVE JobsAgree'
  OBVIOUS
<1>0. /\ Shape /\ First \in Writers /\ Requests \subseteq Writers
      /\ JobsAgree /\ AbsentIsUntouched
  BY BoundedCount DEF Writers, DocInv, JobsAgree
<1> USE <1>0 DEF JobsAgree
<1>1. CASE UNCHANGED <<status, job, task>>
  BY <1>1 DEF OneActiveJob, OneJobAtWork, FailedIsIdle, Active
<1>2. ASSUME NEW d \in Docs, Upload(d) PROVE JobsAgree'
  <2> USE <1>2 DEF Upload, Shape, AbsentIsUntouched, Active
  <2>1. OneActiveJob'
    BY DEF OneActiveJob
  <2>2. OneJobAtWork'
    BY DEF OneJobAtWork
  <2>3. FailedIsIdle'
    BY DEF FailedIsIdle
  <2> QED
    BY <2>1, <2>2, <2>3
<1>3. ASSUME NEW d \in Docs, CreateNote(d) PROVE JobsAgree'
  <2> USE <1>3 DEF CreateNote, Shape, AbsentIsUntouched, Active
  <2>1. OneActiveJob'
    BY DEF OneActiveJob
  <2>2. OneJobAtWork'
    BY DEF OneJobAtWork
  <2>3. FailedIsIdle'
    BY DEF FailedIsIdle
  <2> QED
    BY <2>1, <2>2, <2>3
<1>4. ASSUME NEW d \in Docs, NEW w \in Writers, task[d][w] # "none",
             \A x \in Docs, v \in Writers : <<x, v>> # <<d, w>> =>
                job'[x][v] = job[x][v] /\ task'[x][v] = task[x][v],
             \A x \in Docs : status'[x] = "failed" =>
                status[x] = "failed" \/ (x = d /\ task'[d][w] = "none" /\ ~(Active(d, w)'))
      PROVE  JobsAgree'
  <2>1. \A v \in Writers \ {w} : task[d][v] = "none" /\ ~Active(d, v)
    BY <1>4 DEF OneJobAtWork
  <2>2. status[d] # "failed"
    BY <1>4 DEF FailedIsIdle
  <2>3. OneActiveJob'
    BY <1>4, <2>1 DEF OneActiveJob, Active
  <2>4. OneJobAtWork'
    BY <1>4, <2>1 DEF OneJobAtWork, Active
  <2>5. FailedIsIdle'
    BY <1>4, <2>1, <2>2 DEF FailedIsIdle, Active
  <2> QED
    BY <2>3, <2>4, <2>5
<1>5. ASSUME NEW d \in Docs, NEW w \in Writers, TaskStep(d, w) PROVE JobsAgree'
  <2> USE DEF Shape, TaskMoves, JobEnds
  <2>1. CASE StartJob(d, w)
    <3>1. \A x \in Docs, v \in Writers : <<x, v>> # <<d, w>> => job'[x][v] = job[x][v]
      BY <2>1 DEF StartJob
    <3>2. \A x \in Docs, v \in Writers : <<x, v>> # <<d, w>> => task'[x][v] = task[x][v]
      BY <2>1 DEF StartJob
    <3> QED
      BY <1>4, <2>1, <3>1, <3>2 DEF StartJob
  <2>2. CASE ParseReturns(d, w)
    BY <1>4, <2>2 DEF ParseReturns
  <2>3. CASE SaveResult(d, w)
    BY <1>4, <2>3 DEF SaveResult, SaveResultTx
  <2>4. CASE SaveAnswerLost(d, w)
    BY <1>4, <2>4 DEF SaveAnswerLost, SaveResultTx
  <2>5. CASE SaveRefused(d, w)
    BY <1>4, <2>5 DEF SaveRefused
  <2>6. CASE MarkFailed(d, w)
    <3>1. ~(Active(d, w)')
      BY <2>6 DEF MarkFailed, Active
    <3>2. \A x \in Docs, v \in Writers : <<x, v>> # <<d, w>> =>
             job'[x][v] = job[x][v] /\ task'[x][v] = task[x][v]
      BY <2>6 DEF MarkFailed
    <3>3. \A x \in Docs : status'[x] = "failed" =>
             status[x] = "failed" \/ (x = d /\ task'[d][w] = "none")
      BY <2>6 DEF MarkFailed
    <3> QED
      BY <1>4, <2>6, <3>1, <3>2, <3>3 DEF MarkFailed
  <2>7. CASE MarkFailedLost(d, w)
    BY <1>4, <2>7 DEF MarkFailedLost
  <2> QED
    BY <1>5, <2>1, <2>2, <2>3, <2>4, <2>5, <2>6, <2>7 DEF TaskStep
<1>6. ASSUME NEW r \in Requests, CommitProcess(r) PROVE JobsAgree'
  <2>1. CASE ~ClaimForProcessing(req[r].doc)
    BY <1>1, <1>6, <2>1 DEF CommitProcess
  <2>2. CASE ClaimForProcessing(req[r].doc)
    <3> DEFINE d == req[r].doc
    <3>1. d \in Docs /\ r \in Writers
      BY <1>6, RequestShape DEF CommitProcess
    <3>2. /\ status' = [status EXCEPT ![d] = "processing"]
          /\ job' = [job EXCEPT ![d][r] = "pending"]
          /\ task' = [task EXCEPT ![d][r] = "start"]
      BY <1>6, <2>2 DEF CommitProcess
    <3>3. \A w \in Writers : task[d][w] = "none" /\ ~Active(d, w)
      BY <2>2, <3>1 DEF ClaimForProcessing, FailedIsIdle
    <3> HIDE DEF d
    <3>4. /\ \A x \in Docs, v \in Writers : <<x, v>> # <<d, r>> =>
                job'[x][v] = job[x][v] /\ task'[x][v] = task[x][v]
          /\ \A x \in Docs : status'[x] = "failed" => status[x] = "failed" /\ x # d
      BY <3>1, <3>2 DEF Shape
    <3>5. OneActiveJob' /\ OneJobAtWork'
      BY <3>1, <3>3, <3>4 DEF OneActiveJob, OneJobAtWork, Active
    <3>6. FailedIsIdle'
      BY <3>1, <3>4 DEF FailedIsIdle, Active
    <3> QED
      BY <3>5, <3>6
  <2> QED
    BY <2>1, <2>2
<1>7. ASSUME UNCHANGED <<job, task>>, \A x \in Docs : status'[x] = "failed" => status[x] = "failed"
      PROVE  JobsAgree'
  BY <1>7 DEF OneActiveJob, OneJobAtWork, FailedIsIdle, Active
<1>8. ASSUME NEW r \in Requests, CommitDelete(r) PROVE JobsAgree'
  BY <1>7, <1>8 DEF CommitDelete, Shape
<1>9. ASSUME NEW r \in Requests, ReplaceCommits(r) PROVE JobsAgree'
  BY <1>7, <1>9 DEF ReplaceCommits, Shape
<1>10. CASE Crash
  BY <1>10 DEF Crash, OneActiveJob, OneJobAtWork, FailedIsIdle, Active
<1>11. ASSUME NEW r \in Requests,
              \/ \E d \in Docs : \/ BeginProcess(r, d) \/ BeginDelete(r, d)
                                 \/ BeginCreateVersion(r, d) \/ BeginReindex(r, d)
              \/ ReplaceBegins(r) \/ ReplaceLocks(r) \/ RequestAborts(r)
       PROVE  JobsAgree'
  BY <1>1, <1>11 DEF BeginProcess, BeginDelete, BeginCreateVersion, BeginReindex, Begin,
                     ReplaceBegins, ReplaceLocks, RequestAborts
<1> QED
  BY <1>2, <1>3, <1>5, <1>6, <1>8, <1>9, <1>10, <1>11 DEF Next, RequestStep

-----------------------------------------------------------------------------
(***************************************************************************)
(* Versions and chunks.  Only SaveProcessResult, which writes version 1,   *)
(* and the replacing transaction touch them.                               *)
(***************************************************************************)
WritesFirst(d, w) ==
    /\ versions[d] = <<>>
    /\ versions' = [versions EXCEPT ![d] = <<w>>]
    /\ chunks' = [chunks EXCEPT ![d] = @ \cup {[version |-> 1, by |-> w]}]
    /\ UNCHANGED req

Replaces(r) ==
    LET d == req[r].doc IN
    /\ InFlight(r) /\ req[r].phase = "holding" /\ Accepted(r)
    /\ versions' = IF req[r].op = "version" THEN [versions EXCEPT ![d] = Append(@, r)] ELSE versions
    /\ chunks' = [chunks EXCEPT ![d] = ReplacedChunks(r)]
    /\ Finish(r)

\* What a step does to versions and chunks, and to the statuses ready and absent.
LEMMA StepOnContents ==
  ASSUME DocInv, Next
  PROVE  \/ /\ UNCHANGED <<versions, chunks>>
            /\ \A d \in Docs : status'[d] = "ready" => status[d] = "ready"
         \/ \E d \in Docs, w \in Writers :
               WritesFirst(d, w) /\ status' = [status EXCEPT ![d] = "ready"]
         \/ \E r \in Requests :
               Replaces(r) /\ status' = [status EXCEPT ![req[r].doc] = "ready"]
<1> USE DEF DocInv
<1>0. Shape
  BY BoundedCount
<1>1. ASSUME NEW d \in Docs, Upload(d) \/ CreateNote(d)
      PROVE  /\ UNCHANGED <<versions, chunks>>
             /\ \A x \in Docs : status'[x] = "ready" => status[x] = "ready"
  BY <1>0, <1>1 DEF Upload, CreateNote, Shape
<1>2. ASSUME NEW d \in Docs, NEW w \in Writers, SaveResult(d, w) \/ SaveAnswerLost(d, w)
      PROVE  WritesFirst(d, w) /\ status' = [status EXCEPT ![d] = "ready"]
  BY <1>2 DEF SaveResult, SaveAnswerLost, SaveResultTx, WritesFirst
<1>3. ASSUME NEW d \in Docs, NEW w \in Writers,
             \/ StartJob(d, w) \/ ParseReturns(d, w) \/ SaveRefused(d, w)
             \/ MarkFailed(d, w) \/ MarkFailedLost(d, w)
      PROVE  /\ UNCHANGED <<versions, chunks>>
             /\ \A x \in Docs : status'[x] = "ready" => status[x] = "ready"
  BY <1>0, <1>3 DEF StartJob, ParseReturns, SaveRefused, MarkFailed, MarkFailedLost, Shape
<1>4. ASSUME NEW r \in Requests,
             \/ \E d \in Docs : \/ BeginProcess(r, d) \/ BeginDelete(r, d)
                                \/ BeginCreateVersion(r, d) \/ BeginReindex(r, d)
             \/ ReplaceBegins(r) \/ ReplaceLocks(r) \/ RequestAborts(r)
      PROVE  UNCHANGED <<versions, chunks, status>>
  BY <1>4 DEF BeginProcess, BeginDelete, BeginCreateVersion, BeginReindex, Begin,
              ReplaceBegins, ReplaceLocks, RequestAborts
<1>5. ASSUME NEW r \in Requests, CommitProcess(r) \/ CommitDelete(r)
      PROVE  /\ UNCHANGED <<versions, chunks>>
             /\ \A x \in Docs : status'[x] = "ready" => status[x] = "ready"
  BY <1>0, <1>5 DEF CommitProcess, CommitDelete, Shape
<1>6. ASSUME NEW r \in Requests, ReplaceCommits(r)
      PROVE  \/ UNCHANGED <<versions, chunks, status>>
             \/ Replaces(r) /\ status' = [status EXCEPT ![req[r].doc] = "ready"]
  BY <1>6 DEF ReplaceCommits, Replaces
<1>7. CASE Crash
  BY <1>7 DEF Crash
<1> QED
  BY <1>1, <1>2, <1>3, <1>4, <1>5, <1>6, <1>7 DEF Next, TaskStep, RequestStep

\* What is appended, and where.
LEMMA ReplaceOutcome ==
  ASSUME DocInv, NEW r \in Requests, Replaces(r)
  PROVE  LET d == req[r].doc IN
         /\ d \in Docs /\ req[r].version \in 1..Len(versions'[d])
         /\ req[r].op \in {"version", "reindex"}
         /\ Len(versions'[d]) >= Len(versions[d])
         /\ SubSeq(versions'[d], 1, Len(versions[d])) = versions[d]
         /\ \A b \in chunks[d] \ req[r].seen : b.version # req[r].version
         /\ \A x \in Docs \ {d} : versions'[x] = versions[x] /\ chunks'[x] = chunks[x]
         /\ chunks'[d] = ReplacedChunks(r)
<1> DEFINE d == req[r].doc
<1>1. Shape /\ InFlight(r)
  BY BoundedCount DEF DocInv, Replaces
<1>2. /\ d \in Docs /\ req[r].op \in {"version", "reindex"} /\ r \in Writers
      /\ versions[d] \in Seq(Writers) /\ Len(versions[d]) \in Nat
  <2>1. d \in Docs /\ req[r].op \in {"version", "reindex"} /\ r \in Writers
    BY <1>1, RequestShape DEF Replaces, Writers
  <2> QED
    BY <1>1, <2>1 DEF Shape
<1>3. CASE req[r].op = "version"
  <2>1. versions' = [versions EXCEPT ![d] = Append(versions[d], r)]
    BY <1>3 DEF Replaces
  <2>2. versions'[d] = Append(versions[d], r) /\ \A x \in Docs \ {d} : versions'[x] = versions[x]
    BY <1>1, <1>2, <2>1 DEF Shape
  <2>3. req[r].version = Len(versions[d]) + 1
    BY <1>3 DEF Replaces, Accepted
  <2>4. Len(Append(versions[d], r)) = Len(versions[d]) + 1
        /\ SubSeq(Append(versions[d], r), 1, Len(versions[d])) = versions[d]
    BY <1>2
  <2>5. \A b \in chunks[d] : b.version \in 1..Len(versions[d])
    BY <1>2 DEF DocInv, OneGenerationPerVersion
  <2> QED
    BY <1>1, <1>2, <2>2, <2>3, <2>4, <2>5 DEF Replaces, Shape
<1>4. CASE req[r].op = "reindex"
  <2>1. versions' = versions
    BY <1>4 DEF Replaces
  <2>2. req[r].version \in 1..Len(versions[d])
    BY <1>4 DEF DocInv, ReindexesSavedVersion
  <2>3. \A b \in chunks[d] \ req[r].seen : b.version # req[r].version
    BY <1>4 DEF Replaces, Accepted
  <2>4. SubSeq(versions[d], 1, Len(versions[d])) = versions[d]
    BY <1>2
  <2> QED
    BY <1>1, <1>2, <2>1, <2>2, <2>3, <2>4 DEF Replaces, Shape
<1> QED
  BY <1>2, <1>3, <1>4

\* Versions are only appended.
LEMMA StepAppends ==
  ASSUME DocInv, [Next]_vars
  PROVE  VersionsAppendOnly
<1>0. Shape
  BY BoundedCount DEF DocInv
<1>1. \A d \in Docs : Len(versions[d]) \in Nat /\ SubSeq(versions[d], 1, Len(versions[d])) = versions[d]
  BY <1>0 DEF Shape
<1>2. CASE UNCHANGED versions
  BY <1>1, <1>2 DEF VersionsAppendOnly
<1>3. ASSUME NEW d \in Docs, NEW w \in Writers, WritesFirst(d, w) PROVE VersionsAppendOnly
  <2>1. versions[d] = <<>> /\ versions'[d] = <<w>> /\ \A x \in Docs \ {d} : versions'[x] = versions[x]
    BY <1>0, <1>3 DEF WritesFirst, Shape
  <2>2. Len(<<>>) = 0 /\ Len(<<w>>) = 1 /\ SubSeq(<<w>>, 1, 0) = <<>>
    OBVIOUS
  <2> QED
    BY <1>1, <2>1, <2>2 DEF VersionsAppendOnly
<1>4. ASSUME NEW r \in Requests, Replaces(r) PROVE VersionsAppendOnly
  BY <1>1, <1>4, ReplaceOutcome DEF VersionsAppendOnly
<1> QED
  BY <1>2, <1>3, <1>4, StepOnContents DEF vars

LEMMA StepKeepsContents ==
  ASSUME DocInv, Next
  PROVE  OneGenerationPerVersion' /\ ReadyIsSearchable'
<1> USE DEF OneGenerationPerVersion, ReadyIsSearchable
<1>0. Shape /\ OneGenerationPerVersion /\ ReadyIsSearchable
  BY BoundedCount DEF DocInv
<1>1. CASE /\ UNCHANGED <<versions, chunks>>
           /\ \A d \in Docs : status'[d] = "ready" => status[d] = "ready"
  BY <1>0, <1>1
<1>2. ASSUME NEW d \in Docs, NEW w \in Writers, WritesFirst(d, w),
             status' = [status EXCEPT ![d] = "ready"]
      PROVE  OneGenerationPerVersion' /\ ReadyIsSearchable'
  <2>1. versions[d] = <<>> /\ versions'[d] = <<w>>
    BY <1>0, <1>2 DEF WritesFirst, Shape
  <2>2. chunks[d] = {}
    BY <1>0, <2>1
  <2>3. chunks'[d] = {[version |-> 1, by |-> w]}
    BY <1>0, <1>2, <2>2 DEF WritesFirst, Shape
  <2>4. \A x \in Docs \ {d} : versions'[x] = versions[x] /\ chunks'[x] = chunks[x]
    BY <1>0, <1>2 DEF WritesFirst, Shape
  <2>5. \A x \in Docs \ {d} : status'[x] = status[x]
    BY <1>0, <1>2 DEF Shape
  <2>6. Len(versions'[d]) = 1 /\ versions'[d] # <<>>
    BY <2>1
  <2>7. \A b \in chunks'[d] : b.version = 1
    BY <2>3
  <2>8. OneGenerationPerVersion'
    BY <1>0, <2>3, <2>4, <2>6, <2>7
  <2>9. ReadyIsSearchable'
    BY <1>0, <2>3, <2>4, <2>5, <2>6
  <2> QED
    BY <2>8, <2>9
<1>3. ASSUME NEW r \in Requests, Replaces(r), status' = [status EXCEPT ![req[r].doc] = "ready"]
      PROVE  OneGenerationPerVersion' /\ ReadyIsSearchable'
  <2> DEFINE d == req[r].doc
             new == [version |-> req[r].version, by |-> r]
  <2>1. /\ d \in Docs /\ req[r].version \in 1..Len(versions'[d])
        /\ Len(versions'[d]) >= Len(versions[d]) /\ Len(versions[d]) \in Nat
        /\ \A b \in chunks[d] \ req[r].seen : b.version # req[r].version
        /\ chunks'[d] = (chunks[d] \ req[r].seen) \cup {new}
    BY <1>0, <1>3, ReplaceOutcome DEF ReplacedChunks, Shape
  <2>2. \A x \in Docs \ {d} : versions'[x] = versions[x] /\ chunks'[x] = chunks[x]
                              /\ status'[x] = status[x]
    BY <1>0, <1>3, ReplaceOutcome DEF Shape
  <2>3. OneGenerationPerVersion'
    <3>1. \A b \in chunks'[d] : b.version \in 1..Len(versions'[d])
      BY <1>0, <2>1
    <3>2. \A a, b \in chunks'[d] : a.version = b.version => a = b
      BY <1>0, <2>1
    <3> QED
      BY <1>0, <2>2, <3>1, <3>2
  <2>4. versions'[d] # <<>> /\ chunks'[d] # {}
    <3>1. Len(<<>>) = 0
      OBVIOUS
    <3>2. 1..0 = {}
      OBVIOUS
    <3> QED
      BY <2>1, <3>1, <3>2
  <2> QED
    BY <1>0, <2>2, <2>3, <2>4
<1> QED
  BY <1>1, <1>2, <1>3, StepOnContents

\* A rebuilt version stays where it is, because versions are only appended.
LEMMA StepKeepsReindex ==
  ASSUME DocInv, Next
  PROVE  ReindexesSavedVersion'
<1>0. Shape /\ ReindexesSavedVersion
  BY BoundedCount DEF DocInv
<1>1. \A d \in Docs : Len(versions[d]) \in Nat /\ Len(versions'[d]) \in Nat
                      /\ Len(versions'[d]) >= Len(versions[d])
  BY <1>0, StepKeepsShape, StepAppends DEF Shape, VersionsAppendOnly
<1>2. ASSUME NEW r \in Requests, req'[r].op = "reindex"
      PROVE  \/ req[r].op = "reindex" /\ req'[r].doc = req[r].doc /\ req'[r].version = req[r].version
             \/ req'[r].doc \in Docs /\ req'[r].version \in 1..Len(versions[req'[r].doc])
  <2> USE <1>0, <1>2 DEF Shape, Unused, Done
  <2>1. CASE UNCHANGED req
    BY <2>1
  <2>2. ASSUME NEW q \in Requests, NEW d \in Docs,
               BeginProcess(q, d) \/ BeginDelete(q, d) \/ BeginCreateVersion(q, d)
        PROVE  UNCHANGED (req[r])
    BY <2>2 DEF BeginProcess, BeginDelete, BeginCreateVersion, Begin
  <2>3. ASSUME NEW q \in Requests, NEW d \in Docs, BeginReindex(q, d)
        PROVE  \/ UNCHANGED (req[r])
               \/ req'[r].doc \in Docs /\ req'[r].version \in 1..Len(versions[req'[r].doc])
    <3>1. Len(versions[d]) \in 1..Len(versions[d])
      BY <2>3 DEF BeginReindex
    <3> QED
      BY <2>3, <3>1 DEF BeginReindex, Begin
  <2>4. ASSUME NEW q \in Requests, Finish(q) PROVE UNCHANGED (req[r])
    BY <2>4 DEF Finish
  <2>5. ASSUME NEW q \in Requests, ReplaceBegins(q)
        PROVE  req[r].op = "reindex" /\ req'[r].doc = req[r].doc /\ req'[r].version = req[r].version
    BY <2>5, RequestShape DEF ReplaceBegins, Request, RequestOf
  <2>6. ASSUME NEW q \in Requests, ReplaceLocks(q)
        PROVE  req[r].op = "reindex" /\ req'[r].doc = req[r].doc /\ req'[r].version = req[r].version
    BY <2>6, RequestShape DEF ReplaceLocks, Request, RequestOf
  <2>7. CASE Crash
    BY <2>7 DEF Crash
  <2>8. ASSUME NEW d \in Docs, Upload(d) \/ CreateNote(d) \/ \E w \in Writers : TaskStep(d, w)
        PROVE  UNCHANGED req
    BY <2>8 DEF Upload, CreateNote, TaskStep, StartJob, ParseReturns, SaveResult, SaveAnswerLost,
                SaveRefused, MarkFailed, MarkFailedLost
  <2> QED
    BY <2>1, <2>2, <2>3, <2>4, <2>5, <2>6, <2>7, <2>8
    DEF Next, RequestStep, CommitProcess, CommitDelete, ReplaceCommits, RequestAborts
<1>3. \A r \in Requests : req[r].op = "reindex" => req[r].doc \in Docs
  BY <1>0, RequestShape
<1> QED
  BY <1>0, <1>1, <1>2, <1>3 DEF ReindexesSavedVersion

\* Only a creation leaves the status absent, and nothing goes back to it.
LEMMA StatusOfOthers ==
  ASSUME DocInv, Next
  PROVE  \/ \E d \in Docs : Upload(d) \/ CreateNote(d)
         \/ \A d \in Docs : /\ status'[d] = "absent" <=> status[d] = "absent"
                            /\ status[d] = "absent" =>
                                  UNCHANGED <<task[d], job[d], versions[d], chunks[d]>>
<1> SUFFICES ASSUME NEW d \in Docs, ~\E x \in Docs : Upload(x) \/ CreateNote(x)
             PROVE  /\ status'[d] = "absent" <=> status[d] = "absent"
                    /\ status[d] = "absent" => UNCHANGED <<task[d], job[d], versions[d], chunks[d]>>
  OBVIOUS
<1>0. Shape /\ AbsentIsUntouched
  BY BoundedCount DEF DocInv
<1> DEFINE Stays == /\ status'[d] = "absent" <=> status[d] = "absent"
                    /\ status[d] = "absent" =>
                          UNCHANGED <<task[d], job[d], versions[d], chunks[d]>>
<1>1. ASSUME NEW x \in Docs, NEW w \in Writers, TaskStep(x, w) PROVE Stays
  <2>1. task[x][w] # "none"
    BY <1>1 DEF TaskStep, StartJob, ParseReturns, SaveResult, SaveAnswerLost, SaveRefused,
                MarkFailed, MarkFailedLost
  <2>2. status[x] # "absent"
    BY <1>0, <2>1 DEF AbsentIsUntouched
  <2> USE DEF Shape, TaskMoves, JobEnds, SaveResultTx
  <2>3. \A y \in Docs \ {x} : UNCHANGED <<status[y], versions[y], chunks[y]>>
    BY <1>0, <1>1 DEF TaskStep, StartJob, ParseReturns, SaveResult, SaveAnswerLost, SaveRefused,
                      MarkFailed, MarkFailedLost
  <2>4. \A y \in Docs \ {x} : UNCHANGED task[y]
    BY <1>0, <1>1 DEF TaskStep, StartJob, ParseReturns, SaveResult, SaveAnswerLost, SaveRefused,
                      MarkFailed, MarkFailedLost
  <2>5. \A y \in Docs \ {x} : UNCHANGED job[y]
    BY <1>0, <1>1 DEF TaskStep, StartJob, ParseReturns, SaveResult, SaveAnswerLost, SaveRefused,
                      MarkFailed, MarkFailedLost
  <2>6. status'[x] # "absent"
    BY <1>0, <1>1, <2>2 DEF TaskStep, StartJob, ParseReturns, SaveResult, SaveAnswerLost,
                            SaveRefused, MarkFailed, MarkFailedLost
  <2> QED
    BY <2>2, <2>3, <2>4, <2>5, <2>6
<1>2. ASSUME NEW r \in Requests, InFlight(r) PROVE status[req[r].doc] # "absent" /\ req[r].doc \in Docs
  BY <1>0, <1>2, RequestShape DEF AbsentIsUntouched
<1>3. ASSUME NEW r \in Requests, CommitProcess(r) PROVE Stays
  <2>1. InFlight(r)
    BY <1>0, <1>3, RequestShape DEF CommitProcess
  <2> QED
    BY <1>0, <1>2, <1>3, <2>1 DEF CommitProcess, Shape
<1>4. ASSUME NEW r \in Requests, CommitDelete(r) PROVE Stays
  <2>1. InFlight(r)
    BY <1>0, <1>4, RequestShape DEF CommitDelete
  <2> QED
    BY <1>0, <1>2, <1>4, <2>1 DEF CommitDelete, Shape
<1>5. ASSUME NEW r \in Requests, ReplaceCommits(r) PROVE Stays
  BY <1>0, <1>2, <1>5 DEF ReplaceCommits, Shape
<1>6. ASSUME NEW r \in Requests,
             \/ \E x \in Docs : \/ BeginProcess(r, x) \/ BeginDelete(r, x)
                                \/ BeginCreateVersion(r, x) \/ BeginReindex(r, x)
             \/ ReplaceBegins(r) \/ ReplaceLocks(r) \/ RequestAborts(r)
      PROVE  Stays
  BY <1>6 DEF BeginProcess, BeginDelete, BeginCreateVersion, BeginReindex, Begin,
              ReplaceBegins, ReplaceLocks, RequestAborts
<1>7. CASE Crash
  BY <1>0, <1>7 DEF Crash, AbsentIsUntouched, Shape
<1> QED
  BY <1>1, <1>3, <1>4, <1>5, <1>6, <1>7 DEF Next, RequestStep

\* A request that a step leaves in flight was in flight for the same document,
\* or has just found its document stored and not deleted.
LEMMA FlightsOfStored ==
  ASSUME DocInv, Next, NEW r \in Requests, InFlight(r)'
  PROVE  \/ InFlight(r) /\ req'[r].doc = req[r].doc
         \/ req'[r].doc \in Docs /\ status[req'[r].doc] \notin {"absent", "deleted"}
<1>0. Shape
  BY BoundedCount DEF DocInv
<1> USE <1>0 DEF Shape, InFlight
<1>1. ASSUME NEW q \in Requests, NEW d \in Docs, NEW o, NEW ph, NEW n,
             Begin(q, o, d, ph, n), status[d] \notin {"absent", "deleted"}
      PROVE  \/ InFlight(r) /\ req'[r].doc = req[r].doc
             \/ req'[r].doc \in Docs /\ status[req'[r].doc] \notin {"absent", "deleted"}
  BY <1>1 DEF Begin
<1>2. ASSUME NEW q \in Requests, NEW d \in Docs,
             BeginProcess(q, d) \/ BeginDelete(q, d) \/ BeginCreateVersion(q, d) \/ BeginReindex(q, d)
      PROVE  \/ InFlight(r) /\ req'[r].doc = req[r].doc
             \/ req'[r].doc \in Docs /\ status[req'[r].doc] \notin {"absent", "deleted"}
  BY <1>1, <1>2 DEF BeginProcess, BeginDelete, BeginCreateVersion, BeginReindex
<1>3. ASSUME NEW q \in Requests, Finish(q) PROVE InFlight(r) /\ req'[r].doc = req[r].doc
  BY <1>3 DEF Finish
<1>4. ASSUME NEW q \in Requests, ReplaceBegins(q) \/ ReplaceLocks(q)
      PROVE  InFlight(r) /\ req'[r].doc = req[r].doc
  <2>1. req[q] \in Request /\ InFlight(q)
    BY <1>4, RequestShape DEF ReplaceBegins, ReplaceLocks
  <2>2. req'[q].doc = req[q].doc /\ \A x \in Requests \ {q} : req'[x] = req[x]
    <3>1. CASE ReplaceBegins(q)
      BY <2>1, <3>1 DEF ReplaceBegins, Request, RequestOf
    <3>2. CASE ReplaceLocks(q)
      BY <2>1, <3>2 DEF ReplaceLocks, Request, RequestOf
    <3> QED
      BY <1>4, <3>1, <3>2
  <2> QED
    BY <2>1, <2>2
<1>5. CASE Crash
  BY <1>5 DEF Crash
<1>6. CASE UNCHANGED req
  BY <1>6
<1>7. ASSUME NEW d \in Docs, Upload(d) \/ CreateNote(d) \/ \E w \in Writers : TaskStep(d, w)
      PROVE  UNCHANGED req
  BY <1>7 DEF Upload, CreateNote, TaskStep, StartJob, ParseReturns, SaveResult, SaveAnswerLost,
              SaveRefused, MarkFailed, MarkFailedLost
<1> QED
  BY <1>2, <1>3, <1>4, <1>5, <1>6, <1>7
  DEF Next, RequestStep, CommitProcess, CommitDelete, ReplaceCommits, RequestAborts

LEMMA StepKeepsAbsent == DocInv /\ Next => AbsentIsUntouched'
<1> SUFFICES ASSUME DocInv, Next PROVE AbsentIsUntouched'
  OBVIOUS
<1>0. Shape /\ AbsentIsUntouched
  BY BoundedCount DEF DocInv
<1>1. \A d \in Docs : status'[d] = "absent" =>
         /\ status[d] = "absent"
         /\ UNCHANGED <<task[d], job[d], versions[d], chunks[d]>>
  <2>1. ASSUME NEW d \in Docs, Upload(d) \/ CreateNote(d), NEW x \in Docs, status'[x] = "absent"
        PROVE  x # d /\ UNCHANGED <<status[x], task[x], job[x], versions[x], chunks[x]>>
    <3>1. CASE Upload(d)
      BY <1>0, <2>1, <3>1 DEF Upload, Shape
    <3>2. CASE CreateNote(d)
      BY <1>0, <2>1, <3>2 DEF CreateNote, Shape
    <3> QED
      BY <2>1, <3>1, <3>2
  <2> QED
    BY <2>1, StatusOfOthers
<1>2. \A r \in Requests : InFlight(r) => req[r].doc \in Docs
  BY <1>0, RequestShape
<1>3. \A r \in Requests : InFlight(r)' => req'[r].doc \in Docs /\ status[req'[r].doc] # "absent"
  BY <1>0, <1>2, FlightsOfStored DEF AbsentIsUntouched
<1> QED
  BY <1>0, <1>1, <1>3 DEF AbsentIsUntouched

-----------------------------------------------------------------------------
(***************************************************************************)
(* The count of documents.                                                 *)
(***************************************************************************)
Counted == {d \in Docs : status[d] \notin {"absent", "deleted"}}

LEMMA CountedIsFinite ==
  /\ IsFiniteSet(Counted) /\ Cardinality(Counted) \in Nat
  /\ IsFiniteSet(Counted') /\ Cardinality(Counted') \in Nat
<1>1. Counted \subseteq Docs /\ Counted' \subseteq Docs
  BY DEF Counted
<1> QED
  BY <1>1, LifecycleAssumption, FS_Subset, FS_CardinalityType

\* The set grows with every creation, and a deletion takes at most one out of it.
LEMMA StepKeepsCount == DocInv /\ Next => CountNeverAhead'
<1> SUFFICES ASSUME DocInv, Next PROVE CountNeverAhead'
  OBVIOUS
<1>0. Shape /\ kbCount <= Cardinality(Counted)
  BY BoundedCount DEF DocInv, CountNeverAhead, Counted
<1>1. SUFFICES kbCount' <= Cardinality(Counted')
  BY DEF CountNeverAhead, Counted
<1>2. ASSUME kbCount' = kbCount, Counted \subseteq Counted' PROVE kbCount' <= Cardinality(Counted')
  <2>1. Cardinality(Counted) <= Cardinality(Counted')
    BY <1>2, CountedIsFinite, FS_Subset
  <2> QED
    BY <1>0, <1>2, <2>1, CountedIsFinite DEF Shape
<1>3. ASSUME NEW d \in Docs, Upload(d) \/ CreateNote(d) PROVE kbCount' <= Cardinality(Counted')
  <2>1. Counted' = Counted \cup {d} /\ d \notin Counted /\ kbCount' = kbCount + 1
    <3>1. status[d] = "absent" /\ status' = [status EXCEPT ![d] = "processing"]
      BY <1>3 DEF Upload, CreateNote
    <3> QED
      BY <1>0, <1>3, <3>1 DEF Upload, CreateNote, Counted, Shape
  <2>2. Cardinality(Counted') = Cardinality(Counted) + 1
    BY <2>1, CountedIsFinite, FS_AddElement
  <2> QED
    BY <1>0, <2>1, <2>2, CountedIsFinite DEF Shape
<1>4. ASSUME NEW r \in Requests, CommitDelete(r) PROVE kbCount' <= Cardinality(Counted')
  <2> DEFINE d == req[r].doc
  <2>1. /\ Counted \ {d} \subseteq Counted'
        /\ kbCount' = IF kbCount > 0 THEN kbCount - 1 ELSE 0
    BY <1>0, <1>4 DEF CommitDelete, Counted, Shape
  <2>2. /\ IsFiniteSet(Counted \ {d}) /\ Cardinality(Counted \ {d}) \in Nat
        /\ Cardinality(Counted \ {d}) >= Cardinality(Counted) - 1
    <3>1. /\ IsFiniteSet(Counted \ {d})
          /\ Cardinality(Counted \ {d})
                = IF d \in Counted THEN Cardinality(Counted) - 1 ELSE Cardinality(Counted)
      BY CountedIsFinite, FS_RemoveElement, Zenon
    <3>2. Cardinality(Counted \ {d}) \in Nat
      BY <3>1, FS_CardinalityType
    <3> HIDE DEF d
    <3> QED
      BY <3>1, <3>2, CountedIsFinite
  <2>3. Cardinality(Counted \ {d}) <= Cardinality(Counted')
    BY <2>1, CountedIsFinite, FS_Subset
  <2> QED
    BY <1>0, <2>1, <2>2, <2>3, CountedIsFinite DEF Shape
<1>5. ASSUME NEW d \in Docs, NEW w \in Writers, TaskStep(d, w)
      PROVE  kbCount' = kbCount /\ Counted \subseteq Counted'
  BY <1>0, <1>5 DEF TaskStep, StartJob, ParseReturns, SaveResult, SaveAnswerLost, SaveRefused,
                    MarkFailed, MarkFailedLost, SaveResultTx, Counted, Shape
<1>6. ASSUME NEW r \in Requests,
             \/ \E d \in Docs : \/ BeginProcess(r, d) \/ BeginDelete(r, d)
                                \/ BeginCreateVersion(r, d) \/ BeginReindex(r, d)
             \/ CommitProcess(r) \/ ReplaceBegins(r) \/ ReplaceLocks(r) \/ ReplaceCommits(r)
             \/ RequestAborts(r)
      PROVE  kbCount' = kbCount /\ Counted \subseteq Counted'
  BY <1>0, <1>6 DEF BeginProcess, BeginDelete, BeginCreateVersion, BeginReindex, Begin, CommitProcess,
                    ReplaceBegins, ReplaceLocks, ReplaceCommits, RequestAborts, Counted, Shape
<1>7. CASE Crash
  BY <1>2, <1>7 DEF Crash, Counted
<1> QED
  BY <1>2, <1>3, <1>4, <1>5, <1>6, <1>7 DEF Next, RequestStep

-----------------------------------------------------------------------------
LEMMA StepKeepsDocInv == DocInv /\ [Next]_vars => DocInv'
<1> SUFFICES ASSUME DocInv, [Next]_vars PROVE DocInv'
  OBVIOUS
<1>1. CASE Next
  <2>1. Shape' /\ CountNeverAhead' => TypeOK'
    BY BoundedCount, PTL
  <2> QED
    BY <1>1, <2>1, StepKeepsShape, StepKeepsJobs, StepKeepsContents, StepKeepsReindex,
       StepKeepsAbsent, StepKeepsCount DEF DocInv, JobsAgree
<1>2. CASE UNCHANGED vars
  BY <1>2 DEF vars, DocInv, TypeOK, OneActiveJob, OneJobAtWork, FailedIsIdle, AbsentIsUntouched,
              ReindexesSavedVersion, OneGenerationPerVersion, ReadyIsSearchable, CountNeverAhead,
              Active, InFlight
<1> QED
  BY <1>1, <1>2

\* Every begin but a manual retry's asks for a status that is not deleted, and
\* so do the upload and the note: a deleted document at rest is left alone.
LEMMA QuietStays ==
  ASSUME DocInv, [Next]_vars
  PROVE  QuietDeletionIsFinal
<1> SUFFICES ASSUME NEW d \in Docs, status[d] = "deleted", ~AtWork(d)
             PROVE  status'[d] = "deleted" /\ ~(AtWork(d)')
  BY DEF QuietDeletionIsFinal
<1>0. Shape
  BY BoundedCount DEF DocInv
<1>1. /\ \A w \in Writers : task[d][w] = "none"
      /\ \A r \in Requests : InFlight(r) => req[r].doc # d
  BY DEF AtWork
<1>2. CASE UNCHANGED vars
  BY <1>2 DEF vars, AtWork, InFlight
<1>3. CASE Next
  <2>1. ASSUME NEW x \in Docs, Upload(x) \/ CreateNote(x)
        PROVE  x # d /\ UNCHANGED <<status[d], task[d]>>
    <3>1. x # d
      BY <2>1 DEF Upload, CreateNote
    <3> QED
      BY <1>0, <2>1, <3>1 DEF Upload, CreateNote, Shape
  <2>2. ASSUME NEW x \in Docs, NEW w \in Writers, TaskStep(x, w)
        PROVE  UNCHANGED <<status[d], task[d]>>
    <3>1. x # d
      BY <1>1, <2>2 DEF TaskStep, StartJob, ParseReturns, SaveResult, SaveAnswerLost, SaveRefused,
                        MarkFailed, MarkFailedLost
    <3> QED
      BY <1>0, <2>2, <3>1
      DEF TaskStep, StartJob, ParseReturns, SaveResult, SaveAnswerLost, SaveRefused, MarkFailed,
          MarkFailedLost, SaveResultTx, TaskMoves, Shape
  <2>3. ASSUME NEW r \in Requests, CommitProcess(r) \/ CommitDelete(r) \/ ReplaceCommits(r)
        PROVE  UNCHANGED <<status[d], task[d]>>
    <3>1. InFlight(r)
      BY <1>0, <2>3, RequestShape DEF CommitProcess, CommitDelete, ReplaceCommits
    <3>2. req[r].doc # d
      BY <1>1, <3>1
    <3> QED
      BY <1>0, <2>3, <3>2 DEF CommitProcess, CommitDelete, ReplaceCommits, Shape
  <2>4. ASSUME NEW r \in Requests,
               \/ \E x \in Docs : \/ BeginProcess(r, x) \/ BeginDelete(r, x)
                                  \/ BeginCreateVersion(r, x) \/ BeginReindex(r, x)
               \/ ReplaceBegins(r) \/ ReplaceLocks(r) \/ RequestAborts(r)
        PROVE  UNCHANGED <<status[d], task[d]>>
    BY <2>4 DEF BeginProcess, BeginDelete, BeginCreateVersion, BeginReindex, Begin,
                ReplaceBegins, ReplaceLocks, RequestAborts
  <2>5. ASSUME Crash PROVE status'[d] = status[d] /\ \A w \in Writers : task'[d][w] = "none"
    BY <2>5 DEF Crash
  <2>6. status'[d] = "deleted" /\ \A w \in Writers : task'[d][w] = "none"
    BY <1>1, <1>3, <2>1, <2>2, <2>3, <2>4, <2>5 DEF Next, RequestStep
  <2>7. \A r \in Requests : InFlight(r)' => req'[r].doc # d
    BY <1>1, <1>3, FlightsOfStored
  <2> QED
    BY <2>6, <2>7 DEF AtWork
<1> QED
  BY <1>2, <1>3

-----------------------------------------------------------------------------
(***************************************************************************)
(* The theorems.                                                           *)
(***************************************************************************)

\* In every state a document has at most one job under way, every version at most
\* one generation of chunks and every ready document something to retrieve, and
\* the knowledge base counts no document that is gone: whatever uploads, retries,
\* edits, deletions and crashes race (document_service.go).
THEOREM DocumentsAgree == Spec => []DocInv
<1> QED
  BY InitEstablishesDocInv, StepKeepsDocInv, PTL DEF Spec

\* Saved versions are never changed, renumbered or removed, and a deletion that
\* found no work under way is final.
THEOREM DocumentHistory == Spec => [][VersionsAppendOnly /\ QuietDeletionIsFinal]_vars
<1>1. DocInv /\ [Next]_vars => VersionsAppendOnly /\ QuietDeletionIsFinal
  BY StepAppends, QuietStays
<1> QED
  BY <1>1, DocumentsAgree, PTL DEF Spec

-----------------------------------------------------------------------------
(***************************************************************************)
(* Plans.                                                                  *)
(***************************************************************************)

PlanTask == [status : TaskStatuses, deps : SUBSET Tasks, job : Jobs, added : Nat]

Parts == DeepTypeOK /\ ResultsMatch /\ BatchAtWork /\ CallsBelong /\ DependenciesFirst

\* A step that only changes how far the tasks of S got.
Moves(S, s) ==
    /\ plan' \in [Tasks -> PlanTask]
    /\ \A u \in Tasks : /\ plan'[u].status = IF u \in S THEN s ELSE plan[u].status
                        /\ plan'[u].deps = plan[u].deps /\ plan'[u].job = plan[u].job
                        /\ u \notin S => plan'[u] = plan[u]

-----------------------------------------------------------------------------
(***************************************************************************)
(* Ancestors.                                                              *)
(***************************************************************************)

\* They hold the dependencies, are closed, and are in every such set.
LEMMA AncestorsClosed ==
  ASSUME NEW pl \in [Tasks -> PlanTask], NEW t \in Tasks
  PROVE  /\ Ancestors(pl, t) \subseteq Tasks
         /\ pl[t].deps \subseteq Ancestors(pl, t)
         /\ Closed(pl, Ancestors(pl, t))
<1> DEFINE A == Ancestors(pl, t)
<1>1. A \subseteq Tasks
  BY DEF Ancestors
<1>2. \A x \in Tasks : pl[x].deps \subseteq Tasks
  BY DEF PlanTask
<1>3. pl[t].deps \subseteq A
  BY <1>2 DEF Ancestors
<1>4. ASSUME NEW d \in A, NEW x \in pl[d].deps PROVE x \in A
  <2>1. x \in Tasks
    BY <1>1, <1>2, <1>4
  <2>2. ASSUME NEW S \in SUBSET Tasks, pl[t].deps \subseteq S, Closed(pl, S) PROVE x \in S
    BY <1>4, <2>2 DEF Ancestors, Closed
  <2> QED
    BY <2>1, <2>2 DEF Ancestors
<1> QED
  BY <1>1, <1>3, <1>4 DEF Closed

LEMMA AncestorsLeast ==
  ASSUME NEW pl, NEW t, NEW S \in SUBSET Tasks, pl[t].deps \subseteq S, Closed(pl, S)
  PROVE  Ancestors(pl, t) \subseteq S
BY DEF Ancestors

\* Only the dependencies of a task and of its ancestors matter.
LEMMA AncestorsAgree ==
  ASSUME NEW pl \in [Tasks -> PlanTask], NEW pm \in [Tasks -> PlanTask], NEW t \in Tasks,
         \A x \in Ancestors(pl, t) \cup {t} : pm[x].deps = pl[x].deps
  PROVE  Ancestors(pm, t) = Ancestors(pl, t)
<1> DEFINE A == Ancestors(pl, t)
           B == Ancestors(pm, t)
<1>1. A \subseteq Tasks /\ pl[t].deps \subseteq A /\ Closed(pl, A)
  BY AncestorsClosed
<1>2. B \subseteq Tasks /\ pm[t].deps \subseteq B /\ Closed(pm, B)
  BY AncestorsClosed
<1>3. B \subseteq A
  <2>1. pm[t].deps \subseteq A /\ Closed(pm, A)
    BY <1>1 DEF Closed
  <2> QED
    BY <1>1, <2>1, AncestorsLeast
<1>4. A \subseteq B
  <2>1. pl[t].deps \subseteq B /\ Closed(pl, B)
    BY <1>2, <1>3 DEF Closed
  <2> QED
    BY <1>2, <2>1, AncestorsLeast
<1> QED
  BY <1>3, <1>4

-----------------------------------------------------------------------------
(***************************************************************************)
(* What a step does to the plan.                                           *)
(***************************************************************************)

LEMMA StatusesMove ==
  ASSUME DeepTypeOK, NEW S \in SUBSET Tasks, NEW s \in TaskStatuses,
         plan' = [u \in Tasks |-> IF u \in S THEN [plan[u] EXCEPT !.status = s] ELSE plan[u]]
  PROVE  Moves(S, s)
<1>1. plan \in [Tasks -> PlanTask]
  BY DEF DeepTypeOK, PlanTask
<1>2. \A u \in Tasks : [plan[u] EXCEPT !.status = s] \in PlanTask
  BY <1>1 DEF PlanTask
<1> QED
  BY <1>1, <1>2 DEF Moves, PlanTask

LEMMA StatusMoves ==
  ASSUME DeepTypeOK, NEW t \in Tasks, NEW s \in TaskStatuses, plan' = [plan EXCEPT ![t].status = s]
  PROVE  Moves({t}, s)
<1>1. plan' = [u \in Tasks |-> IF u \in {t} THEN [plan[u] EXCEPT !.status = s] ELSE plan[u]]
  BY DEF DeepTypeOK
<1> QED
  BY <1>1, StatusesMove

LEMMA NothingMoves ==
  ASSUME DeepTypeOK, UNCHANGED plan
  PROVE  Moves({}, "canceled")
BY DEF DeepTypeOK, PlanTask, Moves

Unfinished == {t \in Tasks : plan[t].status \in {"pending", "running", "waiting"}}

LEMMA PlanFails ==
  ASSUME DeepTypeOK, FailPlan
  PROVE  Moves(Unfinished, "canceled")
<1>1. plan' = [t \in Tasks |-> IF t \in Unfinished
                               THEN [plan[t] EXCEPT !.status = "canceled"] ELSE plan[t]]
  BY DEF FailPlan, Unfinished
<1> QED
  BY <1>1, StatusesMove DEF Unfinished, TaskStatuses

Waiting == {u \in batch : results[u] = "waiting"}

LEMMA WaitingResume ==
  ASSUME DeepTypeOK, NEW t \in Tasks, NEW c \in Calls, NEW approved \in BOOLEAN,
         Resume(t, c, approved)
  PROVE  Moves(Waiting, "running")
<1>1. plan' = [u \in Tasks |-> IF u \in Waiting
                               THEN [plan[u] EXCEPT !.status = "running"] ELSE plan[u]]
  BY DEF Resume, Waiting
<1>2. Waiting \in SUBSET Tasks
  BY DEF Waiting, DeepTypeOK
<1> QED
  BY <1>1, <1>2, StatusesMove DEF TaskStatuses

\* Then every task is handed what it was handed before.
LEMMA PlacesKept ==
  ASSUME DeepTypeOK, NEW S \in SUBSET Known(plan), NEW s \in TaskStatuses \ {"absent", "pending"}, Moves(S, s)
  PROVE  /\ Known(plan') = Known(plan) /\ Research(plan') = Research(plan)
         /\ Syntheses(plan') = Syntheses(plan)
         /\ \A t \in Tasks : Ancestors(plan', t) = Ancestors(plan, t) /\ Inputs(t)' = Inputs(t)
<1> USE DEF Moves
<1>1. plan \in [Tasks -> PlanTask]
  BY DEF DeepTypeOK, PlanTask
<1>2. Known(plan') = Known(plan)
  BY DEF Known
<1>3. Syntheses(plan') = Syntheses(plan) /\ Research(plan') = Research(plan)
  BY <1>2 DEF Known, Syntheses, Research
<1>4. \A t \in Tasks : Ancestors(plan', t) = Ancestors(plan, t)
  BY <1>1, AncestorsAgree, AncestorsClosed
<1> QED
  BY <1>2, <1>3, <1>4 DEF Inputs

\* A plan is installed when nothing runs: what began has ended, and keeps its
\* place; the rest is pending, canceled or still absent.
LEMMA Installed ==
  ASSUME Parts, NEW p \in Proposals, NEW s \in DOMAIN p, InstallPlan(p, s)
  PROVE  /\ plan' \in [Tasks -> PlanTask]
         /\ \A t \in Tasks :
               /\ Begun(t) => Finished(plan[t].status) /\ plan'[t] = plan[t]
               /\ ~Begun(t) => /\ plan'[t].status \in {"absent", "pending", "canceled"}
                               /\ plan'[t].status = "absent" => plan[t].status = "absent"
         /\ s \in Tasks /\ plan'[s].job \in Synthesis
         /\ \A t \in Tasks \ {s} : plan'[t] = Merged(p)[t]
         /\ plan'[s].job = Merged(p)[s].job /\ plan'[s].status = Merged(p)[s].status
<1> DEFINE m == Merged(p)
<1>0. /\ DOMAIN p \subseteq Tasks /\ s \in Tasks
      /\ \A t \in DOMAIN p : p[t].deps \in SUBSET Tasks /\ p[t].job \in Jobs
  BY DeepAssumption
<1>1. plan \in [Tasks -> PlanTask] /\ version \in Nat
  BY DEF Parts, DeepTypeOK, PlanTask
<1>2. \A t \in Tasks : plan[t].status \notin {"running", "waiting"}
  BY DEF InstallPlan, Parts, BatchAtWork
<1>3. \A t \in Tasks : Begun(t) <=> Finished(plan[t].status)
  BY <1>1, <1>2 DEF Begun, Finished, PlanTask, TaskStatuses
<1> DEFINE since(t) == IF plan[t].status = "absent" THEN version + 1 ELSE plan[t].added
<1>4. ASSUME NEW t \in Tasks
      PROVE  /\ t \in DOMAIN p /\ ~Finished(plan[t].status) =>
                  m[t] = [status |-> "pending", deps |-> p[t].deps, job |-> p[t].job,
                          added |-> since(t)]
             /\ ~(t \in DOMAIN p /\ ~Finished(plan[t].status)) =>
                  m[t] = IF plan[t].status = "pending"
                         THEN [plan[t] EXCEPT !.status = "canceled"] ELSE plan[t]
  BY DEF Merged
<1> HIDE DEF m
<1>5. m \in [Tasks -> PlanTask]
  <2>1. ASSUME NEW t \in Tasks PROVE m[t] \in PlanTask
    <3>1. /\ plan[t].added \in Nat /\ plan[t].deps \in SUBSET Tasks /\ plan[t].job \in Jobs
          /\ plan[t] \in PlanTask /\ since(t) \in Nat
      BY <1>1 DEF PlanTask
    <3>2. [plan[t] EXCEPT !.status = "canceled"] \in PlanTask
      BY <3>1 DEF PlanTask, TaskStatuses
    <3> HIDE DEF since
    <3>3. CASE t \in DOMAIN p /\ ~Finished(plan[t].status)
      <4>1. m[t] = [status |-> "pending", deps |-> p[t].deps, job |-> p[t].job, added |-> since(t)]
        BY <1>4, <3>3
      <4> QED
        BY <1>0, <3>1, <3>3, <4>1 DEF PlanTask, TaskStatuses
    <3>4. CASE ~(t \in DOMAIN p /\ ~Finished(plan[t].status))
      BY <1>4, <3>1, <3>2, <3>4
    <3> QED
      BY <3>3, <3>4
  <2> QED
    BY <2>1 DEF m, Merged
<1>6. \A t \in Tasks : Begun(t) => m[t] = plan[t]
  BY <1>3, <1>4 DEF Finished
<1>7. \A t \in Tasks : ~Begun(t) =>
         /\ m[t].status \in {"absent", "pending", "canceled"}
         /\ m[t].status = "absent" => plan[t].status = "absent"
  <2> SUFFICES ASSUME NEW t \in Tasks, ~Begun(t)
               PROVE  /\ m[t].status \in {"absent", "pending", "canceled"}
                      /\ m[t].status = "absent" => plan[t].status = "absent"
    OBVIOUS
  <2>1. ~Finished(plan[t].status) /\ plan[t].status \in {"absent", "pending"}
        /\ plan[t] \in PlanTask
    BY <1>1, <1>3 DEF Begun
  <2>2. CASE t \in DOMAIN p
    <3>1. m[t] = [status |-> "pending", deps |-> p[t].deps, job |-> p[t].job, added |-> since(t)]
      BY <1>4, <2>1, <2>2
    <3> QED
      BY <3>1
  <2>3. CASE t \notin DOMAIN p /\ plan[t].status = "pending"
    BY <1>4, <2>1, <2>3 DEF PlanTask
  <2>4. CASE t \notin DOMAIN p /\ plan[t].status = "absent"
    BY <1>4, <2>1, <2>4
  <2> QED
    BY <2>1, <2>2, <2>3, <2>4
<1>8. m[s].job \in Synthesis
  BY DEF m, InstallPlan, LatestSyntheses, Syntheses
<1>9. plan' = Completed(m, s)
  BY DEF m, InstallPlan
<1>10. CASE plan' = m
  BY <1>0, <1>3, <1>5, <1>6, <1>7, <1>8, <1>10 DEF m
<1>11. CASE m[s].status = "pending" /\
            plan' = [m EXCEPT ![s].deps =
                       @ \cup {t \in Research(m) : Live(m, t) /\ t \notin Ancestors(m, s)}]
  <2> DEFINE more == {t \in Research(m) : Live(m, t) /\ t \notin Ancestors(m, s)}
  <2>1. more \subseteq Tasks
    BY DEF Research, Known
  <2>2. plan' = [m EXCEPT ![s] = [m[s] EXCEPT !.deps = m[s].deps \cup more]]
    BY <1>11
  <2> HIDE DEF more
  <2>3. [m[s] EXCEPT !.deps = m[s].deps \cup more] \in PlanTask
    BY <1>0, <1>5, <2>1 DEF PlanTask
  <2>4. ~Begun(s)
    BY <1>0, <1>3, <1>6, <1>11 DEF Finished
  <2> QED
    BY <1>0, <1>3, <1>5, <1>6, <1>7, <1>8, <1>11, <2>2, <2>3, <2>4 DEF m, PlanTask
<1> QED
  BY <1>9, <1>10, <1>11 DEF m, Completed

-----------------------------------------------------------------------------
(***************************************************************************)
(* The steps, by what they do to the plan.                                 *)
(***************************************************************************)

\* Every step but an installation.
LEMMA StepMoves ==
  ASSUME Parts, DeepNext
  PROVE  \/ \E p \in Proposals : \E s \in DOMAIN p : InstallPlan(p, s)
         \/ \E S \in SUBSET Known(plan), s \in TaskStatuses \ {"absent", "pending"} : Moves(S, s)
<1> USE DEF Parts
<1> DEFINE Some == \E S \in SUBSET Known(plan), s \in TaskStatuses \ {"absent", "pending"} : Moves(S, s)
<1>1. ASSUME UNCHANGED plan PROVE Some
  <2>1. Moves({}, "canceled") /\ {} \in SUBSET Known(plan) /\ "canceled" \in TaskStatuses \ {"absent", "pending"}
    BY <1>1, NothingMoves DEF TaskStatuses
  <2> QED
    BY <2>1
<1>2. ASSUME FailPlan PROVE Some
  <2>1. Moves(Unfinished, "canceled") /\ Unfinished \in SUBSET Known(plan)
        /\ "canceled" \in TaskStatuses \ {"absent", "pending"}
    BY <1>2, PlanFails DEF Unfinished, Known, TaskStatuses
  <2> QED
    BY <2>1
<1>3. ASSUME NEW t \in Tasks, plan[t].status # "absent", NEW s \in TaskStatuses \ {"absent", "pending"},
             plan' = [plan EXCEPT ![t].status = s]
      PROVE  Some
  <2>1. Moves({t}, s) /\ {t} \in SUBSET Known(plan)
    BY <1>3, StatusMoves DEF Known
  <2> QED
    BY <2>1
<1>4. ASSUME NEW t \in Tasks, StartTask(t) PROVE Some
  <2>1. plan[t].status # "absent" /\ "running" \in TaskStatuses \ {"absent", "pending"}
    BY <1>4 DEF StartTask, BatchAtWork, TaskStatuses
  <2> QED
    BY <1>3, <1>4, <2>1 DEF StartTask
<1>5. ASSUME NEW t \in Tasks, TaskWaits(t) \/ TaskEnds(t) \/ TaskBreaks(t) PROVE Some
  <2>1. plan[t].status # "absent"
    BY <1>5 DEF TaskWaits, TaskEnds, TaskBreaks, Working
  <2>2. \E s \in TaskStatuses \ {"absent", "pending"} : plan' = [plan EXCEPT ![t].status = s]
    BY <1>5 DEF TaskWaits, TaskEnds, TaskBreaks, SetResult, OutcomesOf, TaskStatuses
  <2> QED
    BY <1>3, <2>1, <2>2
<1>6. ASSUME NEW t \in Tasks, NEW c \in Calls, NEW approved \in BOOLEAN, Resume(t, c, approved)
      PROVE  Some
  <2>1. Waiting \in SUBSET Known(plan)
    BY <1>6 DEF Resume, Waiting, Known, BatchAtWork, DeepTypeOK
  <2>2. Moves(Waiting, "running") /\ "running" \in TaskStatuses \ {"absent", "pending"}
    BY <1>6, WaitingResume DEF TaskStatuses
  <2> QED
    BY <2>1, <2>2
<1> QED
  BY <1>1, <1>2, <1>4, <1>5, <1>6
  DEF DeepNext, PlannerStep, DeepTaskStep, Respond, RunFails, BeginBatch, RoundsExhausted, EndBatch,
      Cancel, RunCall, CallReturns, CallTools, ReadFails, planVars

-----------------------------------------------------------------------------
(***************************************************************************)
(* The shape of the state.                                                 *)
(***************************************************************************)
Facts == [retryUsed : BOOLEAN, denied : BOOLEAN, blocked : BOOLEAN,
          unsafe : SUBSET Tasks, failures : SUBSET Tasks]

\* What is recorded of a task, in its terms.
Recorded == \A t \in Tasks : /\ t \in facts.unsafe => plan[t].job \in Operations
                             /\ t \in facts.failures => t \in Research(plan)

PlanShape ==
    /\ plan \in [Tasks -> PlanTask]
    /\ version \in Nat /\ round \in 0..MaxRounds /\ parallel \in BOOLEAN
    /\ phase \in Ended \cup {"planning", "planned", "executing", "waiting", "replanning"}
    /\ batch \subseteq Tasks
    /\ results \in [Tasks -> {"none", "waiting", "success", "error"}]
    /\ facts \in Facts
    /\ calls \in [Tasks -> [Calls -> {"none", "open", "asking", "running", "done"}]]
    /\ answer = NoAnswer \/ answer \in [task : Tasks, call : Calls, approved : BOOLEAN]
    /\ fatal \in BOOLEAN
    /\ given \in [Tasks -> SUBSET Tasks]

LEMMA TypeIsPlanShape == DeepTypeOK <=> PlanShape /\ Recorded
<1>1. Research(plan) \subseteq Tasks
  BY DEF Research, Known
<1>2. ASSUME DeepTypeOK PROVE PlanShape /\ Recorded
  <2>1. facts \in Facts
    BY <1>1, <1>2 DEF DeepTypeOK, Facts
  <2>2. Recorded
    BY <1>2 DEF DeepTypeOK, Recorded
  <2> QED
    BY <1>2, <2>1, <2>2 DEF DeepTypeOK, PlanShape, PlanTask
<1>3. ASSUME PlanShape, Recorded PROVE DeepTypeOK
  <2>1. facts \in [retryUsed : BOOLEAN, denied : BOOLEAN, blocked : BOOLEAN,
                   unsafe : SUBSET Tasks, failures : SUBSET Research(plan)]
    <3>1. facts \in Facts /\ facts.failures \subseteq Research(plan)
      BY <1>3 DEF PlanShape, Recorded, Facts
    <3> QED
      BY <3>1 DEF Facts
  <2>2. \A t \in facts.unsafe : plan[t].job \in Operations
    BY <1>3 DEF PlanShape, Recorded, Facts
  <2> QED
    BY <1>3, <2>1, <2>2 DEF DeepTypeOK, PlanShape, PlanTask
<1> QED
  BY <1>2, <1>3

LEMMA InitEstablishesDeepInv == DeepInit => DeepInv
<1> SUFFICES ASSUME DeepInit PROVE DeepInv
  OBVIOUS
<1> USE DEF DeepInit
<1>1. NoTask \in PlanTask /\ NoTask.status = "absent"
  <2>1. (CHOOSE j \in Jobs : TRUE) \in Jobs
    BY DeepAssumption
  <2> QED
    BY <2>1 DEF NoTask, PlanTask, TaskStatuses
<1>2. \A t \in Tasks : plan[t].status = "absent"
  BY <1>1
<1>3. PlanShape
  <2>1. facts \in Facts
    BY DEF Facts
  <2>2. calls \in [Tasks -> [Calls -> {"none", "open", "asking", "running", "done"}]]
    BY DEF NoCalls
  <2>3. given \in [Tasks -> SUBSET Tasks]
    OBVIOUS
  <2>4. plan \in [Tasks -> PlanTask]
    BY <1>1
  <2>5. round \in 0..MaxRounds
    BY DeepAssumption
  <2> QED
    BY <2>1, <2>2, <2>3, <2>4, <2>5 DEF PlanShape
<1>4. Recorded
  BY DEF Recorded
<1>5. ResultsMatch /\ BatchAtWork
  BY <1>2 DEF ResultsMatch, BatchAtWork, Ended
<1>6. CallsBelong
  BY DEF CallsBelong, NoCalls
<1>7. DependenciesFirst /\ AnswerCoversResearch
  BY <1>2 DEF DependenciesFirst, AnswerCoversResearch
<1> QED
  BY <1>3, <1>4, <1>5, <1>6, <1>7, TypeIsPlanShape DEF DeepInv

\* What a call leaves in the facts: it was let through or asks, it was denied.
Asked(t) == [facts EXCEPT !.unsafe = @ \cup {t}]
Denied(t) == [Asked(t) EXCEPT !.denied = TRUE, !.failures = @ \cup {t}]
Fails(t, blocked) == [facts EXCEPT !.failures = @ \cup {t}, !.blocked = @ \/ blocked]

LEMMA FactsKeep ==
  ASSUME facts \in Facts, NEW t \in Tasks, NEW b \in BOOLEAN
  PROVE  /\ Asked(t) \in Facts /\ Denied(t) \in Facts /\ Fails(t, b) \in Facts
         /\ Asked(t).unsafe = facts.unsafe \cup {t} /\ Asked(t).failures = facts.failures
         /\ Asked(t).denied = facts.denied /\ Asked(t).blocked = facts.blocked
         /\ Denied(t).unsafe = facts.unsafe \cup {t} /\ Denied(t).failures = facts.failures \cup {t}
         /\ Denied(t).denied /\ Denied(t).blocked = facts.blocked
         /\ Fails(t, b).unsafe = facts.unsafe /\ Fails(t, b).failures = facts.failures \cup {t}
         /\ Fails(t, b).denied = facts.denied /\ Fails(t, b).blocked = (facts.blocked \/ b)
BY DEF Facts, Asked, Denied, Fails

\* What RunCall may do: the call and the facts.
LEMMA CallOutcome ==
  ASSUME NEW t \in Tasks, NEW c \in Calls, RunCall(t, c)
  PROVE  \E s \in {"done", "running", "asking"} :
            /\ calls' = [calls EXCEPT ![t][c] = s]
            /\ \/ s = "done" /\ facts' \in {facts, Denied(t)}
               \/ s \in {"running", "asking"} /\ facts' = Asked(t)
            /\ s = "running" => ~Refused(t)
BY DEF RunCall, Asked, Denied

LEMMA StepKeepsPlanShape ==
  ASSUME Parts, DeepNext
  PROVE  PlanShape'
<1>0. PlanShape /\ Recorded /\ MaxRounds \in Nat \ {0} /\ DeepTypeOK
  BY TypeIsPlanShape, DeepAssumption DEF Parts
<1> USE <1>0 DEF PlanShape
<1>1. plan' \in [Tasks -> PlanTask]
  BY StepMoves, Installed DEF Moves
<1>2. ASSUME NEW p \in Proposals, NEW s \in DOMAIN p, InstallPlan(p, s) PROVE PlanShape'
  <2> DEFINE b == AddsResearch(p) /\ Failed # {}
  <2>1. facts' = [facts EXCEPT !.retryUsed = @ \/ b] /\ b \in BOOLEAN
    BY <1>2 DEF InstallPlan
  <2> HIDE DEF b
  <2>2. facts' \in Facts
    BY <2>1 DEF Facts
  <2> QED
    BY <1>1, <1>2, <2>2 DEF InstallPlan
<1>3. ASSUME Respond \/ Cancel PROVE PlanShape'
  BY <1>3 DEF Respond, Cancel, planVars, taskVars, Ended
<1>4. ASSUME RunFails \/ RoundsExhausted PROVE PlanShape'
  BY <1>1, <1>4 DEF RunFails, RoundsExhausted, FailPlan, taskVars, Ended
<1>5. CASE BeginBatch
  <2>1. Ready(plan) \subseteq Tasks
    BY DEF Ready, Known
  <2>2. batch' \subseteq Tasks
    BY <1>5, <2>1 DEF BeginBatch
  <2> QED
    BY <1>5, <2>2 DEF BeginBatch, taskVars
<1>6. CASE EndBatch
  BY <1>1, <1>6 DEF EndBatch, FailPlan, Ended
<1>7. ASSUME NEW t \in Tasks, StartTask(t) PROVE PlanShape'
  <2>1. Inputs(t) \subseteq Tasks
    BY DEF Inputs, Ancestors, PlanTask
  <2> QED
    BY <1>1, <1>7, <2>1 DEF StartTask
<1>8. ASSUME NEW t \in Tasks, NEW s \in {"waiting", "success", "error"}, SetResult(t, s),
             fatal' \in BOOLEAN
      PROVE  PlanShape'
  <2>1. NoCalls \in [Calls -> {"none", "open", "asking", "running", "done"}]
    BY DEF NoCalls
  <2>2. calls' \in [Tasks -> [Calls -> {"none", "open", "asking", "running", "done"}]]
    BY <1>8, <2>1 DEF SetResult
  <2> QED
    BY <1>1, <1>8, <2>2 DEF SetResult
<1>9. ASSUME NEW t \in Tasks, TaskWaits(t) \/ TaskEnds(t) \/ TaskBreaks(t) PROVE PlanShape'
  BY <1>8, <1>9 DEF TaskWaits, TaskEnds, TaskBreaks, OutcomesOf
<1>10. ASSUME NEW t \in Tasks, NEW c \in Calls, RunCall(t, c) PROVE PlanShape'
  <2>1. PICK s \in {"done", "running", "asking"} :
           /\ calls' = [calls EXCEPT ![t][c] = s]
           /\ facts' \in {facts, Asked(t), Denied(t)}
    BY <1>10, CallOutcome
  <2>2. facts' \in Facts
    BY <2>1, FactsKeep
  <2>3. calls' \in [Tasks -> [Calls -> {"none", "open", "asking", "running", "done"}]]
    BY <2>1
  <2> QED
    BY <1>10, <2>2, <2>3 DEF RunCall, planVars
<1>11. ASSUME NEW t \in Tasks, NEW c \in Calls, NEW o \in Outcomes, CallReturns(t, c, o) PROVE PlanShape'
  <2>1. facts' \in Facts
    BY <1>11, FactsKeep DEF CallReturns, Fails
  <2> QED
    BY <1>11, <2>1 DEF CallReturns, planVars
<1>12. ASSUME NEW t \in Tasks, NEW cs \in SUBSET Calls, CallTools(t, cs) PROVE PlanShape'
  <2>1. [c \in Calls |-> IF c \in cs THEN "open" ELSE calls[t][c]]
            \in [Calls -> {"none", "open", "asking", "running", "done"}]
    OBVIOUS
  <2>2. calls' \in [Tasks -> [Calls -> {"none", "open", "asking", "running", "done"}]]
    BY <1>12, <2>1 DEF CallTools
  <2> QED
    BY <1>12, <2>2 DEF CallTools, planVars
<1>13. ASSUME NEW t \in Tasks, NEW blocked \in BOOLEAN, ReadFails(t, blocked) PROVE PlanShape'
  <2>1. facts' \in Facts
    BY <1>13, FactsKeep DEF ReadFails, Fails
  <2> QED
    BY <1>13, <2>1 DEF ReadFails, planVars
<1>14. ASSUME NEW t \in Tasks, NEW c \in Calls, NEW approved \in BOOLEAN, Resume(t, c, approved)
       PROVE  PlanShape'
  <2>1. calls' \in [Tasks -> [Calls -> {"none", "open", "asking", "running", "done"}]]
    BY <1>14 DEF Resume
  <2> QED
    BY <1>1, <1>14, <2>1 DEF Resume
<1> QED
  BY <1>2, <1>3, <1>4, <1>5, <1>6, <1>7, <1>9, <1>10, <1>11, <1>12, <1>13, <1>14
  DEF DeepNext, PlannerStep, DeepTaskStep

-----------------------------------------------------------------------------
(***************************************************************************)
(* Results and the batch.                                                  *)
(***************************************************************************)

LEMMA StepKeepsResults ==
  ASSUME Parts, DeepNext
  PROVE  ResultsMatch'
<1>0. PlanShape /\ DeepTypeOK /\ ResultsMatch /\ BatchAtWork
  BY TypeIsPlanShape DEF Parts
<1> USE <1>0 DEF ResultsMatch
<1>1. ASSUME UNCHANGED <<plan, results>>, phase \in Ended => phase' \in Ended
      PROVE  ResultsMatch'
  BY <1>1
<1>2. ASSUME NEW p \in Proposals, NEW s \in DOMAIN p, InstallPlan(p, s) PROVE ResultsMatch'
  <2>1. phase \notin Ended /\ results' = results
    BY <1>2 DEF InstallPlan, Ended
  <2>2. \A t \in Tasks : Begun(t) => plan'[t] = plan[t]
    BY <1>2, Installed
  <2>3. \A t \in Tasks : ~Begun(t) => results[t] = "none" /\ plan'[t].status \in {"absent", "pending", "canceled"}
    BY <1>2, Installed DEF Begun
  <2> QED
    BY <2>1, <2>2, <2>3
<1>3. ASSUME FailPlan, UNCHANGED results PROVE ResultsMatch'
  <2>1. Moves(Unfinished, "canceled") /\ phase' \in Ended
    BY <1>3, PlanFails DEF FailPlan, Ended
  <2> QED
    BY <1>3, <2>1 DEF Moves, Unfinished
<1>4. CASE EndBatch
  <2>1. CASE fatal
    BY <1>3, <1>4, <2>1 DEF EndBatch
  <2>2. CASE ~fatal
    BY <1>1, <1>4, <2>2 DEF EndBatch, Ended
  <2> QED
    BY <2>1, <2>2
<1>5. ASSUME NEW t \in Tasks, StartTask(t) PROVE ResultsMatch'
  <2>1. Moves({t}, "running") /\ results' = results /\ results[t] = "none" /\ phase' = phase
    BY <1>5, StatusMoves DEF StartTask, TaskStatuses
  <2> QED
    BY <2>1 DEF Moves
<1>6. ASSUME NEW t \in Tasks, Working(t), NEW s \in {"waiting", "success", "error"}, SetResult(t, s)
      PROVE  ResultsMatch'
  <2>1. Moves({t}, s) /\ results' = [results EXCEPT ![t] = s] /\ phase' = phase
    BY <1>6, StatusMoves DEF SetResult, TaskStatuses
  <2> QED
    BY <1>6, <2>1 DEF Moves, PlanShape
<1>7. ASSUME NEW t \in Tasks, TaskWaits(t) \/ TaskEnds(t) \/ TaskBreaks(t) PROVE ResultsMatch'
  BY <1>6, <1>7 DEF TaskWaits, TaskEnds, TaskBreaks, OutcomesOf
<1>8. ASSUME NEW t \in Tasks, NEW c \in Calls, NEW approved \in BOOLEAN, Resume(t, c, approved)
      PROVE  ResultsMatch'
  <2>1. Moves(Waiting, "running") /\ results' = results /\ phase' = "executing"
        /\ phase \notin Ended
    BY <1>8, WaitingResume DEF Resume, Ended
  <2> QED
    BY <2>1 DEF Moves, Waiting
<1>9. ASSUME \/ Respond \/ Cancel \/ BeginBatch
             \/ \E t \in Tasks : \/ \E c \in Calls : RunCall(t, c)
                                 \/ \E c \in Calls, o \in Outcomes : CallReturns(t, c, o)
                                 \/ \E cs \in SUBSET Calls : CallTools(t, cs)
                                 \/ \E blocked \in BOOLEAN : ReadFails(t, blocked)
      PROVE  ResultsMatch'
  BY <1>1, <1>9 DEF Respond, Cancel, BeginBatch, RunCall, CallReturns, CallTools, ReadFails,
                    planVars, taskVars, Ended
<1>10. ASSUME RunFails \/ RoundsExhausted PROVE ResultsMatch'
  BY <1>3, <1>10 DEF RunFails, RoundsExhausted, taskVars
<1> QED
  BY <1>2, <1>4, <1>5, <1>7, <1>8, <1>9, <1>10 DEF DeepNext, PlannerStep, DeepTaskStep

LEMMA StepKeepsBatch ==
  ASSUME Parts, DeepNext
  PROVE  BatchAtWork'
<1>0. PlanShape /\ DeepTypeOK /\ ResultsMatch /\ BatchAtWork
  BY TypeIsPlanShape DEF Parts
<1> USE <1>0 DEF BatchAtWork
<1>1. ASSUME UNCHANGED <<plan, phase, batch>> PROVE BatchAtWork'
  BY <1>1
<1>2. ASSUME NEW p \in Proposals, NEW s \in DOMAIN p, InstallPlan(p, s) PROVE BatchAtWork'
  <2>1. phase' = "planned"
    BY <1>2 DEF InstallPlan
  <2>2. \A t \in Tasks : plan'[t].status \notin {"running", "waiting"}
    BY <1>2, Installed DEF Finished
  <2> QED
    BY <2>1, <2>2
<1>3. ASSUME FailPlan PROVE BatchAtWork'
  <2>1. Moves(Unfinished, "canceled") /\ phase' = "failed"
    BY <1>3, PlanFails DEF FailPlan
  <2> QED
    BY <2>1 DEF Moves, Unfinished
<1>4. CASE EndBatch
  <2>1. CASE fatal
    BY <1>3, <1>4, <2>1 DEF EndBatch
  <2>2. CASE ~fatal
    <3>1. /\ UNCHANGED <<plan, batch>> /\ Quiet /\ phase = "executing"
          /\ phase' = IF \E t \in batch : results[t] = "waiting" THEN "waiting" ELSE "replanning"
      BY <1>4, <2>2 DEF EndBatch
    <3> QED
      BY <3>1 DEF Quiet, ResultsMatch
  <2> QED
    BY <2>1, <2>2
<1>5. CASE BeginBatch
  <2>1. batch' \subseteq Ready(plan) /\ phase = "planned" /\ phase' = "executing" /\ UNCHANGED plan
    BY <1>5 DEF BeginBatch
  <2> QED
    BY <2>1 DEF Ready
<1>6. ASSUME NEW t \in Tasks, StartTask(t) PROVE BatchAtWork'
  <2>1. Moves({t}, "running") /\ UNCHANGED <<batch, phase>> /\ phase = "executing" /\ t \in batch
    BY <1>6, StatusMoves DEF StartTask, TaskStatuses
  <2> QED
    BY <2>1 DEF Moves
<1>7. ASSUME NEW t \in Tasks, Working(t), NEW s \in {"waiting", "success", "error"}, SetResult(t, s)
      PROVE  BatchAtWork'
  <2>1. Moves({t}, s) /\ UNCHANGED <<batch, phase>> /\ phase = "executing"
    BY <1>7, StatusMoves DEF SetResult, TaskStatuses, Working
  <2> QED
    BY <1>7, <2>1 DEF Moves, Working
<1>8. ASSUME NEW t \in Tasks, TaskWaits(t) \/ TaskEnds(t) \/ TaskBreaks(t) PROVE BatchAtWork'
  BY <1>7, <1>8 DEF TaskWaits, TaskEnds, TaskBreaks, OutcomesOf
<1>9. ASSUME NEW t \in Tasks, NEW c \in Calls, NEW approved \in BOOLEAN, Resume(t, c, approved)
      PROVE  BatchAtWork'
  <2>1. Moves(Waiting, "running") /\ UNCHANGED batch /\ phase = "waiting" /\ phase' = "executing"
    BY <1>9, WaitingResume DEF Resume
  <2> QED
    BY <2>1 DEF Moves, Waiting
<1>10. ASSUME Respond \/ Cancel PROVE BatchAtWork'
  BY <1>10 DEF Respond, Cancel, planVars, Ended
<1>11. ASSUME NEW t \in Tasks,
              \/ \E c \in Calls : RunCall(t, c)
              \/ \E c \in Calls, o \in Outcomes : CallReturns(t, c, o)
              \/ \E cs \in SUBSET Calls : CallTools(t, cs)
              \/ \E blocked \in BOOLEAN : ReadFails(t, blocked)
      PROVE  BatchAtWork'
  BY <1>1, <1>11 DEF RunCall, CallReturns, CallTools, ReadFails, planVars
<1> QED
  BY <1>2, <1>3, <1>4, <1>5, <1>6, <1>8, <1>9, <1>10, <1>11
  DEF DeepNext, PlannerStep, DeepTaskStep, RunFails, RoundsExhausted

-----------------------------------------------------------------------------
(***************************************************************************)
(* Calls and facts.                                                        *)
(***************************************************************************)

\* A task that began keeps its place in the plan.
LEMMA BegunStays ==
  ASSUME Parts, DeepNext, NEW t \in Tasks, Begun(t)
  PROVE  /\ Begun(t)' /\ plan'[t].deps = plan[t].deps /\ plan'[t].job = plan[t].job
         /\ t \in Research(plan) => t \in Research(plan')
<1>0. PlanShape
  BY TypeIsPlanShape DEF Parts
<1>1. ASSUME NEW p \in Proposals, NEW s \in DOMAIN p, InstallPlan(p, s) PROVE plan'[t] = plan[t]
  BY <1>1, Installed
<1>2. ASSUME NEW S \in SUBSET Known(plan), NEW s \in TaskStatuses \ {"absent", "pending"}, Moves(S, s)
      PROVE  /\ plan'[t].status \notin {"absent", "pending"}
             /\ plan'[t].deps = plan[t].deps /\ plan'[t].job = plan[t].job
  BY <1>2 DEF Moves, Begun
<1>3. /\ plan'[t].status \notin {"absent", "pending"}
      /\ plan'[t].deps = plan[t].deps /\ plan'[t].job = plan[t].job
  BY <1>1, <1>2, StepMoves DEF Begun
<1> QED
  BY <1>3 DEF Begun, Research, Syntheses, Known

\* Facts are only added, of a task at work, and a failure is final.
FactsGrow ==
    /\ facts.unsafe \subseteq facts'.unsafe /\ facts.failures \subseteq facts'.failures
    /\ facts.denied => facts'.denied
    /\ facts.blocked => facts'.blocked
    /\ \A t \in facts'.unsafe \ facts.unsafe :
          t \in Tasks /\ Working(t) /\ plan[t].job \in Operations /\ UNCHANGED plan
    /\ \A t \in facts'.failures \ facts.failures :
          /\ t \in Research(plan) /\ Working(t) /\ UNCHANGED plan
          /\ facts'.denied \/ facts'.blocked \/ t \in facts'.unsafe

LEMMA StepGrowsFacts ==
  ASSUME Parts, DeepNext
  PROVE  FactsGrow
<1>0. PlanShape /\ CallsBelong
  BY TypeIsPlanShape DEF Parts
<1> USE <1>0 DEF FactsGrow
<1>1. CASE UNCHANGED facts
  BY <1>1
<1>2. ASSUME NEW p \in Proposals, NEW s \in DOMAIN p, InstallPlan(p, s) PROVE FactsGrow
  <2> DEFINE b == AddsResearch(p) /\ Failed # {}
  <2>1. facts' = [facts EXCEPT !.retryUsed = @ \/ b]
    BY <1>2 DEF InstallPlan
  <2> HIDE DEF b
  <2>2. /\ facts'.unsafe = facts.unsafe /\ facts'.failures = facts.failures
        /\ facts'.denied = facts.denied /\ facts'.blocked = facts.blocked
    BY <2>1 DEF PlanShape, Facts
  <2> QED
    BY <2>2
<1>3. ASSUME NEW t \in Tasks, Working(t), plan[t].job \in Operations PROVE t \in Research(plan)
  BY <1>3, DeepAssumption DEF Working, Research, Syntheses, Known
<1>4. ASSUME NEW t \in Tasks, NEW c \in Calls, RunCall(t, c) PROVE FactsGrow
  <2>1. Working(t) /\ plan[t].job \in Operations /\ UNCHANGED plan
    BY <1>4, CallOutcome DEF CallsBelong, RunCall, planVars
  <2>2. facts' \in {facts, Asked(t), Denied(t)}
    BY <1>4, CallOutcome
  <2>3. facts \in Facts
    BY DEF PlanShape
  <2>4. CASE facts' = Asked(t)
    <3>1. /\ facts'.unsafe = facts.unsafe \cup {t} /\ facts'.failures = facts.failures
          /\ facts'.denied = facts.denied /\ facts'.blocked = facts.blocked
      BY <2>3, <2>4, FactsKeep
    <3> QED
      BY <2>1, <3>1
  <2>5. CASE facts' = Denied(t)
    <3>1. /\ facts'.unsafe = facts.unsafe \cup {t} /\ facts'.failures = facts.failures \cup {t}
          /\ facts'.denied /\ facts'.blocked = facts.blocked
      BY <2>3, <2>5, FactsKeep
    <3>2. t \in Research(plan)
      BY <1>3, <2>1
    <3> QED
      BY <2>1, <3>1, <3>2
  <2> QED
    BY <1>1, <2>2, <2>4, <2>5
<1>5. ASSUME NEW t \in Tasks, NEW c \in Calls, NEW o \in Outcomes, CallReturns(t, c, o) PROVE FactsGrow
  <2>1. /\ Working(t) /\ plan[t].job \in Operations /\ UNCHANGED plan /\ t \in facts.unsafe
        /\ facts' \in {facts, Fails(t, o = "forbidden")}
    BY <1>5 DEF CallsBelong, CallReturns, planVars, Fails
  <2>2. facts \in Facts /\ (o = "forbidden") \in BOOLEAN
    BY DEF PlanShape
  <2>3. CASE facts' = Fails(t, o = "forbidden")
    <3>1. /\ facts'.unsafe = facts.unsafe /\ facts'.failures = facts.failures \cup {t}
          /\ facts'.denied = facts.denied /\ facts'.blocked = (facts.blocked \/ o = "forbidden")
      BY <2>2, <2>3, FactsKeep
    <3> QED
      BY <1>3, <2>1, <3>1
  <2> QED
    BY <1>1, <2>1, <2>3
<1>6. ASSUME NEW t \in Tasks, NEW blocked \in BOOLEAN, ReadFails(t, blocked) PROVE FactsGrow
  <2>1. /\ Working(t) /\ t \in Research(plan) /\ UNCHANGED plan /\ facts' = Fails(t, blocked)
        /\ blocked \/ t \in facts.unsafe
    BY <1>6 DEF ReadFails, planVars, Fails
  <2>2. facts \in Facts
    BY DEF PlanShape
  <2>3. /\ facts'.unsafe = facts.unsafe /\ facts'.failures = facts.failures \cup {t}
        /\ facts'.denied = facts.denied /\ facts'.blocked = (facts.blocked \/ blocked)
    BY <2>1, <2>2, FactsKeep
  <2> QED
    BY <2>1, <2>3
<1> QED
  BY <1>1, <1>2, <1>4, <1>5, <1>6
  DEF DeepNext, PlannerStep, DeepTaskStep, Respond, RunFails, BeginBatch, RoundsExhausted, EndBatch,
      Cancel, StartTask, TaskWaits, TaskEnds, TaskBreaks, SetResult, CallTools, Resume, taskVars

LEMMA StepKeepsRecorded ==
  ASSUME Parts, DeepNext
  PROVE  Recorded'
<1>1. Recorded /\ CallsBelong
  BY TypeIsPlanShape DEF Parts
<1>2. ASSUME NEW t \in Tasks, t \in facts'.unsafe
      PROVE  Begun(t) /\ plan[t].job \in Operations
  BY <1>1, <1>2, StepGrowsFacts DEF FactsGrow, Recorded, CallsBelong, Working, Begun
<1>3. ASSUME NEW t \in Tasks, t \in facts'.failures
      PROVE  Begun(t) /\ t \in Research(plan)
  BY <1>1, <1>3, StepGrowsFacts DEF FactsGrow, Recorded, CallsBelong, Working, Begun
<1> QED
  BY <1>2, <1>3, BegunStays DEF Recorded

\* A task only succeeds without a recorded failure.
LEMMA SuccessStep ==
  ASSUME Parts, DeepNext, NEW t \in Tasks, plan'[t].status = "success", plan[t].status # "success"
  PROVE  t \notin facts.failures /\ UNCHANGED facts /\ Working(t)
<1>0. PlanShape /\ DeepTypeOK
  BY TypeIsPlanShape DEF Parts
<1>1. ASSUME NEW p \in Proposals, NEW s \in DOMAIN p, InstallPlan(p, s) PROVE FALSE
  BY <1>1, Installed
<1>2. ASSUME NEW S \in SUBSET Tasks, NEW s \in TaskStatuses, Moves(S, s) PROVE s = "success" /\ t \in S
  BY <1>2 DEF Moves
<1>3. CASE FailPlan
  BY <1>0, <1>2, <1>3, PlanFails DEF Unfinished, TaskStatuses
<1>4. ASSUME NEW u \in Tasks, StartTask(u) PROVE FALSE
  BY <1>0, <1>2, <1>4, StatusMoves DEF StartTask, TaskStatuses
<1>5. ASSUME NEW u \in Tasks, NEW s \in {"waiting", "success", "error"}, SetResult(u, s)
      PROVE  s = "success" /\ t = u
  <2>1. Moves({u}, s)
    BY <1>0, <1>5, StatusMoves DEF SetResult, TaskStatuses
  <2> QED
    BY <1>2, <2>1 DEF TaskStatuses
<1>6. ASSUME NEW u \in Tasks, TaskWaits(u) \/ TaskBreaks(u) PROVE FALSE
  BY <1>5, <1>6 DEF TaskWaits, TaskBreaks
<1>7. ASSUME NEW u \in Tasks, TaskEnds(u) PROVE t \notin facts.failures /\ UNCHANGED facts /\ Working(t)
  BY <1>5, <1>7 DEF TaskEnds, OutcomesOf, SetResult
<1>8. ASSUME NEW u \in Tasks, NEW c \in Calls, NEW approved \in BOOLEAN, Resume(u, c, approved)
      PROVE  FALSE
  <2>1. Waiting \in SUBSET Tasks /\ Moves(Waiting, "running") /\ "running" \in TaskStatuses
    BY <1>0, <1>8, WaitingResume DEF Waiting, PlanShape, TaskStatuses
  <2> QED
    BY <1>2, <2>1
<1>9. CASE UNCHANGED plan
  BY <1>9
<1> QED
  BY <1>1, <1>3, <1>4, <1>6, <1>7, <1>8, <1>9
  DEF DeepNext, PlannerStep, DeepTaskStep, Respond, RunFails, BeginBatch, RoundsExhausted, EndBatch,
      Cancel, RunCall, CallReturns, CallTools, ReadFails, planVars

\* The calls of a task only move on while it works.
CallsMove ==
    \A t \in Tasks, c \in Calls :
        /\ calls'[t][c] # "none" => \/ calls[t][c] # "none"
                                    \/ Working(t) /\ plan[t].job \in Operations
        /\ calls'[t][c] \in {"asking", "running"} =>
              calls'[t][c] = calls[t][c] \/ t \in facts'.unsafe
        /\ calls'[t][c] = "running" => calls[t][c] = "running" \/ ~Refused(t)

LEMMA StepMovesCalls ==
  ASSUME Parts, DeepNext
  PROVE  CallsMove
<1>0. PlanShape /\ CallsBelong
  BY TypeIsPlanShape DEF Parts
<1> USE <1>0 DEF CallsMove
<1>1. CASE UNCHANGED calls
  BY <1>1
<1>2. ASSUME NEW t \in Tasks, NEW s \in {"waiting", "success", "error"}, SetResult(t, s) PROVE CallsMove
  <2>1. CASE s = "waiting"
    BY <1>1, <1>2, <2>1 DEF SetResult
  <2>2. CASE s # "waiting"
    <3>1. \A u \in Tasks, c \in Calls : calls'[u][c] = IF u = t THEN "none" ELSE calls[u][c]
      BY <1>2, <2>2 DEF SetResult, NoCalls, PlanShape
    <3> QED
      BY <3>1
  <2> QED
    BY <2>1, <2>2
<1>3. ASSUME NEW t \in Tasks, TaskWaits(t) \/ TaskEnds(t) \/ TaskBreaks(t) PROVE CallsMove
  BY <1>2, <1>3 DEF TaskWaits, TaskEnds, TaskBreaks, OutcomesOf
<1>4. ASSUME NEW t \in Tasks, NEW c \in Calls, RunCall(t, c) PROVE CallsMove
  <2>1. PICK s \in {"done", "running", "asking"} :
           /\ calls' = [calls EXCEPT ![t][c] = s]
           /\ s = "done" \/ facts' = Asked(t)
           /\ s = "running" => ~Refused(t)
    BY <1>4, CallOutcome
  <2>2. calls[t][c] = "open"
    BY <1>4 DEF RunCall
  <2>3. \A u \in Tasks, d \in Calls :
           calls'[u][d] = IF u = t /\ d = c THEN s ELSE calls[u][d]
    BY <2>1 DEF PlanShape
  <2>4. s = "done" \/ t \in facts'.unsafe
    BY <2>1, FactsKeep DEF PlanShape
  <2> QED
    BY <2>1, <2>2, <2>3, <2>4
<1>5. ASSUME NEW t \in Tasks, NEW c \in Calls, NEW o \in Outcomes, CallReturns(t, c, o) PROVE CallsMove
  <2>1. \A u \in Tasks, d \in Calls :
           calls'[u][d] = IF u = t /\ d = c THEN "done" ELSE calls[u][d]
    BY <1>5 DEF CallReturns, PlanShape
  <2>2. calls[t][c] = "running"
    BY <1>5 DEF CallReturns
  <2> QED
    BY <2>1, <2>2
<1>6. ASSUME NEW t \in Tasks, NEW cs \in SUBSET Calls, CallTools(t, cs) PROVE CallsMove
  <2>1. \A u \in Tasks, d \in Calls :
           calls'[u][d] = IF u = t /\ d \in cs THEN "open" ELSE calls[u][d]
    BY <1>6 DEF CallTools, PlanShape
  <2>2. Working(t) /\ plan[t].job \in Operations
    BY <1>6 DEF CallTools
  <2> QED
    BY <2>1, <2>2
<1>7. ASSUME NEW t \in Tasks, NEW c \in Calls, NEW approved \in BOOLEAN, Resume(t, c, approved)
      PROVE  CallsMove
  <2>1. \A u \in Tasks, d \in Calls :
           calls'[u][d] = calls[u][d] \/ (calls[u][d] = "asking" /\ calls'[u][d] = "open")
    BY <1>7 DEF Resume
  <2> QED
    BY <2>1
<1> QED
  BY <1>1, <1>3, <1>4, <1>5, <1>6, <1>7
  DEF DeepNext, PlannerStep, DeepTaskStep, InstallPlan, Respond, RunFails, BeginBatch, RoundsExhausted,
      EndBatch, Cancel, StartTask, ReadFails, taskVars

LEMMA StepKeepsCalls ==
  ASSUME Parts, DeepNext
  PROVE  CallsBelong'
<1>0. CallsBelong
  BY DEF Parts
<1> SUFFICES ASSUME NEW t \in Tasks
             PROVE  /\ \A c \in Calls : calls'[t][c] # "none" => Begun(t)' /\ plan'[t].job \in Operations
                    /\ \A c \in Calls : calls'[t][c] \in {"asking", "running"} => t \in facts'.unsafe
                    /\ t \in facts'.unsafe => Begun(t)'
                    /\ t \in facts'.failures => /\ Begun(t)' /\ plan'[t].status # "success"
                                                /\ Refused(t)'
  BY DEF CallsBelong
<1>1. ASSUME NEW c \in Calls, calls'[t][c] # "none" PROVE Begun(t) /\ plan[t].job \in Operations
  BY <1>0, <1>1, StepMovesCalls DEF CallsMove, CallsBelong, Working, Begun
<1>2. \A c \in Calls : calls'[t][c] \in {"asking", "running"} => t \in facts'.unsafe
  BY <1>0, StepMovesCalls, StepGrowsFacts DEF CallsMove, CallsBelong, FactsGrow
<1>3. t \in facts'.unsafe => Begun(t)
  BY <1>0, StepGrowsFacts DEF FactsGrow, CallsBelong, Working, Begun
<1>4. ASSUME t \in facts'.failures
      PROVE  Begun(t) /\ plan'[t].status # "success" /\ Refused(t)'
  <2>1. CASE t \in facts.failures
    BY <1>0, <1>4, <2>1, StepGrowsFacts, SuccessStep DEF FactsGrow, CallsBelong, Refused
  <2>2. CASE t \notin facts.failures
    BY <1>4, <2>2, StepGrowsFacts DEF FactsGrow, Working, Begun, Refused
  <2> QED
    BY <2>1, <2>2
<1> QED
  BY <1>1, <1>2, <1>3, <1>4, BegunStays

-----------------------------------------------------------------------------
(***************************************************************************)
(* Dependencies and the answer.                                            *)
(***************************************************************************)

\* All that a task which began and was not canceled depends on has succeeded.
LEMMA AncestorsSucceed ==
  ASSUME Parts, NEW t \in Tasks, plan[t].status \in {"running", "waiting", "success"}
  PROVE  \A x \in Ancestors(plan, t) : x \in Tasks /\ plan[x].status = "success"
<1> DEFINE S == {x \in Tasks : plan[x].status = "success"}
<1>1. \A u \in Tasks : plan[u].deps \subseteq Tasks
  BY TypeIsPlanShape DEF Parts, PlanShape, PlanTask
<1>2. \A u \in Tasks : plan[u].status \in {"running", "waiting", "success"} => plan[u].deps \subseteq S
  BY <1>1 DEF Parts, DependenciesFirst, ResultsMatch
<1>3. Closed(plan, S) /\ plan[t].deps \subseteq S
  BY <1>2 DEF Closed
<1>4. Ancestors(plan, t) \subseteq S
  BY <1>3, AncestorsLeast
<1> QED
  BY <1>4

LEMMA StepKeepsDependencies ==
  ASSUME Parts, DeepNext
  PROVE  DependenciesFirst'
<1>0. PlanShape /\ DeepTypeOK /\ ResultsMatch /\ BatchAtWork /\ DependenciesFirst
  BY TypeIsPlanShape DEF Parts
<1>1. ASSUME NEW p \in Proposals, NEW s \in DOMAIN p, InstallPlan(p, s) PROVE DependenciesFirst'
  <2>1. UNCHANGED <<results, given>>
    BY <1>1 DEF InstallPlan
  <2> SUFFICES ASSUME NEW t \in Tasks, plan'[t].status \in {"running", "waiting", "success"}
               PROVE  (\A d \in plan'[t].deps : results[d] = "success") /\ given[t] = Inputs(t)'
    BY <2>1 DEF DependenciesFirst
  <2>2. plan'[t] = plan[t] /\ plan' \in [Tasks -> PlanTask]
    BY <1>1, Installed
  <2>3. \A x \in Ancestors(plan, t) : x \in Tasks /\ Begun(x)
    BY <2>2, AncestorsSucceed DEF Begun
  <2>4. \A x \in Ancestors(plan, t) \cup {t} : plan'[x] = plan[x]
    BY <1>1, <2>2, <2>3, Installed
  <2>5. Ancestors(plan', t) = Ancestors(plan, t)
    <3>1. plan \in [Tasks -> PlanTask]
      BY <1>0 DEF PlanShape
    <3>2. \A x \in Ancestors(plan, t) \cup {t} : plan'[x].deps = plan[x].deps
      BY <2>4
    <3> QED
      BY <2>2, <3>1, <3>2, AncestorsAgree
  <2>6. Ancestors(plan, t) \cap Research(plan') = Ancestors(plan, t) \cap Research(plan)
    BY <2>3, <2>4 DEF Research, Syntheses, Known
  <2>7. Inputs(t)' = Inputs(t)
    BY <2>2, <2>5, <2>6 DEF Inputs
  <2> QED
    BY <1>0, <2>2, <2>7 DEF DependenciesFirst
<1>2. ASSUME NEW S \in SUBSET Known(plan), NEW s \in TaskStatuses \ {"absent", "pending"}, Moves(S, s)
      PROVE  \A t \in Tasks : Inputs(t)' = Inputs(t) /\ plan'[t].deps = plan[t].deps
  BY <1>0, <1>2, PlacesKept DEF Moves
<1>3. ASSUME ~\E p \in Proposals : \E s \in DOMAIN p : InstallPlan(p, s)
      PROVE  \A t \in Tasks : Inputs(t)' = Inputs(t) /\ plan'[t].deps = plan[t].deps
  BY <1>2, <1>3, StepMoves
\* Nothing begins, and no result is withdrawn.
<1>4. ASSUME ~\E p \in Proposals : \E s \in DOMAIN p : InstallPlan(p, s), UNCHANGED given,
             \A t \in Tasks : plan'[t].status \in {"running", "waiting", "success"} =>
                 plan[t].status \in {"running", "waiting", "success"},
             \A t \in Tasks : results[t] = "success" => results'[t] = "success"
      PROVE  DependenciesFirst'
  <2>1. \A t \in Tasks : plan[t].deps \subseteq Tasks
    BY <1>0 DEF PlanShape, PlanTask
  <2> QED
    BY <1>0, <1>3, <1>4, <2>1 DEF DependenciesFirst
<1>5. ASSUME NEW t \in Tasks, StartTask(t) PROVE DependenciesFirst'
  <2>1. Moves({t}, "running") /\ t \in Known(plan)
    BY <1>0, <1>5, StatusMoves DEF StartTask, TaskStatuses, Known, BatchAtWork
  <2>2. \A u \in Tasks : Inputs(u)' = Inputs(u) /\ plan'[u].deps = plan[u].deps
    BY <1>2, <2>1 DEF TaskStatuses
  <2>3. /\ results' = results /\ given' = [given EXCEPT ![t] = Inputs(t)]
        /\ \A d \in plan[t].deps : results[d] = "success"
    BY <1>5 DEF StartTask
  <2>4. \A u \in Tasks : given'[u] = IF u = t THEN Inputs(t) ELSE given[u]
    BY <1>0, <2>3 DEF PlanShape
  <2>5. \A u \in Tasks \ {t} : plan'[u] = plan[u]
    BY <2>1 DEF Moves
  <2> QED
    BY <1>0, <2>2, <2>3, <2>4, <2>5 DEF DependenciesFirst
<1>6. ASSUME NEW t \in Tasks, Working(t), NEW s \in {"waiting", "success", "error"}, SetResult(t, s)
      PROVE  DependenciesFirst'
  <2>1. Moves({t}, s) /\ t \in Known(plan) /\ s \in TaskStatuses \ {"absent", "pending"}
    BY <1>0, <1>6, StatusMoves DEF SetResult, TaskStatuses, Known, Working
  <2>2. \A u \in Tasks : Inputs(u)' = Inputs(u) /\ plan'[u].deps = plan[u].deps
    BY <1>2, <2>1
  <2>3. /\ given' = given
        /\ \A u \in Tasks : results'[u] = IF u = t THEN s ELSE results[u]
    BY <1>0, <1>6 DEF SetResult, PlanShape
  <2>4. plan[t].status = "running" /\ results[t] # "success"
    BY <1>0, <1>6 DEF Working, ResultsMatch
  <2>5. \A u \in Tasks : plan[u].deps \subseteq Tasks
    BY <1>0 DEF PlanShape, PlanTask
  <2>6. \A u \in Tasks : plan'[u].status \in {"running", "waiting", "success"} =>
                            plan[u].status \in {"running", "waiting", "success"}
    BY <2>1, <2>4 DEF Moves
  <2>7. \A u \in Tasks : results[u] = "success" => results'[u] = "success"
    BY <2>3, <2>4
  <2> QED
    BY <1>0, <2>2, <2>3, <2>5, <2>6, <2>7 DEF DependenciesFirst
<1>7. ASSUME NEW t \in Tasks, TaskWaits(t) \/ TaskEnds(t) \/ TaskBreaks(t) PROVE DependenciesFirst'
  BY <1>6, <1>7 DEF TaskWaits, TaskEnds, TaskBreaks, OutcomesOf
<1>8. ASSUME NEW t \in Tasks, NEW c \in Calls, NEW approved \in BOOLEAN, Resume(t, c, approved),
             ~\E p \in Proposals : \E s \in DOMAIN p : InstallPlan(p, s)
      PROVE  DependenciesFirst'
  <2>1. Moves(Waiting, "running") /\ UNCHANGED <<results, given>> /\ phase = "waiting"
    BY <1>0, <1>8, WaitingResume DEF Resume
  <2>2. \A u \in Tasks : plan'[u].status \in {"running", "waiting", "success"} =>
           plan[u].status \in {"running", "waiting", "success"}
    BY <1>0, <2>1 DEF Moves, Waiting, ResultsMatch, Ended
  <2> QED
    BY <1>4, <1>8, <2>1, <2>2
<1>9. ASSUME FailPlan, UNCHANGED <<results, given>>,
             ~\E p \in Proposals : \E s \in DOMAIN p : InstallPlan(p, s)
      PROVE  DependenciesFirst'
  <2>1. Moves(Unfinished, "canceled")
    BY <1>0, <1>9, PlanFails
  <2>2. \A u \in Tasks : plan'[u].status \in {"running", "waiting", "success"} =>
           plan[u].status \in {"running", "waiting", "success"}
    BY <2>1 DEF Moves
  <2> QED
    BY <1>4, <1>9, <2>2
<1>10. ASSUME UNCHANGED <<plan, results, given>>,
              ~\E p \in Proposals : \E s \in DOMAIN p : InstallPlan(p, s)
       PROVE  DependenciesFirst'
  BY <1>4, <1>10
<1> QED
  BY <1>1, <1>5, <1>7, <1>8, <1>9, <1>10
  DEF DeepNext, PlannerStep, DeepTaskStep, Respond, RunFails, BeginBatch, RoundsExhausted, EndBatch,
      Cancel, RunCall, CallReturns, CallTools, ReadFails, planVars, taskVars

\* A completed run does nothing more, and it completes with the check of
\* validatePECompletion.
LEMMA StepKeepsAnswer ==
  ASSUME DeepInv, DeepNext
  PROVE  AnswerCoversResearch'
<1>0. ResultsMatch /\ DependenciesFirst /\ AnswerCoversResearch /\ PlanShape /\ BatchAtWork
  BY TypeIsPlanShape DEF DeepInv
<1>1. CASE phase' # "completed"
  BY <1>1 DEF AnswerCoversResearch
<1>2. CASE phase = "completed"
  <2>1. \A t \in Tasks : ~Working(t)
    BY <1>2 DEF Working
  <2> QED
    BY <1>2, <2>1 DEF DeepNext, PlannerStep, DeepTaskStep, InstallPlan, Respond, RunFails, BeginBatch,
       RoundsExhausted, EndBatch, Cancel, Ended, StartTask, TaskWaits, TaskEnds, TaskBreaks, RunCall,
       CallReturns, CallTools, ReadFails, Resume
<1>3. CASE Respond
  <2>1. UNCHANGED <<plan, results, given>>
    BY <1>3 DEF Respond, planVars, taskVars
  <2>2. PICK s \in Syntheses(plan) :
           /\ plan[s].status = "success"
           /\ {t \in Research(plan) : plan[t].status = "success"} \subseteq Ancestors(plan, s)
    BY <1>3 DEF Respond, CompletionValid
  <2>3. s \in Tasks /\ plan[s].job \in Synthesis
    BY <2>2 DEF Syntheses, Known
  <2>4. given[s] = Ancestors(plan, s) \cap Research(plan) /\ results[s] = "success"
    BY <1>0, <2>2, <2>3 DEF DependenciesFirst, Inputs, ResultsMatch
  <2>5. {t \in Research(plan) : results[t] = "success"} \subseteq given[s]
    BY <1>0, <2>2, <2>4 DEF ResultsMatch, Research, Known
  <2> QED
    BY <2>1, <2>2, <2>4, <2>5 DEF AnswerCoversResearch
<1>4. ASSUME phase # "completed", ~Respond PROVE phase' # "completed"
  BY <1>4 DEF DeepNext, PlannerStep, DeepTaskStep, InstallPlan, RunFails, BeginBatch, FailPlan,
     RoundsExhausted, EndBatch, Cancel, Ended, StartTask, TaskWaits, TaskEnds, TaskBreaks, SetResult,
     RunCall, CallReturns, CallTools, ReadFails, Resume
<1> QED
  BY <1>1, <1>2, <1>3, <1>4

-----------------------------------------------------------------------------
LEMMA StepKeepsDeepInv == DeepInv /\ [DeepNext]_deepVars => DeepInv'
<1> SUFFICES ASSUME DeepInv, [DeepNext]_deepVars PROVE DeepInv'
  OBVIOUS
<1>0. Parts
  BY DEF Parts, DeepInv
<1>1. CASE DeepNext
  <2>1. PlanShape' /\ Recorded' => DeepTypeOK'
    BY TypeIsPlanShape, PTL
  <2> QED
    BY <1>0, <1>1, <2>1, StepKeepsPlanShape, StepKeepsRecorded, StepKeepsResults, StepKeepsBatch,
       StepKeepsCalls, StepKeepsDependencies, StepKeepsAnswer DEF DeepInv
<1>2. CASE UNCHANGED deepVars
  <2>1. UNCHANGED <<plan, version, parallel, round, batch, phase, results, facts, calls, answer,
                    fatal, given>>
    BY <1>2 DEF deepVars, planVars, taskVars
  <2>2. DeepTypeOK'
    BY <2>1 DEF DeepInv, DeepTypeOK
  <2>3. ResultsMatch' /\ BatchAtWork' /\ CallsBelong'
    BY <2>1 DEF DeepInv, ResultsMatch, BatchAtWork, CallsBelong, Begun, Refused
  <2>4. DependenciesFirst'
    BY <2>1 DEF DeepInv, DependenciesFirst, Inputs
  <2>5. AnswerCoversResearch'
    BY <2>1 DEF DeepInv, AnswerCoversResearch
  <2> QED
    BY <2>2, <2>3, <2>4, <2>5 DEF DeepInv
<1> QED
  BY <1>1, <1>2

\* A failed task makes no call and does not succeed.
LEMMA StepEndsRefused ==
  ASSUME DeepInv, [DeepNext]_deepVars
  PROVE  RefusalEndsTask
<1>0. Parts /\ CallsBelong /\ ResultsMatch /\ PlanShape
  BY TypeIsPlanShape DEF Parts, DeepInv
<1>1. CASE DeepNext
  <2> SUFFICES ASSUME NEW t \in facts.failures
               PROVE  /\ results'[t] # "success"
                      /\ \A c \in Calls : calls'[t][c] = "running" => calls[t][c] = "running"
    BY DEF RefusalEndsTask
  <2>1. t \in Tasks
    BY <1>0 DEF PlanShape, Facts
  <2>2. Refused(t) /\ plan[t].status # "success"
    BY <1>0, <2>1 DEF CallsBelong
  <2>3. plan'[t].status # "success"
    BY <1>0, <1>1, <2>1, <2>2, SuccessStep
  <2>4. results'[t] # "success"
    BY <1>0, <1>1, <2>1, <2>3, StepKeepsResults DEF ResultsMatch
  <2> QED
    BY <1>0, <1>1, <2>1, <2>2, <2>4, StepMovesCalls DEF CallsMove
<1>2. CASE UNCHANGED deepVars
  <2>1. UNCHANGED <<results, calls>> /\ facts.failures \subseteq Tasks
    BY <1>0, <1>2 DEF deepVars, taskVars, PlanShape, Facts
  <2> QED
    BY <1>0, <2>1 DEF RefusalEndsTask, CallsBelong, ResultsMatch
<1> QED
  BY <1>1, <1>2

\* What has finished is not touched again.
LEMMA StepKeepsFinished ==
  ASSUME DeepInv, [DeepNext]_deepVars
  PROVE  FinishedIsFinal
<1>0. Parts /\ ResultsMatch /\ BatchAtWork /\ PlanShape /\ DeepTypeOK
  BY TypeIsPlanShape DEF Parts, DeepInv
<1> SUFFICES ASSUME NEW t \in Tasks, Finished(plan[t].status)
             PROVE  plan'[t] = plan[t] /\ results'[t] = results[t]
  BY DEF FinishedIsFinal
<1>1. plan[t].status \in {"success", "error", "canceled"}
  BY DEF Finished
<1>2. ASSUME NEW p \in Proposals, NEW s \in DOMAIN p, InstallPlan(p, s)
      PROVE  plan'[t] = plan[t] /\ results'[t] = results[t]
  <2>1. plan'[t] = plan[t]
    BY <1>0, <1>1, <1>2, Installed DEF Begun
  <2> QED
    BY <1>2, <2>1 DEF InstallPlan
<1>3. ASSUME FailPlan PROVE plan'[t] = plan[t]
  BY <1>0, <1>1, <1>3, PlanFails DEF Moves, Unfinished
<1>4. ASSUME NEW u \in Tasks, StartTask(u) PROVE plan'[t] = plan[t] /\ results'[t] = results[t]
  <2>1. Moves({u}, "running") /\ UNCHANGED results /\ results[u] = "none"
        /\ u \in batch /\ phase = "executing"
    BY <1>0, <1>4, StatusMoves DEF StartTask, TaskStatuses
  <2>2. t # u
    BY <1>0, <1>1, <2>1 DEF ResultsMatch, BatchAtWork
  <2> QED
    BY <2>1, <2>2 DEF Moves
<1>5. ASSUME NEW u \in Tasks, Working(u), NEW s \in {"waiting", "success", "error"}, SetResult(u, s)
      PROVE  plan'[t] = plan[t] /\ results'[t] = results[t]
  <2>1. Moves({u}, s) /\ results' = [results EXCEPT ![u] = s]
    BY <1>0, <1>5, StatusMoves DEF SetResult, TaskStatuses
  <2>2. t # u
    BY <1>1, <1>5 DEF Working
  <2> QED
    BY <1>0, <2>1, <2>2 DEF Moves, PlanShape
<1>6. ASSUME NEW u \in Tasks, TaskWaits(u) \/ TaskEnds(u) \/ TaskBreaks(u)
      PROVE  plan'[t] = plan[t] /\ results'[t] = results[t]
  BY <1>5, <1>6 DEF TaskWaits, TaskEnds, TaskBreaks, OutcomesOf
<1>7. ASSUME NEW u \in Tasks, NEW c \in Calls, NEW approved \in BOOLEAN, Resume(u, c, approved)
      PROVE  plan'[t] = plan[t] /\ results'[t] = results[t]
  <2>1. Moves(Waiting, "running") /\ UNCHANGED results /\ phase = "waiting"
    BY <1>0, <1>7, WaitingResume DEF Resume
  <2>2. t \notin Waiting
    BY <1>0, <1>1, <2>1 DEF ResultsMatch, Waiting, Ended
  <2> QED
    BY <2>1, <2>2 DEF Moves
<1>8. CASE UNCHANGED deepVars
  BY <1>8 DEF deepVars, planVars, taskVars
<1> QED
  BY <1>2, <1>3, <1>4, <1>6, <1>7, <1>8
  DEF DeepNext, PlannerStep, DeepTaskStep, Respond, RunFails, BeginBatch, RoundsExhausted, EndBatch,
      Cancel, RunCall, CallReturns, CallTools, ReadFails, planVars, taskVars

\* After a refusal a plan is only installed if its research was there before.
LEMMA StepHeedsRefusal ==
  ASSUME DeepInv, [DeepNext]_deepVars
  PROVE  RefusalNotBypassed
<1>0. Parts /\ BatchAtWork /\ PlanShape
  BY TypeIsPlanShape DEF Parts, DeepInv
<1> SUFFICES ASSUME facts.denied \/ facts.blocked, NEW t \in Tasks,
                    plan'[t].status # "absent", plan'[t].job \notin Synthesis
             PROVE  plan[t].status # "absent" /\ plan'[t].deps = plan[t].deps /\ plan'[t].job = plan[t].job
  BY DEF RefusalNotBypassed
<1>1. ASSUME NEW p \in Proposals, NEW s \in DOMAIN p, InstallPlan(p, s)
      PROVE  plan[t].status # "absent" /\ plan'[t].deps = plan[t].deps /\ plan'[t].job = plan[t].job
  <2>1. /\ Begun(t) => plan'[t] = plan[t]
        /\ plan'[t] = Merged(p)[t]
    BY <1>0, <1>1, Installed
  <2>2. CASE Begun(t)
    BY <2>1, <2>2 DEF Begun
  <2>3. CASE ~Begun(t) /\ t \in DOMAIN p
    <3>1. ~Finished(plan[t].status) /\ plan[t].status \in {"absent", "pending"}
      BY <2>3 DEF Begun, Finished
    <3>2. Merged(p)[t].deps = p[t].deps /\ Merged(p)[t].job = p[t].job
      BY <2>3, <3>1 DEF Merged
    <3>3. plan[t].status = "pending"
      BY <1>1, <2>1, <2>3, <3>1, <3>2 DEF InstallPlan, AddsResearch, MayAddResearch
    <3>4. ~Changes(p, t)
      BY <1>1, <2>1, <2>3, <3>2, <3>3 DEF InstallPlan, KeepsHistory
    <3> QED
      BY <2>1, <3>2, <3>3, <3>4 DEF Changes
  <2>4. CASE ~Begun(t) /\ t \notin DOMAIN p
    <3>1. Merged(p)[t] = IF plan[t].status = "pending"
                         THEN [plan[t] EXCEPT !.status = "canceled"] ELSE plan[t]
      BY <2>4 DEF Merged
    <3>2. plan[t] \in PlanTask
      BY <1>0 DEF PlanShape
    <3> QED
      BY <2>1, <3>1, <3>2 DEF PlanTask
  <2> QED
    BY <2>2, <2>3, <2>4
<1>2. ASSUME NEW S \in SUBSET Known(plan), NEW s \in TaskStatuses \ {"absent", "pending"}, Moves(S, s)
      PROVE  plan[t].status # "absent" /\ plan'[t].deps = plan[t].deps /\ plan'[t].job = plan[t].job
  BY <1>2 DEF Moves, Known
<1>3. CASE UNCHANGED deepVars
  BY <1>3 DEF deepVars, planVars
<1> QED
  BY <1>0, <1>1, <1>2, <1>3, StepMoves

-----------------------------------------------------------------------------
(***************************************************************************)
(* The theorems.                                                           *)
(***************************************************************************)

\* In every state a task that runs, waits or succeeded has only successful
\* dependencies and was handed what its place in the plan calls for, and a
\* completed run answers from all the research that succeeded: whatever plans
\* the model submits and however often (deep_plan.go, deep_task.go).
THEOREM PlanSound == DeepSpec => []DeepInv
<1> QED
  BY InitEstablishesDeepInv, StepKeepsDeepInv, PTL DEF DeepSpec

\* What was decided stands: a refused task makes no further call and never
\* succeeds, a finished task keeps its result and its place, and no replan
\* works around a refusal (tool_middleware.go, installPlan).
THEOREM PlanDecisions ==
  DeepSpec => [][RefusalEndsTask /\ FinishedIsFinal /\ RefusalNotBypassed]_deepVars
<1>1. DeepInv /\ [DeepNext]_deepVars => RefusalEndsTask /\ FinishedIsFinal /\ RefusalNotBypassed
  BY StepEndsRefused, StepKeepsFinished, StepHeedsRefusal
<1> QED
  BY <1>1, PlanSound, PTL DEF DeepSpec

-----------------------------------------------------------------------------
(***************************************************************************)
(* The run.                                                                *)
(***************************************************************************)

WorkInv == /\ part \in {"documents", "deep"}
           /\ part = "documents" => DocInv
           /\ part = "deep" => DeepInv

LEMMA StartsSound == WorkInit => WorkInv
BY InitEstablishesDocInv, InitEstablishesDeepInv DEF WorkInit, WorkInv

\* A step of one part is a step of its component.
LEMMA StepOfAPart ==
  ASSUME WorkInv, [WorkNext]_<<part, vars, deepVars>>
  PROVE  /\ UNCHANGED part
         /\ part = "documents" => [Next]_vars
         /\ part = "deep" => [DeepNext]_deepVars
BY DEF WorkNext

LEMMA StaysSound == WorkInv /\ [WorkNext]_<<part, vars, deepVars>> => WorkInv'
<1> SUFFICES ASSUME WorkInv, [WorkNext]_<<part, vars, deepVars>> PROVE WorkInv'
  OBVIOUS
<1>1. CASE part = "documents"
  BY <1>1, StepOfAPart, StepKeepsDocInv DEF WorkInv
<1>2. CASE part = "deep"
  BY <1>2, StepOfAPart, StepKeepsDeepInv DEF WorkInv
<1> QED
  BY <1>1, <1>2 DEF WorkInv

LEMMA WorkIsSound == WorkSpec => []WorkInv
BY StartsSound, StaysSound, PTL DEF WorkSpec

-----------------------------------------------------------------------------
\* Jobs, versions, chunks and the count of documents agree, however many
\* documents, requests and faults there are.
THEOREM RecordsAlwaysAgree == WorkSpec => []RecordsAgree
<1>1. WorkInv => RecordsAgree
  BY DEF WorkInv, RecordsAgree
<1> QED
  BY <1>1, WorkIsSound, PTL

\* Saved versions are only added to, and a quiet deletion is final.
THEOREM HistoryAlwaysStands == WorkSpec => HistoryStands
<1>1. ASSUME WorkInv, [WorkNext]_<<part, vars, deepVars>>, part = "documents"
      PROVE  VersionsAppendOnly /\ QuietDeletionIsFinal
  BY <1>1, StepOfAPart, StepAppends, QuietStays DEF WorkInv
<1>2. WorkInv /\ [WorkNext]_<<part, vars, deepVars>>
         => [part = "documents" => VersionsAppendOnly /\ QuietDeletionIsFinal]_vars
  BY <1>1
<1> QED
  BY <1>2, WorkIsSound, PTL DEF WorkSpec, HistoryStands

\* A task runs on the successful results its place in the plan calls for,
\* however often the plan is changed.
THEOREM PlansAreAlwaysSound == WorkSpec => []PlansAreSound
<1>1. WorkInv => PlansAreSound
  BY DEF WorkInv, DeepInv, PlansAreSound
<1> QED
  BY <1>1, WorkIsSound, PTL

\* The final answer was handed every research that succeeded.
THEOREM AnswerIsAlwaysComplete == WorkSpec => []AnswerIsComplete
<1>1. WorkInv => AnswerIsComplete
  BY DEF WorkInv, DeepInv, AnswerIsComplete
<1> QED
  BY <1>1, WorkIsSound, PTL

\* A result, a refusal and a failed side effect stand, whatever the planner
\* writes afterwards.
THEOREM DecisionsAlwaysStand == WorkSpec => DecisionsStand
<1>1. ASSUME WorkInv, [WorkNext]_<<part, vars, deepVars>>, part = "deep"
      PROVE  RefusalEndsTask /\ FinishedIsFinal /\ RefusalNotBypassed
  BY <1>1, StepOfAPart, StepEndsRefused, StepKeepsFinished, StepHeedsRefusal DEF WorkInv
<1>2. WorkInv /\ [WorkNext]_<<part, vars, deepVars>>
         => [part = "deep" => RefusalEndsTask /\ FinishedIsFinal /\ RefusalNotBypassed]_deepVars
  BY <1>1
<1> QED
  BY <1>2, WorkIsSound, PTL DEF WorkSpec, DecisionsStand
=============================================================================
