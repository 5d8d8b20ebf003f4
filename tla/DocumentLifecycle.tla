------------------------- MODULE DocumentLifecycle -------------------------
(***************************************************************************)
(* A document from upload to soft deletion: its status, its processing     *)
(* jobs, its versions and the chunks retrieval reads                       *)
(* (internal/service/document_service.go and the repositories of           *)
(* documents, versions and jobs).                                          *)
(*                                                                         *)
(* An action is one committed transaction or one read; the goroutine of a  *)
(* job and the HTTP requests interleave between them, and the lines of one *)
(* request separated by an embedding call are separate actions.  Postgres  *)
(* runs the transactions at READ COMMITTED, so replacing the chunks of a   *)
(* document is three actions: the DELETE takes its snapshot, waits for the *)
(* rows another transaction is deleting, and the transaction commits.      *)
(*                                                                         *)
(* Each element of Requests is one HTTP request, made at most once.  A job *)
(* and a batch of chunks are named by the request that created them;       *)
(* First is the upload (or the note) itself.                               *)
(***************************************************************************)
EXTENDS Naturals, Sequences, FiniteSets

CONSTANTS
    Docs,       \* documents of one knowledge base
    Requests,   \* bound: requests made after the uploads
    First,      \* the name of the job an upload creates
    MaxFaults   \* bound: process crashes and database errors

ASSUME LifecycleAssumption ==
    /\ First \notin Requests
    /\ MaxFaults \in Nat
    /\ IsFiniteSet(Docs)

VARIABLES
    status,     \* documents.status
    job,        \* document_processing_jobs.status of the process jobs
    task,       \* the goroutine of each job
    versions,   \* document_versions: who wrote version 1, 2, ...
    chunks,     \* document_chunks, one element for all the chunks of a write
    req,        \* the HTTP requests
    kbCount,    \* knowledge_bases.document_count
    faults      \* how many faults happened

vars == <<status, job, task, versions, chunks, req, kbCount, faults>>

Writers == Requests \cup {First}

\* Uploaded is not here: Upload's transaction leaves it before it commits.
Statuses == {"absent", "processing", "ready", "failed", "deleted"}
JobStatuses == {"none", "pending", "running", "success", "failed"}
TaskPhases == {"none", "start", "parse", "save", "fail"}

Batch == [version : Nat \ {0}, by : Writers]

\* A request: what it does, to which document, how far it got, the version
\* number it read (Reindex) or drew (CreateVersion), the rows its DELETE saw.
RequestOf(ops, phases) ==
    [op : ops, doc : Docs, phase : phases, version : Nat, seen : SUBSET Batch]

Request == RequestOf({"process", "delete"}, {"checked"})
           \cup RequestOf({"version", "reindex"}, {"building", "replacing", "holding"})

Unused == [op |-> "none"]
Done == [op |-> "done"]

InFlight(r) == req[r] \notin {Unused, Done}

-----------------------------------------------------------------------------
Init ==
    /\ status = [d \in Docs |-> "absent"]
    /\ job = [d \in Docs |-> [w \in Writers |-> "none"]]
    /\ task = [d \in Docs |-> [w \in Writers |-> "none"]]
    /\ versions = [d \in Docs |-> <<>>]
    /\ chunks = [d \in Docs |-> {}]
    /\ req = [r \in Requests |-> Unused]
    /\ kbCount = 0
    /\ faults = 0

(***************************************************************************)
(* Creation.                                                               *)
(***************************************************************************)

\* Upload: document, quota and process job in one transaction, then the
\* goroutine is dispatched.
Upload(d) ==
    /\ status[d] = "absent"
    /\ status' = [status EXCEPT ![d] = "processing"]
    /\ job' = [job EXCEPT ![d][First] = "pending"]
    /\ task' = [task EXCEPT ![d][First] = "start"]
    /\ kbCount' = kbCount + 1
    /\ UNCHANGED <<versions, chunks, req, faults>>

\* CreateNote: no job row; processNote starts with the chunks.
CreateNote(d) ==
    /\ status[d] = "absent"
    /\ status' = [status EXCEPT ![d] = "processing"]
    /\ task' = [task EXCEPT ![d][First] = "parse"]
    /\ kbCount' = kbCount + 1
    /\ UNCHANGED <<job, versions, chunks, req, faults>>

(***************************************************************************)
(* The goroutine of a job: runProcessJob, and processNote (no job row).    *)
(***************************************************************************)

TaskMoves(d, w, phase) == task' = [task EXCEPT ![d][w] = phase]

\* A database error is a fault; only MaxFaults of them are explored.
Fault == faults < MaxFaults /\ faults' = faults + 1

\* MarkRunning: the job is always pending here, only its goroutine moves it.
\* On an error the job is failed at once.
StartJob(d, w) ==
    /\ task[d][w] = "start"
    /\ \/ /\ job' = [job EXCEPT ![d][w] = "running"]
          /\ TaskMoves(d, w, "parse")
          /\ UNCHANGED faults
       \/ /\ Fault
          /\ TaskMoves(d, w, "fail")
          /\ UNCHANGED job
    /\ UNCHANGED <<status, versions, chunks, req, kbCount>>

\* Extraction, splitting and embedding succeed or not.
ParseReturns(d, w) ==
    /\ task[d][w] = "parse"
    /\ \E phase \in {"save", "fail"} : TaskMoves(d, w, phase)
    /\ UNCHANGED <<status, job, versions, chunks, req, kbCount, faults>>

\* runProcessJob marks the document failed when the result is not saved;
\* processNote only logs.
AfterSaveError(d, w) == IF job[d][w] = "none" THEN "none" ELSE "fail"

\* The row of a finished job, where there is one.
JobEnds(d, w, s) ==
    job' = IF job[d][w] = "none" THEN job ELSE [job EXCEPT ![d][w] = s]

\* Variant: the version row is upserted.
SaveResultTx_Upsert(d, w) ==
    /\ versions' = [versions EXCEPT ![d] = <<w>>]
    /\ chunks' = [chunks EXCEPT ![d] = @ \cup {[version |-> 1, by |-> w]}]
    /\ status' = [status EXCEPT ![d] = "ready"]
    /\ JobEnds(d, w, "success")

\* SaveProcessResult: version 1, its chunks, the document and the job; the
\* unique (document_id, version_no) refuses a second version 1.
SaveResultTx(d, w) ==
    /\ versions[d] = <<>>
    /\ versions' = [versions EXCEPT ![d] = <<w>>]
    /\ chunks' = [chunks EXCEPT ![d] = @ \cup {[version |-> 1, by |-> w]}]
    /\ status' = [status EXCEPT ![d] = "ready"]
    /\ JobEnds(d, w, "success")

SaveResult(d, w) ==
    /\ task[d][w] = "save"
    /\ SaveResultTx(d, w)
    /\ TaskMoves(d, w, "none")
    /\ UNCHANGED <<req, kbCount, faults>>

\* The transaction committed but its answer was lost.
SaveAnswerLost(d, w) ==
    /\ task[d][w] = "save"
    /\ Fault
    /\ SaveResultTx(d, w)
    /\ TaskMoves(d, w, AfterSaveError(d, w))
    /\ UNCHANGED <<req, kbCount>>

\* The transaction is refused by the unique constraint, or rolled back.
SaveRefused(d, w) ==
    /\ task[d][w] = "save"
    /\ IF versions[d] # <<>> THEN UNCHANGED faults ELSE Fault
    /\ TaskMoves(d, w, AfterSaveError(d, w))
    /\ UNCHANGED <<status, job, versions, chunks, req, kbCount>>

\* Variant: only the job is marked.
MarkFailed_JobOnly(d, w) ==
    /\ task[d][w] = "fail"
    /\ JobEnds(d, w, "failed")
    /\ TaskMoves(d, w, "none")
    /\ UNCHANGED <<status, versions, chunks, req, kbCount, faults>>

\* MarkProcessFailed: whatever the document's status is by now.
MarkFailed(d, w) ==
    /\ task[d][w] = "fail"
    /\ status' = [status EXCEPT ![d] = "failed"]
    /\ JobEnds(d, w, "failed")
    /\ TaskMoves(d, w, "none")
    /\ UNCHANGED <<versions, chunks, req, kbCount, faults>>

\* Its error is ignored.
MarkFailedLost(d, w) ==
    /\ task[d][w] = "fail"
    /\ Fault
    /\ TaskMoves(d, w, "none")
    /\ UNCHANGED <<status, job, versions, chunks, req, kbCount>>

(***************************************************************************)
(* Process: the manual retry.                                              *)
(***************************************************************************)

Begin(r, op, d, phase, version) ==
    /\ req[r] = Unused
    /\ req' = [req EXCEPT ![r] = [op |-> op, doc |-> d, phase |-> phase,
                                  version |-> version, seen |-> {}]]
    /\ UNCHANGED <<status, job, task, versions, chunks, kbCount, faults>>

Finish(r) == req' = [req EXCEPT ![r] = Done]

BeginProcess(r, d) ==
    /\ status[d] = "failed"
    /\ Begin(r, "process", d, "checked", 0)

\* Variant: the status read by Process is trusted.
ClaimForProcessing_Unguarded(d) == status[d] # "absent"

\* The WHERE clause of CreateProcessJob's UPDATE.
ClaimForProcessing(d) == status[d] = "failed"

\* CreateProcessJob, then the goroutine is dispatched.
CommitProcess(r) ==
    /\ req[r].op = "process"
    /\ LET d == req[r].doc IN
       IF ClaimForProcessing(d)
       THEN /\ status' = [status EXCEPT ![d] = "processing"]
            /\ job' = [job EXCEPT ![d][r] = "pending"]
            /\ task' = [task EXCEPT ![d][r] = "start"]
       ELSE UNCHANGED <<status, job, task>>
    /\ Finish(r)
    /\ UNCHANGED <<versions, chunks, kbCount, faults>>

(***************************************************************************)
(* Delete.                                                                 *)
(***************************************************************************)

\* findDocument, and the SELECT that opens SoftDelete's transaction.
BeginDelete(r, d) ==
    /\ status[d] \notin {"absent", "deleted"}
    /\ Begin(r, "delete", d, "checked", 0)

\* Variant: the knowledge base is left alone.
CommitDelete_CountKept(r) ==
    /\ req[r].op = "delete"
    /\ status' = [status EXCEPT ![req[r].doc] = "deleted"]
    /\ Finish(r)
    /\ UNCHANGED <<job, task, versions, chunks, kbCount, faults>>

\* Variant: the count has no floor.
CommitDelete_NoFloor(r) ==
    /\ req[r].op = "delete"
    /\ status' = [status EXCEPT ![req[r].doc] = "deleted"]
    /\ kbCount' = kbCount - 1
    /\ Finish(r)
    /\ UNCHANGED <<job, task, versions, chunks, faults>>

\* The rest of the transaction: the UPDATE may find the row already deleted,
\* and the knowledge base is updated all the same.
CommitDelete(r) ==
    /\ req[r].op = "delete"
    /\ status' = [status EXCEPT ![req[r].doc] = "deleted"]
    /\ kbCount' = IF kbCount > 0 THEN kbCount - 1 ELSE 0
    /\ Finish(r)
    /\ UNCHANGED <<job, task, versions, chunks, faults>>

(***************************************************************************)
(* CreateVersion and Reindex.                                              *)
(***************************************************************************)

BeginCreateVersion(r, d) ==
    /\ status[d] = "ready"
    /\ Begin(r, "version", d, "building", 0)

\* Variant: findEditableDocument lets any stored document through.
BeginReindex_AnyStatus(r, d) ==
    /\ status[d] # "absent"
    /\ versions[d] # <<>>
    /\ Begin(r, "reindex", d, "building", Len(versions[d]))

\* Reindex works from the latest version it reads before embedding.
BeginReindex(r, d) ==
    /\ status[d] = "ready"
    /\ versions[d] # <<>>
    /\ Begin(r, "reindex", d, "building", Len(versions[d]))

\* The chunks are built; the transaction draws the version number, and its
\* DELETE sees the chunks committed so far.
ReplaceBegins(r) ==
    /\ InFlight(r) /\ req[r].phase = "building"
    /\ LET d == req[r].doc
           n == IF req[r].op = "version" THEN Len(versions[d]) + 1 ELSE req[r].version
       IN req' = [req EXCEPT ![r].phase = "replacing", ![r].seen = chunks[d],
                             ![r].version = n]
    /\ UNCHANGED <<status, job, task, versions, chunks, kbCount, faults>>

\* Rows that r and q would both delete.
Contended(r, q) == req[r].seen \cap req[q].seen \cap chunks[req[r].doc]

\* Variant: a transaction waits for those that wait as well.
MayLock_BothWait(r) ==
    \A q \in Requests \ {r} :
        InFlight(q) /\ req[q].phase \in {"replacing", "holding"} /\ req[q].doc = req[r].doc
            => Contended(r, q) = {}

\* The DELETE waits for a transaction that already deletes a row it saw.
MayLock(r) ==
    \A q \in Requests \ {r} :
        InFlight(q) /\ req[q].phase = "holding" /\ req[q].doc = req[r].doc
            => Contended(r, q) = {}

ReplaceLocks(r) ==
    /\ InFlight(r) /\ req[r].phase = "replacing"
    /\ MayLock(r)
    /\ req' = [req EXCEPT ![r].phase = "holding"]
    /\ UNCHANGED <<status, job, task, versions, chunks, kbCount, faults>>

\* Variant: the index has no unique constraint.
Accepted_NoIndexConstraint(r) ==
    req[r].op = "version" => req[r].version = Len(versions[req[r].doc]) + 1

\* The unique constraints on (document_id, version_no) and (version_id,
\* chunk_index): rows committed since the snapshot are not deleted.
Accepted(r) ==
    LET d == req[r].doc IN
    IF req[r].op = "version"
    THEN req[r].version = Len(versions[d]) + 1
    ELSE \A b \in chunks[d] \ req[r].seen : b.version # req[r].version

\* Variant: the old chunks of the version are deleted after the new ones are added.
ReplacedChunks_DeleteLast(r) ==
    {b \in chunks[req[r].doc] \ req[r].seen : b.version # req[r].version}

ReplacedChunks(r) ==
    (chunks[req[r].doc] \ req[r].seen) \cup {[version |-> req[r].version, by |-> r]}

\* The new version, the chunks and the document, whatever its status is by now.
\* The reindex job is inserted and finished here as well; nothing reads it.
ReplaceCommits(r) ==
    /\ InFlight(r) /\ req[r].phase = "holding"
    /\ LET d == req[r].doc IN
       IF Accepted(r)
       THEN /\ versions' = IF req[r].op = "version"
                           THEN [versions EXCEPT ![d] = Append(@, r)] ELSE versions
            /\ chunks' = [chunks EXCEPT ![d] = ReplacedChunks(r)]
            /\ status' = [status EXCEPT ![d] = "ready"]
       ELSE UNCHANGED <<versions, chunks, status>>
    /\ Finish(r)
    /\ UNCHANGED <<job, task, kbCount, faults>>

\* The embedding fails, the transaction is rolled back, or the client left.
RequestAborts(r) ==
    /\ InFlight(r)
    /\ Finish(r)
    /\ UNCHANGED <<status, job, task, versions, chunks, kbCount, faults>>

\* The process dies: goroutines and requests are gone, and nothing looks for
\* unfinished jobs when it starts again.
Crash ==
    /\ Fault
    /\ task' = [d \in Docs |-> [w \in Writers |-> "none"]]
    /\ req' = [r \in Requests |-> IF InFlight(r) THEN Done ELSE req[r]]
    /\ UNCHANGED <<status, job, versions, chunks, kbCount>>

-----------------------------------------------------------------------------
TaskStep(d, w) ==
    \/ StartJob(d, w)
    \/ ParseReturns(d, w)
    \/ SaveResult(d, w)
    \/ SaveAnswerLost(d, w)
    \/ SaveRefused(d, w)
    \/ MarkFailed(d, w)
    \/ MarkFailedLost(d, w)

\* A request goes on to its end.
RequestStep(r) ==
    \/ CommitProcess(r)
    \/ CommitDelete(r)
    \/ ReplaceBegins(r)
    \/ ReplaceLocks(r)
    \/ ReplaceCommits(r)

Next ==
    \/ \E d \in Docs :
          \/ Upload(d)
          \/ CreateNote(d)
          \/ \E w \in Writers : TaskStep(d, w)
    \/ \E r \in Requests :
          \/ \E d \in Docs : \/ BeginProcess(r, d)
                             \/ BeginDelete(r, d)
                             \/ BeginCreateVersion(r, d)
                             \/ BeginReindex(r, d)
          \/ RequestStep(r)
          \/ RequestAborts(r)
    \/ Crash

Spec == Init /\ [][Next]_vars

\* Goroutines are scheduled and the calls they make return.
Fairness ==
    /\ \A d \in Docs, w \in Writers : WF_vars(TaskStep(d, w))
    /\ \A r \in Requests : WF_vars(RequestStep(r))

FairSpec == Spec /\ Fairness

-----------------------------------------------------------------------------
(***************************************************************************)
(* Properties.                                                             *)
(***************************************************************************)

TypeOK ==
    /\ status \in [Docs -> Statuses]
    /\ job \in [Docs -> [Writers -> JobStatuses]]
    /\ task \in [Docs -> [Writers -> TaskPhases]]
    /\ versions \in [Docs -> Seq(Writers)]
    /\ chunks \in [Docs -> SUBSET Batch]
    /\ req \in [Requests -> Request \cup {Unused, Done}]
    /\ kbCount \in 0..Cardinality(Docs)
    /\ faults \in 0..MaxFaults

Active(d, w) == job[d][w] \in {"pending", "running"}

\* Whatever retries, deletions and edits race, a document never has two
\* process jobs under way: CreateProcessJob claims the document's status.
OneActiveJob ==
    \A d \in Docs : \A v, w \in Writers : Active(d, v) /\ Active(d, w) => v = w

\* No second goroutine or job of a document beside a goroutine at work; only a
\* crash parts a job from its goroutine.
OneJobAtWork ==
    \A d \in Docs : \A v, w \in Writers :
        task[d][w] # "none" /\ (task[d][v] # "none" \/ Active(d, v)) => v = w

\* The manual retry, which asks for the status failed, finds no other job.
FailedIsIdle ==
    \A d \in Docs : status[d] = "failed" =>
        \A w \in Writers : task[d][w] = "none" /\ ~Active(d, w)

\* Nothing belongs to a document that was not created yet.
AbsentIsUntouched ==
    /\ \A d \in Docs : status[d] = "absent" =>
          /\ \A w \in Writers : task[d][w] = "none" /\ job[d][w] = "none"
          /\ versions[d] = <<>> /\ chunks[d] = {}
    /\ \A r \in Requests : InFlight(r) => status[req[r].doc] # "absent"

\* Reindex replaces the chunks of a version that exists.
ReindexesSavedVersion ==
    \A r \in Requests : req[r].op = "reindex" => req[r].version \in 1..Len(versions[req[r].doc])

\* A version, once saved, is never changed, renumbered or removed, and the
\* numbers have no gap, however many editors save at once.
VersionsAppendOnly ==
    \A d \in Docs :
        /\ Len(versions'[d]) >= Len(versions[d])
        /\ SubSeq(versions'[d], 1, Len(versions[d])) = versions[d]

\* Each version has at most one generation of chunks in the index, even when
\* two requests rebuild it at the same time, and every generation belongs to a
\* version that exists.
OneGenerationPerVersion ==
    \A d \in Docs :
        /\ \A b \in chunks[d] : b.version \in 1..Len(versions[d])
        /\ \A a, b \in chunks[d] : a.version = b.version => a = b

\* A document that is ready has a version and chunks to retrieve.
ReadyIsSearchable ==
    \A d \in Docs : status[d] = "ready" => versions[d] # <<>> /\ chunks[d] # {}

\* The knowledge base never counts a document that was deleted and not revived.
CountNeverAhead ==
    kbCount <= Cardinality({d \in Docs : status[d] \notin {"absent", "deleted"}})

\* The parts above hold together: each step keeps all of them.
DocInv ==
    /\ TypeOK /\ OneActiveJob /\ OneJobAtWork /\ FailedIsIdle /\ AbsentIsUntouched
    /\ ReindexesSavedVersion /\ OneGenerationPerVersion /\ ReadyIsSearchable /\ CountNeverAhead

AtWork(d) ==
    \/ \E w \in Writers : task[d][w] # "none"
    \/ \E r \in Requests : InFlight(r) /\ req[r].doc = d

\* Once the work begun before a deletion is over, nothing brings the document
\* back: no new job, edit or retry starts on a deleted document.
QuietDeletionIsFinal ==
    \A d \in Docs :
        status[d] = "deleted" /\ ~AtWork(d) => status'[d] = "deleted" /\ ~AtWork(d)'

\* When neither the process nor the database fails, no document stays in
\* processing, and of the requests that wait for one another's row locks none
\* waits forever.
DocumentsComeToRest ==
    []<>(/\ \A d \in Docs : status[d] # "processing"
         /\ \A r \in Requests : ~InFlight(r))

\* What the comments say, and the code does not keep.

\* A soft-deleted document stays deleted: retrieval's only filter is the
\* status (internal/model/entity/chunk_visibility.go).
DeletedStaysDeleted ==
    [][\A d \in Docs : status[d] = "deleted" => status'[d] = "deleted"]_vars

\* When no work is left on a ready document, what retrieval reads is the latest
\* version and nothing else (document_service.go, Reindex: rebuilt from the
\* latest version).
IndexIsLatestVersion ==
    \A d \in Docs :
        status[d] = "ready" /\ ~AtWork(d)
            => \A b \in chunks[d] : b.version = Len(versions[d])
=============================================================================
