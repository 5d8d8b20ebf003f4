---------------------------- MODULE DingTalkSync ----------------------------
(***************************************************************************)
(* One synchronised DingTalk space: the source, the jobs that list its     *)
(* nodes, the items they leave behind, and the imports that turn an item   *)
(* into a document (sync_service.go, sync_repository.go).                  *)
(*                                                                         *)
(* A job runs in a goroutine that works on a copy of the source; an import *)
(* runs in its HTTP request.  Nothing restarts either of them.  Every step *)
(* below is one statement or transaction of the database.                  *)
(***************************************************************************)
EXTENDS Naturals, FiniteSets

CONSTANTS
    Nodes,          \* files and folders of the DingTalk space
    Root,           \* the folder the source names; not listed itself
    ParentOf,       \* [Nodes -> folders]
    KindsOf,        \* [Nodes -> what a listing may say the node is]
    Importers,      \* concurrent import requests
    SyncJobs,       \* jobs a user starts
    SyncedDocs,     \* primary keys new documents may get (bound)
    NoDoc,
    MaxVersions,    \* versions of one document (bound)
    MaxSyncFaults   \* crashes and refused updates (bound)

Kinds == {"folder", "sheet", "readable", "unreadable"}

ASSUME SyncAssumption ==
    /\ Root \notin Nodes
    /\ KindsOf \in [Nodes -> (SUBSET Kinds) \ {{}}]
    /\ ParentOf \in [Nodes -> {Root} \cup {n \in Nodes : "folder" \in KindsOf[n]}]
    /\ NoDoc \notin SyncedDocs \cup Importers
    /\ MaxVersions \in Nat \ {0} /\ MaxSyncFaults \in Nat

VARIABLES
    source,     \* status of the sync source
    lastSync,   \* last_sync_at is set
    jobs,       \* row and goroutine of every job
    items,      \* sync_items
    docs,       \* synced documents with their versions and chunks
    imports,    \* the import requests
    kbCount,    \* document_count of the knowledge base
    raced,      \* history: nodes two imports were about to insert at once
    syncFaults

syncVars == <<source, lastSync, jobs, items, docs, imports, kbCount,
              raced, syncFaults>>

Sources  == {"none", "normal", "disabled", "deleted"}
JobStates == {"none", "pending", "running", "success", "failed"}
Job  == [status : JobStates, goroutine : {"none", "queued", "scanning", "reporting"},
         todo : SUBSET Nodes, failed : BOOLEAN]
Item == [status : {"unknown", "pending", "importing", "imported", "failed"},
         kind : Kinds \cup {"none"}, doc : SyncedDocs \cup {NoDoc}]
Doc  == [state : {"unused", "ready", "failed", "deleted"}, node : Nodes \cup {Root},
         versions : 0..MaxVersions, chunksOf : 0..MaxVersions,
         lock : Importers \cup {NoDoc}]
Import == [pc : {"idle", "fetching", "fetched", "built", "saving", "marking", "failing"},
           node : Nodes \cup {Root}, doc : SyncedDocs \cup {NoDoc},
           row : SyncedDocs \cup {NoDoc}, kind : Kinds \cup {"none"}]

Idle     == [pc |-> "idle", node |-> Root, doc |-> NoDoc, row |-> NoDoc,
             kind |-> "none"]

Unlink(item) == [item EXCEPT !.status = "pending", !.doc = NoDoc]

Children(p) == {n \in Nodes : ParentOf[n] = p}
Known(n)    == items[n].status # "unknown"
IsLive(d)   == docs[d].state \in {"ready", "failed"}

\* Mutant: a document whose import failed is not looked for.
LiveDocs_ReadyOnly(n) == {d \in SyncedDocs : docs[d].state = "ready" /\ docs[d].node = n}

LiveDocs(n) == {d \in SyncedDocs : IsLive(d) /\ docs[d].node = n}
SourceFound == source \in {"normal", "disabled"}      \* not deleted
Fault       == syncFaults < MaxSyncFaults /\ syncFaults' = syncFaults + 1

\* Every row and counter is of its type, and the counter of the knowledge base
\* is the number of its documents.
SyncTypeOK ==
    /\ source \in Sources
    /\ lastSync \in BOOLEAN
    /\ jobs \in [SyncJobs -> Job]
    /\ items \in [Nodes -> Item]
    /\ docs \in [SyncedDocs -> Doc]
    /\ imports \in [Importers -> Import]
    /\ kbCount = Cardinality({d \in SyncedDocs : IsLive(d)})
    /\ raced \subseteq Nodes
    /\ syncFaults \in 0..MaxSyncFaults

SyncInit ==
    /\ source = "none" /\ lastSync = FALSE
    /\ jobs = [j \in SyncJobs |-> [status |-> "none", goroutine |-> "none",
                                   todo |-> {}, failed |-> FALSE]]
    /\ items = [n \in Nodes |-> [status |-> "unknown", kind |-> "none",
                                doc |-> NoDoc]]
    /\ docs = [d \in SyncedDocs |-> [state |-> "unused", node |-> Root,
                 versions |-> 0, chunksOf |-> 0, lock |-> NoDoc]]
    /\ imports = [r \in Importers |-> Idle]
    /\ kbCount = 0 /\ raced = {} /\ syncFaults = 0

-----------------------------------------------------------------------------
(* The source.  An update writes the status its request names or, if it    *)
(* names none, the one it has read, which may be either by then.           *)

CreateSource ==
    /\ source = "none"
    /\ source' = "normal"
    /\ UNCHANGED <<lastSync, jobs, items, docs, imports, kbCount, raced, syncFaults>>

UpdateSource ==
    /\ SourceFound
    /\ source' \in {"normal", "disabled"} \ {source}
    /\ UNCHANGED <<lastSync, jobs, items, docs, imports, kbCount, raced, syncFaults>>

DeleteSource ==
    /\ SourceFound
    /\ source' = "deleted"
    /\ UNCHANGED <<lastSync, jobs, items, docs, imports, kbCount, raced, syncFaults>>

-----------------------------------------------------------------------------
(* A job.  Its goroutine never reads the source again, so the check of the *)
(* source and the insertion of the job are one step.                       *)

CreateJob(j) ==
    /\ source = "normal"
    /\ jobs[j].status = "none"
    /\ jobs' = [jobs EXCEPT ![j].status = "pending", ![j].goroutine = "queued"]
    /\ UNCHANGED <<source, lastSync, items, docs, imports, kbCount, raced, syncFaults>>

MarkRunning(job) == [job EXCEPT !.status = "running"]
Finish(job, status) == [job EXCEPT !.status = status]

StartJob(j) ==
    /\ jobs[j].goroutine = "queued"
    /\ \/ /\ jobs' = [jobs EXCEPT ![j] =
                [MarkRunning(@) EXCEPT !.goroutine = "scanning", !.todo = Children(Root)]]
          /\ UNCHANGED syncFaults
       \/ /\ Fault        \* MarkRunning fails: logged, the row stays pending
          /\ jobs' = [jobs EXCEPT ![j].goroutine = "none"]
    /\ UNCHANGED <<source, lastSync, items, docs, imports, kbCount, raced>>

\* What the listing says of a node replaces what is known of it; the import
\* status and the link of a known item stay.
Upsert(n, k) ==
    items' = [items EXCEPT ![n].kind = k,
                           ![n].status = IF Known(n) THEN @ ELSE "pending"]

ScanNode(j, n, k) ==
    /\ jobs[j].goroutine = "scanning" /\ n \in jobs[j].todo
    /\ Upsert(n, k)
    /\ jobs' = [jobs EXCEPT ![j].todo =
                  (@ \ {n}) \cup (IF k = "folder" THEN Children(n) ELSE {})]
    /\ UNCHANGED <<source, lastSync, docs, imports, kbCount, raced, syncFaults>>

\* A node that cannot be saved is skipped with everything below it.
NodeFails(j, n) ==
    /\ jobs[j].goroutine = "scanning" /\ n \in jobs[j].todo
    /\ jobs' = [jobs EXCEPT ![j].todo = @ \ {n}, ![j].failed = TRUE]
    /\ UNCHANGED <<source, lastSync, items, docs, imports, kbCount, raced, syncFaults>>

\* A page that cannot be listed ends the folder it belongs to.
ListFails(j, p) ==
    /\ jobs[j].goroutine = "scanning" /\ Children(p) \cap jobs[j].todo # {}
    /\ jobs' = [jobs EXCEPT ![j].todo = @ \ Children(p), ![j].failed = TRUE]
    /\ UNCHANGED <<source, lastSync, items, docs, imports, kbCount, raced, syncFaults>>

FinishJob(j) ==
    /\ jobs[j].goroutine = "scanning" /\ jobs[j].todo = {}
    /\ \/ /\ jobs' = [jobs EXCEPT ![j] =
                [Finish(@, IF @.failed THEN "failed" ELSE "success")
                   EXCEPT !.goroutine = "reporting"]]
          /\ UNCHANGED syncFaults
       \/ /\ Fault        \* Finish fails: logged, the row stays running
          /\ jobs' = [jobs EXCEPT ![j].goroutine = "reporting"]
    /\ UNCHANGED <<source, lastSync, items, docs, imports, kbCount, raced>>

\* Written whatever became of the source; a failed job clears last_sync_at.
MarkSyncResult(j) ==
    /\ jobs[j].goroutine = "reporting"
    /\ lastSync' = ~jobs[j].failed
    /\ jobs' = [jobs EXCEPT ![j].goroutine = "none"]
    /\ UNCHANGED <<source, items, docs, imports, kbCount, raced, syncFaults>>

-----------------------------------------------------------------------------
(* An import.  MarkImporting asks for no status, so two of one item may    *)
(* run side by side.                                                       *)

BeginImport(r, n) ==
    /\ imports[r].pc = "idle"
    /\ Known(n) /\ items[n].kind \notin {"folder", "sheet"}
    /\ SourceFound
    /\ items' = [items EXCEPT ![n].status = "importing"]
    /\ imports' = [imports EXCEPT ![r] = [Idle EXCEPT !.pc = "fetching", !.node = n,
                                                       !.kind = items[n].kind]]
    /\ UNCHANGED <<source, lastSync, jobs, docs, kbCount, raced, syncFaults>>

\* The file is downloaded and read before anything is looked up.
DownloadFile(r) ==
    /\ imports[r].pc = "fetching" /\ imports[r].kind = "readable"
    /\ imports' = [imports EXCEPT ![r].pc = "fetched"]
    /\ UNCHANGED <<source, lastSync, jobs, items, docs, kbCount, raced, syncFaults>>

\* A new primary key; which one makes no difference.
Minted ==
    LET fresh == {d \in SyncedDocs : /\ docs[d].state = "unused"
                                     /\ \A r \in Importers : imports[r].doc # d}
    IN  IF fresh = {} THEN {} ELSE {CHOOSE d \in fresh : TRUE}

\* applyExistingDocumentID: the id of a live document of the node, or a new one.
LookUp(r) ==
    LET live == LiveDocs(imports[r].node) IN
    /\ \/ imports[r].pc = "fetched"
       \/ imports[r].pc = "fetching" /\ imports[r].kind # "readable"
    /\ \E d \in IF live # {} THEN live ELSE Minted :
         imports' = [imports EXCEPT ![r].pc = "built", ![r].doc = d]
    /\ UNCHANGED <<source, lastSync, jobs, items, docs, kbCount, raced, syncFaults>>

\* Mutant: a failed import returns its error and leaves the item as it is.
ImportFails_Unmarked(r) ==
    /\ imports[r].pc \in {"fetching", "fetched", "built", "saving"}
    /\ imports' = [imports EXCEPT ![r] = Idle]
    /\ docs' = [d \in SyncedDocs |-> [docs[d] EXCEPT !.lock = IF @ = r THEN NoDoc ELSE @]]
    /\ UNCHANGED <<source, lastSync, jobs, items, kbCount, raced, syncFaults>>

\* The download, the extraction, the embedding of the chunks or the
\* transaction fails.
ImportFails(r) ==
    /\ imports[r].pc \in {"fetching", "fetched", "built", "saving"}
    /\ imports' = [imports EXCEPT ![r].pc = "failing", ![r].row = NoDoc]
    /\ docs' = [d \in SyncedDocs |-> IF docs[d].lock = r
                  THEN [docs[d] EXCEPT !.lock = NoDoc] ELSE docs[d]]
    /\ UNCHANGED <<source, lastSync, jobs, items, kbCount, raced, syncFaults>>

\* SELECT ... FOR UPDATE at the head of SaveSyncedDocument and
\* SaveSyncedPlaceholder; it locks nothing when it finds nothing.
SaveLooks(r) ==
    LET n == imports[r].node
        live == LiveDocs(n) IN
    /\ imports[r].pc = "built"
    /\ \/ /\ live = {}
          /\ imports' = [imports EXCEPT ![r].pc = "saving"]
          /\ raced' = IF \E q \in Importers \ {r} : /\ imports[q].pc = "saving"
                                                    /\ imports[q].node = n
                                                    /\ imports[q].row = NoDoc
                      THEN raced \cup {n} ELSE raced
          /\ UNCHANGED docs
       \/ /\ \E d \in live :
               /\ docs[d].lock = NoDoc /\ docs[d].versions < MaxVersions
               /\ docs' = [docs EXCEPT ![d].lock = r]
               /\ imports' = [imports EXCEPT ![r].pc = "saving", ![r].row = d]
          /\ UNCHANGED raced
    /\ UNCHANGED <<source, lastSync, jobs, items, kbCount, syncFaults>>

\* The document as the transaction leaves it: a readable file gets a version
\* and the chunks of it, a placeholder keeps what it finds and is failed.
Saved(doc, i) ==
    IF i.kind = "readable"
    THEN [doc EXCEPT !.state = "ready", !.node = i.node, !.lock = NoDoc,
                     !.versions = @ + 1, !.chunksOf = doc.versions + 1]
    ELSE [doc EXCEPT !.state = "failed", !.node = i.node, !.lock = NoDoc]

\* The caller keeps the id it looked up, also when another row was updated.
SaveCommits(r) ==
    LET i == imports[r]
        row == IF i.row = NoDoc THEN i.doc ELSE i.row
        next == IF i.kind = "readable" THEN "marking" ELSE "failing" IN
    /\ i.pc = "saving"
    /\ IF i.row = NoDoc /\ docs[row].state # "unused"
       THEN /\ imports' = [imports EXCEPT ![r].pc = "failing"]   \* primary key
            /\ UNCHANGED <<docs, kbCount>>
       ELSE /\ docs' = [docs EXCEPT ![row] = Saved(@, i)]
            /\ kbCount' = IF i.row = NoDoc THEN kbCount + 1 ELSE kbCount
            /\ imports' = [imports EXCEPT ![r].pc = next, ![r].row = NoDoc]
    /\ UNCHANGED <<source, lastSync, jobs, items, raced, syncFaults>>

MarkImported(r) ==
    /\ imports[r].pc = "marking"
    /\ items' = [items EXCEPT ![imports[r].node].status = "imported",
                           ![imports[r].node].doc = imports[r].doc]
    /\ imports' = [imports EXCEPT ![r] = Idle]
    /\ UNCHANGED <<source, lastSync, jobs, docs, kbCount, raced, syncFaults>>

MarkImportFailed(r) ==
    /\ imports[r].pc = "failing"
    /\ items' = [items EXCEPT ![imports[r].node].status = "failed"]
    /\ imports' = [imports EXCEPT ![r] = Idle]
    /\ UNCHANGED <<source, lastSync, jobs, docs, kbCount, raced, syncFaults>>

\* Either update fails: the request ends, the item stays importing.
MarkLost(r) ==
    /\ imports[r].pc \in {"marking", "failing"} /\ Fault
    /\ imports' = [imports EXCEPT ![r] = Idle]
    /\ UNCHANGED <<source, lastSync, jobs, items, docs, kbCount, raced>>

-----------------------------------------------------------------------------
DeleteSynced_KeepsCount(d) ==
    /\ IsLive(d) /\ docs[d].lock = NoDoc
    /\ docs' = [docs EXCEPT ![d].state = "deleted"]
    /\ items' = [n \in Nodes |-> IF items[n].doc = d THEN Unlink(items[n]) ELSE items[n]]
    /\ UNCHANGED <<source, lastSync, jobs, imports, kbCount, raced, syncFaults>>

\* The user deletes a document: its item may be imported again.
DeleteSynced(d) ==
    /\ IsLive(d) /\ docs[d].lock = NoDoc
    /\ docs' = [docs EXCEPT ![d].state = "deleted"]
    /\ items' = [n \in Nodes |-> IF items[n].doc = d THEN Unlink(items[n]) ELSE items[n]]
    /\ kbCount' = IF kbCount > 0 THEN kbCount - 1 ELSE 0
    /\ UNCHANGED <<source, lastSync, jobs, imports, raced, syncFaults>>

\* ListItems begins by clearing the links to documents that are not there.
ResetDeletedDocumentLinks ==
    /\ SourceFound
    /\ items' = [n \in Nodes |->
                   IF items[n].doc # NoDoc /\ ~IsLive(items[n].doc)
                   THEN Unlink(items[n]) ELSE items[n]]
    /\ items' # items
    /\ UNCHANGED <<source, lastSync, jobs, docs, imports, kbCount, raced, syncFaults>>

\* The process dies with its goroutines, requests and open transactions.
SyncCrash ==
    /\ Fault
    /\ jobs' = [j \in SyncJobs |-> [jobs[j] EXCEPT !.goroutine = "none", !.todo = {}]]
    /\ imports' = [r \in Importers |-> Idle]
    /\ docs' = [d \in SyncedDocs |-> [docs[d] EXCEPT !.lock = NoDoc]]
    /\ UNCHANGED <<source, lastSync, items, kbCount, raced>>

JobStep(j) ==
    \/ StartJob(j) \/ FinishJob(j) \/ MarkSyncResult(j)
    \/ \E n \in Nodes : NodeFails(j, n) \/ \E k \in KindsOf[n] : ScanNode(j, n, k)
    \/ \E p \in Nodes \cup {Root} : ListFails(j, p)

ImportStep(r) ==
    \/ DownloadFile(r) \/ LookUp(r) \/ ImportFails(r) \/ SaveLooks(r) \/ SaveCommits(r)
    \/ MarkImported(r) \/ MarkImportFailed(r) \/ MarkLost(r)

SyncNext ==
    \/ CreateSource \/ UpdateSource \/ DeleteSource
    \/ \E j \in SyncJobs : CreateJob(j) \/ JobStep(j)
    \/ \E r \in Importers : ImportStep(r) \/ \E n \in Nodes : BeginImport(r, n)
    \/ \E d \in SyncedDocs : DeleteSynced(d)
    \/ ResetDeletedDocumentLinks \/ SyncCrash

-----------------------------------------------------------------------------
\* A node has two live documents only if two imports of it looked for a
\* document, found none, and were both about to insert one: a later import
\* never adds another, whatever was deleted, retried or interrupted before.
OneDocumentUnlessRaced ==
    \A n \in Nodes : \/ n \in raced
                     \/ Cardinality({d \in SyncedDocs : IsLive(d) /\ docs[d].node = n}) <= 1

\* While neither the process nor an update of a status fails, an item that
\* is being imported and a job that was started come to a result, also when
\* the source, the document or another import of the item changes meanwhile.
ImportResolves ==
    \A n \in Nodes : (items[n].status = "importing")
                        ~> (items[n].status # "importing" \/ syncFaults > 0)
JobResolves ==
    \A j \in SyncJobs : (jobs[j].status \in {"pending", "running"})
                        ~> (jobs[j].status \in {"success", "failed"} \/ syncFaults > 0)
SyncResolves == ImportResolves /\ JobResolves

\* Why an item has one document.  A transaction that updates a row has locked it,
\* and the row stays live and its item's.
LocksHold ==
    \A r \in Importers : imports[r].pc = "saving" /\ imports[r].row # NoDoc =>
        /\ docs[imports[r].row].lock = r /\ IsLive(imports[r].row)
        /\ docs[imports[r].row].node = imports[r].node
        /\ docs[imports[r].row].versions < MaxVersions

\* A transaction that is to insert a row found none, and unless two of them race,
\* there is none yet.
Inserting(r, n) == imports[r].pc = "saving" /\ imports[r].row = NoDoc /\ imports[r].node = n
InsertsMeetNothing ==
    \A r \in Importers, n \in Nodes \ raced : Inserting(r, n) =>
        LiveDocs(n) = {} /\ \A q \in Importers : Inserting(q, n) => q = r

ImportsFit ==
    /\ IsFiniteSet({d \in SyncedDocs : IsLive(d)})
    /\ \A d \in SyncedDocs : docs[d].state = "unused" => docs[d].versions = 0
    /\ \A r \in Importers : /\ imports[r].pc # "idle" => imports[r].node \in Nodes
                            /\ imports[r].pc \in {"built", "saving"} => imports[r].doc \in SyncedDocs
                            /\ imports[r].pc # "saving" => imports[r].row = NoDoc
    /\ \A n \in Nodes \ raced : \A d, e \in LiveDocs(n) : d = e

\* The inductive invariant of a synchronised space.
SyncInv == SyncTypeOK /\ OneDocumentUnlessRaced /\ LocksHold /\ InsertsMeetNothing /\ ImportsFit
=============================================================================
