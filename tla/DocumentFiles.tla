--------------------------- MODULE DocumentFiles ----------------------------
(***************************************************************************)
(* The files of one knowledge base, the rows of its documents, its         *)
(* counters and the storage quota of its owner (document_service.go,       *)
(* knowledge_base_service.go, storage_quota_repository.go).                *)
(*                                                                         *)
(* A file is named after the hash of its content, so documents of the same *)
(* content share one.  An upload passes its checks, stores the file, and   *)
(* then writes row, quota and processing job in one transaction; a note is *)
(* stored without the checks of name and quota; an import of a             *)
(* synchronised space is stored without looking at the knowledge base.     *)
(***************************************************************************)
EXTENDS Naturals, FiniteSets

CONSTANTS
    Requests,       \* requests that store a document
    RequestKind,    \* [Requests -> {"upload", "note", "import"}]
    FileName,       \* [Requests -> names]
    Content,        \* [Requests -> contents]
    SizeOf,         \* [contents -> Nat]
    MaxStorage      \* the quota of the user

ASSUME FilesAssumption ==
    /\ RequestKind \in [Requests -> {"upload", "note", "import"}]
    /\ DOMAIN FileName = Requests /\ DOMAIN Content = Requests
    /\ \A r \in Requests : SizeOf[Content[r]] \in Nat
    /\ MaxStorage \in Nat

VARIABLES
    kb,         \* status and source type of the knowledge base
    request,    \* where each request is
    row,        \* the document it stored: "none", "live" or "deleted"
    disk,       \* contents that lie in the directory of the knowledge base
    used,       \* used_storage_bytes of the user
    kbDocs,     \* document_count of the knowledge base
    kbBytes     \* storage_bytes of the knowledge base

filesVars == <<kb, request, row, disk, used, kbDocs, kbBytes>>

Contents  == {Content[r] : r \in Requests}
Size(r)   == SizeOf[Content[r]]
Bytes(rs) == UNION {{r} \X (1 .. Size(r)) : r \in rs}
Total(rs) == Cardinality(Bytes(rs))
Uploads   == {r \in Requests : RequestKind[r] = "upload"}
Uploaded  == {r \in Uploads : row[r] # "none"}
Live      == {r \in Requests : row[r] = "live"}
Steps     == {"new", "writable", "unnamed", "checked", "stored", "rolling",
              "done", "refused", "removed", "dead"}

\* Types, and the counters of the knowledge base agree with its documents.
FilesTypeOK ==
    /\ kb \in [status : {"normal", "deleted"}, source : {"local", "sync"}]
    /\ request \in [Requests -> Steps]
    /\ row \in [Requests -> {"none", "live", "deleted"}]
    /\ disk \subseteq Contents
    /\ used \in Nat
    /\ kbDocs = Cardinality(Live) /\ kbBytes = Total(Live)

FilesInit ==
    /\ kb = [status |-> "normal", source |-> "local"]
    /\ request = [r \in Requests |-> "new"]
    /\ row = [r \in Requests |-> "none"]
    /\ disk = {} /\ used = 0 /\ kbDocs = 0 /\ kbBytes = 0

At(r, step) == request[r] = step
Move(r, step) == request' = [request EXCEPT ![r] = step]

\* One check of a request: it goes on or answers with an error.
Check(r, from, ok, to) ==
    /\ At(r, from)
    /\ Move(r, IF ok THEN to ELSE "refused")
    /\ UNCHANGED <<kb, row, disk, used, kbDocs, kbBytes>>

FindWritable(r) ==
    /\ RequestKind[r] # "import"
    /\ Check(r, "new", kb = [status |-> "normal", source |-> "local"],
             IF r \in Uploads THEN "writable" ELSE "checked")

\* The request of a synchronised item has read its source, not the
\* knowledge base; creating the source has marked the knowledge base.
FindSource(r) ==
    /\ RequestKind[r] = "import" /\ kb.source = "sync"
    /\ Check(r, "new", TRUE, "checked")

CheckName(r) ==
    Check(r, "writable", \A q \in Live : FileName[q] # FileName[r], "unnamed")

CheckQuota(r) ==
    Check(r, "unnamed", used + Size(r) <= MaxStorage, "checked")

\* saveStream and saveSyncedFile: the same content, the same path.
SaveFile(r) ==
    /\ At(r, "checked")
    /\ \/ disk' = disk \cup {Content[r]} /\ Move(r, "stored")
       \/ disk' = disk /\ Move(r, "refused")
    /\ UNCHANGED <<kb, row, used, kbDocs, kbBytes>>

StoreRow_ChargesAll(r) ==
    /\ At(r, "stored")
    /\ Move(r, "done")
    /\ row' = [row EXCEPT ![r] = "live"]
    /\ kbDocs' = kbDocs + 1 /\ kbBytes' = kbBytes + Size(r)
    /\ used' = used + Size(r)
    /\ UNCHANGED <<kb, disk>>

\* Row and counters; for an upload the quota too, in the same transaction.
StoreRow(r) ==
    /\ At(r, "stored")
    /\ Move(r, "done")
    /\ row' = [row EXCEPT ![r] = "live"]
    /\ kbDocs' = kbDocs + 1 /\ kbBytes' = kbBytes + Size(r)
    /\ used' = IF r \in Uploads THEN used + Size(r) ELSE used
    /\ UNCHANGED <<kb, disk>>

\* Only an upload takes its file back.
StoreFails(r) ==
    /\ At(r, "stored")
    /\ Move(r, IF r \in Uploads THEN "rolling" ELSE "refused")
    /\ UNCHANGED <<kb, row, disk, used, kbDocs, kbBytes>>

RemoveFile(r) ==
    /\ At(r, "rolling")
    /\ disk' = disk \ {Content[r]}
    /\ Move(r, "removed")
    /\ UNCHANGED <<kb, row, used, kbDocs, kbBytes>>

DeleteDocument_RemovesFile(r) ==
    /\ row[r] = "live"
    /\ row' = [row EXCEPT ![r] = "deleted"]
    /\ disk' = disk \ {Content[r]}
    /\ kbDocs' = kbDocs - 1 /\ kbBytes' = kbBytes - Size(r)
    /\ UNCHANGED <<kb, request, used>>

\* The file and the quota stay as they are.
DeleteDocument(r) ==
    /\ row[r] = "live"
    /\ row' = [row EXCEPT ![r] = "deleted"]
    /\ kbDocs' = IF kbDocs > 0 THEN kbDocs - 1 ELSE 0
    /\ kbBytes' = IF kbBytes >= Size(r) THEN kbBytes - Size(r) ELSE 0
    /\ UNCHANGED <<kb, request, disk, used>>

BindSource ==
    /\ kb = [status |-> "normal", source |-> "local"]
    /\ kb' = [kb EXCEPT !.source = "sync"]
    /\ UNCHANGED <<request, row, disk, used, kbDocs, kbBytes>>

\* The documents of a deleted knowledge base are not touched.
DeleteKnowledgeBase ==
    /\ kb.status = "normal"
    /\ kb' = [kb EXCEPT !.status = "deleted"]
    /\ UNCHANGED <<request, row, disk, used, kbDocs, kbBytes>>

\* The process dies between two steps of a request; an open transaction is
\* undone, a stored file stays.
RequestDies(r) ==
    /\ request[r] \in {"writable", "unnamed", "checked", "stored", "rolling"}
    /\ Move(r, "dead")
    /\ UNCHANGED <<kb, row, disk, used, kbDocs, kbBytes>>

StoreStep(r) ==
    \/ FindWritable(r) \/ FindSource(r) \/ CheckName(r) \/ CheckQuota(r)
    \/ SaveFile(r) \/ StoreRow(r) \/ StoreFails(r) \/ RemoveFile(r)

FilesNext ==
    \/ \E r \in Requests : StoreStep(r) \/ RequestDies(r) \/ DeleteDocument(r)
    \/ BindSource \/ DeleteKnowledgeBase

FilesSpec == FilesInit /\ [][FilesNext]_filesVars

-----------------------------------------------------------------------------
\* A document's file is on disk unless an upload of the same content failed
\* in its transaction and removed it: no deletion, crash, refused request or
\* failed note takes a file away from a document that shares it.
FileLostOnlyByFailedUpload ==
    \A r \in Live : Content[r] \in disk
        \/ \E q \in Uploads : At(q, "removed") /\ Content[q] = Content[r]

\* The quota is the bytes of all documents ever uploaded, deleted ones too:
\* none is charged twice, none stored free, and notes and imports never are.
QuotaCountsUploads == used = Total(Uploaded)

\* docs/PRD.md, BR-001: a user never stores more than the quota.  The check
\* reads the quota long before the transaction charges it.
QuotaRespected == used <= MaxStorage

\* Why it is so.  What is stored lies on the disk before its row does, and only an
\* upload takes it back; a row is written once.
StoredLies ==
    /\ IsFiniteSet(Live) /\ IsFiniteSet(Bytes(Live)) /\ IsFiniteSet(Bytes(Uploaded))
    /\ \A r \in Requests :
        /\ At(r, "stored") => Content[r] \in disk
               \/ \E q \in Uploads : At(q, "removed") /\ Content[q] = Content[r]
        /\ request[r] \in {"writable", "unnamed", "rolling"} => r \in Uploads
        /\ ~At(r, "done") => row[r] = "none"

\* The inductive invariant of the files and the quota.
FilesInv == FilesTypeOK /\ FileLostOnlyByFailedUpload /\ QuotaCountsUploads /\ StoredLies
=============================================================================
