------------------------------ MODULE MCRecords ------------------------------
(***************************************************************************)
(* Records that several requests read and write at once, checked in one    *)
(* run: the space that is synchronised from DingTalk, the files with the   *)
(* quota, the binding of an account, the model configurations with their   *)
(* caches, and the settings of MCP connections; and what a start of the    *)
(* process finds and leaves: the indexes, the presets, what it has opened. *)
(* A behaviour is a behaviour of one part; the variables of the others are *)
(* not used in it.                                                         *)
(***************************************************************************)
EXTENDS DingTalkSync, DocumentFiles, DingTalkBinding, ModelConfig, McpConfig, Integers, TLC

CONSTANTS
    f1, dir, u1, u2, u3, n1, i1,
    Starts, Declared, Priors, NormalForm, Columns, Want,   \* of SchemaGuard
    InFile, Forms, Limits, MaxWrites,                      \* of DeployedTemplate
    MaxRequests, MaxRounds                                 \* of AppLifecycle

VARIABLES
    part,
    indexes, dimensioned, column, start, said,
    preset, up, form, promised,
    at, releases, opened, background, cancelled, roundsLeft, handlers, detached, accepted,
    timedOut, misused

schemaVars == <<indexes, dimensioned, column, start, said>>
presetVars == <<preset, up, form, promised>>
appVars == <<at, releases, opened, background, cancelled, roundsLeft, handlers, detached, accepted,
             timedOut, misused>>

-----------------------------------------------------------------------------
(* The instances.                                                          *)

\* A folder with one file, which DingTalk may or may not let us read.
SpaceParent == (dir :> Root) @@ (f1 :> dir)
SpaceKinds  == (dir :> {"folder"}) @@ (f1 :> {"readable", "unreadable"})

\* u1 and u2 have the same content, u2 and u3 the same name.
Kinds5    == [r \in Requests |-> IF r = n1 THEN "note"
                                 ELSE IF r = i1 THEN "import" ELSE "upload"]
Names5    == [r \in Requests |-> IF r = u3 THEN u2 ELSE r]
Contents5 == [r \in Requests |-> IF r = u3 THEN "b" ELSE "a"]
Sizes     == [a |-> 2, b |-> 1]

ModelRow(i) == [identity |-> i, key |-> "k", window |-> "w1", caps |-> "a", on |-> TRUE]
Rows == ("own" :> ModelRow("i")) @@ ("shared" :> ModelRow("i"))

NoChange == [identity |-> Keep, key |-> Keep, window |-> Keep, caps |-> Keep,
             on |-> Keep, reconfirm |-> FALSE]
SomeChanges == {[NoChange EXCEPT !.key = "l"],
                [NoChange EXCEPT !.on = FALSE],
                [NoChange EXCEPT !.window = "w2", !.caps = "b"],
                [NoChange EXCEPT !.identity = "j", !.window = "w2", !.caps = "b", !.reconfirm = TRUE]}

\* A user binds the template or adds a connection of their own.  The template
\* may come to ask for a field that nobody filled in.
Links == ("bound" :> "files") @@ ("own" :> Personal)
Owners == [c \in DOMAIN Links |-> "user"]
SchemaAccepts == ("any" :> {"good"}) @@ ("more" :> {})

\* Two declared indexes, one over the rows with a vector, and indexes of an
\* older schema or of an administrator: others of the method or of the
\* operators, fewer columns, columns that are only included or computed, one
\* over some of the rows, a name that another table has.
Index(name, table, method, keys) ==
    [name |-> name, table |-> table, method |-> method, keys |-> keys, included |-> <<>>,
     ops |-> "cosine", predicate |-> "whole", unique |-> FALSE]
VectorIndex == [Index("vec", "chunks", "ivfflat", <<"e">>) EXCEPT !.predicate = "given"]
MemoryIndex == Index("mem", "memories", "btree", <<"u", "a", "t">>)
OldIndexes == {[VectorIndex EXCEPT !.name = "old", !.method = "hnsw"],
               [VectorIndex EXCEPT !.predicate = "alike"],
               [VectorIndex EXCEPT !.name = "old", !.ops = "l2", !.predicate = "whole"],
               [MemoryIndex EXCEPT !.name = "old"],
               [MemoryIndex EXCEPT !.keys = <<"u", "a">>],
               [MemoryIndex EXCEPT !.name = "more", !.keys = <<"u">>, !.included = <<"a", "t">>],
               [MemoryIndex EXCEPT !.name = "more", !.keys = <<"computed", "u", "a", "t">>],
               [MemoryIndex EXCEPT !.name = "mem", !.table = "chunks"],
               [MemoryIndex EXCEPT !.name = "more", !.predicate = "given"]}
MCDeclared == <<VectorIndex, MemoryIndex>>
MCNormalForm == [whole |-> "whole", given |-> "given", alike |-> "given"]
MCPriors == {is \in SUBSET (OldIndexes \cup {VectorIndex, MemoryIndex}) :
                /\ \A i, j \in is : i.name = j.name => i = j}

MCColumns == {-1, 0, 1, 2}
MCWant == [p |-> 1, q |-> 2]

Schema == INSTANCE SchemaGuard

ASSUME IndexAssumption == Schema!SoundDeclarations

\* A deployment that changes an address; an administrator who changes limits.
MCInFile == [p |-> [url |-> "u", limit |-> "a"], q |-> [url |-> "v", limit |-> "a"]]

ASSUME StartAssumption == MaxWrites \in Nat /\ MaxRequests \in Nat /\ MaxRounds \in Nat

Presets == INSTANCE DeployedTemplate

Process == INSTANCE AppLifecycle

-----------------------------------------------------------------------------
(* One part at a time.                                                     *)

NoSync    == /\ source = 0 /\ lastSync = 0 /\ jobs = 0 /\ items = 0 /\ docs = 0 /\ imports = 0
             /\ kbCount = 0 /\ raced = 0 /\ syncFaults = 0
NoFiles   == /\ kb = 0 /\ request = 0 /\ row = 0 /\ disk = 0 /\ used = 0 /\ kbDocs = 0 /\ kbBytes = 0
NoBinding == /\ oauth = 0 /\ exchange = 0 /\ binding = 0
NoModels  == /\ models = 0 /\ cached = 0 /\ clients = 0 /\ call = 0 /\ served = 0 /\ verified = 0
             /\ spoiled = 0
NoLinks   == /\ template = 0 /\ link = 0 /\ clock = 0 /\ editor = 0 /\ task = 0 /\ told = 0

NoSchema  == /\ indexes = 0 /\ dimensioned = 0 /\ column = 0 /\ start = 0 /\ said = 0
NoPresets == /\ preset = 0 /\ up = 0 /\ form = 0 /\ promised = 0
NoProcess == /\ at = 0 /\ releases = 0 /\ opened = 0 /\ background = 0 /\ cancelled = 0 /\ roundsLeft = 0
             /\ handlers = 0 /\ detached = 0 /\ accepted = 0 /\ timedOut = 0 /\ misused = 0

\* A connection exists that is bound to the template, if there is one.
OneLink == {c \in DOMAIN link : link[c] = NoRow} =
              IF Exists(template["files"]) THEN {"bound"} ELSE {"own"}

Init ==
    /\ part \in {"sync", "files", "binding", "models", "links", "schema", "presets", "process"}
    /\ IF part = "sync"    THEN SyncInit ELSE NoSync
    /\ IF part = "files"   THEN FilesInit ELSE NoFiles
    /\ IF part = "binding" THEN BindingInit ELSE NoBinding
    /\ IF part = "models"  THEN ModelInit ELSE NoModels
    /\ IF part = "links"   THEN McpInit /\ OneLink ELSE NoLinks
    /\ IF part = "schema"  THEN Schema!SchemaInit ELSE NoSchema
    /\ IF part = "presets" THEN Presets!PresetInit ELSE NoPresets
    /\ IF part = "process" THEN Process!AppInit ELSE NoProcess

\* The variables of the five parts about records, and of the three about a start.
recordVars == <<syncVars, filesVars, bindingVars, modelVars, mcpVars>>
startVars  == <<schemaVars, presetVars, appVars>>

Next ==
    \/ /\ part = "sync" /\ SyncNext
       /\ UNCHANGED <<part, filesVars, bindingVars, modelVars, mcpVars, startVars>>
    \/ /\ part = "files" /\ FilesNext
       /\ UNCHANGED <<part, syncVars, bindingVars, modelVars, mcpVars, startVars>>
    \/ /\ part = "binding" /\ BindingNext
       /\ UNCHANGED <<part, syncVars, filesVars, modelVars, mcpVars, startVars>>
    \/ /\ part = "models" /\ ModelNext
       /\ UNCHANGED <<part, syncVars, filesVars, bindingVars, mcpVars, startVars>>
    \/ /\ part = "links" /\ McpNext
       /\ UNCHANGED <<part, syncVars, filesVars, bindingVars, modelVars, startVars>>
    \/ /\ part = "schema" /\ Schema!SchemaNext
       /\ UNCHANGED <<part, presetVars, appVars, recordVars>>
    \/ /\ part = "presets" /\ Presets!PresetNext
       /\ UNCHANGED <<part, schemaVars, appVars, recordVars>>
    \/ /\ part = "process" /\ Process!AppNext
       /\ UNCHANGED <<part, schemaVars, presetVars, recordVars>>

Spec == Init /\ [][Next]_<<part, recordVars, startVars>>

-----------------------------------------------------------------------------
(* The properties of the parts; each includes the types of its variables.  *)

\* Imports that overlap make one document of an item, unless both looked for
\* it before either had saved one (DingTalkSync).
ImportedOnce == part = "sync" => SyncInv

\* A document's file is on the disk, unless an upload of the same content
\* failed, and the quota is charged for the uploads that are there, no more
\* and no less (DocumentFiles).
FilesAreAccounted == part = "files" => FilesInv

\* An authorisation and a DingTalk account are used by one user each, however
\* exchanges overlap (DingTalkBinding).
BindingIsExclusive == part = "binding" => BindingInv

\* A configuration that is stored is one that its service accepted; a cached one
\* is outdated only after a race that the code accepts; and the client a request
\* uses is one of the configuration it resolved (ModelConfig).
ModelsAreVerified ==
    part = "models" => ModelInv /\ StoredWasVerified

\* What a user switched off stays off, whoever saves what they had read before;
\* and no call of a tool starts after the tool, its connection or the template
\* was switched off or deleted (McpConfig).
SwitchesHold ==
    /\ [](part = "links" => McpInv)
    /\ [][part = "links" => PermittedCall]_mcpVars

\* A start that is ready has the indexes and the column it needs, and makes none
\* that another one serves (SchemaGuard); no deployment takes back what an
\* administrator set (DeployedTemplate); and whatever order a start fails in or
\* the process stops in, nothing is used after it was closed, or left behind
\* (AppLifecycle).
StartIsSound ==
    /\ [](part = "schema" => Schema!SchemaInv)
    /\ [][part = "schema" => Schema!NoSecondIndex]_schemaVars
    /\ [](part = "presets" => Presets!PresetInv)
    /\ [](part = "process" => Process!AppInv)
=============================================================================
