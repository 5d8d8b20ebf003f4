# Verification of Solvify-Agent

TLA+ models, TLC runs and machine-checked proofs about the parts of
Solvify-Agent whose correctness depends on the order in which goroutines, HTTP
requests, database transactions, crashes and late answers happen.

Contents: 1 the system, 2 the models, 3 the runs and their bounds, 4 fairness,
5 proofs, 6 where code and comments disagree, 7 what is not modelled and the
plan.  Paths are relative to `src/`; `service/`, `repository/`, `agent/` and
`tool/` are directories of `src/internal/`.

## 1. The system

A Go back end (Gin, GORM on PostgreSQL with pgvector, Redis) that answers
questions over users' knowledge bases with a retrieval-augmented agent, and a
Vue front end.  One process runs the HTTP API, the agent, the background
goroutines of document processing and synchronisation, and the embedding
workers; several processes may share one database.

| Component | State it keeps | What is hard | What makes it correct | Module |
|---|---|---|---|---|
| Message embedding queue (`service/message_embedding_worker.go`, `repository/message_embedding_repository.go`) | the `embedding_*` columns of `chat_messages` | leases that run out under a working loop, crashes, lost answers, shutdown | one loop settles a claim, no late vector is stored, every job is resolved | `MessageEmbedding`, refines `EmbeddingJob` |
| Documents and versions (`service/document_service.go` and its repositories) | `documents.status`, jobs, versions, chunks, `document_count` | requests and goroutines that act on a status read long ago; chunks replaced at READ COMMITTED | one job at a time, versions only appended, one generation of the index, deletion is final | `DocumentLifecycle` |
| Files and quota (`service/document_service.go`, `knowledge_base_service.go`) | one file per content hash, used bytes per user | a file shared by documents, a check long before a charge | no document without its file, what is charged is what is there | `DocumentFiles` |
| DingTalk synchronisation (`service/sync_service.go`) | sources, jobs, items | goroutines nothing restarts, imports side by side | one document per item, nothing stays open | `DingTalkSync` |
| DingTalk binding (`service/dingtalk_service.go`) | a one-time state, bindings | two exchanges at once | one user per account, one exchange per scan | `DingTalkBinding` |
| Deep agent (`agent/deep_*.go`) | `peState`: plan, batch, results, what was denied | plans rewritten by a model between batches, parallel calls approved one by one | results only from what a task was handed, refusals stand, a run ends | `DeepPlan` |
| Older deep checkpoints (`agent/deep_legacy_resume.go`) | plan, results and cards in a checkpoint | tasks that wait, fail and finish side by side; the state and the card saved by two goroutines, a run cut off between them | the shown card fits the kept state, or its answer repeats nothing | `LegacyResume` |
| Agent run (`agent/runner_adapter.go`, tool and model middlewares) | rounds, checkpoint, text shown | attempts that break off, several cards of one message | only approved calls run, the answer is whole | `AgentRun` |
| Choice of tools (`agent/engine_tools.go`) | registry, prepared bundle | a run resumed by a message of other choices | nothing dangerous unguarded, nothing outside the choice | `ToolSet` |
| Chat turns and resume (`service/chat_service_mode.go`, `service/chat_resume.go`, `agent/execute.go`) | the card of a session, checkpoint rows | two goroutines per turn, no exclusion between turns, disconnections, restarts | an approval runs the call it was given for, once; the question is not lost; a turn ends | `ChatTurn` |
| Model streams (`llm/model_timeout.go`) | timers of one call | callbacks that come late, slow readers | silent calls end, live ones are not cut | `ModelStream` |
| Answers on their way (`agent/citation_stream.go`, `agent/deep_answer_stream.go`) | a filter and a decoder | fragments cut anywhere | what is shown is what is stored | `CitationStream`, `AnswerDecoder` |
| Run context (`agent/context_*.go`, `budget_guard.go`, `model_recovery.go`) | messages of a run, artifacts, summaries | rewriting before every call, expiry while a run waits | calls have their results, nothing is lost unsummarised | `RunContext`, `ArtifactReading` |
| Session context and summary (`service/context_service.go`) | `session_summaries` | computed outside the transaction that stores them | the covered range grows without holes | `SessionContext` |
| Retrieval (`rag/`, `tool/knowledge_search.go`) | nothing | two sides and a remote service that fail separately | the best hit survives, one kind of score | `Retrieval` |
| Models, Redis caches, clients (`service/user_model_config_service.go`, cached repositories, `llm/client_cache.go`) | rows, cached copies, clients | a read that straddles an update, a test that takes a minute | what is stored was verified, copies are outdated only by a race the code accepts | `ModelConfig` |
| MCP configuration (`service/mcp_*.go`, `repository/mcp_*.go`) | connections, templates, switches | forms opened before a switch, tools discovered before it | what is off stays off and is not called | `McpConfig` |
| MCP connection pool (`tool/mcpclient/`) | entries by configuration hash, a reference count each | two locks, initialisation under nobody's lock, eviction against borrowing | no connection is closed under a call, none is lost | `McpPool` |
| Accounts, login (`service/auth_service.go`, `user_service.go`, `middleware/auth.go`, `pkg/jwt`, `pkg/captcha`) | users, codes, revoked tokens | requests made of several queries, times of tokens | what was withdrawn stays so | `Accounts`, `LoginTokens` |
| Chunking and embedding of texts (`service/document_chunk_service.go`, `embedding_service.go`) | nothing | vectors that come in any order, under indexes | the chunks are the text, each with its own vector | `TextVectors` |
| Vectors of questions (`app/app.go`, `pkg/cache`) | a map, Redis, shared calls | one call for several requests, with the context of the first | a vector is paid for once, the map is bounded | `QueryVectors` |
| Database at start (`pkg/database/`) | indexes, a vector column | several processes start on a database of another version | what is reported ready serves | `SchemaGuard` |
| Deployed MCP templates (`app/mcp_loader.go`) | rows of `mcp_templates` | files and administrators write one row | a deployment takes back no edit | `DeployedTemplate` |
| Application lifecycle (`app/app.go`) | connections, two background tasks | a start that fails half-way, handlers that outlast a shutdown | nothing uses what is closed, nothing is left | `AppLifecycle` |
| HTTP API, other infrastructure, front end, deployment, memories, profile, feedback | single rows and keys | one statement each | - | - |

How they interact.  An HTTP request of a chat session reads the session,
its summary and the retrieved chunks, starts a turn and streams its events.  The
turn stores messages, each with its embedding job in the same INSERT (the queue
is the column set of that row: no second table, no broker).  The engine runs
either a single agent or the deep agent; both call tools, among them the tools
of MCP servers, through the pool.  A dangerous call stops the run; what is left
of it is a checkpoint row, written by the engine, and a card in the session,
written by the service; the next message of the session answers it.  Documents
reach retrieval through their chunks, filtered by `documents.status`; uploads,
notes, edits and DingTalk imports all go through the document service.

`PROJECT.json` lists every component with its files, the hazards with the line
where each bites, and for every definition the lines it models.

## 2. The models

The modules share a style. An action is what the code does without anything else
being able to come in between: one SQL statement or transaction, one critical
section of a mutex, one event on a channel. Definitions keep the names of the
functions they model. Definitions such as `SettledRow_KeepsLease` or
`TryMarkEvicted_Borrowed` with an underscore stand beside the definition they
vary and are used by no specification: each is a plausible bug of that code (a
dropped guard, a swapped order). `PROJECT.json` lists, under "mutants", one for
every property the runs check; the others break further conjuncts of the same
properties.

Most components share no state with each other: they meet in the database rows
and the calls named above, and each module has in its own actions what its
neighbours may do to it.  Five instances therefore put several components into
one specification as a sum: a variable `part`, chosen in the initial state, says
which component this behaviour is about, and the variables of the others never
change.  A property of the instance is the implication from `part` to the
properties of the component, its type invariant included.  So one run asks one
question of several components, without the product of their states.

| Instance | Components |
|---|---|
| `MCMessageEmbedding`, `MCMcpPool` | the queue; the pool (for symmetry) |
| `MCDocumentLifecycle`, `MCDeepPlan` | the small instances of the refuted statements |
| `MCWork` | documents; deep plans |
| `MCResolution` | streams; the queue; documents; a space; deep plans: with the fairness of each |
| `MCRecords` | a space; files; bindings; model configurations; MCP configuration; the database, the templates and the process at a start |
| `MCContext` | session context; retrieval; citations; the decoder; run context; chunks; vectors of questions |
| `MCServices` | tool sets; reading of artifacts; accounts; tokens; agent runs; older checkpoints |

In `DeepPlan` and a few others Init, Next and similar names carry the name of
the component (`DeepInit`, `SyncNext`), so that an instance can extend several.

### MessageEmbedding

| Variable | Code |
|---|---|
| `row` | `embedding_status`, `_attempts`, `_available_at` (as `due`), `_lease_until` (as `lease`), `_token` and the vector of a message |
| `pc`, `job` | where the goroutine of a loop is in `Run`, and its `ClaimedMessageEmbedding` |
| `mode` | the process: up, its context cancelled, down |
| `claims` | how many claims a row has had; the UUID of a claim is its ordinal |
| `stops`, `backfills` | bounds |

`PersistMessage` is the INSERT; `Sweep`, `Pick`, `PickNothing` are the two
statements of Claim; `EmbedReturns` is the embedding call with its verdict;
`Settle` is Complete, Fail or Release, each with its WHERE clause on the token
and the lease; `PickAnswerLost`, `ClaimFails` and `SettleFails` are the database
errors; `QueueMissing` is the maintenance command; `LeaseRunsOut` and
`BackoffElapses` are the clock.  A lease may run out under a loop that still
works.  The refinement maps the status of a row to the phase of its job.

### DocumentLifecycle

`status`, `job`, `versions`, `chunks` and `kbCount` are tables; `task` is the
goroutine of each job; `req` is what an HTTP request knows between its read and
its transaction.  The goroutine is `StartJob`, `ParseReturns`, `SaveResult`,
`MarkFailed` and their failures (`SaveAnswerLost`: the transaction committed but
its answer did not arrive).  A request begins with its read (`Begin...`) and ends
with its transaction.  Replacing the chunks of a document is three actions: the
DELETE takes its snapshot (`ReplaceBegins`), waits for the rows another
transaction deletes (`ReplaceLocks`), and the transaction commits
(`ReplaceCommits`); at READ COMMITTED the rows the other one inserted are not in
the snapshot.  The unique constraints on (document, version, index) decide
whether the commit is accepted.  All the chunks of one write are one element.

### DeepPlan

`plan`, `version`, `batch`, `round`, `results` and `facts` are the fields of
`peState`; `calls` are the dangerous calls of a task and how far they are;
`given` records the tasks whose results were put into a task's prompt.  The
language model is nondeterministic: it submits any plan of `Proposals`, and
`InstallPlan` with its checks (`WellFormed`, `KeepsHistory`, `MayAddResearch`,
`Sound`) accepts it or not.  A batch is `BeginBatch`, the tasks in parallel, and
`EndBatch`, which waits for all of them.  An approved call is two actions,
`RunCall` and `CallReturns`, because others run in between.  `TaskBreaks` is the
error that ends the run.  Left out: titles, summaries, evidence, artifacts, and
the clarifying questions of a task, which interrupt in the same way and record
nothing.  A direct plan is a sequential plan of one synthesis.  What a task is
(its agent and its description) is one value, `job`.

### ChatTurn

A turn is the message that starts it, numbered in sending order, with two
goroutines: the service's (`pc`) and the engine's (`engine`), joined by a channel
(`event`).  `pending` is the card of the session, `store` the checkpoint rows,
named by the turn whose run they keep.  `shown` is the card on the page when the
message was sent and `target` the one it is applied to: an approval is a text and
names no card.  The single agent keeps the row of a run that fails, the plan
engine deletes it in a defer (`Cleanup`).  A clarifying question is a question
that is refused: its answer executes nothing.  `executed`, `spoiled` and
`rivals` are history and no action reads them: which turn executed which call;
checkpoints two turns worked on at once, or whose turn was killed or could not
clear its card; and the turns that overlap a turn.  Left out: a checkpoint the
library fails to save, a row that cannot be deleted, a page that shows a card of
another tab, and the deletion of a session.

### McpPool

`pool` is `p.clients`, `conn` the connection and the initialisation of an entry,
`lease` its reference count and eviction mark, `caller` the requests, `closer`
the goroutine that closes the pool.  `p.mu` is the variable `mu`, because a sweep
keeps it from step to step; the `leaseMu` of an entry is held for one step only
and is that step.  Which entries a full pool gives up (the least recently used)
is left open, as are the age of a failure and of a tool list; only entries of
the pool grow idle, since only they can be swept.  A configuration stands for
its hash.  `Close` may close a borrowed connection: the code does so on
purpose, and `BorrowedStaysOpen` leaves it out.


### DocumentFiles

`disk` is the directory of the knowledge base, `row` what each request stored,
`used`, `kbDocs` and `kbBytes` the counters.  An upload is `FindWritable`,
`CheckName`, `CheckQuota`, `SaveFile` and then `StoreRow` or `StoreFails`, after
which `RemoveFile` follows; a note leaves out the two checks and an import looks
for its source instead.  Deletion of a document, of the knowledge base, and a
source bound in between are actions of others.  A content stands for its hash
and its size.

### DingTalkSync

A space is a small tree.  A job (`StartJob`, `ScanNode`, `FinishJob`,
`MarkSyncResult`) lists it into `items`; an import is the steps between which
others run: the mark without a condition (`BeginImport`), the download, `LookUp`
of an earlier document, the look and the commit of the save, and the mark at its
end (or `MarkLost`).  `Unlink` is what the deletion of a document does to its
item.  Every step may fail, and a crash stops all of them; there is no recovery
to model.  The pages of a listing are one step.

### DingTalkBinding

The state of a QR code, taken once by `ValidateState`; the exchange asks who
scanned it, looks for another owner, and writes; the unique indexes decide
between two that passed the look.

### ModelConfig

Rows, the Redis copies and the least-recently-used cache of clients.  A request
is a lookup in the cache, the read, the fill, the candidate (what a change of
the deployment does to its capabilities), the live test (`Verify`), the save of
the whole row, the removal from the cache.  Lookups and removals in Redis may
fail, entries expire.  `verified` and `spoiled` are history: the configurations
a test accepted, and the entries written late or not removed.

### McpConfig

Connections, their templates and an `updated_at` each; forms that were opened on
an older row (`EditConnection`, then `UpdateConnection` with its version), the
switches of connections, templates and single tools, probes that take long, and
agents that list the tools (`ListConnections`) and call one much later
(`CallTool` with the check of `Checked`).  `told` is what the answers said.

### SessionContext

A message is its position in the session; its content is the number of its tokens
(`Tokens`).  A turn asks, loads summary, recent and recalled messages with queries
that may each fail (`Load`, `LoadSummary`), is given a budget, assembles
(`ApplySummary`, `TruncateHistory`, the recall containers) and answers; its
goroutine lists the messages, reads the summary, and stores a new one by `Upsert`,
whose condition lets the wider range win.  A history is the messages, what they cost
as they are shown, and whether one ends in the truncation marker: the question of a
pair that does not fit is cut to what is left and the marker comes on top, an open
question is cut but keeps `TailSpare` tokens, and a recalled message costs its label
as well.  `overtaken` marks the case described in section 6.

### Retrieval

One search.  Both sides, `Fuse` with its floors and its rank scores, `Rerank` and
its retries, `Expand`, `Deduplicate` and `Collect`; documents are deleted between
the steps (`DeleteFound`) and each query sees only visible ones.  A score is one
of three values on either side of the thresholds.

### CitationStream and AnswerDecoder

Both take an answer in fragments cut anywhere, in all ways within the bounds.
`CitationStream` has characters as symbols, one small alphabet per behaviour
(tags, code marks, links, escapes); the last text is filtered once more as a
whole, as the code does before it stores.  `AnswerDecoder` has the bytes of a
JSON string: escapes, surrogate pairs, characters of several bytes.

### RunContext

The messages of one run as sequences; before each call of the model `BeforeModel`
shows large results as far as the budget allows, summarises finished rounds,
drops old conversation and material, and tries once more after a rejection.
Artifacts expire while a run waits.  A message costs 1 and what it shows.

### ArtifactReading

Stored results as lines under headings or as members of a JSON document; pages by
offset and by locator, shortened until their encoding fits (`Page`), the
references they leave in a task's result, and the evidence the review is given
from these.

### ToolSet

The registration of the program's tools, the bundle a message prepares, what
quick, single deep and planned agents mount and list, which tools are guarded,
and what a run that is resumed by another message gets.  A tool is its name, its
domain and what it reaches.

### Accounts and LoginTokens

`Accounts` has requests as plans of single queries over the users table, the mail
codes and the cached choice of a model.  `LoginTokens` has captchas, tokens with
an end, the blacklist with its time to live, and the check of a request.

### AgentRun

Rounds of a model call and its tools: `CallModel`, the fragments, errors and
retries of a stream, `Go` (may this tool run now), `Pause` and `Resume` with one
card of a message, `Finish`, `Fallback`, `Cancel`.  `answer` and `shown` are
pieces of text by round and attempt.  `ghost` is history: which tools ran and
which were approved, which attempts broke off.

### LegacyResume

Tasks of an older checkpoint, run side by side or one by one; each may finish,
fail or ask again.  A run that waits saves its state (`SaveWaiting`), and only then
does the service's goroutine replace the card (`ShowCard`); each statement may fail,
alone or after it was committed, and the run may be cut off before, between and after
them (`CutOff`).  A card goes when the run has ended (`ClearCard`) or when a message
comes too late for it (`GiveUp`), and checkpoints expire.  `behind` is history: the
checkpoint is newer than the card beside it.

### ModelStream

One streamed call: the armed timer and its callbacks (`TimerFires`, which only
begins; `Expire`, which has the lock), the context, the response, a pipe of
fragments that were parsed and not read, and the reader.  `Activity` is what
output does to the deadline.


### TextVectors and QueryVectors

`SplitContent` computes the pieces as intervals; `EmbedBatch` takes any answer of
the service (fewer items, repeated or invalid indexes, another dimension) and
refuses it or puts it to its pieces; `BuildChunks` checks the dimension.  Where an
index is repeated, the code leaves a place empty, and only a configured dimension
notices.  `QueryVectors` is the function that searches and turns call: the map,
the shared call (`flight`) with the context of the request that began it, Redis,
and the count that triggers the eviction.  `lost` and `copied` are history.

### SchemaGuard

Each declared index takes two statements, the listing of what is there and the
CREATE, between which another process may act.  An index is a record of its
meaning; `Definition` is what the catalogue query and the comparison of texts see
of it, so that `ReadyIndexesServe` can compare the two.  The vector column of the
messages is read and added in the same way.

### DeployedTemplate

A start writes the template of its file in one transaction (`LoadTemplate`),
keeping the limits an administrator saved; `OpenForm` and `SaveForm` are an
administrator's edit with its version check.  `promised` is history.

### AppLifecycle

The steps of Initialize with their failures, requests and the goroutines they
leave behind, the rounds of the two background tasks, and the two orders of
release as sequences.  A task is cancelled and then waited for; Shutdown may give
up on handlers.  Goroutines that a request left behind are waited for by nothing:
`NoUseAfterClose` says that they are the only ones that can meet a closed store
before a timeout.
## 3. The runs

| Run | Asks | Bounds | Distinct states |
|---|---|---|---|
| `embedding_safety` | do claims, late results, lost answers, crashes, shutdowns, deletion and backfill keep the rows consistent, and does the queue implement `EmbeddingJob` | 2 messages, 2 processes of 1 loop, 2 attempts, 2 stops, 1 backfill | 695,000 |
| `mcp_pool` | lookups, failures, sweeps, leases and shutdown | 2 requests, 2 configurations, room for 1 entry, 3 entries made | 1,476,000 |
| `work` | jobs, versions, chunks and counts under overlapping requests; plans over three rounds | 2 documents, 3 requests, 2 faults; 1 reading task, 1 operation, 2 syntheses of which one may become an operation | 507,000 |
| `chat_session` | card, checkpoint and executions of overlapping turns | 3 turns, 2 questions, 1 fault | 1,480,000 |
| `liveness` | what must eventually happen, in five components | a call of 2 fragments, limits 5, 2 and 1, time to 7; 2 messages, 1 process of 2 loops, 2 attempts, 1 stop; 2 documents, 2 requests; 1 item, 2 imports, 1 job; 2 operations of 2 calls, 2 rounds | 196,000 |
| `records` | requests that overlap on stored records, and starts that find them | a folder and a file, 2 imports, 1 job, 2 documents, 1 fault; 5 requests, room for 3 units; 2 users, accounts, exchanges and states; 2 requests at once and 3 in all, 3 models, room for 1 client; 2 editors, 1 agent, 3 edits, 2 tools; 2 starts, 2 declared and up to 9 other indexes, 4 writes of a template; 2 requests, 3 rounds of tasks | 2,512,000 |
| `context` | what a model reads and a user is shown | 2 turns and summaries, up to 10 messages of 1 to 9 tokens, budgets of 3 and 12; 3 chunks of 2 documents, 2 retries; answers in up to 5 fragments of small alphabets; answers of 2 units in fragments of up to 13 bytes; a window of 24, 3 rounds; texts of up to 4 pieces, batches of 1 and 2; 2 questions, 2 callers, 4 requests, room for 1 vector | 1,621,000 |
| `services` | what a run may do and who may ask for it | 4 tools, 2 connections; 3 tasks, 3 kinds of document, 2 pages; 2 requests, 1 user, 2 writes; 3 tokens, time to 6; 2 rounds, 1 retry, 2 pauses; 4 tasks, 3 cards | 2,303,000 |
| `document_deleted`, `document_index`, `deep_sideeffect`, `chat_approval` | section 6 | smaller instances | |

Why the bounds are enough.

- Queue: two loops are what it takes to take a lease over, and two attempts
  separate a first failure from a last one.  With two stops both loops can die,
  or one can die twice; a backfill after a success or a failure registers a job a
  second time.  The safety theorems hold without these bounds (section 5).
- Pool: room for one of two configurations makes a sweep choose; the third
  entry replaces a failed or evicted one; two requests borrow, sweep and look up
  at once.
- Documents: a conflict is between a job, a deletion and an edit of one document,
  so three requests; a second document is there for what documents share,
  `kbCount`.  Two faults give a lost answer followed by a failed correction of
  it.
- Deep plan: a replan that adds research under a finished synthesis, one that
  redefines a task, and one after a refusal are all reached by the second round;
  the third acts on a plan that was already changed.  Two calls of two tasks, in
  the liveness run, are the least for approvals out of order.
- Chat: one turn asks and two answer it; a second question makes a saved run
  move on under a card.  One crash or one failed update of the session row.
- Streams: time enough for every deadline after the last fragment, and a limit of
  silence that passes between two fragments.
- Space: two imports race for one item; a folder has to be listed before its
  file; one fault hits any one step.
- Files: uploads of equal contents, of equal names and beyond the quota, a note
  and an import are among the five requests.
- Models: an update that overlaps a read and a third request that uses what they
  left; a cache of one client evicts.
- Session: ten messages are two summaries and a tail; two turns overlap in every
  step.  With these lengths and budgets a question is cut to what is left and the
  marker exceeds it, also where something is recalled beside it, and an open question
  is cut at either budget and exceeds the small one.
- Retrieval: scores below, at neither and above the thresholds; a chunk of each
  document that only one side finds.
- Vectors: lengths at both edges of a piece; a batch of two can be swapped or
  repeated.  Room for one vector of two makes the map evict; a third request
  finds what the first two left.
- Starts: two processes that differ in their dimension and in their template; one
  index of every kind that can be misread.
- Run context: the window forces a summary, a projection and a rejection within
  three rounds.
- Agent: one retry and two pauses reach an attempt that breaks off after text, and
  two cards of one message.  Older checkpoints: two researches side by side, a third
  that builds on one of them, and the review of all.

Deadlock is checked in `embedding_safety` only.  The other systems may really
stop: a run that waits for the user, a session without further messages, the
bounded requests used up.

What the properties say is written above each of them.  In short:

- Queue: `QueueIsConsistent`, `AtMostOneHolder`, `VectorOfLatestClaim`,
  `KeepsPromise` (the refinement, and only the holder of a lease settles its job),
  `QueueComesToRest`.
- Pool: `PoolIsSound` (counters are right, no connection is lost),
  `BorrowedStaysOpen`, `LockNeverWaits`.
- Documents: `RecordsAgree` (`OneActiveJob`, `OneGenerationPerVersion`,
  `CountNeverAhead`, `ReadyIsSearchable`), `HistoryStands` (`VersionsAppendOnly`,
  `QuietDeletionIsFinal`: once the work begun before a deletion is over, nothing
  revives the document), `DocumentsComeToRest`.
- Deep plan: `PlansAreSound` (`DependenciesFirst`), `AnswerIsComplete`,
  `DecisionsStand` (`RefusalEndsTask`, `FinishedIsFinal`, `RefusalNotBypassed`),
  `RunEndsWell`.
- Chat: `NoRepeat` (a call runs twice only on a spoiled checkpoint),
  `ApprovalMatchesCard`, `CardsAreTrue`, `QuestionIsKept`, `NeverStuck`.
- Streams: `CallsEndWell`: cut only in silence, a complete answer stays complete
  for a late reader, every call ends.
- Records: `ImportedOnce` (unless two imports looked before either saved),
  `FilesAreAccounted` (a file is lost only by a failed upload of the same content;
  the quota counts the uploads that are there), `BindingIsExclusive`,
  `ModelsAreVerified`, `SwitchesHold` (and no call after a switch), `StartIsSound`
  (`ReadyIndexesServe`, `NoSecondIndex`, `ReadyColumnFits`, `TemplateStands`,
  `NoUseAfterClose`, `NothingLeftBehind`), `SpaceComesToRest`.
- Context: `ContextsAreSound`, `SummariesGrow`, `HitsAreRanked`,
  `ShownIsTheAnswer`, `RequestsAreWhole`, `VectorsAreTrue` (`ChunksCoverText`,
  `ChunksHaveTheirVectors`, `PaidOnce`, `MemoryIsBounded`).
- Services: `ToolsAreBounded`, `ReadingIsHonest`, `WithdrawnStaysWithdrawn`,
  `OnlyApprovedRuns`, `AnswerIsWhole`, `LegacyIsResumable`.

## 4. Fairness

The liveness run gives each component the fairness its code justifies.

- Queue: loops are scheduled and their calls have deadlines (WF of each loop's
  own step); the clock moves on (WF of leases and backoffs running out); a
  process that stops is started again (`deploy/compose.prod.yaml:62`, restart:
  unless-stopped).  Claiming has strong fairness: a loop goes back to polling, so
  a claim is possible again and again and not all the time; the assumption is
  that the database does not refuse every claim.  No fairness is given to
  failures, crashes, deletion or the maintenance command.
- Documents: goroutines and requests proceed.  Faults are not part of it: the
  code has no recovery, so a crash between the upload and the end of the job
  leaves the document in processing (nothing looks for unfinished jobs at
  start-up, and Process refuses a document that is not failed), and a note whose
  result cannot be saved stays there too.
- Space: jobs and imports proceed, and each step may fail as DingTalk or a parser
  fails; writes do not fail and the process does not stop, again because nothing
  would repair what they leave.
- Deep plan: a model call and a tool call have deadlines, a task has a budget of
  model calls, goroutines are scheduled.  The user need not answer: `RunEnds`
  counts waiting as an end.
- Streams: the clock, the runtime's timer and its callback, the reader, a
  transport that fails a request whose context was cancelled, and the closing of
  a body that was read.  No fairness is given to the server: it may be silent.
- The other components have no liveness property.  `NeverStuck` and
  `LockNeverWaits` say with ENABLED that a turn, or the holder of the pool's lock,
  always has a step of its own; a turn makes finitely many, since each leads it
  on, and a sweep has finitely many entries to look at.

## 5. Proofs

TLAPS checks the theorems for every value of the constants.  They assume what the
modules that declare the constants assume of them, by name, and TLC evaluates
those assumptions in the runs: limits and bounds are numbers, sets of documents,
requests or tasks that are counted are finite, names that stand for nothing are
none of the others (`EmbeddingPolicy`, `PoolAssumption`, `LifecycleAssumption`,
`DeepAssumption`, `ChatAssumption`, `SyncAssumption`, `FilesAssumption`,
`BindingNames`, `ModelAssumption`, `McpAssumption`, `AccountBounds`, `TokenBounds`,
`AgentAssumption`, `LegacyAssumption`, `StartAssumption`, `StreamLimits`,
`SessionSizes`, `RetrievalSizes`, `RunAssumption`, `TextAssumption`, `AskedAssumption`,
`AnswersAreSymbols`).  Three say more.
`IndexAssumption` is what `index_guard.go` relies on: relation names are unique, a
declared index has plain columns and is not unique, none of the declared ones
answers the queries of another.  `ReadingAssumption` says of the documents of a
task that their parts are texts, the joined ones too, since `FlattenSeq` is
recursive.  `CatalogueAssumption` says of the tools that names and ranks are unique
and that no built-in tool has the name of one that a connection brings, which starts
with `mcp_` and the connection's key (`tool_factory.go:113`).

Each module proves `Init => Inv`, a lemma per action (`Inv /\ Action => Inv'`, one
step per conjunct it may disturb) and the theorems that follow.  Where a model
states its inductive invariant, the run checks it as part of the property
(`WorkProofs`, `ChatTurnProofs`, `RecordsProofs`, most of `ServicesProofs`); the
queue, the pool, the tools, and all of `ContextProofs` and `AnswerProofs` need
conjuncts that only a proof asks for, which the proof module defines.

| Module | Theorems | Inductive invariant |
|---|---|---|
| `LeaseProofs` | of the queue: `InductiveInvariant`, `QueueStaysConsistent`, `SingleHolder`, `NoStaleVector`, `HolderAlwaysSettles`, `QueueImplementsJob`, `PromiseIsKept`; of the pool: `PoolStaysSound`, `BorrowedSafe` | `IInv`, `PoolInv` |
| `WorkProofs` | `DocumentsAgree`, `DocumentHistory`, `PlanSound`, `PlanDecisions`, the five properties of the run `work` | `DocInv`, `DeepInv` |
| `ChatTurnProofs` | the properties of `chat_session` but `NeverStuck` | `ChatInv` |
| `RecordsProofs` | the six properties of the run `records` | `SyncInv`, `FilesInv`, `BindingInv`, `ModelInv`, `McpInv`, `SchemaInv`, `PresetInv`, `AppInv` |
| `ContextProofs` | `VectorsStayTrue`, `ContextsStaySound`, `SummariesKeepGrowing`, `HitsStayRanked`, `RequestsStayWhole`: the properties of the run `context` but one | `TextInv`, `AskedInv`, `SummaryInv`, `TurnInv`, `RetrievalInv`, `RunInv` |
| `AnswerProofs` | `AnswersAreShown`, the other property of that run | `AnswerInv`, `CitationInv` |
| `ServicesProofs` | the six properties of the run `services` | `ReadingInv`, `AccountInv`, `TokenInv`, `AgentInv`, `LegacyInv`, `ToolInv` |
| `ListsProofs` | lemmas only: recursive functions over numbers, what is picked from a list, a list in an order, steps repeated until they end | |

Why the invariants say more than the properties.

- Queue.  That a late result is not written follows from its token being another
  than the row's; that needs `LatestToken` (a running row has the token of the last
  claim) and `JobSound` (a loop's token is never from the future).  That a Release
  or a Fail puts the right number back needs its other half: while a loop has the
  row's token, its attempt number is the row's.  `DistinctTokens` gives
  `AtMostOneHolder`.  The refinement of `EmbeddingJob` maps rows to phases
  (`PhaseMap`); every statement that changes no status is a stutter, a lost lease
  makes Settle one, and a sweep, which gives up on many messages in one statement,
  is `GiveUpMany`.
- Pool.  `Taken`: what is on a list to be closed is marked and has no references,
  or is the shutdown's.  A borrowed entry has a reference (`PoolTypeOK` counts them),
  hence is on no sweep's list.  `Progress` and `ConnSound` say that a request about
  to borrow has an entry that holds its connection; `Owned` says of an entry that
  still connects what `NoOrphan` says of a connected one.
- Documents.  At most one job of a document is active and at most one goroutine
  works on it (`OneJobAtWork`), so the generation it writes is of the version it
  read; a failed document has no job at work (`FailedIsIdle`), which is what lets a
  retry begin.  `CountNeverAhead` counts a request's document before it is counted.
- Plans.  `DependenciesFirst` needs that the results agree with the statuses of the
  plan (`ResultsMatch`), that a batch is made of tasks at work and its calls are
  theirs (`BatchAtWork`, `CallsBelong`): a replan between two batches finds nothing
  at work.
- Turns.  A row of a card goes only while a turn `Holds` it (`CardIsBacked`); names
  of checkpoints are fresh and questions are numbered, so no later question is
  taken for an earlier one; a call belongs to one run (`CallsHaveOneRun`); a turn
  that is alone hears of what it did (`AloneIsTold`); and no checkpoint whose run is
  over is behind a card (`DoneIsNotOffered`).
- Records.  `LocksHold` and `InsertsMeetNothing` for two imports of an item that no
  third one raced; `StoredLies` for an upload between its file and its row; the
  configuration a request carries from one step to the next (`ModelInv`); what an
  editor was shown of a connection against what its row says (`McpInv`).
- Starts.  `SchemaInv` adds `Reading`: what a start read of the indexes is still
  there, and what came since was declared.  That no second index is made then rests
  on a lemma about the reading itself: an index that answers the queries of a
  declared one is recognised (`ServingCovers`), and one that is recognised answers
  them unless it is misread (`CoveringServes`).  `PresetInv`: a form with the row's
  version shows the row.  `AppInv`: what is open or runs is on the list of what has
  to be released, tasks before the database they use (`TakenDownInOrder`).
- Services.  A page is what the reference in the task names, also after the text was
  stored anew (`ReferencesStand`); a request of several statements still has the
  row it read or that row is gone for good (`RequestsKnowTheirRow`); open calls and
  their decisions belong to one batch (`CallsAreOpen`), rounds are counted
  (`RoundsAreCounted`), what was shown of an attempt that broke off is known
  (`GhostIsWhole`).
- Older checkpoints.  A checkpoint is of a plan in which something waits and nothing
  can run, and the task whose card was answered has run before its run saves
  (`HasRun` in `CheckpointStands`).  So a card that stands beside a newer checkpoint
  changes no task of it, whenever the run was cut off: the resume it begins has nothing
  to run and shows the card that is due.
- Tools.  The cursor of a domain is the number of its tools that were taken, an entry
  is taken when its place in the list of its domain is behind the cursor, and the
  lists are those of the choice at hand; so no tool is taken twice, none is passed
  over, and the limit counts what is mounted.  The list of a frozen request is the
  one it was frozen with; single and quick agents mount what was chosen for them.
- Texts and questions.  A part's window starts where the code counted it
  (`TextInv`), and a question's vector is in a cache only with the model and the
  dimension it was asked of (`AskedInv`).
- Sessions.  A refresh has listed messages of its session, in order and without gaps
  (`RefreshSound`), what it cuts off is the oldest part, and what a turn shows are
  messages of the session whose cost is what the loop counted, a marker and an open
  question's minimum included: the loops over pairs and segments are proved by
  induction over their number of steps.
- Searches.  What is found is what the lists fuse to, until it is reranked or expanded;
  its ids are distinct, and no list is longer than its limit.
- Answers.  The decoder has read the bytes that arrived up to a boundary of a
  character, and as many characters were shown.  How the bytes were cut does not
  matter.
- Citations.  As long as no source was registered late and what is held back is below
  its limit, what was shown is what the filter makes of the whole text at once
  (`CitationInv`).  A round that does not wait does the same whatever follows
  (`EveryRoundGoesOn`), so pushing a text in parts is pushing it at once
  (`PartsAreWhole`).  Every round makes the rest lighter and a link's text is shorter
  than the link, so the loop ends and the recursive function that stands for it exists
  and is the only one (`FilteredExists`).
- Requests.  What a list of messages lost is told by the ids that remain: a group of a
  call and its results is in it whole or not at all, and no two groups share an id
  (`Whole` in `RunInv`).  Summaries, projections and the dropping of conversation take
  groups and pairs away, which keeps this, and a result that is only shown shorter
  keeps its id; that a loop stops within the window is an induction over its steps.

Recursion.  The models write loops as recursive functions over numbers and as
`LET f[k \in 0..n]`.  That such a function is the one its equations say is proved
where it is used (`StepsExist`, `RecursionExists`), and statements about it by
induction over an initial segment of the numbers, as a lemma about the set of steps
for which they hold.  `Lists` has the forms of filtering and ranking that can be
reasoned about: `Ranked` finds an element by the number of those before it, `Picked`
is a recursive function over positions, and both bind their arguments, which TLC
would otherwise evaluate again at every step.

Only model-checked: liveness and everything with ENABLED, which are out of the
prover's reach (the five properties of `liveness`, `NeverStuck`, `LockNeverWaits`).
Every other property of the passing runs is a theorem.

## 6. Where code and comments disagree

Four runs check one statement of the repository each, and TLC finds a behaviour
of the code that breaks it; `PROJECT.json` quotes the line.

- `document_deleted`, `DeletedStaysDeleted`: the updates that end a job, an edit
  or a reindex set `documents.status` by id alone.  One that was under way when
  the document was deleted makes it visible again, and its chunks are retrieved
  (in TLC's trace, the save of a note that was being processed).
  `QuietDeletionIsFinal` shows that this is the only way back.
- `document_index`, `IndexIsLatestVersion`: a reindex embeds the version it read
  and does not look again; a version saved meanwhile is stored but not searched.
- `deep_sideeffect`, `NoSubstituteForSideEffect`: after a side effect failed, only
  tasks with new ids are refused; a pending task may be rewritten into an
  operation.
- `chat_approval`, `ApprovedOnce`: the card and the checkpoint stay until the
  resumed run ends, so two messages that approve the same card execute the call
  twice.  `NoRepeat` shows that it takes such an overlap, a crash or a failed
  update: a failure or a disconnection alone does not.

Twelve more were met while modelling.  They are listed without a run; six of the
statements are defined as properties in their modules, and where a checked
property would be broken by one of them it exempts exactly that case.

- Two uploads at the limit exceed the quota (`QuotaRespected`, `DocumentFiles`).
- Two requests give two users one name or address (`NamesAreUnique`, `Accounts`).
- One of the last five messages may be neither in the summary nor in the history
  (`TailStaysVerbatim`, `SessionContext`).
- A context may exceed its budget: by the truncation marker, or by an open question
  that keeps fifty tokens of a smaller budget (`StaysInBudget`, `SessionContext`;
  `ContextIsSound` allows exactly these).
- A summary stored between another one's list and its read makes that one start
  over and count twice, so that a narrower range wins (`SummariesGrow` exempts
  `overtaken`).
- A source may have the id of a chunk whose text it does not contain
  (`SourceHoldsItsChunk`, `Retrieval`).
- The expander returns documents in the order of a map (`RankedByOneScore` speaks
  of searches without it).
- A citation shown before its source was registered is stored as a link
  (`ShownIsStored` exempts `late`).
- A single deep run resumed by a quick message lists tools it does not have
  (`ListedIsMounted`, `ToolSet`; `PromptMatchesTools` exempts a resumed single
  run).
- An index that only includes a column, or is of another distance, counts as the
  declared one (`ReadyIndexesServe` exempts what `Misread` describes).
- The map of vectors does not count what comes from Redis, and its eviction is not
  by use (`MemoryIsBounded` allows for `copied`).
- A column that another start added with another dimension is reported ready
  (`ReadyColumnFits`).

## 7. What is not modelled, and the plan

Left out for good: prompt wording, the
extraction of texts and of keywords (libraries, no state), relevance scores beyond
what thresholds compare, HTTP binding, logging, traces, the front end, the
extraction of memories by a model, and operations that are one statement on one
row (profile, feedback, lists of the administration).  Partly modelled are the
components whose note in `PROJECT.json` says what is missing: the clarifying
questions of a task in `DeepPlan`, the deletion of a session in `ChatTurn`, the
sources found in the results of tools, the events of tools.

Two faults of the code have no property, since it promises nothing there: after a
crash neither document jobs nor synchronisation jobs are taken up again.

What remains: liveness of components beyond the five of the run `liveness`, and the
parts named above.
