-------------------------- MODULE MessageEmbedding --------------------------
(***************************************************************************)
(* The durable embedding queue kept in the columns of chat_messages        *)
(* (internal/repository/message_embedding_repository.go) and the worker    *)
(* loops that drain it (internal/service/message_embedding_worker.go).     *)
(*                                                                         *)
(* Every SQL statement of the repository is one atomic action.  A loop is  *)
(* one goroutine of Run; a process owns Concurrency of them and several    *)
(* processes may share the database.  Wall-clock instants are replaced by  *)
(* what the statements compare them with: `due` says whether               *)
(* embedding_available_at has passed and `lease` whether                   *)
(* embedding_lease_until has.  A lease may run out under a loop that is    *)
(* still working, because a stalled process or a slow database can use up  *)
(* the 30 seconds of slack the code adds to the call's timeout.            *)
(*                                                                         *)
(* The UUID drawn by each Claim is the ordinal of that claim on its row,   *)
(* `claims`; 0 is NULL, for the token and for the vector.                  *)
(***************************************************************************)
EXTENDS Naturals, FiniteSets

CONSTANTS
    Messages,       \* ids of the chat messages
    Processes,      \* application processes that run a worker
    Concurrency,    \* embedding.message_jobs.concurrency
    MaxAttempts,    \* embedding.message_jobs.max_attempts
    MaxStops,       \* bound: crashes and shutdowns explored
    MaxBackfills    \* bound: rows registered by the maintenance command

\* pkg/config/message_embedding.go refuses a concurrency or an attempt limit
\* below one.
ASSUME EmbeddingPolicy ==
    /\ Concurrency \in Nat \ {0}
    /\ MaxAttempts \in Nat \ {0}
    /\ MaxStops \in Nat
    /\ MaxBackfills \in Nat

VARIABLES
    row,        \* the embedding columns of each message
    mode,       \* life cycle of each process
    pc,         \* where each loop is
    job,        \* the ClaimedMessageEmbedding a loop works on
    claims,     \* how many claims were made on each row (source of tokens)
    stops,      \* how many crashes and shutdowns happened
    backfills   \* how many rows the maintenance command registered

vars == <<row, mode, pc, job, claims, stops, backfills>>

Loops == Processes \X (1..Concurrency)
ProcessOf(w) == w[1]

Statuses == {"absent", "none", "queued", "running", "succeeded", "failed", "deleted"}

Row == [status : Statuses, attempts : Nat, due : BOOLEAN,
        lease : {"null", "valid", "expired"}, token : Nat, vector : Nat]

\* The columns of a row as INSERT leaves them, and of one that does not exist
\* (not inserted yet, or deleted with its session).
InsertedRow(s) == [status |-> s, attempts |-> 0, due |-> TRUE,
                   lease |-> "null", token |-> 0, vector |-> 0]
NoRow(s) == [status |-> s, attempts |-> 0, due |-> FALSE,
             lease |-> "null", token |-> 0, vector |-> 0]

Verdicts == {"unknown", "release", "complete", "retry", "fail"}

Job == [msg : Messages, token : Nat \ {0}, attempts : Nat \ {0}, verdict : Verdicts]

NoJob == [msg |-> "none"]

-----------------------------------------------------------------------------
Init ==
    /\ row = [m \in Messages |-> NoRow("absent")]
    /\ mode = [p \in Processes |-> "up"]
    /\ pc = [w \in Loops |-> "poll"]
    /\ job = [w \in Loops |-> NoJob]
    /\ claims = [m \in Messages |-> 0]
    /\ stops = 0
    /\ backfills = 0

(***************************************************************************)
(* The rows: INSERT with the message, DELETE with the session, and the     *)
(* maintenance command.                                                    *)
(***************************************************************************)

\* persistMessage: the job is registered by the INSERT of the message itself,
\* or not at all when pgvector is off or the message is blank.
PersistMessage(m) ==
    /\ row[m].status = "absent"
    /\ \E s \in {"queued", "none"} :
          row' = [row EXCEPT ![m] = InsertedRow(s)]
    /\ UNCHANGED <<mode, pc, job, claims, stops, backfills>>

\* DeleteSession removes the messages of the session, whatever their job does.
DeleteMessage(m) ==
    /\ row[m].status \notin {"absent", "deleted"}
    /\ row' = [row EXCEPT ![m] = NoRow("deleted")]
    /\ UNCHANGED <<mode, pc, job, claims, stops, backfills>>

\* Variant: the backfill queues every row that is not being worked on.
QueueMissing_Finished(m, retryFailed) ==
    /\ backfills < MaxBackfills
    /\ row[m].status \in {"none", "succeeded"} \/ (retryFailed /\ row[m].status = "failed")
    /\ row' = [row EXCEPT ![m] = InsertedRow("queued")]
    /\ backfills' = backfills + 1
    /\ UNCHANGED <<mode, pc, job, claims, stops>>

\* QueueMissing, for one row of its LIMIT.
QueueMissing(m, retryFailed) ==
    /\ backfills < MaxBackfills
    /\ row[m].vector = 0
    /\ row[m].status = "none" \/ (retryFailed /\ row[m].status = "failed")
    /\ row' = [row EXCEPT ![m] = [@ EXCEPT !.status = "queued", !.attempts = 0,
                                           !.due = TRUE]]
    /\ backfills' = backfills + 1
    /\ UNCHANGED <<mode, pc, job, claims, stops>>

(***************************************************************************)
(* Claim: the two statements run one after the other, not in a transaction.*)
(***************************************************************************)

\* Variants of Exhausted: the lease is not compared; running rows are forgotten.
Exhausted_AnyLease(m) ==
    row[m].attempts >= MaxAttempts /\ row[m].status \in {"queued", "running"}

Exhausted_QueuedOnly(m) ==
    row[m].attempts >= MaxAttempts /\ row[m].status = "queued"

\* Rows the first statement of Claim gives up on.
Exhausted(m) ==
    /\ row[m].attempts >= MaxAttempts
    /\ \/ row[m].status = "queued"
       \/ row[m].status = "running" /\ row[m].lease = "expired"

\* Rows the second statement may pick.
Claimable(m) ==
    /\ row[m].vector = 0
    /\ row[m].attempts < MaxAttempts
    /\ \/ row[m].status = "queued" /\ row[m].due
       \/ row[m].status = "running" /\ row[m].lease = "expired"

\* Variant: the claim is not counted as an attempt.
ClaimedRow_Uncounted(m) ==
    [row[m] EXCEPT !.status = "running", !.lease = "valid", !.token = claims[m] + 1]

\* The row the second statement of Claim leaves behind.
ClaimedRow(m) ==
    [row[m] EXCEPT !.status = "running", !.attempts = row[m].attempts + 1,
                   !.lease = "valid", !.token = claims[m] + 1]

Sweep(w) ==
    /\ mode[ProcessOf(w)] = "up"
    /\ pc[w] = "poll"
    /\ row' = [m \in Messages |->
                  IF Exhausted(m)
                  THEN [row[m] EXCEPT !.status = "failed", !.lease = "null", !.token = 0]
                  ELSE row[m]]
    /\ pc' = [pc EXCEPT ![w] = "pick"]
    /\ UNCHANGED <<mode, job, claims, stops, backfills>>

Pick(w, m) ==
    /\ mode[ProcessOf(w)] = "up"
    /\ pc[w] = "pick"
    /\ Claimable(m)
    /\ row' = [row EXCEPT ![m] = ClaimedRow(m)]
    /\ claims' = [claims EXCEPT ![m] = claims[m] + 1]
    /\ job' = [job EXCEPT ![w] = [msg |-> m, token |-> claims[m] + 1,
                                  attempts |-> row[m].attempts + 1,
                                  verdict |-> "unknown"]]
    /\ pc' = [pc EXCEPT ![w] = "embed"]
    /\ UNCHANGED <<mode, stops, backfills>>

\* The UPDATE committed but its answer never arrived (five-second deadline,
\* broken connection, shutdown): the row runs and no loop works on it.
PickAnswerLost(w, m) ==
    /\ mode[ProcessOf(w)] \in {"up", "stopping"}
    /\ pc[w] = "pick"
    /\ Claimable(m)
    /\ row' = [row EXCEPT ![m] = ClaimedRow(m)]
    /\ claims' = [claims EXCEPT ![m] = claims[m] + 1]
    /\ pc' = [pc EXCEPT ![w] = "poll"]
    /\ UNCHANGED <<mode, job, stops, backfills>>

\* Nothing to do: the loop sleeps for PollSeconds.
PickNothing(w) ==
    /\ mode[ProcessOf(w)] = "up"
    /\ pc[w] = "pick"
    /\ \A m \in Messages : ~Claimable(m)
    /\ pc' = [pc EXCEPT ![w] = "poll"]
    /\ UNCHANGED <<row, mode, job, claims, stops, backfills>>

\* A statement of Claim failed and changed nothing; the loop logs and sleeps.
ClaimFails(w) ==
    /\ mode[ProcessOf(w)] \in {"up", "stopping"}
    /\ pc[w] = "pick"
    /\ pc' = [pc EXCEPT ![w] = "poll"]
    /\ UNCHANGED <<row, mode, job, claims, stops, backfills>>

(***************************************************************************)
(* process: the embedding call, and the statement that settles the job.    *)
(***************************************************************************)

\* Variant: a temporary error is retried whatever the attempt was.
VerdictsOf_AlwaysRetry(w) ==
    IF mode[ProcessOf(w)] = "stopping" THEN {"release"} ELSE {"complete", "fail", "retry"}

\* What process decides once the call returned.  A cancelled process releases
\* the job whatever the call returned; a temporary error or a timeout is
\* retried only while the claim was not the last one allowed; a vector of the
\* wrong dimension, an invalid component or a permanent error is final.
VerdictsOf(w) ==
    IF mode[ProcessOf(w)] = "stopping" THEN {"release"}
    ELSE {"complete", "fail"} \cup
         (IF job[w].attempts < MaxAttempts THEN {"retry"} ELSE {})

EmbedReturns(w) ==
    /\ pc[w] = "embed"
    /\ \E v \in VerdictsOf(w) :
          job' = [job EXCEPT ![w] = [@ EXCEPT !.verdict = v]]
    /\ pc' = [pc EXCEPT ![w] = "settle"]
    /\ UNCHANGED <<row, mode, claims, stops, backfills>>

\* Variant: a job is settled whoever holds its lease.
HoldsLease_AnyToken(w) ==
    LET r == row[job[w].msg] IN
    /\ r.status = "running"
    /\ r.lease = "valid"
    /\ job[w].verdict = "complete" => r.vector = 0

\* The WHERE clause of Complete, Fail and Release.
HoldsLease(w) ==
    LET r == row[job[w].msg] IN
    /\ r.status = "running"
    /\ r.token = job[w].token
    /\ r.lease = "valid"
    /\ job[w].verdict = "complete" => r.vector = 0

\* Variant: only the status changes, the lease and the token stay.
SettledRow_KeepsLease(r, j) ==
    CASE j.verdict = "complete" -> [r EXCEPT !.status = "succeeded", !.vector = j.token]
      [] j.verdict = "retry"    -> [r EXCEPT !.status = "queued", !.due = FALSE]
      [] j.verdict = "fail"     -> [r EXCEPT !.status = "failed", !.due = FALSE]
      [] OTHER                  -> [r EXCEPT !.status = "queued", !.attempts = @ - 1]

\* The row Complete, Fail or Release leaves behind.
SettledRow(r, j) ==
    LET freed == [r EXCEPT !.lease = "null", !.token = 0] IN
    CASE j.verdict = "complete" -> [freed EXCEPT !.status = "succeeded", !.vector = j.token]
      [] j.verdict = "retry"    -> [freed EXCEPT !.status = "queued", !.due = FALSE]
      [] j.verdict = "fail"     -> [freed EXCEPT !.status = "failed", !.due = FALSE]
      [] OTHER                  -> [freed EXCEPT !.status = "queued", !.due = TRUE,
                                                 !.attempts = r.attempts - 1]

Settle(w) ==
    /\ pc[w] = "settle"
    /\ row' = IF HoldsLease(w)
              THEN [row EXCEPT ![job[w].msg] = SettledRow(@, job[w])]
              ELSE row
    /\ pc' = [pc EXCEPT ![w] = "poll"]
    /\ job' = [job EXCEPT ![w] = NoJob]
    /\ UNCHANGED <<mode, claims, stops, backfills>>

\* The statement failed: the loop drops the job and the lease will run out.
SettleFails(w) ==
    /\ pc[w] = "settle"
    /\ pc' = [pc EXCEPT ![w] = "poll"]
    /\ job' = [job EXCEPT ![w] = NoJob]
    /\ UNCHANGED <<row, mode, claims, stops, backfills>>

(***************************************************************************)
(* Time.                                                                   *)
(***************************************************************************)

LeaseRunsOut(m) ==
    /\ row[m].status = "running" /\ row[m].lease = "valid"
    /\ row' = [row EXCEPT ![m] = [@ EXCEPT !.lease = "expired"]]
    /\ UNCHANGED <<mode, pc, job, claims, stops, backfills>>

BackoffElapses(m) ==
    /\ row[m].status = "queued" /\ ~row[m].due
    /\ row' = [row EXCEPT ![m] = [@ EXCEPT !.due = TRUE]]
    /\ UNCHANGED <<mode, pc, job, claims, stops, backfills>>

(***************************************************************************)
(* Life cycle of a process: Run waits for every loop before it returns.    *)
(***************************************************************************)

\* Variant: the context is looked at only between two claims.
LoopExits_FromPollOnly(w) ==
    /\ mode[ProcessOf(w)] = "stopping"
    /\ pc[w] = "poll"
    /\ pc' = [pc EXCEPT ![w] = "exit"]
    /\ UNCHANGED <<row, mode, job, claims, stops, backfills>>

LoopExits(w) ==
    /\ mode[ProcessOf(w)] = "stopping"
    /\ pc[w] \in {"poll", "pick"}
    /\ pc' = [pc EXCEPT ![w] = "exit"]
    /\ UNCHANGED <<row, mode, job, claims, stops, backfills>>

Shutdown(p) ==
    /\ stops < MaxStops
    /\ mode[p] = "up"
    /\ mode' = [mode EXCEPT ![p] = "stopping"]
    /\ stops' = stops + 1
    /\ UNCHANGED <<row, pc, job, claims, backfills>>

RunReturns(p) ==
    /\ mode[p] = "stopping"
    /\ \A w \in Loops : ProcessOf(w) = p => pc[w] = "exit"
    /\ mode' = [mode EXCEPT ![p] = "down"]
    /\ UNCHANGED <<row, pc, job, claims, stops, backfills>>

Crash(p) ==
    /\ stops < MaxStops
    /\ mode[p] \in {"up", "stopping"}
    /\ mode' = [mode EXCEPT ![p] = "down"]
    /\ pc' = [w \in Loops |-> IF ProcessOf(w) = p THEN "exit" ELSE pc[w]]
    /\ job' = [w \in Loops |-> IF ProcessOf(w) = p THEN NoJob ELSE job[w]]
    /\ stops' = stops + 1
    /\ UNCHANGED <<row, claims, backfills>>

StartProcess(p) ==
    /\ mode[p] = "down"
    /\ mode' = [mode EXCEPT ![p] = "up"]
    /\ pc' = [w \in Loops |-> IF ProcessOf(w) = p THEN "poll" ELSE pc[w]]
    /\ UNCHANGED <<row, job, claims, stops, backfills>>

-----------------------------------------------------------------------------
\* What a loop does by itself.
LoopStep(w) ==
    \/ Sweep(w)
    \/ \E m \in Messages : Pick(w, m)
    \/ PickNothing(w)
    \/ EmbedReturns(w)
    \/ Settle(w)
    \/ LoopExits(w)

Next ==
    \/ \E m \in Messages :
          \/ PersistMessage(m)
          \/ DeleteMessage(m)
          \/ \E retryFailed \in BOOLEAN : QueueMissing(m, retryFailed)
          \/ LeaseRunsOut(m)
          \/ BackoffElapses(m)
    \/ \E w \in Loops :
          \/ LoopStep(w)
          \/ \E m \in Messages : PickAnswerLost(w, m)
          \/ ClaimFails(w) \/ SettleFails(w)
    \/ \E p \in Processes : Shutdown(p) \/ RunReturns(p) \/ Crash(p) \/ StartProcess(p)

Spec == Init /\ [][Next]_vars

\* Goroutines are scheduled, the calls they make have deadlines, the clock
\* moves on, the database does not refuse every claim, and the supervisor
\* restarts a container that stopped (deploy/compose.prod.yaml, restart:
\* unless-stopped).
Fairness ==
    /\ \A w \in Loops : WF_vars(LoopStep(w)) /\ SF_vars(\E m \in Messages : Pick(w, m))
    /\ \A m \in Messages : WF_vars(LeaseRunsOut(m)) /\ WF_vars(BackoffElapses(m))
    /\ \A p \in Processes : WF_vars(RunReturns(p)) /\ WF_vars(StartProcess(p))

FairSpec == Spec /\ Fairness

-----------------------------------------------------------------------------
(***************************************************************************)
(* Properties.                                                             *)
(***************************************************************************)

TypeOK ==
    /\ row \in [Messages -> Row]
    /\ mode \in [Processes -> {"up", "stopping", "down"}]
    /\ pc \in [Loops -> {"poll", "pick", "embed", "settle", "exit"}]
    /\ job \in [Loops -> Job \cup {NoJob}]
    /\ claims \in [Messages -> Nat]
    /\ stops \in Nat
    /\ backfills \in Nat

\* The CHECK constraint of chat_messages holds after every statement, so no
\* statement of the queue is ever refused by it: a row has a lease and a token
\* exactly while it runs, and giving an attempt back never makes the count
\* negative (a running row has used at least one).
LeaseMatchesStatus ==
    \A m \in Messages :
        LET r == row[m] IN
        /\ r.status = "running" <=> r.lease # "null"
        /\ r.status = "running" <=> r.token # 0
        /\ r.status = "running" => r.attempts \in 1..MaxAttempts

\* However many loops claimed a message after leases ran out, no two of them
\* can settle it: at most one passes the WHERE clause of the settling statements.
AtMostOneHolder ==
    \A v, w \in Loops :
        (/\ job[v] # NoJob /\ HoldsLease(v)
         /\ job[w] # NoJob /\ HoldsLease(w)
         /\ job[v].msg = job[w].msg) => v = w

\* A stored vector was computed by the latest claim made on its row: a result
\* that arrives after its lease was taken over is never written.
VectorOfLatestClaim ==
    \A m \in Messages :
        /\ row[m].status = "succeeded" <=> row[m].vector # 0
        /\ row[m].vector # 0 => row[m].vector = claims[m]

\* A job that is put back in the queue, by a retry, a release or the
\* maintenance command, always has an attempt left: it is never queued only
\* to be swept away as exhausted.
QueuedHasAttemptLeft ==
    \A m \in Messages : row[m].status = "queued" => row[m].attempts < MaxAttempts

\* Whatever order claims, late results, crashes and stops come in, the rows and
\* the loops are in a state the next statement can work on.
QueueIsConsistent == TypeOK /\ LeaseMatchesStatus /\ QueuedHasAttemptLeft

\* A running job whose lease is still valid leaves that state only by the hand
\* of the loop that holds its token, or when its session is deleted: neither a
\* sweep, nor a late worker, nor the maintenance command can take it away.
OnlyHolderSettles ==
    [][\A m \in Messages :
          (/\ row[m].status = "running" /\ row[m].lease = "valid"
           /\ row'[m].status \notin {"running", "deleted"})
             => \E w \in Loops : /\ job[w] # NoJob /\ job'[w] = NoJob
                                 /\ job[w].msg = m
                                 /\ job[w].token = row[m].token]_vars

\* The queue implements the job each message was promised.
PhaseOf(s) ==
    CASE s = "none"                  -> "idle"
      [] s \in {"queued", "running"} -> "pending"
      [] s = "succeeded"             -> "done"
      [] s = "failed"                -> "gaveup"
      [] OTHER                       -> s

Promise == INSTANCE EmbeddingJob WITH phase <- [m \in Messages |-> PhaseOf(row[m].status)]

\* Every behaviour of the queue is a behaviour of EmbeddingJob: one resolution
\* per registration, a vector final until the message is deleted.
ImplementsEmbeddingJob == Promise!JobSpec

\* The queue keeps its promise, and only who holds a lease settles its job.
KeepsPromise == OnlyHolderSettles /\ ImplementsEmbeddingJob

\* Whatever crashes, shutdowns, lost answers and failed statements occur, the
\* queue comes to rest: no registered job stays registered forever, it gets a
\* vector, is given up, or its message is deleted; and no shutdown waits for a
\* loop that will not finish.
QueueComesToRest ==
    []<>(/\ \A m \in Messages : row[m].status \notin {"queued", "running"}
         /\ \A p \in Processes : mode[p] # "stopping")
=============================================================================
