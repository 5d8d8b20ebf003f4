----------------------------- MODULE LeaseProofs -----------------------------
(***************************************************************************)
(* Machine-checked proofs about what is lent for a time: the jobs of the   *)
(* queue to its loops (MessageEmbedding) and the connections of the pool   *)
(* to calls (McpPool); for every set of messages, processes, requests and  *)
(* configurations and every value of the bounds.                           *)
(***************************************************************************)
EXTENDS MessageEmbedding, McpPool, FiniteSetTheorems, TLAPS

-----------------------------------------------------------------------------
(***************************************************************************)
(* The queue.                                                              *)
(*                                                                         *)
(* The safety invariants are not inductive by themselves.  IInv adds what  *)
(* makes them so: a running row's token is the latest one drawn for it, a  *)
(* loop has a job exactly while it embeds or settles, its token is never   *)
(* from the future, no two loops have the same token for a message, and    *)
(* the attempt number a loop remembers is still the row's while it holds   *)
(* the row's token.                                                        *)
(***************************************************************************)

LatestToken ==
    \A m \in Messages : row[m].status = "running" => row[m].token = claims[m]

LoopHasJob ==
    \A w \in Loops :
        /\ pc[w] \in {"embed", "settle"} <=> job[w] # NoJob
        /\ mode[ProcessOf(w)] = "down" => pc[w] = "exit"

JobSound ==
    \A w \in Loops :
        job[w] # NoJob =>
            /\ job[w].token <= claims[job[w].msg]
            /\ job[w].attempts \in 1..MaxAttempts
            /\ job[w].verdict = "retry" => job[w].attempts < MaxAttempts
            /\ row[job[w].msg].status = "running" /\ row[job[w].msg].token = job[w].token
                  => row[job[w].msg].attempts = job[w].attempts

DistinctTokens ==
    \A v, w \in Loops :
        (v # w /\ job[v] # NoJob /\ job[w] # NoJob /\ job[v].msg = job[w].msg)
            => job[v].token # job[w].token

IInv ==
    /\ TypeOK
    /\ LeaseMatchesStatus
    /\ QueuedHasAttemptLeft
    /\ VectorOfLatestClaim
    /\ LatestToken
    /\ LoopHasJob
    /\ JobSound
    /\ DistinctTokens

-----------------------------------------------------------------------------
(* Init *)

LEMMA InitEstablishesIInv == Init => IInv
<1> SUFFICES ASSUME Init PROVE IInv
  OBVIOUS
<1> USE EmbeddingPolicy DEF Init, NoRow, Loops, ProcessOf
<1>1. TypeOK
  BY DEF TypeOK, Row, Statuses
<1>2. LeaseMatchesStatus /\ QueuedHasAttemptLeft /\ VectorOfLatestClaim /\ LatestToken
  BY DEF LeaseMatchesStatus, QueuedHasAttemptLeft, VectorOfLatestClaim, LatestToken
<1>3. LoopHasJob /\ JobSound /\ DistinctTokens
  BY DEF LoopHasJob, JobSound, DistinctTokens
<1>4. QED
  BY <1>1, <1>2, <1>3 DEF IInv

-----------------------------------------------------------------------------
(* Steps that change one row and no loop. *)

\* What the statements that touch one row outside any loop have in common:
\* the new row is well formed, and it runs only if the old one did, under the
\* same token and with the same attempt count.
RowStep(m, r) ==
    /\ row' = [row EXCEPT ![m] = r]
    /\ r \in Row
    /\ r.status = "running" <=> r.lease # "null"
    /\ r.status = "running" <=> r.token # 0
    /\ r.status = "queued" => r.attempts < MaxAttempts
    /\ r.status = "succeeded" <=> r.vector # 0
    /\ r.vector # 0 => r.vector = row[m].vector
    /\ r.status = "running" => /\ row[m].status = "running"
                               /\ r.token = row[m].token
                               /\ r.attempts = row[m].attempts
    /\ UNCHANGED <<mode, pc, job, claims>>
    /\ stops' \in Nat /\ backfills' \in Nat

LEMMA RowStepPreserves ==
  ASSUME IInv, NEW m \in Messages, NEW r, RowStep(m, r)
  PROVE  IInv'
<1> USE DEF IInv, RowStep
<1>1. TypeOK'
  BY DEF TypeOK
<1>2. /\ LeaseMatchesStatus'
      /\ QueuedHasAttemptLeft'
      /\ VectorOfLatestClaim'
      /\ LatestToken'
  BY DEF TypeOK, LeaseMatchesStatus, QueuedHasAttemptLeft, VectorOfLatestClaim, LatestToken
<1>3. LoopHasJob' /\ DistinctTokens'
  BY DEF LoopHasJob, DistinctTokens, ProcessOf
<1>4. JobSound'
  <2> SUFFICES ASSUME NEW w \in Loops, job[w] # NoJob
               PROVE  /\ job[w].token <= claims[job[w].msg]
                      /\ job[w].attempts \in 1..MaxAttempts
                      /\ job[w].verdict = "retry" => job[w].attempts < MaxAttempts
                      /\ row'[job[w].msg].status = "running"
                           /\ row'[job[w].msg].token = job[w].token
                           => row'[job[w].msg].attempts = job[w].attempts
    BY DEF JobSound
  <2>1. job[w].msg \in Messages
    BY DEF TypeOK, Job
  <2>2. QED
    BY <2>1 DEF JobSound, TypeOK
<1>5. QED
  BY <1>1, <1>2, <1>3, <1>4

LEMMA PersistPreserves ==
  ASSUME IInv, NEW m \in Messages, PersistMessage(m)
  PROVE  IInv'
<1>1. PICK s \in {"queued", "none"} : row' = [row EXCEPT ![m] = InsertedRow(s)]
  BY DEF PersistMessage
<1>2. s # "running" /\ s # "succeeded" /\ 0 < MaxAttempts
  BY EmbeddingPolicy
<1>3. UNCHANGED <<mode, pc, job, claims>> /\ stops' \in Nat /\ backfills' \in Nat
  BY DEF PersistMessage, IInv, TypeOK
<1>4. InsertedRow(s) \in Row
  BY DEF InsertedRow, Row, Statuses
<1>5. RowStep(m, InsertedRow(s))
  BY <1>1, <1>2, <1>3, <1>4 DEF RowStep, InsertedRow
<1>6. QED
  BY <1>5, RowStepPreserves

LEMMA DeletePreserves ==
  ASSUME IInv, NEW m \in Messages, DeleteMessage(m)
  PROVE  IInv'
<1>1. RowStep(m, NoRow("deleted"))
  BY DEF DeleteMessage, RowStep, NoRow, Row, Statuses, IInv, TypeOK
<1>2. QED
  BY <1>1, RowStepPreserves

LEMMA QueueMissingPreserves ==
  ASSUME IInv, NEW m \in Messages, NEW retryFailed \in BOOLEAN, QueueMissing(m, retryFailed)
  PROVE  IInv'
<1> DEFINE r == [row[m] EXCEPT !.status = "queued", !.attempts = 0, !.due = TRUE]
<1>1. row[m] \in Row /\ row[m].status \in {"none", "failed"}
  BY DEF IInv, TypeOK, QueueMissing
<1>2. r \in Row
  BY <1>1 DEF Row, Statuses
<1>3. RowStep(m, r)
  BY <1>1, <1>2, EmbeddingPolicy
     DEF QueueMissing, RowStep, IInv, LeaseMatchesStatus, VectorOfLatestClaim, TypeOK, Row
<1>4. QED
  BY <1>3, RowStepPreserves

LEMMA LeaseRunsOutPreserves ==
  ASSUME IInv, NEW m \in Messages, LeaseRunsOut(m)
  PROVE  IInv'
<1> DEFINE r == [row[m] EXCEPT !.lease = "expired"]
<1>1. row[m] \in Row
  BY DEF IInv, TypeOK
<1>2. r \in Row
  BY <1>1 DEF Row
<1>3. RowStep(m, r)
  BY <1>1, <1>2
     DEF LeaseRunsOut, RowStep, IInv, LeaseMatchesStatus, QueuedHasAttemptLeft,
         VectorOfLatestClaim, TypeOK, Row
<1>4. QED
  BY <1>3, RowStepPreserves

LEMMA BackoffElapsesPreserves ==
  ASSUME IInv, NEW m \in Messages, BackoffElapses(m)
  PROVE  IInv'
<1> DEFINE r == [row[m] EXCEPT !.due = TRUE]
<1>1. row[m] \in Row
  BY DEF IInv, TypeOK
<1>2. r \in Row
  BY <1>1 DEF Row
<1>3. RowStep(m, r)
  BY <1>1, <1>2
     DEF BackoffElapses, RowStep, IInv, LeaseMatchesStatus, QueuedHasAttemptLeft,
         VectorOfLatestClaim, TypeOK, Row
<1>4. QED
  BY <1>3, RowStepPreserves

-----------------------------------------------------------------------------
(* Steps that leave rows, claims and jobs alone. *)

LEMMA ControlStepPreserves ==
  ASSUME IInv, UNCHANGED <<row, claims, job>>, TypeOK', LoopHasJob'
  PROVE  IInv'
BY DEF IInv, LeaseMatchesStatus, QueuedHasAttemptLeft, VectorOfLatestClaim,
       LatestToken, JobSound, DistinctTokens

LEMMA PickNothingPreserves ==
  ASSUME IInv, NEW w \in Loops, PickNothing(w)
  PROVE  IInv'
<1>1. TypeOK' /\ LoopHasJob'
  BY DEF IInv, TypeOK, LoopHasJob, PickNothing
<1>2. QED
  BY <1>1, ControlStepPreserves DEF PickNothing

LEMMA ClaimFailsPreserves ==
  ASSUME IInv, NEW w \in Loops, ClaimFails(w)
  PROVE  IInv'
<1>1. TypeOK' /\ LoopHasJob'
  BY DEF IInv, TypeOK, LoopHasJob, ClaimFails
<1>2. QED
  BY <1>1, ControlStepPreserves DEF ClaimFails

LEMMA LoopExitsPreserves ==
  ASSUME IInv, NEW w \in Loops, LoopExits(w)
  PROVE  IInv'
<1>1. TypeOK' /\ LoopHasJob'
  BY DEF IInv, TypeOK, LoopHasJob, LoopExits
<1>2. QED
  BY <1>1, ControlStepPreserves DEF LoopExits

LEMMA ShutdownPreserves ==
  ASSUME IInv, NEW p \in Processes, Shutdown(p)
  PROVE  IInv'
<1>1. TypeOK' /\ LoopHasJob'
  BY DEF IInv, TypeOK, LoopHasJob, Shutdown, Loops, ProcessOf
<1>2. QED
  BY <1>1, ControlStepPreserves DEF Shutdown

LEMMA RunReturnsPreserves ==
  ASSUME IInv, NEW p \in Processes, RunReturns(p)
  PROVE  IInv'
<1>1. TypeOK' /\ LoopHasJob'
  BY DEF IInv, TypeOK, LoopHasJob, RunReturns, Loops, ProcessOf
<1>2. QED
  BY <1>1, ControlStepPreserves DEF RunReturns

LEMMA StartProcessPreserves ==
  ASSUME IInv, NEW p \in Processes, StartProcess(p)
  PROVE  IInv'
<1>1. TypeOK' /\ LoopHasJob'
  BY DEF IInv, TypeOK, LoopHasJob, StartProcess, Loops, ProcessOf
<1>2. QED
  BY <1>1, ControlStepPreserves DEF StartProcess

-----------------------------------------------------------------------------
(* Steps that leave rows and claims alone and change jobs. *)

LEMMA EmbedReturnsPreserves ==
  ASSUME IInv, NEW w \in Loops, EmbedReturns(w)
  PROVE  IInv'
<1>1. PICK v \in VerdictsOf(w) : job' = [job EXCEPT ![w] = [@ EXCEPT !.verdict = v]]
  BY DEF EmbedReturns
<1>2. job[w] \in Job /\ job[w] # NoJob
  BY DEF IInv, TypeOK, LoopHasJob, EmbedReturns
<1>3. v \in Verdicts /\ (v = "retry" => job[w].attempts < MaxAttempts)
  BY DEF VerdictsOf, Verdicts
<1>4. /\ job'[w] \in Job /\ job'[w] # NoJob
      /\ job'[w].msg = job[w].msg /\ job'[w].token = job[w].token
      /\ job'[w].attempts = job[w].attempts /\ job'[w].verdict = v
      /\ \A u \in Loops : u # w => job'[u] = job[u]
  BY <1>1, <1>2, <1>3 DEF IInv, TypeOK, Job, NoJob
<1>5. UNCHANGED <<row, mode, claims, stops, backfills>> /\ pc' = [pc EXCEPT ![w] = "settle"]
  BY DEF EmbedReturns
<1>6. TypeOK'
  BY <1>1, <1>4, <1>5 DEF IInv, TypeOK
<1>7. LeaseMatchesStatus' /\ QueuedHasAttemptLeft' /\ VectorOfLatestClaim' /\ LatestToken'
  BY <1>5 DEF IInv, LeaseMatchesStatus, QueuedHasAttemptLeft, VectorOfLatestClaim, LatestToken
<1>8. LoopHasJob'
  BY <1>4, <1>5 DEF IInv, TypeOK, LoopHasJob, EmbedReturns
<1>9. JobSound'
  BY <1>2, <1>3, <1>4, <1>5 DEF IInv, JobSound
<1>10. DistinctTokens'
  BY <1>2, <1>4 DEF IInv, DistinctTokens
<1>11. QED
  BY <1>6, <1>7, <1>8, <1>9, <1>10 DEF IInv

\* A step after which some loops have no job any more and the others are as
\* they were.
LEMMA DropJobsPreserves ==
  ASSUME IInv, UNCHANGED <<row, claims>>, TypeOK', LoopHasJob',
         \A w \in Loops : job'[w] \in {job[w], NoJob}
  PROVE  IInv'
BY DEF IInv, LeaseMatchesStatus, QueuedHasAttemptLeft, VectorOfLatestClaim,
       LatestToken, JobSound, DistinctTokens

LEMMA SettleFailsPreserves ==
  ASSUME IInv, NEW w \in Loops, SettleFails(w)
  PROVE  IInv'
<1>1. TypeOK' /\ LoopHasJob' /\ \A u \in Loops : job'[u] \in {job[u], NoJob}
  BY DEF IInv, TypeOK, LoopHasJob, SettleFails
<1>2. QED
  BY <1>1, DropJobsPreserves DEF SettleFails

LEMMA CrashPreserves ==
  ASSUME IInv, NEW p \in Processes, Crash(p)
  PROVE  IInv'
<1>1. TypeOK' /\ LoopHasJob' /\ \A u \in Loops : job'[u] \in {job[u], NoJob}
  BY DEF IInv, TypeOK, LoopHasJob, Crash, Loops, ProcessOf
<1>2. QED
  BY <1>1, DropJobsPreserves DEF Crash

-----------------------------------------------------------------------------
(* Claim. *)

LEMMA SweepPreserves ==
  ASSUME IInv, NEW w \in Loops, Sweep(w)
  PROVE  IInv'
<1> DEFINE swept(m) == [row[m] EXCEPT !.status = "failed", !.lease = "null", !.token = 0]
<1>1. \A m \in Messages : row'[m] = IF Exhausted(m) THEN swept(m) ELSE row[m]
  BY DEF Sweep
<1>2. ASSUME NEW m \in Messages, Exhausted(m)
      PROVE  /\ row'[m] \in Row
             /\ row'[m].status = "failed" /\ row'[m].lease = "null"
             /\ row'[m].token = 0 /\ row'[m].vector = 0
  <2>1. row[m] \in Row /\ row[m].vector = 0
    BY <1>2 DEF IInv, TypeOK, VectorOfLatestClaim, Exhausted
  <2>2. row'[m] = swept(m)
    BY <1>1, <1>2
  <2>3. swept(m) \in Row
    BY <2>1 DEF Row, Statuses
  <2>4. QED
    BY <2>1, <2>2, <2>3 DEF Row
<1>3. UNCHANGED <<mode, job, claims, stops, backfills>> /\ pc' = [pc EXCEPT ![w] = "pick"]
      /\ pc[w] = "poll"
  BY DEF Sweep
<1>4. row' \in [Messages -> Row]
  <2>1. \A m \in Messages : row'[m] \in Row
    BY <1>1, <1>2 DEF IInv, TypeOK
  <2>2. QED
    BY <2>1 DEF Sweep
<1>5. TypeOK'
  BY <1>3, <1>4 DEF IInv, TypeOK
<1>6. LeaseMatchesStatus' /\ QueuedHasAttemptLeft' /\ VectorOfLatestClaim' /\ LatestToken'
  <2> SUFFICES ASSUME NEW m \in Messages
               PROVE  /\ row'[m].status = "running" <=> row'[m].lease # "null"
                      /\ row'[m].status = "running" <=> row'[m].token # 0
                      /\ row'[m].status = "running" => row'[m].attempts \in 1..MaxAttempts
                      /\ row'[m].status = "queued" => row'[m].attempts < MaxAttempts
                      /\ row'[m].status = "succeeded" <=> row'[m].vector # 0
                      /\ row'[m].vector # 0 => row'[m].vector = claims[m]
                      /\ row'[m].status = "running" => row'[m].token = claims[m]
    BY <1>3 DEF LeaseMatchesStatus, QueuedHasAttemptLeft, VectorOfLatestClaim, LatestToken
  <2>1. CASE Exhausted(m)
    BY <2>1, <1>2
  <2>2. CASE ~Exhausted(m)
    <3>1. row'[m] = row[m]
      BY <2>2, <1>1
    <3>2. QED
      BY <3>1 DEF IInv, LeaseMatchesStatus, QueuedHasAttemptLeft, VectorOfLatestClaim,
                  LatestToken
  <2>3. QED
    BY <2>1, <2>2
<1>7. LoopHasJob' /\ DistinctTokens'
  BY <1>3 DEF IInv, TypeOK, LoopHasJob, DistinctTokens
<1>8. JobSound'
  <2> SUFFICES ASSUME NEW u \in Loops, job[u] # NoJob
               PROVE  /\ job[u].token <= claims[job[u].msg]
                      /\ job[u].attempts \in 1..MaxAttempts
                      /\ job[u].verdict = "retry" => job[u].attempts < MaxAttempts
                      /\ row'[job[u].msg].status = "running"
                           /\ row'[job[u].msg].token = job[u].token
                           => row'[job[u].msg].attempts = job[u].attempts
    BY <1>3 DEF JobSound
  <2>1. job[u].msg \in Messages
    BY DEF IInv, TypeOK, Job
  <2>2. row'[job[u].msg].status = "running" => row'[job[u].msg] = row[job[u].msg]
    BY <1>1, <1>2, <2>1
  <2>3. QED
    BY <2>2 DEF IInv, JobSound
<1>9. QED
  BY <1>5, <1>6, <1>7, <1>8 DEF IInv

\* The claimed row, and the rows it leaves alone.
LEMMA ClaimedRowSound ==
  ASSUME IInv, NEW m \in Messages, Claimable(m),
         row' = [row EXCEPT ![m] = ClaimedRow(m)],
         claims' = [claims EXCEPT ![m] = claims[m] + 1]
  PROVE  /\ row' \in [Messages -> Row] /\ claims' \in [Messages -> Nat]
         /\ row'[m].status = "running" /\ row'[m].lease = "valid"
         /\ row'[m].token = claims[m] + 1 /\ row'[m].vector = 0
         /\ row'[m].attempts = row[m].attempts + 1
         /\ row'[m].attempts \in 1..MaxAttempts
         /\ claims'[m] = claims[m] + 1 /\ claims[m] \in Nat
         /\ \A n \in Messages : n # m => row'[n] = row[n] /\ claims'[n] = claims[n]
         /\ LeaseMatchesStatus' /\ QueuedHasAttemptLeft'
         /\ VectorOfLatestClaim' /\ LatestToken'
<1>1. row[m] \in Row /\ claims[m] \in Nat /\ row[m].vector = 0
      /\ row[m].attempts \in Nat /\ row[m].attempts < MaxAttempts
  BY DEF IInv, TypeOK, Claimable, Row
<1>2. ClaimedRow(m) \in Row
  <2>1. row[m].attempts + 1 \in Nat /\ claims[m] + 1 \in Nat
    BY <1>1
  <2>2. QED
    BY <1>1, <2>1 DEF ClaimedRow, Row, Statuses
<1>3. /\ ClaimedRow(m).status = "running" /\ ClaimedRow(m).lease = "valid"
      /\ ClaimedRow(m).token = claims[m] + 1 /\ ClaimedRow(m).vector = 0
      /\ ClaimedRow(m).attempts = row[m].attempts + 1
  BY <1>1 DEF ClaimedRow, Row
<1>4. row' \in [Messages -> Row] /\ claims' \in [Messages -> Nat] /\ row'[m] = ClaimedRow(m)
      /\ claims'[m] = claims[m] + 1
      /\ \A n \in Messages : n # m => row'[n] = row[n] /\ claims'[n] = claims[n]
  BY <1>1, <1>2 DEF IInv, TypeOK
<1>5. row[m].attempts + 1 \in 1..MaxAttempts
  BY <1>1, EmbeddingPolicy
<1>6. LeaseMatchesStatus' /\ QueuedHasAttemptLeft' /\ VectorOfLatestClaim' /\ LatestToken'
  BY <1>1, <1>3, <1>4, <1>5
     DEF IInv, LeaseMatchesStatus, QueuedHasAttemptLeft, VectorOfLatestClaim, LatestToken
<1>7. QED
  BY <1>1, <1>3, <1>4, <1>5, <1>6

\* A fresh token is not held by any loop, so what loops know stays sound.
LEMMA ClaimKeepsJobs ==
  ASSUME IInv, NEW m \in Messages, Claimable(m),
         row' = [row EXCEPT ![m] = ClaimedRow(m)],
         claims' = [claims EXCEPT ![m] = claims[m] + 1],
         NEW u \in Loops, job[u] # NoJob
  PROVE  /\ job[u].token <= claims'[job[u].msg]
         /\ job[u].attempts \in 1..MaxAttempts
         /\ job[u].verdict = "retry" => job[u].attempts < MaxAttempts
         /\ row'[job[u].msg].status = "running"
              /\ row'[job[u].msg].token = job[u].token
              => row'[job[u].msg].attempts = job[u].attempts
         /\ job[u].msg = m => job[u].token <= claims[m]
<1>1. job[u].msg \in Messages /\ job[u].token \in Nat /\ job[u].token <= claims[job[u].msg]
      /\ claims[job[u].msg] \in Nat
  BY DEF IInv, TypeOK, Job, JobSound
<1>2. ASSUME job[u].msg = m
      PROVE  row'[job[u].msg].token # job[u].token
  <2>1. row'[m].token = claims[m] + 1
    BY ClaimedRowSound
  <2>2. job[u].token <= claims[m] /\ claims[m] \in Nat
    BY <1>1, <1>2
  <2>3. QED
    BY <1>1, <1>2, <2>1, <2>2
<1>3. QED
  BY <1>1, <1>2, ClaimedRowSound DEF IInv, JobSound

LEMMA PickAnswerLostPreserves ==
  ASSUME IInv, NEW w \in Loops, NEW m \in Messages, PickAnswerLost(w, m)
  PROVE  IInv'
<1>1. /\ Claimable(m) /\ row' = [row EXCEPT ![m] = ClaimedRow(m)]
      /\ claims' = [claims EXCEPT ![m] = claims[m] + 1]
      /\ pc' = [pc EXCEPT ![w] = "poll"] /\ pc[w] = "pick" /\ mode[ProcessOf(w)] # "down"
      /\ UNCHANGED <<mode, job, stops, backfills>>
  BY DEF PickAnswerLost
<1>2. TypeOK'
  BY <1>1, ClaimedRowSound DEF IInv, TypeOK
<1>3. LoopHasJob' /\ DistinctTokens'
  BY <1>1 DEF IInv, TypeOK, LoopHasJob, DistinctTokens
<1>4. JobSound'
  BY <1>1, ClaimKeepsJobs DEF JobSound
<1>5. QED
  BY <1>1, <1>2, <1>3, <1>4, ClaimedRowSound DEF IInv

LEMMA PickPreserves ==
  ASSUME IInv, NEW w \in Loops, NEW m \in Messages, Pick(w, m)
  PROVE  IInv'
<1> DEFINE j == [msg |-> m, token |-> claims[m] + 1, attempts |-> row[m].attempts + 1,
                 verdict |-> "unknown"]
<1>1. /\ Claimable(m) /\ row' = [row EXCEPT ![m] = ClaimedRow(m)]
      /\ claims' = [claims EXCEPT ![m] = claims[m] + 1]
      /\ pc' = [pc EXCEPT ![w] = "embed"] /\ pc[w] = "pick" /\ mode[ProcessOf(w)] = "up"
      /\ job' = [job EXCEPT ![w] = j]
      /\ UNCHANGED <<mode, stops, backfills>>
  BY DEF Pick
<1>2. /\ row'[m].status = "running" /\ row'[m].token = claims[m] + 1
      /\ row'[m].attempts = row[m].attempts + 1 /\ row'[m].attempts \in 1..MaxAttempts
      /\ claims'[m] = claims[m] + 1 /\ claims[m] \in Nat
  BY <1>1, ClaimedRowSound
<1>3. j \in Job /\ j # NoJob
  BY <1>2 DEF Job, Verdicts, NoJob
<1>4. job'[w] = j /\ \A u \in Loops : u # w => job'[u] = job[u]
  BY <1>1 DEF IInv, TypeOK
<1>5. TypeOK'
  BY <1>1, <1>3, ClaimedRowSound DEF IInv, TypeOK
<1>6. LoopHasJob'
  BY <1>1, <1>3, <1>4 DEF IInv, TypeOK, LoopHasJob
<1>7. JobSound'
  <2> SUFFICES ASSUME NEW u \in Loops, job'[u] # NoJob
               PROVE  /\ job'[u].token <= claims'[job'[u].msg]
                      /\ job'[u].attempts \in 1..MaxAttempts
                      /\ job'[u].verdict = "retry" => job'[u].attempts < MaxAttempts
                      /\ row'[job'[u].msg].status = "running"
                           /\ row'[job'[u].msg].token = job'[u].token
                           => row'[job'[u].msg].attempts = job'[u].attempts
    BY DEF JobSound
  <2>1. CASE u = w
    BY <2>1, <1>2, <1>4
  <2>2. CASE u # w
    BY <2>2, <1>1, <1>4, ClaimKeepsJobs
  <2>3. QED
    BY <2>1, <2>2
<1>8. DistinctTokens'
  <2>1. ASSUME NEW u \in Loops, u # w, job[u] # NoJob, job[u].msg = m
        PROVE  job[u].token # claims[m] + 1
    <3>1. job[u].token <= claims[m] /\ job[u].token \in Nat
      BY <2>1, <1>1, ClaimKeepsJobs DEF IInv, TypeOK, Job
    <3>2. QED
      BY <3>1, <1>2
  <2>2. QED
    BY <2>1, <1>4 DEF IInv, DistinctTokens
<1>9. QED
  BY <1>1, <1>5, <1>6, <1>7, <1>8, ClaimedRowSound DEF IInv

-----------------------------------------------------------------------------
(* Settle. *)

\* The row Complete, Fail or Release leaves behind, given that the loop holds
\* the lease.
LEMMA SettledRowSound ==
  ASSUME IInv, NEW w \in Loops, pc[w] = "settle", HoldsLease(w)
  PROVE  LET m == job[w].msg
             r == SettledRow(row[m], job[w])
         IN  /\ m \in Messages
             /\ r \in Row
             /\ r.status \in {"succeeded", "queued", "failed"}
             /\ r.lease = "null" /\ r.token = 0
             /\ r.status = "queued" => r.attempts < MaxAttempts
             /\ r.status = "succeeded" <=> r.vector # 0
             /\ r.vector # 0 => r.vector = claims[m]
<1> DEFINE m == job[w].msg
           j == job[w]
           r == SettledRow(row[m], j)
           freed == [row[m] EXCEPT !.lease = "null", !.token = 0]
<1>1. j \in Job /\ j # NoJob /\ m \in Messages
  BY DEF IInv, TypeOK, LoopHasJob, Job
<1>2. /\ row[m] \in Row /\ row[m].status = "running" /\ row[m].vector = 0
      /\ row[m].token = j.token /\ row[m].token = claims[m] /\ row[m].token # 0
      /\ row[m].attempts \in 1..MaxAttempts /\ row[m].attempts = j.attempts
      /\ j.token \in Nat
  BY <1>1 DEF HoldsLease, IInv, TypeOK, LeaseMatchesStatus, VectorOfLatestClaim,
              LatestToken, JobSound, Job
<1>3. /\ freed \in Row /\ freed.vector = 0 /\ freed.lease = "null" /\ freed.token = 0
      /\ freed.attempts = row[m].attempts
  BY <1>2 DEF Row
<1>4. row[m].attempts - 1 \in Nat /\ row[m].attempts - 1 < MaxAttempts
  BY <1>2, EmbeddingPolicy
<1>5. CASE j.verdict = "complete"
  <2>1. r = [freed EXCEPT !.status = "succeeded", !.vector = j.token]
    BY <1>5 DEF SettledRow
  <2>2. r \in Row
    BY <2>1, <1>2, <1>3 DEF Row, Statuses
  <2>3. r.status = "succeeded" /\ r.vector = j.token /\ r.lease = "null" /\ r.token = 0
    BY <2>1, <1>3 DEF Row
  <2>4. j.token # 0 /\ j.token = claims[m]
    BY <1>2
  <2>5. QED
    BY <2>2, <2>3, <2>4, <1>1
<1>6. CASE j.verdict = "retry"
  <2>1. r = [freed EXCEPT !.status = "queued", !.due = FALSE]
    BY <1>6 DEF SettledRow
  <2>2. j.attempts < MaxAttempts
    BY <1>6, <1>1 DEF IInv, JobSound
  <2>3. QED
    BY <2>1, <2>2, <1>1, <1>2, <1>3 DEF Row, Statuses
<1>7. CASE j.verdict = "fail"
  <2>1. r = [freed EXCEPT !.status = "failed", !.due = FALSE]
    BY <1>7 DEF SettledRow
  <2>2. QED
    BY <2>1, <1>1, <1>2, <1>3 DEF Row, Statuses
<1>8. CASE j.verdict \notin {"complete", "retry", "fail"}
  <2>1. r = [freed EXCEPT !.status = "queued", !.due = TRUE,
                          !.attempts = row[m].attempts - 1]
    BY <1>8 DEF SettledRow
  <2>2. QED
    BY <2>1, <1>1, <1>2, <1>3, <1>4 DEF Row, Statuses
<1>9. QED
  BY <1>5, <1>6, <1>7, <1>8

LEMMA SettlePreserves ==
  ASSUME IInv, NEW w \in Loops, Settle(w)
  PROVE  IInv'
<1> DEFINE m == job[w].msg
           r == SettledRow(row[m], job[w])
<1>1. /\ pc[w] = "settle" /\ pc' = [pc EXCEPT ![w] = "poll"]
      /\ job' = [job EXCEPT ![w] = NoJob]
      /\ UNCHANGED <<mode, claims, stops, backfills>>
  BY DEF Settle
<1>2. job' \in [Loops -> Job \cup {NoJob}] /\ pc' \in [Loops -> {"poll", "pick", "embed", "settle", "exit"}]
      /\ \A u \in Loops : job'[u] = IF u = w THEN NoJob ELSE job[u]
  BY <1>1 DEF IInv, TypeOK
<1>3. LoopHasJob'
  BY <1>1, <1>2 DEF IInv, TypeOK, LoopHasJob
<1>4. CASE ~HoldsLease(w)
  <2>1. row' = row
    BY <1>4 DEF Settle
  <2>2. TypeOK'
    BY <1>1, <1>2, <2>1 DEF IInv, TypeOK
  <2>3. QED
    BY <2>1, <2>2, <1>1, <1>2, <1>3, DropJobsPreserves
<1>5. CASE HoldsLease(w)
  <2>1. row' = [row EXCEPT ![m] = r]
    BY <1>5 DEF Settle
  <2>2. /\ m \in Messages /\ r \in Row
        /\ r.status \in {"succeeded", "queued", "failed"}
        /\ r.lease = "null" /\ r.token = 0
        /\ r.status = "queued" => r.attempts < MaxAttempts
        /\ r.status = "succeeded" <=> r.vector # 0
        /\ r.vector # 0 => r.vector = claims[m]
    BY <1>1, <1>5, SettledRowSound
  <2>3. row'[m] = r /\ row' \in [Messages -> Row]
        /\ \A n \in Messages : n # m => row'[n] = row[n]
    BY <2>1, <2>2 DEF IInv, TypeOK
  <2>4. TypeOK'
    BY <1>1, <1>2, <2>3 DEF IInv, TypeOK
  <2>5. LeaseMatchesStatus' /\ QueuedHasAttemptLeft' /\ VectorOfLatestClaim' /\ LatestToken'
    BY <1>1, <2>2, <2>3
       DEF IInv, LeaseMatchesStatus, QueuedHasAttemptLeft, VectorOfLatestClaim, LatestToken
  <2>6. JobSound'
    <3> SUFFICES ASSUME NEW u \in Loops, job'[u] # NoJob
                 PROVE  /\ job'[u].token <= claims[job'[u].msg]
                        /\ job'[u].attempts \in 1..MaxAttempts
                        /\ job'[u].verdict = "retry" => job'[u].attempts < MaxAttempts
                        /\ row'[job'[u].msg].status = "running"
                             /\ row'[job'[u].msg].token = job'[u].token
                             => row'[job'[u].msg].attempts = job'[u].attempts
      BY <1>1 DEF JobSound
    <3>1. job'[u] = job[u] /\ job[u] # NoJob /\ job[u].msg \in Messages
      BY <1>2 DEF IInv, TypeOK, Job
    <3>2. row'[job[u].msg].status = "running" => row'[job[u].msg] = row[job[u].msg]
      BY <2>2, <2>3, <3>1
    <3>3. QED
      BY <3>1, <3>2 DEF IInv, JobSound
  <2>7. DistinctTokens'
    BY <1>2 DEF IInv, DistinctTokens
  <2>8. QED
    BY <2>4, <2>5, <2>6, <2>7, <1>3 DEF IInv
<1>6. QED
  BY <1>4, <1>5

-----------------------------------------------------------------------------
(* The inductive invariant, and what follows from it. *)

LEMMA StutterPreserves == ASSUME IInv, UNCHANGED vars PROVE IInv'
<1> USE DEF vars, IInv
<1>1. TypeOK' /\ LoopHasJob'
  BY DEF TypeOK, LoopHasJob
<1>2. QED
  BY <1>1, ControlStepPreserves

LEMMA NextPreservesIInv == IInv /\ [Next]_vars => IInv'
<1> SUFFICES ASSUME IInv, [Next]_vars PROVE IInv'
  OBVIOUS
<1>1. ASSUME NEW m \in Messages, PersistMessage(m) PROVE IInv'
  BY <1>1, PersistPreserves
<1>2. ASSUME NEW m \in Messages, DeleteMessage(m) PROVE IInv'
  BY <1>2, DeletePreserves
<1>3. ASSUME NEW m \in Messages, NEW f \in BOOLEAN, QueueMissing(m, f) PROVE IInv'
  BY <1>3, QueueMissingPreserves
<1>4. ASSUME NEW m \in Messages, LeaseRunsOut(m) PROVE IInv'
  BY <1>4, LeaseRunsOutPreserves
<1>5. ASSUME NEW m \in Messages, BackoffElapses(m) PROVE IInv'
  BY <1>5, BackoffElapsesPreserves
<1>6. ASSUME NEW w \in Loops, LoopStep(w) PROVE IInv'
  BY <1>6, SweepPreserves, PickPreserves, PickNothingPreserves, EmbedReturnsPreserves,
     SettlePreserves, LoopExitsPreserves DEF LoopStep
<1>7. ASSUME NEW w \in Loops, NEW m \in Messages, PickAnswerLost(w, m) PROVE IInv'
  BY <1>7, PickAnswerLostPreserves
<1>8. ASSUME NEW w \in Loops, ClaimFails(w) \/ SettleFails(w) PROVE IInv'
  BY <1>8, ClaimFailsPreserves, SettleFailsPreserves
<1>9. ASSUME NEW p \in Processes, Shutdown(p) \/ RunReturns(p) \/ Crash(p) \/ StartProcess(p)
      PROVE IInv'
  BY <1>9, ShutdownPreserves, RunReturnsPreserves, CrashPreserves, StartProcessPreserves
<1>10. CASE UNCHANGED vars
  BY <1>10, StutterPreserves
<1>11. QED
  BY <1>1, <1>2, <1>3, <1>4, <1>5, <1>6, <1>7, <1>8, <1>9, <1>10 DEF Next

\* The inductive invariant holds throughout.
THEOREM InductiveInvariant == Spec => []IInv
<1>1. QED
  BY InitEstablishesIInv, NextPreservesIInv, PTL DEF Spec

\* The rows, the loops and the jobs keep their types.
THEOREM TypeCorrect == Spec => []TypeOK
<1>1. IInv => TypeOK
  BY DEF IInv
<1>2. QED
  BY <1>1, InductiveInvariant, PTL

\* The statements of the queue never violate the CHECK constraint of
\* chat_messages, and never give back an attempt that was not taken.
THEOREM LeaseDiscipline == Spec => []LeaseMatchesStatus
<1>1. IInv => LeaseMatchesStatus
  BY DEF IInv
<1>2. QED
  BY <1>1, InductiveInvariant, PTL

\* Of the loops that claimed a message, at most one passes the WHERE clause of
\* the statements that settle it: their tokens differ (DistinctTokens).
THEOREM SingleHolder == Spec => []AtMostOneHolder
<1>1. IInv => AtMostOneHolder
  BY DEF IInv, DistinctTokens, AtMostOneHolder, HoldsLease
<1>2. QED
  BY <1>1, InductiveInvariant, PTL

\* A stored vector always comes from the latest claim of its message.
THEOREM NoStaleVector == Spec => []VectorOfLatestClaim
<1>1. IInv => VectorOfLatestClaim
  BY DEF IInv
<1>2. QED
  BY <1>1, InductiveInvariant, PTL

\* A job in the queue has an attempt left.
THEOREM QueueNeverExhausted == Spec => []QueuedHasAttemptLeft
<1>1. IInv => QueuedHasAttemptLeft
  BY DEF IInv
<1>2. QED
  BY <1>1, InductiveInvariant, PTL

\* The state that claims, late results, crashes and stops leave behind is one
\* the next statement of the queue can work on.
THEOREM QueueStaysConsistent == Spec => []QueueIsConsistent
<1>1. TypeOK /\ LeaseMatchesStatus /\ QueuedHasAttemptLeft => QueueIsConsistent
  BY DEF QueueIsConsistent
<1>2. QED
  BY <1>1, TypeCorrect, LeaseDiscipline, QueueNeverExhausted, PTL
-----------------------------------------------------------------------------
(* The queue keeps the promise of EmbeddingJob. *)

\* A step that changes the status of one row, and of no other.
StatusStep(m, s) ==
    /\ \A n \in Messages : n # m => row'[n].status = row[n].status
    /\ row'[m].status = s

\* The phase of each message, as Promise sees it.
PhaseMap == [m \in Messages |-> PhaseOf(row[m].status)]

\* A step that changes one status moves one phase.
LEMMA StatusStepMoves ==
  ASSUME NEW m \in Messages, NEW s, StatusStep(m, s), NEW from, PhaseOf(row[m].status) \in from
  PROVE  Promise!Move(m, from, PhaseOf(s))
<1>1. PhaseMap[m] = PhaseOf(row[m].status)
  BY DEF PhaseMap
<1>2. PhaseMap' = [PhaseMap EXCEPT ![m] = PhaseOf(s)]
  BY DEF PhaseMap, StatusStep
<1>3. QED
  BY <1>1, <1>2 DEF Promise!Move, PhaseMap

\* A step that changes no status is a stutter of the promise.
LEMMA NoStatusStepStutters ==
  ASSUME \A m \in Messages : row'[m].status = row[m].status
  PROVE  UNCHANGED PhaseMap
BY DEF PhaseMap

\* What each statement does to the phases.
LEMMA PersistRefines ==
  ASSUME IInv, NEW m \in Messages, PersistMessage(m)
  PROVE  Promise!Store(m)
<1>1. PICK s \in {"queued", "none"} : row' = [row EXCEPT ![m] = InsertedRow(s)]
  BY DEF PersistMessage
<1>2. StatusStep(m, s)
  BY <1>1 DEF IInv, TypeOK, StatusStep, InsertedRow
<1>3. PhaseOf(row[m].status) \in {"absent"}
  BY DEF PersistMessage, PhaseOf
<1>4. Promise!Move(m, {"absent"}, PhaseOf(s))
  BY <1>2, <1>3, StatusStepMoves
<1>5. PhaseOf(s) \in {"idle", "pending"}
  BY DEF PhaseOf
<1>6. QED
  BY <1>4, <1>5 DEF Promise!Store

LEMMA DeleteRefines ==
  ASSUME IInv, NEW m \in Messages, DeleteMessage(m)
  PROVE  Promise!Delete(m)
<1> DEFINE stays == Promise!Phases \ {"absent", "deleted"}
<1>1. StatusStep(m, "deleted")
  BY DEF IInv, TypeOK, StatusStep, NoRow, DeleteMessage
<1>2. row[m].status \in Statuses \ {"absent", "deleted"}
  BY DEF IInv, TypeOK, Row, DeleteMessage
<1>3. PhaseOf(row[m].status) \in stays
  BY <1>2 DEF PhaseOf, Statuses, Promise!Phases
<1>4. Promise!Move(m, stays, PhaseOf("deleted"))
  BY <1>1, <1>3, StatusStepMoves
<1>5. QED
  BY <1>4 DEF Promise!Delete, PhaseOf

LEMMA QueueMissingRefines ==
  ASSUME IInv, NEW m \in Messages, NEW f \in BOOLEAN, QueueMissing(m, f)
  PROVE  Promise!Register(m)
<1>1. StatusStep(m, "queued")
  BY DEF IInv, TypeOK, Row, StatusStep, QueueMissing
<1>2. PhaseOf(row[m].status) \in {"idle", "gaveup"}
  BY DEF QueueMissing, PhaseOf
<1>3. Promise!Move(m, {"idle", "gaveup"}, PhaseOf("queued"))
  BY <1>1, <1>2, StatusStepMoves
<1>4. QED
  BY <1>3 DEF Promise!Register, PhaseOf

LEMMA ClaimRefines ==
  ASSUME IInv, NEW m \in Messages, Claimable(m), row' = [row EXCEPT ![m] = ClaimedRow(m)]
  PROVE  UNCHANGED PhaseMap
<1>1. row[m].status \in {"queued", "running"} /\ row[m] \in Row
  BY DEF Claimable, IInv, TypeOK
<1>2. StatusStep(m, "running")
  BY <1>1 DEF IInv, TypeOK, Row, StatusStep, ClaimedRow
<1>3. QED
  BY <1>1, <1>2 DEF PhaseMap, PhaseOf, StatusStep

\* A sweep gives up on every job that has no attempt left, in one statement.
LEMMA SweepRefines ==
  ASSUME IInv, NEW w \in Loops, Sweep(w)
  PROVE  Promise!GiveUpMany
<1> DEFINE S == {m \in Messages : Exhausted(m)}
<1>1. \A m \in S : row[m].status \in {"queued", "running"} /\ row'[m].status = "failed"
  BY DEF Sweep, Exhausted, IInv, TypeOK, Row
<1>2. \A m \in Messages \ S : row'[m] = row[m]
  BY DEF Sweep
<1>3. S \in SUBSET {m \in Messages : PhaseMap[m] = "pending"}
  BY <1>1 DEF PhaseMap, PhaseOf
<1>4. PhaseMap' = [m \in Messages |-> IF m \in S THEN "gaveup" ELSE PhaseMap[m]]
  BY <1>1, <1>2 DEF PhaseMap, PhaseOf
<1>5. QED
  BY <1>3, <1>4 DEF Promise!GiveUpMany, PhaseMap

\* Only the holder of the lease settles its job, once.
LEMMA SettleRefines ==
  ASSUME IInv, NEW w \in Loops, Settle(w)
  PROVE  \/ Promise!Resolve(job[w].msg) /\ job[w].msg \in Messages
         \/ UNCHANGED PhaseMap
<1> DEFINE m == job[w].msg
           r == SettledRow(row[m], job[w])
<1>1. CASE ~HoldsLease(w)
  BY <1>1, NoStatusStepStutters DEF Settle
<1>2. CASE HoldsLease(w)
  <2>1. m \in Messages /\ r.status \in {"succeeded", "queued", "failed"}
    BY <1>2, SettledRowSound DEF Settle
  <2>2. row[m].status = "running" /\ PhaseOf(row[m].status) \in {"pending"}
    BY <1>2 DEF HoldsLease, PhaseOf
  <2>3. StatusStep(m, r.status)
    BY <1>2, <2>1 DEF Settle, StatusStep, IInv, TypeOK
  <2>4. Promise!Move(m, {"pending"}, PhaseOf(r.status))
    BY <2>1, <2>2, <2>3, StatusStepMoves
  <2>5. CASE r.status = "queued"
    BY <2>2, <2>3, <2>5 DEF PhaseMap, PhaseOf, StatusStep
  <2>6. CASE r.status \in {"succeeded", "failed"}
    <3>1. PhaseOf(r.status) \in {"done", "gaveup"}
      BY <2>6 DEF PhaseOf
    <3>2. QED
      BY <3>1, <2>1, <2>4 DEF Promise!Resolve
  <2>7. QED
    BY <2>1, <2>5, <2>6
<1>3. QED
  BY <1>1, <1>2

\* Every other step changes no status, or only whether a lease or a wait is over.
LEMMA TimeStepRefines ==
  ASSUME IInv, NEW m \in Messages, LeaseRunsOut(m) \/ BackoffElapses(m)
  PROVE  UNCHANGED PhaseMap
<1>1. \A n \in Messages : row'[n].status = row[n].status
  BY DEF LeaseRunsOut, BackoffElapses, IInv, TypeOK, Row
<1>2. QED
  BY <1>1, NoStatusStepStutters

LEMMA LoopStepRefines ==
  ASSUME IInv, NEW w \in Loops, LoopStep(w)
  PROVE  Promise!JobNext \/ UNCHANGED PhaseMap
<1>1. CASE Sweep(w)
  BY <1>1, SweepRefines DEF Promise!JobNext
<1>2. ASSUME NEW m \in Messages, Pick(w, m) PROVE UNCHANGED PhaseMap
  BY <1>2, ClaimRefines DEF Pick
<1>3. CASE Settle(w)
  BY <1>3, SettleRefines DEF Promise!JobNext
<1>4. CASE PickNothing(w) \/ EmbedReturns(w) \/ LoopExits(w)
  BY <1>4, NoStatusStepStutters DEF PickNothing, EmbedReturns, LoopExits
<1>5. QED
  BY <1>1, <1>2, <1>3, <1>4 DEF LoopStep

LEMMA NextRefines == IInv /\ [Next]_vars => [Promise!JobNext]_PhaseMap
<1> SUFFICES ASSUME IInv, [Next]_vars PROVE Promise!JobNext \/ UNCHANGED PhaseMap
  OBVIOUS
<1>1. ASSUME NEW m \in Messages,
             PersistMessage(m) \/ DeleteMessage(m) \/ \E f \in BOOLEAN : QueueMissing(m, f)
      PROVE  Promise!JobNext
  BY <1>1, PersistRefines, DeleteRefines, QueueMissingRefines DEF Promise!JobNext
<1>2. ASSUME NEW m \in Messages, LeaseRunsOut(m) \/ BackoffElapses(m)
      PROVE  UNCHANGED PhaseMap
  BY <1>2, TimeStepRefines
<1>3. ASSUME NEW w \in Loops, LoopStep(w) PROVE Promise!JobNext \/ UNCHANGED PhaseMap
  BY <1>3, LoopStepRefines
<1>4. ASSUME NEW w \in Loops, NEW m \in Messages, PickAnswerLost(w, m)
      PROVE  UNCHANGED PhaseMap
  BY <1>4, ClaimRefines DEF PickAnswerLost
<1>5. ASSUME NEW w \in Loops, ClaimFails(w) \/ SettleFails(w) PROVE UNCHANGED PhaseMap
  BY <1>5, NoStatusStepStutters DEF ClaimFails, SettleFails
<1>6. ASSUME NEW p \in Processes, Shutdown(p) \/ RunReturns(p) \/ Crash(p) \/ StartProcess(p)
      PROVE  UNCHANGED PhaseMap
  BY <1>6, NoStatusStepStutters DEF Shutdown, RunReturns, Crash, StartProcess
<1>7. CASE UNCHANGED vars
  BY <1>7, NoStatusStepStutters DEF vars
<1>8. QED
  BY <1>1, <1>2, <1>3, <1>4, <1>5, <1>6, <1>7 DEF Next

LEMMA InitRefines == Init => Promise!JobInit
BY DEF Init, NoRow, PhaseOf, Promise!JobInit

\* A running job with a valid lease is settled by the holder of its token.
HolderSettles ==
    \A m \in Messages :
        (/\ row[m].status = "running" /\ row[m].lease = "valid"
         /\ row'[m].status \notin {"running", "deleted"})
           => \E w \in Loops : /\ job[w] # NoJob /\ job'[w] = NoJob
                               /\ job[w].msg = m
                               /\ job[w].token = row[m].token

LEMMA NextSettlesByHolder == IInv /\ [Next]_vars => HolderSettles
<1> SUFFICES ASSUME IInv, [Next]_vars, NEW m \in Messages,
                    row[m].status = "running", row[m].lease = "valid",
                    row'[m].status \notin {"running", "deleted"}
             PROVE  \E w \in Loops : /\ job[w] # NoJob /\ job'[w] = NoJob
                                     /\ job[w].msg = m
                                     /\ job[w].token = row[m].token
  BY DEF HolderSettles
<1> USE DEF IInv, TypeOK
<1>1. row' # row
  OBVIOUS
<1>2. ASSUME NEW n \in Messages, PersistMessage(n) \/ \E f \in BOOLEAN : QueueMissing(n, f)
      PROVE  FALSE
  <2>1. row[n].status # "running" /\ \A k \in Messages : k # n => row'[k] = row[k]
    BY <1>2 DEF PersistMessage, QueueMissing
  <2>2. QED
    BY <2>1
<1>3. ASSUME NEW n \in Messages, DeleteMessage(n) PROVE FALSE
  BY <1>3 DEF DeleteMessage, NoRow
<1>4. ASSUME NEW n \in Messages, LeaseRunsOut(n) \/ BackoffElapses(n) PROVE FALSE
  BY <1>4 DEF LeaseRunsOut, BackoffElapses, Row
<1>5. ASSUME NEW w \in Loops, Sweep(w) PROVE FALSE
  BY <1>5 DEF Sweep, Exhausted
<1>6. ASSUME NEW w \in Loops, NEW n \in Messages, Pick(w, n) \/ PickAnswerLost(w, n)
      PROVE  FALSE
  <2>1. row' = [row EXCEPT ![n] = ClaimedRow(n)]
    BY <1>6 DEF Pick, PickAnswerLost
  <2>2. row[n] \in Row
    OBVIOUS
  <2>3. ClaimedRow(n).status = "running"
    BY <2>2 DEF ClaimedRow, Row
  <2>4. row'[m].status = "running" \/ row'[m] = row[m]
    BY <2>1, <2>3
  <2>5. QED
    BY <2>4
<1>7. ASSUME NEW w \in Loops, Settle(w) PROVE /\ job[w] # NoJob /\ job'[w] = NoJob
                                              /\ job[w].msg = m
                                              /\ job[w].token = row[m].token
  <2>1. HoldsLease(w) /\ row' = [row EXCEPT ![job[w].msg] = SettledRow(row[job[w].msg], job[w])]
    BY <1>1, <1>7 DEF Settle
  <2>2. job[w].msg = m
    BY <2>1
  <2>3. job[w] # NoJob
    BY <1>7 DEF Settle, LoopHasJob
  <2>4. QED
    BY <1>7, <2>1, <2>2, <2>3 DEF Settle, HoldsLease
<1>8. ASSUME NEW w \in Loops, PickNothing(w) \/ EmbedReturns(w) \/ LoopExits(w)
                               \/ ClaimFails(w) \/ SettleFails(w)
      PROVE  FALSE
  BY <1>1, <1>8 DEF PickNothing, EmbedReturns, LoopExits, ClaimFails, SettleFails
<1>9. ASSUME NEW p \in Processes, Shutdown(p) \/ RunReturns(p) \/ Crash(p) \/ StartProcess(p)
      PROVE  FALSE
  BY <1>1, <1>9 DEF Shutdown, RunReturns, Crash, StartProcess
<1>10. CASE UNCHANGED vars
  BY <1>1, <1>10 DEF vars
<1>11. QED
  BY <1>2, <1>3, <1>4, <1>5, <1>6, <1>7, <1>8, <1>9, <1>10 DEF Next, LoopStep

\* Neither a sweep, nor a late worker, nor the maintenance command takes a job
\* away from the loop that holds its lease.
THEOREM HolderAlwaysSettles == Spec => OnlyHolderSettles
<1>1. IInv /\ [Next]_vars => [HolderSettles]_vars
  BY NextSettlesByHolder
<1>2. QED
  BY <1>1, InductiveInvariant, PTL DEF Spec, OnlyHolderSettles, HolderSettles

\* The queue implements the job that every message was promised: what claims,
\* retries, crashes and late results do to the rows is one resolution per
\* registration, and a vector stays until the message is deleted.
THEOREM QueueImplementsJob == Spec => ImplementsEmbeddingJob
<1>1. IInv /\ [Next]_vars => [Promise!JobNext]_PhaseMap
  BY NextRefines
<1>2. QED
  BY <1>1, InitRefines, InductiveInvariant, PTL
     DEF Spec, ImplementsEmbeddingJob, Promise!JobSpec, PhaseMap

\* Both halves of what the runs check.
THEOREM PromiseIsKept == Spec => KeepsPromise
<1>1. QED
  BY HolderAlwaysSettles, QueueImplementsJob, PTL DEF KeepsPromise

-----------------------------------------------------------------------------
(***************************************************************************)
(* The pool.                                                               *)
(*                                                                         *)
(* That a borrowed connection stays open needs to know who may close one:  *)
(* whatever is on the list of a sweep has left the pool for good and       *)
(* nobody borrows it (Taken), a request that is about to borrow has an     *)
(* entry whose initialisation succeeded (Progress), and such an entry      *)
(* holds its connection until it is evicted (ConnSound).                   *)
(***************************************************************************)

Progress ==
    \A c \in Callers :
        /\ caller[c].pc \notin {"away", "checked"} => caller[c].entry \in Entries
        /\ caller[c].pc \notin {"away", "calling"} => caller[c].config \in Configs
        /\ caller[c].pc = "failed" => conn[caller[c].entry].init = "failed"
        /\ caller[c].pc \in {"sweeping", "shrinking", "closing", "got", "listing", "calling"}
              => conn[caller[c].entry].init = "ready"
        /\ caller[c].pc \notin {"sweeping", "shrinking", "closing"} => caller[c].stale = {}

ConnSound ==
    /\ \A e \in Entries : e > made => conn[e] = NoConn
    /\ \A e \in Entries : conn[e].dial = "held" => conn[e].init = "ready"
    /\ \A e \in Entries : conn[e].init = "ready" =>
          \/ conn[e].dial = "held"
          \/ conn[e].dial = "closed" /\ lease[e].evicted
    /\ \A e \in listed : conn[e].init = "ready"

Taken ==
    /\ \A c \in Callers : \A e \in caller[c].stale : lease[e].evicted /\ lease[e].refs = 0
    /\ \A e \in closer.todo : lease[e].evicted
    /\ closer.pc # "drained" => closer.todo = {}

\* An entry that holds a connection, or may come to hold one, can be found.
Live(e) == conn[e].dial = "held" \/ (conn[e].init = "running" /\ conn[e].dial # "none")

Owned ==
    \A e \in Entries : Live(e) =>
        \/ e \in Pooled /\ closer.pc # "drained"
        \/ \E c \in Callers : e \in caller[c].stale
        \/ e \in closer.todo

PoolInv == PoolTypeOK /\ Progress /\ ConnSound /\ Taken /\ BorrowedStaysOpen /\ Owned

-----------------------------------------------------------------------------
\* The first state has all of it.
LEMMA InitEstablishesPoolInv == PoolInit => PoolInv
<1> SUFFICES ASSUME PoolInit PROVE PoolInv
  OBVIOUS
<1> USE PoolAssumption DEF PoolInit, Entries, None, Free, Away, NoConn
<1>1. PoolTypeOK
  <2>1. Shape
    BY DEF Shape, Phases, Conn, Lease, Request
  <2>2. \A e \in Entries : Borrowers(e) = {}
    BY DEF Borrowers, Borrows
  <2>3. \A e \in Entries : lease[e].refs = Cardinality(Borrowers(e))
    BY <2>2, FS_EmptySet
  <2> QED
    BY <2>1, <2>3 DEF PoolTypeOK
<1>2. Progress /\ ConnSound /\ Taken
  BY DEF Progress, ConnSound, Taken
<1>3. BorrowedStaysOpen /\ Owned
  BY DEF BorrowedStaysOpen, Borrows, Owned, Live
<1> QED
  BY <1>1, <1>2, <1>3 DEF PoolInv

-----------------------------------------------------------------------------
\* The shape of the state and the counter of an entry.

\* Borrowers are finitely many, and refs is zero only without any.
LEMMA CountedBorrowers ==
  ASSUME PoolTypeOK, NEW e \in Entries
  PROVE  /\ IsFiniteSet(Borrowers(e))
         /\ lease[e].refs = 0 => \A c \in Callers : ~Borrows(c, e)
<1>1. IsFiniteSet(Borrowers(e))
  BY PoolAssumption, FS_Subset DEF Borrowers
<1>2. lease[e].refs = 0 => Borrowers(e) = {}
  BY <1>1, FS_EmptySet DEF PoolTypeOK
<1> QED
  BY <1>1, <1>2 DEF Borrowers

\* What a sweep notes down is a set of entries.
LEMMA Chosen ==
  ASSUME Shape, NEW c \in Callers, NEW out \in SUBSET Entries, NEW phase \in Phases,
         caller' = [caller EXCEPT ![c].pc = phase, ![c].todo = out]
  PROVE  caller' \in [Callers -> Request]
<1>1. caller[c] \in Request
  BY DEF Shape
<1>2. [caller[c] EXCEPT !.pc = phase, !.todo = out] \in Request
  BY <1>1 DEF Request
<1>3. caller' = [caller EXCEPT ![c] = [caller[c] EXCEPT !.pc = phase, !.todo = out]]
  OBVIOUS
<1> QED
  BY <1>2, <1>3 DEF Shape

\* What Lookup may do.
LEMMA LookupOutcome ==
  ASSUME Shape, Progress, NEW c \in Callers, Lookup(c)
  PROVE  \/ /\ caller' = [caller EXCEPT ![c] = Away]
            /\ UNCHANGED <<pool, made, conn>>
         \/ \E y \in Entries :
               /\ caller' = [caller EXCEPT ![c].pc = "waiting", ![c].entry = y]
               /\ \/ UNCHANGED <<pool, made, conn>>
                  \/ /\ closer.pc = "off"
                     /\ y = made + 1
                     /\ made' = y
                     /\ pool[caller[c].config] = None
                     /\ pool' = [pool EXCEPT ![caller[c].config] = y]
                     /\ conn' = [conn EXCEPT ![y] = Dialing]
<1> DEFINE e == pool[caller[c].config]
<1>1. CASE caller' = [caller EXCEPT ![c] = Away] /\ UNCHANGED <<pool, made, conn, idle>>
  BY <1>1
<1>2. CASE closer.pc = "off" /\ e # None /\ Waits(c, e) /\ UNCHANGED <<pool, made, conn>>
  <2>1. e \in Entries
    BY <1>2 DEF Shape, Progress, Lookup
  <2> QED
    BY <1>2, <2>1 DEF Waits
<1>3. CASE /\ closer.pc = "off" /\ e = None /\ made < MaxMade /\ made' = made + 1
           /\ pool' = [pool EXCEPT ![caller[c].config] = made + 1]
           /\ conn' = [conn EXCEPT ![made + 1] = Dialing]
           /\ Waits(c, made + 1)
  <2>1. made + 1 \in Entries
    BY <1>3, PoolAssumption DEF Shape, Entries
  <2> QED
    BY <1>3, <2>1 DEF Waits
<1> QED
  BY <1>1, <1>2, <1>3 DEF Lookup

\* In particular, whose phase it may change,
LEMMA LookupMoves ==
  ASSUME Shape, Progress, NEW c \in Callers, Lookup(c)
  PROVE  /\ caller[c].pc \notin {"listing", "calling"}
         /\ caller'[c].pc \notin {"listing", "calling"}
         /\ \A d \in Callers \ {c} : caller'[d] = caller[d]
         /\ \/ caller'[c] = Away
            \/ /\ caller'[c].pc = "waiting" /\ caller'[c].entry \in Entries
               /\ caller'[c].stale = caller[c].stale /\ caller'[c].config = caller[c].config
<1>1. caller[c].pc = "checked"
  BY DEF Lookup
<1>2. CASE caller' = [caller EXCEPT ![c] = Away]
  BY <1>1, <1>2 DEF Shape, Away
<1>3. ASSUME NEW y \in Entries,
             caller' = [caller EXCEPT ![c].pc = "waiting", ![c].entry = y]
      PROVE  /\ \A d \in Callers \ {c} : caller'[d] = caller[d]
             /\ caller'[c].pc = "waiting" /\ caller'[c].entry = y
             /\ caller'[c].stale = caller[c].stale /\ caller'[c].config = caller[c].config
  <2>1. caller[c] \in Request
    BY DEF Shape
  <2> QED
    BY <1>3, <2>1 DEF Shape, Request
<1> QED
  BY <1>1, <1>2, <1>3, LookupOutcome

\* and that no initialised entry is touched.
LEMMA LookupKeeps ==
  ASSUME Shape, Progress, ConnSound, NEW c \in Callers, Lookup(c)
  PROVE  \A x \in Entries : conn[x].init # "running" => conn'[x] = conn[x]
<1>1. CASE UNCHANGED conn
  BY <1>1
<1>2. ASSUME NEW y \in Entries, y = made + 1, conn' = [conn EXCEPT ![y] = Dialing]
      PROVE  \A x \in Entries : conn[x].init # "running" => conn'[x] = conn[x]
  <2>1. conn[y].init = "running"
    BY <1>2, PoolAssumption DEF ConnSound, NoConn, Entries, Shape
  <2> QED
    BY <1>2, <2>1 DEF Shape
<1> QED
  BY <1>1, <1>2, LookupOutcome

\* A step keeps the shape; a release never counts below zero.
LEMMA ShapeStep ==
  ASSUME PoolTypeOK, Shape, Progress, [PoolNext]_poolVars
  PROVE  Shape'
<1>p. Pooled \subseteq Entries
  BY DEF Shape, Pooled
<1>1. ASSUME NEW c \in Callers, Lookup(c) PROVE Shape'
  <2>1. idle' \subseteq Entries /\ UNCHANGED <<lease, listed, mu, closer>>
    BY <1>1 DEF Lookup, Waits, Shape
  <2>2. CASE caller' = [caller EXCEPT ![c] = Away] /\ UNCHANGED <<pool, made, conn>>
    BY <2>1, <2>2 DEF Shape, Request, Phases, Away
  <2>3. ASSUME NEW y \in Entries,
               caller' = [caller EXCEPT ![c].pc = "waiting", ![c].entry = y],
               \/ UNCHANGED <<pool, made, conn>>
               \/ /\ y = made + 1 /\ made' = y
                  /\ pool' = [pool EXCEPT ![caller[c].config] = y]
                  /\ conn' = [conn EXCEPT ![y] = Dialing]
        PROVE  Shape'
    <3>1. caller' \in [Callers -> Request]
      <4>1. caller[c] \in Request
        BY DEF Shape
      <4>2. caller' = [caller EXCEPT ![c] = [caller[c] EXCEPT !.pc = "waiting", !.entry = y]]
        BY <2>3
      <4> QED
        BY <4>1, <4>2 DEF Shape, Request, Phases
    <3>2. pool' \in [Configs -> Entries \cup {None}]
      BY <2>3 DEF Shape
    <3>3. made' \in 0 .. MaxMade
      BY <2>3, PoolAssumption DEF Shape, Entries
    <3>4. conn' \in [Entries -> Conn]
      BY <2>3 DEF Shape, Conn, Dialing, NoConn
    <3> QED
      BY <2>1, <3>1, <3>2, <3>3, <3>4 DEF Shape
  <2> QED
    BY <1>1, <2>2, <2>3, LookupOutcome
<1>2. ASSUME NEW c \in Callers, GivesUp(c) PROVE Shape'
  <2>1. caller' \in [Callers -> Request]
    BY <1>2 DEF GivesUp, Shape, Request, Phases, Away
  <2> QED
    BY <1>2, <2>1 DEF GivesUp, Shape, entryVars
<1>3. ASSUME NEW c \in Callers, FailedLongAgo(c) PROVE Shape'
  <2>1. caller' \in [Callers -> Request]
    BY <1>3 DEF FailedLongAgo, Shape, Request, Phases, Away
  <2> QED
    BY <1>3, <2>1 DEF FailedLongAgo, Shape, entryVars
<1>4. ASSUME NEW c \in Callers, RemoveIfSame(c) PROVE Shape'
  <2>1. caller[c].entry \in Entries
    BY <1>4 DEF RemoveIfSame, Progress
  <2>2. pool' \in [Configs -> Entries \cup {None}]
    BY <1>4, <2>1 DEF RemoveIfSame, Shape
  <2>3. lease' \in [Entries -> Lease]
    <3>1. CASE lease' = [lease EXCEPT ![caller[c].entry].evicted = TRUE]
      BY <2>1, <3>1 DEF Shape, Lease
    <3>2. CASE UNCHANGED lease
      BY <3>2 DEF Shape
    <3> QED
      BY <1>4, <3>1, <3>2 DEF RemoveIfSame
  <2>4. idle' \subseteq Entries
    BY <1>4, <2>1 DEF RemoveIfSame, Shape, Pooled
  <2>5. caller' \in [Callers -> Request]
    BY <1>4, <2>1 DEF RemoveIfSame, Shape, Request, Phases, Away
  <2> QED
    BY <1>4, <2>1, <2>2, <2>3, <2>4, <2>5 DEF RemoveIfSame, Shape, entryVars
<1>5. ASSUME NEW c \in Callers, SweepBegins(c) PROVE Shape'
  <2>1. caller' \in [Callers -> Request]
    <3>1. Pooled \cap idle \in SUBSET Entries
      BY <1>p
    <3> QED
      BY <1>5, <3>1, Chosen DEF SweepBegins, Phases
  <2>2. mu' \in Callers \cup {Free}
    BY <1>5 DEF SweepBegins, Shape
  <2> QED
    BY <1>5, <2>1, <2>2 DEF SweepBegins, Shape, entryVars
<1>6. ASSUME NEW c \in Callers, SweepShrinks(c) PROVE Shape'
  <2>1. caller' \in [Callers -> Request]
    <3>1. PICK out \in SUBSET Entries :
             caller' = [caller EXCEPT ![c].pc = "shrinking", ![c].todo = out]
      BY <1>6, <1>p DEF SweepShrinks
    <3> QED
      BY <3>1, Chosen DEF Phases
  <2> QED
    BY <1>6, <2>1 DEF SweepShrinks, Shape, entryVars
<1>7. ASSUME NEW c \in Callers, SweepUnlocks(c) PROVE Shape'
  <2>1. caller' \in [Callers -> Request]
    BY <1>7 DEF SweepUnlocks, Shape, Request, Phases, Away
  <2>2. mu' \in Callers \cup {Free}
    BY <1>7 DEF SweepUnlocks, Shape
  <2> QED
    BY <1>7, <2>1, <2>2 DEF SweepUnlocks, Shape, entryVars
<1>8. ASSUME NEW c \in Callers, SweepReturns(c) PROVE Shape'
  <2>1. caller' \in [Callers -> Request]
    BY <1>8 DEF SweepReturns, Shape, Request, Phases, Away
  <2> QED
    BY <1>8, <2>1 DEF SweepReturns, Shape, entryVars
<1>9. ASSUME NEW c \in Callers, GetTools(c) PROVE Shape'
  <2>1. caller[c].entry \in Entries
    BY <1>9 DEF GetTools, Progress
  <2>2. caller' \in [Callers -> Request]
    BY <1>9, <2>1 DEF GetTools, Acquire, Shape, Request, Phases, Away
  <2>3. lease' \in [Entries -> Lease]
    BY <1>9, <2>1 DEF GetTools, Acquire, Shape, Lease
  <2>4. idle' \subseteq Entries
    BY <1>9, <2>1 DEF GetTools, Acquire, Shape, Pooled
  <2> QED
    BY <1>9, <2>1, <2>2, <2>3, <2>4 DEF GetTools, Acquire, Shape, entryVars
<1>10. ASSUME NEW c \in Callers, Release(c) PROVE Shape'
  <2>1. caller[c].entry \in Entries /\ Borrows(c, caller[c].entry)
    BY <1>10 DEF Release, Progress, Borrows
  <2>2. lease[caller[c].entry].refs \in Nat \ {0}
    BY <2>1, CountedBorrowers DEF Shape, Lease
  <2>3. caller' \in [Callers -> Request]
    BY <1>10, <2>1, <2>2 DEF Release, Shape, Request, Phases, Away
  <2>4. lease' \in [Entries -> Lease]
    <3>1. lease' = [lease EXCEPT ![caller[c].entry].refs = lease[caller[c].entry].refs - 1]
      BY <1>10 DEF Release
    <3>2. lease[caller[c].entry].refs - 1 \in Nat
      BY <2>2
    <3> QED
      BY <2>1, <3>1, <3>2 DEF Shape, Lease
  <2>5. listed' \subseteq Entries
    BY <1>10, <2>1, <2>2 DEF Release, Shape
  <2> QED
    BY <1>10, <2>1, <2>2, <2>3, <2>4, <2>5 DEF Release, Shape, entryVars
<1>11. ASSUME NEW c \in Callers, NEW e \in Entries, Evict(c, e) PROVE Shape'
  <2>1. pool' \in [Configs -> Entries \cup {None}]
    BY <1>11 DEF Evict, TryMarkEvicted, Shape
  <2>2. lease' \in [Entries -> Lease]
    <3>1. CASE lease' = [lease EXCEPT ![e].evicted = TRUE]
      BY <3>1 DEF Shape, Lease
    <3>2. CASE UNCHANGED lease
      BY <3>2 DEF Shape
    <3> QED
      BY <1>11, <3>1, <3>2 DEF Evict
  <2>3. idle' \subseteq Entries
    BY <1>11 DEF Evict, TryMarkEvicted, Shape, Pooled
  <2>4. caller' \in [Callers -> Request]
    <3>1. \/ caller' = [caller EXCEPT ![c].todo = @ \ {e}, ![c].stale = @ \cup {e}]
          \/ caller' = [caller EXCEPT ![c].todo = @ \ {e}]
      BY <1>11 DEF Evict
    <3>2. caller[c] \in Request
      BY DEF Shape
    <3> QED
      BY <3>1, <3>2 DEF Shape, Request
  <2> QED
    BY <1>11, <2>1, <2>2, <2>3, <2>4 DEF Evict, TryMarkEvicted, Shape,
        entryVars
<1>12. ASSUME NEW c \in Callers, NEW e \in Entries, CloseStale(c, e)
      PROVE  Shape'
  <2>1. conn' \in [Entries -> Conn]
    BY <1>12 DEF CloseStale, Closed, Shape, Conn
  <2>2. caller' \in [Callers -> Request]
    BY <1>12 DEF CloseStale, Closed, Shape, Request, Phases, Away
  <2> QED
    BY <1>12, <2>1, <2>2 DEF CloseStale, Closed, Shape, entryVars
<1>13. ASSUME NEW c \in Callers, NEW k \in Configs, CheckOpen(c, k)
      PROVE  Shape'
  <2>1. caller' \in [Callers -> Request]
    BY <1>13 DEF CheckOpen, Shape, Request, Phases, Away
  <2> QED
    BY <1>13, <2>1 DEF CheckOpen, Shape, entryVars
<1>14. ASSUME NEW c \in Callers, NEW e \in Entries, InvokableRun(c, e)
      PROVE  Shape'
  <2>1. caller' \in [Callers -> Request]
    BY <1>14 DEF InvokableRun, Acquire, Shape, Request, Phases, Away
  <2>2. lease' \in [Entries -> Lease]
    BY <1>14 DEF InvokableRun, Acquire, Shape, Lease
  <2>3. idle' \subseteq Entries
    BY <1>14 DEF InvokableRun, Acquire, Shape, Pooled
  <2> QED
    BY <1>14, <2>1, <2>2, <2>3 DEF InvokableRun, Acquire, Shape, entryVars
<1>15. ASSUME NEW e \in Entries, DialReturns(e) PROVE Shape'
  <2>1. conn' \in [Entries -> Conn]
    BY <1>15 DEF DialReturns, Shape, Conn
  <2> QED
    BY <1>15, <2>1 DEF DialReturns, Shape, entryVars
<1>16. ASSUME NEW e \in Entries, InitTakes(e) PROVE Shape'
  <2>1. conn' \in [Entries -> Conn]
    BY <1>16 DEF InitTakes, Shape, Conn
  <2> QED
    BY <1>16, <2>1 DEF InitTakes, Shape, entryVars
<1>17. ASSUME NEW e \in Entries, InitTimesOut(e) PROVE Shape'
  <2>1. conn' \in [Entries -> Conn]
    BY <1>17 DEF InitTimesOut, Shape, Conn
  <2> QED
    BY <1>17, <2>1 DEF InitTimesOut, Shape, entryVars
<1>18. ASSUME NEW e \in Entries, CloseLate(e) PROVE Shape'
  <2>1. conn' \in [Entries -> Conn]
    BY <1>18 DEF CloseLate, Shape, Conn
  <2> QED
    BY <1>18, <2>1 DEF CloseLate, Shape, entryVars
<1>19. ASSUME NEW e \in Entries, IdleElapses(e) PROVE Shape'
  <2>1. idle' \subseteq Entries
    BY <1>19 DEF IdleElapses, Shape, Pooled
  <2> QED
    BY <1>19, <2>1 DEF IdleElapses, Shape, entryVars
<1>20. ASSUME CloseBegins PROVE Shape'
  <2>1. closer' \in [pc : {"off", "marked", "drained"}, todo : SUBSET Entries]
    BY <1>20 DEF CloseBegins, Shape, Pooled
  <2> QED
    BY <1>20, <2>1 DEF CloseBegins, Shape, entryVars
<1>21. ASSUME CloseDrains PROVE Shape'
  <2>1. pool' \in [Configs -> Entries \cup {None}]
    BY <1>21 DEF CloseDrains, Shape
  <2>2. lease' \in [Entries -> Lease]
    BY <1>21 DEF CloseDrains, Shape, Lease
  <2>3. idle' \subseteq Entries
    BY <1>21 DEF CloseDrains, Shape, Pooled
  <2>4. closer' \in [pc : {"off", "marked", "drained"}, todo : SUBSET Entries]
    BY <1>21 DEF CloseDrains, Shape, Pooled
  <2> QED
    BY <1>21, <2>1, <2>2, <2>3, <2>4 DEF CloseDrains, Shape, entryVars
<1>22. ASSUME NEW e \in Entries, CloseEntry(e) PROVE Shape'
  <2>1. conn' \in [Entries -> Conn]
    BY <1>22 DEF CloseEntry, Closed, Shape, Conn
  <2>2. closer' \in [pc : {"off", "marked", "drained"}, todo : SUBSET Entries]
    BY <1>22 DEF CloseEntry, Closed, Shape, Pooled
  <2> QED
    BY <1>22, <2>1, <2>2 DEF CloseEntry, Closed, Shape, entryVars
<1>23. CASE UNCHANGED poolVars
  BY <1>23 DEF poolVars, Shape
<1> QED
  BY <1>1, <1>2, <1>3, <1>4, <1>5, <1>6, <1>7, <1>8, <1>9, <1>10, <1>11,
      <1>12, <1>13, <1>14, <1>15, <1>16, <1>17, <1>18, <1>19, <1>20, <1>21,
      <1>22, <1>23 DEF PoolNext, Requests, Connects

\* refs of every entry.
Counted == \A e \in Entries : lease[e].refs = Cardinality(Borrowers(e))

\* The counter follows the borrowers.
LEMMA CountStep ==
  ASSUME PoolTypeOK, Shape, Progress, [PoolNext]_poolVars
  PROVE  Counted'
<1> USE DEF Counted
<1>1. ASSUME NEW c \in Callers, Lookup(c) PROVE Counted'
  <2>1. /\ caller[c].pc \notin {"listing", "calling"}
        /\ caller'[c].pc \notin {"listing", "calling"}
        /\ \A d \in Callers \ {c} : caller'[d] = caller[d]
    BY <1>1, LookupMoves
  <2>2. \A x \in Entries : Borrowers(x)' = Borrowers(x)
    BY <2>1 DEF Borrowers, Borrows
  <2>3. \A x \in Entries : lease'[x].refs = lease[x].refs
    BY <1>1 DEF Lookup, Shape, Lease
  <2> QED
    BY <2>2, <2>3 DEF PoolTypeOK
<1>2. ASSUME NEW c \in Callers, GivesUp(c) PROVE Counted'
  <2>1. \A x \in Entries : Borrowers(x)' = Borrowers(x)
    BY <1>2 DEF GivesUp, Shape, Borrowers, Borrows, Away
  <2>2. \A x \in Entries : lease'[x].refs = lease[x].refs
    BY <1>2 DEF GivesUp, Shape, Lease, entryVars
  <2> QED
    BY <2>1, <2>2 DEF PoolTypeOK
<1>3. ASSUME NEW c \in Callers, FailedLongAgo(c) PROVE Counted'
  <2>1. \A x \in Entries : Borrowers(x)' = Borrowers(x)
    BY <1>3 DEF FailedLongAgo, Shape, Borrowers, Borrows, Away
  <2>2. \A x \in Entries : lease'[x].refs = lease[x].refs
    BY <1>3 DEF FailedLongAgo, Shape, Lease, entryVars
  <2> QED
    BY <2>1, <2>2 DEF PoolTypeOK
<1>4. ASSUME NEW c \in Callers, RemoveIfSame(c) PROVE Counted'
  <2>1. \A x \in Entries : Borrowers(x)' = Borrowers(x)
    BY <1>4 DEF RemoveIfSame, Shape, Borrowers, Borrows, Away
  <2>2. \A x \in Entries : lease'[x].refs = lease[x].refs
    BY <1>4 DEF RemoveIfSame, Shape, Lease, entryVars
  <2> QED
    BY <2>1, <2>2 DEF PoolTypeOK
<1>5. ASSUME NEW c \in Callers, SweepBegins(c) PROVE Counted'
  <2>1. \A x \in Entries : Borrowers(x)' = Borrowers(x)
    BY <1>5 DEF SweepBegins, Shape, Borrowers, Borrows, Away
  <2>2. \A x \in Entries : lease'[x].refs = lease[x].refs
    BY <1>5 DEF SweepBegins, Shape, Lease, entryVars
  <2> QED
    BY <2>1, <2>2 DEF PoolTypeOK
<1>6. ASSUME NEW c \in Callers, SweepShrinks(c) PROVE Counted'
  <2>1. \A x \in Entries : Borrowers(x)' = Borrowers(x)
    BY <1>6 DEF SweepShrinks, Shape, Borrowers, Borrows, Away
  <2>2. \A x \in Entries : lease'[x].refs = lease[x].refs
    BY <1>6 DEF SweepShrinks, Shape, Lease, entryVars
  <2> QED
    BY <2>1, <2>2 DEF PoolTypeOK
<1>7. ASSUME NEW c \in Callers, SweepUnlocks(c) PROVE Counted'
  <2>1. \A x \in Entries : Borrowers(x)' = Borrowers(x)
    BY <1>7 DEF SweepUnlocks, Shape, Borrowers, Borrows, Away
  <2>2. \A x \in Entries : lease'[x].refs = lease[x].refs
    BY <1>7 DEF SweepUnlocks, Shape, Lease, entryVars
  <2> QED
    BY <2>1, <2>2 DEF PoolTypeOK
<1>8. ASSUME NEW c \in Callers, SweepReturns(c) PROVE Counted'
  <2>1. \A x \in Entries : Borrowers(x)' = Borrowers(x)
    BY <1>8 DEF SweepReturns, Shape, Borrowers, Borrows, Away
  <2>2. \A x \in Entries : lease'[x].refs = lease[x].refs
    BY <1>8 DEF SweepReturns, Shape, Lease, entryVars
  <2> QED
    BY <2>1, <2>2 DEF PoolTypeOK
<1>9. ASSUME NEW c \in Callers, GetTools(c) PROVE Counted'
  <2>1. CASE UNCHANGED lease /\ caller' = [caller EXCEPT ![c] = Away]
    <3>1. \A x \in Entries : Borrowers(x)' = Borrowers(x)
      BY <1>9, <2>1 DEF GetTools, Shape, Borrowers, Borrows, Away
    <3> QED
      BY <2>1, <3>1 DEF PoolTypeOK
  <2>2. ASSUME NEW phase \in {"listing", "calling"}, NEW y \in Entries,
               caller' = [caller EXCEPT ![c].pc = phase, ![c].entry = y],
               lease' = [lease EXCEPT ![y].refs = @ + 1]
        PROVE  Counted'
    <3>1. /\ c \notin Borrowers(y)
          /\ Borrowers(y)' = Borrowers(y) \cup {c}
          /\ \A x \in Entries \ {y} : Borrowers(x)' = Borrowers(x)
      BY <1>9, <2>2 DEF GetTools, Shape, Borrowers, Borrows
    <3>2. Cardinality(Borrowers(y)') = Cardinality(Borrowers(y)) + 1
      BY <3>1, CountedBorrowers, FS_AddElement
    <3> QED
      BY <2>2, <3>1, <3>2 DEF PoolTypeOK, Shape, Lease
  <2> QED
    BY <1>9, <2>1, <2>2 DEF GetTools, Acquire, Progress
<1>10. ASSUME NEW c \in Callers, Release(c) PROVE Counted'
  <2>1. PICK y \in Entries : y = caller[c].entry
    BY <1>10 DEF Release, Progress
  <2>2. /\ c \in Borrowers(y)
        /\ Borrowers(y)' = Borrowers(y) \ {c}
        /\ \A x \in Entries \ {y} : Borrowers(x)' = Borrowers(x)
    <3>1. /\ Borrows(c, y)
          /\ \A x \in Entries : ~Borrows(c, x)'
          /\ \A x \in Entries \ {y} : ~Borrows(c, x)
          /\ \A d \in Callers \ {c} : \A x \in Entries : Borrows(d, x)' = Borrows(d, x)
      BY <1>10, <2>1 DEF Release, Shape, Borrows, Away
    <3>2. c \in Borrowers(y) /\ Borrowers(y)' = Borrowers(y) \ {c}
      BY <2>1, <3>1 DEF Borrowers
    <3>3. ASSUME NEW x \in Entries \ {y} PROVE Borrowers(x)' = Borrowers(x)
      BY <3>1, <3>3 DEF Borrowers
    <3> QED
      BY <3>2, <3>3
  <2>3. Cardinality(Borrowers(y)') = Cardinality(Borrowers(y)) - 1
    BY <2>1, <2>2, CountedBorrowers, FS_RemoveElement
  <2> QED
    <3>1. lease' = [lease EXCEPT ![y].refs = lease[y].refs - 1]
      BY <1>10, <2>1 DEF Release
    <3>2. lease'[y].refs = lease[y].refs - 1 /\ \A x \in Entries \ {y} : lease'[x] = lease[x]
      BY <2>1, <3>1 DEF Shape, Lease
    <3>3. lease'[y].refs = Cardinality(Borrowers(y)')
      BY <2>1, <2>3, <3>2 DEF PoolTypeOK
    <3>4. ASSUME NEW x \in Entries \ {y} PROVE lease'[x].refs = Cardinality(Borrowers(x)')
      BY <2>2, <3>2, <3>4 DEF PoolTypeOK
    <3> QED
      BY <3>3, <3>4
<1>11. ASSUME NEW c \in Callers, NEW e \in Entries, Evict(c, e)
      PROVE  Counted'
  <2>1. /\ caller[c].pc \notin {"listing", "calling"}
        /\ caller'[c].pc \notin {"listing", "calling"}
        /\ \A d \in Callers \ {c} : caller'[d] = caller[d]
    BY <1>11 DEF Evict, Shape, Away, Request
  <2>2. \A x \in Entries : Borrowers(x)' = Borrowers(x)
    BY <2>1 DEF Borrowers, Borrows
  <2>3. \A x \in Entries : lease'[x].refs = lease[x].refs
    BY <1>11 DEF Evict, Shape, Lease
  <2> QED
    BY <2>2, <2>3 DEF PoolTypeOK
<1>12. ASSUME NEW c \in Callers, NEW e \in Entries, CloseStale(c, e)
      PROVE  Counted'
  <2>1. \A x \in Entries : Borrowers(x)' = Borrowers(x)
    BY <1>12 DEF CloseStale, Closed, Shape, Borrowers, Borrows, Away
  <2>2. \A x \in Entries : lease'[x].refs = lease[x].refs
    BY <1>12 DEF CloseStale, Closed, Shape, Lease, entryVars
  <2> QED
    BY <2>1, <2>2 DEF PoolTypeOK
<1>13. ASSUME NEW c \in Callers, NEW k \in Configs, CheckOpen(c, k)
      PROVE  Counted'
  <2>1. \A x \in Entries : Borrowers(x)' = Borrowers(x)
    BY <1>13 DEF CheckOpen, Shape, Borrowers, Borrows, Away
  <2>2. \A x \in Entries : lease'[x].refs = lease[x].refs
    BY <1>13 DEF CheckOpen, Shape, Lease, entryVars
  <2> QED
    BY <2>1, <2>2 DEF PoolTypeOK
<1>14. ASSUME NEW c \in Callers, NEW e \in Entries, InvokableRun(c, e)
      PROVE  Counted'
  <2>1. CASE UNCHANGED lease /\ caller' = [caller EXCEPT ![c] = Away]
    <3>1. \A x \in Entries : Borrowers(x)' = Borrowers(x)
      BY <1>14, <2>1 DEF InvokableRun, Shape, Borrowers, Borrows, Away
    <3> QED
      BY <2>1, <3>1 DEF PoolTypeOK
  <2>2. ASSUME NEW phase \in {"listing", "calling"}, NEW y \in Entries,
               caller' = [caller EXCEPT ![c].pc = phase, ![c].entry = y],
               lease' = [lease EXCEPT ![y].refs = @ + 1]
        PROVE  Counted'
    <3>1. /\ c \notin Borrowers(y)
          /\ Borrowers(y)' = Borrowers(y) \cup {c}
          /\ \A x \in Entries \ {y} : Borrowers(x)' = Borrowers(x)
      BY <1>14, <2>2 DEF InvokableRun, Shape, Borrowers, Borrows
    <3>2. Cardinality(Borrowers(y)') = Cardinality(Borrowers(y)) + 1
      BY <3>1, CountedBorrowers, FS_AddElement
    <3> QED
      BY <2>2, <3>1, <3>2 DEF PoolTypeOK, Shape, Lease
  <2> QED
    BY <1>14, <2>1, <2>2 DEF InvokableRun, Acquire, Progress
<1>15. ASSUME NEW e \in Entries, DialReturns(e) PROVE Counted'
  <2>1. \A x \in Entries : Borrowers(x)' = Borrowers(x)
    BY <1>15 DEF DialReturns, Shape, Borrowers, Borrows, Away
  <2>2. \A x \in Entries : lease'[x].refs = lease[x].refs
    BY <1>15 DEF DialReturns, Shape, Lease, entryVars
  <2> QED
    BY <2>1, <2>2 DEF PoolTypeOK
<1>16. ASSUME NEW e \in Entries, InitTakes(e) PROVE Counted'
  <2>1. \A x \in Entries : Borrowers(x)' = Borrowers(x)
    BY <1>16 DEF InitTakes, Shape, Borrowers, Borrows, Away
  <2>2. \A x \in Entries : lease'[x].refs = lease[x].refs
    BY <1>16 DEF InitTakes, Shape, Lease, entryVars
  <2> QED
    BY <2>1, <2>2 DEF PoolTypeOK
<1>17. ASSUME NEW e \in Entries, InitTimesOut(e) PROVE Counted'
  <2>1. \A x \in Entries : Borrowers(x)' = Borrowers(x)
    BY <1>17 DEF InitTimesOut, Shape, Borrowers, Borrows, Away
  <2>2. \A x \in Entries : lease'[x].refs = lease[x].refs
    BY <1>17 DEF InitTimesOut, Shape, Lease, entryVars
  <2> QED
    BY <2>1, <2>2 DEF PoolTypeOK
<1>18. ASSUME NEW e \in Entries, CloseLate(e) PROVE Counted'
  <2>1. \A x \in Entries : Borrowers(x)' = Borrowers(x)
    BY <1>18 DEF CloseLate, Shape, Borrowers, Borrows, Away
  <2>2. \A x \in Entries : lease'[x].refs = lease[x].refs
    BY <1>18 DEF CloseLate, Shape, Lease, entryVars
  <2> QED
    BY <2>1, <2>2 DEF PoolTypeOK
<1>19. ASSUME NEW e \in Entries, IdleElapses(e) PROVE Counted'
  <2>1. \A x \in Entries : Borrowers(x)' = Borrowers(x)
    BY <1>19 DEF IdleElapses, Shape, Borrowers, Borrows, Away
  <2>2. \A x \in Entries : lease'[x].refs = lease[x].refs
    BY <1>19 DEF IdleElapses, Shape, Lease, entryVars
  <2> QED
    BY <2>1, <2>2 DEF PoolTypeOK
<1>20. ASSUME CloseBegins PROVE Counted'
  <2>1. \A x \in Entries : Borrowers(x)' = Borrowers(x)
    BY <1>20 DEF CloseBegins, Shape, Borrowers, Borrows, Away
  <2>2. \A x \in Entries : lease'[x].refs = lease[x].refs
    BY <1>20 DEF CloseBegins, Shape, Lease, entryVars
  <2> QED
    BY <2>1, <2>2 DEF PoolTypeOK
<1>21. ASSUME CloseDrains PROVE Counted'
  <2>1. \A x \in Entries : Borrowers(x)' = Borrowers(x)
    BY <1>21 DEF CloseDrains, Shape, Borrowers, Borrows, Away
  <2>2. \A x \in Entries : lease'[x].refs = lease[x].refs
    BY <1>21 DEF CloseDrains, Shape, Lease, entryVars
  <2> QED
    BY <2>1, <2>2 DEF PoolTypeOK
<1>22. ASSUME NEW e \in Entries, CloseEntry(e) PROVE Counted'
  <2>1. \A x \in Entries : Borrowers(x)' = Borrowers(x)
    BY <1>22 DEF CloseEntry, Closed, Shape, Borrowers, Borrows, Away
  <2>2. \A x \in Entries : lease'[x].refs = lease[x].refs
    BY <1>22 DEF CloseEntry, Closed, Shape, Lease, entryVars
  <2> QED
    BY <2>1, <2>2 DEF PoolTypeOK
<1>23. CASE UNCHANGED poolVars
  <2>1. \A x \in Entries : Borrowers(x)' = Borrowers(x)
    BY <1>23 DEF poolVars, Shape, Borrowers, Borrows, Away
  <2>2. \A x \in Entries : lease'[x].refs = lease[x].refs
    BY <1>23 DEF poolVars, Shape, Lease, entryVars
  <2> QED
    BY <2>1, <2>2 DEF PoolTypeOK
<1> QED
  BY <1>1, <1>2, <1>3, <1>4, <1>5, <1>6, <1>7, <1>8, <1>9, <1>10, <1>11,
      <1>12, <1>13, <1>14, <1>15, <1>16, <1>17, <1>18, <1>19, <1>20, <1>21,
      <1>22, <1>23 DEF PoolNext, Requests, Connects

-----------------------------------------------------------------------------
\* Who has what.

\* An entry that is being borrowed is initialised.
LEMMA ProgressStep ==
  ASSUME PoolTypeOK, Shape, Progress, ConnSound, [PoolNext]_poolVars
  PROVE  Progress'
<1>1. ASSUME NEW c \in Callers, Lookup(c) PROVE Progress'
  <2>1. /\ \A d \in Callers \ {c} : caller'[d] = caller[d]
        /\ \/ caller'[c] = Away
           \/ /\ caller'[c].pc = "waiting" /\ caller'[c].entry \in Entries
              /\ caller'[c].stale = caller[c].stale /\ caller'[c].config = caller[c].config
    BY <1>1, LookupMoves
  <2>2. \A x \in Entries : conn[x].init # "running" => conn'[x] = conn[x]
    BY <1>1, LookupKeeps
  <2> QED
    BY <1>1, <2>1, <2>2 DEF Lookup, Progress, Away
<1>2. ASSUME NEW c \in Callers, GivesUp(c) PROVE Progress'
  BY <1>2 DEF GivesUp, Progress, Shape, Away, entryVars
<1>3. ASSUME NEW c \in Callers, FailedLongAgo(c) PROVE Progress'
  BY <1>3 DEF FailedLongAgo, Progress, Shape, Away, entryVars
<1>4. ASSUME NEW c \in Callers, RemoveIfSame(c) PROVE Progress'
  BY <1>4 DEF RemoveIfSame, Progress, Shape, Away, entryVars
<1>5. ASSUME NEW c \in Callers, SweepBegins(c) PROVE Progress'
  BY <1>5 DEF SweepBegins, Progress, Shape, Away, entryVars
<1>6. ASSUME NEW c \in Callers, SweepShrinks(c) PROVE Progress'
  BY <1>6 DEF SweepShrinks, Progress, Shape, Away, entryVars
<1>7. ASSUME NEW c \in Callers, SweepUnlocks(c) PROVE Progress'
  BY <1>7 DEF SweepUnlocks, Progress, Shape, Away, entryVars
<1>8. ASSUME NEW c \in Callers, SweepReturns(c) PROVE Progress'
  BY <1>8 DEF SweepReturns, Progress, Shape, Away, entryVars
<1>9. ASSUME NEW c \in Callers, GetTools(c) PROVE Progress'
  <2>1. CASE caller' = [caller EXCEPT ![c] = Away]
    BY <1>9, <2>1 DEF GetTools, Progress, Shape, Away
  <2>2. CASE caller' = [caller EXCEPT ![c].pc = "listing", ![c].entry = caller[c].entry]
    BY <1>9, <2>2 DEF GetTools, Progress, Shape, Request
  <2> QED
    BY <1>9, <2>1, <2>2 DEF GetTools, Acquire
<1>10. ASSUME NEW c \in Callers, Release(c) PROVE Progress'
  BY <1>10 DEF Release, Progress, Shape, Away, entryVars
<1>11. ASSUME NEW c \in Callers, NEW e \in Entries, Evict(c, e)
      PROVE  Progress'
  <2>1. /\ \A d \in Callers \ {c} : caller'[d] = caller[d]
        /\ caller'[c].pc = caller[c].pc /\ caller'[c].entry = caller[c].entry
        /\ caller'[c].config = caller[c].config
    BY <1>11 DEF Evict, Shape, Request
  <2> QED
    BY <1>11, <2>1 DEF Evict, Progress
<1>12. ASSUME NEW c \in Callers, NEW e \in Entries, CloseStale(c, e)
      PROVE  Progress'
  <2>1. \A x \in Entries : conn'[x].init = conn[x].init
    BY <1>12 DEF CloseStale, Closed, Shape, Conn
  <2>2. /\ \A d \in Callers \ {c} : caller'[d] = caller[d]
        /\ caller'[c].pc = caller[c].pc /\ caller'[c].entry = caller[c].entry
        /\ caller'[c].config = caller[c].config
    BY <1>12 DEF CloseStale, Shape, Request
  <2> QED
    BY <1>12, <2>1, <2>2 DEF CloseStale, Progress
<1>13. ASSUME NEW c \in Callers, NEW k \in Configs, CheckOpen(c, k)
      PROVE  Progress'
  BY <1>13 DEF CheckOpen, Progress, Shape, Away, entryVars
<1>14. ASSUME NEW c \in Callers, NEW e \in Entries, InvokableRun(c, e)
      PROVE  Progress'
  <2>1. CASE caller' = [caller EXCEPT ![c] = Away]
    BY <1>14, <2>1 DEF InvokableRun, Progress, Shape, Away
  <2>2. CASE caller' = [caller EXCEPT ![c].pc = "calling", ![c].entry = e]
    BY <1>14, <2>2 DEF InvokableRun, Progress, ConnSound, Shape, Request
  <2> QED
    BY <1>14, <2>1, <2>2 DEF InvokableRun, Acquire
<1>15. ASSUME NEW e \in Entries, DialReturns(e) PROVE Progress'
  BY <1>15 DEF DialReturns, Progress, Shape, Away, entryVars
<1>16. ASSUME NEW e \in Entries, InitTakes(e) PROVE Progress'
  BY <1>16 DEF InitTakes, Progress, Shape, Away, entryVars
<1>17. ASSUME NEW e \in Entries, InitTimesOut(e) PROVE Progress'
  BY <1>17 DEF InitTimesOut, Progress, Shape, Away, entryVars
<1>18. ASSUME NEW e \in Entries, CloseLate(e) PROVE Progress'
  BY <1>18 DEF CloseLate, Progress, Shape, Away, entryVars
<1>19. ASSUME NEW e \in Entries, IdleElapses(e) PROVE Progress'
  BY <1>19 DEF IdleElapses, Progress, Shape, Away, entryVars
<1>20. ASSUME CloseBegins PROVE Progress'
  BY <1>20 DEF CloseBegins, Progress, Shape, Away, entryVars
<1>21. ASSUME CloseDrains PROVE Progress'
  BY <1>21 DEF CloseDrains, Progress, Shape, Away, entryVars
<1>22. ASSUME NEW e \in Entries, CloseEntry(e) PROVE Progress'
  <2>1. \A x \in Entries : conn'[x].init = conn[x].init
    BY <1>22 DEF CloseEntry, Closed, Shape, Conn
  <2> QED
    BY <1>22, <2>1 DEF CloseEntry, Progress
<1>23. CASE UNCHANGED poolVars
  BY <1>23 DEF poolVars, Progress, Shape, Away, entryVars
<1> QED
  BY <1>1, <1>2, <1>3, <1>4, <1>5, <1>6, <1>7, <1>8, <1>9, <1>10, <1>11,
      <1>12, <1>13, <1>14, <1>15, <1>16, <1>17, <1>18, <1>19, <1>20, <1>21,
      <1>22, <1>23 DEF PoolNext, Requests, Connects

-----------------------------------------------------------------------------
\* Which actions change what, and how.

\* Only Close moves the goroutine that closes the pool.
LEMMA ClosingChanges ==
  ASSUME [PoolNext]_poolVars
  PROVE  UNCHANGED closer \/ CloseBegins \/ CloseDrains \/ \E e \in Entries : CloseEntry(e)
  BY DEF poolVars, PoolNext, Requests, entryVars, Lookup, GivesUp, FailedLongAgo,
      RemoveIfSame, SweepBegins, SweepShrinks, SweepUnlocks, SweepReturns,
      GetTools, Release, Evict, CloseStale, CheckOpen, InvokableRun,
      IdleElapses, CloseBegins, CloseDrains, CloseEntry, Connects,
      DialReturns, InitTakes, InitTimesOut, CloseLate

\* The actions under p.mu that write p.clients.
LEMMA PoolChanges ==
  ASSUME [PoolNext]_poolVars
  PROVE  \/ UNCHANGED pool
         \/ \E c \in Callers : Lookup(c) \/ RemoveIfSame(c)
         \/ \E c \in Callers, e \in Entries : Evict(c, e)
         \/ CloseDrains
  BY DEF poolVars, PoolNext, Requests, entryVars, Lookup, GivesUp, FailedLongAgo,
      RemoveIfSame, SweepBegins, SweepShrinks, SweepUnlocks, SweepReturns,
      GetTools, Release, Evict, CloseStale, CheckOpen, InvokableRun,
      IdleElapses, CloseBegins, CloseDrains, CloseEntry, Connects,
      DialReturns, InitTakes, InitTimesOut, CloseLate

\* The actions under the leaseMu of an entry.
LEMMA LeaseChanges ==
  ASSUME [PoolNext]_poolVars
  PROVE  \/ UNCHANGED lease
         \/ \E c \in Callers : RemoveIfSame(c) \/ GetTools(c) \/ Release(c)
         \/ \E c \in Callers, e \in Entries : Evict(c, e) \/ InvokableRun(c, e)
         \/ CloseDrains
  BY DEF poolVars, PoolNext, Requests, entryVars, Lookup, GivesUp, FailedLongAgo,
      RemoveIfSame, SweepBegins, SweepShrinks, SweepUnlocks, SweepReturns,
      GetTools, Release, Evict, CloseStale, CheckOpen, InvokableRun,
      IdleElapses, CloseBegins, CloseDrains, CloseEntry, Connects,
      DialReturns, InitTakes, InitTimesOut, CloseLate

\* Whoever connects, and whoever closes an entry.
LEMMA ConnChanges ==
  ASSUME [PoolNext]_poolVars
  PROVE  \/ UNCHANGED <<conn, made>>
         \/ \E c \in Callers : Lookup(c)
         \/ \E c \in Callers, e \in Entries : CloseStale(c, e)
         \/ \E e \in Entries : Connects(e) \/ CloseEntry(e)
  BY DEF poolVars, PoolNext, Requests, entryVars, Lookup, GivesUp, FailedLongAgo,
      RemoveIfSame, SweepBegins, SweepShrinks, SweepUnlocks, SweepReturns,
      GetTools, Release, Evict, CloseStale, CheckOpen, InvokableRun,
      IdleElapses, CloseBegins, CloseDrains, CloseEntry, Connects,
      DialReturns, InitTakes, InitTimesOut, CloseLate

\* Tools are handed out when their list has been fetched.
LEMMA ListedChanges ==
  ASSUME [PoolNext]_poolVars
  PROVE  UNCHANGED listed \/ \E c \in Callers : Release(c)
  BY DEF poolVars, PoolNext, Requests, entryVars, Lookup, GivesUp, FailedLongAgo,
      RemoveIfSame, SweepBegins, SweepShrinks, SweepUnlocks, SweepReturns,
      GetTools, Release, Evict, CloseStale, CheckOpen, InvokableRun,
      IdleElapses, CloseBegins, CloseDrains, CloseEntry, Connects,
      DialReturns, InitTakes, InitTimesOut, CloseLate

\* An evicted entry stays evicted, and nobody borrows it again.
LEMMA LeaseMoves ==
  ASSUME PoolTypeOK, Shape, Progress, [PoolNext]_poolVars, NEW x \in Entries
  PROVE  /\ lease[x].evicted => lease'[x].evicted
         /\ lease[x].evicted /\ lease[x].refs = 0 => lease'[x].refs = 0
<1>1. CASE UNCHANGED lease
  BY <1>1
<1>2. ASSUME NEW e \in Entries, lease' = [lease EXCEPT ![e].evicted = TRUE]
      PROVE  lease'[x].refs = lease[x].refs /\ (lease[x].evicted => lease'[x].evicted)
  BY <1>2 DEF Shape, Lease
<1>3. ASSUME NEW e \in Entries, ~lease[e].evicted,
             lease' = [lease EXCEPT ![e].refs = @ + 1]
      PROVE  /\ lease'[x].evicted = lease[x].evicted
             /\ lease[x].evicted => lease'[x].refs = lease[x].refs
  BY <1>3 DEF Shape, Lease
<1>4. ASSUME NEW c \in Callers, Release(c)
      PROVE  /\ lease'[x].evicted = lease[x].evicted
             /\ lease[x].refs = 0 => lease'[x].refs = 0
  <2>1. caller[c].entry \in Entries /\ Borrows(c, caller[c].entry)
    BY <1>4 DEF Release, Progress, Borrows
  <2>2. lease[caller[c].entry].refs # 0
    BY <2>1, CountedBorrowers
  <2> QED
    BY <1>4, <2>1, <2>2 DEF Release, Shape, Lease
<1>5. CASE CloseDrains
  BY <1>5 DEF CloseDrains, Shape, Lease
<1>6. ASSUME NEW c \in Callers, RemoveIfSame(c)
      PROVE  lease'[x].refs = lease[x].refs /\ (lease[x].evicted => lease'[x].evicted)
  <2>1. caller[c].entry \in Entries
    BY <1>6 DEF RemoveIfSame, Progress
  <2> QED
    BY <1>1, <1>2, <1>6, <2>1 DEF RemoveIfSame
<1>7. ASSUME NEW c \in Callers, GetTools(c)
      PROVE  /\ lease'[x].evicted = lease[x].evicted
             /\ lease[x].evicted => lease'[x].refs = lease[x].refs
  <2>1. caller[c].entry \in Entries
    BY <1>7 DEF GetTools, Progress
  <2> QED
    BY <1>1, <1>3, <1>7, <2>1 DEF GetTools, Acquire
<1>8. ASSUME NEW c \in Callers, NEW e \in Entries, Evict(c, e)
      PROVE  lease'[x].refs = lease[x].refs /\ (lease[x].evicted => lease'[x].evicted)
  BY <1>1, <1>2, <1>8 DEF Evict
<1>9. ASSUME NEW c \in Callers, NEW e \in Entries, InvokableRun(c, e)
      PROVE  /\ lease'[x].evicted = lease[x].evicted
             /\ lease[x].evicted => lease'[x].refs = lease[x].refs
  BY <1>1, <1>3, <1>9 DEF InvokableRun, Acquire
<1> QED
  BY <1>1, <1>4, <1>5, <1>6, <1>7, <1>8, <1>9, LeaseChanges

\* A connection is closed by the goroutine that could not hand it over, or by
\* whoever took the entry out of the pool.
ConnMove(x) ==
    \/ conn'[x] = conn[x]
    \/ /\ conn[x].dial = "dialing" /\ conn'[x].dial \in {"offered", "refused"}
       /\ conn'[x].init = conn[x].init
    \/ /\ conn[x].init = "running" /\ conn[x].dial # "none"
       /\ \/ conn'[x].init = "ready" /\ conn'[x].dial = "held"
          \/ conn'[x].init = "failed" /\ conn'[x].dial = conn[x].dial
    \/ /\ conn[x].init = "failed" /\ conn'[x].init = "failed"
       /\ conn[x].dial = "offered" /\ conn'[x].dial = "closed"
    \/ /\ conn[x].dial = "held" /\ conn'[x].dial = "closed"
       /\ conn'[x].init = conn[x].init
       /\ lease[x].evicted
       /\ lease[x].refs = 0 \/ closer.pc = "drained"

\* Every connection moves like this, or has just been asked for.
LEMMA ConnMoves ==
  ASSUME Shape, Progress, ConnSound, Taken, [PoolNext]_poolVars, NEW x \in Entries
  PROVE  ConnMove(x) \/ (x = made + 1 /\ made' = x /\ conn'[x] = Dialing)
<1>1. ASSUME NEW c \in Callers, Lookup(c)
      PROVE  conn'[x] = conn[x] \/ (x = made + 1 /\ made' = x /\ conn'[x] = Dialing)
  <2>1. CASE UNCHANGED conn
    BY <2>1
  <2>2. ASSUME NEW y \in Entries, y = made + 1, made' = y,
               conn' = [conn EXCEPT ![y] = Dialing]
        PROVE  conn'[x] = conn[x] \/ (x = made + 1 /\ made' = x /\ conn'[x] = Dialing)
    <3>1. x # y => conn'[x] = conn[x]
      BY <2>2 DEF Shape
    <3>2. conn'[y] = Dialing
      BY <2>2 DEF Shape
    <3> QED
      BY <2>2, <3>1, <3>2
  <2> QED
    BY <1>1, <2>1, <2>2, LookupOutcome
<1>2. ASSUME NEW e \in Entries, DialReturns(e) PROVE ConnMove(x)
  BY <1>2 DEF DialReturns, ConnMove, Shape, Conn
<1>3. ASSUME NEW e \in Entries, InitTakes(e) PROVE ConnMove(x)
  BY <1>3 DEF InitTakes, ConnMove, Shape, Conn
<1>4. ASSUME NEW e \in Entries, InitTimesOut(e) PROVE ConnMove(x)
  BY <1>4 DEF InitTimesOut, ConnMove, Shape, Conn
<1>5. ASSUME NEW e \in Entries, CloseLate(e) PROVE ConnMove(x)
  BY <1>5 DEF CloseLate, ConnMove, Shape, Conn
<1>6. ASSUME NEW e \in Entries, Closed(e)
      PROVE  \/ conn'[x] = conn[x]
             \/ /\ x = e /\ conn[x].dial = "held" /\ conn'[x].dial = "closed"
                /\ conn'[x].init = conn[x].init
  BY <1>6 DEF Closed, Shape, Conn
<1>7. ASSUME NEW c \in Callers, NEW e \in Entries, CloseStale(c, e) PROVE ConnMove(x)
  <2>1. lease[e].evicted /\ lease[e].refs = 0
    BY <1>7 DEF CloseStale, Taken
  <2> QED
    BY <1>6, <1>7, <2>1 DEF CloseStale, ConnMove
<1>8. ASSUME NEW e \in Entries, CloseEntry(e) PROVE ConnMove(x)
  <2>1. lease[e].evicted /\ closer.pc = "drained"
    BY <1>8 DEF CloseEntry, Taken
  <2> QED
    BY <1>6, <1>8, <2>1 DEF CloseEntry, ConnMove
<1>9. CASE UNCHANGED <<conn, made>>
  BY <1>9 DEF ConnMove
<1> QED
  BY <1>1, <1>2, <1>3, <1>4, <1>5, <1>7, <1>8, <1>9, ConnChanges
      DEF Connects, ConnMove

\* No list of a sweep changes.
StaleKept == \A d \in Callers : caller'[d].stale = caller[d].stale

\* Only a sweep writes its own list.
LEMMA StaleChanges ==
  ASSUME Shape, Progress, [PoolNext]_poolVars
  PROVE  \/ StaleKept
         \/ \E c \in Callers, e \in Entries : Evict(c, e) \/ CloseStale(c, e)
<1>1. ASSUME NEW c \in Callers, Lookup(c) PROVE StaleKept
  <2>1. caller[c].stale = {}
    BY <1>1 DEF Lookup, Progress
  <2>2. \A d \in Callers \ {c} : caller'[d] = caller[d]
    BY <1>1, LookupMoves
  <2>3. caller'[c].stale = {}
    BY <1>1, <2>1, LookupMoves DEF Away
  <2> QED
    BY <2>1, <2>2, <2>3 DEF StaleKept
<1>2. ASSUME NEW c \in Callers, GivesUp(c) PROVE StaleKept
  <2>1. caller[c].stale = {} /\ caller'[c].stale = {}
    BY <1>2 DEF GivesUp, Progress, Shape, Away
  <2>2. \A d \in Callers \ {c} : caller'[d] = caller[d]
    BY <1>2 DEF GivesUp, Shape
  <2> QED
    BY <2>1, <2>2 DEF StaleKept
<1>3. ASSUME NEW c \in Callers, FailedLongAgo(c) PROVE StaleKept
  <2>1. caller[c] \in Request
    BY DEF Shape
  <2> QED
    BY <1>3, <2>1 DEF FailedLongAgo, StaleKept, Shape, Request
<1>4. ASSUME NEW c \in Callers, RemoveIfSame(c) PROVE StaleKept
  <2>1. caller[c].stale = {} /\ caller'[c].stale = {}
    BY <1>4 DEF RemoveIfSame, Progress, Shape, Away
  <2>2. \A d \in Callers \ {c} : caller'[d] = caller[d]
    BY <1>4 DEF RemoveIfSame, Shape
  <2> QED
    BY <2>1, <2>2 DEF StaleKept
<1>5. ASSUME NEW c \in Callers, SweepBegins(c) PROVE StaleKept
  <2>1. caller[c] \in Request
    BY DEF Shape
  <2> QED
    BY <1>5, <2>1 DEF SweepBegins, StaleKept, Shape, Request
<1>6. ASSUME NEW c \in Callers, SweepShrinks(c) PROVE StaleKept
  <2>1. caller[c] \in Request
    BY DEF Shape
  <2> QED
    BY <1>6, <2>1 DEF SweepShrinks, StaleKept, Shape, Request
<1>7. ASSUME NEW c \in Callers, SweepUnlocks(c) PROVE StaleKept
  <2>1. caller[c] \in Request
    BY DEF Shape
  <2> QED
    BY <1>7, <2>1 DEF SweepUnlocks, StaleKept, Shape, Request
<1>8. ASSUME NEW c \in Callers, SweepReturns(c) PROVE StaleKept
  <2>1. caller[c] \in Request
    BY DEF Shape
  <2> QED
    BY <1>8, <2>1 DEF SweepReturns, StaleKept, Shape, Request
<1>9. ASSUME NEW c \in Callers, GetTools(c) PROVE StaleKept
  <2>1. CASE caller' = [caller EXCEPT ![c] = Away]
    BY <1>9, <2>1 DEF GetTools, Progress, Shape, Away, StaleKept
  <2>2. ASSUME NEW phase, NEW y, caller' = [caller EXCEPT ![c].pc = phase, ![c].entry = y]
        PROVE  StaleKept
    <3>1. caller[c] \in Request
      BY DEF Shape
    <3> QED
      BY <2>2, <3>1 DEF StaleKept, Shape, Request
  <2> QED
    BY <1>9, <2>1, <2>2 DEF GetTools, Acquire
<1>10. ASSUME NEW c \in Callers, Release(c) PROVE StaleKept
  <2>1. caller[c].stale = {} /\ caller'[c].stale = {}
    BY <1>10 DEF Release, Progress, Shape, Away
  <2>2. \A d \in Callers \ {c} : caller'[d] = caller[d]
    BY <1>10 DEF Release, Shape
  <2> QED
    BY <2>1, <2>2 DEF StaleKept
<1>11. ASSUME NEW c \in Callers, NEW k \in Configs, CheckOpen(c, k)
      PROVE  StaleKept
  <2>1. caller[c].stale = {} /\ caller'[c].stale = {}
    BY <1>11 DEF CheckOpen, Progress, Shape, Away
  <2>2. \A d \in Callers \ {c} : caller'[d] = caller[d]
    BY <1>11 DEF CheckOpen, Shape
  <2> QED
    BY <2>1, <2>2 DEF StaleKept
<1>12. ASSUME NEW c \in Callers, NEW e \in Entries, InvokableRun(c, e)
      PROVE  StaleKept
  <2>1. CASE caller' = [caller EXCEPT ![c] = Away]
    BY <1>12, <2>1 DEF InvokableRun, Progress, Shape, Away, StaleKept
  <2>2. ASSUME NEW phase, NEW y, caller' = [caller EXCEPT ![c].pc = phase, ![c].entry = y]
        PROVE  StaleKept
    <3>1. caller[c] \in Request
      BY DEF Shape
    <3> QED
      BY <2>2, <3>1 DEF StaleKept, Shape, Request
  <2> QED
    BY <1>12, <2>1, <2>2 DEF InvokableRun, Acquire
<1>13. ASSUME NEW e \in Entries, DialReturns(e) PROVE StaleKept
  BY <1>13 DEF DialReturns, StaleKept
<1>14. ASSUME NEW e \in Entries, InitTakes(e) PROVE StaleKept
  BY <1>14 DEF InitTakes, StaleKept
<1>15. ASSUME NEW e \in Entries, InitTimesOut(e) PROVE StaleKept
  BY <1>15 DEF InitTimesOut, StaleKept
<1>16. ASSUME NEW e \in Entries, CloseLate(e) PROVE StaleKept
  BY <1>16 DEF CloseLate, StaleKept
<1>17. ASSUME NEW e \in Entries, IdleElapses(e) PROVE StaleKept
  BY <1>17 DEF IdleElapses, StaleKept
<1>18. ASSUME CloseBegins PROVE StaleKept
  BY <1>18 DEF CloseBegins, StaleKept
<1>19. ASSUME CloseDrains PROVE StaleKept
  BY <1>19 DEF CloseDrains, StaleKept
<1>20. ASSUME NEW e \in Entries, CloseEntry(e) PROVE StaleKept
  BY <1>20 DEF CloseEntry, Closed, StaleKept
<1>21. CASE UNCHANGED poolVars
  BY <1>21 DEF poolVars, StaleKept
<1> QED
  BY <1>1, <1>2, <1>3, <1>4, <1>5, <1>6, <1>7, <1>8, <1>9, <1>10, <1>11,
      <1>12, <1>13, <1>14, <1>15, <1>16, <1>17, <1>18, <1>19, <1>20, <1>21
      DEF PoolNext, Requests, Connects

\* What is on the list of somebody who closes it is never lent again.
LEMMA TakenStep ==
  ASSUME PoolTypeOK, Shape, Progress, Taken, [PoolNext]_poolVars
  PROVE  Taken'
<1>1. ASSUME NEW d \in Callers, NEW x \in Entries, x \in caller'[d].stale
      PROVE  lease'[x].evicted /\ lease'[x].refs = 0
  <2>1. CASE x \in caller[d].stale
    BY <2>1, LeaseMoves DEF Taken
  <2>2. ASSUME NEW c \in Callers, NEW e \in Entries, Evict(c, e), x \notin caller[d].stale
        PROVE  lease'[x].evicted /\ lease'[x].refs = 0
    <3>1. \/ /\ TryMarkEvicted(e)
             /\ lease' = [lease EXCEPT ![e].evicted = TRUE]
             /\ caller' = [caller EXCEPT ![c].todo = @ \ {e}, ![c].stale = @ \cup {e}]
          \/ caller' = [caller EXCEPT ![c].todo = @ \ {e}]
      BY <2>2 DEF Evict
    <3>2. CASE caller' = [caller EXCEPT ![c].todo = @ \ {e}]
      BY <1>1, <2>2, <3>2 DEF Shape, Request
    <3>3. CASE /\ TryMarkEvicted(e)
               /\ lease' = [lease EXCEPT ![e].evicted = TRUE]
               /\ caller' = [caller EXCEPT ![c].todo = @ \ {e}, ![c].stale = @ \cup {e}]
      <4>1. x = e
        BY <1>1, <2>2, <3>3 DEF Shape, Request
      <4> QED
        BY <3>3, <4>1 DEF TryMarkEvicted, Shape, Lease
    <3> QED
      BY <3>1, <3>2, <3>3
  <2>3. ASSUME NEW c \in Callers, NEW e \in Entries, CloseStale(c, e)
        PROVE  x \in caller[d].stale
    BY <1>1, <2>3 DEF CloseStale, Shape, Request
  <2>4. CASE StaleKept
    BY <1>1, <2>1, <2>4 DEF StaleKept
  <2> QED
    BY <2>1, <2>2, <2>3, <2>4, StaleChanges
<1>2. ASSUME NEW x \in Entries, x \in closer'.todo
      PROVE  lease'[x].evicted
  <2>1. CASE x \in closer.todo
    BY <2>1, LeaseMoves DEF Taken
  <2>2. CASE CloseDrains
    <3>1. x \in Pooled
      BY <1>2, <2>2 DEF CloseDrains
    <3> QED
      BY <2>2, <3>1 DEF CloseDrains, Shape, Lease
  <2>3. ASSUME NEW e \in Entries, CloseEntry(e) PROVE x \in closer.todo
    BY <1>2, <2>3 DEF CloseEntry, Shape
  <2>4. CASE CloseBegins
    BY <1>2, <2>1, <2>4 DEF CloseBegins, Shape
  <2> QED
    BY <1>2, <2>1, <2>2, <2>3, <2>4, ClosingChanges
<1>3. closer'.pc # "drained" => closer'.todo = {}
  <2>1. CASE CloseBegins
    BY <2>1 DEF CloseBegins, Taken, Shape
  <2>2. CASE CloseDrains
    BY <2>2 DEF CloseDrains
  <2>3. ASSUME NEW e \in Entries, CloseEntry(e) PROVE closer'.pc = "drained"
    BY <2>3 DEF CloseEntry, Shape
  <2>4. CASE UNCHANGED closer
    BY <2>4 DEF Taken
  <2> QED
    BY <2>1, <2>2, <2>3, <2>4, ClosingChanges
<1>4. Shape'
  BY ShapeStep
<1>5. /\ \A d \in Callers : caller'[d].stale \subseteq Entries
      /\ closer'.todo \subseteq Entries
  BY <1>4 DEF Shape, Request
<1> QED
  BY <1>1, <1>2, <1>3, <1>5 DEF Taken

\* An initialised entry holds its connection until it is evicted.
LEMMA ConnStep ==
  ASSUME PoolTypeOK, Shape, Progress, ConnSound, Taken, [PoolNext]_poolVars
  PROVE  ConnSound'
<1>1. made' \in Nat /\ made \in Nat /\ made' >= made
  <2>1. made \in Nat /\ made' \in Nat
    BY ShapeStep, PoolAssumption DEF Shape
  <2>2. \A c \in Callers : Lookup(c) => made' = made \/ made' = made + 1
    BY LookupOutcome
  <2>3. \A e \in Entries : Connects(e) \/ CloseEntry(e) => made' = made
    BY DEF Connects, DialReturns, InitTakes, InitTimesOut, CloseLate, CloseEntry
  <2>4. \A c \in Callers, e \in Entries : CloseStale(c, e) => made' = made
    BY DEF CloseStale
  <2> QED
    BY <2>1, <2>2, <2>3, <2>4, ConnChanges
<1>2. ASSUME NEW x \in Entries, x > made' PROVE conn'[x] = NoConn
  <2>1. x \in Nat /\ x > made
    BY <1>1, <1>2 DEF Entries
  <2>2. conn[x] = NoConn
    BY <2>1 DEF ConnSound
  <2> QED
    BY <1>1, <1>2, <2>1, <2>2, ConnMoves DEF ConnMove, NoConn
<1>3. ASSUME NEW x \in Entries
      PROVE  /\ conn'[x].dial = "held" => conn'[x].init = "ready"
             /\ conn[x].init = "ready" => conn'[x].init = "ready"
             /\ conn'[x].init = "ready" =>
                  \/ conn'[x].dial = "held"
                  \/ conn'[x].dial = "closed" /\ lease'[x].evicted
  <2>1. CASE conn'[x] = Dialing /\ x = made + 1
    <3>1. conn[x] = NoConn
      BY <1>1, <2>1 DEF ConnSound
    <3> QED
      BY <2>1, <3>1 DEF Dialing, NoConn
  <2>2. CASE ConnMove(x)
    BY <2>2, LeaseMoves DEF ConnMove, ConnSound
  <2> QED
    BY <2>1, <2>2, ConnMoves
<1>4. ASSUME NEW x \in listed' PROVE x \in Entries /\ conn[x].init = "ready"
  <2>1. CASE x \in listed
    BY <2>1 DEF ConnSound, Shape
  <2>2. ASSUME NEW c \in Callers, Release(c), x \notin listed
        PROVE  x \in Entries /\ conn[x].init = "ready"
    BY <1>4, <2>2 DEF Release, Progress
  <2> QED
    BY <1>4, <2>1, <2>2, ListedChanges
<1> QED
  BY <1>2, <1>3, <1>4 DEF ConnSound

\* Who begins to borrow an entry finds it initialised and not evicted.
LEMMA BorrowMoves ==
  ASSUME Shape, Progress, ConnSound, [PoolNext]_poolVars,
         NEW d \in Callers, NEW x \in Entries, Borrows(d, x)'
  PROVE  \/ Borrows(d, x)
         \/ conn[x].init = "ready" /\ ~lease[x].evicted /\ UNCHANGED conn
<1>1. ASSUME NEW c \in Callers, NEW e \in Entries, NEW phase,
             UNCHANGED conn, ~lease[e].evicted, conn[e].init = "ready",
             caller' = [caller EXCEPT ![c].pc = phase, ![c].entry = e]
      PROVE  Borrows(d, x) \/ (conn[x].init = "ready" /\ ~lease[x].evicted /\ UNCHANGED conn)
  <2>1. CASE d # c
    BY <1>1, <2>1 DEF Borrows, Shape
  <2>2. CASE d = c
    <3>1. caller'[c].entry = e
      BY <1>1 DEF Shape, Request
    <3> QED
      BY <1>1, <2>2, <3>1 DEF Borrows
  <2> QED
    BY <2>1, <2>2
<1>2. ASSUME NEW c \in Callers, Lookup(c) PROVE Borrows(d, x)
  BY <1>2, LookupMoves DEF Borrows
<1>3. ASSUME NEW c \in Callers, GivesUp(c) PROVE Borrows(d, x)
  BY <1>3 DEF GivesUp, Borrows, Shape, Away
<1>4. ASSUME NEW c \in Callers, FailedLongAgo(c) PROVE Borrows(d, x)
  BY <1>4 DEF FailedLongAgo, Borrows, Shape, Request
<1>5. ASSUME NEW c \in Callers, RemoveIfSame(c) PROVE Borrows(d, x)
  BY <1>5 DEF RemoveIfSame, Borrows, Shape, Away
<1>6. ASSUME NEW c \in Callers, SweepBegins(c) PROVE Borrows(d, x)
  BY <1>6 DEF SweepBegins, Borrows, Shape, Request
<1>7. ASSUME NEW c \in Callers, SweepShrinks(c) PROVE Borrows(d, x)
  BY <1>7 DEF SweepShrinks, Borrows, Shape, Request
<1>8. ASSUME NEW c \in Callers, SweepUnlocks(c) PROVE Borrows(d, x)
  BY <1>8 DEF SweepUnlocks, Borrows, Shape, Request
<1>9. ASSUME NEW c \in Callers, SweepReturns(c) PROVE Borrows(d, x)
  BY <1>9 DEF SweepReturns, Borrows, Shape, Request
<1>10. ASSUME NEW c \in Callers, GetTools(c)
      PROVE  Borrows(d, x) \/ (conn[x].init = "ready" /\ ~lease[x].evicted /\ UNCHANGED conn)
  <2>1. caller[c].entry \in Entries /\ conn[caller[c].entry].init = "ready"
    BY <1>10 DEF GetTools, Progress, ConnSound
  <2>2. CASE caller' = [caller EXCEPT ![c] = Away]
    BY <2>2 DEF Borrows, Shape, Away
  <2> QED
    BY <1>10, <1>1, <2>1, <2>2 DEF GetTools, Acquire
<1>11. ASSUME NEW c \in Callers, Release(c) PROVE Borrows(d, x)
  BY <1>11 DEF Release, Borrows, Shape, Away
<1>12. ASSUME NEW c \in Callers, NEW e \in Entries, Evict(c, e)
      PROVE  Borrows(d, x)
  <2>1. caller[c] \in Request
    BY DEF Shape
  <2>2. \/ caller' = [caller EXCEPT ![c].todo = @ \ {e}, ![c].stale = @ \cup {e}]
        \/ caller' = [caller EXCEPT ![c].todo = @ \ {e}]
    BY <1>12 DEF Evict
  <2> QED
    BY <2>1, <2>2 DEF Borrows, Shape, Request
<1>13. ASSUME NEW c \in Callers, NEW e \in Entries, CloseStale(c, e)
      PROVE  Borrows(d, x)
  BY <1>13 DEF CloseStale, Borrows, Shape, Request
<1>14. ASSUME NEW c \in Callers, NEW k \in Configs, CheckOpen(c, k)
      PROVE  Borrows(d, x)
  BY <1>14 DEF CheckOpen, Borrows, Shape, Away
<1>15. ASSUME NEW c \in Callers, NEW e \in Entries, InvokableRun(c, e)
      PROVE  Borrows(d, x) \/ (conn[x].init = "ready" /\ ~lease[x].evicted /\ UNCHANGED conn)
  <2>1. e \in Entries /\ conn[e].init = "ready"
    BY <1>15 DEF InvokableRun, Progress, ConnSound
  <2>2. CASE caller' = [caller EXCEPT ![c] = Away]
    BY <2>2 DEF Borrows, Shape, Away
  <2> QED
    BY <1>15, <1>1, <2>1, <2>2 DEF InvokableRun, Acquire
<1>16. ASSUME NEW e \in Entries, DialReturns(e) PROVE Borrows(d, x)
  BY <1>16 DEF DialReturns, Borrows
<1>17. ASSUME NEW e \in Entries, InitTakes(e) PROVE Borrows(d, x)
  BY <1>17 DEF InitTakes, Borrows
<1>18. ASSUME NEW e \in Entries, InitTimesOut(e) PROVE Borrows(d, x)
  BY <1>18 DEF InitTimesOut, Borrows
<1>19. ASSUME NEW e \in Entries, CloseLate(e) PROVE Borrows(d, x)
  BY <1>19 DEF CloseLate, Borrows
<1>20. ASSUME NEW e \in Entries, IdleElapses(e) PROVE Borrows(d, x)
  BY <1>20 DEF IdleElapses, Borrows
<1>21. ASSUME CloseBegins PROVE Borrows(d, x)
  BY <1>21 DEF CloseBegins, Borrows
<1>22. ASSUME CloseDrains PROVE Borrows(d, x)
  BY <1>22 DEF CloseDrains, Borrows
<1>23. ASSUME NEW e \in Entries, CloseEntry(e) PROVE Borrows(d, x)
  BY <1>23 DEF CloseEntry, Borrows
<1>24. CASE UNCHANGED poolVars
  BY <1>24 DEF poolVars, Borrows
<1> QED
  BY <1>2, <1>3, <1>4, <1>5, <1>6, <1>7, <1>8, <1>9, <1>10, <1>11, <1>12,
      <1>13, <1>14, <1>15, <1>16, <1>17, <1>18, <1>19, <1>20, <1>21, <1>22,
      <1>23, <1>24 DEF PoolNext, Requests, Connects

\* A connection is closed under a tool call only by the end of the pool.
LEMMA BorrowStep ==
  ASSUME PoolTypeOK, Shape, Progress, ConnSound, Taken, BorrowedStaysOpen, [PoolNext]_poolVars
  PROVE  BorrowedStaysOpen'
<1>1. SUFFICES ASSUME NEW d \in Callers, NEW x \in Entries, Borrows(d, x)',
                      closer'.pc # "drained"
               PROVE  conn'[x].dial = "held"
  BY DEF BorrowedStaysOpen
<1>2. closer.pc # "drained"
  BY <1>1, ClosingChanges DEF CloseBegins, CloseDrains, CloseEntry, Shape
<1>3. CASE conn[x].init = "ready" /\ ~lease[x].evicted /\ UNCHANGED conn
  BY <1>3 DEF ConnSound
<1>4. CASE Borrows(d, x)
  <2>1. conn[x].dial = "held" /\ conn[x].init = "ready"
    BY <1>2, <1>4 DEF BorrowedStaysOpen, ConnSound
  <2>2. lease[x].refs # 0
    BY <1>4, CountedBorrowers
  <2>3. x # made + 1
    <3>1. x = made + 1 => x > made
      BY PoolAssumption DEF Shape, Entries
    <3> QED
      BY <2>1, <3>1 DEF ConnSound, NoConn
  <2> QED
    BY <1>2, <2>1, <2>2, <2>3, ConnMoves DEF ConnMove
<1> QED
  BY <1>1, <1>3, <1>4, BorrowMoves

\* Where an entry can be found.
Place(x) ==
    \/ x \in Pooled /\ closer.pc # "drained"
    \/ \E c \in Callers : x \in caller[c].stale
    \/ x \in closer.todo

\* Whoever takes an entry out of the pool closes its connection.
LEMMA OwnedStep ==
  ASSUME PoolTypeOK, Shape, Progress, ConnSound, Taken, Owned, [PoolNext]_poolVars
  PROVE  Owned'
<1>1. SUFFICES ASSUME NEW x \in Entries, Live(x)' PROVE Place(x)'
  BY DEF Owned, Place
<1>2. CASE x = made + 1 /\ made' = x /\ conn'[x] = Dialing
  <2>1. conn[x] = NoConn
    BY <1>2, PoolAssumption DEF ConnSound, Shape, Entries
  <2>2. conn'[x] # conn[x]
    BY <1>2, <2>1 DEF Dialing, NoConn
  <2>3. PICK c \in Callers : Lookup(c)
    <3>1. \A e \in Entries : Connects(e) \/ CloseEntry(e) => made' = made
      BY DEF Connects, DialReturns, InitTakes, InitTimesOut, CloseLate, CloseEntry
    <3>2. \A c \in Callers, e \in Entries : CloseStale(c, e) => made' = made
      BY DEF CloseStale
    <3> QED
      BY <1>2, <2>2, <3>1, <3>2, ConnChanges DEF Shape
  <2>4. /\ closer.pc = "off" /\ UNCHANGED closer
        /\ pool' = [pool EXCEPT ![caller[c].config] = made + 1]
    BY <2>2, <2>3, LookupOutcome DEF Lookup
  <2>5. caller[c].config \in Configs
    BY <2>3 DEF Lookup, Progress
  <2>6. x \in Pooled'
    BY <1>2, <2>4, <2>5 DEF Pooled, Shape, Entries, None
  <2> QED
    BY <2>4, <2>6 DEF Place
<1>3. CASE ConnMove(x)
  <2>1. Live(x)
    BY <1>1, <1>3 DEF Live, ConnMove
  <2>2. CASE \E c \in Callers : x \in caller[c].stale
    <3>1. PICK c \in Callers : x \in caller[c].stale
      BY <2>2
    <3>2. ASSUME NEW d \in Callers, NEW e \in Entries, Evict(d, e) PROVE x \in caller'[c].stale
      <4>1. \/ caller' = [caller EXCEPT ![d].todo = @ \ {e}, ![d].stale = @ \cup {e}]
            \/ caller' = [caller EXCEPT ![d].todo = @ \ {e}]
        BY <3>2 DEF Evict
      <4> QED
        BY <3>1, <4>1 DEF Shape, Request
    <3>3. ASSUME NEW d \in Callers, NEW e \in Entries, CloseStale(d, e) PROVE x \in caller'[c].stale
      <4>1. x # e
        BY <1>1, <3>3 DEF CloseStale, Closed, Live, Shape, Conn
      <4> QED
        BY <3>1, <3>3, <4>1 DEF CloseStale, Shape, Request
    <3> QED
      BY <3>1, <3>2, <3>3, StaleChanges DEF StaleKept, Place
  <2>3. CASE x \in closer.todo
    <3>1. closer.pc = "drained"
      BY <2>3 DEF Taken
    <3>2. ASSUME NEW e \in Entries, CloseEntry(e) PROVE x \in closer'.todo
      <4>1. x # e
        BY <1>1, <3>2 DEF CloseEntry, Closed, Live, Shape, Conn
      <4> QED
        BY <2>3, <3>2, <4>1 DEF CloseEntry, Shape
    <3> QED
      BY <2>3, <3>1, <3>2, ClosingChanges DEF CloseBegins, CloseDrains, Place
  <2>4. CASE x \in Pooled /\ closer.pc # "drained"
    <3>1. PICK k \in Configs : pool[k] = x
      BY <2>4 DEF Pooled
    <3>2. x # None
      BY DEF Entries, None
    <3>3. CASE CloseDrains
      BY <2>4, <3>3 DEF CloseDrains, Place
    <3>4. CASE closer'.pc # "drained" /\ pool'[k] = x
      BY <3>2, <3>4 DEF Place, Pooled
    <3>5. closer'.pc # "drained" \/ CloseDrains
      BY <2>4, ClosingChanges DEF CloseBegins, CloseEntry, Shape
    <3>6. ASSUME NEW c \in Callers, Lookup(c) PROVE pool'[k] = x
      BY <3>1, <3>2, <3>6, LookupOutcome DEF Shape
    <3>7. ASSUME NEW c \in Callers, RemoveIfSame(c) PROVE pool'[k] = x
      <4>1. conn[caller[c].entry].init = "failed" /\ UNCHANGED conn
        BY <3>7 DEF RemoveIfSame, Progress
      <4>2. x # caller[c].entry
        BY <2>1, <4>1 DEF Live, ConnSound
      <4> QED
        BY <3>1, <3>7, <4>2 DEF RemoveIfSame, Shape
    <3>8. ASSUME NEW c \in Callers, NEW e \in Entries, Evict(c, e), pool'[k] # x PROVE Place(x)'
      <4>1. /\ x = e
            /\ caller' = [caller EXCEPT ![c].todo = @ \ {e}, ![c].stale = @ \cup {e}]
        BY <3>1, <3>8 DEF Evict, Shape
      <4>2. e \in caller'[c].stale
        BY <4>1 DEF Shape, Request
      <4> QED
        BY <4>1, <4>2 DEF Place
    <3> QED
      BY <3>1, <3>3, <3>4, <3>5, <3>6, <3>7, <3>8, PoolChanges
  <2> QED
    BY <2>1, <2>2, <2>3, <2>4 DEF Owned
<1> QED
  BY <1>2, <1>3, ConnMoves

-----------------------------------------------------------------------------
\* The invariant is inductive.
LEMMA StepKeepsPoolInv == PoolInv /\ [PoolNext]_poolVars => PoolInv'
<1> SUFFICES ASSUME PoolInv, [PoolNext]_poolVars PROVE PoolInv'
  OBVIOUS
<1>1. PoolTypeOK /\ Shape /\ Progress /\ ConnSound /\ Taken /\ BorrowedStaysOpen /\ Owned
  BY DEF PoolInv, PoolTypeOK
<1>2. Shape' /\ Counted'
  BY <1>1, ShapeStep, CountStep
<1>3. PoolTypeOK'
  BY <1>2 DEF PoolTypeOK, Counted
<1>4. Progress' /\ ConnSound' /\ Taken' /\ BorrowedStaysOpen' /\ Owned'
  BY <1>1, ProgressStep, ConnStep, TakenStep, BorrowStep, OwnedStep
<1> QED
  BY <1>3, <1>4 DEF PoolInv

\* mcp_pool.go:92-116: the counter of an entry is the number of the calls that
\* use it, in every state.
THEOREM PoolTypeCorrect == PoolSpec => []PoolTypeOK
<1>1. PoolInv => PoolTypeOK
  BY DEF PoolInv
<1> QED
  BY <1>1, InitEstablishesPoolInv, StepKeepsPoolInv, PTL DEF PoolSpec

\* mcp_pool.go:90-91: no sweep, eviction or removal closes a connection under
\* a tool call.
THEOREM BorrowedSafe == PoolSpec => []BorrowedStaysOpen
<1>1. PoolInv => BorrowedStaysOpen
  BY DEF PoolInv
<1> QED
  BY <1>1, InitEstablishesPoolInv, StepKeepsPoolInv, PTL DEF PoolSpec

\* mcp_pool.go:146-148, :178-179: whoever takes an entry out of the pool, and
\* whenever the pool is closed, no connection is left that nobody closes.
THEOREM NoConnectionLost == PoolSpec => []NoOrphan
<1>1. PoolInv => NoOrphan
  BY DEF PoolInv, Owned, Live, NoOrphan
<1> QED
  BY <1>1, InitEstablishesPoolInv, StepKeepsPoolInv, PTL DEF PoolSpec

\* The counters of the entries are right and no connection is lost.
THEOREM PoolStaysSound == PoolSpec => []PoolIsSound
<1>1. PoolTypeOK /\ NoOrphan => PoolIsSound
  BY DEF PoolIsSound
<1>2. QED
  BY <1>1, PoolTypeCorrect, NoConnectionLost, PTL
=============================================================================
