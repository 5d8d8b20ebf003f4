---------------------------- MODULE AppLifecycle ----------------------------
(***************************************************************************)
(* The start and the end of the process (internal/app/app.go): what it     *)
(* opens, the two tasks it starts in the background, the requests it       *)
(* serves and what these leave running, and the orders in which a failed   *)
(* start and a shutdown take all of it down.                               *)
(*                                                                         *)
(* What is opened stands for its handle.  The checks of the schema are     *)
(* SchemaGuard's, the presets DeployedTemplate's, what the worker does     *)
(* MessageEmbedding's.                                                     *)
(***************************************************************************)
EXTENDS Naturals, Sequences

CONSTANTS
    MaxRequests,  \* bound: requests in a life of the process
    MaxRounds     \* bound: rounds of a task

Stores == {"postgres", "redis", "pool"}
Loops  == {"worker", "cleaner"}

VARIABLES
    at,           \* the step of Initialize, "serving", "draining", or how it ended
    releases,     \* what is left to take down, in order
    opened,
    background,   \* the tasks: "none", "idle", "busy" or "ended"
    cancelled,    \* tasks whose context has ended
    roundsLeft,
    handlers,     \* requests in their handlers
    detached,     \* goroutines that requests left behind
    accepted,
    timedOut,     \* whether Shutdown gave up waiting for the handlers
    misused       \* history: who used a store that was closed

appVars == <<at, releases, opened, background, cancelled, roundsLeft, handlers, detached, accepted,
             timedOut, misused>>

\* Orders.  Mutant: the stores are closed before the tasks are stopped.
ShutdownOrder_StoresFirst == <<"tracer", "postgres", "redis", "pool", "worker", "cleaner">>
ShutdownOrder == <<"worker", "tracer", "cleaner", "postgres", "redis", "pool">>
FailedStartOrder == <<"worker", "cleaner", "pool", "tracer", "redis", "postgres">>

AppInit ==
    /\ at = "postgres" /\ releases = <<>> /\ opened = {}
    /\ background = [b \in Loops |-> "none"] /\ cancelled = {} /\ roundsLeft = MaxRounds
    /\ handlers = 0 /\ detached = 0 /\ accepted = 0 /\ timedOut = FALSE /\ misused = {}

-----------------------------------------------------------------------------
(* Initialize.                                                             *)

Starting(step, next) ==
    /\ at = step /\ at' = next
    /\ UNCHANGED <<cancelled, roundsLeft, handlers, detached, accepted, timedOut, misused>>

\* initDatabase cleans up itself: what it had opened is closed.
InitDatabase ==
    \/ Starting("postgres", "artifacts") /\ opened' = {"postgres"} /\ UNCHANGED <<releases, background>>
    \/ Starting("artifacts", "redis") /\ UNCHANGED <<opened, releases, background>>
    \/ Starting("redis", "schema") /\ opened' = opened \cup {"redis"} /\ UNCHANGED <<releases, background>>
    \/ /\ \E step \in {"postgres", "artifacts", "redis"} : Starting(step, "refused")
       /\ opened' = {} /\ UNCHANGED <<releases, background>>

\* initDependencies up to the tasks.  A vector client that cannot be built
\* ends the process at once (logger.Fatal).
InitDependencies ==
    \/ Starting("schema", "embedding") /\ opened' = opened \cup {"pool"} /\ UNCHANGED <<releases, background>>
    \/ Starting("embedding", "tracer") /\ background' = [background EXCEPT !["cleaner"] = "idle"]
       /\ UNCHANGED <<opened, releases>>
    \/ Starting("embedding", "exited") /\ opened' = {} /\ UNCHANGED <<releases, background>>
    \/ Starting("tracer", "worker") /\ opened' \in {opened, opened \cup {"tracer"}}
       /\ UNCHANGED <<releases, background>>

\* startMessageEmbeddingWorker does nothing without pgvector.
StartWorker ==
    /\ Starting("worker", "serving")
    /\ background' \in {background, [background EXCEPT !["worker"] = "idle"]}
    /\ UNCHANGED <<releases, opened>>

\* An error of initDependencies: what was begun is taken down in order.
FailStart ==
    /\ \E step \in {"schema", "worker"} : Starting(step, "failing")
    /\ releases' = FailedStartOrder
    /\ UNCHANGED <<opened, background>>

-----------------------------------------------------------------------------
(* Requests and tasks.                                                     *)

\* ListenAndServe fails, for example because the port is taken: logger.Fatal ends
\* the process at once.
ListenFails ==
    /\ at = "serving" /\ accepted = 0 /\ at' = "exited"
    /\ opened' = {} /\ background' = [b \in Loops |-> "none"]
    /\ UNCHANGED <<releases, cancelled, roundsLeft, handlers, detached, accepted, timedOut, misused>>

Accept ==
    /\ at = "serving" /\ accepted < MaxRequests
    /\ accepted' = accepted + 1 /\ handlers' = handlers + 1
    /\ UNCHANGED <<at, releases, opened, background, cancelled, roundsLeft, detached, timedOut, misused>>

Use(who) == misused' = IF Stores \subseteq opened THEN misused ELSE misused \cup {who}

\* The process is there.
Alive == at \notin {"refused", "stopped", "exited"}

\* A handler or what it left behind uses the stores, and ends; a handler may
\* leave a goroutine behind: processing, a synchronisation, a summary.
HandlerEnds ==
    /\ Alive /\ handlers > 0 /\ handlers' = handlers - 1
    /\ detached' \in {detached, detached + 1}
    /\ Use("handler")
    /\ UNCHANGED <<at, releases, opened, background, cancelled, roundsLeft, accepted, timedOut>>

DetachedEnds ==
    /\ Alive /\ detached > 0 /\ detached' = detached - 1
    /\ Use("detached")
    /\ UNCHANGED <<at, releases, opened, background, cancelled, roundsLeft, handlers, accepted, timedOut>>

\* A round of the worker or of the cleaner; select may begin one although the
\* context has ended.
RoundBegins(b) ==
    /\ Alive /\ background[b] = "idle" /\ roundsLeft > 0 /\ roundsLeft' = roundsLeft - 1
    /\ background' = [background EXCEPT ![b] = "busy"]
    /\ UNCHANGED <<at, releases, opened, cancelled, handlers, detached, accepted, timedOut, misused>>

RoundEnds(b) ==
    /\ Alive /\ background[b] = "busy"
    /\ background' = [background EXCEPT ![b] = "idle"]
    /\ misused' = IF {"postgres"} \subseteq opened THEN misused ELSE misused \cup {b}
    /\ UNCHANGED <<at, releases, opened, cancelled, roundsLeft, handlers, detached, accepted, timedOut>>

TaskEnds(b) ==
    /\ Alive /\ background[b] = "idle" /\ b \in cancelled
    /\ background' = [background EXCEPT ![b] = "ended"]
    /\ UNCHANGED <<at, releases, opened, cancelled, roundsLeft, handlers, detached, accepted, timedOut, misused>>

-----------------------------------------------------------------------------
(* The end.                                                                *)

Signal ==
    /\ at = "serving" /\ at' = "draining"
    /\ UNCHANGED <<releases, opened, background, cancelled, roundsLeft, handlers, detached, accepted, timedOut,
                   misused>>

\* Shutdown waits for the handlers until its timeout; then the connections are closed.
Drained ==
    /\ at = "draining" /\ at' = "closing" /\ releases' = ShutdownOrder
    /\ timedOut' = (handlers > 0)
    /\ UNCHANGED <<opened, background, cancelled, roundsLeft, handlers, detached, accepted, misused>>

\* A task is cancelled and waited for; anything else is closed.
Release ==
    /\ at \in {"failing", "closing"} /\ releases # <<>>
    /\ LET r == Head(releases) IN
       IF r \in Loops /\ background[r] \in {"idle", "busy"}
       THEN r \notin cancelled /\ cancelled' = cancelled \cup {r} /\ UNCHANGED <<releases, opened>>
       ELSE releases' = Tail(releases) /\ opened' = opened \ {r} /\ UNCHANGED cancelled
    /\ UNCHANGED <<at, background, roundsLeft, handlers, detached, accepted, timedOut, misused>>

\* Initialize returns its error, or main returns: everything that runs ends.
End ==
    /\ at \in {"failing", "closing"} /\ releases = <<>>
    /\ at' = IF at = "failing" THEN "refused" ELSE "stopped"
    /\ UNCHANGED <<releases, opened, background, cancelled, roundsLeft, handlers, detached, accepted, timedOut,
                   misused>>

AppNext ==
    \/ InitDatabase \/ InitDependencies \/ StartWorker \/ FailStart
    \/ ListenFails \/ Accept \/ HandlerEnds \/ DetachedEnds
    \/ \E b \in Loops : RoundBegins(b) \/ RoundEnds(b) \/ TaskEnds(b)
    \/ Signal \/ Drained \/ Release \/ End

-----------------------------------------------------------------------------
AppTypeOK ==
    /\ opened \subseteq Stores \cup {"tracer"} /\ releases \in Seq(Stores \cup Loops \cup {"tracer"})
    /\ background \in [Loops -> {"none", "idle", "busy", "ended"}]
    /\ accepted \in 0 .. MaxRequests /\ handlers \in 0 .. accepted /\ detached \in 0 .. accepted - handlers

\* The tasks in the background never meet a closed store, and a handler only
\* after Shutdown gave up on it; nothing waits for what handlers left behind.
NoUseAfterClose == misused \subseteq {"detached"} \cup (IF timedOut THEN {"handler"} ELSE {})

\* However a start fails or the process stops, nothing stays open and no task
\* still runs when Initialize or Run returns.
NothingLeftBehind ==
    at \in {"refused", "stopped"} =>
        opened = {} /\ \A b \in Loops : background[b] \in {"none", "ended"}

\* Why it is so.  Before the process serves, nothing runs; a task that runs has its
\* database.
BeforeServing == {"postgres", "artifacts", "redis", "schema", "embedding", "tracer", "worker"}
StepsFit ==
    /\ at \in BeforeServing \cup {"refused", "failing", "exited", "serving", "draining", "closing", "stopped"}
    /\ at \in BeforeServing \cup {"refused", "failing", "exited"} => handlers = 0 /\ detached = 0
    /\ at \in BeforeServing \cup {"serving", "draining"} => cancelled = {}
    /\ at \in {"schema", "embedding"} => {"postgres", "redis"} \subseteq opened
    /\ at \in {"embedding", "tracer", "worker", "serving", "draining"} => Stores \subseteq opened
    /\ at \in {"postgres", "artifacts", "redis", "schema", "embedding"} =>
          \A b \in Loops : background[b] = "none"
    /\ at \in {"artifacts", "redis"} => "postgres" \in opened
    /\ at \in {"closing", "stopped"} /\ handlers > 0 => timedOut
    /\ timedOut => at \in {"closing", "stopped"}

\* While the process is taken down, what is open and what runs is still on the
\* list, and the tasks come before their database.
TakenDownInOrder ==
    /\ at \in {"failing", "closing"} =>
          /\ \A s \in opened : \E i \in DOMAIN releases : releases[i] = s
          /\ \A b \in Loops : background[b] \in {"idle", "busy"} =>
                \E i \in DOMAIN releases : releases[i] = b
          /\ \A i, j \in DOMAIN releases :
                releases[i] = "postgres" /\ releases[j] \in Loops => j < i
    /\ Alive => \A b \in Loops : background[b] \in {"idle", "busy"} => "postgres" \in opened

\* The inductive invariant of a process.
AppInv == AppTypeOK /\ NoUseAfterClose /\ NothingLeftBehind /\ StepsFit /\ TakenDownInOrder
=============================================================================
