------------------------------- MODULE McpPool -------------------------------
(***************************************************************************)
(* The pool of MCP connections (internal/tool/mcpclient/mcp_pool.go and    *)
(* mcp_client.go).  One entry per configuration, found by the hash of it;  *)
(* a goroutine of the entry connects, the requests that want it wait for   *)
(* that.  A request lends an entry for as long as it calls a tool.  Every  *)
(* successful lookup sweeps the pool on its way out: entries nobody used   *)
(* for a while, and some of them if there are too many, leave the pool and *)
(* are closed.  Shutdown closes the pool itself.                           *)
(*                                                                         *)
(* Two locks: p.mu, which a sweep keeps over several steps, and the        *)
(* leaseMu of an entry, which is held for one step only.  A configuration  *)
(* stands for its hash, an entry for its place in the order of creation.   *)
(***************************************************************************)
EXTENDS Naturals, FiniteSets

CONSTANTS
    Callers,      \* requests and tool calls
    Configs,      \* connection configurations, by hash
    MaxEntries,   \* maxEntries, the size the pool is cut down to
    MaxMade       \* bound: entries created

ASSUME PoolAssumption ==
    /\ IsFiniteSet(Callers) /\ "free" \notin Callers
    /\ MaxEntries \in Nat
    /\ MaxMade \in Nat

VARIABLES
    pool,       \* p.clients
    made,       \* how many entries were created
    conn,       \* of an entry: its connection and its initialisation
    lease,      \* of an entry: refs and evicted
    idle,       \* entries of the pool not used for longer than maxIdle
    listed,     \* entries whose tools were handed out
    caller,     \* the requests
    mu,         \* who keeps p.mu from step to step
    closer      \* the goroutine that closes the pool

poolVars == <<pool, made, conn, lease, idle, listed, caller, mu, closer>>

Entries == 1 .. MaxMade
None == 0
Free == "free"
Pooled == {pool[k] : k \in Configs} \ {None}

\* dial: "offered" is a connection that doInit has and nobody took over yet,
\* "held" one that is entry.client.
Conn == [dial : {"none", "dialing", "offered", "refused", "held", "closed"},
         init : {"running", "ready", "failed"}]
NoConn == [dial |-> "none", init |-> "running"]
Dialing == [NoConn EXCEPT !.dial = "dialing"]

\* refs counts the calls, an evicted entry admits no more.
Lease == [refs : Nat, evicted : BOOLEAN]

Phases == {"away", "checked", "waiting", "failed", "sweeping", "shrinking",
           "closing", "got", "listing", "calling"}
\* todo is what a sweep still has to look at, stale what it has to close.
Request == [pc : Phases, config : Configs \cup {None}, entry : Entries \cup {None},
            todo : SUBSET Entries, stale : SUBSET Entries]
Away == [pc |-> "away", config |-> None, entry |-> None, todo |-> {}, stale |-> {}]

Borrows(c, e) == caller[c].pc \in {"listing", "calling"} /\ caller[c].entry = e
Borrowers(e) == {c \in Callers : Borrows(c, e)}

PoolInit ==
    /\ pool = [k \in Configs |-> None]
    /\ made = 0
    /\ conn = [e \in Entries |-> NoConn]
    /\ lease = [e \in Entries |-> [refs |-> 0, evicted |-> FALSE]]
    /\ idle = {}
    /\ listed = {}
    /\ caller = [c \in Callers |-> Away]
    /\ mu = Free
    /\ closer = [pc |-> "off", todo |-> {}]

entryVars == <<made, conn, lease, idle, listed>>

-----------------------------------------------------------------------------
\* GetOrCreate.

\* The first look at p.closed, without the lock.
CheckOpen(c, k) ==
    /\ caller[c].pc = "away"
    /\ closer.pc = "off"
    /\ caller' = [caller EXCEPT ![c] = [Away EXCEPT !.pc = "checked", !.config = k]]
    /\ UNCHANGED <<pool, mu, closer>> /\ UNCHANGED entryVars

Waits(c, e) ==
    /\ caller' = [caller EXCEPT ![c].pc = "waiting", ![c].entry = e]
    /\ idle' = idle \ {e}

\* Under the lock: the entry of this configuration, or a new one and the
\* goroutine that connects it.
Lookup(c) ==
    LET e == pool[caller[c].config]
        new == made + 1
    IN  /\ caller[c].pc = "checked"
        /\ mu = Free
        /\ \/ /\ closer.pc # "off"
              /\ caller' = [caller EXCEPT ![c] = Away]
              /\ UNCHANGED <<pool, made, conn, idle>>
           \/ /\ closer.pc = "off"
              /\ e # None
              /\ Waits(c, e)
              /\ UNCHANGED <<pool, made, conn>>
           \/ /\ closer.pc = "off"
              /\ e = None
              /\ made < MaxMade
              /\ made' = new
              /\ pool' = [pool EXCEPT ![caller[c].config] = new]
              /\ conn' = [conn EXCEPT ![new] = Dialing]
              /\ Waits(c, new)
        /\ UNCHANGED <<lease, listed, mu, closer>>

\* The request is cancelled, or the initialisation failed not longer than
\* failureTTL ago.
GivesUp(c) ==
    /\ caller[c].pc = "waiting"
    /\ caller' = [caller EXCEPT ![c] = Away]
    /\ UNCHANGED <<pool, mu, closer>> /\ UNCHANGED entryVars

\* It failed longer ago than failureTTL: the entry has to go.
FailedLongAgo(c) ==
    /\ caller[c].pc = "waiting"
    /\ conn[caller[c].entry].init = "failed"
    /\ caller' = [caller EXCEPT ![c].pc = "failed"]
    /\ UNCHANGED <<pool, mu, closer>> /\ UNCHANGED entryVars

\* Mutant: by hash, whatever entry is there now.
RemoveIfSame_ByHash(c) ==
    /\ caller[c].pc = "failed"
    /\ mu = Free
    /\ pool' = [pool EXCEPT ![caller[c].config] = None]
    /\ lease' = [lease EXCEPT ![caller[c].entry].evicted = TRUE]
    /\ caller' = [caller EXCEPT ![c] = Away]
    /\ UNCHANGED <<made, conn, idle, listed, mu, closer>>

RemoveIfSame(c) ==
    /\ caller[c].pc = "failed"
    /\ mu = Free
    /\ \/ /\ pool[caller[c].config] = caller[c].entry
          /\ pool' = [pool EXCEPT ![caller[c].config] = None]
          /\ lease' = [lease EXCEPT ![caller[c].entry].evicted = TRUE]
          /\ idle' = idle \ {caller[c].entry}
       \/ /\ pool[caller[c].config] # caller[c].entry
          /\ UNCHANGED <<pool, lease, idle>>
    /\ caller' = [caller EXCEPT ![c] = Away]
    /\ UNCHANGED <<made, conn, listed, mu, closer>>

-----------------------------------------------------------------------------
\* sweep, which keeps p.mu until it has chosen.

SweepBegins(c) ==
    /\ caller[c].pc = "waiting"
    /\ conn[caller[c].entry].init = "ready"
    /\ mu = Free
    /\ mu' = c
    /\ caller' = [caller EXCEPT ![c].pc = "sweeping", ![c].todo = Pooled \cap idle]
    /\ UNCHANGED <<pool, closer>> /\ UNCHANGED entryVars

\* Mutant: a borrowed entry may go as well.
TryMarkEvicted_Borrowed(e) == ~lease[e].evicted

\* Nobody has borrowed it; from now on nobody can.
TryMarkEvicted(e) == lease[e].refs = 0 /\ ~lease[e].evicted

\* Takes e out of the pool; the lease of e may have changed since it was
\* chosen, and so may its last use.
Evict(c, e) ==
    /\ caller[c].pc \in {"sweeping", "shrinking"}
    /\ e \in caller[c].todo
    /\ \/ /\ TryMarkEvicted(e)
          /\ lease' = [lease EXCEPT ![e].evicted = TRUE]
          /\ pool' = [k \in Configs |-> IF pool[k] = e THEN None ELSE pool[k]]
          /\ idle' = idle \ {e}
          /\ caller' = [caller EXCEPT ![c].todo = @ \ {e}, ![c].stale = @ \cup {e}]
       \/ /\ ~TryMarkEvicted(e) \/ (caller[c].pc = "sweeping" /\ e \notin idle)
          /\ caller' = [caller EXCEPT ![c].todo = @ \ {e}]
          /\ UNCHANGED <<pool, lease, idle>>
    /\ UNCHANGED <<made, conn, listed, mu, closer>>

\* Too many entries are left: the least recently used of those that nobody
\* borrows now.  Which those are is left open.
SweepShrinks(c) ==
    LET over == Cardinality(Pooled) - MaxEntries
        candidates == {e \in Pooled : lease[e].refs = 0}
    IN  /\ caller[c].pc = "sweeping"
        /\ caller[c].todo = {}
        /\ Cardinality(Pooled) > MaxEntries
        /\ \E out \in SUBSET candidates :
              /\ Cardinality(out) <= over
              /\ Cardinality(out) < over => out = candidates
              /\ caller' = [caller EXCEPT ![c].pc = "shrinking", ![c].todo = out]
        /\ UNCHANGED <<pool, mu, closer>> /\ UNCHANGED entryVars

\* Mutant: what was chosen is waited for under the lock.
SweepUnlocks_Waits(c) ==
    /\ caller[c].todo = {}
    /\ \/ caller[c].pc = "shrinking"
       \/ caller[c].pc = "sweeping" /\ Cardinality(Pooled) <= MaxEntries
    /\ \A e \in caller[c].stale : conn[e].init # "running"
    /\ mu' = Free
    /\ caller' = [caller EXCEPT ![c].pc = "closing"]
    /\ UNCHANGED <<pool, closer>> /\ UNCHANGED entryVars

SweepUnlocks(c) ==
    /\ caller[c].todo = {}
    /\ \/ caller[c].pc = "shrinking"
       \/ caller[c].pc = "sweeping" /\ Cardinality(Pooled) <= MaxEntries
    /\ mu' = Free
    /\ caller' = [caller EXCEPT ![c].pc = "closing"]
    /\ UNCHANGED <<pool, closer>> /\ UNCHANGED entryVars

\* closeEntry waits until the entry is initialised.
Closed(e) ==
    /\ conn[e].init # "running"
    /\ \/ conn[e].dial = "held" /\ conn' = [conn EXCEPT ![e].dial = "closed"]
       \/ conn[e].dial # "held" /\ UNCHANGED conn

CloseStale(c, e) ==
    /\ caller[c].pc = "closing"
    /\ e \in caller[c].stale
    /\ Closed(e)
    /\ caller' = [caller EXCEPT ![c].stale = @ \ {e}]
    /\ UNCHANGED <<pool, made, lease, idle, listed, mu, closer>>

SweepReturns(c) ==
    /\ caller[c].pc = "closing"
    /\ caller[c].stale = {}
    /\ caller' = [caller EXCEPT ![c].pc = "got"]
    /\ UNCHANGED <<pool, mu, closer>> /\ UNCHANGED entryVars

-----------------------------------------------------------------------------
\* initClient and doInit, the goroutines of an entry.

DialReturns(e) ==
    /\ conn[e].dial = "dialing"
    /\ \E result \in {"offered", "refused"} : conn' = [conn EXCEPT ![e].dial = result]
    /\ UNCHANGED <<pool, made, lease, idle, listed, caller, mu, closer>>

InitTakes(e) ==
    /\ conn[e].init = "running"
    /\ \/ /\ conn[e].dial = "offered"
          /\ conn' = [conn EXCEPT ![e].dial = "held", ![e].init = "ready"]
       \/ /\ conn[e].dial = "refused"
          /\ conn' = [conn EXCEPT ![e].init = "failed"]
    /\ UNCHANGED <<pool, made, lease, idle, listed, caller, mu, closer>>

\* The deadline of the connection, or the end of the pool.
InitTimesOut(e) ==
    /\ conn[e].init = "running"
    /\ conn[e].dial # "none"
    /\ conn' = [conn EXCEPT ![e].init = "failed"]
    /\ UNCHANGED <<pool, made, lease, idle, listed, caller, mu, closer>>

\* The goroutine that stays behind closes what comes too late.
CloseLate(e) ==
    /\ conn[e].init = "failed"
    /\ conn[e].dial = "offered"
    /\ conn' = [conn EXCEPT ![e].dial = "closed"]
    /\ UNCHANGED <<pool, made, lease, idle, listed, caller, mu, closer>>

-----------------------------------------------------------------------------
\* GetTools and the tools it hands out.

\* Mutant: a refused borrower was counted already.
Acquire_CountsFirst(c, e, phase) ==
    /\ lease' = [lease EXCEPT ![e].refs = @ + 1]
    /\ idle' = idle \ {e}
    /\ caller' = [caller EXCEPT ![c] = IF lease[e].evicted THEN Away
                                      ELSE [@ EXCEPT !.pc = phase, !.entry = e]]

Acquire(c, e, phase) ==
    \/ /\ lease[e].evicted
       /\ caller' = [caller EXCEPT ![c] = Away]
       /\ UNCHANGED <<lease, idle>>
    \/ /\ ~lease[e].evicted
       /\ caller' = [caller EXCEPT ![c].pc = phase, ![c].entry = e]
       /\ lease' = [lease EXCEPT ![e].refs = @ + 1]
       /\ idle' = idle \ {e}

\* The list of tools is still cached, or it is fetched.
GetTools(c) ==
    /\ caller[c].pc = "got"
    /\ \/ /\ caller[c].entry \in listed
          /\ caller' = [caller EXCEPT ![c] = Away]
          /\ UNCHANGED <<lease, idle>>
       \/ Acquire(c, caller[c].entry, "listing")
    /\ UNCHANGED <<pool, made, conn, listed, mu, closer>>

\* A tool handed out earlier is called, however long ago that was.
InvokableRun(c, e) ==
    /\ caller[c].pc = "away"
    /\ e \in listed
    /\ Acquire(c, e, "calling")
    /\ UNCHANGED <<pool, made, conn, listed, mu, closer>>

Release(c) ==
    LET e == caller[c].entry
    IN  /\ caller[c].pc \in {"listing", "calling"}
        /\ lease' = [lease EXCEPT ![e].refs = @ - 1]
        /\ \/ UNCHANGED listed
           \/ caller[c].pc = "listing" /\ listed' = listed \cup {e}
        /\ caller' = [caller EXCEPT ![c] = Away]
        /\ UNCHANGED <<pool, made, conn, idle, mu, closer>>

-----------------------------------------------------------------------------
\* Close.

CloseBegins ==
    /\ closer.pc = "off"
    /\ closer' = [closer EXCEPT !.pc = "marked"]
    /\ UNCHANGED <<pool, caller, mu>> /\ UNCHANGED entryVars

CloseDrains ==
    /\ closer.pc = "marked"
    /\ mu = Free
    /\ pool' = [k \in Configs |-> None]
    /\ lease' = [e \in Entries |-> IF e \in Pooled THEN [lease[e] EXCEPT !.evicted = TRUE]
                                   ELSE lease[e]]
    /\ idle' = {}
    /\ closer' = [pc |-> "drained", todo |-> Pooled]
    /\ UNCHANGED <<made, conn, listed, caller, mu>>

CloseEntry(e) ==
    /\ closer.pc = "drained"
    /\ e \in closer.todo
    /\ Closed(e)
    /\ closer' = [closer EXCEPT !.todo = @ \ {e}]
    /\ UNCHANGED <<pool, made, lease, idle, listed, caller, mu>>

-----------------------------------------------------------------------------
\* Time.

IdleElapses(e) ==
    /\ e \in Pooled \ idle
    /\ idle' = idle \cup {e}
    /\ UNCHANGED <<pool, made, conn, lease, listed, caller, mu, closer>>

-----------------------------------------------------------------------------
Requests(c) ==
    \/ Lookup(c) \/ GivesUp(c) \/ FailedLongAgo(c) \/ RemoveIfSame(c)
    \/ SweepBegins(c) \/ SweepShrinks(c) \/ SweepUnlocks(c) \/ SweepReturns(c)
    \/ GetTools(c) \/ Release(c)
    \/ \E e \in Entries : Evict(c, e) \/ CloseStale(c, e)

Connects(e) == DialReturns(e) \/ InitTakes(e) \/ InitTimesOut(e) \/ CloseLate(e)

PoolNext ==
    \/ \E c \in Callers : Requests(c)
    \/ \E c \in Callers, k \in Configs : CheckOpen(c, k)
    \/ \E c \in Callers, e \in Entries : InvokableRun(c, e)
    \/ \E e \in Entries : Connects(e) \/ IdleElapses(e)
    \/ CloseBegins \/ CloseDrains
    \/ \E e \in Entries : CloseEntry(e)

PoolSpec == PoolInit /\ [][PoolNext]_poolVars

-----------------------------------------------------------------------------
Shape ==
    /\ pool \in [Configs -> Entries \cup {None}]
    /\ made \in 0 .. MaxMade
    /\ conn \in [Entries -> Conn]
    /\ lease \in [Entries -> Lease]
    /\ idle \subseteq Entries
    /\ listed \subseteq Entries
    /\ caller \in [Callers -> Request]
    /\ mu \in Callers \cup {Free}
    /\ closer \in [pc : {"off", "marked", "drained"}, todo : SUBSET Entries]

\* Shape of the state; and refs counts the calls that are going on, those
\* that were refused not among them (mcp_pool_test.go:65).
PoolTypeOK ==
    /\ Shape
    /\ \A e \in Entries : lease[e].refs = Cardinality(Borrowers(e))

\* mcp_pool.go:90-91: a connection is not closed under a tool call, unless the
\* whole pool is.
BorrowedStaysOpen ==
    \A c \in Callers, e \in Entries :
        Borrows(c, e) /\ closer.pc # "drained" => conn[e].dial = "held"

\* mcp_pool.go:146-148, :178-179: a connection that an entry holds can be
\* found: in the pool, until the pool is closed, or on the list of somebody
\* who is about to close it.
NoOrphan ==
    \A e \in Entries : conn[e].dial = "held" =>
        \/ e \in Pooled /\ closer.pc # "drained"
        \/ \E c \in Callers : e \in caller[c].stale
        \/ e \in closer.todo

\* The counters are right and no connection is lost.
PoolIsSound == PoolTypeOK /\ NoOrphan

\* mcp_pool.go:204: whoever keeps p.mu can go on by itself, whatever the
\* servers and the other goroutines do.
LockNeverWaits ==
    \A c \in Callers : mu = c =>
        ENABLED (SweepShrinks(c) \/ SweepUnlocks(c) \/ \E e \in Entries : Evict(c, e))
=============================================================================
