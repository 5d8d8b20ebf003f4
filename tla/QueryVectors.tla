---------------------------- MODULE QueryVectors ----------------------------
(***************************************************************************)
(* The vectors of questions, which searches and turns ask for side by side *)
(* (initEmbedding in internal/app/app.go, pkg/cache): a map in the         *)
(* process, Redis, and a call of the embedding service, which the requests *)
(* for one text share as long as it runs.  It runs with the context of the *)
(* request that began it.                                                  *)
(*                                                                         *)
(* A text stands for its hash and its vector; a vector is left out.        *)
(***************************************************************************)
EXTENDS Naturals, FiniteSets

CONSTANTS
    Texts,
    Callers,     \* requests, side by side
    Capacity,    \* 2048 in the code: embeddingInMemCacheSize
    Share,       \* 409 in the code: a fifth of it
    MaxAsks,     \* bound: requests
    MaxLost      \* bound: entries of Redis that fail or are forgotten

VARIABLES
    memory,      \* texts in the process's map
    counted,     \* inMemCount
    redis,       \* texts in Redis
    flight,      \* [Texts -> the shared call, if there is one]
    caller,      \* the requests
    asks,
    lost,        \* history: entries of Redis that expired, were not read or not written
    paid,        \* history: calls of the service that succeeded, by text
    copied       \* history: entries the map got from Redis

queryVars == <<memory, counted, redis, flight, caller, asks, lost, paid, copied>>

NoFlight == [pc |-> "none"]
NoCaller == [pc |-> "away", live |-> TRUE]

QueryInit ==
    /\ memory = {} /\ counted = 0
    /\ redis \in SUBSET Texts
    /\ flight = [t \in Texts |-> NoFlight]
    /\ caller = [c \in Callers |-> NoCaller]
    /\ asks = 0 /\ lost = 0 /\ copied = 0
    /\ paid = [t \in Texts |-> IF t \in redis THEN 1 ELSE 0]

-----------------------------------------------------------------------------
\* A request: looks into the map first, then joins the call or begins one.
Ask(c, t) ==
    /\ caller[c].pc = "away" /\ asks < MaxAsks /\ asks' = asks + 1
    /\ caller' = [caller EXCEPT ![c] =
           [pc |-> IF t \in memory THEN "got" ELSE "join", text |-> t, live |-> TRUE]]
    /\ UNCHANGED <<memory, counted, redis, flight, lost, paid, copied>>

\* Mutant: every request makes a call of its own; the last one is waited for.
Join_Apart(c) ==
    /\ caller[c].pc = "join"
    /\ caller' = [caller EXCEPT ![c].pc = "wait"]
    /\ flight' = [flight EXCEPT ![caller[c].text] = [pc |-> "redis", by |-> c, live |-> caller[c].live]]
    /\ UNCHANGED <<memory, counted, redis, asks, lost, paid, copied>>

\* DoChan.
Join(c) ==
    /\ caller[c].pc = "join"
    /\ caller' = [caller EXCEPT ![c].pc = "wait"]
    /\ flight' = IF flight[caller[c].text] # NoFlight THEN flight
               ELSE [flight EXCEPT ![caller[c].text] = [pc |-> "redis", by |-> c, live |-> caller[c].live]]
    /\ UNCHANGED <<memory, counted, redis, asks, lost, paid, copied>>

\* The end of the context: the user went away, or the five seconds are over.
\* The call this request began, if it did, goes on with a context that ended.
Cancel(c) ==
    /\ caller[c].pc \in {"join", "wait"} /\ caller[c].live
    /\ caller' = [caller EXCEPT ![c].live = FALSE]
    /\ flight' = [t \in Texts |->
           IF flight[t] # NoFlight /\ flight[t].by = c THEN [flight[t] EXCEPT !.live = FALSE] ELSE flight[t]]
    /\ UNCHANGED <<memory, counted, redis, asks, lost, paid, copied>>

GiveUp(c) ==
    /\ caller[c].pc = "wait" /\ ~caller[c].live
    /\ caller' = [caller EXCEPT ![c] = NoCaller]
    /\ UNCHANGED <<memory, counted, redis, flight, asks, lost, paid, copied>>

Return(c) ==
    /\ caller[c].pc \in {"got", "failed"}
    /\ caller' = [caller EXCEPT ![c] = NoCaller]
    /\ UNCHANGED <<memory, counted, redis, flight, asks, lost, paid, copied>>

-----------------------------------------------------------------------------
(* The shared call.                                                        *)

\* The call ends; everyone who waits for it gets what it returned.
Ends(t, result) ==
    /\ flight' = [flight EXCEPT ![t] = NoFlight]
    /\ caller' = [c \in Callers |->
           IF caller[c].pc = "wait" /\ caller[c].text = t THEN [caller[c] EXCEPT !.pc = result] ELSE caller[c]]

Lost == lost < MaxLost /\ lost' = lost + 1

\* A read of Redis that fails is taken for a miss.
ReadRedis(t) ==
    /\ flight[t].pc = "redis"
    /\ \/ /\ t \in redis /\ flight[t].live
          /\ memory' = memory \cup {t} /\ copied' = copied + (IF t \in memory THEN 0 ELSE 1)
          /\ Ends(t, "got") /\ UNCHANGED lost
       \/ /\ IF t \in redis /\ flight[t].live THEN Lost ELSE UNCHANGED lost
          /\ flight' = [flight EXCEPT ![t].pc = "service"]
          /\ UNCHANGED <<memory, caller, copied>>
    /\ UNCHANGED <<counted, redis, asks, paid>>

CallService(t) ==
    /\ flight[t].pc = "service"
    /\ \/ /\ flight[t].live /\ flight' = [flight EXCEPT ![t].pc = "write"]
          /\ paid' = [paid EXCEPT ![t] = @ + 1] /\ UNCHANGED caller
       \/ Ends(t, "failed") /\ UNCHANGED paid
    /\ UNCHANGED <<memory, counted, redis, asks, lost, copied>>

\* A failed write of Redis is logged; with a context that ended it fails.
WriteBoth(t) ==
    /\ flight[t].pc = "write"
    /\ \/ flight[t].live /\ redis' = redis \cup {t} /\ UNCHANGED lost
       \/ flight[t].live /\ redis' = redis /\ Lost
       \/ ~flight[t].live /\ redis' = redis /\ lost' = lost + 1
    /\ memory' = memory \cup {t}
    /\ flight' = [flight EXCEPT ![t].pc = "count"]
    /\ UNCHANGED <<counted, caller, asks, paid, copied>>

\* Mutant: the number is set back although nothing is removed.
CountEntry_KeepsAll(t) ==
    /\ flight[t].pc = "count"
    /\ counted' = IF counted + 1 > Capacity THEN counted + 1 - Share ELSE counted + 1
    /\ Ends(t, "got")
    /\ UNCHANGED <<memory, redis, asks, lost, paid, copied>>

\* Every store is counted, an entry or not; Range takes any entries.
CountEntry(t) ==
    /\ flight[t].pc = "count"
    /\ IF counted + 1 <= Capacity THEN counted' = counted + 1 /\ UNCHANGED memory
       ELSE \E gone \in SUBSET memory :
               /\ Cardinality(gone) = (IF Cardinality(memory) < Share THEN Cardinality(memory) ELSE Share)
               /\ memory' = memory \ gone
               /\ counted' = counted + 1 - Cardinality(gone)
    /\ Ends(t, "got")
    /\ UNCHANGED <<redis, asks, lost, paid, copied>>

\* Entries live for a day.
Expires(t) ==
    /\ t \in redis /\ Lost /\ redis' = redis \ {t}
    /\ UNCHANGED <<memory, counted, flight, caller, asks, paid, copied>>

QueryNext ==
    \/ \E c \in Callers : \/ \E t \in Texts : Ask(c, t)
                          \/ Join(c) \/ Cancel(c) \/ GiveUp(c) \/ Return(c)
    \/ \E t \in Texts : \/ ReadRedis(t) \/ CallService(t) \/ WriteBoth(t) \/ CountEntry(t)
                        \/ Expires(t)

-----------------------------------------------------------------------------
QueryTypeOK == memory \subseteq Texts /\ counted \in Nat /\ asks \in 0 .. MaxAsks

\* However requests for a text overlap, the service is called for it once,
\* and again only after an entry of Redis was lost, not read or not written.
PaidOnce == \A t \in Texts : paid[t] <= 1 + lost

\* The map holds what its capacity allows, entries that came from Redis
\* apart, which nothing counts, and those just stored.
MemoryIsBounded ==
    Cardinality(memory) <= Capacity + copied + Cardinality({t \in Texts : flight[t].pc = "count"})
=============================================================================
