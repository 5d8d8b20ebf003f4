----------------------------- MODULE ModelConfig -----------------------------
(***************************************************************************)
(* Model configurations: the users' own and the shared ones of the         *)
(* administrators (internal/service/user_model_config_service.go and       *)
(* model_service.go), their rows behind a Redis cache                      *)
(* (internal/repository/*_repository_cached.go) and the LRU cache of model *)
(* clients (internal/llm/client_cache.go, factory.go).                     *)
(*                                                                         *)
(* A row has the identity of a deployment (protocol, address and model), a *)
(* key, a window and the capabilities of the deployment.  An update builds *)
(* a candidate from the row it read, tries it out on the live deployment   *)
(* and saves the whole row; readers, the cache and other updates run in    *)
(* between.  What a deployment answers is left open.                       *)
(***************************************************************************)
EXTENDS Naturals, Sequences

CONSTANTS
    Models,        \* configurations, by ID
    Shared,        \* those of the administrators
    Existing,      \* those that exist at the start, with their rows
    ConfigCalls,   \* requests that run side by side
    Changes,       \* what an update or a creation may ask for
    Capabilities,  \* what a deployment may be known to be capable of
    Keep,          \* a field an update does not mention
    Capacity,      \* capacity of the cache of clients
    MaxCalls       \* bound: requests served

NoWindow == "no window"
NoCaps == "no caps"

\* A change names fields or keeps them; reconfirm is ReconfirmCapabilities.
Pure(ch) == ch.on = FALSE /\ \A f \in DOMAIN ch \ {"on", "reconfirm"} : ch[f] = Keep

Unborn == [row |-> "unborn"]
Gone == [row |-> "gone"]
IsRow(x) == x \notin {Unborn, Gone}

\* A row has all its columns.
WellFormed(row) == row = [identity |-> row.identity, key |-> row.key, window |-> row.window,
                          caps |-> row.caps, on |-> row.on]

ASSUME ModelAssumption ==
    /\ DOMAIN Existing \subseteq Models /\ \A m \in DOMAIN Existing : WellFormed(Existing[m])
    /\ Capacity \in Nat \ {0} /\ MaxCalls \in Nat

VARIABLES
    models,     \* the table
    cached,     \* what Redis has under the ID
    clients,    \* the clients of llmClientCache, the one used last in front
    call,       \* the requests
    served,     \* how many requests were begun
    verified,   \* history: what was tried out, as a whole
    spoiled     \* history: entries written too late or not removed

modelVars == <<models, cached, clients, call, served, verified, spoiled>>

\* What a client is made of; the switch is not part of it.
Config(row) == [identity |-> row.identity, key |-> row.key,
                window |-> row.window, caps |-> row.caps]
\* Mutant: the fingerprint without the window.
CacheKey_NoWindow(config) == [config EXCEPT !.window = NoWindow]

CacheKey(config) == config

NoCall == [pc |-> "idle"]
Pcs == {"idle", "get", "read", "fill", "prepare", "verify", "save", "drop",
        "evict", "client", "build", "used"}

ModelInit ==
    /\ models = [m \in Models |-> IF m \in DOMAIN Existing THEN Existing[m] ELSE Unborn]
    /\ cached = [m \in Models |-> Gone]
    /\ clients = <<>>
    /\ call = [c \in ConfigCalls |-> NoCall]
    /\ served = 0
    /\ verified = {Config(Existing[m]) : m \in DOMAIN Existing}
    /\ spoiled = {}

Goto(c, pc) == call' = [call EXCEPT ![c].pc = pc]
Ends(c) == call' = [call EXCEPT ![c] = NoCall]

-----------------------------------------------------------------------------
\* The requests.  Deleting a shared model asks for no row first.

Begins(c, kind, m, ch) ==
    /\ call[c].pc = "idle"
    /\ served < MaxCalls
    /\ served' = served + 1
    /\ call' = [call EXCEPT ![c] =
           [pc |-> IF kind = "create" THEN "prepare"
                   ELSE IF kind = "delete" /\ m \in Shared THEN "drop" ELSE "get",
            kind |-> kind, id |-> m, change |-> ch, row |-> Gone, config |-> Gone]]
    /\ UNCHANGED <<models, cached, clients, verified, spoiled>>

Create(c) == \E m \in Models, ch \in Changes :
    models[m] = Unborn /\ (\A d \in ConfigCalls : call[d].pc # "idle" => call[d].id # m)
    /\ ch.identity # Keep /\ Begins(c, "create", m, ch)
Update(c) == \E m \in Models, ch \in Changes : IsRow(models[m]) /\ Begins(c, "update", m, ch)
Delete(c) == \E m \in Models : IsRow(models[m]) /\ Begins(c, "delete", m, Keep)
Resolve(c) == \E m \in Models : models[m] # Unborn /\ Begins(c, "use", m, Keep)

-----------------------------------------------------------------------------
\* GetByID of the cached repositories.  A failed lookup counts as a miss, a
\* failed write is ignored.

Found(c, row) ==
    call' = [call EXCEPT ![c].row = row,
                 ![c].pc = CASE call[c].kind = "update" -> "prepare"
                             [] call[c].kind = "delete" -> "drop"
                             [] OTHER -> "client"]

CacheGet(c) ==
    /\ call[c].pc = "get"
    /\ LET m == call[c].id IN
       \/ IsRow(cached[m]) /\ Found(c, cached[m])
       \/ Goto(c, "read")
    /\ UNCHANGED <<models, cached, clients, served, verified, spoiled>>

ReadRow(c) ==
    /\ call[c].pc = "read"
    /\ LET row == models[call[c].id] IN
       IF IsRow(row) THEN call' = [call EXCEPT ![c].row = row, ![c].pc = "fill"]
                     ELSE Ends(c)
    /\ UNCHANGED <<models, cached, clients, served, verified, spoiled>>

CacheSet(c) ==
    /\ call[c].pc = "fill"
    /\ LET m == call[c].id IN
       \/ /\ cached' = [cached EXCEPT ![m] = call[c].row]
          /\ spoiled' = IF call[c].row = models[m] THEN spoiled \ {m} ELSE spoiled \cup {m}
       \/ UNCHANGED <<cached, spoiled>>
    /\ Found(c, call[c].row)
    /\ UNCHANGED <<models, clients, served, verified>>

-----------------------------------------------------------------------------
\* The candidate of an update.

Merged(row, ch) == [f \in DOMAIN row |-> IF ch[f] = Keep THEN row[f] ELSE ch[f]]

\* ExistsByModelID: among the models of the same owner.
Taken(m, identity) ==
    \E other \in Models \ {m} : /\ IsRow(models[other]) /\ models[other].identity = identity
                                /\ (other \in Shared) = (m \in Shared)

\* userDeploymentSettings: the capabilities a user cannot set.  Those of the
\* row, else those of an enabled shared model of the deployment, else what
\* the deployment or the catalogue says.
Deployed(identity, old) ==
    LET Profiles == {models[m].caps : m \in {n \in Shared : IsRow(models[n]) /\ models[n].on
                                                            /\ models[n].identity = identity}}
    IN IF old # NoCaps THEN {old}
       ELSE IF Profiles \ {NoCaps} # {} THEN Profiles \ {NoCaps}
       ELSE Capabilities

\* The capabilities of a changed deployment are confirmed again or lost, and
\* what is lost cannot be verified.
Candidates(m, old, ch) ==
    LET new   == Merged(old, ch)
        moved == new.identity # old.identity
        known == IF m \in Shared THEN {new.caps}
                 ELSE Deployed(new.identity, IF moved THEN NoCaps ELSE old.caps)
    IN IF ~moved THEN {[new EXCEPT !.caps = k] : k \in known}
       ELSE IF ~ch.reconfirm THEN {[new EXCEPT !.window = NoWindow, !.caps = NoCaps]}
       ELSE IF ch.window = Keep \/ (m \in Shared /\ ch.caps = Keep) THEN {}
       ELSE {[new EXCEPT !.caps = k] : k \in known}

Fresh(m, ch) ==
    LET known == IF m \in Shared THEN {IF ch.caps = Keep THEN NoCaps ELSE ch.caps}
                 ELSE Deployed(ch.identity, NoCaps)
        blank == [identity |-> ch.identity, key |-> "no key", window |-> NoWindow,
                  caps |-> NoCaps, on |-> TRUE]
    IN {[Merged(blank, [ch EXCEPT !.on = TRUE]) EXCEPT !.caps = k] : k \in known}

\* Only switching a shared model off needs no deployment.
Prepare(c) ==
    /\ call[c].pc = "prepare"
    /\ LET m == call[c].id  ch == call[c].change  old == call[c].row IN
       \/ /\ call[c].kind = "update" /\ m \in Shared /\ Pure(ch)
          /\ call' = [call EXCEPT ![c].row = [old EXCEPT !.on = FALSE], ![c].pc = "save"]
       \/ /\ ~(call[c].kind = "update" /\ m \in Shared /\ Pure(ch))
          /\ \E new \in IF call[c].kind = "create" THEN Fresh(m, ch) ELSE Candidates(m, old, ch) :
                /\ ~(Taken(m, new.identity) /\ (call[c].kind = "create" \/ new.identity # old.identity))
                /\ call' = [call EXCEPT ![c].row = new, ![c].pc = "verify"]
       \/ Ends(c)
    /\ UNCHANGED <<models, cached, clients, served, verified, spoiled>>

Complete(row) == row.window # NoWindow /\ row.caps # NoCaps

\* verifyModelForSave.
Verify(c) ==
    /\ call[c].pc = "verify"
    /\ \/ /\ Complete(call[c].row)
          /\ verified' = verified \cup {Config(call[c].row)}
          /\ Goto(c, "save")
       \/ Ends(c) /\ UNCHANGED verified
    /\ UNCHANGED <<models, cached, clients, served, spoiled>>

-----------------------------------------------------------------------------
\* Create, Update and Delete of the repositories.  Save writes every column,
\* and inserts the row if it is not there any more.

\* Mutant: updating only the columns the request named.
Save_ChangedColumns(c) ==
    /\ call[c].pc = "save"
    /\ models' = [models EXCEPT ![call[c].id] =
           IF call[c].kind = "create" \/ ~IsRow(@) THEN call[c].row
           ELSE Merged(@, call[c].change)]
    /\ IF call[c].kind = "create" THEN Ends(c) ELSE Goto(c, "evict")
    /\ UNCHANGED <<cached, clients, served, verified, spoiled>>

Save(c) ==
    /\ call[c].pc = "save"
    /\ models' = [models EXCEPT ![call[c].id] = call[c].row]
    /\ IF call[c].kind = "create" THEN Ends(c) ELSE Goto(c, "evict")
    /\ UNCHANGED <<cached, clients, served, verified, spoiled>>

\* Mutant: removing the row without the cache.
Drop_KeepsCache(c) ==
    /\ call[c].pc = "drop"
    /\ models' = [models EXCEPT ![call[c].id] = Gone]
    /\ Ends(c)
    /\ UNCHANGED <<cached, clients, served, verified, spoiled>>

Drop(c) ==
    /\ call[c].pc = "drop"
    /\ models' = [models EXCEPT ![call[c].id] = Gone]
    /\ Goto(c, "evict")
    /\ UNCHANGED <<cached, clients, served, verified, spoiled>>

\* cache.Delete; a failure is only logged.
CacheDelete(c) ==
    /\ call[c].pc = "evict"
    /\ LET m == call[c].id IN
       \/ cached' = [cached EXCEPT ![m] = Gone] /\ spoiled' = spoiled \ {m}
       \/ /\ IsRow(cached[m])
          /\ spoiled' = spoiled \cup {m}
          /\ UNCHANGED cached
    /\ Ends(c)
    /\ UNCHANGED <<models, clients, served, verified>>

\* The entry reaches its time to live.
Expires(m) ==
    /\ IsRow(cached[m])
    /\ cached' = [cached EXCEPT ![m] = Gone]
    /\ spoiled' = spoiled \ {m}
    /\ UNCHANGED <<models, clients, call, served, verified>>

-----------------------------------------------------------------------------
\* getOrCreateClient.

\* Where the client of a key is, else behind the last one.
Place(key) == IF \E i \in DOMAIN clients : clients[i].key = key
              THEN CHOOSE i \in DOMAIN clients : clients[i].key = key
              ELSE Len(clients) + 1

\* The clients in front of its place move back by one; the last one may go.
InFront(e) == LET place == Place(e.key)
                  length == IF place > Len(clients) THEN place ELSE Len(clients)
              IN [i \in 1 .. IF length < Capacity THEN length ELSE Capacity |->
                     IF i = 1 THEN e ELSE IF i <= place THEN clients[i - 1] ELSE clients[i]]

ClientGet(c) ==
    /\ call[c].pc = "client"
    /\ LET key == CacheKey(Config(call[c].row)) IN
       IF \E i \in DOMAIN clients : clients[i].key = key
       THEN LET e == clients[CHOOSE i \in DOMAIN clients : clients[i].key = key] IN
            /\ clients' = InFront(e)
            /\ call' = [call EXCEPT ![c].config = e.config, ![c].pc = "used"]
       ELSE Goto(c, "build") /\ UNCHANGED clients
    /\ UNCHANGED <<models, cached, served, verified, spoiled>>

\* Two that missed both build a client; the later one replaces the earlier.
ClientPut(c) ==
    /\ call[c].pc = "build"
    /\ LET config == Config(call[c].row) IN
       IF Complete(call[c].row)
       THEN /\ clients' = InFront([key |-> CacheKey(config), config |-> config])
            /\ call' = [call EXCEPT ![c].config = config, ![c].pc = "used"]
       ELSE Ends(c) /\ UNCHANGED clients
    /\ UNCHANGED <<models, cached, served, verified, spoiled>>

Answered(c) ==
    /\ call[c].pc = "used"
    /\ Ends(c)
    /\ UNCHANGED <<models, cached, clients, served, verified, spoiled>>

ModelNext ==
    \/ \E c \in ConfigCalls :
          \/ Create(c) \/ Update(c) \/ Delete(c) \/ Resolve(c)
          \/ CacheGet(c) \/ ReadRow(c) \/ CacheSet(c)
          \/ Prepare(c) \/ Verify(c) \/ Save(c) \/ Drop(c) \/ CacheDelete(c)
          \/ ClientGet(c) \/ ClientPut(c) \/ Answered(c)
    \/ \E m \in Models : Expires(m)

-----------------------------------------------------------------------------
\* The counters and the caches keep their bounds, and no client is listed twice.
ModelTypeOK ==
    /\ \A c \in ConfigCalls : call[c].pc \in Pcs
    /\ served \in 0 .. MaxCalls
    /\ Len(clients) <= Capacity
    /\ \A i, j \in DOMAIN clients : i # j => clients[i].key # clients[j].key

\* Two updates that overlap mix their changes in no row: what a row holds
\* was tried out in this combination, although each update started from a
\* row that may be outdated.
StoredWasVerified == \A m \in Models : IsRow(models[m]) => Config(models[m]) \in verified

\* The cache differs from the table only while a writer has not reached the
\* cache yet, or after a reader wrote what it had read before the change, or
\* the removal failed: an update that has returned is visible otherwise.
StaleOnlyByRace ==
    \A m \in Models : IsRow(cached[m]) /\ cached[m] # models[m] =>
        m \in spoiled \/ \E c \in ConfigCalls : call[c].pc = "evict" /\ call[c].id = m

\* A request gets a client built from the very configuration it resolved,
\* whatever clients were cached, replaced and evicted before.
ClientOfResolvedConfig ==
    \A c \in ConfigCalls : call[c].pc = "used" => call[c].config = Config(call[c].row)

\* Why it is so.  What is stored, cached or read was tried out, and so was what a
\* client was built from; a candidate is well formed before it was.
Sound(row) == WellFormed(row) /\ Config(row) \in verified
RowsAreSound ==
    /\ \A m \in Models : /\ IsRow(models[m]) => Sound(models[m])
                         /\ IsRow(cached[m]) => Sound(cached[m])
    /\ \A c \in ConfigCalls :
          /\ \/ call[c].pc \in {"fill", "save", "client", "build", "used"}
             \/ call[c].pc = "prepare" /\ call[c].kind = "update"
             => Sound(call[c].row)
          /\ call[c].pc = "verify" => WellFormed(call[c].row)
    /\ clients \in Seq([key : verified, config : verified])
    /\ \A i \in DOMAIN clients : clients[i].key = CacheKey(clients[i].config)

\* A configuration that is being created has neither row nor cache entry, and no
\* other request knows it.
CreatedAlone ==
    /\ \A m \in Models : models[m] = Unborn => ~IsRow(cached[m])
    /\ \A c \in ConfigCalls : call[c].pc # "idle" =>
          /\ call[c].kind # "create" => models[call[c].id] # Unborn
          /\ call[c].kind = "create" =>
                /\ models[call[c].id] = Unborn
                /\ \A d \in ConfigCalls \ {c} : call[d].pc # "idle" => call[d].id # call[c].id

\* The tables are tables, and a request is where its kind leads.
CallsFit ==
    /\ DOMAIN models = Models /\ DOMAIN cached = Models /\ DOMAIN call = ConfigCalls
    /\ \A c \in ConfigCalls : call[c] # NoCall =>
          /\ call[c] = [pc |-> call[c].pc, kind |-> call[c].kind, id |-> call[c].id,
                        change |-> call[c].change, row |-> call[c].row, config |-> call[c].config]
          /\ call[c].pc # "idle" /\ call[c].id \in Models
          /\ call[c].kind \in {"create", "update", "delete", "use"}
          /\ call[c].kind = "create" => call[c].pc \in {"prepare", "verify", "save"}
          /\ call[c].pc = "prepare" => call[c].kind \in {"create", "update"}

\* The inductive invariant of the configurations and their caches.
ModelInv ==
    /\ ModelTypeOK /\ CallsFit /\ RowsAreSound /\ CreatedAlone
    /\ StaleOnlyByRace /\ ClientOfResolvedConfig
=============================================================================
