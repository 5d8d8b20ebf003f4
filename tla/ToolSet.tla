------------------------------ MODULE ToolSet ------------------------------
(***************************************************************************)
(* Which tools an agent gets (internal/agent/engine.go, engine_tools.go,   *)
(* types.go, and the places that mount them: quick_agent.go,               *)
(* deep_agent.go, deep_plan_execute.go, deep_builder.go, deep_task.go).    *)
(*                                                                         *)
(* The program registers its own tools once, each in a domain.  Every      *)
(* message builds the tools of its mode for its choice of knowledge bases  *)
(* and MCP connections, counts their size, and hands them on; the agent    *)
(* mounts a part of them and lists a part of the registry in its prompt.   *)
(* A run that waits for an approval or an answer goes on in a later        *)
(* message, whose mode and choices may be others.  Discovery may find any  *)
(* part of what was chosen each time it is asked.                          *)
(***************************************************************************)
EXTENDS Naturals, Sequences, SequencesExt, FiniteSets, Lists

CONSTANTS
    Catalogue,    \* entries [name, rank, order, dangerous, domain] to register
    Kbs,          \* choices of knowledge bases
    Connections,  \* MCP connections of the user, one tool each
    Patterned     \* those whose tool has the name of a dangerous operation

Knowledge == "knowledge"
DocMgmt == "doc_mgmt"
Clarify == "clarify"
External == "external"
AllToolDomains == {Knowledge, DocMgmt, Clarify, External}
QuickToolDomains == {Knowledge, Clarify}

Roles == {"knowledge_research", "web_research", "document_operation", "synthesis_review"}
Unset == {"unset"}      \* no white list of domains
Dynamic == "dynamic"    \* a tool of a connection takes no knowledge bases

\* Names are unique, and the rank is a name's place among them; what is discovered bears the prefix of its connection.
ASSUME CatalogueAssumption ==
    /\ \A e \in Catalogue : e.domain \in AllToolDomains \ {External}
    /\ \A e \in Catalogue : e.dangerous => e.domain = DocMgmt
    /\ \A e, f \in Catalogue : e.rank = f.rank \/ e.name = f.name => e = f
    /\ \A e \in Catalogue : e.rank \in Nat /\ e.order \in Nat /\ e.name \notin Connections
    /\ IsFiniteSet(Catalogue) /\ IsFiniteSet(Connections)
    /\ Patterned \subseteq Connections /\ Dynamic \notin Kbs

VARIABLES
    internalTools,   \* the registry, in the order of the calls
    planExecute,     \* the configuration switch of deep mode
    bundle,          \* what the message built, or None
    req,             \* the request being run
    external,        \* the planner may use web research
    waiting,         \* the request frozen in the checkpoint, or None
    mounted,         \* the agents built in this run
    pc

toolVars == <<internalTools, planExecute, bundle, req, external, waiting, mounted, pc>>

None == [kind |-> "none"]
Profiles == {"quick", "deep"}
Messages == [kind : {"new"}, profile : Profiles, kbs : Kbs, mcpDisabled : BOOLEAN,
             ids : SUBSET Connections, domains : {Unset}]

\* An entry before another in every list: by order, equal orders by name.
Precedes(e, f) == e.order < f.order \/ (e.order = f.order /\ e.rank < f.rank)

\* Mutant: equal orders stay as they were registered.
Sorted_ByOrder ==
    LET all == ToSet(internalTools)
        Place(e) == CHOOSE i \in DOMAIN internalTools : internalTools[i] = e
    IN  Ranked(all, {p \in all \X all : p[1].order < p[2].order \/ (p[1].order = p[2].order /\ Place(p[1]) < Place(p[2]))})

InOrder == {p \in Catalogue \X Catalogue : Precedes(p[1], p[2])}
SortedInternalTools == Ranked(ToSet(internalTools), InOrder)

InDomains(entries, domains) == Picked(entries, {i \in DOMAIN entries : entries[i].domain \in domains})

\* What the prompt of an agent with these domains lists (entriesInDomains).
EntriesOf(domains) == InDomains(SortedInternalTools, domains)

\* Tools are records of a name and what they were built for.
Build(e, kbs) == [name |-> e.name, kbs |-> kbs]

\* What discovery may bring: tools of the connections chosen, of all without a choice.
Chosen(r) == IF r.mcpDisabled THEN {} ELSE IF r.ids = {} THEN Connections ELSE r.ids
Discovered(up) == [i \in 1..Cardinality(up) |-> [name |-> SetToSeq(up)[i], kbs |-> Dynamic]]

\* Buckets of tools, one for each domain wanted.
BuildToolsByDomain(r, domains, up) ==
    [d \in AllToolDomains |->
        IF d \notin domains THEN <<>>
        ELSE IF d = External THEN Discovered(up)
        ELSE LET own == EntriesOf({d})
             IN  [i \in 1..Len(own) |-> Build(own[i], r.kbs)]]

\* Mutant: one cursor for all buckets.
ToolsInDomains_OneCursor(listed, buckets, domains) ==
    LET Taken(i) == <<buckets[listed[i].domain], i>>
        own == Picked([i \in 1..Len(listed) |-> Taken(i)], {i \in 1..Len(listed) : Taken(i)[2] <= Len(Taken(i)[1])})
    IN  [i \in 1..Len(own) |-> own[i][1][own[i][2]]]
        \o (IF External \in domains THEN buckets[External] ELSE <<>>)

\* Walks the registry with a cursor into each bucket; a bucket that is too
\* short gives nothing. What was discovered comes last.
ToolsInDomains(listed, buckets, domains) ==
    LET Taken(i) == <<buckets[listed[i].domain], Cardinality({j \in 1..i : listed[j].domain = listed[i].domain})>>
        own == Picked([i \in 1..Len(listed) |-> Taken(i)], {i \in 1..Len(listed) : Taken(i)[2] <= Len(Taken(i)[1])})
    IN  [i \in 1..Len(own) |-> own[i][1][own[i][2]]]
        \o (IF External \in domains THEN buckets[External] ELSE <<>>)

ToolDomains(profile) == IF profile = "quick" THEN QuickToolDomains ELSE AllToolDomains
ToolDomainsFor(r) == IF r.domains # Unset THEN r.domains ELSE ToolDomains(r.profile)

\* White lists of the roles of a plan.
TaskToolDomains(role) ==
    CASE role = "web_research" -> {External}
      [] role = "document_operation" -> {DocMgmt}
      [] role = "synthesis_review" -> {}
      [] OTHER -> {Knowledge}

\* Mutant: only what was registered as dangerous waits for an approval.
DangerousToolNames_Registered(tools) ==
    {e.name : e \in {f \in Catalogue : f.dangerous}}

\* Registered as dangerous, or discovered under a name of the patterns.
DangerousToolNames(tools) ==
    {e.name : e \in {f \in Catalogue : f.dangerous}}
    \cup {t.name : t \in {u \in ToSet(tools) : u.kbs = Dynamic /\ u.name \in Patterned}}

\* An agent: what its prompt lists, what it can call, what waits for approval.
SelectTools(how, entries, buckets, domains, guards) ==
    LET tools == ToolsInDomains(entries, buckets, domains)
    IN  [how |-> how, tools |-> tools,
         entries |-> [i \in 1..Len(entries) |-> entries[i].name],
         guarded |-> IF guards THEN DangerousToolNames(tools) ELSE {}]

ToolInit ==
    /\ internalTools = <<>>
    /\ planExecute \in BOOLEAN
    /\ bundle = None
    /\ req = None
    /\ external = FALSE
    /\ waiting = None
    /\ mounted = {}
    /\ pc = "starting"

\* Startup; any other domain panics.
RegisterInternal(e) ==
    /\ pc = "starting"
    /\ e \notin ToSet(internalTools)
    /\ internalTools' = Append(internalTools, e)
    /\ pc' = IF Len(internalTools') = Cardinality(Catalogue) THEN "idle" ELSE pc
    /\ UNCHANGED <<planExecute, bundle, req, external, waiting, mounted>>

\* A message builds the tools of its mode; it has none when the model client
\* of the message cannot be had yet.
EstimateToolsTokens(m, up) ==
    /\ pc = "idle"
    /\ up \subseteq Chosen(m)
    /\ \/ bundle' = [kind |-> "bundle",
                     buckets |-> BuildToolsByDomain(m, ToolDomains(m.profile), up)]
       \/ bundle' = None
    /\ req' = m
    /\ pc' = "estimated"
    /\ UNCHANGED <<internalTools, planExecute, external, waiting, mounted>>

\* What is left of the frozen request when a later message goes on with it.
RestoreContextRequest ==
    IF waiting = None THEN req ELSE [waiting EXCEPT !.kind = "resumed"]

Execute ==
    /\ pc = "estimated"
    /\ req' = RestoreContextRequest
    /\ pc' = CASE req'.profile = "quick" -> "quick"
               [] req'.profile # "quick"
                  /\ (IF waiting = None THEN planExecute ELSE waiting.domains = Unset) -> "plan"
               [] OTHER -> "single"
    /\ waiting' = None
    /\ UNCHANGED <<internalTools, planExecute, bundle, external, mounted>>

\* The buckets of the message, or new ones for the request.
BucketsFor(r, up) ==
    IF bundle # None THEN bundle.buckets
    ELSE BuildToolsByDomain(r, ToolDomainsFor(r), up)

RunQuickAgent(up) ==
    /\ pc = "quick"
    /\ up \subseteq Chosen(req)
    /\ \E entries \in {EntriesOf(ToolDomains("quick"))} :
          mounted' = {SelectTools("quick", entries, BucketsFor(req, up), ToolDomains("quick"), FALSE)}
    /\ pc' = "running"
    /\ UNCHANGED <<internalTools, planExecute, bundle, req, external, waiting>>

\* Mutant: a new single agent reaches connections too.
SingleRequest_Open(r) == r

\* A new agent gets no connection and a white list; a resumed one keeps its own.
SingleRequest(r) ==
    IF r.kind = "resumed" THEN r
    ELSE [r EXCEPT !.mcpDisabled = TRUE, !.domains = {Knowledge, DocMgmt, Clarify}]

RunDeepAgent(up) ==
    /\ pc = "single"
    /\ LET r == SingleRequest(req) IN
          /\ up \subseteq Chosen(r)
          /\ req' = r
          /\ \E entries \in {EntriesOf(ToolDomainsFor(r))} :
                mounted' = {SelectTools("single", entries, BucketsFor(r, up), ToolDomainsFor(r), TRUE)}
    /\ pc' = "running"
    /\ UNCHANGED <<internalTools, planExecute, bundle, external, waiting>>

\* A planned run builds what the message did not; a resumed one describes the
\* tools of the frozen request to its planner instead.
RunPlanExecute(up) ==
    /\ pc = "plan"
    /\ up \subseteq Chosen(req)
    /\ bundle' = IF bundle # None THEN bundle
                 ELSE [kind |-> "bundle", buckets |-> BuildToolsByDomain(req, AllToolDomains, up)]
    /\ external' = IF req.kind = "resumed" THEN up # {} ELSE bundle'.buckets[External] # <<>>
    /\ pc' = "running"
    /\ UNCHANGED <<internalTools, planExecute, req, waiting, mounted>>

\* Mutant: research uses the tools the message brought.
TaskBuckets_OfMessage(role, r, up) ==
    IF role \in {"web_research", "document_operation"}
    THEN BuildToolsByDomain(r, {DocMgmt, External}, up)
    ELSE bundle.buckets

\* Knowledge tools are built for each research, operations from the request.
TaskBuckets(role, r, up) ==
    CASE role = "knowledge_research" ->
            [bundle.buckets EXCEPT ![Knowledge] = BuildToolsByDomain(r, {Knowledge}, {})[Knowledge]]
      [] role \in {"web_research", "document_operation"} ->
            BuildToolsByDomain(r, {DocMgmt, External}, up)
      [] OTHER -> bundle.buckets

\* A task of the plan; web research is planned only if the planner saw tools.
BuildAgent(role, up) ==
    /\ pc = "running"
    /\ bundle # None
    /\ req.profile = "deep" /\ req.domains = Unset
    /\ up \subseteq Chosen(req)
    /\ role = "web_research" => external
    /\ \A a \in mounted : a.how # role
    /\ \E entries \in {EntriesOf(TaskToolDomains(role))} :
          mounted' = mounted \cup
             {SelectTools(role, entries, TaskBuckets(role, req, up), TaskToolDomains(role), TRUE)}
    /\ UNCHANGED <<internalTools, planExecute, bundle, req, external, waiting, pc>>

\* An approval or a question ends the run with a checkpoint of its request.
Interrupt ==
    /\ pc = "running"
    /\ mounted # {}
    /\ waiting' = req
    /\ bundle' = None
    /\ req' = None
    /\ external' = FALSE
    /\ mounted' = {}
    /\ pc' = "idle"
    /\ UNCHANGED <<internalTools, planExecute>>

Complete ==
    /\ pc = "running"
    /\ bundle' = None
    /\ req' = None
    /\ external' = FALSE
    /\ mounted' = {}
    /\ pc' = "idle"
    /\ UNCHANGED <<internalTools, planExecute, waiting>>

ToolNext ==
    \/ \E e \in Catalogue : RegisterInternal(e)
    \/ \E m \in Messages, up \in SUBSET Connections :
          (m.mcpDisabled => m.ids = {}) /\ EstimateToolsTokens(m, up)
    \/ Execute
    \/ \E up \in SUBSET Connections :
          RunQuickAgent(up) \/ RunDeepAgent(up) \/ RunPlanExecute(up)
    \/ \E role \in Roles, up \in SUBSET Connections : BuildAgent(role, up)
    \/ Interrupt
    \/ Complete

ToolSpec == ToolInit /\ [][ToolNext]_toolVars

-----------------------------------------------------------------------------
Own(agent) == Picked(agent.tools, {i \in DOMAIN agent.tools : agent.tools[i].kbs # Dynamic})
NamesOf(tools) == [i \in 1..Len(tools) |-> tools[i].name]
Reach(agent) == {t \in ToSet(agent.tools) : t.kbs = Dynamic}

ToolTypeOK ==
    /\ ToSet(internalTools) \subseteq Catalogue
    /\ pc \in {"starting", "idle", "estimated", "quick", "single", "plan", "running"}
    /\ \A a \in mounted : a.how \in Roles \cup {"quick", "single"}
    /\ Cardinality(mounted) <= Cardinality(Roles)

\* A new run, and every task of a plan even after a resume, lists in its prompt
\* exactly the program's tools it can call, in the order it has them, whatever
\* part of the prepared buckets it takes (selectToolsByDomains, toolsInDomains).
PromptMatchesTools ==
    \A a \in mounted :
        (a.how \in Roles \/ req.kind = "new") => a.entries = NamesOf(Own(a))

\* Whatever order the tools were registered in, they are listed the same
\* (sortedInternalTools: "必须全序").
ListsAreStable ==
    \A a \in mounted : \A i, j \in DOMAIN a.entries :
        \A e, f \in Catalogue :
            (i < j /\ e.name = a.entries[i] /\ f.name = a.entries[j])
                => (e.order <= f.order /\ (e.order = f.order => e.rank < f.rank))

\* No tool that deletes or writes can be called without an approval, also when
\* it was discovered and also in quick mode, which has no approvals at all.
RiskIsGuarded ==
    \A a \in mounted : \A t \in ToSet(a.tools) :
        (t.name \in Patterned \/ \E e \in Catalogue : e.name = t.name /\ e.dangerous)
            => t.name \in a.guarded

\* Quick mode and a single deep agent reach no connection, even when they are
\* resumed by a message whose tools were built for more.
StaysInside == \A a \in mounted : a.how \in {"quick", "single"} => Reach(a) = {}

\* The tasks of a plan work on the knowledge bases and connections of the
\* message that started it, whatever a resuming message chose.
TasksKeepTheChoice ==
    \A a \in mounted : a.how \in Roles =>
        /\ \A t \in ToSet(Own(a)) : t.kbs = req.kbs
        /\ {t.name : t \in Reach(a)} \subseteq Chosen(req)

\* What the prompt of any agent lists can be called (engine_tools.go:105: what
\* is listed and what is mounted are one product).
ListedIsMounted ==
    \A a \in mounted : ToSet(a.entries) \subseteq {t.name : t \in ToSet(a.tools)}
=============================================================================
