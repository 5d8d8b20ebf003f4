------------------------------ MODULE McpConfig ------------------------------
(***************************************************************************)
(* The settings of MCP connections and of the templates administrators     *)
(* keep for them (internal/service/mcp_service.go, mcp_tools_service.go,   *)
(* mcp_template_service.go and their repositories), and the tools an agent *)
(* builds from them and calls later (internal/tool/tool_factory.go,        *)
(* mcp_connection.go).                                                     *)
(*                                                                         *)
(* A user edits a connection and switches its tools, an administrator      *)
(* edits the template, and an agent holds tools it discovered before; all  *)
(* read a row, do something slow, and write or call afterwards.  A row is  *)
(* read together with its template.  What a server offers and whether it   *)
(* answers is left open.                                                   *)
(***************************************************************************)
EXTENDS Naturals, FiniteSets

CONSTANTS
    Templates,     \* templates, by ID
    SystemOnes,    \* those that were deployed with the program
    TemplateOf,    \* [connections -> Templates \cup {Personal}]
    Owner,         \* [connections -> users]
    Endpoints,     \* connection parts of a configuration
    Credentials,   \* values of the fields a user fills in
    Accepts,       \* [schemas -> SUBSET Credentials], schemas of a template
    ToolNames,
    MaxDisabled,   \* 128 in the code: how many tools may be switched off
    Editors,       \* requests of users and administrators, side by side
    Tasks,         \* agents, each with one tool at a time
    MaxEdits       \* bound: writes of rows

Personal == "personal"
Connections == DOMAIN TemplateOf
Schemas == DOMAIN Accepts
NoRow == [row |-> "none"]
Kept == "keep"
Removed == [row |-> "removed"]
Exists(x) == x \notin {NoRow, Removed}

\* Something can be deployed, and the IDs of connections are not those of templates.
ASSUME McpAssumption ==
    /\ Endpoints # {} /\ \E s \in Schemas : Accepts[s] # {}
    /\ TemplateOf \in [Connections -> Templates \cup {Personal}] /\ Personal \notin Templates
    /\ Connections \cap Templates = {}
    /\ MaxDisabled \in Nat /\ MaxEdits \in Nat

VARIABLES
    template,   \* mcp_templates
    link,       \* mcp_connections
    clock,      \* updated_at of the next write
    editor,     \* the requests
    task,       \* the agents
    told        \* history: what the answers said about switches

mcpVars == <<template, link, clock, editor, task, told>>

NoRequest == [pc |-> "away"]
Deleted == [on |-> FALSE, off |-> ToolNames]

AnEndpoint == CHOOSE e \in Endpoints : TRUE
ASchema == CHOOSE s \in Schemas : Accepts[s] # {}
ATemplate == [endpoint |-> AnEndpoint, schema |-> ASchema, on |-> TRUE, at |-> 0, manifest |-> Kept]

\* The templates of the deployment; the IDs that connections will get.
McpInit ==
    /\ \E kept \in SUBSET Templates :
          template = [t \in Templates |-> IF t \in kept THEN ATemplate ELSE NoRow]
    /\ \E ids \in SUBSET Connections :
          /\ link = [c \in Connections |-> IF c \in ids THEN NoRow ELSE Removed]
          /\ told = [x \in Templates \cup Connections |->
                 IF x \in Templates THEN [on |-> Exists(template[x]), off |-> {}]
                 ELSE IF x \in ids THEN [on |-> FALSE, off |-> {}] ELSE Deleted]
    /\ clock = 1
    /\ editor = [e \in Editors |-> NoRequest]
    /\ task = [a \in Tasks |-> NoRequest]

-----------------------------------------------------------------------------
\* ResolveMCPConnection: what is sent, and whether anything may be sent.

Usable(c, row) ==
    /\ Cardinality(row.off) <= MaxDisabled
    /\ TemplateOf[c] # Personal =>
          LET t == template[TemplateOf[c]] IN
          Exists(t) /\ t.on /\ row.fields \in Accepts[t.schema]

Resolved(c, row) ==
    IF TemplateOf[c] = Personal THEN [endpoint |-> row.endpoint, fields |-> Kept]
    ELSE [endpoint |-> template[TemplateOf[c]].endpoint, fields |-> row.fields]

\* Every write of a row gives it a new version.
Written == clock <= MaxEdits /\ clock' = clock + 1

Asks(e, req) == editor' = [editor EXCEPT ![e] = req]
Answers(e) == editor' = [editor EXCEPT ![e] = NoRequest]

-----------------------------------------------------------------------------
\* Connections: Create, Update, Delete.  One connection of a template a user;
\* an ID is used once.

CreateConnection(e, c, endpoint, fields) ==
    LET row == [endpoint |-> endpoint, fields |-> fields, on |-> TRUE, off |-> {}, at |-> clock] IN
    /\ editor[e].pc = "away" /\ link[c] = NoRow
    /\ \A f \in Editors : editor[f].pc # "away" => editor[f].id # c
    /\ Usable(c, row)
    /\ Asks(e, [pc |-> "insert", id |-> c, row |-> row])
    /\ UNCHANGED <<template, link, clock, task, told>>

Duplicate(c) == \E d \in Connections \ {c} :
    Exists(link[d]) /\ Owner[d] = Owner[c] /\ TemplateOf[d] = TemplateOf[c] /\ TemplateOf[c] # Personal

InsertConnection(e) ==
    /\ editor[e].pc = "insert"
    /\ LET c == editor[e].id IN
       IF Duplicate(c) \/ (TemplateOf[c] # Personal /\ ~Exists(template[TemplateOf[c]]))
       THEN UNCHANGED <<link, clock, told>>
       ELSE /\ Written
            /\ link' = [link EXCEPT ![c] = [editor[e].row EXCEPT !.at = clock]]
            /\ told' = [told EXCEPT ![c].on = TRUE]
    /\ Answers(e)
    /\ UNCHANGED <<template, task>>

\* Update reads the row and merges one field into it; the tools that are off
\* come from the row, never from the request.
EditConnection(e, c, field, value) ==
    LET old == link[c]
        new == [old EXCEPT ![field] = value]
    IN /\ editor[e].pc = "away" /\ Exists(old) /\ new # old
       /\ TemplateOf[c] # Personal => field # "endpoint"
       /\ Asks(e, [pc |-> "validate", id |-> c, row |-> new,
                   checked |-> new.on \/ field # "on"])
       /\ UNCHANGED <<template, link, clock, task, told>>

\* Switching off what does not work any more is not refused.
ValidateConnection(e) ==
    /\ editor[e].pc = "validate"
    /\ IF editor[e].checked => Usable(editor[e].id, editor[e].row)
       THEN Asks(e, [editor[e] EXCEPT !.pc = "update"])
       ELSE Answers(e)
    /\ UNCHANGED <<template, link, clock, task, told>>

\* Mutant: writing a row without comparing the version.
Unchanged_AnyVersion(now, read) == Exists(now)

Unchanged(now, read) == Exists(now) /\ now.at = read.at

UpdateConnection(e) ==
    /\ editor[e].pc = "update"
    /\ LET c == editor[e].id  row == editor[e].row IN
       IF Unchanged(link[c], row)
       THEN /\ Written
            /\ link' = [link EXCEPT ![c] = [row EXCEPT !.at = clock]]
            /\ told' = [told EXCEPT ![c].on = row.on]
       ELSE UNCHANGED <<link, clock, told>>
    /\ Answers(e)
    /\ UNCHANGED <<template, task>>

DeleteConnection(c) ==
    /\ Exists(link[c])
    /\ link' = [link EXCEPT ![c] = Removed]
    /\ told' = [told EXCEPT ![c] = Deleted]
    /\ UNCHANGED <<template, clock, editor, task>>

-----------------------------------------------------------------------------
\* UpdateTool.  A tool is switched on only while the server offers it.

SwitchTool(e, c, tool, on) ==
    /\ editor[e].pc = "away" /\ Exists(link[c])
    /\ ~on /\ tool \notin link[c].off => Cardinality(link[c].off) < MaxDisabled
    /\ on => Usable(c, link[c])
    /\ Asks(e, [pc |-> "switch", id |-> c, tool |-> tool, on |-> on])
    /\ UNCHANGED <<template, link, clock, task, told>>

\* SetToolEnabled, one statement: the list of the row as it is then.
SetToolEnabled(e) ==
    /\ editor[e].pc = "switch"
    /\ LET c == editor[e].id  tool == editor[e].tool  on == editor[e].on
           Room == on \/ tool \in link[c].off \/ Cardinality(link[c].off) < MaxDisabled
           Off(off) == IF on THEN off \ {tool} ELSE off \cup {tool}
       IN IF Exists(link[c]) /\ Room
          THEN /\ Written
               /\ link' = [link EXCEPT ![c].off = Off(@), ![c].at = clock]
               /\ told' = [told EXCEPT ![c].off = Off(@)]
          ELSE UNCHANGED <<link, clock, told>>
    /\ Answers(e)
    /\ UNCHANGED <<template, task>>

-----------------------------------------------------------------------------
\* Templates: Update, Delete, Probe.  Of a deployed one only the timeouts,
\* which are part of the endpoint here, and the switch may change.

EditTemplate(e, t, field, value) ==
    LET old == template[t]
        new == [old EXCEPT ![field] = value]
    IN /\ editor[e].pc = "away" /\ Exists(old) /\ new # old
       /\ t \in SystemOnes => field # "schema"
       /\ Asks(e, [pc |-> "template", id |-> t, row |-> new])
       /\ UNCHANGED <<template, link, clock, task, told>>

UpdateTemplate(e) ==
    /\ editor[e].pc = "template"
    /\ LET t == editor[e].id  row == editor[e].row IN
       IF Unchanged(template[t], row)
       THEN /\ Written
            /\ template' = [template EXCEPT ![t] =
                   [row EXCEPT !.at = clock, !.manifest = template[t].manifest]]
            /\ told' = [told EXCEPT ![t].on = row.on]
       ELSE UNCHANGED <<template, clock, told>>
    /\ Answers(e)
    /\ UNCHANGED <<link, task>>

\* Mutant: the connections of a deleted template stay.
DeleteTemplate_KeepsLinks(t) ==
    /\ Exists(template[t]) /\ t \notin SystemOnes
    /\ template' = [template EXCEPT ![t] = Removed]
    /\ told' = [x \in DOMAIN told |-> IF x = t THEN Deleted ELSE told[x]]
    /\ UNCHANGED <<link, clock, editor, task>>

\* The foreign key takes the connections with it.
DeleteTemplate(t) ==
    /\ Exists(template[t]) /\ t \notin SystemOnes
    /\ template' = [template EXCEPT ![t] = Removed]
    /\ link' = [c \in Connections |-> IF TemplateOf[c] = t /\ Exists(link[c]) THEN Removed ELSE link[c]]
    /\ told' = [x \in DOMAIN told |->
           IF x = t \/ (x \in Connections /\ TemplateOf[x] = t)
           THEN Deleted ELSE told[x]]
    /\ UNCHANGED <<clock, editor, task>>

ProbeTemplate(e, t) ==
    /\ editor[e].pc = "away" /\ Exists(template[t])
    /\ Asks(e, [pc |-> "probe", id |-> t, endpoint |-> template[t].endpoint])
    /\ UNCHANGED <<template, link, clock, task, told>>

\* UpdateManifest, unless the connection changed; no new version.
UpdateManifest(e) ==
    /\ editor[e].pc = "probe"
    /\ LET t == editor[e].id  probed == editor[e].endpoint IN
       \/ /\ Exists(template[t]) /\ template[t].endpoint = probed
          /\ template' = [template EXCEPT ![t].manifest = probed]
       \/ UNCHANGED template
    /\ Answers(e)
    /\ UNCHANGED <<link, clock, task, told>>

-----------------------------------------------------------------------------
\* An agent.  CreateAgentTools lists the enabled connections and asks the
\* server for its tools; the tool it keeps knows the configuration.

ListConnections(a, c) ==
    /\ task[a].pc = "away" /\ Exists(link[c]) /\ link[c].on /\ Usable(c, link[c])
    /\ \E tool \in ToolNames \ link[c].off :
          task' = [task EXCEPT ![a] =
              [pc |-> "holds", id |-> c, tool |-> tool, expected |-> Resolved(c, link[c])]]
    /\ UNCHANGED <<template, link, clock, editor, told>>

\* Mutant: the check compares the configuration and the switch of the connection,
\* but the tools that are off are those of the discovery.
Checked_NoTools(c, tool, expected) ==
    /\ Exists(link[c]) /\ link[c].on
    /\ Usable(c, link[c]) /\ Resolved(c, link[c]) = expected

\* The check before every call reads the connection again.
Checked(c, tool, expected) ==
    /\ Exists(link[c]) /\ link[c].on
    /\ tool \notin link[c].off
    /\ Usable(c, link[c]) /\ Resolved(c, link[c]) = expected

CallTool(a) ==
    /\ task[a].pc = "holds"
    /\ IF Checked(task[a].id, task[a].tool, task[a].expected)
       THEN task' = [task EXCEPT ![a].pc = "runs"]
       ELSE task' = [task EXCEPT ![a] = NoRequest]
    /\ UNCHANGED <<template, link, clock, editor, told>>

\* The call returns, and the agent may use the tool again or not.
CallReturns(a) ==
    /\ task[a].pc = "runs"
    /\ \/ task' = [task EXCEPT ![a].pc = "holds"]
       \/ task' = [task EXCEPT ![a] = NoRequest]
    /\ UNCHANGED <<template, link, clock, editor, told>>

McpNext ==
    \/ \E e \in Editors :
          \/ \E c \in Connections :
                \/ \E endpoint \in Endpoints, fields \in Credentials :
                      CreateConnection(e, c, endpoint, fields)
                \/ \E endpoint \in Endpoints : EditConnection(e, c, "endpoint", endpoint)
                \/ \E fields \in Credentials : EditConnection(e, c, "fields", fields)
                \/ \E on \in BOOLEAN : EditConnection(e, c, "on", on)
                \/ \E tool \in ToolNames, on \in BOOLEAN : SwitchTool(e, c, tool, on)
          \/ \E t \in Templates :
                \/ \E endpoint \in Endpoints : EditTemplate(e, t, "endpoint", endpoint)
                \/ \E schema \in Schemas : EditTemplate(e, t, "schema", schema)
                \/ \E on \in BOOLEAN : EditTemplate(e, t, "on", on)
                \/ ProbeTemplate(e, t)
          \/ InsertConnection(e) \/ ValidateConnection(e) \/ UpdateConnection(e)
          \/ SetToolEnabled(e) \/ UpdateTemplate(e) \/ UpdateManifest(e)
    \/ \E c \in Connections : DeleteConnection(c)
    \/ \E t \in Templates : DeleteTemplate(t)
    \/ \E a \in Tasks : (\E c \in Connections : ListConnections(a, c)) \/ CallTool(a) \/ CallReturns(a)

-----------------------------------------------------------------------------
LinkRow == [endpoint : Endpoints, fields : Credentials, on : BOOLEAN,
            off : SUBSET ToolNames, at : Nat]
TemplateRow == [endpoint : Endpoints, schema : Schemas, on : BOOLEAN, at : Nat,
                manifest : Endpoints \cup {Kept}]
ConnectionRequest ==
    [pc : {"insert"}, id : Connections, row : LinkRow]
    \cup [pc : {"validate", "update"}, id : Connections, row : LinkRow, checked : BOOLEAN]
    \cup [pc : {"switch"}, id : Connections, tool : ToolNames, on : BOOLEAN]
TemplateRequest ==
    [pc : {"template"}, id : Templates, row : TemplateRow]
    \cup [pc : {"probe"}, id : Templates, endpoint : Endpoints]
AgentTool == [pc : {"holds", "runs"}, id : Connections, tool : ToolNames,
              expected : [endpoint : Endpoints, fields : Credentials \cup {Kept}]]

\* The rows keep the shape the agents and the services read, and a connection
\* never outlives its template.
McpTypeOK ==
    /\ template \in [Templates -> TemplateRow \cup {NoRow, Removed}]
    /\ link \in [Connections -> LinkRow \cup {NoRow, Removed}]
    /\ clock \in 1 .. MaxEdits + 1
    /\ editor \in [Editors -> ConnectionRequest \cup TemplateRequest \cup {NoRequest}]
    /\ task \in [Tasks -> AgentTool \cup {NoRequest}]
    /\ told \in [Templates \cup Connections -> [on : BOOLEAN, off : SUBSET ToolNames]]
    /\ \A c \in Connections : Exists(link[c]) /\ TemplateOf[c] # Personal =>
          Exists(template[TemplateOf[c]])

\* What an answer said stays true until another request changes it: no
\* overlapping edit, whose row was read before, brings a switch back or
\* loses a tool that was switched off, and the tools that are off stay few
\* enough to be read.
AnswersHold ==
    /\ \A c \in Connections : Exists(link[c]) =>
          /\ link[c].on = told[c].on /\ link[c].off = told[c].off
          /\ Cardinality(link[c].off) <= MaxDisabled
    /\ \A t \in Templates : Exists(template[t]) => template[t].on = told[t].on

\* A call of a tool starts only if neither the tool nor its connection nor
\* the template was switched off or deleted before, however long ago the
\* agent discovered the tool.
PermittedCall ==
    \A a \in Tasks : task[a].pc = "holds" /\ task'[a].pc = "runs" =>
        LET c == task[a].id IN
        /\ told[c].on /\ task[a].tool \notin told[c].off
        /\ TemplateOf[c] # Personal => told[TemplateOf[c]].on

\* Why answers hold.  A row that was read before has the tools of the row that is
\* there, or another version; no version is used twice.
ReadsAreDated ==
    /\ \A c \in Connections : Exists(link[c]) => link[c].at < clock
    /\ \A t \in Templates : Exists(template[t]) => template[t].at < clock
    /\ \A e \in Editors :
          /\ editor[e].pc \in {"validate", "update"} =>
                /\ editor[e].row.at < clock
                /\ Exists(link[editor[e].id]) /\ link[editor[e].id].at = editor[e].row.at =>
                      editor[e].row.off = link[editor[e].id].off
          /\ editor[e].pc = "template" => editor[e].row.at < clock

\* A connection that is being created has not been there, and only one request
\* creates it.
InsertsAreNew ==
    /\ \A e \in Editors : editor[e].pc = "insert" =>
          /\ link[editor[e].id] = NoRow
          /\ editor[e].row.on /\ editor[e].row.off = {}
          /\ \A f \in Editors : editor[f].pc = "insert" /\ editor[f].id = editor[e].id => f = e
    /\ \A c \in Connections : link[c] = NoRow =>
          \/ told[c].off = {}
          \/ TemplateOf[c] # Personal /\ ~Exists(template[TemplateOf[c]])

\* The inductive invariant of the settings.
McpInv ==
    /\ McpTypeOK /\ AnswersHold /\ ReadsAreDated /\ InsertsAreNew
    /\ \A c \in Connections : Exists(link[c]) => IsFiniteSet(link[c].off)
=============================================================================
