-------------------------- MODULE DeployedTemplate --------------------------
(***************************************************************************)
(* An MCP template that is deployed with the program: every process that   *)
(* starts writes the one of its config.yaml (internal/app/mcp_loader.go),  *)
(* while administrators edit its limits and its switch                     *)
(* (internal/service/mcp_template_service.go, mcp_timeout_settings.go,     *)
(* internal/repository/mcp_template_repository.go).  McpConfig has the     *)
(* templates administrators make, and the users' connections.              *)
(***************************************************************************)
EXTENDS Naturals

CONSTANTS
    Starts,      \* processes
    InFile,      \* [Starts -> [url, limit]]: the template in the process's file
    Forms,       \* requests of administrators, side by side
    Limits,      \* timeouts they may choose
    MaxWrites    \* bound: writes of the row

Unset == "unset"
NoRow == [version |-> 0]
NoForm == [pc |-> "away"]

VARIABLES
    preset,      \* the row in mcp_templates
    up,          \* [Starts -> BOOLEAN]: the process has loaded its templates
    form,        \* the requests
    promised     \* history: what the last deployment and administrator wrote

presetVars == <<preset, up, form, promised>>

PresetInit ==
    /\ preset = NoRow
    /\ up = [p \in Starts |-> FALSE]
    /\ form = [f \in Forms |-> NoForm]
    /\ promised = [url |-> Unset, limit |-> Unset, on |-> TRUE]

Exists == preset # NoRow

\* Mutant: the limits of the file win.
Connection_FromFile(p) == [url |-> InFile[p].url, limit |-> InFile[p].limit, admin |-> FALSE]

\* systemMCPConnection: the file's, but the limits an administrator saved stay.
Connection(p) ==
    IF Exists /\ preset.admin
    THEN [url |-> InFile[p].url, limit |-> preset.limit, admin |-> TRUE]
    ELSE [url |-> InFile[p].url, limit |-> InFile[p].limit, admin |-> FALSE]

\* upsertSystemMCPTemplate, a transaction under a lock on the key and on the
\* row; a failure is logged and the start goes on.
LoadTemplate(p) ==
    /\ ~up[p]
    /\ \/ /\ LET c == Connection(p) IN
             preset' = [url |-> c.url, limit |-> c.limit, admin |-> c.admin,
                        on |-> Exists => preset.on, version |-> preset.version + 1]
          /\ promised' = [promised EXCEPT !.url = InFile[p].url]
       \/ UNCHANGED <<preset, promised>>
    /\ up' = [up EXCEPT ![p] = TRUE]
    /\ UNCHANGED form

\* The process starts again, with the same file.
StartAgain(p) ==
    /\ up[p] /\ up' = [up EXCEPT ![p] = FALSE]
    /\ UNCHANGED <<preset, form, promised>>

\* Update of the service: of a deployed template the limits or the switch.
OpenForm(f) ==
    /\ form[f].pc = "away" /\ Exists
    /\ \E new \in {[preset EXCEPT !.limit = l, !.admin = TRUE] : l \in Limits} \cup {[preset EXCEPT !.on = ~@]} :
          form' = [form EXCEPT ![f] = [pc |-> "save", row |-> new]]
    /\ UNCHANGED <<preset, up, promised>>

\* Mutant: the row is written whatever became of it.
SameVersion_Any(row) == TRUE

SameVersion(row) == preset.version = row.version

SaveForm(f) ==
    /\ form[f].pc = "save"
    /\ LET row == form[f].row IN
       IF SameVersion(row)
       THEN /\ preset' = [row EXCEPT !.version = preset.version + 1]
            /\ promised' = [promised EXCEPT !.limit = IF row.admin THEN row.limit ELSE @, !.on = row.on]
       ELSE UNCHANGED <<preset, promised>>
    /\ form' = [form EXCEPT ![f] = NoForm]
    /\ UNCHANGED up

PresetNext ==
    \/ /\ preset.version < MaxWrites
       /\ \/ \E p \in Starts : LoadTemplate(p) \/ StartAgain(p)
          \/ \E f \in Forms : OpenForm(f)
    \/ \E f \in Forms : SaveForm(f)

-----------------------------------------------------------------------------
PresetTypeOK ==
    Exists => preset.on \in BOOLEAN /\ preset.version \in 1 .. MaxWrites + 2

\* The limits and the switch an administrator saved stay over every start,
\* and a form that was read before a deployment does not bring its address
\* back.
TemplateStands ==
    Exists =>
        /\ preset.url = promised.url /\ preset.on = promised.on
        /\ promised.limit # Unset => preset.limit = promised.limit

\* Why it stands.  A form whose version is still that of the row shows the row but
\* for what it changes, and limits that were promised are an administrator's.
PresetRow(row) == row = [url |-> row.url, limit |-> row.limit, admin |-> row.admin,
                         on |-> row.on, version |-> row.version]
FormsAreDated ==
    /\ Exists => PresetRow(preset) /\ preset.version \in 1 .. MaxWrites /\ preset.admin \in BOOLEAN
    /\ DOMAIN form = Forms /\ DOMAIN up = Starts
    /\ \A f \in Forms : form[f] # NoForm =>
          LET row == form[f].row IN
          /\ form[f] = [pc |-> "save", row |-> row] /\ PresetRow(row) /\ Exists
          /\ row.on \in BOOLEAN /\ row.admin \in BOOLEAN
          /\ row.version \in 1 .. MaxWrites - 1 /\ row.version <= preset.version
          /\ SameVersion(row) => row.url = preset.url /\ (~row.admin => ~preset.admin)
          /\ SameVersion(row) /\ promised.limit # Unset /\ ~row.admin => row.limit = preset.limit

PromisesAreKept ==
    /\ promised = [url |-> promised.url, limit |-> promised.limit, on |-> promised.on]
    /\ promised.limit # Unset => Exists /\ preset.admin
    /\ ~Exists => promised.on
    /\ up \in [Starts -> BOOLEAN]

\* The inductive invariant of a deployed template.
PresetInv == PresetTypeOK /\ TemplateStands /\ FormsAreDated /\ PromisesAreKept
=============================================================================
