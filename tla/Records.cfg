\* Eight parts, one at a time; their larger constants are in MCRecords.
SPECIFICATION Spec
CONSTANTS
    f1 = f1
    dir = dir
    Root = root
    Nodes = {f1, dir}
    ParentOf <- SpaceParent
    KindsOf <- SpaceKinds
    Importers = {p1, p2}
    SyncJobs = {j1}
    SyncedDocs = {x1, x2}
    NoDoc = NoDoc
    MaxVersions = 2
    MaxSyncFaults = 1
    u1 = u1
    u2 = u2
    u3 = u3
    n1 = n1
    i1 = i1
    Requests = {u1, u2, u3, n1, i1}
    RequestKind <- Kinds5
    FileName <- Names5
    Content <- Contents5
    SizeOf <- Sizes
    MaxStorage = 3
    Users = {alice, bob}
    Unions = {d1, d2}
    Exchanges = {e1, e2}
    States = {s1, s2}
    NoUnion = NoUnion
    Models = {"own", "shared", "new"}
    Shared = {"shared"}
    Existing <- Rows
    ConfigCalls = {q1, q2}
    Changes <- SomeChanges
    Capabilities = {"a"}
    Keep = keep
    Capacity = 1
    MaxCalls = 3
    Templates = {"files"}
    SystemOnes = {}
    TemplateOf <- Links
    Owner <- Owners
    Endpoints = {"u", "v"}
    Credentials = {"good"}
    Accepts <- SchemaAccepts
    ToolNames = {"read", "write"}
    MaxDisabled = 1
    Editors = {e1, e2}
    Tasks = {a1}
    MaxEdits = 3
    Starts = {"p", "q"}
    Declared <- MCDeclared
    Priors <- MCPriors
    NormalForm <- MCNormalForm
    Columns <- MCColumns
    Want <- MCWant
    InFile <- MCInFile
    Forms = {"f", "g"}
    Limits = {"b", "c"}
    MaxWrites = 4
    MaxRequests = 2
    MaxRounds = 3
INVARIANTS
    ImportedOnce
    FilesAreAccounted
    BindingIsExclusive
    ModelsAreVerified
PROPERTIES
    SwitchesHold
    StartIsSound
CHECK_DEADLOCK FALSE
