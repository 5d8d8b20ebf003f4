\* Six parts, one at a time; the constants of the last two are in MCServices.
SPECIFICATION Spec
CONSTANTS
    Catalogue <- MCCatalogue
    Kbs = {"k1", "k2"}
    Connections = {"mcp_read", "mcp_delete"}
    Patterned = {"mcp_delete"}
    Documents <- MCDocuments
    Plan <- MCPlan
    Review = "review"
    Vocabulary = {1, 2}
    Offsets = {0, 2}
    Limits = {3}
    Allowances = {2, 20}
    MaxPages = 2
    Requests = {r1, r2}
    Names = {"ann"}
    Mails = {"a", "b"}
    Models = {"m1"}
    MaxUsers = 1
    MaxWrites = 2
    Users = {"u1", "u2"}
    Life = 3
    MaxTokens = 3
    MaxTime = 6
    Configured = 2
    MaxRetries = 1
    Dangerous = {"delete", "publish"}
    Batches <- MCBatches
    Texts = {"word", "space", "paragraph"}
    MaxPauses = 2
    DependsOn <- MCDependsOn
    Order <- MCOrder
    MaxCards = 3
SYMMETRY Symmetry
INVARIANTS
    ToolsAreBounded
    ReadingIsHonest
    WithdrawnStaysWithdrawn
    OnlyApprovedRuns
    AnswerIsWhole
    LegacyIsResumable
CHECK_DEADLOCK FALSE
