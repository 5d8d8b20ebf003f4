\* Seven parts, one at a time.
SPECIFICATION Spec
CONSTANTS
    Slots = {s1, s2}
    OldSessions <- MCOldSessions
    MinMessages = 6
    TailKeep = 3
    MinSegment = 2
    MaxRecent = 7
    RecallTopK = 2
    Budgets = {3, 12}
    Tokens <- MCTokens
    CutMin = 5
    MarkTokens = 1
    TailSpare = 4
    LabelTokens = 1
    Attempts = 2
    MaxMessages = 10
    Place <- MCPlace
    Scores = {0, 40, 80}
    Threshold = 50
    KeywordFloor = 30
    RerankFloor = 50
    TopK = 2
    TopN = 2
    Multiplier = 1
    Retries = 2
    Window = 1
    MaxSize = 10
    DedupeAt = 80
    Alphabets <- MCAlphabets
    MaxParts = 5
    MaxPending = 30
    MaxUnits = 2
    MaxFragment = 13
    \* The messages of a run.
    ModelWindow = 24
    Output = 6
    Margin = 2
    MinOutput = 2
    SoftTenths = 8
    TargetTenths = 6
    SummaryInput = 14
    SummaryMaxCalls = 2
    Large = 5
    UserBytes = 20
    MaxRounds = 3
    MaxPairs = 2
    \* Texts of up to four pieces, at the edges of a piece; an answer may have the vectors of another dimension.
    Lengths = {0, 1, 4, 5, 7, 8, 10, 11}
    Target = 4
    Overlap = 1
    BatchSizes = {1, 2}
    Dimensions = {0, 1, 2}
    \* Room for one of two texts.
    Texts = {"s", "t"}
    Callers = {"p", "q"}
    Capacity = 1
    Share = 1
    MaxAsks = 4
    MaxLost = 1
SYMMETRY Symmetry
INVARIANTS
    ContextsAreSound
    HitsAreRanked
    ShownIsTheAnswer
    RequestsAreWhole
    VectorsAreTrue
PROPERTIES
    SummariesGrow
CHECK_DEADLOCK FALSE
