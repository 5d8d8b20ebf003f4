\* Two messages, two processes of one loop each, two stops and one backfill.
SPECIFICATION Spec
CONSTANTS
    m1 = m1
    m2 = m2
    p1 = p1
    p2 = p2
    Messages = {m1, m2}
    Processes = {p1, p2}
    Concurrency = 1
    MaxAttempts = 2
    MaxStops = 2
    MaxBackfills = 1
SYMMETRY Symmetry
INVARIANTS
    QueueIsConsistent
    AtMostOneHolder
    VectorOfLatestClaim
PROPERTIES
    KeepsPromise
