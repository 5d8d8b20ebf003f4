SPECIFICATION PoolSpec
CONSTANTS
    Callers = {c1, c2}
    Configs = {k1, k2}
    MaxEntries = 1
    MaxMade = 3
SYMMETRY Same
INVARIANTS
    PoolIsSound
    BorrowedStaysOpen
    LockNeverWaits
CHECK_DEADLOCK FALSE
