\* One question, two messages that both approve it.
SPECIFICATION Spec
CONSTANTS
    MaxTurns = 3
    MaxCards = 1
    MaxFaults = 0
INVARIANT ApprovedOnce
CHECK_DEADLOCK FALSE
