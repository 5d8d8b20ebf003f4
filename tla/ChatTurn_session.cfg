\* Three messages, two questions, a crash or a failed update.
SPECIFICATION Spec
CONSTANTS
    MaxTurns = 3
    MaxCards = 2
    MaxFaults = 1
INVARIANTS
    CardsAreTrue
    NeverStuck
PROPERTIES
    NoRepeat
    ApprovalMatchesCard
    QuestionIsKept
CHECK_DEADLOCK FALSE
