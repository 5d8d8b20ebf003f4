\* A pending task is made an operation after another operation failed.
SPECIFICATION DeepSpec
CONSTANTS
    k = k
    o1 = o1
    s1 = s1
    s2 = s2
    c1 = c1
    read = read
    op = op
    sum = sum
    Tasks = {k, o1, s1, s2}
    Jobs = {read, op, sum}
    Synthesis = {sum}
    Operations = {op}
    Calls = {c1}
    Proposals <- ChainProposals
    MaxPlanTasks = 4
    MaxRounds = 3
PROPERTIES
    NoSubstituteForSideEffect
CHECK_DEADLOCK FALSE
