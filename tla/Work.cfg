\* Two documents; in a plan a reading task, an operation of one dangerous call, two syntheses.
SPECIFICATION WorkSpec
CONSTANTS
    k = k
    o1 = o1
    s1 = s1
    s2 = s2
    c1 = c1
    read = read
    op = op
    sum = sum
    Tasks = {k, o1, s1, s2}
    Jobs = {read, op, sum}
    Synthesis = {sum}
    Operations = {op}
    Calls = {c1}
    Proposals <- ChainProposals
    MaxPlanTasks = 4
    MaxRounds = 3
    d1 = d1
    d2 = d2
    r1 = r1
    r2 = r2
    r3 = r3
    First = First
    Docs = {d1, d2}
    Requests = {r1, r2, r3}
    MaxFaults = 2
SYMMETRY Symmetry
INVARIANTS
    RecordsAgree
    PlansAreSound
    AnswerIsComplete
PROPERTIES
    HistoryStands
    DecisionsStand
CHECK_DEADLOCK FALSE
