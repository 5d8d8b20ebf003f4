\* One document, two requests, no fault.
SPECIFICATION Spec
CONSTANTS
    d1 = d1
    d2 = d2
    r1 = r1
    r2 = r2
    r3 = r3
    First = First
    Docs = {d1}
    Requests = {r1, r2}
    MaxFaults = 0
SYMMETRY Symmetry
INVARIANT IndexIsLatestVersion
CHECK_DEADLOCK FALSE
