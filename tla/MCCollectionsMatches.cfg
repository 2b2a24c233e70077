SPECIFICATION Spec
CONSTANTS
    Ids = {c1}
    Callers = {u1}
    PageSize = 1
    QueryLimit = 3
    Attempts = 2
    MaxStalls = 1
    MaxTotal = 3
    MaxCalls = 1
    MaxFaults = 0
INVARIANTS
    AllMatchesPublished
CHECK_DEADLOCK FALSE
