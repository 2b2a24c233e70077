\* Two overlapping calls, a query of two batches or one over the limit, and one
\* fault: fewer than attempts, but more than stalls.
SPECIFICATION FairSpec
CONSTANTS
    Ids = {c1}
    Callers = {u1, u2}
    PageSize = 1
    QueryLimit = 3
    Attempts = 2
    MaxStalls = 0
    MaxTotal = 4
    MaxCalls = 2
    MaxFaults = 1
INVARIANTS TypeOK DeletedHasRemoval DeletedEmptied BatchesAligned
PROPERTIES BatchesApplied
CHECK_DEADLOCK FALSE
