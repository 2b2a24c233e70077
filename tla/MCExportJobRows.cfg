SPECIFICATION Spec
CONSTANTS
    Workers = {w1}
    PageSize = 1
    Attempts = 2
    MaxStalls = 1
    MaxTotal = 2
    MaxExports = 1
    MaxFaults = 1
INVARIANTS
    AttachedHoldsEveryRow
CHECK_DEADLOCK FALSE
