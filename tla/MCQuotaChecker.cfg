\* Two checks racing over three documents, a quota of two and windows of
\* four seconds; clocks that lag and lead Redis by one second.
SPECIFICATION Spec
CONSTANTS
    Docs = {d1, d2, d3}
    Requests = {r1, r2}
    Readers = {}
    Limit = 2
    Window = 4
    MaxLag = 1
    MaxLead = 1
    MaxTime = 10
    MaxEvictions = 0
SYMMETRY RequestSymmetry
INVARIANTS KeysAgree ChargedWithinLimit
PROPERTIES SeenStaysAllowed WindowNotCutShort BudgetSpec
