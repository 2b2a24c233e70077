\* One getState call racing with one check across a window boundary, while
\* Redis drops up to two keys before their expiry.
SPECIFICATION Spec
CONSTANTS
    Docs = {d1, d2}
    Requests = {r1}
    Readers = {g1}
    Limit = 1
    Window = 3
    MaxLag = 1
    MaxLead = 1
    MaxTime = 7
    MaxEvictions = 2
INVARIANTS TypeOK ReportWithinBounds CounterAlwaysExpires
