\* Four requests in flight on a bucket of three, two tokens every three seconds,
\* three refusals and two lost calls to Redis.
SPECIFICATION Spec
CONSTANTS
    Requests = {r1, r2, r3, r4}
    Capacity = 3
    RateNum = 2
    RateDen = 3
    MaxTime = 12
    MaxRefused = 3
    MaxFaults = 2
SYMMETRY RequestSymmetry
INVARIANTS TypeOK RateBound ServedBound
CHECK_DEADLOCK FALSE
