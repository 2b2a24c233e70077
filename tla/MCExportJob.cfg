\* One export of up to three pages on two workers, with two faults.
SPECIFICATION Spec
CONSTANTS
    Workers = {w1, w2}
    PageSize = 1
    Attempts = 2
    MaxStalls = 1
    MaxTotal = 3
    MaxExports = 1
    MaxFaults = 2
SYMMETRY WorkerSymmetry
INVARIANTS TypeOK WrittenBeforeQueued AttachedExact RepeatsBounded
PROPERTIES PromiseSpec
CHECK_DEADLOCK FALSE
