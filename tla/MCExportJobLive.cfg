\* One worker, up to three pages, the last one full or not, with two faults:
\* one fewer than attempts, one more than stalls.
SPECIFICATION FairSpec
CONSTANTS
    Workers = {w1}
    PageSize = 2
    Attempts = 3
    MaxStalls = 1
    MaxTotal = 5
    MaxExports = 1
    MaxFaults = 2
PROPERTIES FirstArchiveComplete ExportDelivered ExportEnds
CHECK_DEADLOCK FALSE
