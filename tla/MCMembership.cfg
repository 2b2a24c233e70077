\* Two calls at once, four in all (as registration, plan change, two overlapping ones), one failure;
\* registrations name a plan or leave it out.
SPECIFICATION FairSpec
CONSTANTS
    Callers = {c1, c2}
    basic = basic
    Plans = {basic, researcher}
    Wishes <- AnyWish
    MaxCalls = 4
    MaxFaults = 1
INVARIANTS TypeOK AccountComplete PendingOnItsWay AcceptedCounts SpecialAnnounced
PROPERTIES PendingHeard
CHECK_DEADLOCK FALSE
