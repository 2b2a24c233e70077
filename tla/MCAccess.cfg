\* Two bits, a plain and a joined query, a token and a request; rights change
\* once.  The web app reads the user from the database, the public API does not.
SPECIFICATION Spec
CONSTANTS
    Bits = {guest, plan}
    GuestBit = guest
    Queries = {item, joined}
    Joined = {joined}
    UserBitmaps <- PlanBitmaps
    ItemBitmaps <- RestrictedBitmaps
    Sessions = {s1}
    Requests = {r1}
    UseDbUser = {"app"}
    TokenLife = 2
    CacheLife = 1
    Delay = 1
    MaxTime = 5
    MaxChanges = 1
INVARIANTS TypeOK
PROPERTIES FullOnlyIfGranted RedactedOnlyIfDenied
CHECK_DEADLOCK FALSE
