---------------------------- MODULE QuotaChecker ----------------------------
(***************************************************************************)
(* The per-user document quota: three Redis keys with a time to live, the  *)
(* Lua script quotaCheck.lua that reads and writes them atomically, the    *)
(* API processes that stamp a check with their own clock before sending    *)
(* it, the redaction hook that turns the answer (or the failure) of a      *)
(* check into "serve" or "redact", and getState, which reads two of the    *)
(* keys in two separate commands.  Keys are per user, so one user is       *)
(* modelled.  Time is in seconds and is Redis' clock.                      *)
(***************************************************************************)
EXTENDS Integers, FiniteSets

CONSTANTS
    Docs,          (* documents                                            *)
    Limit,         (* quotaLimit                                           *)
    Window,        (* windowSeconds                                        *)
    Requests,      (* checks that may be in flight at once                 *)
    Readers,       (* getState calls that may be in flight at once         *)
    MaxLag,        (* bound: seconds a stamp may be behind Redis' clock    *)
                   (* (command in flight, API clock behind)                *)
    MaxLead,       (* bound: seconds an API clock may be ahead of Redis    *)
    MaxTime,       (* bound: last instant of the model                     *)
    MaxEvictions   (* bound: keys Redis may drop before their expiry       *)

ASSUME QuotaAssumption ==
    /\ IsFiniteSet(Docs) /\ Docs # {}
    /\ Limit \in Nat \ {0}
    /\ Window \in Nat \ {0}
    /\ MaxLag \in Nat
    /\ MaxLead \in Nat
    /\ MaxTime \in Nat
    /\ MaxEvictions \in Nat

VARIABLES
    now,           (* Redis' clock                                         *)
    keys,          (* keys that exist; a missing key reads as 0 or {}      *)
    expireAt,      (* key -> expiry instant, NoExpiry when it has no TTL   *)
    firstAccess,   (* user:<id>:first_access                               *)
    bloom,         (* user:<id>:bloom, the documents added to it           *)
    count,         (* user:<id>:count                                      *)
    req,           (* checks in flight                                     *)
    reader,        (* getState calls in flight                             *)
    evictions,     (* keys dropped by Redis so far                         *)
    granted,       (* history: documents charged in the current window     *)
    openedAt       (* history: instant the current window was opened       *)

redisVars == <<keys, expireAt, firstAccess, bloom, count>>
history   == <<granted, openedAt>>
vars == <<now, redisVars, req, reader, evictions, history>>

Key == {"first_access", "bloom", "count"}

NoExpiry == 0

Start == MaxLag + 1          \* first instant, so that every stamp is positive

Idle == [pc |-> "idle", doc |-> CHOOSE d \in Docs : TRUE, stamp |-> 0, allowed |-> TRUE]

NoReport == [pc |-> "idle", stamp |-> 0, position |-> 0, left |-> 0]

Check == [pc : {"idle", "stamped", "ran", "done"}, doc : Docs, stamp : Nat, allowed : BOOLEAN]

Report == [pc : {"idle", "stamped", "counted", "done"}, stamp : Nat, position : Nat,
           left : Nat]

TypeOK ==
    /\ now \in Nat
    /\ keys \subseteq Key
    /\ expireAt \in [Key -> Nat]
    /\ firstAccess \in Nat
    /\ bloom \subseteq Docs
    /\ count \in Nat
    /\ req \in [Requests -> Check]
    /\ reader \in [Readers -> Report]
    /\ evictions \in Nat
    /\ granted \subseteq Docs
    /\ openedAt \in Nat

Init ==
    /\ now = Start
    /\ keys = {}
    /\ expireAt = [k \in Key |-> NoExpiry]
    /\ firstAccess = 0
    /\ bloom = {}
    /\ count = 0
    /\ req = [r \in Requests |-> Idle]
    /\ reader = [g \in Readers |-> NoReport]
    /\ evictions = 0
    /\ granted = {}
    /\ openedAt = 0

-----------------------------------------------------------------------------
(* The redaction hook and QuotaChecker.check                               *)

\* What an API process may read from its clock.
Stamps == (now - MaxLag)..(now + MaxLead)

\* A permitted document reaches the redaction hook: check() takes the time
\* and sends the script.
SendCheck(r, d, t) ==
    /\ req[r].pc \in {"idle", "done"}
    /\ t \in Stamps
    /\ req' = [req EXCEPT ![r] = [pc |-> "stamped", doc |-> d, stamp |-> t, allowed |-> TRUE]]
    /\ UNCHANGED <<now, redisVars, reader, evictions, history>>

\* Age of the window as the script computes it for this check.
WindowAge(r) == req[r].stamp - firstAccess

\* Mutant: the window's length is compared with the wrong argument.
InWindowOfLimitLength(r) == "first_access" \in keys /\ WindowAge(r) < Limit

InWindow(r) == "first_access" \in keys /\ WindowAge(r) < Window

\* Mutant: the last document of the quota is not recognised as such.
AtQuotaLate == count > Limit

AtQuota == count >= Limit

\* Mutants: a new window forgets the counter's EXPIRE, or cuts it short.
FreshExpiryWithoutCount == [k \in Key |-> IF k = "count" THEN NoExpiry ELSE now + Window]
FreshExpiryShortCount == [k \in Key |-> IF k = "count" THEN now + Window - 1 ELSE now + Window]

\* The three EXPIREs of a new window.
FreshExpiry == [k \in Key |-> now + Window]

\* Mutant: a counter created by INCR keeps no expiry.
CounterExpiryKept(r) == expireAt["count"]

\* The expiry of the counter after INCR: one created by INCR itself has none
\* and gets the rest of the window.
CounterExpiry(r) ==
    IF expireAt["count"] = NoExpiry THEN now + (Window - WindowAge(r)) ELSE expireAt["count"]

\* The script has run; its answer is on the way back.
Ran(r, verdict) ==
    /\ req[r].pc = "stamped"
    /\ req' = [req EXCEPT ![r].pc = "ran", ![r].allowed = verdict]
    /\ UNCHANGED <<now, reader, evictions>>

\* init_quota_window: first access, expired keys, or a window found to be over.
OpenWindow(r) ==
    /\ ~InWindow(r)
    /\ Ran(r, TRUE)
    /\ keys' = Key
    /\ expireAt' = FreshExpiry
    /\ firstAccess' = req[r].stamp
    /\ bloom' = {req[r].doc}
    /\ count' = 1
    /\ granted' = {req[r].doc}
    /\ openedAt' = now

\* Mutant: the quota is looked at before the filter.
FilterSaysAfterQuota(d) == IF AtQuota THEN {FALSE} ELSE {d \in bloom}

\* BF.EXISTS: never a false negative, a false positive on any filter that is
\* not empty.
FilterSays(d) == IF d \in bloom THEN {TRUE} ELSE IF bloom = {} THEN {FALSE} ELSE BOOLEAN

\* The filter knows the document: allowed, not counted.
SeenBefore(r) ==
    /\ InWindow(r)
    /\ TRUE \in FilterSays(req[r].doc)
    /\ Ran(r, TRUE)
    /\ UNCHANGED <<redisVars, history>>

\* New document, quota used up.
Deny(r) ==
    /\ InWindow(r)
    /\ FALSE \in FilterSays(req[r].doc)
    /\ AtQuota
    /\ Ran(r, FALSE)
    /\ UNCHANGED <<redisVars, history>>

\* New document under quota: BF.ADD, INCR and the counter's expiry.  A filter
\* that BF.ADD had to create gets no expiry.
ChargeDoc(r) ==
    /\ InWindow(r)
    /\ FALSE \in FilterSays(req[r].doc)
    /\ ~AtQuota
    /\ Ran(r, TRUE)
    /\ keys' = Key
    /\ bloom' = bloom \cup {req[r].doc}
    /\ count' = count + 1
    /\ expireAt' = [expireAt EXCEPT !["count"] = CounterExpiry(r)]
    /\ granted' = granted \cup {req[r].doc}
    /\ UNCHANGED <<firstAccess, openedAt>>

RunScript(r) == OpenWindow(r) \/ SeenBefore(r) \/ Deny(r) \/ ChargeDoc(r)

\* The answer reaches the hook: serve if allowed, redact if not.
Answer(r) ==
    /\ req[r].pc = "ran"
    /\ req' = [req EXCEPT ![r].pc = "done"]
    /\ UNCHANGED <<now, redisVars, reader, evictions, history>>

\* The check fails before or after the script ran (script or connection lost):
\* the hook logs the error and serves the document.
CheckFails(r) ==
    /\ req[r].pc \in {"stamped", "ran"}
    /\ req' = [req EXCEPT ![r].pc = "done", ![r].allowed = TRUE]
    /\ UNCHANGED <<now, redisVars, reader, evictions, history>>

-----------------------------------------------------------------------------
(* QuotaChecker.getState: a clock reading and two GETs                     *)

StartState(g, t) ==
    /\ reader[g].pc \in {"idle", "done"}
    /\ t \in Stamps
    /\ reader' = [reader EXCEPT ![g] = [pc |-> "stamped", stamp |-> t, position |-> 0, left |-> 0]]
    /\ UNCHANGED <<now, redisVars, req, evictions, history>>

\* First GET; the window may end or start before the second one.
ReadCount(g) ==
    /\ reader[g].pc = "stamped"
    /\ reader' = [reader EXCEPT ![g].pc = "counted", ![g].position = count]
    /\ UNCHANGED <<now, redisVars, req, evictions, history>>

\* Mutants: the report of a window that is over, and of its last second.
SecondsUntilResetUnchecked(t, first) == IF first > 0 THEN Window - (t - first) ELSE Window
SecondsUntilResetLate(t, first) ==
    IF first > 0 /\ t - first <= Window THEN Window - (t - first) ELSE Window

\* secondsUntilReset for a clock reading t and a first_access value first.
SecondsUntilReset(t, first) ==
    IF first > 0 /\ t - first < Window THEN Window - (t - first) ELSE Window

\* Second GET and the report.
ReadFirstAccess(g) ==
    /\ reader[g].pc = "counted"
    /\ reader' = [reader EXCEPT ![g].pc = "done",
                                ![g].left = SecondsUntilReset(reader[g].stamp, firstAccess)]
    /\ UNCHANGED <<now, redisVars, req, evictions, history>>

-----------------------------------------------------------------------------
(* Redis: the clock, expiry and eviction                                   *)

\* The keys in "gone" disappear.
Drop(gone) ==
    /\ keys' = keys \ gone
    /\ expireAt' = [k \in Key |-> IF k \in gone THEN NoExpiry ELSE expireAt[k]]
    /\ firstAccess' = IF "first_access" \in gone THEN 0 ELSE firstAccess
    /\ bloom' = IF "bloom" \in gone THEN {} ELSE bloom
    /\ count' = IF "count" \in gone THEN 0 ELSE count

Expired(t) == {k \in keys : expireAt[k] # NoExpiry /\ expireAt[k] <= t}

\* One second passes; no stamp in flight falls more than MaxLag behind.
Tick ==
    /\ now < MaxTime
    /\ \A r \in Requests : req[r].pc = "stamped" => req[r].stamp + MaxLag > now
    /\ \A g \in Readers : reader[g].pc \in {"stamped", "counted"} => reader[g].stamp + MaxLag > now
    /\ now' = now + 1
    /\ Drop(Expired(now + 1))
    /\ UNCHANGED <<req, reader, evictions, history>>

\* Redis drops a key under memory pressure.
Evict(k) ==
    /\ evictions < MaxEvictions
    /\ k \in keys
    /\ Drop({k})
    /\ evictions' = evictions + 1
    /\ UNCHANGED <<now, req, reader, history>>

-----------------------------------------------------------------------------
Next ==
    \/ \E r \in Requests : \/ \E d \in Docs, t \in Stamps : SendCheck(r, d, t)
                           \/ RunScript(r)
                           \/ Answer(r)
                           \/ CheckFails(r)
    \/ \E g \in Readers : \/ \E t \in Stamps : StartState(g, t)
                          \/ ReadCount(g)
                          \/ ReadFirstAccess(g)
    \/ Tick
    \/ \E k \in Key : Evict(k)

Spec == Init /\ [][Next]_vars

-----------------------------------------------------------------------------
(* Properties                                                              *)

\* The three keys live and die together and the counter is the number of
\* documents in the filter, unless Redis evicted a key: neither the expiries
\* nor the reset of a window lets one of them survive the others.
KeysAgree ==
    evictions = 0 =>
        /\ keys = {} \/ keys = Key
        /\ count = Cardinality(bloom)
        /\ keys = Key => bloom = granted

\* "Allow up to N unique document accesses per user per time window": whatever
\* checks race, at most Limit documents are charged in one window.
ChargedWithinLimit == evictions = 0 => Cardinality(granted) <= Limit

\* "Previously seen documents always allowed": the script never denies a
\* document charged earlier in the window that is still running.
SeenStaysAllowed ==
    [][\A r \in Requests :
          req[r].pc = "stamped" /\ req'[r].pc = "ran" /\ ~req'[r].allowed
              => evictions > 0 \/ req[r].doc \notin granted]_vars

\* A window is not cut short: however stale or fast the stamps of the checks
\* that open two consecutive windows are, they are a window apart, up to the
\* delay and drift of the clocks.
WindowNotCutShort ==
    [][openedAt' # openedAt /\ openedAt # 0
          => evictions > 0 \/ openedAt' - openedAt >= Window - (MaxLag + MaxLead)]_vars

\* Even after an eviction the counter always carries an expiry, so that no
\* count outlives its window for ever.
CounterAlwaysExpires == "count" \in keys => expireAt["count"] # NoExpiry

\* getState reads the counter of one window and, maybe, the start of the next,
\* by a clock of its own.  Even so, and whatever Redis evicted, it reports a
\* position within the quota and a reset within a window's length, up to clock
\* error, never in the past.
ReportWithinBounds ==
    \A g \in Readers :
        reader[g].pc = "done" =>
            /\ reader[g].left \in 1..(Window + MaxLag + MaxLead)
            /\ reader[g].position <= Limit

-----------------------------------------------------------------------------
(* The promise implemented: the documents charged in the live window.      *)
Budget == INSTANCE QuotaBudget WITH charged <- IF keys = {} THEN {} ELSE granted

BudgetSpec == Budget!Spec
=============================================================================
