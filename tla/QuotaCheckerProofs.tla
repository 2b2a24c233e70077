------------------------- MODULE QuotaCheckerProofs -------------------------
(***************************************************************************)
(* Proofs about QuotaChecker, for every number of documents, checks,       *)
(* readers, every limit, window, lag, lead and number of evictions.        *)
(***************************************************************************)
EXTENDS QuotaChecker, FiniteSetTheorems, TLAPS

\* The clock has started, and every stamp in flight is within the lag and the
\* lead of Redis' clock.
ClockInv ==
    /\ now >= Start
    /\ \A r \in Requests : req[r].pc = "stamped" =>
          req[r].stamp + MaxLag >= now /\ req[r].stamp <= now + MaxLead
    /\ \A g \in Readers : reader[g].pc \in {"stamped", "counted"} =>
          reader[g].stamp + MaxLag >= now /\ reader[g].stamp <= now + MaxLead

\* A window's start is a stamp in range, and the counter, read now or by a
\* report, is within the quota.
StartInv ==
    /\ "first_access" \notin keys => firstAccess = 0
    /\ firstAccess <= now + MaxLead
    /\ openedAt <= now
    /\ count <= Limit
    /\ \A g \in Readers : reader[g].position <= Limit

\* Without evictions the keys share one fate: one expiry, one window after it
\* was opened.
WindowInv ==
    evictions = 0 =>
        /\ keys = {} \/ keys = Key
        /\ keys = {} => bloom = {} /\ count = 0
        /\ keys = {} /\ openedAt # 0 => now >= openedAt + Window
        /\ keys = Key => /\ bloom = granted
                         /\ \A k \in Key : expireAt[k] = openedAt + Window
                         /\ firstAccess + MaxLag >= openedAt
                         /\ openedAt # 0
        /\ keys # {} => bloom # {}
        /\ count = Cardinality(bloom)
        /\ Cardinality(granted) <= Limit

IInv ==
    /\ TypeOK
    /\ ClockInv
    /\ StartInv
    /\ WindowInv
    /\ CounterAlwaysExpires
    /\ ReportWithinBounds

-----------------------------------------------------------------------------
LEMMA IdleType ==
    Idle \in Check
BY QuotaAssumption DEF Idle, Check

LEMMA FilterFinite == ASSUME NEW S \in SUBSET Docs PROVE IsFiniteSet(S)
BY QuotaAssumption, FS_Subset

\* A set with one more document.
LEMMA AddDoc ==
    ASSUME NEW S \in SUBSET Docs, NEW d \in Docs
    PROVE  /\ Cardinality(S) \in Nat
           /\ d \notin S => Cardinality(S \cup {d}) = Cardinality(S) + 1
           /\ d \in S => S \cup {d} = S
           /\ Cardinality({d}) = 1
<1>1. IsFiniteSet(S)
  BY FilterFinite
<1>2. Cardinality(S) \in Nat /\ (d \notin S => Cardinality(S \cup {d}) = Cardinality(S) + 1)
  BY <1>1, FS_AddElement, FS_CardinalityType
<1>3. d \in S => S \cup {d} = S
  OBVIOUS
<1>4. Cardinality({d}) = 1
  BY FS_Singleton
<1>5. QED
  BY <1>2, <1>3, <1>4

LEMMA InitInv == Init => IInv
<1> SUFFICES ASSUME Init PROVE IInv
  OBVIOUS
<1> USE QuotaAssumption DEF Init, Start, NoExpiry
<1>1. TypeOK
  BY IdleType DEF TypeOK, NoReport, Report
<1>2. ClockInv
  BY DEF ClockInv, Idle, NoReport
<1>3. StartInv
  BY DEF StartInv, NoReport
<1>4. WindowInv
  BY FS_EmptySet DEF WindowInv, Key
<1>5. CounterAlwaysExpires /\ ReportWithinBounds
  BY DEF CounterAlwaysExpires, ReportWithinBounds, NoReport
<1>6. QED
  BY <1>1, <1>2, <1>3, <1>4, <1>5 DEF IInv

-----------------------------------------------------------------------------
(* Steps that leave the keys alone: a check or a reader moves.             *)

LEMMA SendCheckInv ==
    ASSUME IInv, NEW r \in Requests, NEW d \in Docs, NEW t \in Stamps, SendCheck(r, d, t)
    PROVE  IInv'
<1> USE QuotaAssumption DEF SendCheck, redisVars, history, IInv
<1>1. t \in Nat /\ t + MaxLag >= now /\ t <= now + MaxLead
  BY DEF Stamps, Start, ClockInv, TypeOK
<1>2. TypeOK'
  BY <1>1 DEF TypeOK, Check
<1>3. ClockInv'
  BY <1>1 DEF ClockInv, TypeOK, Check
<1>4. StartInv' /\ WindowInv' /\ CounterAlwaysExpires' /\ ReportWithinBounds'
  BY DEF StartInv, WindowInv, CounterAlwaysExpires, ReportWithinBounds
<1>5. QED
  BY <1>2, <1>3, <1>4

\* The answer arrives, or the check fails.
LEMMA AnswerInv ==
    ASSUME IInv, NEW r \in Requests, Answer(r) \/ CheckFails(r)
    PROVE  IInv'
<1> USE QuotaAssumption DEF Answer, CheckFails, redisVars, history, IInv
<1>1. TypeOK'
  BY DEF TypeOK, Check
<1>2. ClockInv'
  BY DEF ClockInv, TypeOK, Check
<1>3. StartInv' /\ WindowInv' /\ CounterAlwaysExpires' /\ ReportWithinBounds'
  BY DEF StartInv, WindowInv, CounterAlwaysExpires, ReportWithinBounds
<1>4. QED
  BY <1>1, <1>2, <1>3

\* What every branch of the script does to the checks in flight.
LEMMA RanFacts ==
    ASSUME TypeOK, NEW r \in Requests, NEW v \in BOOLEAN, Ran(r, v)
    PROVE  /\ req' \in [Requests -> Check]
           /\ \A q \in Requests : req'[q].pc = "stamped" => req'[q] = req[q]
           /\ req[r].doc \in Docs /\ req[r].stamp \in Nat
           /\ UNCHANGED <<now, reader, evictions>>
<1>1. req[r] \in Check
  BY DEF TypeOK
<1>2. [req[r] EXCEPT !.pc = "ran", !.allowed = v] \in Check
  BY <1>1 DEF Check
<1>3. req' = [req EXCEPT ![r] = [req[r] EXCEPT !.pc = "ran", !.allowed = v]]
  BY DEF Ran, TypeOK
<1>4. req'[r].pc = "ran"
  BY <1>1, <1>3 DEF TypeOK, Check
<1>5. QED
  BY <1>1, <1>2, <1>3, <1>4 DEF TypeOK, Check, Ran

\* The checks and readers in flight keep their place on the clock.
LEMMA RanClock ==
    ASSUME TypeOK, ClockInv, NEW r \in Requests, NEW v \in BOOLEAN, Ran(r, v)
    PROVE  ClockInv'
BY RanFacts DEF ClockInv

\* The script runs and changes no key.
LEMMA ReadOnlyScriptInv ==
    ASSUME IInv, NEW r \in Requests, SeenBefore(r) \/ Deny(r)
    PROVE  IInv'
<1>1. PICK v \in BOOLEAN : Ran(r, v)
  BY DEF SeenBefore, Deny
<1>2. UNCHANGED <<keys, expireAt, firstAccess, bloom, count, granted, openedAt>>
  BY DEF SeenBefore, Deny, redisVars, history
<1>3. TypeOK'
  BY <1>1, <1>2, RanFacts DEF TypeOK, IInv
<1>4. ClockInv'
  BY <1>1, RanClock DEF IInv
<1>5. UNCHANGED <<now, reader, evictions>>
  BY <1>1 DEF Ran
<1>6. StartInv' /\ WindowInv' /\ CounterAlwaysExpires' /\ ReportWithinBounds'
  BY <1>2, <1>5 DEF IInv, StartInv, WindowInv, CounterAlwaysExpires, ReportWithinBounds
<1>7. QED
  BY <1>3, <1>4, <1>6 DEF IInv

LEMMA StartStateInv ==
    ASSUME IInv, NEW g \in Readers, NEW t \in Stamps, StartState(g, t)
    PROVE  IInv'
<1> USE QuotaAssumption DEF StartState, redisVars, history, IInv
<1>1. t \in Nat /\ t + MaxLag >= now /\ t <= now + MaxLead
  BY DEF Stamps, Start, ClockInv, TypeOK
<1>2. TypeOK'
  <2>1. [pc |-> "stamped", stamp |-> t, position |-> 0, left |-> 0] \in Report
    BY <1>1 DEF Report
  <2>2. QED
    BY <2>1 DEF TypeOK
<1>3. ClockInv'
  BY <1>1 DEF ClockInv, TypeOK, Report
<1>4. StartInv' /\ WindowInv' /\ CounterAlwaysExpires' /\ ReportWithinBounds'
  BY DEF StartInv, WindowInv, CounterAlwaysExpires, ReportWithinBounds, TypeOK, Report
<1>5. QED
  BY <1>2, <1>3, <1>4

LEMMA ReadCountInv ==
    ASSUME IInv, NEW g \in Readers, ReadCount(g)
    PROVE  IInv'
<1> USE QuotaAssumption DEF ReadCount, redisVars, history, IInv
<1>1. TypeOK'
  <2>1. [reader[g] EXCEPT !.pc = "counted", !.position = count] \in Report
    BY DEF TypeOK, Report
  <2>2. QED
    BY <2>1 DEF TypeOK
<1>2. ClockInv'
  BY DEF ClockInv, TypeOK, Report
<1>3. StartInv' /\ WindowInv' /\ CounterAlwaysExpires' /\ ReportWithinBounds'
  BY DEF StartInv, WindowInv, CounterAlwaysExpires, ReportWithinBounds, TypeOK, Report
<1>4. QED
  BY <1>1, <1>2, <1>3

LEMMA ReportDone ==
    ASSUME NEW x \in Report, NEW n \in Nat
    PROVE  [x EXCEPT !.pc = "done", !.left = n] \in Report
BY DEF Report

\* The report: a stamp at most MaxLag behind Redis and a window start at most
\* MaxLead ahead of it.
LEMMA ReadFirstAccessInv ==
    ASSUME IInv, NEW g \in Readers, ReadFirstAccess(g)
    PROVE  IInv'
<1> USE QuotaAssumption DEF ReadFirstAccess, redisVars, history, IInv
<1> DEFINE left == SecondsUntilReset(reader[g].stamp, firstAccess)
<1>1. reader[g].stamp \in Nat /\ firstAccess \in Nat /\ now \in Nat
  BY DEF TypeOK, Report
<1>2. reader[g].stamp + MaxLag >= now /\ firstAccess <= now + MaxLead
  BY DEF ClockInv, StartInv
<1>3. left \in 1..(Window + MaxLag + MaxLead)
  BY <1>1, <1>2 DEF SecondsUntilReset
<1>4. TypeOK'
  <2>1. left \in Nat /\ reader[g] \in Report
    BY <1>3, QuotaAssumption DEF TypeOK
  <2>2. [reader[g] EXCEPT !.pc = "done", !.left = left] \in Report
    BY <2>1, ReportDone
  <2>3. QED
    BY <2>2 DEF TypeOK
<1>5. ClockInv'
  BY DEF ClockInv, TypeOK, Report
<1>6. \A f \in Readers : reader'[f].position = reader[f].position
  BY DEF TypeOK, Report
<1>7. StartInv' /\ WindowInv' /\ CounterAlwaysExpires'
  BY <1>6 DEF StartInv, WindowInv, CounterAlwaysExpires
<1>8. reader'[g].left = left /\ \A f \in Readers \ {g} : reader'[f] = reader[f]
  BY DEF TypeOK, Report
<1>9. ReportWithinBounds'
  BY <1>3, <1>7, <1>8 DEF ReportWithinBounds, StartInv
<1>10. QED
  BY <1>4, <1>5, <1>7, <1>9

-----------------------------------------------------------------------------
(* Steps that write the keys.                                              *)

LEMMA OpenWindowInv ==
    ASSUME IInv, NEW r \in Requests, OpenWindow(r)
    PROVE  IInv'
<1>1. Ran(r, TRUE)
  BY DEF OpenWindow
<1> DEFINE d == req[r].doc
           t == req[r].stamp
<1>2. d \in Docs /\ t \in Nat /\ now \in Nat /\ now >= Start
  BY <1>1, RanFacts DEF IInv, TypeOK, ClockInv
<1>3. t + MaxLag >= now /\ t <= now + MaxLead
  BY <1>1 DEF IInv, ClockInv, Ran
<1>4. /\ keys' = Key /\ firstAccess' = t /\ bloom' = {d} /\ count' = 1
      /\ expireAt' = [k \in Key |-> now + Window]
      /\ granted' = {d} /\ openedAt' = now
      /\ UNCHANGED <<now, reader, evictions>>
  BY <1>1 DEF OpenWindow, Ran, FreshExpiry
<1>5. TypeOK'
  <2>1. expireAt' \in [Key -> Nat]
    BY <1>2, <1>4, QuotaAssumption
  <2>2. req' \in [Requests -> Check]
    BY <1>1, RanFacts DEF IInv
  <2>3. QED
    BY <1>2, <1>4, <2>1, <2>2 DEF IInv, TypeOK
<1>6. ClockInv'
  BY <1>1, RanClock DEF IInv
<1>7. StartInv'
  BY <1>2, <1>3, <1>4, QuotaAssumption DEF IInv, StartInv, Key
<1>8. WindowInv'
  <2>1. Cardinality(bloom') = 1 /\ Cardinality(granted') = 1 /\ bloom' # {} /\ keys' # {}
    BY <1>4, FS_Singleton DEF Key
  <2>2. /\ keys' = Key /\ bloom' = granted' /\ count' = 1
        /\ \A k \in Key : expireAt'[k] = openedAt' + Window
        /\ firstAccess' + MaxLag >= openedAt' /\ openedAt' # 0
    BY <1>2, <1>3, <1>4, QuotaAssumption DEF Start
  <2>3. QED
    BY <2>1, <2>2, QuotaAssumption DEF WindowInv
<1>9. CounterAlwaysExpires' /\ ReportWithinBounds'
  BY <1>2, <1>4, QuotaAssumption
     DEF CounterAlwaysExpires, ReportWithinBounds, IInv, NoExpiry, Key
<1>10. QED
  BY <1>5, <1>6, <1>7, <1>8, <1>9 DEF IInv

LEMMA ChargeDocInv ==
    ASSUME IInv, NEW r \in Requests, ChargeDoc(r)
    PROVE  IInv'
<1>1. Ran(r, TRUE) /\ InWindow(r) /\ count < Limit
  <2>1. Ran(r, TRUE) /\ InWindow(r) /\ ~AtQuota
    BY DEF ChargeDoc
  <2>2. count \in Nat /\ Limit \in Nat
    BY QuotaAssumption DEF IInv, TypeOK
  <2>3. count < Limit
    BY <2>1, <2>2 DEF AtQuota
  <2>4. QED
    BY <2>1, <2>3
<1> DEFINE d == req[r].doc
           t == req[r].stamp
           ttl == now + (Window - (t - firstAccess))
<1>2. d \in Docs /\ t \in Nat /\ now \in Nat /\ count \in Nat /\ firstAccess \in Nat
  BY <1>1, RanFacts DEF IInv, TypeOK
<1>3. ttl \in Nat /\ ttl # NoExpiry
  BY <1>1, <1>2, QuotaAssumption DEF InWindow, WindowAge, NoExpiry
<1>4. /\ keys' = Key /\ bloom' = bloom \cup {d} /\ count' = count + 1
      /\ expireAt' = [expireAt EXCEPT !["count"] = IF @ = NoExpiry THEN ttl ELSE @]
      /\ granted' = granted \cup {d}
      /\ UNCHANGED <<firstAccess, openedAt, now, reader, evictions>>
  BY <1>1 DEF ChargeDoc, Ran, WindowAge, CounterExpiry
<1>5. TypeOK'
  <2>1. expireAt' \in [Key -> Nat]
    BY <1>3, <1>4 DEF IInv, TypeOK
  <2>2. keys' \subseteq Key /\ bloom' \subseteq Docs /\ granted' \subseteq Docs /\ count' \in Nat
    BY <1>2, <1>4 DEF IInv, TypeOK
  <2>3. req' \in [Requests -> Check]
    BY <1>1, RanFacts DEF IInv
  <2>4. QED
    BY <1>4, <2>1, <2>2, <2>3 DEF IInv, TypeOK
<1>6. ClockInv'
  BY <1>1, RanClock DEF IInv
<1>7. StartInv'
  BY <1>1, <1>2, <1>4, QuotaAssumption DEF IInv, StartInv, Key
<1>8. WindowInv'
  <2>1. SUFFICES ASSUME evictions = 0 PROVE WindowInv'
    BY <1>4 DEF WindowInv
  <2>2. keys = Key /\ bloom = granted /\ count = Cardinality(bloom) /\ openedAt # 0
    BY <1>1, <2>1 DEF IInv, WindowInv, InWindow
  <2>3. d \notin bloom
    BY <1>1 DEF ChargeDoc, FilterSays
  <2>4. Cardinality(bloom') = Cardinality(bloom) + 1
    BY <1>2, <1>4, <2>3, AddDoc DEF IInv, TypeOK
  <2>5. bloom' # {} /\ keys' # {}
    BY <1>4 DEF Key
  <2>6. expireAt' = expireAt
    BY <1>4, <2>1, <2>2 DEF IInv, WindowInv, TypeOK, Key, CounterAlwaysExpires
  <2>7. count' <= Limit
    BY <1>1, <1>2, <1>4, QuotaAssumption
  <2>8. bloom' = granted' /\ count' = Cardinality(bloom')
    BY <1>4, <2>2, <2>4
  <2>9. QED
    BY <1>4, <2>1, <2>2, <2>5, <2>6, <2>7, <2>8 DEF IInv, WindowInv
<1>9. CounterAlwaysExpires' /\ ReportWithinBounds'
  BY <1>3, <1>4 DEF CounterAlwaysExpires, ReportWithinBounds, IInv, TypeOK, Key
<1>10. QED
  BY <1>5, <1>6, <1>7, <1>8, <1>9 DEF IInv

\* Keys that disappear read as empty.
LEMMA DropFacts ==
    ASSUME TypeOK, NEW gone \in SUBSET Key, Drop(gone)
    PROVE  /\ keys' \subseteq Key /\ expireAt' \in [Key -> Nat]
           /\ firstAccess' \in Nat /\ bloom' \subseteq Docs /\ count' \in Nat
           /\ firstAccess' <= firstAccess
           /\ "count" \in keys' => "count" \in keys /\ expireAt'["count"] = expireAt["count"]
<1>1. expireAt' \in [Key -> Nat]
  BY DEF TypeOK, Drop, NoExpiry
<1>2. firstAccess' \in Nat /\ count' \in Nat /\ firstAccess' <= firstAccess
  BY DEF TypeOK, Drop
<1>3. bloom' \subseteq Docs /\ keys' \subseteq Key
  BY DEF TypeOK, Drop
<1>4. "count" \in keys' => "count" \in keys /\ expireAt'["count"] = expireAt["count"]
  BY DEF Drop, Key
<1>5. QED
  BY <1>1, <1>2, <1>3, <1>4 DEF Drop

LEMMA TickInv == ASSUME IInv, Tick PROVE IInv'
<1> DEFINE gone == Expired(now + 1)
<1>1. Drop(gone) /\ gone \in SUBSET Key
  BY DEF Tick, Expired, IInv, TypeOK
<1>2. now' = now + 1 /\ now \in Nat /\ UNCHANGED <<req, reader, evictions, granted, openedAt>>
  BY DEF Tick, IInv, TypeOK, history
<1>3. TypeOK'
  BY <1>1, <1>2, DropFacts DEF IInv, TypeOK
<1>4. ClockInv'
  <2>1. \A r \in Requests : req[r].pc = "stamped" => req[r].stamp + MaxLag > now
    BY DEF Tick
  <2>2. \A g \in Readers : reader[g].pc \in {"stamped", "counted"} => reader[g].stamp + MaxLag > now
    BY DEF Tick
  <2>3. \A r \in Requests : req[r].stamp \in Nat
    BY DEF IInv, TypeOK, Check
  <2>4. \A g \in Readers : reader[g].stamp \in Nat
    BY DEF IInv, TypeOK, Report
  <2>5. QED
    BY <1>2, <2>1, <2>2, <2>3, <2>4, QuotaAssumption DEF IInv, ClockInv, Start
<1>5. StartInv'
  BY <1>1, <1>2, QuotaAssumption DEF IInv, StartInv, TypeOK, Drop
<1>6. WindowInv'
  <2>1. SUFFICES ASSUME evictions = 0 PROVE WindowInv'
    BY <1>2 DEF WindowInv
  <2>2. CASE keys = {}
    <3>1. gone = {}
      BY <2>2 DEF Expired
    <3>2. UNCHANGED <<keys, bloom, count>>
      BY <1>1, <3>1 DEF Drop
    <3>3. QED
      BY <1>2, <2>1, <2>2, <3>2, QuotaAssumption DEF IInv, WindowInv, TypeOK, Key
  <2>3. CASE keys = Key /\ now + 1 < openedAt + Window
    <3>1. gone = {}
      BY <2>1, <2>3, <1>2, QuotaAssumption DEF Expired, IInv, WindowInv, TypeOK
    <3>2. UNCHANGED <<keys, bloom, count, firstAccess>>
      BY <1>1, <3>1 DEF Drop
    <3>3. expireAt' = expireAt
      BY <1>1, <3>1 DEF Drop, IInv, TypeOK
    <3>4. QED
      BY <1>2, <2>1, <2>3, <3>2, <3>3 DEF IInv, WindowInv, Key
  <2>4. CASE keys = Key /\ ~(now + 1 < openedAt + Window)
    <3>1. gone = Key
      BY <2>1, <2>4, <1>2, QuotaAssumption DEF Expired, IInv, WindowInv, TypeOK, NoExpiry
    <3>2. keys' = {} /\ bloom' = {} /\ count' = 0
      BY <1>1, <2>4, <3>1 DEF Drop, Key
    <3>3. Cardinality(bloom') = 0
      BY <3>2, FS_EmptySet
    <3>4. now' >= openedAt' + Window
      BY <1>2, <2>4, QuotaAssumption DEF IInv, TypeOK
    <3>5. QED
      BY <1>2, <2>1, <3>2, <3>3, <3>4, QuotaAssumption DEF IInv, WindowInv, Key
  <2>5. QED
    BY <2>1, <2>2, <2>3, <2>4 DEF IInv, WindowInv
<1>7. CounterAlwaysExpires' /\ ReportWithinBounds'
  BY <1>1, <1>2, DropFacts DEF IInv, CounterAlwaysExpires, ReportWithinBounds
<1>8. QED
  BY <1>3, <1>4, <1>5, <1>6, <1>7 DEF IInv

LEMMA EvictInv == ASSUME IInv, NEW k \in Key, Evict(k) PROVE IInv'
<1>1. Drop({k}) /\ {k} \in SUBSET Key
  BY DEF Evict
<1>2. evictions' = evictions + 1 /\ UNCHANGED <<now, req, reader, granted, openedAt>>
  BY DEF Evict, history
<1>3. TypeOK'
  BY <1>1, <1>2, DropFacts DEF IInv, TypeOK
<1>4. ClockInv'
  BY <1>2 DEF IInv, ClockInv
<1>5. StartInv'
  BY <1>1, <1>2, QuotaAssumption DEF IInv, StartInv, TypeOK, Drop
<1>6. WindowInv'
  BY <1>2 DEF IInv, TypeOK, WindowInv
<1>7. CounterAlwaysExpires' /\ ReportWithinBounds'
  BY <1>1, <1>2, DropFacts DEF IInv, CounterAlwaysExpires, ReportWithinBounds
<1>8. QED
  BY <1>3, <1>4, <1>5, <1>6, <1>7 DEF IInv

-----------------------------------------------------------------------------
(* The theorems.                                                           *)

LEMMA StepInv == IInv /\ [Next]_vars => IInv'
<1> SUFFICES ASSUME IInv, [Next]_vars PROVE IInv'
  OBVIOUS
<1>1. ASSUME NEW r \in Requests, NEW d \in Docs, NEW t \in Stamps, SendCheck(r, d, t) PROVE IInv'
  BY <1>1, SendCheckInv
<1>2. ASSUME NEW r \in Requests, RunScript(r) PROVE IInv'
  BY <1>2, OpenWindowInv, ReadOnlyScriptInv, ChargeDocInv DEF RunScript
<1>3. ASSUME NEW r \in Requests, Answer(r) \/ CheckFails(r) PROVE IInv'
  BY <1>3, AnswerInv
<1>4. ASSUME NEW g \in Readers, NEW t \in Stamps, StartState(g, t) PROVE IInv'
  BY <1>4, StartStateInv
<1>5. ASSUME NEW g \in Readers, ReadCount(g) PROVE IInv'
  BY <1>5, ReadCountInv
<1>6. ASSUME NEW g \in Readers, ReadFirstAccess(g) PROVE IInv'
  BY <1>6, ReadFirstAccessInv
<1>7. CASE Tick
  BY <1>7, TickInv
<1>8. ASSUME NEW k \in Key, Evict(k) PROVE IInv'
  BY <1>8, EvictInv
<1>9. CASE UNCHANGED vars
  BY <1>9 DEF vars, redisVars, history, IInv, TypeOK, ClockInv, StartInv, WindowInv,
              CounterAlwaysExpires, ReportWithinBounds
<1>10. QED
  BY <1>1, <1>2, <1>3, <1>4, <1>5, <1>6, <1>7, <1>8, <1>9 DEF Next

\* The inductive invariant holds in every reachable state.
THEOREM Invariance == Spec => []IInv
<1>1. QED
  BY InitInv, StepInv, PTL DEF Spec

\* Types, for every instance.
THEOREM TypeCorrect == Spec => []TypeOK
<1>1. IInv => TypeOK
  BY DEF IInv
<1>2. QED
  BY <1>1, Invariance, PTL

\* quotaCheck.lua never charges more than Limit documents in one window,
\* however the checks race and the clocks drift.
THEOREM QuotaRespected == Spec => []ChargedWithinLimit
<1>1. IInv => ChargedWithinLimit
  BY DEF IInv, WindowInv, ChargedWithinLimit
<1>2. QED
  BY <1>1, Invariance, PTL

\* The counter, the filter and the window start never disagree.
THEOREM KeysConsistent == Spec => []KeysAgree
<1>1. IInv => KeysAgree
  BY DEF IInv, WindowInv, KeysAgree
<1>2. QED
  BY <1>1, Invariance, PTL

\* The counter never loses its expiry, evictions included.
THEOREM CounterKeepsExpiry == Spec => []CounterAlwaysExpires
<1>1. IInv => CounterAlwaysExpires
  BY DEF IInv
<1>2. QED
  BY <1>1, Invariance, PTL

\* getState's reset time is within a window's length, up to clock error, and
\* its position within the quota.
THEOREM ReportBounded == Spec => []ReportWithinBounds
<1>1. IInv => ReportWithinBounds
  BY DEF IInv
<1>2. QED
  BY <1>1, Invariance, PTL

\* Two consecutive windows start a window apart, up to clock error.
THEOREM WindowsApart == Spec => WindowNotCutShort
<1> DEFINE Apart == openedAt' # openedAt /\ openedAt # 0
                       => evictions > 0 \/ openedAt' - openedAt >= Window - (MaxLag + MaxLead)
<1>1. ASSUME IInv, [Next]_vars, openedAt' # openedAt, openedAt # 0, ~(evictions > 0)
      PROVE  openedAt' - openedAt >= Window - (MaxLag + MaxLead)
  <2>1. PICK r \in Requests : OpenWindow(r)
    BY <1>1 DEF Next, vars, redisVars, history, SendCheck, RunScript, SeenBefore, Deny, ChargeDoc,
                Answer, CheckFails, StartState, ReadCount, ReadFirstAccess, Tick, Evict
  <2>2. evictions = 0 /\ openedAt \in Nat /\ now \in Nat /\ firstAccess \in Nat
    BY <1>1 DEF IInv, TypeOK
  <2>3. openedAt' = now /\ ~InWindow(r) /\ req[r].pc = "stamped"
    BY <2>1 DEF OpenWindow, Ran
  <2>4. req[r].stamp \in Nat /\ req[r].stamp <= now + MaxLead
    BY <1>1, <2>3 DEF IInv, TypeOK, Check, ClockInv
  <2>5. CASE keys = {}
    BY <1>1, <2>2, <2>3, <2>5, QuotaAssumption DEF IInv, WindowInv
  <2>6. CASE keys = Key
    <3>1. req[r].stamp - firstAccess >= Window
      BY <2>2, <2>3, <2>4, <2>6, QuotaAssumption DEF InWindow, WindowAge, Key
    <3>2. firstAccess + MaxLag >= openedAt
      BY <1>1, <2>2, <2>6 DEF IInv, WindowInv
    <3>3. QED
      BY <2>2, <2>3, <2>4, <3>1, <3>2, QuotaAssumption
  <2>7. QED
    BY <1>1, <2>2, <2>5, <2>6 DEF IInv, WindowInv
<1>2. IInv /\ [Next]_vars => [Apart]_vars
  BY <1>1
<1>3. QED
  BY <1>2, Invariance, PTL DEF Spec, WindowNotCutShort

\* A document charged in the running window is never denied.
THEOREM SeenAllowed == Spec => SeenStaysAllowed
<1> DEFINE Stays == \A r \in Requests :
                      req[r].pc = "stamped" /\ req'[r].pc = "ran" /\ ~req'[r].allowed
                          => evictions > 0 \/ req[r].doc \notin granted
<1>1. ASSUME IInv, [Next]_vars, NEW r \in Requests, req[r].pc = "stamped",
             req'[r].pc = "ran", ~req'[r].allowed, ~(evictions > 0)
      PROVE  req[r].doc \notin granted
  <2>1. req \in [Requests -> Check] /\ r \in Requests
    BY <1>1 DEF IInv, TypeOK
  <2>2. Deny(r)
    <3>1. ASSUME NEW q \in Requests, NEW d \in Docs, NEW t \in Stamps, SendCheck(q, d, t) PROVE FALSE
      BY <1>1, <2>1, <3>1 DEF SendCheck, Check
    <3>2. ASSUME NEW q \in Requests, Answer(q) \/ CheckFails(q) PROVE FALSE
      BY <1>1, <2>1, <3>2 DEF Answer, CheckFails, Check
    <3>3. ASSUME NEW q \in Requests, NEW v \in BOOLEAN, Ran(q, v) PROVE q = r /\ v = FALSE
      BY <1>1, <2>1, <3>3 DEF Ran, Check
    <3>4. ASSUME NEW q \in Requests, RunScript(q) PROVE Deny(r)
      BY <3>3, <3>4 DEF RunScript, OpenWindow, SeenBefore, ChargeDoc, Deny
    <3>5. req' # req
      BY <1>1
    <3>6. QED
      BY <1>1, <3>1, <3>2, <3>4, <3>5
         DEF Next, vars, StartState, ReadCount, ReadFirstAccess, Tick, Evict
  <2>3. evictions = 0 /\ keys = Key /\ bloom = granted
    BY <1>1, <2>2 DEF Deny, InWindow, IInv, TypeOK, WindowInv
  <2>4. QED
    BY <2>2, <2>3 DEF Deny, FilterSays
<1>2. IInv /\ [Next]_vars => [Stays]_vars
  BY <1>1
<1>3. QED
  BY <1>2, Invariance, PTL DEF Spec, SeenStaysAllowed

\* Every step charges a document, opens a window, ends one, or is a stutter of
\* the budget a user is promised, when Redis evicts nothing.
THEOREM ImplementsBudget == MaxEvictions = 0 /\ Spec => BudgetSpec
<1> SUFFICES ASSUME MaxEvictions = 0 PROVE Spec => BudgetSpec
  OBVIOUS
<1> DEFINE charged == IF keys = {} THEN {} ELSE granted
           NoEvict == evictions = 0
<1>1. Init => Budget!Init
  BY DEF Init, Budget!Init
<1>2. ASSUME IInv, NoEvict, [Next]_vars
      PROVE  [Budget!Next]_charged /\ NoEvict'
  <2>1. CASE \E r \in Requests : OpenWindow(r)
    <3>1. PICK r \in Requests : OpenWindow(r)
      BY <2>1
    <3>2. req[r].doc \in Docs /\ NoEvict'
      BY <1>2, <3>1, RanFacts DEF OpenWindow, Ran, IInv
    <3>3. Budget!Open(req[r].doc)
      BY <3>1 DEF OpenWindow, Key, Budget!Open
    <3>4. QED
      BY <3>2, <3>3 DEF Budget!Next
  <2>2. CASE \E r \in Requests : ChargeDoc(r)
    <3>1. PICK r \in Requests : ChargeDoc(r)
      BY <2>2
    <3>2. req[r].doc \in Docs /\ NoEvict'
      BY <1>2, <3>1, RanFacts DEF ChargeDoc, Ran, IInv
    <3>3. keys = Key /\ charged = granted /\ granted # {} /\ count = Cardinality(granted)
      BY <1>2, <3>1 DEF ChargeDoc, InWindow, IInv, WindowInv
    <3>4. Budget!Charge(req[r].doc)
      <4>1. Cardinality(charged) < Limit
        BY <1>2, <3>1, <3>3, QuotaAssumption DEF ChargeDoc, AtQuota, IInv, TypeOK
      <4>2. charged' = charged \cup {req[r].doc}
        BY <3>1, <3>3 DEF ChargeDoc, Key
      <4>3. charged # {}
        BY <3>3
      <4>4. Budget!Cardinality(charged) = Cardinality(charged)
        BY DEF Budget!Cardinality, Cardinality
      <4>5. QED
        BY <4>1, <4>2, <4>3, <4>4 DEF Budget!Charge
    <3>5. \E d \in Docs : Budget!Open(d) \/ Budget!Charge(d)
      BY <3>2, <3>4
    <3>6. Budget!Next
      BY <3>5 DEF Budget!Next
    <3>7. QED
      BY <3>2, <3>6
  <2>3. CASE Tick
    <3>1. Drop(Expired(now + 1)) /\ granted' = granted /\ evictions' = evictions
      BY <2>3 DEF Tick, history
    <3>2. keys' \subseteq keys /\ (keys' = {} \/ keys' = Key)
      BY <1>2, <2>3, <3>1, TickInv DEF Drop, IInv, WindowInv
    <3>3. charged' = {} \/ charged' = charged
      BY <3>1, <3>2
    <3>4. QED
      BY <1>2, <3>1, <3>3 DEF Budget!Next, Budget!Close
  <2>4. CASE UNCHANGED <<keys, granted, evictions>>
    BY <1>2, <2>4
  <2>5. ASSUME NEW k \in Key, Evict(k) PROVE FALSE
    BY <1>2, <2>5 DEF Evict
  <2>6. ASSUME NEW r \in Requests, RunScript(r) PROVE [Budget!Next]_charged /\ NoEvict'
    <3>1. CASE SeenBefore(r) \/ Deny(r)
      BY <2>4, <3>1 DEF SeenBefore, Deny, Ran, redisVars, history
    <3>2. QED
      BY <2>1, <2>2, <2>6, <3>1 DEF RunScript
  <2>7. QED
    BY <1>2, <2>3, <2>4, <2>5, <2>6
       DEF Next, vars, redisVars, history, SendCheck, Answer, CheckFails,
           StartState, ReadCount, ReadFirstAccess
<1>3. Init => NoEvict
  BY DEF Init
<1>4. IInv /\ NoEvict /\ [Next]_vars => [Budget!Next]_charged /\ NoEvict'
  BY <1>2
<1>5. QED
  BY <1>1, <1>3, <1>4, Invariance, PTL DEF Spec, BudgetSpec, Budget!Spec
=============================================================================
