------------------------- MODULE RateLimiterProofs -------------------------
(***************************************************************************)
(* Proofs about RateLimiter, for every capacity and every rational rate.   *)
(***************************************************************************)
EXTENDS RateLimiter, FiniteSetTheorems, TLAPS

\* What has been let through and is no longer in the bucket has leaked, and
\* leaked no faster than the rate.
LeakInv == (net - tokens) * RateDen <= RateNum * last_refreshed_sec

IInv == TypeOK /\ LeakInv

-----------------------------------------------------------------------------
(* Integer arithmetic.                                                     *)

LEMMA FloorBelow ==
    ASSUME NEW x \in Nat, NEW d \in Nat \ {0}
    PROVE  x \div d \in Nat /\ (x \div d) * d <= x
OBVIOUS

LEMMA Product ==
    ASSUME NEW a \in Nat, NEW b \in Nat
    PROVE  a * b \in Nat
OBVIOUS

LEMMA Distribute ==
    ASSUME NEW a \in Int, NEW b \in Int, NEW c \in Int
    PROVE  /\ (a + b) * c = a * c + b * c
           /\ (a - b) * c = a * c - b * c
           /\ c * (a - b) = c * a - c * b
OBVIOUS

LEMMA Monotone ==
    ASSUME NEW a \in Int, NEW b \in Int, NEW c \in Nat, a <= b
    PROVE  a * c <= b * c /\ c * a <= c * b
OBVIOUS

-----------------------------------------------------------------------------
(* The steps.                                                              *)

LEMMA LeakFacts ==
    ASSUME TypeOK
    PROVE  /\ leak_amount \in Nat
           /\ leak_amount * RateDen <= RateNum * (now - last_refreshed_sec)
           /\ remaining_tokens \in 0..Capacity
           /\ remaining_tokens >= tokens - leak_amount
           /\ new_tokens \in 0..Capacity
           /\ HasRoom => new_tokens = remaining_tokens + 1
           /\ ~HasRoom => new_tokens = tokens /\ leak_amount = 0
<1> DEFINE elapsed == now - last_refreshed_sec
<1>1. elapsed \in Nat /\ RateNum \in Nat /\ RateDen \in Nat \ {0} /\ Capacity \in Nat \ {0}
  BY RateAssumption DEF TypeOK
<1>2. elapsed * RateNum \in Nat /\ elapsed * RateNum = RateNum * elapsed
  BY <1>1, Product
<1>3. leak_amount \in Nat /\ leak_amount * RateDen <= RateNum * elapsed
  BY <1>1, <1>2, FloorBelow DEF leak_amount
<1>4. tokens \in 0..Capacity
  BY DEF TypeOK
<1>5. QED
  BY <1>1, <1>3, <1>4 DEF remaining_tokens, new_tokens, HasRoom

\* Putting a token keeps the account, whether there is room for it or not.
LEMMA PutTokenInv ==
    ASSUME TypeOK, LeakInv, PutToken
    PROVE  /\ tokens' \in 0..Capacity
           /\ last_refreshed_sec' = now
           /\ net' \in Int
           /\ (net' - tokens') * RateDen <= RateNum * last_refreshed_sec'
<1>1. /\ tokens \in 0..Capacity /\ net \in Int /\ now \in Nat /\ last_refreshed_sec \in 0..now
      /\ RateNum \in Nat /\ RateDen \in Nat \ {0} /\ Capacity \in Nat \ {0}
  BY RateAssumption DEF TypeOK
<1>2. tokens' = new_tokens /\ last_refreshed_sec' = now
  BY DEF PutToken
<1>3. net' = IF HasRoom THEN net + 1 ELSE net
  BY DEF PutToken
<1>4. net' \in Int /\ tokens' \in Int /\ net' - tokens' <= (net - tokens) + leak_amount
  BY <1>1, <1>2, <1>3, LeakFacts
<1>5. (net' - tokens') * RateDen <= ((net - tokens) + leak_amount) * RateDen
  BY <1>1, <1>4, LeakFacts, Monotone
<1>6. ((net - tokens) + leak_amount) * RateDen = (net - tokens) * RateDen + leak_amount * RateDen
  BY <1>1, LeakFacts, Distribute
<1>7. (net - tokens) * RateDen <= RateNum * last_refreshed_sec
  BY DEF LeakInv
<1>8. RateNum * (now - last_refreshed_sec) = RateNum * now - RateNum * last_refreshed_sec
  BY <1>1, Distribute
<1>9. RateNum * now \in Int /\ RateNum * last_refreshed_sec \in Int
  BY <1>1
<1>10. /\ (net' - tokens') * RateDen \in Int /\ (net - tokens) * RateDen \in Int
       /\ leak_amount * RateDen \in Int
  BY <1>1, <1>4, LeakFacts
<1>11. (net' - tokens') * RateDen <= RateNum * now
  BY <1>5, <1>6, <1>7, <1>8, <1>9, <1>10, LeakFacts
<1>12. QED
  BY <1>1, <1>2, <1>4, <1>11, LeakFacts

LEMMA TakeTokenInv ==
    ASSUME TypeOK, LeakInv, TakeToken
    PROVE  /\ tokens' \in 0..Capacity
           /\ net' \in Int
           /\ UNCHANGED last_refreshed_sec
           /\ LeakInv'
<1>1. tokens \in 0..Capacity /\ net \in Int /\ Capacity \in Nat
  BY RateAssumption DEF TypeOK
<1>2. net' - tokens' = net - tokens
  BY <1>1 DEF TakeToken
<1>3. QED
  BY <1>1, <1>2 DEF TakeToken, LeakInv

LEMMA GotoType ==
    ASSUME TypeOK, NEW r \in Requests, NEW p \in Places, Goto(r, p)
    PROVE  req' \in [Requests -> Places]
BY DEF Goto, TypeOK

LEMMA InitInv == Init => IInv
BY RateAssumption DEF Init, IInv, TypeOK, LeakInv, Places

LEMMA StepInv == IInv /\ [Next]_vars => IInv'
<1> SUFFICES ASSUME IInv, [Next]_vars PROVE IInv'
  OBVIOUS
<1> USE RateAssumption DEF IInv
<1>1. ASSUME NEW r \in Requests, Allow(r) PROVE IInv'
  <2>1. PutToken /\ UNCHANGED <<now, faults, served>>
    BY <1>1 DEF Allow
  <2>2. req' \in [Requests -> Places]
    BY <1>1, GotoType DEF Allow, Places
  <2>3. refused' \in 0..MaxRefused
    <3>1. refused \in 0..MaxRefused
      BY DEF TypeOK
    <3>2. refused' = refused \/ (refused' = refused + 1 /\ refused < MaxRefused)
      BY <1>1 DEF Allow
    <3>3. QED
      BY <3>1, <3>2
  <2>4. QED
    BY <2>1, <2>2, <2>3, PutTokenInv DEF TypeOK, LeakInv
<1>2. ASSUME NEW r \in Requests, AllowFails(r) PROVE IInv'
  <2>1. faults' \in 0..MaxFaults /\ UNCHANGED <<now, served, refused>>
    BY <1>2 DEF AllowFails, TypeOK
  <2>2. req' \in [Requests -> Places]
    BY <1>2, GotoType DEF AllowFails, Places
  <2>3. CASE PutToken
    BY <2>1, <2>2, <2>3, PutTokenInv DEF TypeOK, LeakInv
  <2>4. CASE UNCHANGED bucket
    BY <2>1, <2>2, <2>4 DEF TypeOK, LeakInv, bucket
  <2>5. QED
    BY <1>2, <2>3, <2>4 DEF AllowFails
<1>3. ASSUME NEW r \in Requests, Served(r) \/ HandlerFails(r) PROVE IInv'
  <2>1. UNCHANGED bucket /\ UNCHANGED <<now, faults, refused>>
    BY <1>3 DEF Served, HandlerFails
  <2>2. served' \in Nat
    <3>1. served \in Nat
      BY DEF TypeOK
    <3>2. served' = served + 1 \/ served' = served
      BY <1>3 DEF Served, HandlerFails
    <3>3. QED
      BY <3>1, <3>2
  <2>3. req' \in [Requests -> Places]
    BY <1>3, GotoType DEF Served, HandlerFails, Places
  <2>4. QED
    BY <2>1, <2>2, <2>3 DEF TypeOK, LeakInv, bucket
<1>4. ASSUME NEW r \in Requests, Undo(r) \/ UndoFails(r) PROVE IInv'
  <2>1. faults' \in 0..MaxFaults /\ UNCHANGED <<now, served, refused>>
    <3>1. faults \in 0..MaxFaults
      BY DEF TypeOK
    <3>2. /\ UNCHANGED <<now, served, refused>>
          /\ faults' = faults \/ (faults' = faults + 1 /\ faults < MaxFaults)
      BY <1>4 DEF Undo, UndoFails
    <3>3. QED
      BY <3>1, <3>2
  <2>2. req' \in [Requests -> Places]
    BY <1>4, GotoType DEF Undo, UndoFails, Places
  <2>3. CASE TakeToken
    BY <2>1, <2>2, <2>3, TakeTokenInv DEF TypeOK
  <2>4. CASE UNCHANGED bucket
    BY <2>1, <2>2, <2>4 DEF TypeOK, LeakInv, bucket
  <2>5. QED
    BY <1>4, <2>3, <2>4 DEF Undo, UndoFails
<1>5. CASE Tick
  BY <1>5 DEF Tick, TypeOK, LeakInv, bucket
<1>6. CASE UNCHANGED vars
  BY <1>6 DEF vars, TypeOK, LeakInv
<1>7. QED
  BY <1>1, <1>2, <1>3, <1>4, <1>5, <1>6 DEF Next

-----------------------------------------------------------------------------
(* The theorems.                                                           *)

\* Types: in particular the bucket never holds more than its capacity, and
\* never a negative number of tokens.
THEOREM TypeCorrect == Spec => []TypeOK
<1>1. IInv => TypeOK
  BY DEF IInv
<1>2. QED
  BY <1>1, InitInv, StepInv, PTL DEF Spec

\* The account of a bucket implies the bound on what was let through.
LEMMA LeakInvBounds == IInv => RateBound
<1> SUFFICES ASSUME IInv PROVE RateBound
  OBVIOUS
<1>1. /\ tokens \in 0..Capacity /\ net \in Int /\ now \in Nat /\ last_refreshed_sec \in 0..now
      /\ RateNum \in Nat /\ RateDen \in Nat \ {0} /\ Capacity \in Nat \ {0}
  BY RateAssumption DEF IInv, TypeOK
<1>2. (net - tokens) * RateDen = net * RateDen - tokens * RateDen
  BY <1>1, Distribute
<1>3. tokens * RateDen <= Capacity * RateDen
  BY <1>1, Monotone
<1>4. RateNum * last_refreshed_sec <= RateNum * now
  BY <1>1, Monotone
<1>5. /\ net * RateDen \in Int /\ tokens * RateDen \in Int /\ Capacity * RateDen \in Int
      /\ RateNum * last_refreshed_sec \in Int /\ RateNum * now \in Int
  BY <1>1
<1>6. QED
  BY <1>2, <1>3, <1>4, <1>5 DEF RateBound, LeakInv, IInv

\* The scripts and the hook let through, net of the tokens that rollbacks take,
\* at most one burst plus what the refill rate allows.
THEOREM BoundedRate == Spec => []RateBound
<1>1. QED
  BY LeakInvBounds, InitInv, StepInv, PTL DEF Spec

-----------------------------------------------------------------------------
(* Requests served.                                                        *)

InFlight == {r \in Requests : req[r] # "idle"}

\* Until a call is lost, every request in flight stands for a token that it put
\* and that is to be settled, or for one that it is to take without having put
\* one: a refused request's, which "refused" has set off against those served.
ServedInv == faults = 0 => (served - refused) + Cardinality(InFlight) <= net

\* A request enters the hook, stays in it or leaves it.
LEMMA GotoInFlight ==
    ASSUME TypeOK, NEW r \in Requests, NEW p \in Places, Goto(r, p)
    PROVE  /\ Cardinality(InFlight) \in Nat
           /\ Cardinality(InFlight') =
                  CASE req[r] = "idle" /\ p # "idle" -> Cardinality(InFlight) + 1
                    [] req[r] # "idle" /\ p = "idle" -> Cardinality(InFlight) - 1
                    [] OTHER -> Cardinality(InFlight)
<1>1. IsFiniteSet(InFlight) /\ Cardinality(InFlight) \in Nat
  BY RequestsAssumption, FS_Subset, FS_CardinalityType DEF InFlight
<1>2. req'[r] = p /\ \A q \in Requests \ {r} : req'[q] = req[q]
  BY DEF TypeOK, Goto
<1>3. r \in InFlight <=> req[r] # "idle"
  BY DEF InFlight
<1>4. CASE p # "idle"
  <2>1. InFlight' = InFlight \cup {r}
    BY <1>2, <1>4 DEF InFlight
  <2>2. Cardinality(InFlight') =
            IF r \in InFlight THEN Cardinality(InFlight) ELSE Cardinality(InFlight) + 1
    BY <1>1, <2>1, FS_AddElement
  <2>3. QED
    BY <1>1, <1>3, <1>4, <2>2
<1>5. CASE p = "idle"
  <2>1. InFlight' = InFlight \ {r}
    BY <1>2, <1>5 DEF InFlight
  <2>2. Cardinality(InFlight') =
            IF r \in InFlight THEN Cardinality(InFlight) - 1 ELSE Cardinality(InFlight)
    BY <1>1, <2>1, FS_RemoveElement
  <2>3. QED
    BY <1>1, <1>3, <1>5, <2>2
<1>6. QED
  BY <1>4, <1>5

LEMMA ServedInit == Init => ServedInv
<1> SUFFICES ASSUME Init PROVE ServedInv
  OBVIOUS
<1>1. InFlight = {} /\ net = 0 /\ served = 0 /\ refused = 0
  BY DEF Init, InFlight
<1>2. Cardinality(InFlight) = 0
  BY <1>1, FS_EmptySet
<1>3. QED
  BY <1>1, <1>2 DEF ServedInv

LEMMA ServedStep == IInv /\ ServedInv /\ [Next]_vars => ServedInv'
<1> SUFFICES ASSUME IInv, ServedInv, [Next]_vars, faults' = 0
             PROVE  (served' - refused') + Cardinality(InFlight') <= net'
  BY DEF ServedInv
<1> DEFINE here == Cardinality(InFlight)
<1> USE DEF Places
<1>1. /\ TypeOK /\ net \in Int /\ served \in Nat /\ refused \in Nat /\ faults \in Nat
      /\ tokens \in Nat
  BY RateAssumption DEF IInv, TypeOK
<1>2. faults = 0 => (served - refused) + here <= net
  BY DEF ServedInv
<1>3. ASSUME NEW r \in Requests, Allow(r)
      PROVE  (served' - refused') + here' <= net'
  <2>1. faults = 0 /\ served' = served /\ req[r] = "idle" /\ PutToken
    BY <1>3 DEF Allow
  <2>2. CASE HasRoom
    <3>1. Goto(r, "serving") /\ net' = net + 1 /\ refused' = refused
      BY <1>3, <2>1, <2>2 DEF Allow, PutToken
    <3>2. here \in Nat /\ here' = here + 1
      BY <1>1, <2>1, <3>1, GotoInFlight
    <3>3. QED
      BY <1>1, <1>2, <2>1, <3>1, <3>2
  <2>3. CASE ~HasRoom
    <3>1. Goto(r, "rollback") /\ net' = net /\ refused' = refused + 1
      BY <1>3, <2>1, <2>3 DEF Allow, PutToken
    <3>2. here \in Nat /\ here' = here + 1
      BY <1>1, <2>1, <3>1, GotoInFlight
    <3>3. QED
      BY <1>1, <1>2, <2>1, <3>1, <3>2
  <2>4. QED
    BY <2>2, <2>3
<1>4. ASSUME NEW r \in Requests, Served(r)
      PROVE  (served' - refused') + here' <= net'
  <2>1. /\ faults = 0 /\ served' = served + 1 /\ refused' = refused /\ net' = net
        /\ req[r] = "serving" /\ Goto(r, "idle")
    BY <1>4 DEF Served, bucket
  <2>2. here \in Nat /\ here' = here - 1
    BY <1>1, <2>1, GotoInFlight
  <2>3. QED
    BY <1>1, <1>2, <2>1, <2>2
<1>5. ASSUME NEW r \in Requests, HandlerFails(r)
      PROVE  (served' - refused') + here' <= net'
  <2>1. /\ faults = 0 /\ served' = served /\ refused' = refused /\ net' = net
        /\ req[r] = "serving" /\ Goto(r, "rollback")
    BY <1>5 DEF HandlerFails, bucket
  <2>2. here \in Nat /\ here' = here
    BY <1>1, <2>1, GotoInFlight
  <2>3. QED
    BY <1>1, <1>2, <2>1, <2>2
<1>6. ASSUME NEW r \in Requests, Undo(r)
      PROVE  (served' - refused') + here' <= net'
  <2>1. /\ faults = 0 /\ served' = served /\ refused' = refused
        /\ req[r] = "rollback" /\ Goto(r, "idle") /\ net' \in {net, net - 1}
    BY <1>6 DEF Undo, TakeToken
  <2>2. here \in Nat /\ here' = here - 1
    BY <1>1, <2>1, GotoInFlight
  <2>3. QED
    BY <1>1, <1>2, <2>1, <2>2
<1>7. ASSUME NEW r \in Requests, AllowFails(r) \/ UndoFails(r) PROVE FALSE
  <2>1. faults' = faults + 1
    BY <1>7 DEF AllowFails, UndoFails
  <2>2. QED
    BY <1>1, <2>1
<1>8. ASSUME Tick \/ UNCHANGED vars
      PROVE  (served' - refused') + here' <= net'
  <2>1. UNCHANGED <<faults, served, refused, net, req>>
    BY <1>8 DEF Tick, vars, bucket
  <2>2. InFlight' = InFlight
    BY <2>1 DEF InFlight
  <2>3. QED
    BY <1>2, <2>1, <2>2
<1>9. \/ \E r \in Requests : \/ Allow(r) \/ Served(r) \/ HandlerFails(r) \/ Undo(r)
                            \/ AllowFails(r) \/ UndoFails(r)
      \/ Tick \/ UNCHANGED vars
  BY DEF Next
<1>10. QED
  BY <1>3, <1>4, <1>5, <1>6, <1>7, <1>8, <1>9

LEMMA ServedInvBounds == IInv /\ ServedInv => ServedBound
<1> SUFFICES ASSUME IInv, ServedInv, faults = 0 PROVE ServedBound
  BY DEF ServedBound
<1>1. /\ net \in Int /\ served \in Nat /\ refused \in Nat /\ now \in Nat
      /\ RateNum \in Nat /\ RateDen \in Nat \ {0} /\ Capacity \in Nat \ {0}
  BY RateAssumption DEF IInv, TypeOK
<1>2. Cardinality(InFlight) \in Nat
  BY RequestsAssumption, FS_Subset, FS_CardinalityType DEF InFlight
<1>3. served - refused <= net
  BY <1>1, <1>2 DEF ServedInv
<1>4. (served - refused) * RateDen <= net * RateDen
  BY <1>1, <1>3, Monotone
<1>5. net * RateDen <= Capacity * RateDen + RateNum * now
  BY LeakInvBounds DEF RateBound
<1>6. /\ (served - refused) * RateDen \in Int /\ net * RateDen \in Int
      /\ Capacity * RateDen \in Int /\ RateNum * now \in Int
  BY <1>1
<1>7. QED
  BY <1>4, <1>5, <1>6 DEF ServedBound

\* While no call to Redis is lost, the requests served stay within a burst and
\* the rate but for one more for each request refused, whose rollback takes the
\* token of another one; a failed request's makes room for no more than its own.
THEOREM BoundedService == Spec => []ServedBound
<1>1. IInv /\ ServedInv /\ [Next]_vars => IInv' /\ ServedInv'
  BY StepInv, ServedStep
<1>2. Init => IInv /\ ServedInv
  BY InitInv, ServedInit
<1>3. QED
  BY <1>1, <1>2, ServedInvBounds, PTL DEF Spec
=============================================================================
