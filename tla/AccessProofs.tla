---------------------------- MODULE AccessProofs ----------------------------
(***************************************************************************)
(* Proofs about Access: for every set of bits, users' and items' bitmaps,  *)
(* lives of tokens and of cache entries, and any number of requests.       *)
(***************************************************************************)
EXTENDS Access, TLAPS

\* The bits R are what the user held at some instant from t on: each was held
\* then, and the others were not held throughout.
UserSays(R, t) ==
    /\ \A b \in R : HeldSince(b, t)
    /\ \A b \in Bits \ R : ~HeldThroughout(b, t)

\* The same of the bits D and the item that query q finds.
ItemSays(q, D, t) ==
    /\ \A b \in D : OpenSince(q, b, t)
    /\ \A b \in Bits \ D : ~OpenThroughout(q, b, t)

SessionInv ==
    \A s \in Sessions :
        /\ session[s].pc = "loaded" => /\ now <= session[s].at + Delay
                                       /\ UserSays(session[s].rights, session[s].at)
        /\ session[s].pc = "issued" => UserSays(session[s].rights, session[s].at - Delay)

CacheInv ==
    \A q \in Queries :
        Cached(q) => /\ q \notin Joined
                     /\ ItemSays(q, cache[q].rights, cache[q].until - CacheLife - Delay)

UserInv(r) ==
    IF req[r].guest THEN req[r].rights = {GuestBit}
    ELSE UserSays(req[r].rights, req[r].at - RightsAge(req[r].in))

ItemInv(r) ==
    /\ req[r].pc = "fetch" => ItemSays(req[r].query, req[r].doc, req[r].at)
    /\ req[r].pc \in {"redact", "quota"} =>
           ItemSays(req[r].query, req[r].doc, req[r].at - ItemAge(req[r].query))
    /\ req[r].pc = "quota" => HasPermission(r) /\ req[r].in = "api"

RequestInv ==
    \A r \in Requests : Pending(r) => now <= req[r].at + Delay /\ UserInv(r) /\ ItemInv(r)

IInv == TypeOK /\ SessionInv /\ CacheInv /\ RequestInv

-----------------------------------------------------------------------------
(* The types of the parts, one by one.                                     *)

LEMMA Numbers ==
    /\ TokenLife \in Nat /\ CacheLife \in Nat /\ Delay \in Nat
    /\ MaxTime \in Nat /\ MaxChanges \in Nat
    /\ Never \in Int /\ Never < 0
    /\ \A d : RightsAge(d) \in Nat
    /\ \A q : ItemAge(q) \in Nat
BY AccessAssumption DEF AccessAssumption, Never, RightsAge, ItemAge

LEMMA Parts ==
    ASSUME TypeOK
    PROVE  /\ now \in Nat
           /\ rights \subseteq Bits /\ Held \subseteq Bits
           /\ \A q \in Queries : /\ index[q] \subseteq Bits
                                 /\ cache[q].rights \subseteq Bits
                                 /\ cache[q].until \in Int /\ cache[q].until <= now + CacheLife
           /\ \A s \in Sessions : /\ session[s].rights \subseteq Bits
                                  /\ session[s].at \in Nat /\ session[s].at <= now
           /\ \A r \in Requests : /\ req[r].query \in Queries
                                  /\ req[r].rights \subseteq Bits /\ req[r].doc \subseteq Bits
                                  /\ req[r].at \in Nat /\ req[r].at <= now
           /\ \A b \in Bits : /\ gained[b] \in Int /\ gained[b] <= now
                              /\ lost[b] \in Int /\ lost[b] <= now
           /\ \A q \in Queries, b \in Bits : /\ opened[q][b] \in Int /\ opened[q][b] <= now
                                             /\ closed[q][b] \in Int /\ closed[q][b] <= now
BY Numbers DEF TypeOK, Held

-----------------------------------------------------------------------------
(* What was said of an instant holds from an earlier one on, and stays     *)
(* said when rights change later.                                          *)

LEMMA UserSaysEarlier ==
    ASSUME TypeOK, NEW R \in SUBSET Bits, NEW t \in Int, NEW u \in Int, u <= t, UserSays(R, t)
    PROVE  UserSays(R, u)
BY Parts DEF UserSays, HeldSince, HeldThroughout

LEMMA ItemSaysEarlier ==
    ASSUME TypeOK, NEW q \in Queries, NEW D \in SUBSET Bits,
           NEW t \in Int, NEW u \in Int, u <= t, ItemSays(q, D, t)
    PROVE  ItemSays(q, D, u)
BY Parts DEF ItemSays, OpenSince, OpenThroughout

LEMMA UserSaysNow ==
    ASSUME TypeOK, active
    PROVE  UserSays(rights, now)
BY Parts DEF UserSays, HeldSince, HeldThroughout, Held

LEMMA ItemSaysNow ==
    ASSUME TypeOK, NEW q \in Queries, NEW t \in Int, t <= now
    PROVE  ItemSays(q, index[q], t)
BY Parts DEF ItemSays, OpenSince, OpenThroughout

LEMMA UserSaysKept ==
    ASSUME TypeOK, NEW a \in BOOLEAN, NEW B \in SUBSET Bits, SetUser(a, B),
           NEW R \in SUBSET Bits, NEW t \in Int, t <= now, UserSays(R, t)
    PROVE  UserSays(R, t)'
<1>1. Held' = IF a THEN B ELSE {}
  BY DEF SetUser, Held
<1>2. /\ gained' = [b \in Bits |-> IF b \in Held' \ Held THEN now ELSE gained[b]]
      /\ lost' = [b \in Bits |-> IF b \in Held \ Held' THEN now ELSE lost[b]]
  BY <1>1 DEF SetUser, NoteUser, Stamped
<1>3. QED
  BY <1>1, <1>2, Parts DEF UserSays, HeldSince, HeldThroughout

LEMMA ItemSaysKept ==
    ASSUME TypeOK, NEW p \in Queries, NEW B \in SUBSET Bits, SetItem(p, B),
           NEW q \in Queries, NEW D \in SUBSET Bits, NEW t \in Int, t <= now, ItemSays(q, D, t)
    PROVE  ItemSays(q, D, t)'
<1>1. /\ index' = [index EXCEPT ![p] = B]
      /\ opened' = [opened EXCEPT ![p] =
                        [b \in Bits |-> IF b \in B \ index[p] THEN now ELSE opened[p][b]]]
      /\ closed' = [closed EXCEPT ![p] =
                        [b \in Bits |-> IF b \in index[p] \ B THEN now ELSE closed[p][b]]]
  BY DEF SetItem, Stamped
<1>2. /\ index \in [Queries -> SUBSET Bits]
      /\ opened \in [Queries -> [Bits -> Never..now]]
      /\ closed \in [Queries -> [Bits -> Never..now]]
  BY DEF TypeOK
<1>3. CASE q # p
  <2>1. index'[q] = index[q] /\ opened'[q] = opened[q] /\ closed'[q] = closed[q]
    BY <1>1, <1>2, <1>3
  <2>2. QED
    BY <2>1 DEF ItemSays, OpenSince, OpenThroughout
<1>4. CASE q = p
  <2>1. /\ index'[q] = B
        /\ \A b \in Bits : /\ opened'[q][b] = IF b \in B \ index[q] THEN now ELSE opened[q][b]
                           /\ closed'[q][b] = IF b \in index[q] \ B THEN now ELSE closed[q][b]
    BY <1>1, <1>2, <1>4
  <2>2. QED
    BY <2>1, Parts DEF ItemSays, OpenSince, OpenThroughout
<1>5. QED
  BY <1>3, <1>4

-----------------------------------------------------------------------------
(* The steps.                                                              *)

LEMMA AnyQueryType == AnyQuery \in Queries
BY AccessAssumption DEF AccessAssumption, AnyQuery

LEMMA InitInv == Init => IInv
<1> SUFFICES ASSUME Init PROVE IInv
  OBVIOUS
<1>1. req \in [Requests -> [pc : {"idle", "select", "fetch", "redact", "quota", "full", "redacted"},
                           query : Queries, in : Deployments, guest : BOOLEAN,
                           rights : SUBSET Bits, doc : SUBSET Bits, at : 0..now]]
      /\ \A r \in Requests : req[r].guest => req[r].rights \subseteq {GuestBit}
  BY AnyQueryType DEF Init, NoRequest, Over, Deployments
<1>2. TypeOK
  <2>1. /\ rights \in SUBSET Bits /\ index \in [Queries -> SUBSET Bits]
        /\ active \in BOOLEAN /\ spent \in BOOLEAN
    BY AccessAssumption DEF Init, AccessAssumption
  <2>2. /\ cache \in [Queries -> [rights : SUBSET Bits, until : -1..now + CacheLife]]
        /\ session \in [Sessions -> [pc : {"none", "loaded", "issued"}, for : Deployments,
                                     rights : SUBSET Bits, at : 0..now]]
    BY Numbers DEF Init, NoSession, NoEntry, Deployments
  <2>3. /\ now \in 0..MaxTime /\ changes \in 0..MaxChanges
        /\ gained \in [Bits -> Never..now] /\ lost \in [Bits -> Never..now]
        /\ opened \in [Queries -> [Bits -> Never..now]]
        /\ closed \in [Queries -> [Bits -> Never..now]]
    BY Numbers DEF Init
  <2>4. QED
    BY <1>1, <2>1, <2>2, <2>3 DEF TypeOK
<1>3. SessionInv
  BY DEF Init, SessionInv, NoSession
<1>4. CacheInv
  BY DEF Init, CacheInv, Cached, NoEntry
<1>5. RequestInv
  BY DEF Init, RequestInv, Pending, NoRequest, Over
<1>6. QED
  BY <1>2, <1>3, <1>4, <1>5 DEF IInv

LEMMA SetUserInv ==
    ASSUME IInv, NEW a \in BOOLEAN, NEW B \in UserBitmaps, SetUser(a, B)
    PROVE  IInv'
<1>1. TypeOK /\ SessionInv /\ CacheInv /\ RequestInv /\ B \in SUBSET Bits
  BY AccessAssumption DEF IInv, AccessAssumption
<1>2. now' = now /\ session' = session /\ cache' = cache /\ req' = req /\ index' = index
      /\ opened' = opened /\ closed' = closed
  BY DEF SetUser
<1>3. ASSUME NEW R \in SUBSET Bits, NEW t \in Int, t <= now, UserSays(R, t)
      PROVE  UserSays(R, t)'
  BY <1>1, <1>3, UserSaysKept
<1>4. TypeOK'
  <2>1. gained' \in [Bits -> Never..now'] /\ lost' \in [Bits -> Never..now']
    BY <1>1, <1>2, Numbers DEF SetUser, NoteUser, Stamped, TypeOK
  <2>2. changes' \in 0..MaxChanges
    BY <1>1, Numbers DEF TypeOK, SetUser
  <2>3. QED
    BY <1>1, <1>2, <2>1, <2>2 DEF TypeOK, SetUser
<1>5. SessionInv'
  <2> SUFFICES ASSUME NEW s \in Sessions
               PROVE  /\ session[s].pc = "loaded" => /\ now <= session[s].at + Delay
                                                     /\ UserSays(session[s].rights, session[s].at)'
                      /\ session[s].pc = "issued" =>
                             UserSays(session[s].rights, session[s].at - Delay)'
    BY <1>2 DEF SessionInv
  <2>1. /\ session[s].rights \in SUBSET Bits
        /\ session[s].at \in Int /\ session[s].at <= now
        /\ session[s].at - Delay \in Int /\ session[s].at - Delay <= now
    BY <1>1, Parts, Numbers
  <2>2. QED
    BY <1>1, <1>2, <1>3, <2>1 DEF SessionInv
<1>6. CacheInv'
  BY <1>1, <1>2 DEF CacheInv, Cached, ItemSays, OpenSince, OpenThroughout
<1>7. RequestInv'
  <2> SUFFICES ASSUME NEW r \in Requests, Pending(r)
               PROVE  now <= req[r].at + Delay /\ UserInv(r)' /\ ItemInv(r)'
    BY <1>2 DEF RequestInv, Pending
  <2>1. now <= req[r].at + Delay /\ UserInv(r) /\ ItemInv(r)
    BY <1>1 DEF RequestInv
  <2>2. ItemInv(r)'
    BY <1>2, <2>1 DEF ItemInv, HasPermission, ItemSays, OpenSince, OpenThroughout
  <2>3. UserInv(r)'
    <3>1. /\ req[r].rights \in SUBSET Bits
          /\ req[r].at - RightsAge(req[r].in) \in Int /\ req[r].at - RightsAge(req[r].in) <= now
      BY <1>1, Parts, Numbers
    <3>2. QED
      BY <1>2, <1>3, <2>1, <3>1 DEF UserInv
  <2>4. QED
    BY <2>1, <2>2, <2>3
<1>8. QED
  BY <1>4, <1>5, <1>6, <1>7 DEF IInv

LEMMA SetItemInv ==
    ASSUME IInv, NEW p \in Queries, NEW B \in ItemBitmaps, SetItem(p, B)
    PROVE  IInv'
<1>1. TypeOK /\ SessionInv /\ CacheInv /\ RequestInv /\ B \in SUBSET Bits
  BY AccessAssumption DEF IInv, AccessAssumption
<1>2. now' = now /\ session' = session /\ cache' = cache /\ req' = req /\ active' = active
      /\ rights' = rights /\ gained' = gained /\ lost' = lost
  BY DEF SetItem
<1>3. ASSUME NEW q \in Queries, NEW D \in SUBSET Bits, NEW t \in Int, t <= now, ItemSays(q, D, t)
      PROVE  ItemSays(q, D, t)'
  BY <1>1, <1>3, ItemSaysKept
<1>4. TypeOK'
  <2>1. Stamped(opened[p], B \ index[p]) \in [Bits -> Never..now]
        /\ Stamped(closed[p], index[p] \ B) \in [Bits -> Never..now]
    BY <1>1, Numbers DEF Stamped, TypeOK
  <2>2. changes' \in 0..MaxChanges
    BY <1>1, Numbers DEF TypeOK, SetItem
  <2>3. QED
    BY <1>1, <1>2, <2>1, <2>2 DEF TypeOK, SetItem
<1>5. SessionInv'
  BY <1>1, <1>2 DEF SessionInv, UserSays, HeldSince, HeldThroughout, Held
<1>6. CacheInv'
  <2> SUFFICES ASSUME NEW q \in Queries, Cached(q)
               PROVE  /\ q \notin Joined
                      /\ ItemSays(q, cache[q].rights, cache[q].until - CacheLife - Delay)'
    BY <1>2 DEF CacheInv, Cached
  <2>1. /\ cache[q].rights \in SUBSET Bits
        /\ cache[q].until - CacheLife - Delay \in Int
        /\ cache[q].until - CacheLife - Delay <= now
    BY <1>1, Parts, Numbers
  <2>2. QED
    BY <1>1, <1>2, <1>3, <2>1 DEF CacheInv
<1>7. RequestInv'
  <2> SUFFICES ASSUME NEW r \in Requests, Pending(r)
               PROVE  now <= req[r].at + Delay /\ UserInv(r)' /\ ItemInv(r)'
    BY <1>2 DEF RequestInv, Pending
  <2>1. now <= req[r].at + Delay /\ UserInv(r) /\ ItemInv(r)
    BY <1>1 DEF RequestInv
  <2>2. UserInv(r)'
    BY <1>2, <2>1 DEF UserInv, UserSays, HeldSince, HeldThroughout, Held
  <2>3. ItemInv(r)'
    <3>1. /\ req[r].query \in Queries /\ req[r].doc \in SUBSET Bits
          /\ req[r].at \in Int /\ req[r].at <= now
          /\ req[r].at - ItemAge(req[r].query) \in Int
          /\ req[r].at - ItemAge(req[r].query) <= now
      BY <1>1, Parts, Numbers
    <3>2. QED
      BY <1>2, <1>3, <2>1, <3>1 DEF ItemInv, HasPermission
  <2>4. QED
    BY <2>1, <2>2, <2>3
<1>8. QED
  BY <1>4, <1>5, <1>6, <1>7 DEF IInv

\* When the rights do not change, what was said of them stays said.
LEMMA RightsUnchanged ==
    ASSUME UNCHANGED <<active, rights, index, history>>
    PROVE  /\ \A R, t : UserSays(R, t)' <=> UserSays(R, t)
           /\ \A q, D, t : ItemSays(q, D, t)' <=> ItemSays(q, D, t)
BY DEF history, UserSays, HeldSince, HeldThroughout, Held, ItemSays, OpenSince, OpenThroughout

\* A step of one session that leaves the rest alone.
LEMMA SessionStepInv ==
    ASSUME IInv, NEW s \in Sessions, NEW new,
           session' = [session EXCEPT ![s] = new],
           UNCHANGED <<now, active, rights, index, cache, req, spent, changes, history>>,
           new \in [pc : {"none", "loaded", "issued"}, for : Deployments,
                    rights : SUBSET Bits, at : 0..now],
           new.pc = "loaded" => now <= new.at + Delay /\ UserSays(new.rights, new.at),
           new.pc = "issued" => UserSays(new.rights, new.at - Delay)
    PROVE  IInv'
<1>1. TypeOK /\ SessionInv /\ CacheInv /\ RequestInv
  BY DEF IInv
<1>2. UNCHANGED <<active, rights, index, history>> /\ now' = now /\ cache' = cache /\ req' = req
  OBVIOUS
<1>3. TypeOK'
  BY <1>1 DEF TypeOK, history
<1>4. SessionInv'
  <2> SUFFICES ASSUME NEW z \in Sessions
               PROVE  /\ session'[z].pc = "loaded" =>
                             now <= session'[z].at + Delay /\ UserSays(session'[z].rights, session'[z].at)
                      /\ session'[z].pc = "issued" =>
                             UserSays(session'[z].rights, session'[z].at - Delay)
    BY <1>2, RightsUnchanged DEF SessionInv
  <2>1. session'[z] = IF z = s THEN new ELSE session[z]
    BY <1>1 DEF TypeOK
  <2>2. QED
    BY <1>1, <2>1 DEF SessionInv
<1>5. CacheInv'
  BY <1>1, <1>2, RightsUnchanged DEF CacheInv, Cached
<1>6. RequestInv'
  BY <1>1, <1>2, RightsUnchanged DEF RequestInv, Pending, UserInv, ItemInv, HasPermission
<1>7. QED
  BY <1>3, <1>4, <1>5, <1>6 DEF IInv

LEMMA LoadUserInv ==
    ASSUME IInv, NEW s \in Sessions, NEW d \in Deployments, LoadUser(s, d)
    PROVE  IInv'
<1>1. TypeOK
  BY DEF IInv
<1>2. UserSays(rights, now)
  BY <1>1, UserSaysNow DEF LoadUser
<1> DEFINE new == [pc |-> "loaded", for |-> d, rights |-> rights, at |-> now]
<1>3. session' = [session EXCEPT ![s] = new]
      /\ UNCHANGED <<now, active, rights, index, cache, req, spent, changes, history>>
  BY DEF LoadUser
<1>4. /\ new \in [pc : {"none", "loaded", "issued"}, for : Deployments,
                  rights : SUBSET Bits, at : 0..now]
      /\ new.pc = "loaded" /\ new.rights = rights /\ new.at = now /\ now <= now + Delay
  <2>1. rights \in SUBSET Bits /\ now \in 0..now /\ now <= now + Delay
    BY <1>1, Parts, Numbers
  <2>2. QED
    BY <2>1
<1> HIDE DEF new
<1>5. QED
  BY <1>2, <1>3, <1>4, SessionStepInv

LEMMA IssueInv ==
    ASSUME IInv, NEW s \in Sessions, Issue(s)
    PROVE  IInv'
<1> DEFINE new == [session[s] EXCEPT !.pc = "issued", !.at = now]
<1>1. TypeOK /\ SessionInv
  BY DEF IInv
<1>2. session' = [session EXCEPT ![s] = new]
      /\ UNCHANGED <<now, active, rights, index, cache, req, spent, changes, history>>
  BY DEF Issue
<1>3. session[s] \in [pc : {"none", "loaded", "issued"}, for : Deployments,
                      rights : SUBSET Bits, at : 0..now]
  BY <1>1 DEF TypeOK
<1>4. /\ new \in [pc : {"none", "loaded", "issued"}, for : Deployments,
                  rights : SUBSET Bits, at : 0..now]
      /\ new.pc = "issued" /\ new.rights = session[s].rights /\ new.at = now
  <2>1. now \in 0..now
    BY <1>1, Parts
  <2>2. QED
    BY <1>3, <2>1
<1>5. UserSays(session[s].rights, now - Delay)
  <2>1. now <= session[s].at + Delay /\ UserSays(session[s].rights, session[s].at)
    BY <1>1 DEF SessionInv, Issue
  <2>2. session[s].rights \in SUBSET Bits /\ session[s].at \in Int /\ now - Delay \in Int
        /\ now - Delay <= session[s].at
    BY <1>1, <2>1, Parts, Numbers
  <2>3. QED
    BY <1>1, <2>1, <2>2, UserSaysEarlier
<1> HIDE DEF new
<1>6. QED
  BY <1>2, <1>4, <1>5, SessionStepInv

-----------------------------------------------------------------------------
(* The steps of a request.                                                 *)

RequestType ==
    [pc : {"idle", "select", "fetch", "redact", "quota", "full", "redacted"}, query : Queries,
     in : Deployments, guest : BOOLEAN, rights : SUBSET Bits, doc : SUBSET Bits, at : 0..now]

\* What RequestInv says of a request, of a record that becomes one.
Sound(new) ==
    new.pc \in {"select", "fetch", "redact", "quota"} =>
        /\ now <= new.at + Delay
        /\ IF new.guest THEN new.rights = {GuestBit}
           ELSE UserSays(new.rights, new.at - RightsAge(new.in))
        /\ new.pc = "fetch" => ItemSays(new.query, new.doc, new.at)
        /\ new.pc \in {"redact", "quota"} =>
               ItemSays(new.query, new.doc, new.at - ItemAge(new.query))
        /\ new.pc = "quota" => Align(new.doc, new.rights) /\ new.in = "api"

\* A step of one request that leaves all but the cache alone.
LEMMA RequestStepInv ==
    ASSUME IInv, NEW r \in Requests, NEW new,
           req' = [req EXCEPT ![r] = new],
           UNCHANGED <<now, active, rights, index, session, spent, changes, history>>,
           new \in RequestType, new.guest => new.rights \subseteq {GuestBit},
           Sound(new)
    PROVE  /\ cache' \in [Queries -> [rights : SUBSET Bits, until : -1..now + CacheLife]] => TypeOK'
           /\ SessionInv'
           /\ RequestInv'
<1>1. TypeOK /\ SessionInv /\ CacheInv /\ RequestInv
  BY DEF IInv
<1>2. UNCHANGED <<active, rights, index, history>> /\ now' = now /\ session' = session
  OBVIOUS
<1>3. ASSUME NEW z \in Requests
      PROVE  req'[z] = IF z = r THEN new ELSE req[z]
  BY <1>1 DEF TypeOK
<1>4. ASSUME cache' \in [Queries -> [rights : SUBSET Bits, until : -1..now + CacheLife]]
      PROVE  TypeOK'
  <2>1. req' \in [Requests -> RequestType]
    BY <1>1 DEF TypeOK, RequestType
  <2>2. \A z \in Requests : req'[z].guest => req'[z].rights \subseteq {GuestBit}
    BY <1>1, <1>3 DEF TypeOK
  <2>3. QED
    BY <1>1, <1>4, <2>1, <2>2 DEF TypeOK, RequestType, history
<1>5. SessionInv'
  BY <1>1, <1>2, RightsUnchanged DEF SessionInv
<1>6. RequestInv'
  <2> SUFFICES ASSUME NEW z \in Requests, Pending(z)'
               PROVE  (now <= req[z].at + Delay)' /\ UserInv(z)' /\ ItemInv(z)'
    BY DEF RequestInv
  <2>1. CASE z = r
    BY <1>2, <1>3, <2>1, RightsUnchanged DEF Sound, Pending, UserInv, ItemInv, HasPermission
  <2>2. CASE z # r
    <3>1. req'[z] = req[z] /\ Pending(z)
      BY <1>3, <2>2 DEF Pending
    <3>2. now <= req[z].at + Delay /\ UserInv(z) /\ ItemInv(z)
      BY <1>1, <3>1 DEF RequestInv
    <3>3. QED
      BY <1>2, <3>1, <3>2, RightsUnchanged DEF UserInv, ItemInv, HasPermission
  <2>3. QED
    BY <2>1, <2>2
<1>7. QED
  BY <1>4, <1>5, <1>6

\* The same when the cache does not change either.
LEMMA QuietStepInv ==
    ASSUME IInv, NEW r \in Requests, NEW new,
           req' = [req EXCEPT ![r] = new],
           UNCHANGED <<now, active, rights, index, cache, session, spent, changes, history>>,
           new \in RequestType, new.guest => new.rights \subseteq {GuestBit},
           Sound(new)
    PROVE  IInv'
<1>1. cache' \in [Queries -> [rights : SUBSET Bits, until : -1..now + CacheLife]]
  BY DEF IInv, TypeOK
<1>2. TypeOK' /\ SessionInv' /\ RequestInv'
  BY <1>1, RequestStepInv
<1>3. CacheInv'
  BY RightsUnchanged DEF IInv, CacheInv, Cached
<1>4. QED
  BY <1>2, <1>3 DEF IInv

LEMMA BeginInv ==
    ASSUME IInv, NEW r \in Requests, NEW q \in Queries, NEW d \in Deployments,
           NEW g \in BOOLEAN, NEW R \in SUBSET Bits, Begin(r, q, d, g, R),
           IF g THEN R = {GuestBit} ELSE UserSays(R, now - RightsAge(d))
    PROVE  IInv'
<1> DEFINE new == [pc |-> "select", query |-> q, in |-> d, guest |-> g,
                   rights |-> R, doc |-> {}, at |-> now]
<1>1. now \in 0..now /\ now <= now + Delay
  BY Parts, Numbers DEF IInv
<1>2. /\ new \in RequestType /\ (new.guest => new.rights \subseteq {GuestBit})
      /\ new.pc = "select" /\ new.in = d /\ new.guest = g /\ new.rights = R /\ new.at = now
  BY <1>1 DEF RequestType
<1>3. req' = [req EXCEPT ![r] = new]
      /\ UNCHANGED <<now, active, rights, index, cache, session, spent, changes, history>>
  BY DEF Begin
<1> HIDE DEF new
<1>4. Sound(new)
  BY <1>1, <1>2 DEF Sound
<1>5. QED
  BY <1>2, <1>3, <1>4, QuietStepInv

\* A token's bits were read from the database less than its life and a delay ago.
LEMMA BeginWithTokenInv ==
    ASSUME IInv, NEW r \in Requests, NEW q \in Queries, NEW s \in Sessions,
           NEW d \in Deployments, BeginWithToken(r, q, s, d)
    PROVE  IInv'
<1>1. TypeOK /\ SessionInv
  BY DEF IInv
<1>2. /\ d \notin UseDbUser /\ session[s].pc = "issued" /\ now < session[s].at + TokenLife
      /\ Begin(r, q, d, FALSE, session[s].rights)
  BY DEF BeginWithToken, Valid, Issued
<1>3. UserSays(session[s].rights, now - RightsAge(d))
  <2>1. UserSays(session[s].rights, session[s].at - Delay)
    BY <1>1, <1>2 DEF SessionInv
  <2>2. session[s].rights \in SUBSET Bits /\ session[s].at - Delay \in Int
        /\ now - (TokenLife + Delay) \in Int
        /\ now - (TokenLife + Delay) <= session[s].at - Delay
    BY <1>1, <1>2, Parts, Numbers
  <2>3. UserSays(session[s].rights, now - (TokenLife + Delay))
    BY <1>1, <2>1, <2>2, UserSaysEarlier
  <2>4. QED
    BY <1>2, <2>3 DEF RightsAge
<1>4. QED
  BY <1>1, <1>2, <1>3, BeginInv, Parts

LEMMA BeginWithDbUserInv ==
    ASSUME IInv, NEW r \in Requests, NEW q \in Queries, NEW s \in Sessions,
           NEW d \in Deployments, BeginWithDbUser(r, q, s, d)
    PROVE  IInv'
<1>1. TypeOK
  BY DEF IInv
<1>2. d \in UseDbUser /\ active /\ Begin(r, q, d, FALSE, rights)
  BY DEF BeginWithDbUser
<1>3. UserSays(rights, now - RightsAge(d))
  <2>1. RightsAge(d) = 0 /\ now - 0 = now
    BY <1>1, <1>2, Parts DEF RightsAge
  <2>2. QED
    BY <1>1, <1>2, <2>1, UserSaysNow
<1>4. QED
  BY <1>1, <1>2, <1>3, BeginInv, Parts

LEMMA BeginAsGuestInv ==
    ASSUME IInv, NEW r \in Requests, NEW q \in Queries, BeginAsGuest(r, q)
    PROVE  IInv'
<1>1. {GuestBit} \in SUBSET Bits /\ "app" \in Deployments
  BY AccessAssumption DEF AccessAssumption, Deployments
<1>2. QED
  BY <1>1, BeginInv DEF BeginAsGuest

\* A cached response is of a plain query and was read at most a cache entry's
\* life and a delay ago; Solr's own answer is the present.
LEMMA LookUpInv ==
    ASSUME IInv, NEW r \in Requests, LookUp(r)
    PROVE  IInv'
<1> DEFINE q == req[r].query
           hit == [req[r] EXCEPT !.pc = "redact", !.doc = cache[q].rights]
           miss == [req[r] EXCEPT !.pc = "fetch", !.doc = index[q]]
<1>1. TypeOK /\ CacheInv /\ RequestInv
  BY DEF IInv
<1>2. req[r].pc = "select" /\ now <= req[r].at + Delay /\ UserInv(r)
  BY <1>1 DEF LookUp, RequestInv, Pending
<1>3. req[r] \in RequestType /\ (req[r].guest => req[r].rights \subseteq {GuestBit})
  BY <1>1 DEF TypeOK, RequestType
<1>4. q \in Queries /\ req[r].at \in Int /\ req[r].at <= now
      /\ index[q] \in SUBSET Bits /\ cache[q].rights \in SUBSET Bits
  BY <1>1, Parts
<1>5. UNCHANGED <<now, active, rights, index, cache, session, spent, changes, history>>
  BY DEF LookUp
<1>6. CASE Cached(q)
  <2>1. req' = [req EXCEPT ![r] = hit]
    BY <1>6 DEF LookUp
  <2>2. /\ hit \in RequestType /\ hit.pc = "redact" /\ hit.query = q /\ hit.in = req[r].in
        /\ hit.guest = req[r].guest /\ hit.rights = req[r].rights
        /\ hit.doc = cache[q].rights /\ hit.at = req[r].at
    BY <1>3, <1>4 DEF RequestType
  <2>3. ItemSays(q, cache[q].rights, req[r].at - ItemAge(q))
    <3>1. q \notin Joined
          /\ ItemSays(q, cache[q].rights, cache[q].until - CacheLife - Delay)
      BY <1>1, <1>4, <1>6 DEF CacheInv
    <3>2. ItemAge(q) = CacheLife + Delay
      BY <3>1 DEF ItemAge
    <3>3. req[r].at - ItemAge(q) \in Int /\ cache[q].until - CacheLife - Delay \in Int
          /\ req[r].at - ItemAge(q) <= cache[q].until - CacheLife - Delay
      BY <1>1, <1>4, <1>6, <3>2, Parts, Numbers DEF Cached
    <3>4. QED
      BY <1>1, <1>4, <3>1, <3>3, ItemSaysEarlier
  <2> HIDE DEF hit, q
  <2>4. Sound(hit)
    BY <1>2, <2>2, <2>3 DEF Sound, UserInv
  <2>5. QED
    BY <1>3, <1>5, <2>1, <2>2, <2>4, QuietStepInv
<1>7. CASE ~Cached(q)
  <2>1. req' = [req EXCEPT ![r] = miss]
    BY <1>7 DEF LookUp
  <2>2. /\ miss \in RequestType /\ miss.pc = "fetch" /\ miss.query = q /\ miss.in = req[r].in
        /\ miss.guest = req[r].guest /\ miss.rights = req[r].rights
        /\ miss.doc = index[q] /\ miss.at = req[r].at
    BY <1>3, <1>4 DEF RequestType
  <2>3. ItemSays(q, index[q], req[r].at)
    BY <1>1, <1>4, ItemSaysNow
  <2> HIDE DEF miss, q
  <2>4. Sound(miss)
    BY <1>2, <2>2, <2>3 DEF Sound, UserInv
  <2>5. QED
    BY <1>3, <1>5, <2>1, <2>2, <2>4, QuietStepInv
<1>8. QED
  BY <1>6, <1>7

LEMMA StoreInv ==
    ASSUME IInv, NEW r \in Requests, Store(r)
    PROVE  IInv'
<1> DEFINE q == req[r].query
           new == [req[r] EXCEPT !.pc = "redact"]
           entry == [rights |-> req[r].doc, until |-> now + CacheLife]
<1>1. TypeOK /\ CacheInv /\ RequestInv
  BY DEF IInv
<1>2. /\ req[r].pc = "fetch" /\ now <= req[r].at + Delay /\ UserInv(r)
      /\ ItemSays(q, req[r].doc, req[r].at)
  BY <1>1 DEF Store, RequestInv, Pending, ItemInv
<1>3. req[r] \in RequestType /\ (req[r].guest => req[r].rights \subseteq {GuestBit})
  BY <1>1 DEF TypeOK, RequestType
<1>4. q \in Queries /\ req[r].at \in Int /\ req[r].at <= now /\ req[r].doc \in SUBSET Bits
      /\ now \in Nat /\ cache \in [Queries -> [rights : SUBSET Bits, until : -1..now + CacheLife]]
  BY <1>1, Parts DEF TypeOK
<1>5. /\ req' = [req EXCEPT ![r] = new]
      /\ cache' = IF q \notin Joined THEN [cache EXCEPT ![q] = entry] ELSE cache
      /\ UNCHANGED <<now, active, rights, index, session, spent, changes, history>>
  BY DEF Store, Cacheable, Expiry
<1>6. /\ new \in RequestType /\ new.pc = "redact" /\ new.query = q /\ new.in = req[r].in
      /\ new.guest = req[r].guest /\ new.rights = req[r].rights
      /\ new.doc = req[r].doc /\ new.at = req[r].at
  BY <1>3 DEF RequestType
<1>7. entry \in [rights : SUBSET Bits, until : -1..now + CacheLife]
  BY <1>4, Numbers
<1>8. cache' \in [Queries -> [rights : SUBSET Bits, until : -1..now + CacheLife]]
  BY <1>4, <1>5, <1>7
<1>9. ItemSays(q, req[r].doc, req[r].at - ItemAge(q))
  <2>1. req[r].at - ItemAge(q) \in Int /\ req[r].at - ItemAge(q) <= req[r].at
    BY <1>4, Numbers
  <2>2. QED
    BY <1>1, <1>2, <1>4, <2>1, ItemSaysEarlier
<1>10. ItemSays(q, req[r].doc, entry.until - CacheLife - Delay)
  <2>1. entry.until - CacheLife - Delay \in Int /\ entry.until - CacheLife - Delay <= req[r].at
    BY <1>2, <1>4, Numbers
  <2>2. QED
    BY <1>1, <1>2, <1>4, <2>1, ItemSaysEarlier
<1>11. CacheInv'
  <2> SUFFICES ASSUME NEW z \in Queries, Cached(z)'
               PROVE  /\ z \notin Joined
                      /\ ItemSays(z, cache'[z].rights, cache'[z].until - CacheLife - Delay)
    BY <1>5, RightsUnchanged DEF CacheInv
  <2>1. CASE z = q /\ q \notin Joined
    <3>1. cache'[z] = entry /\ entry.rights = req[r].doc
      BY <1>4, <1>5, <2>1
    <3>2. QED
      BY <1>10, <2>1, <3>1
  <2>2. CASE ~(z = q /\ q \notin Joined)
    <3>1. cache'[z] = cache[z] /\ Cached(z)
      BY <1>4, <1>5, <2>2 DEF Cached
    <3>2. QED
      BY <1>1, <3>1 DEF CacheInv
  <2>3. QED
    BY <2>1, <2>2
<1> HIDE DEF new, q
<1>12. Sound(new)
  BY <1>2, <1>6, <1>9 DEF Sound, UserInv
<1>13. TypeOK' /\ SessionInv' /\ RequestInv'
  BY <1>3, <1>5, <1>6, <1>8, <1>12, RequestStepInv
<1>14. QED
  BY <1>11, <1>13 DEF IInv

\* Of a request that is over there is nothing left to be said.
LEMMA OverInv ==
    ASSUME IInv, NEW r \in Requests, NEW outcome \in {"idle", "full", "redacted"},
           req' = [req EXCEPT ![r] = Over(outcome)],
           UNCHANGED <<now, active, rights, index, cache, session, spent, changes, history>>
    PROVE  IInv'
<1> DEFINE new == Over(outcome)
<1>1. now \in Nat
  BY Parts DEF IInv
<1>2. new \in RequestType /\ new.pc = outcome /\ new.rights = {}
  BY <1>1, AnyQueryType DEF RequestType, Over, Deployments
<1> HIDE DEF new
<1>3. Sound(new)
  BY <1>2 DEF Sound
<1>4. QED
  BY <1>2, <1>3, QuietStepInv DEF new

LEMMA RequestFailsInv ==
    ASSUME IInv, NEW r \in Requests, RequestFails(r)
    PROVE  IInv'
BY OverInv DEF RequestFails, NoRequest

LEMMA AnswerInv ==
    ASSUME IInv, NEW r \in Requests, NEW outcome \in {"full", "redacted"}, Answer(r, outcome),
           UNCHANGED <<now, active, rights, index, cache, session, spent, changes, history>>
    PROVE  IInv'
BY OverInv DEF Answer

LEMMA RedactInv ==
    ASSUME IInv, NEW r \in Requests, Redact(r)
    PROVE  IInv'
<1>1. UNCHANGED <<now, active, rights, index, cache, session, spent, changes, history>>
  BY DEF Redact
<1>2. CASE Answer(r, "full") \/ Answer(r, "redacted")
  BY <1>1, <1>2, AnswerInv
<1>3. CASE HasPermission(r) /\ req[r].in = "api" /\ req' = [req EXCEPT ![r].pc = "quota"]
  <2> DEFINE new == [req[r] EXCEPT !.pc = "quota"]
  <2>1. req[r] \in RequestType /\ (req[r].guest => req[r].rights \subseteq {GuestBit})
    BY DEF IInv, TypeOK, RequestType
  <2>2. /\ new \in RequestType /\ new.pc = "quota" /\ new.query = req[r].query
        /\ new.in = req[r].in /\ new.guest = req[r].guest /\ new.rights = req[r].rights
        /\ new.doc = req[r].doc /\ new.at = req[r].at
    BY <2>1 DEF RequestType
  <2>3. /\ now <= req[r].at + Delay /\ UserInv(r)
        /\ ItemSays(req[r].query, req[r].doc, req[r].at - ItemAge(req[r].query))
    BY DEF IInv, RequestInv, Pending, ItemInv, Redact
  <2>4. req' = [req EXCEPT ![r] = new]
    BY <1>3
  <2> HIDE DEF new
  <2>5. Sound(new)
    BY <1>3, <2>2, <2>3 DEF Sound, UserInv, HasPermission
  <2>6. QED
    BY <1>1, <2>1, <2>2, <2>4, <2>5, QuietStepInv
<1>4. QED
  BY <1>2, <1>3 DEF Redact

LEMMA CheckQuotaInv ==
    ASSUME IInv, NEW r \in Requests, CheckQuota(r)
    PROVE  IInv'
BY AnswerInv DEF CheckQuota

LEMMA QuotaMovesInv ==
    ASSUME IInv, QuotaMoves
    PROVE  IInv'
<1>1. TypeOK /\ SessionInv /\ CacheInv /\ RequestInv
  BY DEF IInv
<1>2. spent' \in BOOLEAN
      /\ UNCHANGED <<now, active, rights, index, cache, session, req, changes, history>>
  BY DEF QuotaMoves
<1>3. TypeOK'
  BY <1>1, <1>2 DEF TypeOK, history
<1>4. SessionInv' /\ CacheInv' /\ RequestInv'
  BY <1>1, <1>2, RightsUnchanged
  DEF SessionInv, CacheInv, Cached, RequestInv, Pending, UserInv, ItemInv, HasPermission
<1>5. QED
  BY <1>3, <1>4 DEF IInv

LEMMA EvictInv ==
    ASSUME IInv, NEW q \in Queries, Evict(q)
    PROVE  IInv'
<1>1. TypeOK /\ SessionInv /\ CacheInv /\ RequestInv
  BY DEF IInv
<1>2. cache' = [cache EXCEPT ![q] = NoEntry]
      /\ UNCHANGED <<now, active, rights, index, session, req, spent, changes, history>>
  BY DEF Evict
<1>3. now \in Nat /\ cache \in [Queries -> [rights : SUBSET Bits, until : -1..now + CacheLife]]
  BY <1>1, Parts DEF TypeOK
<1>4. cache' \in [Queries -> [rights : SUBSET Bits, until : -1..now + CacheLife]]
  BY <1>2, <1>3, Numbers DEF NoEntry
<1>5. TypeOK'
  BY <1>1, <1>2, <1>4 DEF TypeOK, history
<1>6. SessionInv' /\ RequestInv'
  BY <1>1, <1>2, RightsUnchanged
  DEF SessionInv, RequestInv, Pending, UserInv, ItemInv, HasPermission
<1>7. CacheInv'
  <2> SUFFICES ASSUME NEW z \in Queries, Cached(z)'
               PROVE  /\ z \notin Joined
                      /\ ItemSays(z, cache'[z].rights, cache'[z].until - CacheLife - Delay)
    BY <1>2, RightsUnchanged DEF CacheInv
  <2>1. z # q
    BY <1>2, <1>3 DEF Cached, NoEntry
  <2>2. cache'[z] = cache[z] /\ Cached(z)
    BY <1>2, <1>3, <2>1 DEF Cached
  <2>3. QED
    BY <1>1, <2>2 DEF CacheInv
<1>8. QED
  BY <1>5, <1>6, <1>7 DEF IInv

LEMMA TickInv ==
    ASSUME IInv, Tick
    PROVE  IInv'
<1>1. TypeOK /\ SessionInv /\ CacheInv /\ RequestInv
  BY DEF IInv
<1>2. /\ now < MaxTime /\ now' = now + 1 /\ now \in Nat
      /\ UNCHANGED <<active, rights, index, cache, session, req, spent, changes, history>>
  BY <1>1, Parts DEF Tick
<1>3. /\ 0..now \subseteq 0..now'
      /\ -1..now + CacheLife \subseteq -1..now' + CacheLife
      /\ Never..now \subseteq Never..now'
  BY <1>2, Numbers
<1>4. TypeOK'
  <2>1. now' \in 0..MaxTime
    BY <1>2, Numbers
  <2>2. /\ cache \in [Queries -> [rights : SUBSET Bits, until : -1..now' + CacheLife]]
        /\ session \in [Sessions -> [pc : {"none", "loaded", "issued"}, for : Deployments,
                                     rights : SUBSET Bits, at : 0..now']]
        /\ req \in [Requests -> [pc : {"idle", "select", "fetch", "redact", "quota", "full", "redacted"},
                                 query : Queries, in : Deployments, guest : BOOLEAN,
                                 rights : SUBSET Bits, doc : SUBSET Bits, at : 0..now']]
    BY <1>1, <1>3 DEF TypeOK
  <2>3. /\ gained \in [Bits -> Never..now'] /\ lost \in [Bits -> Never..now']
        /\ opened \in [Queries -> [Bits -> Never..now']]
        /\ closed \in [Queries -> [Bits -> Never..now']]
    BY <1>1, <1>3 DEF TypeOK
  <2>4. QED
    BY <1>1, <1>2, <2>1, <2>2, <2>3 DEF TypeOK, history
<1>5. SessionInv'
  <2> SUFFICES ASSUME NEW s \in Sessions
               PROVE  /\ session[s].pc = "loaded" => /\ now' <= session[s].at + Delay
                                                     /\ UserSays(session[s].rights, session[s].at)
                      /\ session[s].pc = "issued" =>
                             UserSays(session[s].rights, session[s].at - Delay)
    BY <1>2, RightsUnchanged DEF SessionInv
  <2>1. session[s].pc = "loaded" => now' <= session[s].at + Delay
    BY <1>1, <1>2, Parts, Numbers DEF Tick
  <2>2. QED
    BY <1>1, <2>1 DEF SessionInv
<1>6. CacheInv'
  <2> SUFFICES ASSUME NEW q \in Queries, Cached(q)'
               PROVE  Cached(q)
    BY <1>1, <1>2, RightsUnchanged DEF CacheInv
  <2>1. QED
    BY <1>1, <1>2, Parts DEF Cached
<1>7. RequestInv'
  <2> SUFFICES ASSUME NEW r \in Requests, Pending(r)
               PROVE  now' <= req[r].at + Delay
    BY <1>1, <1>2, RightsUnchanged
    DEF RequestInv, Pending, UserInv, ItemInv, HasPermission
  <2>1. QED
    BY <1>1, <1>2, Parts, Numbers DEF Tick
<1>8. QED
  BY <1>4, <1>5, <1>6, <1>7 DEF IInv

LEMMA NextInv ==
    ASSUME IInv, [Next]_vars
    PROVE  IInv'
<1>1. ASSUME NEW a \in BOOLEAN, NEW R \in UserBitmaps, SetUser(a, R) PROVE IInv'
  BY <1>1, SetUserInv
<1>2. ASSUME NEW q \in Queries, NEW D \in ItemBitmaps, SetItem(q, D) PROVE IInv'
  BY <1>2, SetItemInv
<1>3. ASSUME NEW s \in Sessions, NEW d \in Deployments, Login(s, d) PROVE IInv'
  BY <1>3, LoadUserInv DEF Login
<1>4. ASSUME NEW s \in Sessions, NEW a \in Sessions, Exchange(s, a) PROVE IInv'
  BY <1>4, LoadUserInv DEF Exchange, Deployments
<1>5. ASSUME NEW s \in Sessions, Issue(s) PROVE IInv'
  BY <1>5, IssueInv
<1>6. ASSUME NEW r \in Requests, NEW q \in Queries, NEW s \in Sessions, NEW d \in Deployments,
             BeginWithToken(r, q, s, d) \/ BeginWithDbUser(r, q, s, d)
      PROVE  IInv'
  BY <1>6, BeginWithTokenInv, BeginWithDbUserInv
<1>7. ASSUME NEW r \in Requests, NEW q \in Queries, BeginAsGuest(r, q) PROVE IInv'
  BY <1>7, BeginAsGuestInv
<1>8. ASSUME NEW r \in Requests,
             LookUp(r) \/ Store(r) \/ Redact(r) \/ CheckQuota(r) \/ RequestFails(r)
      PROVE  IInv'
  BY <1>8, LookUpInv, StoreInv, RedactInv, CheckQuotaInv, RequestFailsInv
<1>9. ASSUME NEW q \in Queries, Evict(q) PROVE IInv'
  BY <1>9, EvictInv
<1>10. CASE QuotaMoves
  BY <1>10, QuotaMovesInv
<1>11. CASE Tick
  BY <1>11, TickInv
<1>12. CASE UNCHANGED vars
  BY <1>12
  DEF vars, history, IInv, TypeOK, SessionInv, CacheInv, RequestInv, UserInv, ItemInv, UserSays,
      ItemSays, HeldSince, HeldThroughout, OpenSince, OpenThroughout, Held, Cached, Pending,
      HasPermission
<1>13. QED
  BY <1>1, <1>2, <1>3, <1>4, <1>5, <1>6, <1>7, <1>8, <1>9, <1>10, <1>11, <1>12 DEF Next

-----------------------------------------------------------------------------
(* The theorems.                                                           *)

THEOREM Invariance == Spec => []IInv
BY InitInv, NextInv, PTL DEF Spec

\* Every reachable state is well typed.
THEOREM TypeCorrect == Spec => []TypeOK
<1>1. IInv => TypeOK
  BY DEF IInv
<1>2. QED
  BY <1>1, Invariance, PTL

\* Only the redaction hook answers a request or asks the quota checker for it.
LEMMA OnlyTheHook ==
    ASSUME IInv, Next, NEW r \in Requests, NEW outcome \in {"quota", "full", "redacted"},
           Gets(r, outcome)
    PROVE  Redact(r) \/ CheckQuota(r)
<1>1. TypeOK /\ req \in [Requests -> RequestType]
  BY DEF IInv, TypeOK, RequestType
<1>2. req[r].pc # outcome /\ req'[r].pc = outcome
  BY DEF Gets
<1>3. \A z \in Requests : \A p, g, R, d : Begin(z, p, d, g, R) => req'[r].pc # outcome
  BY <1>1, <1>2 DEF Begin
<1>4. ASSUME NEW z \in Requests, RequestFails(z) \/ LookUp(z) \/ Store(z)
      PROVE  req'[r].pc # outcome
  <2>1. CASE RequestFails(z)
    BY <1>1, <1>2, <2>1 DEF RequestFails, NoRequest, Over
  <2>2. CASE LookUp(z)
    BY <1>1, <1>2, <2>2 DEF LookUp, RequestType
  <2>3. CASE Store(z)
    BY <1>1, <1>2, <2>3 DEF Store, RequestType
  <2>4. QED
    BY <1>4, <2>1, <2>2, <2>3
<1>5. \A z \in Requests : Redact(z) \/ CheckQuota(z) => z = r
  BY <1>1, <1>2 DEF Redact, CheckQuota, Answer
<1>6. \A z \in Requests, p \in Queries :
          /\ BeginAsGuest(z, p) => req'[r].pc # outcome
          /\ \A s \in Sessions, d \in Deployments :
                 BeginWithToken(z, p, s, d) \/ BeginWithDbUser(z, p, s, d) => req'[r].pc # outcome
  BY <1>3 DEF BeginWithToken, BeginWithDbUser, BeginAsGuest
<1>7. req' # req
  BY <1>2
<1>8. /\ \A a \in BOOLEAN, R \in UserBitmaps : ~SetUser(a, R)
      /\ \A q \in Queries, D \in ItemBitmaps : ~SetItem(q, D)
      /\ \A q \in Queries : ~Evict(q)
      /\ ~QuotaMoves
      /\ ~Tick
  BY <1>7 DEF SetUser, SetItem, Evict, QuotaMoves, Tick
<1>9. /\ \A s \in Sessions, d \in Deployments : ~Login(s, d)
      /\ \A s, a \in Sessions : ~Exchange(s, a)
      /\ \A s \in Sessions : ~Issue(s)
  BY <1>7 DEF Login, Exchange, LoadUser, Issue
<1>10. \E z \in Requests : Redact(z) \/ CheckQuota(z)
  BY <1>2, <1>4, <1>6, <1>8, <1>9 DEF Next
<1>11. QED
  BY <1>5, <1>10

\* What the hook has compared when it does.
LEMMA AnswerFacts ==
    ASSUME IInv, NEW r \in Requests, Redact(r) \/ CheckQuota(r)
    PROVE  /\ req[r].doc \subseteq Bits /\ req[r].rights \subseteq Bits
           /\ UserInv(r)
           /\ ItemSays(req[r].query, req[r].doc, req[r].at - ItemAge(req[r].query))
           /\ req'[r].pc \in {"quota", "full"} => req[r].doc \cap req[r].rights # {}
           /\ req'[r].pc = "redacted" =>
                  req[r].doc \cap req[r].rights = {} \/ (req[r].in = "api" /\ spent)
<1>1. TypeOK /\ req \in [Requests -> RequestType]
  BY DEF IInv, TypeOK, RequestType
<1>2. req[r].pc \in {"redact", "quota"} /\ UserInv(r) /\ ItemInv(r)
  BY DEF IInv, RequestInv, Pending, Redact, CheckQuota
<1>3. req[r].doc \subseteq Bits /\ req[r].rights \subseteq Bits
  BY <1>1, Parts
<1> DEFINE Compared ==
        /\ req'[r].pc \in {"quota", "full"} => req[r].doc \cap req[r].rights # {}
        /\ req'[r].pc = "redacted" =>
               req[r].doc \cap req[r].rights = {} \/ (req[r].in = "api" /\ spent)
<1>4. ASSUME Redact(r) PROVE Compared
  <2>1. \A outcome : Answer(r, outcome) => req'[r].pc = outcome
    BY <1>1 DEF Answer, Over
  <2>2. HasPermission(r) <=> req[r].doc \cap req[r].rights # {}
    BY DEF HasPermission, Align
  <2>3. CASE ~HasPermission(r) /\ Answer(r, "redacted")
    BY <2>1, <2>2, <2>3
  <2>4. CASE HasPermission(r)
    <3>1. Answer(r, "full") \/ req' = [req EXCEPT ![r].pc = "quota"]
      BY <1>4, <2>4 DEF Redact
    <3>2. req' = [req EXCEPT ![r].pc = "quota"] => req'[r].pc = "quota"
      BY <1>1 DEF RequestType
    <3>3. req'[r].pc \in {"full", "quota"}
      BY <2>1, <3>1, <3>2
    <3>4. QED
      BY <2>2, <2>4, <3>3
  <2>5. QED
    BY <1>4, <2>3, <2>4 DEF Redact
<1>5. ASSUME CheckQuota(r) PROVE Compared
  <2>1. \A outcome : Answer(r, outcome) => req'[r].pc = outcome
    BY <1>1 DEF Answer, Over
  <2>2. req[r].pc = "quota" /\ (Answer(r, "full") \/ (spent /\ Answer(r, "redacted")))
    BY <1>5 DEF CheckQuota
  <2>3. req[r].doc \cap req[r].rights # {} /\ req[r].in = "api"
    BY <1>2, <2>2 DEF ItemInv, HasPermission, Align
  <2>4. CASE Answer(r, "full")
    BY <2>1, <2>3, <2>4
  <2>5. CASE spent /\ Answer(r, "redacted")
    BY <2>1, <2>3, <2>5
  <2>6. QED
    BY <2>2, <2>4, <2>5
<1>6. QED
  BY <1>2, <1>3, <1>4, <1>5 DEF ItemInv

\* An item is served in full, or charged, only through a bit granted recently enough.
THEOREM GrantedFull == Spec => FullOnlyIfGranted
<1> DEFINE Step == \A r \in Requests :
                       Gets(r, "full") \/ Gets(r, "quota") => \E b \in Bits : HeldBy(r, b) /\ OpenTo(r, b)
<1>1. ASSUME IInv, [Next]_vars PROVE [Step]_vars
  <2> SUFFICES ASSUME Next, NEW r \in Requests, Gets(r, "full") \/ Gets(r, "quota")
               PROVE  \E b \in Bits : HeldBy(r, b) /\ OpenTo(r, b)
    BY <1>1
  <2>1. Redact(r) \/ CheckQuota(r)
    BY <1>1, OnlyTheHook
  <2>2. PICK b \in Bits : b \in req[r].doc /\ b \in req[r].rights
    BY <1>1, <2>1, AnswerFacts DEF Gets
  <2>3. HeldBy(r, b)
    BY <1>1, <2>1, <2>2, AnswerFacts DEF HeldBy, UserInv, UserSays
  <2>4. OpenTo(r, b)
    BY <1>1, <2>1, <2>2, AnswerFacts DEF OpenTo, ItemSays
  <2>5. QED
    BY <2>3, <2>4
<1>2. QED
  BY <1>1, Invariance, PTL DEF FullOnlyIfGranted, Spec

\* An item is redacted only if no bit was granted all the time, or by the quota.
THEOREM DeniedRedacted == Spec => RedactedOnlyIfDenied
<1> DEFINE Step == \A r \in Requests :
                       Gets(r, "redacted") =>
                           \/ req[r].in = "api" /\ spent
                           \/ ~\E b \in Bits : HeldAlways(r, b) /\ OpenAlways(r, b)
<1>1. ASSUME IInv, [Next]_vars PROVE [Step]_vars
  <2> SUFFICES ASSUME Next, NEW r \in Requests, Gets(r, "redacted"), ~(req[r].in = "api" /\ spent),
                      NEW b \in Bits, HeldAlways(r, b), OpenAlways(r, b)
               PROVE  FALSE
    BY <1>1
  <2>1. Redact(r) \/ CheckQuota(r)
    BY <1>1, OnlyTheHook
  <2>2. req[r].doc \cap req[r].rights = {}
    BY <1>1, <2>1, AnswerFacts DEF Gets
  <2>3. b \in req[r].rights
    BY <1>1, <2>1, AnswerFacts DEF HeldAlways, UserInv, UserSays
  <2>4. b \in req[r].doc
    BY <1>1, <2>1, AnswerFacts DEF OpenAlways, ItemSays
  <2>5. QED
    BY <2>2, <2>3, <2>4
<1>2. QED
  BY <1>1, Invariance, PTL DEF RedactedOnlyIfDenied, Spec
=============================================================================
