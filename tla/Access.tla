------------------------------- MODULE Access -------------------------------
(***************************************************************************)
(* Who sees a content item unredacted.  A user's rights are bits in the    *)
(* database, copied into the token a login or an exchange issues; an       *)
(* item's rights are bits in Solr, copied into the response cache; the     *)
(* redaction hook compares the two copies.  Two deployments share the      *)
(* database, Solr and the cache: the web app's API and the public API,     *)
(* which also exchanges a web app token for one of its own and asks the    *)
(* user's quota before it shows an item.  Rights change elsewhere, in the  *)
(* Django application and in the indexing; of the quota only the outcome   *)
(* is kept here, its working is module QuotaChecker.                       *)
(* One user is modelled: users share nothing but the cache.                *)
(***************************************************************************)
EXTENDS Integers

CONSTANTS
    Bits,          (* bits of a bitmap                                      *)
    GuestBit,      (* the bit of BufferUserPlanGuest                        *)
    UserBitmaps,   (* bitmaps the Django application gives to users         *)
    ItemBitmaps,   (* bitmaps the indexing gives to items                   *)
    Queries,       (* requests to Solr, each for one content item           *)
    Joined,        (* those whose body names the collection_items index     *)
    Sessions,      (* tokens of the user                                    *)
    Requests,      (* requests in flight at once                            *)
    UseDbUser,     (* deployments that set useDbUserInRequestContext        *)
    TokenLife,     (* expiresIn                                             *)
    CacheLife,     (* cacheTtlMs                                            *)
    Delay,         (* longest time a login or a request takes               *)
    MaxTime,       (* bound: last instant                                   *)
    MaxChanges     (* bound: changes of rights                              *)

Deployments == {"app", "api"}

ASSUME AccessAssumption ==
    /\ GuestBit \in Bits
    /\ UserBitmaps \subseteq SUBSET Bits
    /\ ItemBitmaps \subseteq SUBSET Bits
    /\ Queries # {} /\ Joined \subseteq Queries
    /\ UseDbUser \subseteq Deployments
    /\ {TokenLife, CacheLife, Delay, MaxTime, MaxChanges} \subseteq Nat

VARIABLES
    now,       (* the clock                                                 *)
    active,    (* is_active of the user                                     *)
    rights,    (* bitmap of the user in the database                        *)
    index,     (* query -> bitmap in Solr of the item it finds              *)
    cache,     (* query -> bitmap in the cached response and its expiry     *)
    session,   (* tokens, issued or being issued                            *)
    req,       (* requests for a content item                               *)
    spent,     (* whether the user's quota is used up                       *)
    changes,   (* changes of rights so far                                  *)
    gained,    (* history: instant the user last gained a bit               *)
    lost,      (* history: instant the user last lost a bit                 *)
    opened,    (* history: instant an item last gained a bit                *)
    closed     (* history: instant an item last lost a bit                  *)

history == <<gained, lost, opened, closed>>
vars == <<now, active, rights, index, cache, session, req, spent, changes, history>>

\* An instant before anything the model looks back to.
Never == -(TokenLife + CacheLife + 2 * Delay + 1)

\* Expiry of an absent entry, before any instant.
NoEntry == [rights |-> {}, until |-> -1]

NoSession == [pc |-> "none", for |-> "app", rights |-> {}, at |-> 0]

\* Of a request that is over only its outcome is kept.
AnyQuery == CHOOSE q \in Queries : TRUE
Over(outcome) ==
    [pc |-> outcome, query |-> AnyQuery, in |-> "app", guest |-> TRUE,
     rights |-> {}, doc |-> {}, at |-> 0]
NoRequest == Over("idle")

TypeOK ==
    /\ now \in 0..MaxTime
    /\ active \in BOOLEAN
    /\ rights \in SUBSET Bits
    /\ index \in [Queries -> SUBSET Bits]
    /\ cache \in [Queries -> [rights : SUBSET Bits, until : -1..now + CacheLife]]
    /\ session \in [Sessions -> [pc : {"none", "loaded", "issued"}, for : Deployments,
                                 rights : SUBSET Bits, at : 0..now]]
    /\ req \in [Requests -> [pc : {"idle", "select", "fetch", "redact", "quota", "full", "redacted"},
                             query : Queries, in : Deployments, guest : BOOLEAN,
                             rights : SUBSET Bits, doc : SUBSET Bits, at : 0..now]]
    /\ spent \in BOOLEAN
    /\ changes \in 0..MaxChanges
    /\ gained \in [Bits -> Never..now]
    /\ lost \in [Bits -> Never..now]
    /\ opened \in [Queries -> [Bits -> Never..now]]
    /\ closed \in [Queries -> [Bits -> Never..now]]
    /\ \A r \in Requests : req[r].guest => req[r].rights \subseteq {GuestBit}

Init ==
    /\ now = 0
    /\ active = TRUE
    /\ rights \in UserBitmaps
    /\ index \in [Queries -> ItemBitmaps]
    /\ cache = [q \in Queries |-> NoEntry]
    /\ session = [s \in Sessions |-> NoSession]
    /\ req = [r \in Requests |-> NoRequest]
    /\ spent = FALSE
    /\ changes = 0
    /\ gained = [b \in Bits |-> Never]
    /\ lost = [b \in Bits |-> Never]
    /\ opened = [q \in Queries |-> [b \in Bits |-> Never]]
    /\ closed = [q \in Queries |-> [b \in Bits |-> Never]]

-----------------------------------------------------------------------------
(* Rights change outside this program.                                     *)

\* Bits a login would be given: an inactive user cannot log in.
Held == IF active THEN rights ELSE {}

Stamped(stamps, bits) == [b \in Bits |-> IF b \in bits THEN now ELSE stamps[b]]

\* Records what the user gains and loses when its bits become H.
NoteUser(H) ==
    /\ gained' = Stamped(gained, H \ Held)
    /\ lost' = Stamped(lost, Held \ H)

SetUser(a, R) ==
    /\ changes < MaxChanges
    /\ changes' = changes + 1
    /\ active' = a
    /\ rights' = R
    /\ NoteUser(IF a THEN R ELSE {})
    /\ UNCHANGED <<now, index, cache, session, req, spent, opened, closed>>

SetItem(q, D) ==
    /\ changes < MaxChanges
    /\ changes' = changes + 1
    /\ index' = [index EXCEPT ![q] = D]
    /\ opened' = [opened EXCEPT ![q] = Stamped(opened[q], D \ index[q])]
    /\ closed' = [closed EXCEPT ![q] = Stamped(closed[q], index[q] \ D)]
    /\ UNCHANGED <<now, active, rights, cache, session, req, spent, gained, lost>>

-----------------------------------------------------------------------------
(* Tokens.                                                                 *)

Issued(s, d) == session[s].pc = "issued" /\ session[s].for = d

\* Verification of the access token: signature, audience, expiry.
Valid(s, d) == Issued(s, d) /\ now < session[s].at + TokenLife

\* The user is read from the database, active users only, with its bitmap; the
\* answer waits for the password's comparison and the update of lastLogin.
LoadUser(s, d) ==
    /\ active
    /\ session' = [session EXCEPT ![s] =
                       [pc |-> "loaded", for |-> d, rights |-> rights, at |-> now]]
    /\ UNCHANGED <<now, active, rights, index, cache, req, spent, changes, history>>

Login(s, d) == LoadUser(s, d)

\* Mutant: the exchange copies the payload of the token it verified.
ExchangePayload(s, a) ==
    /\ Valid(a, "app")
    /\ session' = [session EXCEPT ![s] =
                       [pc |-> "loaded", for |-> "api", rights |-> session[a].rights, at |-> now]]
    /\ UNCHANGED <<now, active, rights, index, cache, req, spent, changes, history>>

\* jwt-app: a valid web app token identifies the user, who is read afresh.
Exchange(s, a) == Valid(a, "app") /\ LoadUser(s, "api")

\* getPayload: the token carries the bits that were read.  Authenticating with a
\* token ("jwt") gives the same token back and issues nothing.
Issue(s) ==
    /\ session[s].pc = "loaded"
    /\ session' = [session EXCEPT ![s].pc = "issued", ![s].at = now]
    /\ UNCHANGED <<now, active, rights, index, cache, req, spent, changes, history>>

-----------------------------------------------------------------------------
(* Requests.                                                               *)

Pending(r) == req[r].pc \in {"select", "fetch", "redact", "quota"}

Begin(r, q, d, guest, R) ==
    /\ ~Pending(r)
    /\ req' = [req EXCEPT ![r] = [pc |-> "select", query |-> q, in |-> d, guest |-> guest,
                                  rights |-> R, doc |-> {}, at |-> now]]
    /\ UNCHANGED <<now, active, rights, index, cache, session, spent, changes, history>>

\* NoDBJWTStrategy takes the user from the token's payload.
BeginWithToken(r, q, s, d) ==
    /\ d \notin UseDbUser
    /\ Valid(s, d)
    /\ Begin(r, q, d, FALSE, session[s].rights)

\* JWTStrategy reads the user; an inactive one is NotFound and the request fails.
BeginWithDbUser(r, q, s, d) ==
    /\ d \in UseDbUser
    /\ Valid(s, d)
    /\ active
    /\ Begin(r, q, d, FALSE, rights)

\* Without a token, or with one that does not verify: a guest of the web app,
\* refused by the public API.
BeginAsGuest(r, q) == Begin(r, q, "app", TRUE, {GuestBit})

Cached(q) == now < cache[q].until

LookUp(r) ==
    /\ req[r].pc = "select"
    /\ IF Cached(req[r].query)
       THEN req' = [req EXCEPT ![r].pc = "redact", ![r].doc = cache[req[r].query].rights]
       ELSE \* Solr answers now; the response is on its way.
            req' = [req EXCEPT ![r].pc = "fetch", ![r].doc = index[req[r].query]]
    /\ UNCHANGED <<now, active, rights, index, cache, session, spent, changes, history>>

\* Mutant: the strategy of the cache is not asked.
CacheableAlways(q) == TRUE

\* notCachingCollectionItemsStrategy
Cacheable(q) == q \notin Joined

\* Mutant: the time to live is taken for a number of seconds.
ExpiryInSeconds == now + 1000 * CacheLife

Expiry == now + CacheLife

Store(r) ==
    /\ req[r].pc = "fetch"
    /\ req' = [req EXCEPT ![r].pc = "redact"]
    /\ cache' = IF Cacheable(req[r].query)
                THEN [cache EXCEPT ![req[r].query] =
                          [rights |-> req[r].doc, until |-> Expiry]]
                ELSE cache
    /\ UNCHANGED <<now, active, rights, index, session, spent, changes, history>>

\* Solr or the database fails: the request ends with an error.
RequestFails(r) ==
    /\ Pending(r)
    /\ req' = [req EXCEPT ![r] = NoRequest]
    /\ UNCHANGED <<now, active, rights, index, cache, session, spent, changes, history>>

\* Mutant: every bit of the item's bitmap is asked for.
AlignEveryBit(content, user) == content \subseteq user

\* bitmapsAlign: (content & user) != 0.  An item without a bitmap has all bits.
Align(content, user) == content \cap user # {}

\* unlessHasPermission, whichever way the item carries its bitmap.
HasPermission(r) == Align(req[r].doc, req[r].rights)

Answer(r, outcome) == req' = [req EXCEPT ![r] = Over(outcome)]

\* The redaction of a content item.  The web app serves a permitted item; the
\* public API (unlessHasPermissionAndWithinQuota) asks the user's quota first.
Redact(r) ==
    /\ req[r].pc = "redact"
    /\ \/ ~HasPermission(r) /\ Answer(r, "redacted")
       \/ HasPermission(r) /\ req[r].in = "app" /\ Answer(r, "full")
       \/ HasPermission(r) /\ req[r].in = "api" /\ req' = [req EXCEPT ![r].pc = "quota"]
    /\ UNCHANGED <<now, active, rights, index, cache, session, spent, changes, history>>

\* quotaChecker.check answers.  It refuses an item only when the quota is used
\* up, and not even then an item counted before; if it fails, the item is served.
CheckQuota(r) ==
    /\ req[r].pc = "quota"
    /\ Answer(r, "full") \/ (spent /\ Answer(r, "redacted"))
    /\ UNCHANGED <<now, active, rights, index, cache, session, spent, changes, history>>

-----------------------------------------------------------------------------
(* The environment.                                                        *)

\* Redis drops an entry before it expires.
Evict(q) ==
    /\ cache[q] # NoEntry
    /\ cache' = [cache EXCEPT ![q] = NoEntry]
    /\ UNCHANGED <<now, active, rights, index, session, req, spent, changes, history>>

\* The quota is used up, or its window ends.
QuotaMoves ==
    /\ spent' = ~spent
    /\ UNCHANGED <<now, active, rights, index, cache, session, req, changes, history>>

\* Logins and requests are answered, or fail, within Delay.
Tick ==
    /\ now < MaxTime
    /\ \A s \in Sessions : session[s].pc = "loaded" => now < session[s].at + Delay
    /\ \A r \in Requests : Pending(r) => now < req[r].at + Delay
    /\ now' = now + 1
    /\ UNCHANGED <<active, rights, index, cache, session, req, spent, changes, history>>

Next ==
    \/ \E a \in BOOLEAN, R \in UserBitmaps : SetUser(a, R)
    \/ \E q \in Queries, D \in ItemBitmaps : SetItem(q, D)
    \/ \E s \in Sessions, d \in Deployments : Login(s, d)
    \/ \E s, a \in Sessions : Exchange(s, a)
    \/ \E s \in Sessions : Issue(s)
    \/ \E r \in Requests, q \in Queries, s \in Sessions, d \in Deployments :
          BeginWithToken(r, q, s, d) \/ BeginWithDbUser(r, q, s, d)
    \/ \E r \in Requests, q \in Queries : BeginAsGuest(r, q)
    \/ \E r \in Requests : \/ LookUp(r) \/ Store(r) \/ Redact(r) \/ CheckQuota(r)
                           \/ RequestFails(r)
    \/ \E q \in Queries : Evict(q)
    \/ QuotaMoves
    \/ Tick

Spec == Init /\ [][Next]_vars

-----------------------------------------------------------------------------
(* Properties.                                                             *)

\* The user held b, or the item was open to b, at some instant from t on.
HeldSince(b, t) == b \in Held \/ lost[b] >= t
OpenSince(q, b, t) == b \in index[q] \/ closed[q][b] >= t

\* The same, at every instant from t on.
HeldThroughout(b, t) == b \in Held /\ gained[b] < t
OpenThroughout(q, b, t) == b \in index[q] /\ opened[q][b] < t

\* How old the rights a request was begun with, and those it finds, may be.
RightsAge(d) == IF d \in UseDbUser THEN 0 ELSE TokenLife + Delay
ItemAge(q) == IF q \in Joined THEN 0 ELSE CacheLife + Delay

HeldBy(r, b) ==
    IF req[r].guest THEN b = GuestBit ELSE HeldSince(b, req[r].at - RightsAge(req[r].in))
OpenTo(r, b) == OpenSince(req[r].query, b, req[r].at - ItemAge(req[r].query))

HeldAlways(r, b) ==
    IF req[r].guest THEN b = GuestBit ELSE HeldThroughout(b, req[r].at - RightsAge(req[r].in))
OpenAlways(r, b) == OpenThroughout(req[r].query, b, req[r].at - ItemAge(req[r].query))

\* The request's answer, or the call to the quota checker, which charges the item.
Gets(r, outcome) == req[r].pc # outcome /\ req'[r].pc = outcome

(* An item is served in full, or charged to the quota of the public API,   *)
(* only through a bit that the user held within the life of a token before *)
(* the request, and that the item had in the index within the life of a    *)
(* cache entry: tokens cannot be renewed or exchanged, nor entries         *)
(* refreshed, so that a right taken away lives on.  With                   *)
(* useDbUserInRequestContext the user must have held it during the         *)
(* request, and a query of the collections' index is never answered from   *)
(* the past.                                                               *)
FullOnlyIfGranted ==
    [][\A r \in Requests :
          Gets(r, "full") \/ Gets(r, "quota") => \E b \in Bits : HeldBy(r, b) /\ OpenTo(r, b)]_vars

(* The converse: an item is redacted only if no bit was held by the user   *)
(* and open on the item all that time, or if the public API was asked      *)
(* while the user's quota is used up.                                      *)
RedactedOnlyIfDenied ==
    [][\A r \in Requests :
          Gets(r, "redacted") => \/ req[r].in = "api" /\ spent
                                 \/ ~\E b \in Bits : HeldAlways(r, b) /\ OpenAlways(r, b)]_vars
=============================================================================
