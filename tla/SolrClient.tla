----------------------------- MODULE SolrClient -----------------------------
(***************************************************************************)
(* The Solr client of internalServices/simpleSolr.ts with its cache in     *)
(* Redis, over the pooled HTTP client of utils/http/client/node.ts.        *)
(*                                                                         *)
(* A request looks its own digest up in the cache, takes a connection of   *)
(* the pool (or gives up after 25 s), is sent, and sent again after a      *)
(* network error, gives the connection back, and its answer is cached      *)
(* unless it mentions the collection_items index.  Updates go the same way *)
(* as searches, through the cache too.                                     *)
(*                                                                         *)
(* An index is only its version, and the main one, which is written by     *)
(* other tools, has one.  One request of each kind is modelled: a search   *)
(* of the main index ("plain"), one that joins collection_items in its     *)
(* body ("join"), one of that index ("direct"), and an update of it        *)
(* ("update"), committed by Solr before it answers.                        *)
(***************************************************************************)
EXTENDS Integers, FiniteSets

CONSTANTS
  Callers,         \* those who send requests
  MaxConnections,  \* size of the pool
  MaxRetries,      \* requests sent again after an error
  MaxVersion       \* bound: versions of collection_items

ASSUME CallersAssumption == IsFiniteSet(Callers)
ASSUME SizesAssumption ==
  MaxConnections \in Nat \ {0} /\ MaxRetries \in Nat /\ MaxVersion \in Nat

VARIABLES
  members,  \* version of collection_items
  cache,    \* what Redis answers to each kind of request, or Nothing
  call,     \* the request of each caller
  out       \* the callers that hold a connection of the pool

clientVars == <<members, cache, call, out>>

Kinds == {"plain", "join", "direct", "update"}
Nothing == -1
Versions == 0..MaxVersion

\* The name of the collection_items index is in the URL, or in the body.
InUrl(kind) == kind \in {"direct", "update"}
InBody(kind) == kind = "join"
Mentions(kind) == InUrl(kind) \/ InBody(kind)

Version(kind) == IF kind = "plain" THEN 0 ELSE members

Steps == {"idle", "lookup", "acquire", "sent", "received", "refused", "store", "done", "failed"}

NoCall == [pc |-> "idle", kind |-> "plain", since |-> 0, errors |-> 0, answer |-> Nothing]

ClientInit ==
  /\ members = 0
  /\ cache = [kind \in Kinds |-> Nothing]
  /\ call = [c \in Callers |-> NoCall]
  /\ out = {}

Go(c, pc) == call' = [call EXCEPT ![c].pc = pc]
GiveUp(c, pc) == call' = [call EXCEPT ![c] = [NoCall EXCEPT !.pc = pc]]

(* since: the version everything that has already returned can tell of. *)
Begin(c, kind) ==
  /\ call[c].pc = "idle"
  /\ call' = [call EXCEPT ![c] = [NoCall EXCEPT !.pc = "lookup", !.kind = kind,
                                                !.since = Version(kind)]]
  /\ UNCHANGED <<members, cache, out>>

(* The cache is asked first, whatever the request. *)
Lookup(c) ==
  LET cached == cache[call[c].kind] IN
  /\ call[c].pc = "lookup"
  /\ IF cached = Nothing THEN Go(c, "acquire") ELSE call' = [call EXCEPT ![c].pc = "done", ![c].answer = cached]
  /\ UNCHANGED <<members, cache, out>>

Full == Cardinality(out) >= MaxConnections

Acquire(c) ==
  /\ call[c].pc = "acquire"
  /\ ~Full
  /\ out' = out \cup {c}
  /\ Go(c, "sent")
  /\ UNCHANGED <<members, cache>>

\* The pool throws, before the try whose finally gives a connection back.
AcquireTimeout(c) ==
  /\ call[c].pc = "acquire"
  /\ Full
  /\ GiveUp(c, "failed")
  /\ UNCHANGED <<members, cache, out>>

(* What Solr does with a request that reaches it. *)
Applied(c) ==
  IF call[c].kind = "update"
  THEN members < MaxVersion /\ members' = members + 1
  ELSE members' = members

Answer(c) ==
  /\ call[c].pc = "sent"
  /\ Applied(c)
  /\ call' = [call EXCEPT ![c].pc = "received", ![c].errors = 0,
                          ![c].answer = IF call[c].kind = "plain" THEN 0 ELSE members']
  /\ UNCHANGED <<cache, out>>

(* A network error or a status of the retry list, before or after Solr has *)
(* done what was asked.  The retry callback looks only at the count: it    *)
(* takes the place of the one that would spare POST.                       *)
Error(c) ==
  /\ call[c].pc = "sent"
  /\ Applied(c) \/ members' = members
  /\ LET errors == call[c].errors + 1 IN
     IF errors <= MaxRetries THEN call' = [call EXCEPT ![c].errors = errors]
                             ELSE GiveUp(c, "refused")
  /\ UNCHANGED <<cache, out>>

\* Another status that is not a success is thrown by checkResponseStatus.
BadStatus(c) ==
  /\ call[c].pc = "sent"
  /\ GiveUp(c, "refused")
  /\ UNCHANGED <<members, cache, out>>

\* Mutant: the connection comes back only after a success.
ReleaseAnswered(c) ==
  /\ call[c].pc \in {"received", "refused"}
  /\ out' = IF call[c].pc = "received" THEN out \ {c} ELSE out
  /\ Go(c, IF call[c].pc = "received" THEN "store" ELSE "failed")
  /\ UNCHANGED <<members, cache>>

(* The finally of the pooled fetch. *)
Release(c) ==
  /\ call[c].pc \in {"received", "refused"}
  /\ out' = out \ {c}
  /\ Go(c, IF call[c].pc = "received" THEN "store" ELSE "failed")
  /\ UNCHANGED <<members, cache>>

\* Mutant: the strategy looks only at the URL.
UrlStrategy(kind) == IF InUrl(kind) THEN "bypass" ELSE "cache"

cachingStrategy(kind) == IF Mentions(kind) THEN "bypass" ELSE "cache"

Store(c) ==
  /\ call[c].pc = "store"
  /\ cache' = IF cachingStrategy(call[c].kind) = "cache"
              THEN [cache EXCEPT ![call[c].kind] = call[c].answer] ELSE cache
  /\ Go(c, "done")
  /\ UNCHANGED <<members, out>>

Return(c) ==
  /\ call[c].pc \in {"done", "failed"}
  /\ call' = [call EXCEPT ![c] = NoCall]
  /\ UNCHANGED <<members, cache, out>>

Fetch(c) ==
  \/ Lookup(c) \/ Acquire(c) \/ AcquireTimeout(c)
  \/ Answer(c) \/ Error(c) \/ BadStatus(c) \/ Release(c) \/ Store(c)

(* A key reaches its TTL of 30 days, or Redis drops it. *)
Forget(kind) ==
  /\ cache[kind] # Nothing
  /\ cache' = [cache EXCEPT ![kind] = Nothing]
  /\ UNCHANGED <<members, call, out>>

-----------------------------------------------------------------------------
CallType == [pc : Steps, kind : Kinds, since : Versions, errors : 0..(MaxRetries + 1),
             answer : Versions \cup {Nothing}]

ClientType ==
  /\ members \in Versions
  /\ cache \in [Kinds -> Versions \cup {Nothing}]
  /\ call \in [Callers -> CallType]
  /\ out \in SUBSET Callers

\* The connections that are out are those of the requests being sent, and
\* are no more than the pool has: whatever way a request ends, its
\* connection came back.
PoolSound ==
  /\ out = {c \in Callers : call[c].pc \in {"sent", "received", "refused"}}
  /\ Cardinality(out) <= MaxConnections

\* A search that touches collection_items never answers with less than what
\* was there when it was asked, and an update that returns has been applied
\* since it was asked: no user misses the items they just added, and adding
\* them, removing them and adding them again is not answered from the cache.
\* cacheControl.ts: "direct and join requests to collection_items index are
\* never cached".
CollectionFresh ==
  \A c \in Callers :
    call[c].pc = "done" /\ Mentions(call[c].kind) =>
      IF call[c].kind = "update" THEN call[c].answer > call[c].since
                                 ELSE call[c].answer >= call[c].since
=============================================================================
