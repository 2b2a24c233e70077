--------------------------- MODULE StartupProofs ---------------------------
(***************************************************************************)
(* Proofs about Startup and the Solr client below it, for any callers,     *)
(* pool, number of retries and startup jobs.                               *)
(***************************************************************************)
EXTENDS Startup, FiniteSetTheorems, TLAPS

Holding == {"sent", "received", "refused"}

\* What the request of a caller has been told, once it has been told.
Told(r) ==
  r.pc \in {"received", "store", "done"} =>
    IF r.kind = "update" THEN r.answer > r.since ELSE r.answer >= r.since

Sound(c) == Mentions(call[c].kind) => call[c].since <= members /\ Told(call[c])

\* Nothing that mentions collection_items is in the cache, so every answer
\* to it came from Solr after the request was made.
FreshInv ==
  /\ \A kind \in Kinds : Mentions(kind) => cache[kind] = Nothing
  /\ \A c \in Callers : Sound(c)

\* A job that is to ask has a page left; the cache of a filled one is there,
\* or was lost.
JobInv ==
  /\ \A j \in Jobs : job[j] \in {"waiting", "asking", "between"} => left[j] > 0
  /\ \A j \in Jobs : job[j] = "filled" => j \in well \cup lost

ClientInv == ClientType /\ PoolSound /\ FreshInv

JobType ==
  /\ well \in SUBSET Jobs
  /\ lost \in SUBSET Jobs
  /\ job \in [Jobs -> {"waiting", "asking", "between", "built", "filled", "failed", "thrown"}]
  /\ left \in [Jobs -> Nat]
  /\ ready \in BOOLEAN
  /\ memo \in {"none", "empty", "full"}
  /\ restarts \in 0..MaxRestarts

IInv == ClientInv /\ JobType /\ JobInv

-----------------------------------------------------------------------------
(* The client.                                                             *)

LEMMA NoCallType == NoCall \in CallType /\ ~Mentions(NoCall.kind)
BY SizesAssumption
   DEF NoCall, CallType, Steps, Kinds, Versions, Nothing, Mentions, InUrl, InBody

\* The record of one caller is replaced.
LEMMA Replaced ==
  ASSUME ClientType, NEW c \in Callers, NEW new \in CallType, call' = [call EXCEPT ![c] = new]
  PROVE  /\ call' \in [Callers -> CallType]
         /\ call'[c] = new
         /\ \A d \in Callers \ {c} : call'[d] = call[d]
BY DEF ClientType

\* A step of one caller that leaves the pool as it should be, and its own
\* request sound, keeps the invariant of the client.
LEMMA ClientKept ==
  ASSUME ClientInv, NEW c \in Callers, NEW new \in CallType, call' = [call EXCEPT ![c] = new],
         members' \in Versions, members' >= members,
         cache' \in [Kinds -> Versions \cup {Nothing}],
         \A kind \in Kinds : Mentions(kind) => cache'[kind] = cache[kind],
         out' = IF new.pc \in Holding THEN out \cup {c} ELSE out \ {c},
         new.pc \in Holding => (c \in out \/ ~Full),
         Mentions(new.kind) => new.since <= members' /\ Told(new)
  PROVE  ClientInv'
<1>1. /\ call' \in [Callers -> CallType]
      /\ call'[c] = new
      /\ \A d \in Callers \ {c} : call'[d] = call[d]
  BY Replaced DEF ClientInv
<1>2. out \in SUBSET Callers /\ IsFiniteSet(out)
  BY CallersAssumption, FS_Subset DEF ClientInv, ClientType
<1>3. ClientType'
  BY <1>1, <1>2 DEF ClientType
<1>4. PoolSound'
  <2>1. out = {d \in Callers : call[d].pc \in Holding} /\ Cardinality(out) <= MaxConnections
    BY DEF ClientInv, PoolSound, Holding
  <2>2. out' = {d \in Callers : call'[d].pc \in Holding}
    BY <1>1, <2>1
  <2>3. Cardinality(out) \in Nat /\ MaxConnections \in Nat
    BY <1>2, FS_CardinalityType, SizesAssumption
  <2>4. CASE new.pc \in Holding
    <3>1. Cardinality(out') = IF c \in out THEN Cardinality(out) ELSE Cardinality(out) + 1
      BY <1>2, <2>4, FS_AddElement
    <3>2. c \in out \/ Cardinality(out) < MaxConnections
      BY <2>3, <2>4 DEF Full
    <3>3. Cardinality(out') <= MaxConnections
      BY <2>1, <2>3, <3>1, <3>2
    <3>4. QED
      BY <2>2, <3>3 DEF PoolSound, Holding
  <2>5. CASE new.pc \notin Holding
    <3>1. Cardinality(out') = IF c \in out THEN Cardinality(out) - 1 ELSE Cardinality(out)
      BY <1>2, <2>5, FS_RemoveElement
    <3>2. Cardinality(out') <= MaxConnections
      BY <2>1, <2>3, <3>1
    <3>3. QED
      BY <2>2, <3>2 DEF PoolSound, Holding
  <2>6. QED
    BY <2>4, <2>5
<1>5. FreshInv'
  <2>1. \A kind \in Kinds : Mentions(kind) => cache'[kind] = Nothing
    BY DEF ClientInv, FreshInv
  <2>2. ASSUME NEW d \in Callers PROVE Sound(d)'
    <3>1. CASE d = c
      BY <1>1, <3>1 DEF Sound, Told
    <3>2. CASE d # c
      <4>1. call'[d] = call[d] /\ Sound(d)
        BY <1>1, <3>2 DEF ClientInv, FreshInv
      <4>2. call[d].since \in Int /\ members \in Int /\ members' \in Int
        BY DEF ClientInv, ClientType, CallType, Versions
      <4>3. QED
        BY <4>1, <4>2 DEF Sound, Told
    <3>3. QED
      BY <3>1, <3>2
  <2>3. QED
    BY <2>1, <2>2 DEF FreshInv
<1>6. QED
  BY <1>3, <1>4, <1>5 DEF ClientInv

\* A record with one field changed.
LEMMA Moved ==
  ASSUME ClientType, NEW c \in Callers, NEW pc \in Steps
  PROVE  /\ call[c] \in CallType
         /\ [call[c] EXCEPT !.pc = pc] \in CallType
         /\ [call[c] EXCEPT !.pc = pc].pc = pc
         /\ [call[c] EXCEPT !.pc = pc].kind = call[c].kind
         /\ [call[c] EXCEPT !.pc = pc].since = call[c].since
         /\ [call[c] EXCEPT !.pc = pc].answer = call[c].answer
         /\ Go(c, pc) => call' = [call EXCEPT ![c] = [call[c] EXCEPT !.pc = pc]]
         /\ [NoCall EXCEPT !.pc = pc] \in CallType
         /\ [NoCall EXCEPT !.pc = pc].pc = pc
         /\ ~Mentions([NoCall EXCEPT !.pc = pc].kind)
<1>1. call \in [Callers -> CallType] /\ call[c] \in CallType
  BY DEF ClientType
<1>2. NoCall \in CallType /\ ~Mentions(NoCall.kind)
  BY NoCallType
<1>3. Go(c, pc) => call' = [call EXCEPT ![c] = [call[c] EXCEPT !.pc = pc]]
  BY <1>1 DEF Go
<1>4. [NoCall EXCEPT !.pc = pc].kind = NoCall.kind
  BY DEF NoCall
<1>5. QED
  BY <1>1, <1>2, <1>3, <1>4 DEF CallType, NoCall

LEMMA InOut ==
  ASSUME ClientInv, NEW c \in Callers
  PROVE  /\ c \in out <=> call[c].pc \in Holding
         /\ members \in Versions /\ members \in Int
         /\ cache \in [Kinds -> Versions \cup {Nothing}]
         /\ call[c] \in CallType
         /\ Sound(c)
         /\ ClientType
BY DEF ClientInv, PoolSound, ClientType, Holding, FreshInv, Versions

\* The same for a step that changes neither Solr nor the cache.
LEMMA CallKept ==
  ASSUME ClientInv, NEW c \in Callers, NEW new \in CallType, call' = [call EXCEPT ![c] = new],
         UNCHANGED <<members, cache>>,
         out' = IF new.pc \in Holding THEN out \cup {c} ELSE out \ {c},
         new.pc \in Holding => (c \in out \/ ~Full),
         Mentions(new.kind) => new.since <= members /\ Told(new)
  PROVE  ClientInv'
<1>1. /\ members' \in Versions /\ members' >= members /\ members' = members
      /\ cache' \in [Kinds -> Versions \cup {Nothing}] /\ cache' = cache
  BY InOut
<1>2. QED
  BY <1>1, ClientKept

LEMMA BeginInv ==
  ASSUME ClientInv, NEW c \in Callers, NEW kind \in Kinds, Begin(c, kind)
  PROVE  ClientInv'
<1> DEFINE new == [NoCall EXCEPT !.pc = "lookup", !.kind = kind, !.since = Version(kind)]
<1>1. Version(kind) \in Versions /\ (Mentions(kind) => Version(kind) = members)
  BY InOut, SizesAssumption
     DEF Version, Versions, Mentions, InUrl, InBody, Kinds
<1>2. /\ new \in CallType /\ new.pc = "lookup" /\ new.kind = kind /\ new.since = Version(kind)
  BY <1>1, NoCallType DEF CallType, NoCall, Steps
<1>3. /\ call' = [call EXCEPT ![c] = new] /\ UNCHANGED <<members, cache, out>>
      /\ call[c].pc = "idle"
  BY DEF Begin
<1>4. c \notin out
  BY <1>3, InOut DEF Holding
<1> HIDE DEF new
<1>5. out' = (IF new.pc \in Holding THEN out \cup {c} ELSE out \ {c}) /\ new.pc \notin Holding
  BY <1>2, <1>3, <1>4 DEF Holding
<1>6. Mentions(new.kind) => new.since <= members /\ Told(new)
  BY <1>1, <1>2, InOut DEF Told
<1>7. QED
  BY <1>2, <1>3, <1>5, <1>6, CallKept

LEMMA LookupInv ==
  ASSUME ClientInv, NEW c \in Callers, Lookup(c)
  PROVE  ClientInv'
<1>1. /\ call[c].pc = "lookup" /\ c \notin out /\ UNCHANGED <<members, cache, out>>
  BY InOut DEF Lookup, Holding
<1>2. CASE cache[call[c].kind] = Nothing
  <2> DEFINE new == [call[c] EXCEPT !.pc = "acquire"]
  <2>1. /\ new \in CallType /\ new.pc = "acquire" /\ new.kind = call[c].kind
        /\ new.since = call[c].since
    BY InOut, Moved DEF Steps
  <2>2. call' = [call EXCEPT ![c] = new]
    BY <1>2, InOut, Moved DEF Lookup, Steps
  <2> HIDE DEF new
  <2>3. out' = (IF new.pc \in Holding THEN out \cup {c} ELSE out \ {c}) /\ new.pc \notin Holding
    BY <1>1, <2>1 DEF Holding
  <2>4. Mentions(new.kind) => new.since <= members /\ Told(new)
    BY <2>1, InOut DEF Told, Sound
  <2>5. QED
    BY <1>1, <2>1, <2>2, <2>3, <2>4, CallKept
<1>3. CASE cache[call[c].kind] # Nothing
  <2> DEFINE new == [call[c] EXCEPT !.pc = "done", !.answer = cache[call[c].kind]]
  <2>1. call[c] \in CallType /\ cache[call[c].kind] \in Versions \cup {Nothing}
    BY InOut DEF CallType
  <2>2. /\ new \in CallType /\ new.pc = "done" /\ new.kind = call[c].kind
    BY <2>1 DEF CallType, Steps
  <2>3. call' = [call EXCEPT ![c] = new]
    BY <1>3, InOut DEF Lookup, ClientType
  <2>4. ~Mentions(call[c].kind)
    BY <1>3, <2>1 DEF ClientInv, FreshInv, CallType
  <2> HIDE DEF new
  <2>5. out' = (IF new.pc \in Holding THEN out \cup {c} ELSE out \ {c}) /\ new.pc \notin Holding
    BY <1>1, <2>2 DEF Holding
  <2>6. QED
    BY <1>1, <2>2, <2>3, <2>4, <2>5, CallKept
<1>4. QED
  BY <1>2, <1>3

LEMMA AcquireInv ==
  ASSUME ClientInv, NEW c \in Callers, Acquire(c)
  PROVE  ClientInv'
<1> DEFINE new == [call[c] EXCEPT !.pc = "sent"]
<1>1. /\ new \in CallType /\ new.pc = "sent" /\ new.kind = call[c].kind
      /\ new.since = call[c].since
  BY InOut, Moved DEF Steps
<1>2. call' = [call EXCEPT ![c] = new]
  BY InOut, Moved DEF Acquire, Steps
<1>3. out' = out \cup {c} /\ ~Full /\ UNCHANGED <<members, cache>>
  BY DEF Acquire
<1> HIDE DEF new
<1>4. out' = (IF new.pc \in Holding THEN out \cup {c} ELSE out \ {c})
  BY <1>1, <1>3 DEF Holding
<1>5. Mentions(new.kind) => new.since <= members /\ Told(new)
  BY <1>1, InOut DEF Told, Sound
<1>6. QED
  BY <1>1, <1>2, <1>3, <1>4, <1>5, CallKept

\* A request that is given up holds a connection exactly if it is refused.
LEMMA GiveUpInv ==
  ASSUME ClientInv, NEW c \in Callers, NEW pc \in {"refused", "failed"}, GiveUp(c, pc),
         members' \in Versions, members' >= members, UNCHANGED <<cache, out>>,
         c \in out <=> pc = "refused"
  PROVE  ClientInv'
<1> DEFINE new == [NoCall EXCEPT !.pc = pc]
<1>1. pc \in Steps
  BY DEF Steps
<1>2. new \in CallType /\ new.pc = pc /\ ~Mentions(new.kind)
  BY <1>1, InOut, Moved
<1>3. call' = [call EXCEPT ![c] = new]
  BY DEF GiveUp
<1> HIDE DEF new
<1>4. QED
  BY <1>2, <1>3, InOut, ClientKept DEF Holding

LEMMA AppliedFacts ==
  ASSUME ClientInv, NEW c \in Callers, Applied(c) \/ members' = members
  PROVE  members' \in Versions /\ members' >= members /\ members' \in Int
<1>1. members \in 0..MaxVersion /\ MaxVersion \in Nat
  BY InOut, SizesAssumption DEF Versions
<1>2. QED
  BY <1>1 DEF Applied, Versions

LEMMA AnswerInv ==
  ASSUME ClientInv, NEW c \in Callers, Answer(c)
  PROVE  ClientInv'
<1> DEFINE answer == IF call[c].kind = "plain" THEN 0 ELSE members'
           new == [call[c] EXCEPT !.pc = "received", !.errors = 0, !.answer = answer]
<1>1. /\ members' \in Versions /\ members' >= members /\ members' \in Int /\ 0 \in Versions
  BY AppliedFacts, SizesAssumption DEF Answer, Versions
<1>2. call[c] \in CallType /\ answer \in Versions /\ 0 \in 0..(MaxRetries + 1)
  BY <1>1, InOut, SizesAssumption
<1>3. /\ new \in CallType /\ new.pc = "received" /\ new.kind = call[c].kind
      /\ new.since = call[c].since /\ new.answer = answer
  BY <1>2 DEF CallType, Steps
<1>4. call' = [call EXCEPT ![c] = new]
  BY InOut DEF Answer, ClientType
<1>5. call[c].pc = "sent" /\ c \in out /\ UNCHANGED <<cache, out>>
  BY InOut DEF Answer, Holding
<1>6. Mentions(call[c].kind) => call[c].since <= members' /\ Told(new)
  <2>1. SUFFICES ASSUME Mentions(call[c].kind) PROVE call[c].since <= members' /\ Told(new)
    OBVIOUS
  <2>2. call[c].since <= members /\ answer = members' /\ call[c].since \in Int /\ members \in Int
    BY <1>2, <2>1, InOut DEF Sound, Mentions, InUrl, InBody, CallType, Versions
  <2>3. call[c].kind = "update" => members' = members + 1
    BY DEF Answer, Applied
  <2>4. call[c].since <= members' /\ (call[c].kind = "update" => members' > call[c].since)
    BY <1>1, <2>2, <2>3
  <2> HIDE DEF new, answer
  <2>5. QED
    BY <1>1, <1>3, <2>2, <2>4 DEF Told
<1> HIDE DEF new, answer
<1>7. QED
  BY <1>1, <1>3, <1>4, <1>5, <1>6, InOut, ClientKept DEF Holding

LEMMA ErrorInv ==
  ASSUME ClientInv, NEW c \in Callers, Error(c)
  PROVE  ClientInv'
<1>1. /\ members' \in Versions /\ members' >= members /\ members' \in Int
  BY AppliedFacts DEF Error
<1>2. call[c].pc = "sent" /\ c \in out /\ UNCHANGED <<cache, out>>
  BY InOut DEF Error, Holding
<1>3. CASE GiveUp(c, "refused")
  BY <1>1, <1>2, <1>3, GiveUpInv
<1>4. CASE call[c].errors + 1 <= MaxRetries /\ call' = [call EXCEPT ![c].errors = call[c].errors + 1]
  <2> DEFINE new == [call[c] EXCEPT !.errors = call[c].errors + 1]
  <2>1. call[c] \in CallType /\ MaxRetries \in Nat /\ call[c].errors + 1 \in 0..(MaxRetries + 1)
    BY <1>4, InOut, SizesAssumption DEF CallType
  <2>2. /\ new \in CallType /\ new.pc = "sent" /\ new.kind = call[c].kind
        /\ new.since = call[c].since
    BY <1>2, <2>1 DEF CallType
  <2>3. call' = [call EXCEPT ![c] = new]
    BY <1>4, InOut DEF ClientType
  <2> HIDE DEF new
  <2>4. out' = (IF new.pc \in Holding THEN out \cup {c} ELSE out \ {c})
    BY <1>2, <2>2 DEF Holding
  <2>5. Mentions(new.kind) => new.since <= members' /\ Told(new)
    <3>1. call[c].since \in Int /\ members \in Int
      BY InOut DEF CallType, Versions
    <3>2. Mentions(call[c].kind) => call[c].since <= members
      BY InOut DEF Sound
    <3>3. QED
      BY <1>1, <2>2, <3>1, <3>2 DEF Told
  <2>6. cache' \in [Kinds -> Versions \cup {Nothing}] /\ cache' = cache
    BY <1>2, InOut
  <2>7. QED
    BY <1>1, <1>2, <2>2, <2>3, <2>4, <2>5, <2>6, ClientKept
<1>5. QED
  BY <1>3, <1>4 DEF Error

LEMMA FailureInv ==
  ASSUME ClientInv, NEW c \in Callers, AcquireTimeout(c) \/ BadStatus(c)
  PROVE  ClientInv'
<1>1. members' \in Versions /\ members' >= members /\ UNCHANGED <<cache, out>>
  BY InOut DEF AcquireTimeout, BadStatus
<1>2. CASE AcquireTimeout(c)
  <2>1. c \notin out /\ GiveUp(c, "failed")
    BY <1>2, InOut DEF AcquireTimeout, Holding
  <2>2. QED
    BY <1>1, <2>1, GiveUpInv
<1>3. CASE BadStatus(c)
  <2>1. c \in out /\ GiveUp(c, "refused")
    BY <1>3, InOut DEF BadStatus, Holding
  <2>2. QED
    BY <1>1, <2>1, GiveUpInv
<1>4. QED
  BY <1>2, <1>3

LEMMA ReleaseInv ==
  ASSUME ClientInv, NEW c \in Callers, Release(c)
  PROVE  ClientInv'
<1> DEFINE pc == IF call[c].pc = "received" THEN "store" ELSE "failed"
           new == [call[c] EXCEPT !.pc = pc]
<1>1. pc \in Steps /\ pc \notin Holding
  BY DEF Steps, Holding
<1>2. Go(c, pc) /\ out' = out \ {c} /\ UNCHANGED <<members, cache>>
  BY DEF Release
<1>3. pc \in {"received", "store", "done"} => call[c].pc = "received"
  OBVIOUS
<1> HIDE DEF pc
<1>4. /\ new \in CallType /\ new.pc = pc /\ new.kind = call[c].kind
      /\ new.since = call[c].since /\ new.answer = call[c].answer
  BY <1>1, InOut, Moved
<1>5. call' = [call EXCEPT ![c] = new]
  BY <1>1, <1>2, InOut, Moved
<1> HIDE DEF new
<1>6. Mentions(new.kind) => new.since <= members /\ Told(new)
  BY <1>3, <1>4, InOut DEF Told, Sound
<1>7. QED
  BY <1>1, <1>2, <1>4, <1>5, <1>6, CallKept

LEMMA StoreInv ==
  ASSUME ClientInv, NEW c \in Callers, Store(c)
  PROVE  ClientInv'
<1> DEFINE new == [call[c] EXCEPT !.pc = "done"]
<1>1. /\ new \in CallType /\ new.pc = "done" /\ new.kind = call[c].kind
      /\ new.since = call[c].since /\ new.answer = call[c].answer
  BY InOut, Moved DEF Steps
<1>2. call' = [call EXCEPT ![c] = new]
  BY InOut, Moved DEF Store, Steps
<1>3. call[c].pc = "store" /\ c \notin out /\ UNCHANGED <<members, out>>
  BY InOut DEF Store, Holding
<1> HIDE DEF new
<1>4. out' = (IF new.pc \in Holding THEN out \cup {c} ELSE out \ {c}) /\ new.pc \notin Holding
  BY <1>1, <1>3 DEF Holding
<1>5. Mentions(new.kind) => new.since <= members' /\ Told(new)
  BY <1>1, <1>3, InOut DEF Told, Sound
<1>6. members' \in Versions /\ members' >= members
  BY <1>3, InOut
<1>7. /\ cache' \in [Kinds -> Versions \cup {Nothing}]
      /\ \A kind \in Kinds : Mentions(kind) => cache'[kind] = cache[kind]
  <2>1. cache \in [Kinds -> Versions \cup {Nothing}]
    BY InOut
  <2>2. call[c].answer \in Versions \cup {Nothing} /\ call[c].kind \in Kinds
    BY InOut DEF CallType
  <2>3. CASE Mentions(call[c].kind)
    BY <2>1, <2>3 DEF Store, cachingStrategy
  <2>4. CASE ~Mentions(call[c].kind)
    <3>1. cache' = [cache EXCEPT ![call[c].kind] = call[c].answer]
      BY <2>4 DEF Store, cachingStrategy
    <3>2. QED
      BY <2>1, <2>2, <2>4, <3>1
  <2>5. QED
    BY <2>3, <2>4
<1>8. QED
  BY <1>1, <1>2, <1>4, <1>5, <1>6, <1>7, ClientKept

LEMMA ReturnInv ==
  ASSUME ClientInv, NEW c \in Callers, Return(c)
  PROVE  ClientInv'
<1>1. NoCall \in CallType /\ ~Mentions(NoCall.kind) /\ NoCall.pc \notin Holding
  BY NoCallType DEF NoCall, Holding
<1>2. c \notin out /\ UNCHANGED <<members, cache, out>> /\ call' = [call EXCEPT ![c] = NoCall]
  BY InOut DEF Return, Holding
<1>3. out' = (IF NoCall.pc \in Holding THEN out \cup {c} ELSE out \ {c})
  BY <1>1, <1>2
<1>4. QED
  BY <1>1, <1>2, <1>3, CallKept

LEMMA FetchInv ==
  ASSUME ClientInv, NEW c \in Callers, Fetch(c)
  PROVE  ClientInv'
BY LookupInv, AcquireInv, AnswerInv, ErrorInv, FailureInv, ReleaseInv, StoreInv DEF Fetch

LEMMA ForgetInv ==
  ASSUME ClientInv, NEW kind \in Kinds, Forget(kind)
  PROVE  ClientInv'
<1>1. cache' \in [Kinds -> Versions \cup {Nothing}] /\ UNCHANGED <<members, call, out>>
  BY DEF Forget, ClientInv, ClientType
<1>2. \A k \in Kinds : Mentions(k) => cache'[k] = Nothing
  BY DEF Forget, ClientInv, ClientType, FreshInv
<1>3. ClientType'
  BY <1>1 DEF ClientInv, ClientType
<1>4. PoolSound'
  BY <1>1 DEF ClientInv, PoolSound
<1>5. \A c \in Callers : Sound(c)'
  BY <1>1 DEF ClientInv, FreshInv, Sound, Told
<1>6. QED
  BY <1>2, <1>3, <1>4, <1>5 DEF ClientInv, FreshInv

LEMMA ClientInitInv == ClientInit => ClientInv
<1> SUFFICES ASSUME ClientInit PROVE ClientInv
  OBVIOUS
<1>1. ClientType
  BY NoCallType, SizesAssumption DEF ClientInit, ClientType, Versions
<1>2. out = {c \in Callers : call[c].pc \in Holding}
  BY DEF ClientInit, NoCall, Holding
<1>3. Cardinality(out) <= MaxConnections
  BY FS_EmptySet, SizesAssumption DEF ClientInit
<1>4. \A c \in Callers : Sound(c)
  BY NoCallType DEF ClientInit, Sound
<1>5. \A kind \in Kinds : cache[kind] = Nothing
  BY DEF ClientInit
<1>6. QED
  BY <1>1, <1>2, <1>3, <1>4, <1>5 DEF ClientInv, PoolSound, FreshInv, Holding

\* A process that starts again has no request and no connection.
LEMMA RestartClient ==
  ASSUME ClientInv, UNCHANGED <<members, cache>>,
         call' = [c \in Callers |-> NoCall], out' = {}
  PROVE  ClientInv'
<1>1. ClientType'
  BY NoCallType DEF ClientInv, ClientType
<1>2. out' = {c \in Callers : call'[c].pc \in Holding}
  BY DEF NoCall, Holding
<1>3. Cardinality(out') <= MaxConnections
  BY FS_EmptySet, SizesAssumption
<1>4. \A c \in Callers : Sound(c)'
  BY NoCallType DEF Sound
<1>5. QED
  BY <1>1, <1>2, <1>3, <1>4 DEF ClientInv, PoolSound, FreshInv, Holding

LEMMA ClientStutter ==
  ASSUME ClientInv, UNCHANGED clientVars
  PROVE  ClientInv'
BY DEF ClientInv, ClientType, PoolSound, FreshInv, Sound, Told, clientVars

-----------------------------------------------------------------------------
(* The jobs.                                                               *)

JobStates == {"waiting", "asking", "between", "built", "filled", "failed", "thrown"}

\* A job moves on, with a number of pages left.
LEMMA JobKept ==
  ASSUME JobType, JobInv, NEW j \in Jobs, NEW state \in JobStates, NEW n \in Nat,
         job' = [job EXCEPT ![j] = state], left' = [left EXCEPT ![j] = n],
         state \in {"waiting", "asking", "between"} => n > 0,
         state = "filled" => j \in well' \cup lost',
         well \cup lost \subseteq well' \cup lost', well' \in SUBSET Jobs, lost' \in SUBSET Jobs,
         UNCHANGED <<ready, memo, restarts>>
  PROVE  JobType' /\ JobInv'
<1>1. /\ job' \in [Jobs -> JobStates] /\ job'[j] = state
      /\ \A i \in Jobs \ {j} : job'[i] = job[i]
  BY DEF JobType, JobStates
<1>2. /\ left' \in [Jobs -> Nat] /\ left'[j] = n
      /\ \A i \in Jobs \ {j} : left'[i] = left[i]
  BY DEF JobType
<1>3. JobType'
  BY <1>1, <1>2 DEF JobType, JobStates
<1>4. ASSUME NEW i \in Jobs
      PROVE  /\ job'[i] \in {"waiting", "asking", "between"} => left'[i] > 0
             /\ job'[i] = "filled" => i \in well' \cup lost'
  <2>1. CASE i = j
    BY <1>1, <1>2, <2>1
  <2>2. CASE i # j
    BY <1>1, <1>2, <2>2 DEF JobInv
  <2>3. QED
    BY <2>1, <2>2
<1>5. QED
  BY <1>3, <1>4 DEF JobInv

\* The same for a job that has as many pages left as before.
LEMMA JobMoved ==
  ASSUME JobType, JobInv, NEW j \in Jobs, NEW state \in JobStates,
         job' = [job EXCEPT ![j] = state], left' = left,
         state \in {"waiting", "asking", "between"} => left[j] > 0,
         state = "filled" => j \in well' \cup lost',
         well \cup lost \subseteq well' \cup lost', well' \in SUBSET Jobs, lost' \in SUBSET Jobs,
         UNCHANGED <<ready, memo, restarts>>
  PROVE  JobType' /\ JobInv'
<1>1. left[j] \in Nat /\ left' = [left EXCEPT ![j] = left[j]]
  BY DEF JobType
<1>2. QED
  BY <1>1, JobKept

LEMMA JobStutter ==
  ASSUME JobType, JobInv, UNCHANGED startupVars
  PROVE  JobType' /\ JobInv'
BY DEF JobType, JobInv, startupVars

LEMMA PagesType == Pages \in [Jobs -> Nat] /\ \A j \in Jobs : Pages[j] > 0
BY PagesAssumption

LEMMA InitInv == Init => IInv
<1> SUFFICES ASSUME Init PROVE IInv
  OBVIOUS
<1>1. ClientInv
  BY ClientInitInv DEF Init
<1>2. JobType
  <2>1. /\ well \in SUBSET Jobs /\ lost \in SUBSET Jobs /\ left \in [Jobs -> Nat]
        /\ ready \in BOOLEAN /\ memo = "none" /\ restarts = 0
    BY PagesType DEF Init
  <2>2. job \in [Jobs -> {"waiting", "asking", "between", "built", "filled", "failed", "thrown"}]
    BY DEF Init
  <2>3. QED
    BY <2>1, <2>2, RestartsAssumption DEF JobType
<1>3. JobInv
  BY PagesType DEF Init, JobInv
<1>4. QED
  BY <1>1, <1>2, <1>3 DEF IInv

LEMMA JobStepInv ==
  ASSUME IInv, NEW j \in Jobs, JobStep(j)
  PROVE  IInv'
<1> USE DEF IInv
<1>1. j \in Callers /\ job[j] \in JobStates /\ left[j] \in Nat /\ "plain" \in Kinds
      /\ well \in SUBSET Jobs /\ lost \in SUBSET Jobs
  BY JobsAssumption DEF JobType, JobStates, Kinds
<1>2. CASE StartJob(j)
  <2>1. left[j] > 0 /\ UNCHANGED <<well, lost, left, ready, memo, restarts>>
    BY <1>2 DEF StartJob, JobInv
  <2>2. CASE j \in well
    <3>1. job' = [job EXCEPT ![j] = "filled"] /\ UNCHANGED clientVars
      BY <1>2, <2>2 DEF StartJob
    <3>2. JobType' /\ JobInv'
      BY <1>1, <2>1, <2>2, <3>1, JobMoved DEF JobStates
    <3>3. QED
      BY <3>1, <3>2, ClientStutter
  <2>3. CASE j \notin well
    <3>1. job' = [job EXCEPT ![j] = "asking"] /\ Begin(j, "plain")
      BY <1>2, <2>3 DEF StartJob
    <3>2. JobType' /\ JobInv'
      BY <1>1, <2>1, <3>1, JobMoved DEF JobStates
    <3>3. QED
      BY <1>1, <3>1, <3>2, BeginInv
  <2>4. QED
    BY <2>2, <2>3
<1>3. CASE AskAgain(j)
  <2>1. left[j] > 0 /\ UNCHANGED <<well, lost, left, ready, memo, restarts>>
        /\ job' = [job EXCEPT ![j] = "asking"] /\ Begin(j, "plain")
    BY <1>3 DEF AskAgain, JobInv
  <2>2. JobType' /\ JobInv'
    BY <1>1, <2>1, JobMoved DEF JobStates
  <2>3. QED
    BY <1>1, <2>1, <2>2, BeginInv
<1>4. CASE TakePage(j)
  <2> DEFINE state == IF left[j] > 1 THEN "between" ELSE "built"
             n == left[j] - 1
  <2>1. /\ left[j] > 0 /\ Return(j) /\ UNCHANGED <<well, lost, ready, memo, restarts>>
        /\ job' = [job EXCEPT ![j] = state] /\ left' = [left EXCEPT ![j] = n]
    BY <1>4 DEF TakePage, JobInv, JobType
  <2>2. n \in Nat /\ state \in JobStates /\ state # "filled"
        /\ (state \in {"waiting", "asking", "between"} => n > 0)
    BY <1>1, <2>1 DEF JobStates
  <2> HIDE DEF state, n
  <2>3. JobType' /\ JobInv'
    BY <1>1, <2>1, <2>2, JobKept
  <2>4. QED
    BY <1>1, <2>1, <2>3, ReturnInv
<1>5. CASE Fill(j)
  <2>1. /\ well' = well \cup {j} /\ lost' = lost \ {j} /\ job' = [job EXCEPT ![j] = "filled"]
        /\ UNCHANGED <<left, ready, memo, restarts>> /\ UNCHANGED clientVars
    BY <1>5 DEF Fill, clientVars
  <2>2. JobType' /\ JobInv'
    BY <1>1, <2>1, JobMoved DEF JobStates
  <2>3. QED
    BY <2>1, <2>2, ClientStutter
<1>6. CASE Fail(j)
  <2>1. /\ Return(j) \/ UNCHANGED clientVars
        /\ job' = [job EXCEPT ![j] = "failed"]
        /\ UNCHANGED <<well, lost, left, ready, memo, restarts>>
    BY <1>6 DEF Fail
  <2>2. JobType' /\ JobInv'
    BY <1>1, <2>1, JobMoved DEF JobStates
  <2>3. QED
    BY <1>1, <2>1, <2>2, ReturnInv, ClientStutter
<1>7. QED
  BY <1>2, <1>3, <1>4, <1>5, <1>6 DEF JobStep

LEMMA StepInv == IInv /\ [Next]_vars => IInv'
<1> SUFFICES ASSUME IInv, [Next]_vars PROVE IInv'
  OBVIOUS
<1> USE DEF IInv
<1>1. CASE ClientStep
  <2>1. ClientInv'
    <3>1. ASSUME NEW c \in Callers, Fetch(c) PROVE ClientInv'
      BY <3>1, FetchInv
    <3>2. ASSUME NEW c \in Requesters, Return(c) PROVE ClientInv'
      BY <3>2, ReturnInv DEF Requesters
    <3>3. ASSUME NEW c \in Requesters, NEW kind \in Kinds, Begin(c, kind) PROVE ClientInv'
      BY <3>3, BeginInv DEF Requesters
    <3>4. ASSUME NEW kind \in Kinds, Forget(kind) PROVE ClientInv'
      BY <3>4, ForgetInv
    <3>5. QED
      BY <1>1, <3>1, <3>2, <3>3, <3>4 DEF ClientStep
  <2>2. QED
    BY <1>1, <2>1, JobStutter DEF ClientStep
<1>2. ASSUME NEW j \in Jobs, JobStep(j) PROVE IInv'
  BY <1>2, JobStepInv
<1>3. ASSUME NEW j \in Jobs, Lose(j) PROVE IInv'
  <2>1. /\ well' = well \ {j} /\ lost' = lost \cup {j}
        /\ UNCHANGED <<job, left, ready, memo, restarts>> /\ UNCHANGED clientVars
    BY <1>3 DEF Lose, clientVars
  <2>2. JobType'
    BY <2>1 DEF JobType
  <2>3. JobInv'
    BY <2>1 DEF JobInv
  <2>4. QED
    BY <2>1, <2>2, <2>3, ClientStutter
<1>4. CASE Ready \/ ReadTopics
  <2>1. /\ UNCHANGED clientVars /\ UNCHANGED <<well, lost, job, left, restarts>>
        /\ ready' \in {ready, TRUE} /\ memo' \in {memo, "empty", "full"}
    BY <1>4 DEF Ready, ReadTopics, clientVars
  <2>2. JobType'
    BY <2>1 DEF JobType
  <2>3. JobInv'
    BY <2>1 DEF JobInv
  <2>4. QED
    BY <2>1, <2>2, <2>3, ClientStutter
<1>5. CASE Restart
  <2>1. ClientInv'
    BY <1>5, RestartClient DEF Restart
  <2>2. JobType'
    <3>1. /\ well' = well /\ lost' = {} /\ left' \in [Jobs -> Nat] /\ ready' = FALSE
          /\ memo' = "none"
      BY <1>5, PagesType DEF Restart
    <3>2. restarts' \in 0..MaxRestarts
      BY <1>5, RestartsAssumption DEF Restart, JobType
    <3>3. job' \in [Jobs -> {"waiting", "asking", "between", "built", "filled", "failed", "thrown"}]
      BY <1>5 DEF Restart
    <3>4. QED
      BY <3>1, <3>2, <3>3 DEF JobType
  <2>3. JobInv'
    BY <1>5, PagesType DEF Restart, JobInv
  <2>4. QED
    BY <2>1, <2>2, <2>3
<1>6. CASE UNCHANGED vars
  BY <1>6, ClientStutter, JobStutter DEF vars, clientVars, startupVars
<1>7. QED
  BY <1>1, <1>2, <1>3, <1>4, <1>5, <1>6 DEF Next

-----------------------------------------------------------------------------
(* The theorems.                                                           *)

LEMMA Invariance == Spec => []IInv
BY InitInv, StepInv, PTL DEF Spec

\* The types, and the pool: whatever way a request ends, for any number of
\* callers, connections and retries, its connection comes back.
THEOREM TypeCorrect == Spec => []TypeOK
<1>1. IInv => TypeOK
  BY DEF IInv, ClientInv, JobType, TypeOK
<1>2. QED
  BY <1>1, Invariance, PTL

\* Reads and updates of collection_items are never answered from the past.
THEOREM Fresh == Spec => []CollectionFresh
<1>1. IInv => CollectionFresh
  BY DEF IInv, ClientInv, FreshInv, Sound, Told, CollectionFresh
<1>2. QED
  BY <1>1, Invariance, PTL

\* A read keeps an empty list of topics only before the job filled the cache,
\* or after Redis lost it.
THEOREM MemoSound == Spec => MemoAfterStartup
<1>1. IInv /\ [Next]_vars =>
        [memo = "none" /\ memo' = "empty" /\ job[Topics] = "filled" => Topics \in lost]_vars
  <2> SUFFICES ASSUME IInv, Next, memo = "none", memo' = "empty", job[Topics] = "filled"
               PROVE  Topics \in lost
    OBVIOUS
  <2>1. Topics \in well \cup lost
    BY JobsAssumption DEF IInv, JobInv
  <2>2. ReadTopics
    BY DEF Next, ClientStep, startupVars, JobStep, StartJob, AskAgain, TakePage, Fill, Fail,
           Lose, Ready, Restart
  <2>3. QED
    BY <2>1, <2>2 DEF ReadTopics
<1>2. QED
  BY <1>1, Invariance, PTL DEF Spec, MemoAfterStartup
=============================================================================
