---------------------------- MODULE RateLimiter ----------------------------
(***************************************************************************)
(* The leaky-bucket rate limiter: one bucket in Redis for a user and a     *)
(* resource, the two Lua scripts that run on it atomically, and the        *)
(* "around" hook that every rate-limited request goes through: put a       *)
(* token, run the handler, take a token back if anything threw, a refusal  *)
(* by the rate limiter included.  Time is in seconds, on Redis' clock,     *)
(* which is assumed not to be set back.                                    *)
(***************************************************************************)
EXTENDS Integers, FiniteSets

CONSTANTS
    Requests,           (* requests of the user in flight at once          *)
    Capacity,           (* capacity of the bucket                          *)
    RateNum, RateDen,   (* refillRate = RateNum / RateDen tokens a second  *)
    MaxTime,            (* bound: last instant of the model                *)
    MaxRefused,         (* bound: requests refused                         *)
    MaxFaults           (* bound: calls to Redis whose answer is lost      *)

ASSUME RateAssumption ==
    /\ Capacity \in Nat \ {0}
    /\ RateNum \in Nat
    /\ RateDen \in Nat \ {0}
    /\ {MaxTime, MaxRefused, MaxFaults} \subseteq Nat

ASSUME RequestsAssumption == IsFiniteSet(Requests)

VARIABLES
    now,                 (* Redis' clock                                   *)
    tokens,              (* RL:<user>:<resource>, field tokens             *)
    last_refreshed_sec,  (* field last_refreshed_sec                       *)
    req,                 (* requests in the hook                           *)
    faults,              (* calls to Redis lost so far                     *)
    net,                 (* history: tokens put for requests with room,    *)
                         (* minus tokens taken back                        *)
    served, refused      (* history: requests answered, and refused        *)

vars == <<now, tokens, last_refreshed_sec, req, faults, net, served, refused>>

\* A request's place in the hook.
Places == {"idle", "serving", "rollback"}

TypeOK ==
    /\ now \in Nat
    /\ tokens \in 0..Capacity
    /\ last_refreshed_sec \in 0..now
    /\ req \in [Requests -> Places]
    /\ faults \in 0..MaxFaults
    /\ net \in Int
    /\ served \in Nat
    /\ refused \in 0..MaxRefused

Init ==
    /\ now = 0
    /\ tokens = 0
    /\ last_refreshed_sec = 0
    /\ req = [r \in Requests |-> "idle"]
    /\ faults = 0
    /\ net = 0
    /\ served = 0
    /\ refused = 0

Goto(r, place) == req' = [req EXCEPT ![r] = place]

-----------------------------------------------------------------------------
(* leakyBucketRateLimit.lua                                                *)

\* Mutant: the leak is rounded up.
leak_amount_rounded_up == ((now - last_refreshed_sec) * RateNum + RateDen - 1) \div RateDen

\* math.floor(elapsed_sec * rate)
leak_amount == ((now - last_refreshed_sec) * RateNum) \div RateDen

\* Tokens in the bucket at this instant.
remaining_tokens == IF tokens > leak_amount THEN tokens - leak_amount ELSE 0

\* Mutant: a bucket with exactly its capacity of tokens lets one more in.
HasRoomOffByOne == remaining_tokens <= Capacity

\* The caller's reading of the script's answer.
HasRoom == remaining_tokens < Capacity

\* Mutant: the token is put without looking at the capacity.
new_tokens_uncapped == remaining_tokens + 1

new_tokens == IF remaining_tokens + 1 < Capacity THEN remaining_tokens + 1 ELSE Capacity

\* HSET of both fields, whatever the answer is.
PutToken ==
    /\ tokens' = new_tokens
    /\ last_refreshed_sec' = now
    /\ net' = IF HasRoom THEN net + 1 ELSE net

-----------------------------------------------------------------------------
(* leakyBucketTakeToken.lua                                                *)

TakeToken ==
    /\ tokens' = IF tokens > 0 THEN tokens - 1 ELSE tokens
    /\ net' = IF tokens > 0 THEN net - 1 ELSE net
    /\ UNCHANGED last_refreshed_sec

-----------------------------------------------------------------------------
(* The hook                                                                *)

bucket == <<tokens, last_refreshed_sec, net>>

\* rateLimitCheck: the request goes on to its handler, or is refused with
\* TooManyRequests, which the hook catches like any other error.
Allow(r) ==
    /\ req[r] = "idle"
    /\ PutToken
    /\ \/ HasRoom /\ Goto(r, "serving") /\ UNCHANGED refused
       \/ ~HasRoom /\ Goto(r, "rollback") /\ refused < MaxRefused /\ refused' = refused + 1
    /\ UNCHANGED <<now, faults, served>>

\* The call to Redis fails, before or after the script ran.
AllowFails(r) ==
    /\ req[r] = "idle"
    /\ faults < MaxFaults
    /\ faults' = faults + 1
    /\ PutToken \/ UNCHANGED bucket
    /\ Goto(r, "rollback")
    /\ UNCHANGED <<now, served, refused>>

\* The handler answers.  Or it, or a hook before it, throws an error with a code
\* below 500 that an error hook inside of this one has put into context.error:
\* such a request keeps its token as if it had been served.
Served(r) ==
    /\ req[r] = "serving"
    /\ Goto(r, "idle")
    /\ served' = served + 1
    /\ UNCHANGED <<now, bucket, faults, refused>>

\* The handler or a hook before it throws any other error; where context.error
\* is not set, one with a code below 500 too.
HandlerFails(r) ==
    /\ req[r] = "serving"
    /\ Goto(r, "rollback")
    /\ UNCHANGED <<now, bucket, faults, served, refused>>

\* rollbackRateLimit: a token is taken, whether this request put one or not.
Undo(r) ==
    /\ req[r] = "rollback"
    /\ TakeToken
    /\ Goto(r, "idle")
    /\ UNCHANGED <<now, faults, served, refused>>

\* The rollback fails in turn; it is not tried again.
UndoFails(r) ==
    /\ req[r] = "rollback"
    /\ faults < MaxFaults
    /\ faults' = faults + 1
    /\ TakeToken \/ UNCHANGED bucket
    /\ Goto(r, "idle")
    /\ UNCHANGED <<now, served, refused>>

Tick ==
    /\ now < MaxTime
    /\ now' = now + 1
    /\ UNCHANGED <<bucket, req, faults, served, refused>>

Next ==
    \/ \E r \in Requests : \/ Allow(r) \/ AllowFails(r)
                           \/ Served(r) \/ HandlerFails(r)
                           \/ Undo(r) \/ UndoFails(r)
    \/ Tick

Spec == Init /\ [][Next]_vars

-----------------------------------------------------------------------------
(* Properties                                                              *)

\* From an empty bucket, the requests that found room exceed one burst of
\* Capacity plus what the rate let leak by no more than the tokens that
\* rollbacks took back: no interleaving of checks and rollbacks, no lost call
\* and no rounding lets more through.
RateBound == net * RateDen <= Capacity * RateDen + RateNum * now

\* What those rollbacks come to: as long as no call to Redis is lost, the
\* requests served exceed a burst and the rate by at most one for each request
\* refused.  The rollback of a refused request frees the token of another one
\* and lets one more in, but never two; that of a failed one only its own.
ServedBound ==
    faults = 0 => (served - refused) * RateDen <= Capacity * RateDen + RateNum * now
=============================================================================
