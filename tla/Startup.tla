------------------------------ MODULE Startup ------------------------------
(***************************************************************************)
(* The startup jobs of jobs/index.ts and the caches they fill, on top of   *)
(* the Solr client.                                                        *)
(*                                                                         *)
(* Each job leaves its cache alone when it is filled, and otherwise asks   *)
(* Solr page by page and fills it; an error is logged.  The server already *)
(* answers requests while the jobs run: a list of topics read before its   *)
(* cache is filled is kept, empty, for the life of the process.            *)
(***************************************************************************)
EXTENDS SolrClient

CONSTANTS
  Jobs,        \* the startup jobs: callers of the Solr client
  Topics,      \* the one that prepares the topics
  Pages,       \* requests each job sends
  MaxRestarts  \* bound: restarts of the process

ASSUME JobsAssumption == Jobs \subseteq Callers /\ Topics \in Jobs
ASSUME PagesAssumption == Pages \in [Jobs -> Nat \ {0}]
ASSUME RestartsAssumption == MaxRestarts \in Nat

VARIABLES
  well,     \* the jobs whose cache is filled
  lost,     \* history: those whose cache was lost since the process started
  job,      \* where each job of the process is
  left,     \* requests each job has still to send
  ready,    \* the startup hooks are through
  memo,     \* the topics kept by the content items service
  restarts

startupVars == <<well, lost, job, left, ready, memo, restarts>>
vars == <<members, cache, call, out, well, lost, job, left, ready, memo, restarts>>

Requesters == Callers \ Jobs

Init ==
  /\ ClientInit
  /\ well \in SUBSET Jobs
  /\ lost = {}
  /\ job = [j \in Jobs |-> "waiting"]
  /\ left = Pages
  /\ ready = FALSE
  /\ memo = "none"
  /\ restarts = 0

(* The job finds its cache filled, or asks for a first page. *)
StartJob(j) ==
  /\ job[j] = "waiting"
  /\ IF j \in well
     THEN job' = [job EXCEPT ![j] = "filled"] /\ UNCHANGED clientVars
     ELSE job' = [job EXCEPT ![j] = "asking"] /\ Begin(j, "plain")
  /\ UNCHANGED <<well, lost, left, ready, memo, restarts>>

AskAgain(j) ==
  /\ job[j] = "between"
  /\ Begin(j, "plain")
  /\ job' = [job EXCEPT ![j] = "asking"]
  /\ UNCHANGED <<well, lost, left, ready, memo, restarts>>

\* Mutant: the job does not await the cache.
TakePageUnawaited(j) ==
  /\ job[j] = "asking"
  /\ call[j].pc = "done"
  /\ Return(j)
  /\ left' = [left EXCEPT ![j] = @ - 1]
  /\ job' = [job EXCEPT ![j] = IF left[j] > 1 THEN "between" ELSE "filled"]
  /\ UNCHANGED <<well, lost, ready, memo, restarts>>

TakePage(j) ==
  /\ job[j] = "asking"
  /\ call[j].pc = "done"
  /\ Return(j)
  /\ left' = [left EXCEPT ![j] = @ - 1]
  /\ job' = [job EXCEPT ![j] = IF left[j] > 1 THEN "between" ELSE "built"]
  /\ UNCHANGED <<well, lost, ready, memo, restarts>>

Fill(j) ==
  /\ job[j] = "built"
  /\ well' = well \cup {j}
  /\ lost' = lost \ {j}
  /\ job' = [job EXCEPT ![j] = "filled"]
  /\ UNCHANGED <<members, cache, call, out, left, ready, memo, restarts>>

\* Mutant: a job whose request failed is not caught.
FailUncaught(j) ==
  /\ \/ job[j] = "asking" /\ Return(j)
     \/ job[j] \in {"waiting", "built"} /\ UNCHANGED clientVars
  /\ job' = [job EXCEPT ![j] = "thrown"]
  /\ UNCHANGED <<well, lost, left, ready, memo, restarts>>

(* A request failed, its answer was refused, or Redis failed: the error is *)
(* caught and logged, and nothing is stored.                               *)
Fail(j) ==
  /\ \/ job[j] = "asking" /\ Return(j)
     \/ job[j] \in {"waiting", "built"} /\ UNCHANGED clientVars
  /\ job' = [job EXCEPT ![j] = "failed"]
  /\ UNCHANGED <<well, lost, left, ready, memo, restarts>>

\* Promise.all, then next().
Ready ==
  /\ ~ready
  /\ \A j \in Jobs : job[j] \in {"filled", "failed"}
  /\ ready' = TRUE
  /\ UNCHANGED <<members, cache, call, out, well, lost, job, left, memo, restarts>>

(* getTopics of the content items service: the server listens already. *)
ReadTopics ==
  /\ memo = "none"
  /\ memo' = IF Topics \in well THEN "full" ELSE "empty"
  /\ UNCHANGED <<members, cache, call, out, well, lost, job, left, ready, restarts>>

(* A well-known key reaches its TTL, or Redis drops it. *)
Lose(j) ==
  /\ j \in well
  /\ well' = well \ {j}
  /\ lost' = lost \cup {j}
  /\ UNCHANGED <<members, cache, call, out, job, left, ready, memo, restarts>>

(* The process stops and starts again: what is in Redis and in Solr stays. *)
Restart ==
  /\ restarts < MaxRestarts
  /\ restarts' = restarts + 1
  /\ call' = [c \in Callers |-> NoCall]
  /\ out' = {}
  /\ lost' = {}
  /\ job' = [j \in Jobs |-> "waiting"]
  /\ left' = Pages
  /\ ready' = FALSE
  /\ memo' = "none"
  /\ UNCHANGED <<members, cache, well>>

JobStep(j) == StartJob(j) \/ AskAgain(j) \/ TakePage(j) \/ Fill(j) \/ Fail(j)

ClientStep ==
  /\ \/ \E c \in Callers : Fetch(c)
     \/ \E c \in Requesters : Return(c) \/ \E kind \in Kinds : Begin(c, kind)
     \/ \E kind \in Kinds : Forget(kind)
  /\ UNCHANGED startupVars

Next ==
  \/ ClientStep
  \/ \E j \in Jobs : JobStep(j) \/ Lose(j)
  \/ Ready \/ ReadTopics \/ Restart

(* Requests that are on their way go on: the pool answers or times out, the *)
(* connection ends or times out.  Requests and jobs then take their turn.   *)
Fairness ==
  /\ \A c \in Callers : WF_vars(Fetch(c) /\ UNCHANGED startupVars)
  /\ \A j \in Jobs : WF_vars(JobStep(j))
  /\ WF_vars(Ready)

Spec == Init /\ [][Next]_vars /\ Fairness

-----------------------------------------------------------------------------
\* The types, and a pool whose connections all come back.
TypeOK ==
  /\ ClientType
  /\ PoolSound
  /\ well \in SUBSET Jobs
  /\ lost \in SUBSET Jobs
  /\ job \in [Jobs -> {"waiting", "asking", "between", "built", "filled", "failed", "thrown"}]
  /\ left \in [Jobs -> Nat]
  /\ ready \in BOOLEAN
  /\ memo \in {"none", "empty", "full"}
  /\ restarts \in 0..MaxRestarts

\* Once the topics job of this process has filled or found its cache, and
\* until Redis loses it, no read keeps an empty list of topics for the rest
\* of the process's life.
MemoAfterStartup ==
  [][memo = "none" /\ memo' = "empty" /\ job[Topics] = "filled" => Topics \in lost]_vars

\* However often Solr or the pool fail the jobs, the startup hooks end.
StartupEnds == []<>ready
=============================================================================
