------------------------- MODULE CollectionsProofs -------------------------
(***************************************************************************)
(* Proofs about Collections: for any collections, calls, page size, number *)
(* of results, attempts and failures.                                      *)
(***************************************************************************)
EXTENDS Collections, TLAPS

Call == [pc : {"idle", "found", "queue"}, id : Ids, read : Visible, want : Visible \cup {"DEL"}]
Place == [pc : {"idle", "call", "push", "return"}, job : Nat, offset : Nat]

Basic ==
    /\ total \in 0..MaxTotal
    /\ status \in [Ids -> Visible \cup {"none", "DEL"}]
    /\ index \subseteq Ids \X Items
    /\ calls \in 0..MaxCalls
    /\ faults \in 0..MaxFaults
    /\ addedLate \subseteq Ids

CallerType == caller \in [Callers -> Call]

\* The job a worker is at is there, of its kind, and active.
AtWork(k) ==
    IF worker[k].pc = "idle" THEN worker[k] = IdleWorker
    ELSE /\ worker[k].job \in DOMAIN jobs
         /\ jobs[worker[k].job].kind = k
         /\ jobs[worker[k].job].run.state = "active"

\* A batch comes after the query that queued it.
QueueType ==
    /\ jobs \in Seq(JobRecord)
    /\ \A j \in DOMAIN jobs : jobs[j].parent < j
    /\ worker \in [Kinds -> Place]
    /\ \A k \in Kinds : AtWork(k)

\* While nothing failed, a deleted collection has its removal queued, or a call
\* is about to queue it.
RemovalInv ==
    \A c \in Ids :
        faults = 0 /\ status[c] = "DEL" =>
            \/ \E j \in DOMAIN jobs : jobs[j].kind = "removeAll" /\ jobs[j].id = c
            \/ \E u \in Callers : caller[u].id = c /\ caller[u].pc = "queue"

\* The offsets the loop of a query goes through.
Aligned(offset) == \E n \in Nat : offset = 2 * (PageSize * n)

\* The loop is at such an offset, or beyond the result; every batch is a page at
\* such an offset.
AlignedInv ==
    /\ worker["query"].pc # "idle" =>
           Aligned(worker["query"].offset) \/ worker["query"].offset >= total
    /\ worker["query"].pc = "push" => worker["query"].offset < total
    /\ \A j \in DOMAIN jobs : jobs[j].parent # 0 =>
           \E offset \in Nat : Aligned(offset) /\ jobs[j].items = Page(offset)

\* While nothing failed, a query that waits has queued nothing, one that runs
\* has queued what is before its offset, and its batches are disjoint.
OnceInv ==
    faults = 0 =>
        /\ \A q, j \in DOMAIN jobs :
               jobs[j].parent = q => jobs[q].run.state # "waiting"
        /\ \A j \in DOMAIN jobs, i \in Items :
               /\ worker["query"].pc # "idle"
               /\ jobs[j].parent = worker["query"].job
               /\ i \in jobs[j].items
               => i <= worker["query"].offset
        /\ \A i, j \in DOMAIN jobs :
               i # j /\ jobs[i].parent # 0 /\ jobs[i].parent = jobs[j].parent
                   => jobs[i].items \cap jobs[j].items = {}

IInv == Basic /\ CallerType /\ QueueType /\ RemovalInv /\ AlignedInv /\ OnceInv

-----------------------------------------------------------------------------
(* Jobs.                                                                   *)

LEMMA RunOf ==
    ASSUME NEW job \in JobRecord, NEW run \in Run
    PROVE  LET new == [job EXCEPT !.run = run]
           IN  /\ new \in JobRecord /\ new.kind = job.kind /\ new.id = job.id
               /\ new.items = job.items /\ new.parent = job.parent /\ new.run = run
BY DEF JobRecord

\* Whatever happens to a run leaves a run.
LEMMA RunType ==
    ASSUME NEW run \in Run
    PROVE  /\ Started(run) \in Run /\ Completed(run) \in Run
           /\ Tried(run) \in Run /\ Stalled(run) \in Run /\ Queued \in Run
           /\ Started(run).state = "active"
           /\ Completed(run).state = "completed"
<1>1. Attempts \in Nat \ {0} /\ MaxStalls \in Nat
  BY BullAssumption
<1>2. Queued \in Run
  BY <1>1 DEF Queued, Run
<1>3. Started(run) \in Run /\ Started(run).state = "active"
  BY DEF Started, Run
<1>4. \A state \in {"completed", "failed", "stalled"} : Ended(state) \in Run /\ Ended(state).state = state
  BY <1>2 DEF Ended, Run, Queued
<1>5. Tried(run) \in Run
  <2>1. ASSUME NEW n \in 0..(Attempts - 1)
        PROVE  [run EXCEPT !.attempts = n, !.state = "waiting"] \in Run
    BY DEF Run
  <2>2. run.attempts \in 0..(Attempts - 1)
    BY DEF Run
  <2>3. run.attempts + 1 < Attempts => run.attempts + 1 \in 0..(Attempts - 1)
    BY <1>1, <2>2
  <2>4. QED
    BY <1>4, <2>1, <2>3 DEF Tried
<1>6. Stalled(run) \in Run
  <2>1. ASSUME NEW n \in 0..MaxStalls
        PROVE  [run EXCEPT !.stalls = n, !.state = "waiting"] \in Run
    BY DEF Run
  <2>2. run.stalls \in 0..MaxStalls
    BY DEF Run
  <2>3. run.stalls < MaxStalls => run.stalls + 1 \in 0..MaxStalls
    BY <1>1, <2>2
  <2>4. QED
    BY <1>4, <2>1, <2>3 DEF Stalled
<1>7. QED
  BY <1>2, <1>3, <1>4, <1>5, <1>6 DEF Completed

\* A job whose run changes: the others, and the rest of it, stay.
LEMMA RunChanged ==
    ASSUME jobs \in Seq(JobRecord), NEW j \in DOMAIN jobs, NEW run \in Run,
           jobs' = [jobs EXCEPT ![j].run = run]
    PROVE  /\ jobs' \in Seq(JobRecord)
           /\ Len(jobs') = Len(jobs) /\ DOMAIN jobs' = DOMAIN jobs
           /\ \A i \in DOMAIN jobs : /\ jobs'[i].kind = jobs[i].kind
                                     /\ jobs'[i].id = jobs[i].id
                                     /\ jobs'[i].items = jobs[i].items
                                     /\ jobs'[i].parent = jobs[i].parent
                                     /\ jobs'[i].run = IF i = j THEN run ELSE jobs[i].run
<1> DEFINE new == [jobs[j] EXCEPT !.run = run]
<1>1. jobs[j] \in JobRecord
  OBVIOUS
<1>2. new \in JobRecord /\ new.kind = jobs[j].kind /\ new.id = jobs[j].id
      /\ new.items = jobs[j].items /\ new.parent = jobs[j].parent /\ new.run = run
  BY <1>1, RunOf
<1>3. jobs' = [jobs EXCEPT ![j] = new]
  BY Zenon
<1> HIDE DEF new
<1>4. jobs' \in Seq(JobRecord) /\ Len(jobs') = Len(jobs) /\ DOMAIN jobs' = DOMAIN jobs
  BY <1>2, <1>3
<1>5. \A i \in DOMAIN jobs : jobs'[i] = IF i = j THEN new ELSE jobs[i]
  BY <1>3
<1>6. QED
  BY <1>2, <1>4, <1>5

\* A job that is queued: the others stay.
LEMMA Queues ==
    ASSUME jobs \in Seq(JobRecord), NEW kind \in Kinds, NEW c \in Ids, NEW items \in SUBSET Items,
           NEW parent \in Nat, Queue(kind, c, items, parent)
    PROVE  /\ jobs' \in Seq(JobRecord)
           /\ Len(jobs') = Len(jobs) + 1
           /\ DOMAIN jobs' = DOMAIN jobs \cup {Len(jobs) + 1}
           /\ Len(jobs) \in Nat /\ DOMAIN jobs = 1..Len(jobs)
           /\ \A i \in DOMAIN jobs : jobs'[i] = jobs[i]
           /\ jobs'[Len(jobs) + 1] = [kind |-> kind, id |-> c, items |-> items, parent |-> parent,
                                      run |-> Queued]
           /\ Queued.state = "waiting"
<1> DEFINE new == [kind |-> kind, id |-> c, items |-> items, parent |-> parent, run |-> Queued]
<1>1. new \in JobRecord
  BY BullAssumption DEF JobRecord, Queued, Run
<1>2. jobs' = Append(jobs, new)
  BY DEF Queue
<1> HIDE DEF new
<1>3. QED
  BY <1>1, <1>2 DEF new, Queued

LEMMA TypeCombined == Basic /\ CallerType /\ QueueType => TypeOK
<1> SUFFICES ASSUME Basic, CallerType, QueueType PROVE TypeOK
  OBVIOUS
<1>1. \A u \in Callers : /\ caller[u].pc \in {"idle", "found", "queue"}
                         /\ caller[u].id \in Ids
                         /\ caller[u].read \in Visible
                         /\ caller[u].want \in Visible \cup {"DEL"}
  BY DEF CallerType, Call
<1>2. \A j \in DOMAIN jobs : jobs[j] \in JobRecord /\ jobs[j].parent < j
  BY DEF QueueType
<1>3. ASSUME NEW k \in Kinds
      PROVE  /\ worker[k].pc \in {"idle", "call", "push", "return"}
             /\ worker[k].job \in 0..Len(jobs)
             /\ worker[k].pc # "idle" => jobs[worker[k].job].kind = k
             /\ worker[k].offset \in Nat
  <2>1. worker[k] \in Place /\ AtWork(k) /\ Len(jobs) \in Nat /\ DOMAIN jobs = 1..Len(jobs)
    BY DEF QueueType
  <2>2. QED
    BY <2>1 DEF Place, AtWork, IdleWorker
<1>4. QED
  BY <1>1, <1>2, <1>3 DEF Basic, TypeOK

-----------------------------------------------------------------------------
(* What leaves an invariant alone.                                         *)

LEMMA RemovalKept ==
    ASSUME RemovalInv, faults \in Nat, faults' = 0 => faults = 0,
           \A c \in Ids : status'[c] = "DEL" => status[c] = "DEL",
           \A j \in DOMAIN jobs :
               j \in DOMAIN jobs' /\ jobs'[j].kind = jobs[j].kind /\ jobs'[j].id = jobs[j].id,
           \A u \in Callers : caller[u].pc = "queue" =>
               caller'[u].pc = "queue" /\ caller'[u].id = caller[u].id
    PROVE  RemovalInv'
<1> SUFFICES ASSUME NEW c \in Ids, faults' = 0, status'[c] = "DEL"
             PROVE  \/ \E j \in DOMAIN jobs' : jobs'[j].kind = "removeAll" /\ jobs'[j].id = c
                    \/ \E u \in Callers : caller'[u].id = c /\ caller'[u].pc = "queue"
  BY DEF RemovalInv
<1>1. CASE \E j \in DOMAIN jobs : jobs[j].kind = "removeAll" /\ jobs[j].id = c
  BY <1>1
<1>2. CASE \E u \in Callers : caller[u].id = c /\ caller[u].pc = "queue"
  BY <1>2
<1>3. QED
  BY <1>1, <1>2 DEF RemovalInv

\* Neither a queue nor a worker moves.
LEMMA QueuesKept ==
    ASSUME QueueType, AlignedInv, OnceInv, jobs' = jobs, worker' = worker, total' = total,
           faults' = 0 => faults = 0
    PROVE  QueueType' /\ AlignedInv' /\ OnceInv'
<1>1. QueueType'
  BY DEF QueueType, AtWork
<1>2. AlignedInv'
  BY DEF AlignedInv, Page
<1>3. OnceInv'
  BY DEF OnceInv
<1>4. QED
  BY <1>1, <1>2, <1>3

\* A job that no query queued is added.
LEMMA QueuedAlone ==
    ASSUME QueueType, AlignedInv, OnceInv, NEW kind \in Kinds, NEW c \in Ids,
           Queue(kind, c, {}, 0), UNCHANGED <<worker, total, faults>>
    PROVE  QueueType' /\ AlignedInv' /\ OnceInv'
<1> DEFINE n == Len(jobs) + 1
<1>1. /\ jobs' \in Seq(JobRecord) /\ Len(jobs) \in Nat /\ DOMAIN jobs = 1..Len(jobs)
      /\ DOMAIN jobs' = DOMAIN jobs \cup {n}
      /\ \A i \in DOMAIN jobs : jobs'[i] = jobs[i]
      /\ jobs'[n].parent = 0 /\ jobs'[n].run.state = "waiting"
  <2>1. jobs \in Seq(JobRecord) /\ {} \in SUBSET Items /\ 0 \in Nat
    BY DEF QueueType
  <2>2. /\ jobs'[n] = [kind |-> kind, id |-> c, items |-> {}, parent |-> 0, run |-> Queued]
        /\ Queued.state = "waiting"
    BY <2>1, Queues
  <2>3. /\ jobs' \in Seq(JobRecord) /\ Len(jobs) \in Nat /\ DOMAIN jobs = 1..Len(jobs)
        /\ DOMAIN jobs' = DOMAIN jobs \cup {n}
        /\ \A i \in DOMAIN jobs : jobs'[i] = jobs[i]
    BY <2>1, Queues
  <2>4. QED
    BY <2>2, <2>3
<1>2. n \in Nat /\ n > 0 /\ n \notin DOMAIN jobs
  BY <1>1
<1> HIDE DEF n
<1>3. QueueType'
  <2>1. \A j \in DOMAIN jobs' : jobs'[j].parent < j
    BY <1>1, <1>2 DEF QueueType
  <2>2. ASSUME NEW k \in Kinds PROVE AtWork(k)'
    BY <1>1 DEF QueueType, AtWork
  <2>3. QED
    BY <1>1, <2>1, <2>2 DEF QueueType
<1>4. AlignedInv'
  BY <1>1 DEF AlignedInv, Page
<1>5. OnceInv'
  <2> SUFFICES ASSUME faults = 0 PROVE OnceInv'
    BY DEF OnceInv
  <2>1. ASSUME NEW q \in DOMAIN jobs', NEW j \in DOMAIN jobs', jobs'[j].parent = q
        PROVE  jobs'[q].run.state # "waiting"
    <3>1. q # 0
      BY <1>1, <1>2
    <3>2. j \in DOMAIN jobs
      BY <1>1, <2>1, <3>1
    <3>3. q \in DOMAIN jobs
      BY <1>1, <1>2, <2>1, <3>2 DEF QueueType
    <3>4. QED
      BY <1>1, <2>1, <3>2, <3>3 DEF OnceInv
  <2>2. ASSUME NEW j \in DOMAIN jobs', NEW i \in Items, worker'["query"].pc # "idle",
               jobs'[j].parent = worker'["query"].job, i \in jobs'[j].items
        PROVE  i <= worker'["query"].offset
    <3>1. worker["query"].job \in DOMAIN jobs
      BY <2>2 DEF QueueType, AtWork, Kinds
    <3>2. j \in DOMAIN jobs
      BY <1>1, <2>2, <3>1
    <3>3. QED
      BY <1>1, <2>2, <3>2 DEF OnceInv
  <2>3. ASSUME NEW i \in DOMAIN jobs', NEW j \in DOMAIN jobs', i # j,
               jobs'[i].parent # 0, jobs'[i].parent = jobs'[j].parent
        PROVE  jobs'[i].items \cap jobs'[j].items = {}
    <3>1. i \in DOMAIN jobs /\ j \in DOMAIN jobs
      BY <1>1, <2>3
    <3>2. QED
      BY <1>1, <2>3, <3>1 DEF OnceInv
  <2>4. QED
    BY <2>1, <2>2, <2>3 DEF OnceInv
<1>6. QED
  BY <1>3, <1>4, <1>5

Moves(k, j, run) ==
    /\ jobs' = [jobs EXCEPT ![j].run = run]
    /\ \/ worker' = [worker EXCEPT ![k] = IdleWorker]
       \/ /\ worker' = [worker EXCEPT ![k] = [pc |-> "call", job |-> j, offset |-> 0]]
          /\ run.state = "active"

\* A worker takes a job, or is done with it in some way.
LEMMA WorkerMoved ==
    ASSUME QueueType, NEW k \in Kinds, NEW j \in DOMAIN jobs, NEW run \in Run,
           jobs[j].kind = k, Moves(k, j, run)
    PROVE  /\ QueueType'
           /\ DOMAIN jobs' = DOMAIN jobs
           /\ \A i \in DOMAIN jobs : /\ jobs'[i].kind = jobs[i].kind
                                     /\ jobs'[i].id = jobs[i].id
                                     /\ jobs'[i].items = jobs[i].items
                                     /\ jobs'[i].parent = jobs[i].parent
                                     /\ jobs'[i].run = IF i = j THEN run ELSE jobs[i].run
           /\ \A h \in Kinds \ {k} : worker'[h] = worker[h]
<1>1. jobs \in Seq(JobRecord) /\ worker \in [Kinds -> Place] /\ j \in Nat
  BY DEF QueueType
<1>2. /\ jobs' \in Seq(JobRecord) /\ DOMAIN jobs' = DOMAIN jobs
      /\ \A i \in DOMAIN jobs : /\ jobs'[i].kind = jobs[i].kind
                                /\ jobs'[i].id = jobs[i].id
                                /\ jobs'[i].items = jobs[i].items
                                /\ jobs'[i].parent = jobs[i].parent
                                /\ jobs'[i].run = IF i = j THEN run ELSE jobs[i].run
  BY <1>1, RunChanged DEF Moves
<1>3. worker' \in [Kinds -> Place] /\ \A h \in Kinds \ {k} : worker'[h] = worker[h]
  BY <1>1 DEF Place, IdleWorker, Moves
<1>4. ASSUME NEW h \in Kinds \ {k} PROVE AtWork(h)'
  <2>1. AtWork(h) /\ worker'[h] = worker[h]
    BY <1>3 DEF QueueType
  <2>2. QED
    BY <1>2, <2>1 DEF AtWork
<1>5. AtWork(k)'
  BY <1>1, <1>2 DEF AtWork, IdleWorker, Moves
<1>6. \A i \in DOMAIN jobs' : jobs'[i].parent < i
  BY <1>2 DEF QueueType
<1>7. QED
  BY <1>2, <1>3, <1>4, <1>5, <1>6 DEF QueueType

-----------------------------------------------------------------------------
(* The steps of the workers.                                               *)

LEMMA TakeInv ==
    ASSUME QueueType, AlignedInv, OnceInv, NEW k \in Kinds, Take(k), total \in Nat
    PROVE  /\ QueueType' /\ AlignedInv' /\ OnceInv'
           /\ \A j \in DOMAIN jobs :
                  j \in DOMAIN jobs' /\ jobs'[j].kind = jobs[j].kind /\ jobs'[j].id = jobs[j].id
<1>1. PICK j \in Waiting(k) :
          /\ jobs' = [jobs EXCEPT ![j].run = Started(@)]
          /\ worker' = [worker EXCEPT ![k] = [pc |-> "call", job |-> j, offset |-> 0]]
  BY DEF Take
<1>2. j \in DOMAIN jobs /\ jobs[j].kind = k /\ jobs[j].run.state = "waiting" /\ j # 0
  BY <1>1 DEF Waiting, QueueType
<1> DEFINE run == Started(jobs[j].run)
<1>3. run \in Run /\ run.state = "active"
  <2>1. jobs[j] \in JobRecord
    BY <1>2 DEF QueueType
  <2>2. jobs[j].run \in Run
    BY <2>1 DEF JobRecord
  <2>3. QED
    BY <2>2, RunType
<1>4. Moves(k, j, run)
  BY <1>1, <1>3 DEF Moves
<1> HIDE DEF run
<1>5. /\ QueueType' /\ DOMAIN jobs' = DOMAIN jobs
      /\ \A i \in DOMAIN jobs : /\ jobs'[i].kind = jobs[i].kind
                                /\ jobs'[i].id = jobs[i].id
                                /\ jobs'[i].items = jobs[i].items
                                /\ jobs'[i].parent = jobs[i].parent
                                /\ jobs'[i].run = IF i = j THEN run ELSE jobs[i].run
      /\ \A h \in Kinds \ {k} : worker'[h] = worker[h]
  BY <1>1, <1>2, <1>3, <1>4, WorkerMoved
<1>6. total' = total /\ faults' = faults
  BY DEF Take
<1>7. \/ k # "query" /\ worker'["query"] = worker["query"]
      \/ k = "query" /\ worker'["query"] = [pc |-> "call", job |-> j, offset |-> 0]
  BY <1>1, <1>5 DEF Kinds, QueueType
<1>8. AlignedInv'
  <2>1. Aligned(0)
    <3>1. 0 = 2 * (PageSize * 0) /\ 0 \in Nat
      BY CollectionsAssumption DEF CollectionsAssumption
    <3>2. QED
      BY <3>1 DEF Aligned
  <2>2. QED
    BY <1>5, <1>6, <1>7, <2>1 DEF AlignedInv, Page
<1>9. OnceInv'
  <2> SUFFICES ASSUME faults = 0 PROVE OnceInv'
    BY <1>6 DEF OnceInv
  <2>1. \A q, i \in DOMAIN jobs' : jobs'[i].parent = q => jobs'[q].run.state # "waiting"
    BY <1>3, <1>5 DEF OnceInv
  <2>2. ASSUME NEW h \in DOMAIN jobs', NEW i \in Items, worker'["query"].pc # "idle",
               jobs'[h].parent = worker'["query"].job, i \in jobs'[h].items
        PROVE  i <= worker'["query"].offset
    <3>1. CASE k = "query"
      <4>1. jobs[h].parent = j /\ h \in DOMAIN jobs
        BY <1>5, <1>7, <2>2, <3>1
      <4>2. jobs[j].run.state # "waiting"
        BY <1>2, <4>1 DEF OnceInv
      <4>3. QED
        BY <1>2, <4>2
    <3>2. CASE k # "query"
      BY <1>5, <1>7, <2>2, <3>2 DEF OnceInv
    <3>3. QED
      BY <3>1, <3>2
  <2>3. \A h, i \in DOMAIN jobs' : h # i /\ jobs'[h].parent # 0 /\ jobs'[h].parent = jobs'[i].parent
            => jobs'[h].items \cap jobs'[i].items = {}
    BY <1>5 DEF OnceInv
  <2>4. QED
    BY <2>1, <2>2, <2>3 DEF OnceInv
<1>10. QED
  BY <1>5, <1>8, <1>9

\* The end of a job's run.
LEMMA EndInv ==
    ASSUME QueueType, AlignedInv, OnceInv, NEW k \in Kinds, NEW run \in Run,
           worker[k].pc # "idle",
           jobs' = [jobs EXCEPT ![worker[k].job].run = run],
           worker' = [worker EXCEPT ![k] = IdleWorker],
           total' = total,
           faults' = 0 => faults = 0 /\ run.state # "waiting"
    PROVE  /\ QueueType' /\ AlignedInv' /\ OnceInv'
           /\ \A j \in DOMAIN jobs :
                  j \in DOMAIN jobs' /\ jobs'[j].kind = jobs[j].kind /\ jobs'[j].id = jobs[j].id
<1> DEFINE j == worker[k].job
<1>1. j \in DOMAIN jobs /\ jobs[j].kind = k
  BY DEF QueueType, AtWork
<1>2. Moves(k, j, run)
  BY DEF Moves
<1> HIDE DEF j
<1>3. /\ QueueType' /\ DOMAIN jobs' = DOMAIN jobs
      /\ \A i \in DOMAIN jobs : /\ jobs'[i].kind = jobs[i].kind
                                /\ jobs'[i].id = jobs[i].id
                                /\ jobs'[i].items = jobs[i].items
                                /\ jobs'[i].parent = jobs[i].parent
                                /\ jobs'[i].run = IF i = j THEN run ELSE jobs[i].run
      /\ \A h \in Kinds \ {k} : worker'[h] = worker[h]
  BY <1>1, <1>2, WorkerMoved
<1>4. worker'["query"] = worker["query"] \/ worker'["query"].pc = "idle"
  BY <1>3 DEF Kinds, QueueType, IdleWorker
<1>5. AlignedInv'
  BY <1>3, <1>4 DEF AlignedInv, Page
<1>6. OnceInv'
  <2> SUFFICES ASSUME faults' = 0 PROVE OnceInv'
    BY DEF OnceInv
  <2>1. \A q, i \in DOMAIN jobs' : jobs'[i].parent = q => jobs'[q].run.state # "waiting"
    BY <1>3 DEF OnceInv
  <2>2. \A h \in DOMAIN jobs', i \in Items :
            /\ worker'["query"].pc # "idle"
            /\ jobs'[h].parent = worker'["query"].job
            /\ i \in jobs'[h].items
            => i <= worker'["query"].offset
    BY <1>3, <1>4 DEF OnceInv
  <2>3. \A h, i \in DOMAIN jobs' : h # i /\ jobs'[h].parent # 0 /\ jobs'[h].parent = jobs'[i].parent
            => jobs'[h].items \cap jobs'[i].items = {}
    BY <1>3 DEF OnceInv
  <2>4. QED
    BY <2>1, <2>2, <2>3 DEF OnceInv
<1>7. QED
  BY <1>3, <1>5, <1>6

\* A worker goes on with its job; the query's goes on to queue a page that is
\* not empty.
LEMMA GoneOn ==
    ASSUME QueueType, AlignedInv, OnceInv, NEW k \in Kinds, NEW place \in {"push", "return"},
           worker[k].pc # "idle", Goto(k, place), UNCHANGED <<jobs, total, faults>>,
           place = "push" => worker["query"].offset < total
    PROVE  QueueType' /\ AlignedInv' /\ OnceInv'
<1>1. /\ worker' \in [Kinds -> Place]
      /\ \A h \in Kinds : /\ worker'[h].job = worker[h].job
                          /\ worker'[h].offset = worker[h].offset
                          /\ worker'[h].pc = IF h = k THEN place ELSE worker[h].pc
                          /\ h # k => worker'[h] = worker[h]
  BY DEF QueueType, Place, Goto
<1>2. "query" \in Kinds
  BY DEF Kinds
<1>3. ASSUME NEW h \in Kinds PROVE AtWork(h)'
  <2>1. AtWork(h)
    BY DEF QueueType
  <2>2. CASE h = k
    BY <1>1, <2>1, <2>2 DEF AtWork
  <2>3. CASE h # k
    BY <1>1, <2>1, <2>3 DEF AtWork
  <2>4. QED
    BY <2>2, <2>3
<1>4. QueueType'
  BY <1>1, <1>3 DEF QueueType
<1>5. AlignedInv'
  BY <1>1, <1>2 DEF AlignedInv, Page
<1>6. OnceInv'
  BY <1>1, <1>2 DEF OnceInv
<1>7. QED
  BY <1>4, <1>5, <1>6

\* The offset that follows one of the loop is one of the loop, or beyond the
\* result; it is not before the end of the page.
LEMMA NextAligned ==
    ASSUME NEW offset \in Nat, Aligned(offset), total \in Nat, offset < total
    PROVE  /\ NextOffset(offset) \in Nat
           /\ Aligned(NextOffset(offset)) \/ NextOffset(offset) >= total
           /\ \A i \in Page(offset) : i > offset /\ i <= NextOffset(offset)
<1>1. PageSize \in Nat \ {0}
  BY CollectionsAssumption DEF CollectionsAssumption
<1>2. CASE total <= offset + PageSize
  <2>1. NextOffset(offset) = total + PageSize
    BY <1>1, <1>2 DEF NextOffset
  <2>2. QED
    BY <1>1, <2>1 DEF Page
<1>3. CASE ~(total <= offset + PageSize)
  <2>1. NextOffset(offset) = offset + PageSize + PageSize
    BY <1>1, <1>3 DEF NextOffset
  <2>2. PICK n \in Nat : offset = 2 * (PageSize * n)
    BY DEF Aligned
  <2>3. PageSize * (n + 1) = PageSize * n + PageSize /\ PageSize * n \in Nat
    BY <1>1
  <2>4. NextOffset(offset) = 2 * (PageSize * (n + 1)) /\ n + 1 \in Nat
    BY <1>1, <2>1, <2>2, <2>3
  <2>5. Aligned(NextOffset(offset))
    BY <2>4 DEF Aligned
  <2>6. QED
    BY <1>1, <2>1, <2>5 DEF Page
<1>4. QED
  BY <1>2, <1>3

LEMMA PushInv ==
    ASSUME Basic, QueueType, AlignedInv, OnceInv, PushBatch
    PROVE  /\ QueueType' /\ AlignedInv' /\ OnceInv'
           /\ \A j \in DOMAIN jobs :
                  j \in DOMAIN jobs' /\ jobs'[j].kind = jobs[j].kind /\ jobs'[j].id = jobs[j].id
<1> DEFINE n == Len(jobs) + 1
           q == worker["query"].job
           offset == worker["query"].offset
<1>1. /\ "query" \in Kinds /\ "add" \in Kinds /\ worker["query"].pc = "push"
      /\ total' = total /\ faults' = faults /\ total \in Nat /\ total <= MaxTotal /\ MaxTotal \in Nat
  BY CollectionsAssumption DEF PushBatch, Kinds, Basic, CollectionsAssumption
<1>2. /\ q \in DOMAIN jobs /\ jobs[q].kind = "query" /\ jobs[q].run.state = "active"
      /\ offset \in Nat /\ jobs[q] \in JobRecord /\ jobs \in Seq(JobRecord)
  BY <1>1 DEF QueueType, AtWork, Place
<1>3. Aligned(offset) /\ offset < total
  BY <1>1, <1>2 DEF AlignedInv
<1>4. /\ NextOffset(offset) \in Nat
      /\ Aligned(NextOffset(offset)) \/ NextOffset(offset) >= total
      /\ \A i \in Page(offset) : i > offset /\ i <= NextOffset(offset)
  BY <1>1, <1>2, <1>3, NextAligned
<1>5. /\ jobs' \in Seq(JobRecord) /\ Len(jobs) \in Nat /\ DOMAIN jobs = 1..Len(jobs)
      /\ DOMAIN jobs' = DOMAIN jobs \cup {n}
      /\ \A i \in DOMAIN jobs : jobs'[i] = jobs[i]
      /\ jobs'[n].parent = q /\ jobs'[n].items = Page(offset)
  <2>1. Queue("add", jobs[q].id, Page(offset), q)
    BY DEF PushBatch, Job
  <2>2. jobs[q].id \in Ids /\ Page(offset) \in SUBSET Items /\ q \in Nat
    BY <1>1, <1>2 DEF JobRecord, Page, Items
  <2>3. /\ jobs' \in Seq(JobRecord) /\ Len(jobs) \in Nat /\ DOMAIN jobs = 1..Len(jobs)
        /\ DOMAIN jobs' = DOMAIN jobs \cup {n}
        /\ \A i \in DOMAIN jobs : jobs'[i] = jobs[i]
    BY <1>1, <1>2, <2>1, <2>2, Queues
  <2>4. jobs'[n] = [kind |-> "add", id |-> jobs[q].id, items |-> Page(offset), parent |-> q,
                    run |-> Queued]
    BY <1>1, <1>2, <2>1, <2>2, Queues
  <2>5. QED
    BY <2>3, <2>4
<1>6. /\ worker' \in [Kinds -> Place]
      /\ worker'["query"].pc = "call" /\ worker'["query"].job = q
      /\ worker'["query"].offset = NextOffset(offset)
      /\ \A h \in Kinds : h # "query" => worker'[h] = worker[h]
  <2>1. worker' = [worker EXCEPT !["query"].pc = "call", !["query"].offset = NextOffset(offset)]
    BY DEF PushBatch
  <2>2. worker \in [Kinds -> Place]
    BY DEF QueueType
  <2> HIDE DEF offset
  <2>3. QED
    BY <1>1, <1>4, <2>1, <2>2 DEF Place
<1>7. n \in Nat /\ n \notin DOMAIN jobs /\ q < n /\ q > 0 /\ \A j \in DOMAIN jobs : j < n
  BY <1>2, <1>5
<1> HIDE DEF n, q, offset
<1>8. QueueType'
  <2>1. \A j \in DOMAIN jobs' : jobs'[j].parent < j
    BY <1>5, <1>7 DEF QueueType
  <2>2. ASSUME NEW h \in Kinds PROVE AtWork(h)'
    <3>1. CASE h = "query"
      BY <1>2, <1>5, <1>6, <3>1 DEF AtWork
    <3>2. CASE h # "query"
      BY <1>5, <1>6, <3>2 DEF QueueType, AtWork
    <3>3. QED
      BY <3>1, <3>2
  <2>3. QED
    BY <1>5, <1>6, <2>1, <2>2 DEF QueueType
<1>9. AlignedInv'
  <2>1. ASSUME NEW j \in DOMAIN jobs', jobs'[j].parent # 0
        PROVE  \E o \in Nat : Aligned(o) /\ jobs'[j].items = Page(o)'
    <3>1. CASE j = n
      BY <1>1, <1>2, <1>3, <1>5, <3>1 DEF Page
    <3>2. CASE j # n
      BY <1>1, <1>5, <2>1, <3>2 DEF AlignedInv, Page
    <3>3. QED
      BY <3>1, <3>2
  <2>2. QED
    BY <1>1, <1>4, <1>6, <2>1 DEF AlignedInv
<1>10. OnceInv'
  <2> SUFFICES ASSUME faults = 0 PROVE OnceInv'
    BY <1>1 DEF OnceInv
  <2>1. ASSUME NEW p \in DOMAIN jobs', NEW j \in DOMAIN jobs', jobs'[j].parent = p
        PROVE  jobs'[p].run.state # "waiting"
    <3>1. CASE j = n
      BY <1>2, <1>5, <2>1, <3>1
    <3>2. CASE j # n
      <4>1. j \in DOMAIN jobs /\ p < j
        BY <1>5, <2>1, <3>2 DEF QueueType
      <4>2. p \in DOMAIN jobs
        BY <1>5, <1>7, <2>1, <4>1
      <4>3. jobs'[j] = jobs[j] /\ jobs'[p] = jobs[p]
        BY <1>5, <4>1, <4>2
      <4>4. QED
        BY <2>1, <4>1, <4>2, <4>3 DEF OnceInv
    <3>3. QED
      BY <3>1, <3>2
  <2>2. \A j \in DOMAIN jobs, i \in Items : jobs[j].parent = q /\ i \in jobs[j].items => i <= offset
    BY <1>1 DEF OnceInv, q, offset
  <2>3. ASSUME NEW j \in DOMAIN jobs', NEW i \in Items, jobs'[j].parent = q, i \in jobs'[j].items
        PROVE  i <= NextOffset(offset)
    <3>1. CASE j = n
      BY <1>4, <1>5, <2>3, <3>1
    <3>2. CASE j # n
      <4>1. j \in DOMAIN jobs /\ i <= offset
        BY <1>5, <2>2, <2>3, <3>2
      <4>2. offset < NextOffset(offset)
        <5>1. PageSize \in Nat \ {0}
          BY CollectionsAssumption DEF CollectionsAssumption
        <5>2. QED
          BY <1>1, <1>2, <1>3, <5>1 DEF NextOffset
      <4>3. i \in Nat
        BY DEF Items
      <4>4. QED
        BY <1>2, <1>4, <4>1, <4>2, <4>3
    <3>3. QED
      BY <3>1, <3>2
  <2>4. ASSUME NEW j \in DOMAIN jobs, jobs[j].parent = q PROVE jobs[j].items \cap Page(offset) = {}
    <3>1. jobs[j] \in JobRecord
      BY <1>2
    <3>2. jobs[j].items \subseteq Items
      BY <3>1 DEF JobRecord
    <3>3. QED
      BY <1>2, <1>4, <2>2, <2>4, <3>2 DEF Items, Page
  <2>5. ASSUME NEW i \in DOMAIN jobs', NEW j \in DOMAIN jobs', i # j,
               jobs'[i].parent # 0, jobs'[i].parent = jobs'[j].parent
        PROVE  jobs'[i].items \cap jobs'[j].items = {}
    <3>1. CASE i # n /\ j # n
      BY <1>5, <2>5, <3>1 DEF OnceInv
    <3>2. CASE i = n
      BY <1>5, <2>4, <2>5, <3>2
    <3>3. CASE j = n
      BY <1>5, <2>4, <2>5, <3>3
    <3>4. QED
      BY <3>1, <3>2, <3>3
  <2>6. QED
    BY <1>6, <2>1, <2>3, <2>5 DEF OnceInv
<1>11. QED
  BY <1>5, <1>8, <1>9, <1>10

-----------------------------------------------------------------------------
(* The steps of the calls.                                                 *)

LEMMA CallerMoved ==
    ASSUME CallerType, NEW u \in Callers, NEW place \in {"idle", "found", "queue"},
           caller' = [caller EXCEPT ![u].pc = place]
    PROVE  /\ CallerType'
           /\ \A v \in Callers : /\ caller'[v].id = caller[v].id
                                 /\ caller'[v].pc = IF v = u THEN place ELSE caller[v].pc
BY DEF CallerType, Call

\* The row becomes that of a deleted collection: its removal is queued next.
LEMMA UpdateRowInv ==
    ASSUME Basic, CallerType, RemovalInv, NEW u \in Callers, UpdateRow(u)
    PROVE  Basic' /\ CallerType' /\ RemovalInv'
<1> DEFINE call == caller[u]
           place == IF call.want = "DEL" THEN "queue" ELSE "idle"
<1>1. call \in Call /\ call.pc = "found"
  BY DEF CallerType, UpdateRow
<1>2. /\ status' = [status EXCEPT ![call.id] = IF call.want = call.read THEN @ ELSE call.want]
      /\ caller' = [caller EXCEPT ![u].pc = place]
      /\ UNCHANGED <<total, index, jobs, worker, calls, faults, addedLate>>
  BY DEF UpdateRow
<1>3. call.id \in Ids /\ call.want \in Visible \cup {"DEL"} /\ place \in {"idle", "found", "queue"}
  BY <1>1 DEF Call
<1>4. /\ CallerType'
      /\ \A v \in Callers : /\ caller'[v].id = caller[v].id
                            /\ caller'[v].pc = IF v = u THEN place ELSE caller[v].pc
  BY <1>2, <1>3, CallerMoved
<1> HIDE DEF call, place
<1>5. /\ status' \in [Ids -> Visible \cup {"none", "DEL"}]
      /\ \A c \in Ids : status'[c] = status[c] \/ (c = call.id /\ status'[c] = call.want)
  BY <1>2, <1>3 DEF Basic
<1>6. Basic'
  BY <1>2, <1>5 DEF Basic
<1>7. RemovalInv'
  <2> SUFFICES ASSUME NEW c \in Ids, faults = 0, status'[c] = "DEL"
               PROVE  \/ \E j \in DOMAIN jobs : jobs[j].kind = "removeAll" /\ jobs[j].id = c
                      \/ \E v \in Callers : caller'[v].id = c /\ caller'[v].pc = "queue"
    BY <1>2 DEF RemovalInv
  <2>1. CASE c = call.id /\ call.want = "DEL"
    BY <1>4, <2>1 DEF call, place
  <2>2. CASE ~(c = call.id /\ call.want = "DEL")
    <3>1. status[c] = "DEL"
      BY <1>5, <2>2
    <3>2. \A v \in Callers : caller[v].pc = "queue" => v # u
      BY <1>1 DEF call
    <3>3. QED
      BY <1>4, <3>1, <3>2 DEF RemovalInv
  <2>3. QED
    BY <2>1, <2>2
<1>8. QED
  BY <1>4, <1>6, <1>7

LEMMA QueueRemovalInv ==
    ASSUME Basic, CallerType, QueueType, RemovalInv, NEW u \in Callers, QueueRemoval(u)
    PROVE  CallerType' /\ RemovalInv' /\ Queue("removeAll", caller[u].id, {}, 0)
<1>1. /\ Queue("removeAll", caller[u].id, {}, 0)
      /\ caller' = [caller EXCEPT ![u].pc = "idle"]
      /\ status' = status /\ faults' = faults
  BY DEF QueueRemoval, NeedsRemoval
<1>2. /\ CallerType'
      /\ \A v \in Callers : /\ caller'[v].id = caller[v].id
                            /\ caller'[v].pc = IF v = u THEN "idle" ELSE caller[v].pc
  BY <1>1, CallerMoved
<1> DEFINE n == Len(jobs) + 1
<1>3. /\ DOMAIN jobs' = DOMAIN jobs \cup {n}
      /\ \A j \in DOMAIN jobs : jobs'[j] = jobs[j]
      /\ jobs'[n].kind = "removeAll" /\ jobs'[n].id = caller[u].id
  <2>1. /\ jobs \in Seq(JobRecord) /\ caller[u].id \in Ids /\ {} \in SUBSET Items /\ 0 \in Nat
        /\ "removeAll" \in Kinds
    BY DEF QueueType, CallerType, Call, Kinds
  <2>2. /\ DOMAIN jobs' = DOMAIN jobs \cup {n}
        /\ \A j \in DOMAIN jobs : jobs'[j] = jobs[j]
        /\ jobs'[n] = [kind |-> "removeAll", id |-> caller[u].id, items |-> {}, parent |-> 0,
                       run |-> Queued]
    BY <1>1, <2>1, Queues
  <2>3. QED
    BY <2>2
<1> HIDE DEF n
<1>4. RemovalInv'
  <2> SUFFICES ASSUME NEW c \in Ids, faults = 0, status[c] = "DEL"
               PROVE  \/ \E j \in DOMAIN jobs' : jobs'[j].kind = "removeAll" /\ jobs'[j].id = c
                      \/ \E v \in Callers : caller'[v].id = c /\ caller'[v].pc = "queue"
    BY <1>1 DEF RemovalInv
  <2>1. CASE c = caller[u].id
    BY <1>3, <2>1
  <2>2. CASE c # caller[u].id
    BY <1>2, <1>3, <2>2 DEF RemovalInv
  <2>3. QED
    BY <2>1, <2>2
<1>5. QED
  BY <1>1, <1>2, <1>4

-----------------------------------------------------------------------------
(* The invariant.                                                          *)

LEMMA InitInv == Init => IInv
<1> SUFFICES ASSUME Init PROVE IInv
  OBVIOUS
<1>1. /\ 0 \in 0..MaxCalls /\ 0 \in 0..MaxFaults
  BY CollectionsAssumption DEF CollectionsAssumption
<1>2. Basic
  BY <1>1 DEF Init, Basic
<1>3. CallerType
  <2>1. (CHOOSE c \in Ids : TRUE) \in Ids
    BY CollectionsAssumption DEF CollectionsAssumption
  <2>2. QED
    BY <2>1 DEF Init, CallerType, Call, Visible
<1>4. jobs = <<>> /\ DOMAIN jobs = {} /\ jobs \in Seq(JobRecord)
  BY DEF Init
<1>5. worker \in [Kinds -> Place] /\ \A k \in Kinds : worker[k] = IdleWorker /\ worker[k].pc = "idle"
  BY DEF Init, Place, IdleWorker
<1>6. QueueType
  BY <1>4, <1>5 DEF QueueType, AtWork
<1>7. RemovalInv
  BY DEF Init, RemovalInv
<1>8. AlignedInv /\ OnceInv
  BY <1>4, <1>5 DEF AlignedInv, OnceInv, Kinds
<1>9. QED
  BY <1>2, <1>3, <1>6, <1>7, <1>8 DEF IInv

\* A failure ends the claim that nothing failed.
LEMMA Failing ==
    ASSUME Basic, faults < MaxFaults, faults' = faults + 1
    PROVE  faults' \in 0..MaxFaults /\ faults' # 0
BY CollectionsAssumption DEF Basic, CollectionsAssumption

\* A worker's job ends in some way.
LEMMA EndStep ==
    ASSUME IInv, NEW k \in Kinds, NEW run \in Run, worker[k].pc # "idle",
           jobs' = [jobs EXCEPT ![worker[k].job].run = run],
           worker' = [worker EXCEPT ![k] = IdleWorker],
           UNCHANGED <<total, status, index, caller, calls, addedLate>>,
           faults' \in 0..MaxFaults,
           faults' = 0 => faults = 0 /\ run.state # "waiting"
    PROVE  IInv'
<1>1. Basic' /\ CallerType'
  BY DEF IInv, Basic, CallerType
<1>2. /\ QueueType' /\ AlignedInv' /\ OnceInv'
      /\ \A j \in DOMAIN jobs :
             j \in DOMAIN jobs' /\ jobs'[j].kind = jobs[j].kind /\ jobs'[j].id = jobs[j].id
  BY EndInv DEF IInv
<1>3. RemovalInv'
  <2>1. faults \in Nat
    BY CollectionsAssumption DEF IInv, Basic, CollectionsAssumption
  <2>2. QED
    BY <1>2, <2>1, RemovalKept DEF IInv
<1>4. QED
  BY <1>1, <1>2, <1>3 DEF IInv

LEMMA CallsInv ==
    ASSUME IInv,
           \/ \E c \in Ids, access \in Visible : Create(c, access)
           \/ \E u \in Callers, c \in Ids, want \in Visible \cup {"DEL"} : FindRow(u, c, want)
           \/ \E u \in Callers : CallStep(u) \/ CallerFails(u)
           \/ \E c \in Ids, i \in Items : AddItems(c, {i}) \/ RemoveItems(c, {i})
           \/ \E c \in Ids : AddQuery(c)
    PROVE  IInv'
<1> USE CollectionsAssumption DEF CollectionsAssumption
<1>1. /\ Basic /\ CallerType /\ QueueType /\ RemovalInv /\ AlignedInv /\ OnceInv
      /\ faults \in Nat /\ total \in Nat /\ calls \in Nat
  BY DEF IInv, Basic
<1>2. Called => calls' \in 0..MaxCalls
  BY <1>1 DEF Called, Basic
<1>3. ASSUME NEW c \in Ids, NEW access \in Visible, Create(c, access) PROVE IInv'
  <2>1. Basic' /\ CallerType'
    BY <1>1, <1>3 DEF Create, Basic, CallerType
  <2>2. QueueType' /\ AlignedInv' /\ OnceInv'
    BY <1>1, <1>3, QueuesKept DEF Create
  <2>3. \A d \in Ids : status'[d] = "DEL" => status[d] = "DEL"
    BY <1>1, <1>3 DEF Create, Basic, Visible
  <2>4. RemovalInv'
    BY <1>1, <1>3, <2>3, RemovalKept DEF Create
  <2>5. QED
    BY <2>1, <2>2, <2>4 DEF IInv
<1>4. ASSUME NEW u \in Callers, NEW c \in Ids, NEW want \in Visible \cup {"DEL"}, FindRow(u, c, want)
      PROVE  IInv'
  <2> DEFINE call == [pc |-> "found", id |-> c, read |-> status[c], want |-> want]
  <2>1. caller' = [caller EXCEPT ![u] = call] /\ call \in Call /\ call.pc = "found"
    BY <1>4 DEF FindRow, Call
  <2> HIDE DEF call
  <2>2. CallerType' /\ \A v \in Callers : v # u => caller'[v] = caller[v]
    BY <1>1, <2>1 DEF CallerType
  <2>3. Basic'
    BY <1>1, <1>2, <1>4 DEF FindRow, Basic
  <2>4. QueueType' /\ AlignedInv' /\ OnceInv'
    BY <1>1, <1>4, QueuesKept DEF FindRow
  <2>5. caller[u].pc = "idle"
    BY <1>4 DEF FindRow
  <2>6. \A v \in Callers : caller[v].pc = "queue" => caller'[v].pc = "queue" /\ caller'[v].id = caller[v].id
    BY <2>2, <2>5
  <2>7. RemovalInv'
    BY <1>1, <1>4, <2>6, RemovalKept DEF FindRow
  <2>8. QED
    BY <2>2, <2>3, <2>4, <2>7 DEF IInv
<1>5. ASSUME NEW u \in Callers, UpdateRow(u) PROVE IInv'
  <2>1. Basic' /\ CallerType' /\ RemovalInv'
    BY <1>1, <1>5, UpdateRowInv
  <2>2. QueueType' /\ AlignedInv' /\ OnceInv'
    BY <1>1, <1>5, QueuesKept DEF UpdateRow
  <2>3. QED
    BY <2>1, <2>2 DEF IInv
<1>6. ASSUME NEW u \in Callers, QueueRemoval(u) PROVE IInv'
  <2>1. CallerType' /\ RemovalInv' /\ Queue("removeAll", caller[u].id, {}, 0)
    BY <1>1, <1>6, QueueRemovalInv
  <2>2. Basic'
    BY <1>1, <1>6 DEF QueueRemoval, Basic
  <2>3. "removeAll" \in Kinds /\ caller[u].id \in Ids /\ UNCHANGED <<worker, total, faults>>
    BY <1>1, <1>6 DEF QueueRemoval, Kinds, CallerType, Call
  <2>4. QueueType' /\ AlignedInv' /\ OnceInv'
    BY <1>1, <2>1, <2>3, QueuedAlone
  <2>5. QED
    BY <2>1, <2>2, <2>4 DEF IInv
<1>7. ASSUME NEW u \in Callers, CallerFails(u) PROVE IInv'
  <2>1. caller' = [caller EXCEPT ![u].pc = "idle"] /\ faults' \in 0..MaxFaults /\ faults' # 0
    BY <1>1, <1>7, Failing DEF CallerFails
  <2>2. CallerType'
    BY <1>1, <2>1, CallerMoved
  <2>3. Basic'
    BY <1>1, <1>7, <2>1 DEF CallerFails, Basic
  <2>4. QueueType' /\ AlignedInv' /\ OnceInv'
    BY <1>1, <1>7, <2>1, QueuesKept DEF CallerFails
  <2>5. RemovalInv'
    BY <2>1 DEF RemovalInv
  <2>6. QED
    BY <2>2, <2>3, <2>4, <2>5 DEF IInv
<1>8. ASSUME NEW c \in Ids, NEW i \in Items, AddItems(c, {i}) \/ RemoveItems(c, {i}) PROVE IInv'
  <2>1. /\ UNCHANGED <<total, status, caller, jobs, worker, faults>>
        /\ index' \subseteq Ids \X Items /\ addedLate' \subseteq Ids /\ calls' \in 0..MaxCalls
    BY <1>1, <1>2, <1>8 DEF AddItems, RemoveItems, NoteLate, Basic
  <2>2. Basic' /\ CallerType'
    BY <1>1, <2>1 DEF Basic, CallerType
  <2>3. QueueType' /\ AlignedInv' /\ OnceInv'
    BY <1>1, <2>1, QueuesKept
  <2>4. RemovalInv'
    BY <1>1, <2>1, RemovalKept
  <2>5. QED
    BY <2>2, <2>3, <2>4 DEF IInv
<1>9. ASSUME NEW c \in Ids, AddQuery(c) PROVE IInv'
  <2>1. /\ UNCHANGED <<total, status, index, caller, worker, faults>>
        /\ Queue("query", c, {}, 0) /\ "query" \in Kinds
        /\ addedLate' \subseteq Ids /\ calls' \in 0..MaxCalls
    BY <1>1, <1>2, <1>9 DEF AddQuery, NoteLate, Basic, Kinds
  <2>2. Basic' /\ CallerType'
    BY <1>1, <2>1 DEF Basic, CallerType
  <2>3. QueueType' /\ AlignedInv' /\ OnceInv'
    BY <1>1, <2>1, QueuedAlone
  <2>4. \A j \in DOMAIN jobs : j \in DOMAIN jobs' /\ jobs'[j] = jobs[j]
    <3>1. jobs \in Seq(JobRecord) /\ {} \in SUBSET Items /\ 0 \in Nat
      BY <1>1 DEF QueueType
    <3>2. QED
      BY <2>1, <3>1, Queues
  <2>5. RemovalInv'
    BY <1>1, <2>1, <2>4, RemovalKept
  <2>6. QED
    BY <2>2, <2>3, <2>5 DEF IInv
<1>10. QED
  BY <1>3, <1>4, <1>5, <1>6, <1>7, <1>8, <1>9 DEF CallStep

LEMMA WorkersInv ==
    ASSUME IInv, NEW k \in Kinds, WorkerStep(k) \/ JobFails(k) \/ Crash(k)
    PROVE  IInv'
<1> USE CollectionsAssumption DEF CollectionsAssumption
<1>1. /\ Basic /\ CallerType /\ QueueType /\ RemovalInv /\ AlignedInv /\ OnceInv
      /\ faults \in Nat /\ total \in Nat
  BY DEF IInv, Basic
<1>2. worker[k].pc # "idle" =>
          /\ jobs[worker[k].job] \in JobRecord
          /\ jobs[worker[k].job].run \in Run
          /\ jobs[worker[k].job].id \in Ids
          /\ jobs[worker[k].job].items \subseteq Items
  <2>1. worker[k].pc # "idle" => jobs[worker[k].job] \in JobRecord
    BY <1>1 DEF QueueType, AtWork
  <2>2. QED
    BY <2>1 DEF JobRecord
<1>3. CASE Take(k)
  <2>1. UNCHANGED <<total, status, index, caller, calls, faults, addedLate>>
    BY <1>3 DEF Take
  <2>2. Basic' /\ CallerType'
    BY <1>1, <2>1 DEF Basic, CallerType
  <2>3. /\ QueueType' /\ AlignedInv' /\ OnceInv'
        /\ \A j \in DOMAIN jobs :
               j \in DOMAIN jobs' /\ jobs'[j].kind = jobs[j].kind /\ jobs'[j].id = jobs[j].id
    BY <1>1, <1>3, TakeInv
  <2>4. RemovalInv'
    BY <1>1, <2>1, <2>3, RemovalKept
  <2>5. QED
    BY <2>2, <2>3, <2>4 DEF IInv
<1>4. ASSUME NEW place \in {"push", "return"}, worker[k].pc # "idle", Goto(k, place),
             UNCHANGED <<total, status, caller, jobs, calls, faults, addedLate>>,
             index' \subseteq Ids \X Items,
             place = "push" => worker["query"].offset < total
      PROVE  IInv'
  <2>1. Basic' /\ CallerType'
    BY <1>1, <1>4 DEF Basic, CallerType
  <2>2. QueueType' /\ AlignedInv' /\ OnceInv'
    BY <1>1, <1>4, GoneOn
  <2>3. RemovalInv'
    BY <1>1, <1>4, RemovalKept
  <2>4. QED
    BY <2>1, <2>2, <2>3 DEF IInv
<1>5. CASE k = "add" /\ AddBatch
  <2>1. worker[k].pc # "idle"
    BY <1>5 DEF AddBatch
  <2>2. index' \subseteq Ids \X Items
    BY <1>1, <1>2, <1>5, <2>1 DEF AddBatch, Job, Basic
  <2>3. Goto(k, "return") /\ UNCHANGED <<total, status, caller, jobs, calls, faults, addedLate>>
    BY <1>5 DEF AddBatch
  <2>4. QED
    BY <1>4, <2>1, <2>2, <2>3
<1>6. CASE k = "removeAll" /\ RemoveAll
  <2>1. worker[k].pc # "idle"
    BY <1>6 DEF RemoveAll
  <2>2. index' \subseteq Ids \X Items
    BY <1>1, <1>6 DEF RemoveAll, ItemsLeft, Basic
  <2>3. Goto(k, "return") /\ UNCHANGED <<total, status, caller, jobs, calls, faults, addedLate>>
    BY <1>6 DEF RemoveAll
  <2>4. QED
    BY <1>4, <2>1, <2>2, <2>3
<1>7. CASE k = "query" /\ SelectPage
  <2>1. worker[k].pc # "idle" /\ UNCHANGED <<total, status, index, caller, jobs, calls, faults, addedLate>>
    BY <1>7 DEF SelectPage
  <2>2. index' \subseteq Ids \X Items
    BY <1>1, <2>1 DEF Basic
  <2>3. \/ Goto(k, "return")
        \/ Goto(k, "push") /\ Page(worker["query"].offset) # {}
    BY <1>7 DEF SelectPage
  <2>4. Page(worker["query"].offset) # {} => worker["query"].offset < total
    <3>1. worker["query"].offset \in Nat
      BY <1>1 DEF QueueType, Place, Kinds
    <3>2. QED
      BY <1>1, <3>1 DEF Page
  <2>5. QED
    BY <1>4, <2>1, <2>2, <2>3, <2>4
<1>8. CASE k = "query" /\ PushBatch
  <2>1. UNCHANGED <<total, status, index, caller, calls, faults, addedLate>>
    BY <1>8 DEF PushBatch
  <2>2. Basic' /\ CallerType'
    BY <1>1, <2>1 DEF Basic, CallerType
  <2>3. /\ QueueType' /\ AlignedInv' /\ OnceInv'
        /\ \A j \in DOMAIN jobs :
               j \in DOMAIN jobs' /\ jobs'[j].kind = jobs[j].kind /\ jobs'[j].id = jobs[j].id
    BY <1>1, <1>8, PushInv
  <2>4. RemovalInv'
    BY <1>1, <2>1, <2>3, RemovalKept
  <2>5. QED
    BY <2>2, <2>3, <2>4 DEF IInv
<1>9. CASE Finish(k)
  <2> DEFINE run == Completed(jobs[worker[k].job].run)
  <2>1. worker[k].pc # "idle"
    BY <1>9 DEF Finish
  <2>2. run \in Run /\ run.state = "completed"
    BY <1>2, <2>1, RunType
  <2>3. /\ jobs' = [jobs EXCEPT ![worker[k].job].run = run]
        /\ worker' = [worker EXCEPT ![k] = IdleWorker]
        /\ UNCHANGED <<total, status, index, caller, calls, faults, addedLate>>
    BY <1>9 DEF Finish
  <2>4. faults' \in 0..MaxFaults
    BY <1>1, <2>3 DEF Basic
  <2> HIDE DEF run
  <2>5. QED
    BY <2>1, <2>2, <2>3, <2>4, EndStep
<1>10. CASE JobFails(k)
  <2> DEFINE run == Tried(jobs[worker[k].job].run)
  <2>1. worker[k].pc # "idle" /\ faults' \in 0..MaxFaults /\ faults' # 0
    BY <1>1, <1>10, Failing DEF JobFails
  <2>2. run \in Run
    BY <1>2, <2>1, RunType
  <2>3. /\ jobs' = [jobs EXCEPT ![worker[k].job].run = run]
        /\ worker' = [worker EXCEPT ![k] = IdleWorker]
        /\ UNCHANGED <<total, status, index, caller, calls, addedLate>>
    BY <1>10 DEF JobFails
  <2> HIDE DEF run
  <2>4. QED
    BY <2>1, <2>2, <2>3, EndStep
<1>11. CASE Crash(k)
  <2> DEFINE run == Stalled(jobs[worker[k].job].run)
  <2>1. worker[k].pc # "idle" /\ faults' \in 0..MaxFaults /\ faults' # 0
    BY <1>1, <1>11, Failing DEF Crash
  <2>2. run \in Run
    BY <1>2, <2>1, RunType
  <2>3. /\ jobs' = [jobs EXCEPT ![worker[k].job].run = run]
        /\ worker' = [worker EXCEPT ![k] = IdleWorker]
        /\ UNCHANGED <<total, status, index, caller, calls, addedLate>>
    BY <1>11 DEF Crash
  <2> HIDE DEF run
  <2>4. QED
    BY <2>1, <2>2, <2>3, EndStep
<1>12. QED
  BY <1>3, <1>5, <1>6, <1>7, <1>8, <1>9, <1>10, <1>11 DEF WorkerStep

LEMMA StutterInv == IInv /\ UNCHANGED vars => IInv'
<1> SUFFICES ASSUME IInv, UNCHANGED vars PROVE IInv'
  OBVIOUS
<1>1. Basic' /\ CallerType'
  BY DEF IInv, vars, Basic, CallerType
<1>2. QueueType' /\ AlignedInv' /\ OnceInv'
  BY QueuesKept DEF IInv, vars
<1>3. RemovalInv'
  BY DEF IInv, vars, RemovalInv
<1>4. QED
  BY <1>1, <1>2, <1>3 DEF IInv

LEMMA Invariance == Spec => []IInv
<1>1. IInv /\ [Next]_vars => IInv'
  BY CallsInv, WorkersInv, StutterInv DEF Next
<1>2. QED
  BY InitInv, <1>1, PTL DEF Spec

-----------------------------------------------------------------------------
(* The theorems.                                                           *)

\* TypeOK holds in every reachable state: a worker is at a job of its own queue
\* that is there, and a batch comes after the query that queued it.
THEOREM TypeCorrect == Spec => []TypeOK
<1>1. IInv => TypeOK
  BY TypeCombined DEF IInv
<1>2. QED
  BY Invariance, <1>1, PTL

\* As long as nothing failed, remove leaves no deleted collection without a job
\* that deletes its items, whatever patches and removes overlap with it.
THEOREM RemovalQueued == Spec => []DeletedHasRemoval
<1>1. IInv => DeletedHasRemoval
  BY DEF IInv, RemovalInv, DeletedHasRemoval
<1>2. QED
  BY Invariance, <1>1, PTL

\* Pages at two offsets of the loop are the same page, or disjoint.
LEMMA PagesApart ==
    ASSUME NEW o \in Nat, NEW p \in Nat, Aligned(o), Aligned(p), total \in Nat
    PROVE  Page(o) = Page(p) \/ Page(o) \cap Page(p) = {}
<1>1. PageSize \in Nat \ {0}
  BY CollectionsAssumption DEF CollectionsAssumption
<1>2. ASSUME NEW m \in Nat, NEW n \in Nat, m < n
      PROVE  2 * (PageSize * m) + PageSize <= 2 * (PageSize * n)
  <2>1. PICK d \in Nat : n = m + 1 + d
    <3>1. n - m - 1 \in Nat /\ n = m + 1 + (n - m - 1)
      BY <1>2
    <3>2. QED
      BY <3>1
  <2>2. PageSize * (m + 1 + d) = PageSize * m + PageSize + PageSize * d
    BY <1>1
  <2>3. PageSize * m \in Nat /\ PageSize * d \in Nat
    BY <1>1
  <2>4. QED
    BY <1>1, <2>1, <2>2, <2>3
<1>3. PICK m \in Nat : o = 2 * (PageSize * m)
  BY DEF Aligned
<1>4. PICK n \in Nat : p = 2 * (PageSize * n)
  BY DEF Aligned
<1>5. m = n \/ m < n \/ n < m
  OBVIOUS
<1>6. o = p \/ o + PageSize <= p \/ p + PageSize <= o
  BY <1>2, <1>3, <1>4, <1>5
<1>7. QED
  BY <1>1, <1>6 DEF Page

\* The batches of one query are disjoint as long as nothing failed, and parts
\* of the result at the same offsets afterwards, however many times the query
\* job of addQueryResultItemsToCollection is run again, and from wherever.
THEOREM BatchesApart == Spec => []BatchesAligned
<1>1. IInv => BatchesAligned
  <2> SUFFICES ASSUME IInv, NEW i \in DOMAIN jobs, NEW j \in DOMAIN jobs, i # j,
                      jobs[i].parent # 0, jobs[i].parent = jobs[j].parent
               PROVE  \/ jobs[i].items \cap jobs[j].items = {}
                      \/ faults > 0 /\ jobs[i].items = jobs[j].items
    BY DEF BatchesAligned
  <2>1. faults \in Nat /\ total \in Nat
    BY CollectionsAssumption DEF IInv, Basic, CollectionsAssumption
  <2>2. CASE faults = 0
    BY <2>2 DEF IInv, OnceInv
  <2>3. CASE faults # 0
    <3>1. PICK o \in Nat : Aligned(o) /\ jobs[i].items = Page(o)
      BY DEF IInv, AlignedInv
    <3>2. PICK p \in Nat : Aligned(p) /\ jobs[j].items = Page(p)
      BY DEF IInv, AlignedInv
    <3>3. Page(o) = Page(p) \/ Page(o) \cap Page(p) = {}
      BY <2>1, <3>1, <3>2, PagesApart
    <3>4. QED
      BY <2>1, <2>3, <3>1, <3>2, <3>3
  <2>4. QED
    BY <2>2, <2>3
<1>2. QED
  BY Invariance, <1>1, PTL
-----------------------------------------------------------------------------
(* The items of a deleted collection.                                      *)

NoItem(c) == \A i \in Items : <<c, i>> \notin index
Removing(c) == \E u \in Callers : caller[u].id = c /\ caller[u].pc = "queue"

\* A removal that has not deleted the items yet.
Pending(c, j) ==
    /\ jobs[j].kind = "removeAll"
    /\ jobs[j].id = c
    /\ Unfinished(jobs[j].run)
    /\ ~(worker["removeAll"].pc = "return" /\ worker["removeAll"].job = j)

\* Nothing failed, the collection was deleted, and nothing added to it since or
\* may still add to it.
Doomed(c) ==
    /\ c \notin addedLate
    /\ faults = 0
    /\ status[c] = "DEL"
    /\ \A j \in DOMAIN jobs : jobs[j].id = c => jobs[j].kind = "removeAll"

\* Such a collection is empty, or has a removal ahead.
Promised(c) == NoItem(c) \/ Removing(c) \/ \E j \in DOMAIN jobs : Pending(c, j)

EmptiedInv == \A c \in Ids : Doomed(c) => Promised(c)

\* The collection has not lost what it was promised by.
LEMMA PromiseKept ==
    ASSUME NEW c \in Ids, EmptiedInv, Doomed(c),
           NoItem(c) => NoItem(c)',
           Removing(c) => Removing(c)',
           \A j \in DOMAIN jobs : Pending(c, j) => j \in DOMAIN jobs' /\ Pending(c, j)'
    PROVE  Promised(c)'
<1>1. Promised(c)
  BY DEF EmptiedInv
<1>2. CASE \E j \in DOMAIN jobs : Pending(c, j)
  <2>1. PICK j \in DOMAIN jobs : Pending(c, j)
    BY <1>2
  <2>2. j \in DOMAIN jobs' /\ Pending(c, j)'
    BY <2>1
  <2>3. QED
    BY <2>2 DEF Promised
<1>3. QED
  BY <1>1, <1>2 DEF Promised

\* What a collection was deleted by, and its jobs, are still there when jobs were
\* only added.
LEMMA DoomedBefore ==
    ASSUME NEW c \in Ids, Doomed(c)', faults' = 0 => faults = 0,
           status'[c] = "DEL" => status[c] = "DEL", addedLate \subseteq addedLate',
           \A j \in DOMAIN jobs :
               j \in DOMAIN jobs' /\ jobs'[j].kind = jobs[j].kind /\ jobs'[j].id = jobs[j].id
    PROVE  Doomed(c)
BY DEF Doomed

LEMMA EmptiedByCalls ==
    ASSUME IInv, EmptiedInv, NEW c \in Ids, Doomed(c)',
           \/ \E d \in Ids, access \in Visible : Create(d, access)
           \/ \E u \in Callers, d \in Ids, want \in Visible \cup {"DEL"} : FindRow(u, d, want)
           \/ \E u \in Callers : CallStep(u) \/ CallerFails(u)
           \/ \E d \in Ids, i \in Items : AddItems(d, {i}) \/ RemoveItems(d, {i})
           \/ \E d \in Ids : AddQuery(d)
    PROVE  Promised(c)'
<1>1. /\ Basic /\ CallerType /\ QueueType
      /\ faults \in Nat
  BY CollectionsAssumption DEF IInv, Basic, CollectionsAssumption
<1>2. ASSUME UNCHANGED <<jobs, worker, faults>>, addedLate \subseteq addedLate',
             status'[c] = "DEL" => status[c] = "DEL",
             NoItem(c) => NoItem(c)',
             Removing(c) => Removing(c)'
      PROVE  Promised(c)'
  <2>1. Doomed(c)
    BY <1>2, DoomedBefore
  <2>2. \A j \in DOMAIN jobs : Pending(c, j) => j \in DOMAIN jobs' /\ Pending(c, j)'
    BY <1>2 DEF Pending
  <2>3. QED
    BY <1>2, <2>1, <2>2, PromiseKept
<1>3. ASSUME NEW d \in Ids, NEW access \in Visible, Create(d, access) PROVE Promised(c)'
  <2>1. status'[c] = "DEL" => status[c] = "DEL"
    BY <1>1, <1>3 DEF Create, Basic, Visible
  <2>2. UNCHANGED <<index, caller, jobs, worker, faults, addedLate>>
    BY <1>3 DEF Create
  <2>3. QED
    BY <1>2, <2>1, <2>2 DEF NoItem, Removing
<1>4. ASSUME NEW u \in Callers, NEW d \in Ids, NEW want \in Visible \cup {"DEL"}, FindRow(u, d, want)
      PROVE  Promised(c)'
  <2>1. /\ caller[u].pc = "idle" /\ UNCHANGED <<status, index, jobs, worker, faults, addedLate>>
        /\ caller' = [caller EXCEPT ![u] = [pc |-> "found", id |-> d, read |-> status[d], want |-> want]]
    BY <1>4 DEF FindRow
  <2>2. \A v \in Callers : v # u => caller'[v] = caller[v]
    BY <1>1, <2>1 DEF CallerType
  <2>3. Removing(c) => Removing(c)'
    BY <2>1, <2>2 DEF Removing
  <2>4. QED
    BY <1>2, <2>1, <2>3 DEF NoItem
<1>5. ASSUME NEW u \in Callers, UpdateRow(u) PROVE Promised(c)'
  <2> DEFINE call == caller[u]
             place == IF call.want = "DEL" THEN "queue" ELSE "idle"
  <2>1. /\ call.pc = "found"
        /\ status' = [status EXCEPT ![call.id] = IF call.want = call.read THEN @ ELSE call.want]
        /\ caller' = [caller EXCEPT ![u].pc = place]
        /\ UNCHANGED <<index, jobs, worker, faults, addedLate>>
    BY <1>5 DEF UpdateRow
  <2>2. call \in Call /\ place \in {"idle", "found", "queue"}
    BY <1>1 DEF CallerType
  <2>3. \A v \in Callers : /\ caller'[v].id = caller[v].id
                           /\ caller'[v].pc = IF v = u THEN place ELSE caller[v].pc
    BY <1>1, <2>1, <2>2, CallerMoved
  <2>4. status'[c] = status[c] \/ (c = call.id /\ status'[c] = call.want)
    BY <1>1, <2>1, <2>2 DEF Basic, Call
  <2>5. CASE c = call.id /\ call.want = "DEL"
    <3>1. caller'[u].id = c /\ caller'[u].pc = "queue"
      BY <2>3, <2>5
    <3>2. QED
      BY <3>1 DEF Promised, Removing
  <2>6. CASE ~(c = call.id /\ call.want = "DEL")
    <3>1. status'[c] = "DEL" => status[c] = "DEL"
      BY <2>4, <2>6
    <3>2. Removing(c) => Removing(c)'
      BY <2>1, <2>3 DEF Removing
    <3>3. QED
      BY <1>2, <2>1, <3>1, <3>2 DEF NoItem
  <2>7. QED
    BY <2>5, <2>6
<1>6. ASSUME NEW u \in Callers, QueueRemoval(u) PROVE Promised(c)'
  <2> PICK n : n = Len(jobs) + 1
    OBVIOUS
  <2>1. /\ Queue("removeAll", caller[u].id, {}, 0)
        /\ caller' = [caller EXCEPT ![u].pc = "idle"]
        /\ UNCHANGED <<status, index, worker, faults, addedLate>>
    BY <1>6 DEF QueueRemoval, NeedsRemoval
  <2>2. /\ jobs \in Seq(JobRecord) /\ caller[u].id \in Ids /\ {} \in SUBSET Items /\ 0 \in Nat
        /\ "removeAll" \in Kinds
    BY <1>1 DEF QueueType, CallerType, Call, Kinds
  <2>3. /\ DOMAIN jobs' = DOMAIN jobs \cup {n}
        /\ Len(jobs) \in Nat /\ DOMAIN jobs = 1..Len(jobs)
        /\ \A j \in DOMAIN jobs : jobs'[j] = jobs[j]
        /\ jobs'[n] = [kind |-> "removeAll", id |-> caller[u].id, items |-> {}, parent |-> 0,
                       run |-> Queued]
    BY <2>1, <2>2, Queues
  <2>4. n \notin DOMAIN jobs /\ n \in DOMAIN jobs'
    BY <2>3
  <2>5. \A v \in Callers : /\ caller'[v].id = caller[v].id
                           /\ caller'[v].pc = IF v = u THEN "idle" ELSE caller[v].pc
    BY <1>1, <2>1, CallerMoved
  <2>6. CASE c = caller[u].id
    <3>1. worker["removeAll"].pc = "return" => worker["removeAll"].job \in DOMAIN jobs
      BY <1>1 DEF QueueType, AtWork, Kinds
    <3>2. Pending(c, n)'
      BY <2>1, <2>3, <2>4, <2>6, <3>1 DEF Pending, Unfinished, Queued
    <3>3. QED
      BY <2>4, <3>2 DEF Promised
  <2>7. CASE c # caller[u].id
    <3>1. Doomed(c)
      BY <2>1, <2>3, DoomedBefore
    <3>2. Removing(c) => Removing(c)'
      BY <2>5, <2>7 DEF Removing
    <3>3. \A j \in DOMAIN jobs : Pending(c, j) => j \in DOMAIN jobs' /\ Pending(c, j)'
      BY <2>1, <2>3 DEF Pending
    <3>4. NoItem(c) => NoItem(c)'
      BY <2>1 DEF NoItem
    <3>5. QED
      BY <3>1, <3>2, <3>3, <3>4, PromiseKept
  <2>8. QED
    BY <2>6, <2>7
<1>7. ASSUME NEW u \in Callers, CallerFails(u) PROVE Promised(c)'
  <2>1. faults' = faults + 1
    BY <1>7 DEF CallerFails
  <2>2. QED
    BY <1>1, <2>1 DEF Doomed
<1>8. ASSUME NEW d \in Ids, NEW i \in Items, AddItems(d, {i}) PROVE Promised(c)'
  <2>1. /\ UNCHANGED <<status, caller, jobs, worker, faults>>
        /\ index' = index \cup ({d} \X {i})
        /\ addedLate' = IF status[d] = "DEL" THEN addedLate \cup {d} ELSE addedLate
    BY <1>8 DEF AddItems, NoteLate
  <2>2. c # d
    BY <2>1 DEF Doomed
  <2>3. NoItem(c) => NoItem(c)'
    BY <2>1, <2>2 DEF NoItem
  <2>4. Removing(c) => Removing(c)'
    BY <2>1 DEF Removing
  <2>5. QED
    BY <1>2, <2>1, <2>3, <2>4
<1>9. ASSUME NEW d \in Ids, NEW i \in Items, RemoveItems(d, {i}) PROVE Promised(c)'
  <2>1. /\ UNCHANGED <<status, caller, jobs, worker, faults, addedLate>>
        /\ index' \subseteq index
    BY <1>9 DEF RemoveItems
  <2>2. NoItem(c) => NoItem(c)'
    BY <2>1 DEF NoItem
  <2>3. Removing(c) => Removing(c)'
    BY <2>1 DEF Removing
  <2>4. QED
    BY <1>2, <2>1, <2>2, <2>3
<1>10. ASSUME NEW d \in Ids, AddQuery(d) PROVE Promised(c)'
  <2> DEFINE n == Len(jobs) + 1
  <2>1. /\ Queue("query", d, {}, 0)
        /\ UNCHANGED <<status, index, caller, worker, faults>>
        /\ addedLate \subseteq addedLate'
    BY <1>10 DEF AddQuery, NoteLate
  <2>2. jobs \in Seq(JobRecord) /\ {} \in SUBSET Items /\ 0 \in Nat /\ "query" \in Kinds
    BY <1>1 DEF QueueType, Kinds
  <2>3. /\ DOMAIN jobs' = DOMAIN jobs \cup {n}
        /\ \A j \in DOMAIN jobs : jobs'[j] = jobs[j]
    BY <2>1, <2>2, Queues
  <2> HIDE DEF n
  <2>4. Doomed(c)
    BY <2>1, <2>3, DoomedBefore
  <2>5. \A j \in DOMAIN jobs : Pending(c, j) => j \in DOMAIN jobs' /\ Pending(c, j)'
    BY <2>1, <2>3 DEF Pending
  <2>6. NoItem(c) => NoItem(c)'
    BY <2>1 DEF NoItem
  <2>7. Removing(c) => Removing(c)'
    BY <2>1 DEF Removing
  <2>8. QED
    BY <2>4, <2>5, <2>6, <2>7, PromiseKept
<1>11. QED
  BY <1>3, <1>4, <1>5, <1>6, <1>7, <1>8, <1>9, <1>10 DEF CallStep

\* The deletion of the items keeps the promise; the end of its job no longer needs to,
\* and the jobs of the other kinds are not for this collection.
LEMMA EmptiedByWorkers ==
    ASSUME IInv, EmptiedInv, NEW c \in Ids, Doomed(c)',
           NEW k \in Kinds, WorkerStep(k) \/ JobFails(k) \/ Crash(k)
    PROVE  Promised(c)'
<1>1. /\ QueueType /\ faults \in Nat /\ jobs \in Seq(JobRecord)
      /\ worker \in [Kinds -> Place] /\ "removeAll" \in Kinds
  BY CollectionsAssumption DEF IInv, Basic, CollectionsAssumption, QueueType, Kinds
<1>2. worker[k].pc # "idle" =>
          worker[k].job \in DOMAIN jobs /\ jobs[worker[k].job].kind = k
  BY <1>1 DEF QueueType, AtWork
<1>3. CASE Take(k)
  <2>1. PICK j \in Waiting(k) :
            /\ jobs' = [jobs EXCEPT ![j].run = Started(@)]
            /\ worker' = [worker EXCEPT ![k] = [pc |-> "call", job |-> j, offset |-> 0]]
    BY <1>3 DEF Take
  <2>2. worker[k].pc = "idle" /\ UNCHANGED <<status, index, caller, faults, addedLate>>
    BY <1>3 DEF Take
  <2>3. j \in DOMAIN jobs
    BY <2>1 DEF Waiting
  <2> DEFINE run == Started(jobs[j].run)
  <2>4. run \in Run /\ run.state = "active"
    <3>1. jobs[j] \in JobRecord
      BY <1>1, <2>3
    <3>2. jobs[j].run \in Run
      BY <3>1 DEF JobRecord
    <3>3. QED
      BY <3>2, RunType
  <2>5. jobs' = [jobs EXCEPT ![j].run = run]
    BY <2>1
  <2> HIDE DEF run
  <2>6. /\ DOMAIN jobs' = DOMAIN jobs
        /\ \A i \in DOMAIN jobs : /\ jobs'[i].kind = jobs[i].kind
                                  /\ jobs'[i].id = jobs[i].id
                                  /\ jobs'[i].run = IF i = j THEN run ELSE jobs[i].run
    BY <1>1, <2>3, <2>4, <2>5, RunChanged
  <2>7. worker'["removeAll"] = worker["removeAll"] \/ worker'["removeAll"].pc = "call"
    BY <1>1, <2>1
  <2>8. \A i \in DOMAIN jobs : Pending(c, i) => i \in DOMAIN jobs' /\ Pending(c, i)'
    BY <2>4, <2>6, <2>7 DEF Pending, Unfinished
  <2>9. Doomed(c)
    BY <2>2, <2>6, DoomedBefore
  <2>10. (NoItem(c) => NoItem(c)') /\ (Removing(c) => Removing(c)')
    BY <2>2 DEF NoItem, Removing
  <2>11. QED
    BY <2>8, <2>9, <2>10, PromiseKept
<1>4. CASE k = "add" /\ AddBatch
  <2>1. /\ worker["add"].pc = "call" /\ UNCHANGED <<status, caller, jobs, faults, addedLate>>
        /\ index' = index \cup ({jobs[worker["add"].job].id} \X jobs[worker["add"].job].items)
        /\ worker' = [worker EXCEPT !["add"].pc = "return"]
    BY <1>4 DEF AddBatch, Job, Goto
  <2>2. Doomed(c)
    BY <2>1, DoomedBefore
  <2>3. jobs[worker["add"].job].id # c
    BY <1>2, <1>4, <2>1, <2>2 DEF Doomed
  <2>4. NoItem(c) => NoItem(c)'
    BY <2>1, <2>3 DEF NoItem
  <2>5. Removing(c) => Removing(c)'
    BY <2>1 DEF Removing
  <2>6. worker'["removeAll"] = worker["removeAll"]
    BY <1>1, <2>1
  <2>7. \A j \in DOMAIN jobs : Pending(c, j) => j \in DOMAIN jobs' /\ Pending(c, j)'
    BY <2>1, <2>6 DEF Pending
  <2>8. QED
    BY <2>2, <2>4, <2>5, <2>7, PromiseKept
<1>5. CASE k = "removeAll" /\ RemoveAll
  <2>1. /\ worker["removeAll"].pc = "call" /\ UNCHANGED <<status, caller, jobs, faults, addedLate>>
        /\ index' = {p \in index : p[1] # jobs[worker["removeAll"].job].id}
        /\ worker' = [worker EXCEPT !["removeAll"].pc = "return"]
    BY <1>5 DEF RemoveAll, ItemsLeft, Job, Goto
  <2>2. CASE c = jobs[worker["removeAll"].job].id
    <3>1. NoItem(c)'
      BY <2>1, <2>2 DEF NoItem
    <3>2. QED
      BY <3>1 DEF Promised
  <2>3. CASE c # jobs[worker["removeAll"].job].id
    <3>1. Doomed(c)
      BY <2>1, DoomedBefore
    <3>2. NoItem(c) => NoItem(c)'
      BY <2>1 DEF NoItem
    <3>3. Removing(c) => Removing(c)'
      BY <2>1 DEF Removing
    <3>4. worker'["removeAll"].job = worker["removeAll"].job
      BY <1>1, <2>1 DEF Place
    <3>5. \A j \in DOMAIN jobs : Pending(c, j) => j \in DOMAIN jobs' /\ Pending(c, j)'
      BY <2>1, <2>3, <3>4 DEF Pending
    <3>6. QED
      BY <3>1, <3>2, <3>3, <3>5, PromiseKept
  <2>4. QED
    BY <2>2, <2>3
<1>6. CASE k = "query" /\ SelectPage
  <2>1. /\ UNCHANGED <<status, index, caller, jobs, faults, addedLate>>
        /\ \E place \in {"return", "push"} : Goto("query", place)
    BY <1>6 DEF SelectPage
  <2>2. worker'["removeAll"] = worker["removeAll"]
    BY <1>1, <2>1 DEF Goto
  <2>3. Doomed(c)
    BY <2>1, DoomedBefore
  <2>4. \A j \in DOMAIN jobs : Pending(c, j) => j \in DOMAIN jobs' /\ Pending(c, j)'
    BY <2>1, <2>2 DEF Pending
  <2>5. (NoItem(c) => NoItem(c)') /\ (Removing(c) => Removing(c)')
    BY <2>1 DEF NoItem, Removing
  <2>6. QED
    BY <2>3, <2>4, <2>5, PromiseKept
<1>7. CASE k = "query" /\ PushBatch
  <2> DEFINE q == worker["query"].job
  <2>1. /\ UNCHANGED <<total, status, index, caller, calls, faults, addedLate>>
        /\ worker' = [worker EXCEPT !["query"].pc = "call",
                                    !["query"].offset = NextOffset(worker["query"].offset)]
        /\ Queue("add", jobs[q].id, Page(worker["query"].offset), q)
        /\ worker["query"].pc = "push"
    BY <1>7 DEF PushBatch, Job
  <2>2. worker'["removeAll"] = worker["removeAll"]
    BY <1>1, <2>1
  <2>3. \A j \in DOMAIN jobs : j \in DOMAIN jobs' /\ jobs'[j] = jobs[j]
    BY <1>1, <2>1 DEF Queue
  <2>4. Doomed(c)
    BY <2>1, <2>3, DoomedBefore
  <2>5. \A j \in DOMAIN jobs : Pending(c, j) => j \in DOMAIN jobs' /\ Pending(c, j)'
    BY <2>2, <2>3 DEF Pending
  <2>6. (NoItem(c) => NoItem(c)') /\ (Removing(c) => Removing(c)')
    BY <2>1 DEF NoItem, Removing
  <2>7. QED
    BY <2>4, <2>5, <2>6, PromiseKept
<1>8. CASE Finish(k)
  <2>1. PICK j : j = worker[k].job
    OBVIOUS
  <2> DEFINE run == Completed(jobs[j].run)
  <2>2. /\ worker[k].pc = "return"
        /\ jobs' = [jobs EXCEPT ![j].run = run]
        /\ worker' = [worker EXCEPT ![k] = IdleWorker]
        /\ UNCHANGED <<status, index, caller, faults, addedLate>>
    BY <1>8, <2>1 DEF Finish
  <2>3. j \in DOMAIN jobs /\ jobs[j].kind = k
    BY <1>2, <2>1, <2>2
  <2>4. run \in Run
    <3>1. jobs[j] \in JobRecord
      BY <1>1, <2>3
    <3>2. jobs[j].run \in Run
      BY <3>1 DEF JobRecord
    <3>3. QED
      BY <3>2, RunType
  <2> HIDE DEF run
  <2>5. /\ DOMAIN jobs' = DOMAIN jobs
        /\ \A i \in DOMAIN jobs : /\ jobs'[i].kind = jobs[i].kind
                                  /\ jobs'[i].id = jobs[i].id
                                  /\ jobs'[i].run = IF i = j THEN run ELSE jobs[i].run
    BY <1>1, <2>2, <2>3, <2>4, RunChanged
  <2>6. worker'["removeAll"] = worker["removeAll"] \/ worker'["removeAll"].pc = "idle"
    BY <1>1, <2>2 DEF IdleWorker
  <2>7. \A i \in DOMAIN jobs : Pending(c, i) => i # j
    BY <2>1, <2>2, <2>3 DEF Pending
  <2>8. \A i \in DOMAIN jobs : Pending(c, i) => i \in DOMAIN jobs' /\ Pending(c, i)'
    BY <2>5, <2>6, <2>7 DEF Pending
  <2>9. Doomed(c)
    BY <2>2, <2>5, DoomedBefore
  <2>10. (NoItem(c) => NoItem(c)') /\ (Removing(c) => Removing(c)')
    BY <2>2 DEF NoItem, Removing
  <2>11. QED
    BY <2>8, <2>9, <2>10, PromiseKept
<1>9. CASE JobFails(k) \/ Crash(k)
  <2>1. faults' = faults + 1
    BY <1>9 DEF JobFails, Crash
  <2>2. QED
    BY <1>1, <2>1 DEF Doomed
<1>10. QED
  BY <1>3, <1>4, <1>5, <1>6, <1>7, <1>8, <1>9 DEF WorkerStep

LEMMA EmptiedInvariance == Spec => [](IInv /\ EmptiedInv)
<1>1. Init => EmptiedInv
  BY DEF Init, EmptiedInv, Promised, NoItem
<1>2. IInv /\ EmptiedInv /\ [Next]_vars => EmptiedInv'
  <2> SUFFICES ASSUME IInv, EmptiedInv, [Next]_vars, NEW c \in Ids, Doomed(c)'
               PROVE  Promised(c)'
    BY DEF EmptiedInv
  <2>1. CASE Next
    BY <2>1, EmptiedByCalls, EmptiedByWorkers DEF Next
  <2>2. CASE UNCHANGED vars
    <3>1. Doomed(c) /\ (Promised(c) => Promised(c)')
      BY <2>2 DEF vars, Doomed, Promised, NoItem, Removing, Pending
    <3>2. QED
      BY <3>1 DEF EmptiedInv
  <2>3. QED
    BY <2>1, <2>2
<1>3. QED
  BY Invariance, <1>1, <1>2, PTL DEF Spec

\* When nothing failed and no call and no job is left, a deleted collection has
\* no items, whatever was added or patched while remove was at work: what the
\* row's status and the job that remove queues promise to each other.
THEOREM Emptied == Spec => []DeletedEmptied
<1>1. IInv /\ EmptiedInv => DeletedEmptied
  <2> SUFFICES ASSUME IInv, EmptiedInv, NEW c \in Ids \ addedLate,
                      \A j \in DOMAIN jobs : jobs[j].id = c => jobs[j].kind = "removeAll",
                      AtRest(c)
               PROVE  \A i \in Items : <<c, i>> \notin index
    BY DEF DeletedEmptied
  <2>1. Promised(c)
    BY DEF EmptiedInv, Doomed, AtRest
  <2>2. ~Removing(c)
    BY DEF Removing, AtRest
  <2>3. \A j \in DOMAIN jobs : ~Pending(c, j)
    BY DEF Pending, AtRest
  <2>4. QED
    BY <2>1, <2>2, <2>3 DEF Promised, NoItem
<1>2. QED
  BY EmptiedInvariance, <1>1, PTL
=============================================================================
