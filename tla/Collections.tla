---------------------------- MODULE Collections ----------------------------
(***************************************************************************)
(* Collections of a user: the status of a collection is a database row,    *)
(* its items are documents of a Solr index, and the two are kept together  *)
(* by nothing but the order of the calls.  Items are added and removed     *)
(* directly, or in the background for the result of a query; deleting a    *)
(* collection marks its row and queues a job that deletes its items.  Each *)
(* kind of job has a queue of its own with one worker, so jobs of          *)
(* different kinds overlap.                                                *)
(***************************************************************************)
EXTENDS BullJob, Sequences

CONSTANTS
    Ids,          (* collections                                            *)
    Callers,      (* API calls that may be in flight at once                *)
    PageSize,     (* items of one batch                                     *)
    QueryLimit,   (* results beyond which a query is not added at all       *)
    MaxTotal,     (* bound: results of the query                            *)
    MaxCalls,     (* bound: API calls that add, remove or delete            *)
    MaxFaults     (* bound: failed calls and crashes                        *)

ASSUME CollectionsAssumption ==
    /\ Ids # {}
    /\ PageSize \in Nat \ {0}
    /\ {QueryLimit, MaxTotal, MaxCalls, MaxFaults} \subseteq Nat

VARIABLES
    total,    (* results of the query, items 1..total                       *)
    status,   (* collection -> status of its row                            *)
    index,    (* Solr's collection_items: pairs of collection and item      *)
    caller,   (* remove and patch calls between their database calls        *)
    jobs,     (* BullMQ jobs of the three queues                            *)
    worker,   (* queue -> what its worker is doing                          *)
    calls,    (* API calls made so far                                      *)
    faults,   (* failed calls and crashes so far                            *)
    addedLate (* history: deleted collections that calls still added to     *)

vars == <<total, status, index, caller, jobs, worker, calls, faults, addedLate>>

Kinds == {"add", "removeAll", "query"}
Visible == {"PRI", "PUB"}
Items == 1..MaxTotal

\* "parent" is the query job that queued a batch, 0 for the other kinds.
JobRecord == [kind : Kinds, id : Ids, items : SUBSET Items, parent : Nat, run : Run]

IdleWorker == [pc |-> "idle", job |-> 0, offset |-> 0]

TypeOK ==
    /\ total \in 0..MaxTotal
    /\ status \in [Ids -> Visible \cup {"none", "DEL"}]
    /\ index \subseteq Ids \X Items
    /\ \A u \in Callers : /\ caller[u].pc \in {"idle", "found", "queue"}
                          /\ caller[u].id \in Ids
                          /\ caller[u].read \in Visible
                          /\ caller[u].want \in Visible \cup {"DEL"}
    /\ \A j \in DOMAIN jobs : jobs[j] \in JobRecord /\ jobs[j].parent < j
    /\ \A k \in Kinds : /\ worker[k].pc \in {"idle", "call", "push", "return"}
                        /\ worker[k].job \in 0..Len(jobs)
                        /\ worker[k].pc # "idle" => jobs[worker[k].job].kind = k
                        /\ worker[k].offset \in Nat
    /\ calls \in 0..MaxCalls
    /\ faults \in 0..MaxFaults
    /\ addedLate \subseteq Ids

Init ==
    /\ total \in 0..MaxTotal
    /\ status = [c \in Ids |-> "none"]
    /\ index = {}
    /\ caller = [u \in Callers |-> [pc |-> "idle", id |-> CHOOSE c \in Ids : TRUE,
                                    read |-> "PRI", want |-> "PRI"]]
    /\ jobs = <<>>
    /\ worker = [k \in Kinds |-> IdleWorker]
    /\ calls = 0
    /\ faults = 0
    /\ addedLate = {}

Queue(kind, c, items, parent) ==
    jobs' = Append(jobs, [kind |-> kind, id |-> c, items |-> items, parent |-> parent, run |-> Queued])

NoteLate(c) == addedLate' = IF status[c] = "DEL" THEN addedLate \cup {c} ELSE addedLate

Called == calls < MaxCalls /\ calls' = calls + 1

-----------------------------------------------------------------------------
(* The collections service                                                 *)

Create(c, access) ==
    /\ status[c] = "none"
    /\ status' = [status EXCEPT ![c] = access]
    /\ UNCHANGED <<total, index, caller, jobs, worker, calls, faults, addedLate>>

\* patch of the access level, and remove: the row is read first.
FindRow(u, c, want) ==
    /\ caller[u].pc = "idle"
    /\ status[c] \in Visible
    /\ Called
    /\ caller' = [caller EXCEPT ![u] = [pc |-> "found", id |-> c, read |-> status[c], want |-> want]]
    /\ UNCHANGED <<total, status, index, jobs, worker, faults, addedLate>>

\* The row that was read is updated; Sequelize sends the fields that differ
\* from what it read.
UpdateRow(u) ==
    LET call == caller[u]
    IN  /\ call.pc = "found"
        /\ status' = [status EXCEPT ![call.id] = IF call.want = call.read THEN @ ELSE call.want]
        /\ caller' = [caller EXCEPT ![u].pc = IF call.want = "DEL" THEN "queue" ELSE "idle"]
        /\ UNCHANGED <<total, index, jobs, worker, calls, faults, addedLate>>

\* Mutant: the items of an empty collection are not asked to be deleted.
NeedsRemovalIfFilled(c) == \E i \in Items : <<c, i>> \in index

NeedsRemoval(c) == TRUE

\* remove queues the deletion of the items.
QueueRemoval(u) ==
    /\ caller[u].pc = "queue"
    /\ IF NeedsRemoval(caller[u].id) THEN Queue("removeAll", caller[u].id, {}, 0) ELSE UNCHANGED jobs
    /\ caller' = [caller EXCEPT ![u].pc = "idle"]
    /\ UNCHANGED <<total, status, index, worker, calls, faults, addedLate>>

\* A remove or patch fails between its calls, or its process dies.
CallerFails(u) ==
    /\ caller[u].pc # "idle"
    /\ faults < MaxFaults
    /\ faults' = faults + 1
    /\ caller' = [caller EXCEPT ![u].pc = "idle"]
    /\ UNCHANGED <<total, status, index, jobs, worker, calls, addedLate>>

-----------------------------------------------------------------------------
(* The collectable-items service: it does not look at the collection's row *)

\* patch with "add", and with "remove"; with both it is one after the other.
AddItems(c, items) ==
    /\ Called
    /\ index' = index \cup ({c} \X items)
    /\ NoteLate(c)
    /\ UNCHANGED <<total, status, caller, jobs, worker, faults>>

RemoveItems(c, items) ==
    /\ Called
    /\ index' = index \ ({c} \X items)
    /\ UNCHANGED <<total, status, caller, jobs, worker, faults, addedLate>>

\* create: the result of a query.
AddQuery(c) ==
    /\ Called
    /\ Queue("query", c, {}, 0)
    /\ NoteLate(c)
    /\ UNCHANGED <<total, status, index, caller, worker, faults>>

-----------------------------------------------------------------------------
(* The workers                                                             *)

Job(k) == jobs[worker[k].job]
Goto(k, place) == worker' = [worker EXCEPT ![k].pc = place]

\* Mutant: every worker polls the same queue.
WaitingAnywhere(k) == {j \in DOMAIN jobs : jobs[j].run.state = "waiting"}

Waiting(k) == {j \in DOMAIN jobs : jobs[j].kind = k /\ jobs[j].run.state = "waiting"}

Take(k) ==
    /\ worker[k].pc = "idle"
    /\ \E j \in Waiting(k) :
          /\ jobs' = [jobs EXCEPT ![j].run = Started(@)]
          /\ worker' = [worker EXCEPT ![k] = [pc |-> "call", job |-> j, offset |-> 0]]
    /\ UNCHANGED <<total, status, index, caller, calls, faults, addedLate>>

\* addItemsToCollection: one bulk update of Solr.
AddBatch ==
    /\ worker["add"].pc = "call"
    /\ index' = index \cup ({Job("add").id} \X Job("add").items)
    /\ Goto("add", "return")
    /\ UNCHANGED <<total, status, caller, jobs, calls, faults, addedLate>>

\* Mutant: a page of the items is deleted.
ItemsLeftOnPage(c) == {p \in index : p[1] # c \/ p[2] > PageSize}

ItemsLeft(c) == {p \in index : p[1] # c}

\* removeAllCollectionItems: one delete by query.
RemoveAll ==
    /\ worker["removeAll"].pc = "call"
    /\ index' = ItemsLeft(Job("removeAll").id)
    /\ Goto("removeAll", "return")
    /\ UNCHANGED <<total, status, caller, jobs, calls, faults, addedLate>>

\* The page of the query's result at an offset.
Page(offset) == {i \in 1..total : i > offset /\ i <= offset + PageSize}

OverLimit == total > QueryLimit

\* addQueryResultItemsToCollection: the loop ends at the limit, on a result
\* that is over it, or on an empty page.
SelectPage ==
    LET offset == worker["query"].offset
    IN  /\ worker["query"].pc = "call"
        /\ IF offset >= QueryLimit \/ OverLimit \/ Page(offset) = {}
              THEN Goto("query", "return") ELSE Goto("query", "push")
        /\ UNCHANGED <<total, status, index, caller, jobs, calls, faults, addedLate>>

\* Mutant: the loop goes back over the last item of the page.
NextOffsetBack(offset) == offset + PageSize - 1

\* The loop's own increment comes after that of its body.
NextOffset(offset) ==
    LET docs == IF total <= offset + PageSize THEN total - offset ELSE PageSize
    IN  offset + docs + PageSize

PushBatch ==
    LET offset == worker["query"].offset
    IN  /\ worker["query"].pc = "push"
        /\ Queue("add", Job("query").id, Page(offset), worker["query"].job)
        /\ worker' = [worker EXCEPT !["query"].pc = "call", !["query"].offset = NextOffset(offset)]
        /\ UNCHANGED <<total, status, index, caller, calls, faults, addedLate>>

Finish(k) ==
    /\ worker[k].pc = "return"
    /\ jobs' = [jobs EXCEPT ![worker[k].job].run = Completed(@)]
    /\ worker' = [worker EXCEPT ![k] = IdleWorker]
    /\ UNCHANGED <<total, status, index, caller, calls, faults, addedLate>>

\* The call a worker awaits fails, before or after it had its effect.
JobFails(k) ==
    /\ worker[k].pc # "idle"
    /\ faults < MaxFaults
    /\ faults' = faults + 1
    /\ jobs' = [jobs EXCEPT ![worker[k].job].run = Tried(@)]
    /\ worker' = [worker EXCEPT ![k] = IdleWorker]
    /\ UNCHANGED <<total, status, index, caller, calls, addedLate>>

\* The process of a worker dies, and is started again.
Crash(k) ==
    /\ worker[k].pc # "idle"
    /\ faults < MaxFaults
    /\ faults' = faults + 1
    /\ jobs' = [jobs EXCEPT ![worker[k].job].run = Stalled(@)]
    /\ worker' = [worker EXCEPT ![k] = IdleWorker]
    /\ UNCHANGED <<total, status, index, caller, calls, addedLate>>

-----------------------------------------------------------------------------
CallStep(u) == UpdateRow(u) \/ QueueRemoval(u)

WorkerStep(k) ==
    \/ Take(k)
    \/ k = "add" /\ AddBatch
    \/ k = "removeAll" /\ RemoveAll
    \/ k = "query" /\ (SelectPage \/ PushBatch)
    \/ Finish(k)

Next ==
    \/ \E c \in Ids, access \in Visible : Create(c, access)
    \/ \E u \in Callers, c \in Ids, want \in Visible \cup {"DEL"} : FindRow(u, c, want)
    \/ \E u \in Callers : CallStep(u) \/ CallerFails(u)
    \/ \E c \in Ids, i \in Items : AddItems(c, {i}) \/ RemoveItems(c, {i})
    \/ \E c \in Ids : AddQuery(c)
    \/ \E k \in Kinds : WorkerStep(k) \/ JobFails(k) \/ Crash(k)

Spec == Init /\ [][Next]_vars

\* A call that was accepted goes on, and workers poll their queues.
FairSpec ==
    /\ Spec
    /\ \A u \in Callers : WF_vars(CallStep(u))
    /\ \A k \in Kinds : WF_vars(WorkerStep(k))

-----------------------------------------------------------------------------
(* Properties                                                              *)

Batches == {j \in DOMAIN jobs : jobs[j].kind = "add"}

\* Nothing failed, the collection was deleted, and no call and no job is left.
AtRest(c) ==
    /\ faults = 0 /\ status[c] = "DEL"
    /\ \A u \in Callers : caller[u].pc = "idle"
    /\ \A j \in DOMAIN jobs : ~Unfinished(jobs[j].run)

\* As long as nothing failed, a deleted collection has, or had, a job that
\* deletes its items, once the call that deleted it has returned: whatever
\* patches and deletions overlap with it.
DeletedHasRemoval ==
    \A c \in Ids :
        faults = 0 /\ status[c] = "DEL" /\ (\A u \in Callers : caller[u].id = c => caller[u].pc = "idle")
            => \E j \in DOMAIN jobs : jobs[j].kind = "removeAll" /\ jobs[j].id = c

\* Two batches of one query never share a part of a page: they are disjoint,
\* or, only after a failure, the same page queued again, which adding by id
\* makes harmless.
BatchesAligned ==
    \A i, j \in DOMAIN jobs :
        i # j /\ jobs[i].parent # 0 /\ jobs[i].parent = jobs[j].parent
            => \/ jobs[i].items \cap jobs[j].items = {}
               \/ faults > 0 /\ jobs[i].items = jobs[j].items

\* Every batch that was queued reaches the index, unless as many calls failed as
\* there are attempts, or the worker of its own job died once more than stalls
\* are allowed: whenever batches wait, there comes a moment when the jobs of all
\* the others have completed, and none was given up.
BatchesApplied ==
    (\E j \in Batches : Unfinished(jobs[j].run)) ~>
        \/ faults >= Attempts
        \/ \A j \in Batches : jobs[j].run.state \in {"completed", "stalled"}

\* When nothing fails, a deleted collection ends up without items, whatever was
\* added or patched while it was being deleted, if no query was added to it and
\* no call added to it once it was deleted.
DeletedEmptied ==
    \A c \in Ids \ addedLate :
        (\A j \in DOMAIN jobs : jobs[j].id = c => jobs[j].kind = "removeAll") /\ AtRest(c)
            => \A i \in Items : <<c, i>> \notin index

-----------------------------------------------------------------------------
(* What the code's comments say, and the code does not do                  *)

\* "Published N jobs to add all matching items to the collection": when a
\* query job has completed, every result is in one of the jobs it published.
AllMatchesPublished ==
    \A q \in DOMAIN jobs :
        jobs[q].kind = "query" /\ jobs[q].run.state = "completed" /\ total <= QueryLimit
            => \A i \in 1..total : \E j \in DOMAIN jobs : jobs[j].parent = q /\ i \in jobs[j].items
=============================================================================
