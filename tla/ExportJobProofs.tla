-------------------------- MODULE ExportJobProofs --------------------------
(***************************************************************************)
(* Proofs about ExportJob: for any workers, page size, number of rows,     *)
(* exports, attempts, stalls and failures.                                 *)
(***************************************************************************)
EXTENDS ExportJob, FiniteSetTheorems, TLAPS

Record == [status : Statuses, export : Nat]
Station == [pc : Places, job : Nat, export : Nat, record : Nat, seen : Statuses, exists : BOOLEAN]

Busy(w) == worker[w].pc # "idle"

\* The handler has opened its export and its record.
Opened(w) == worker[w].pc \notin {"idle", "open"}

Basic ==
    /\ total \in 0..MaxTotal
    /\ faults \in 0..MaxFaults
    /\ records \in Seq(Record)
    /\ csv \in Seq(Seq(Rows)) /\ zip \in Seq(Seq(Rows)) /\ Len(zip) = Len(csv)
    /\ \A k \in DOMAIN records : records[k].export \in DOMAIN csv
    /\ attached \subseteq DOMAIN records
    /\ archived \subseteq DOMAIN csv

\* The job of a page after the first carries the export and a record of it.
Links(offset, export, record) ==
    \/ export = 0 /\ record = 0 /\ offset = 0
    \/ /\ export \in DOMAIN csv /\ record \in DOMAIN records
       /\ records[record].export = export
       /\ offset > 0 /\ offset < total

Linked(j) == Links(jobs[j].offset, jobs[j].export, jobs[j].record)

JobsType == jobs \in Seq(JobRecord) /\ \A j \in DOMAIN jobs : Linked(j)

\* The job a worker is at is active; the worker's export is the job's, or was
\* created by the worker for the first page.
AtWork(w) ==
    IF worker[w].pc = "idle" THEN worker[w] = Idle
    ELSE /\ worker[w].job \in DOMAIN jobs
         /\ Current(w).run.state = "active"
         /\ worker[w].pc = "open" => worker[w].export = 0 /\ worker[w].record = 0
         /\ Opened(w) =>
                /\ worker[w].export \in DOMAIN csv /\ worker[w].record \in DOMAIN records
                /\ records[worker[w].record].export = worker[w].export
                /\ Current(w).export \in {0, worker[w].export}
         /\ worker[w].pc = "queue" => MorePages(Current(w).offset)

WorkersType ==
    /\ worker \in [Workers -> Station]
    /\ \A w \in Workers : AtWork(w)
    /\ \A v, w \in Workers : v # w /\ Busy(v) => worker[v].job # worker[w].job

\* At the first page, until the next one is queued.
First(w) == Opened(w) /\ worker[w].pc # "finish" /\ Current(w).export = 0

\* No one else knows an export as long as the page after its first one has
\* not been queued.
FirstAlone ==
    \A w \in Workers : First(w) =>
        /\ \A j \in DOMAIN jobs : jobs[j].export # worker[w].export
        /\ \A v \in Workers \ {w} : worker[v].export # worker[w].export

Structure == Basic /\ JobsType /\ WorkersType /\ FirstAlone

\* The rows before the page of a job are in the file, until it is archived.
WrittenBefore ==
    \A j \in DOMAIN jobs :
        jobs[j].export # 0 /\ jobs[j].export \notin archived
            => 1..jobs[j].offset \subseteq Range(csv[jobs[j].export])

\* So are those a worker has written or seen written.
WrittenAt(w) ==
    worker[w].export \notin archived =>
        /\ worker[w].pc = "append" => worker[w].exists \/ csv[worker[w].export] = Absent
        /\ worker[w].pc = "queue" =>
               1..NextOffset(Current(w).offset) \subseteq Range(csv[worker[w].export])
        /\ worker[w].pc \in {"zip", "archive", "unlink"} => Rows \subseteq Range(csv[worker[w].export])

WrittenInv == WrittenBefore /\ \A w \in Workers : WrittenAt(w)

\* The rows before the next one a worker may add to the file.  One that waits
\* to attach its archive starts its page again if it throws, but in a file
\* that was unlinked since it wrote there.
Reached(w) ==
    CASE worker[w].pc = "queue" -> NextOffset(Current(w).offset)
      [] worker[w].pc \in {"zip", "archive", "unlink"} -> total
      [] worker[w].pc \in {"done", "attach"} -> 0
      [] OTHER -> Current(w).offset

\* A job that may still add a row to the file of an export, by itself or by the
\* jobs it queues; row total + 1 stands for any change of the files.
Owes(j, e, row) ==
    \/ jobs[j].run.state = "waiting" /\ jobs[j].export = e /\ jobs[j].offset < row
    \/ \E w \in Workers : worker[w].job = j /\ Target(w) = e /\ Reached(w) < row

Debtors(e, row) == {j \in DOMAIN jobs : Owes(j, e, row)}

\* A row is in the file, or owed, at most once more than something failed.
OwedInv ==
    \A e \in DOMAIN csv : \A row \in 1..(total + 1) :
        Occurrences(csv[e], row) + Cardinality(Debtors(e, row)) <= faults + 1

ZipInv == \A e \in DOMAIN zip : \A row \in Rows : Occurrences(zip[e], row) <= faults + 1

Upto(n) == [i \in 1..n |-> i]

\* While nothing failed, the one job of an export finds the files as the jobs
\* before it left them.
ChainWaiting(j) ==
    jobs[j].run.state = "waiting" /\ jobs[j].export # 0
        => csv[jobs[j].export] = Upto(jobs[j].offset)

ChainAt(w) ==
    LET e == Target(w)
        offset == Current(w).offset
    IN  /\ worker[w].pc \in {"open", "kill", "fetch", "append"} /\ e # 0 => csv[e] = Upto(offset)
        /\ worker[w].pc = "append" => (worker[w].exists <=> csv[e] # Absent)
        /\ worker[w].pc = "queue" => csv[e] = Upto(NextOffset(offset))
        /\ worker[w].pc \in {"zip", "archive", "unlink"} => csv[e] = Upto(total)
        /\ worker[w].pc \in {"unlink", "done", "attach"} => zip[e] = Upto(total)

ChainRecord(k) ==
    LET e == records[k].export
    IN  /\ k \in attached => zip[e] = Upto(total) /\ Debtors(e, total + 1) = {}
        /\ records[k].status = "RIP" => Debtors(e, total + 1) = {}

ChainInv ==
    faults = 0 =>
        /\ \A j \in DOMAIN jobs : ChainWaiting(j)
        /\ \A w \in Workers : ChainAt(w)
        /\ \A k \in DOMAIN records : ChainRecord(k)

IInv == Structure /\ WrittenInv /\ OwedInv /\ ZipInv /\ ChainInv

-----------------------------------------------------------------------------
(* Pages.                                                                  *)

LEMMA Constants == PageSize \in Nat \ {0} /\ MaxTotal \in Nat /\ MaxExports \in Nat /\ MaxFaults \in Nat
BY ExportAssumption DEF ExportAssumption

\* A page is the rows that follow an offset, and the next offset its end: the
\* last one when there are no more pages.
LEMMA PageFacts ==
    ASSUME total \in Nat, NEW offset \in Nat, offset <= total
    PROVE  /\ Page(offset) \in Seq(Rows)
           /\ DOMAIN Page(offset) = 1..(NextOffset(offset) - offset)
           /\ Len(Page(offset)) = NextOffset(offset) - offset
           /\ \A n \in DOMAIN Page(offset) : Page(offset)[n] = offset + n
           /\ NextOffset(offset) \in offset..total
           /\ MorePages(offset) => offset < NextOffset(offset) /\ NextOffset(offset) < total
           /\ ~MorePages(offset) => NextOffset(offset) = total
<1> DEFINE n == IF offset + PageSize <= total THEN PageSize ELSE total - offset
<1>1. PageSize \in Nat \ {0}
  BY Constants
<1>2. n \in Nat /\ offset + n <= total
  BY <1>1
<1>3. offset + PageSize <= total => n = PageSize
  OBVIOUS
<1>4. ~(offset + PageSize <= total) => offset + n = total
  BY <1>1
<1>5. Page(offset) = [i \in 1..n |-> offset + i]
  BY DEF Page
<1> HIDE DEF n
<1>6. \A i \in 1..n : offset + i \in Rows
  BY <1>2 DEF Rows
<1>7. Page(offset) \in [1..n -> Rows]
  BY <1>5, <1>6
<1>8. Page(offset) \in Seq(Rows) /\ Len(Page(offset)) = n /\ DOMAIN Page(offset) = 1..n
  BY <1>2, <1>7
<1>9. NextOffset(offset) = offset + n
  BY <1>8 DEF NextOffset
<1>10. MorePages(offset) <=> offset + n < total
  BY <1>9 DEF MorePages
<1>11. offset + n < total => n = PageSize
  BY <1>1, <1>2, <1>3, <1>4
<1>12. MorePages(offset) => offset < NextOffset(offset) /\ NextOffset(offset) < total
  BY <1>1, <1>2, <1>9, <1>10, <1>11
<1>13. ~MorePages(offset) => NextOffset(offset) = total
  BY <1>2, <1>9, <1>10
<1>14. NextOffset(offset) \in offset..total /\ NextOffset(offset) - offset = n
  BY <1>2, <1>9
<1>15. \A i \in DOMAIN Page(offset) : Page(offset)[i] = offset + i
  BY <1>5
<1>16. QED
  BY <1>8, <1>12, <1>13, <1>14, <1>15
-----------------------------------------------------------------------------
(* What a step changes.                                                    *)

\* Files and records are only added, and a record keeps its export.
Grown ==
    /\ DOMAIN csv \subseteq DOMAIN csv' /\ DOMAIN records \subseteq DOMAIN records'
    /\ \A k \in DOMAIN records : records'[k].export = records[k].export

\* Jobs are only added, and those that are there keep the page they are for;
\* only the run of job j changes.
JobsGrown(j) ==
    /\ DOMAIN jobs \subseteq DOMAIN jobs'
    /\ \A i \in DOMAIN jobs : /\ jobs'[i].offset = jobs[i].offset
                              /\ jobs'[i].export = jobs[i].export
                              /\ jobs'[i].record = jobs[i].record
                              /\ i # j => jobs'[i].run = jobs[i].run

\* A step of worker w, with job j.
Frame(w, j) ==
    /\ j \in DOMAIN jobs /\ worker[w].job \in {0, j} /\ worker'[w].job \in {0, j}
    /\ \A v \in Workers \ {w} : worker'[v] = worker[v] /\ worker[v].job # j
    /\ JobsGrown(j)
    /\ total' = total

LEMMA JobFacts ==
    ASSUME Basic, JobsType, NEW j \in DOMAIN jobs
    PROVE  /\ j \in Nat \ {0} /\ jobs[j] \in JobRecord /\ Linked(j)
           /\ jobs[j].offset \in 0..total /\ jobs[j].run \in Run
           /\ jobs[j].export \in Nat /\ jobs[j].record \in Nat
           /\ total \in Nat
<1>1. j \in Nat \ {0} /\ jobs[j] \in JobRecord /\ Linked(j)
  BY DEF JobsType
<1>2. total \in Nat
  BY Constants DEF Basic
<1>3. jobs[j].offset \in Nat /\ jobs[j].run \in Run /\ jobs[j].export \in Nat /\ jobs[j].record \in Nat
  BY <1>1, Constants DEF JobRecord
<1>4. jobs[j].offset <= total
  BY <1>1, <1>2, <1>3 DEF Linked, Links
<1>5. QED
  BY <1>1, <1>2, <1>3, <1>4

LEMMA WorkerFacts ==
    ASSUME Basic, JobsType, WorkersType, NEW w \in Workers, Busy(w)
    PROVE  /\ worker[w].job \in DOMAIN jobs /\ worker[w].job \in Nat \ {0}
           /\ Current(w).run.state = "active"
           /\ Current(w) \in JobRecord /\ Current(w).run \in Run
           /\ Current(w).offset \in 0..total /\ total \in Nat
           /\ Opened(w) => worker[w].export \in DOMAIN csv /\ worker[w].export \in Nat \ {0}
           /\ worker[w] \in Station
<1>1. AtWork(w) /\ worker[w] \in Station
  BY DEF WorkersType
<1>2. worker[w].job \in DOMAIN jobs /\ Current(w).run.state = "active"
  BY <1>1 DEF AtWork, Busy
<1>3. /\ worker[w].job \in Nat \ {0} /\ Current(w) \in JobRecord /\ Current(w).run \in Run
      /\ Current(w).offset \in 0..total /\ total \in Nat
  BY <1>2, JobFacts DEF Current
<1>4. Opened(w) => worker[w].export \in DOMAIN csv
  BY <1>1 DEF AtWork, Opened, Busy
<1>5. \A e \in DOMAIN csv : e \in Nat \ {0}
  BY DEF Basic
<1>6. QED
  BY <1>1, <1>2, <1>3, <1>4, <1>5

\* Nothing of a job that its links depend on was lost.
LEMMA LinksKept ==
    ASSUME Grown, total' = total, NEW offset, NEW export, NEW record,
           Links(offset, export, record)
    PROVE  Links(offset, export, record)'
BY DEF Grown, Links

\* A job whose run changes: the others, and the rest of it, stay.
LEMMA RunSet ==
    ASSUME JobsType, NEW j \in DOMAIN jobs, NEW run \in Run,
           jobs' = [jobs EXCEPT ![j].run = run], Grown, total' = total
    PROVE  /\ JobsType' /\ JobsGrown(j) /\ DOMAIN jobs' = DOMAIN jobs
           /\ jobs'[j].run = run
<1> DEFINE new == [jobs[j] EXCEPT !.run = run]
<1>1. jobs \in Seq(JobRecord) /\ jobs[j] \in JobRecord
  BY DEF JobsType
<1>2. new \in JobRecord /\ new.offset = jobs[j].offset /\ new.export = jobs[j].export
      /\ new.record = jobs[j].record /\ new.run = run
  BY <1>1 DEF JobRecord
<1>3. jobs' = [jobs EXCEPT ![j] = new]
  BY Zenon
<1> HIDE DEF new
<1>4. jobs' \in Seq(JobRecord) /\ DOMAIN jobs' = DOMAIN jobs
  BY <1>1, <1>2, <1>3
<1>5. \A i \in DOMAIN jobs : jobs'[i] = IF i = j THEN new ELSE jobs[i]
  BY <1>1, <1>3
<1>6. JobsGrown(j) /\ jobs'[j].run = run
  BY <1>2, <1>4, <1>5 DEF JobsGrown
<1>7. ASSUME NEW i \in DOMAIN jobs PROVE Linked(i)'
  <2>1. Links(jobs[i].offset, jobs[i].export, jobs[i].record)
    BY DEF JobsType, Linked
  <2>2. QED
    BY <1>6, <2>1, LinksKept DEF JobsGrown, Linked
<1>8. QED
  BY <1>4, <1>6, <1>7 DEF JobsType

\* A job that is queued: the others stay.
LEMMA JobQueued ==
    ASSUME JobsType, NEW offset \in 0..MaxTotal, NEW export \in Nat, NEW record \in Nat,
           jobs' = Append(jobs, NewJob(offset, export, record)),
           Links(offset, export, record), Grown, total' = total
    PROVE  /\ JobsType' /\ \A j : JobsGrown(j)
           /\ DOMAIN jobs' = DOMAIN jobs \cup {Len(jobs) + 1}
           /\ Len(jobs) + 1 \notin DOMAIN jobs
           /\ \A i \in DOMAIN jobs : jobs'[i] = jobs[i]
           /\ LET new == jobs'[Len(jobs) + 1]
              IN  /\ new.offset = offset /\ new.export = export /\ new.record = record
                  /\ new.run.state = "waiting"
<1> DEFINE new == NewJob(offset, export, record)
           n == Len(jobs) + 1
<1>1. jobs \in Seq(JobRecord) /\ Len(jobs) \in Nat /\ DOMAIN jobs = 1..Len(jobs)
  BY DEF JobsType
<1>2. /\ new \in JobRecord /\ new.offset = offset /\ new.export = export /\ new.record = record
      /\ new.run.state = "waiting"
  BY BullAssumption DEF NewJob, JobRecord, Queued, Run
<1>3. Links(offset, export, record)'
  BY LinksKept
<1> HIDE DEF new
<1>4. /\ jobs' \in Seq(JobRecord) /\ DOMAIN jobs' = DOMAIN jobs \cup {n} /\ n \notin DOMAIN jobs
      /\ \A i \in DOMAIN jobs : jobs'[i] = jobs[i]
      /\ jobs'[n] = new
  BY <1>1, <1>2 DEF new
<1> HIDE DEF n
<1>5. \A j : JobsGrown(j)
  BY <1>4 DEF JobsGrown
<1>6. ASSUME NEW i \in DOMAIN jobs' PROVE Linked(i)'
  <2>1. CASE i = n
    BY <1>2, <1>3, <1>4, <2>1 DEF Linked
  <2>2. CASE i # n
    <3>1. i \in DOMAIN jobs /\ jobs'[i] = jobs[i]
      BY <1>4, <2>2
    <3>2. Links(jobs[i].offset, jobs[i].export, jobs[i].record)
      BY <3>1 DEF JobsType, Linked
    <3>3. QED
      BY <3>1, <3>2, LinksKept DEF Linked
  <2>3. QED
    BY <2>1, <2>2
<1>7. QED
  BY <1>2, <1>4, <1>5, <1>6 DEF JobsType, n

\* A worker that goes on, takes a job or is done with it.
LEMMA WorkersKept ==
    ASSUME Basic, JobsType, WorkersType, NEW w \in Workers, NEW j, Frame(w, j), Grown,
           NEW next \in Station, worker' = [worker EXCEPT ![w] = next],
           JobsType', AtWork(w)'
    PROVE  WorkersType'
<1>1. worker' \in [Workers -> Station]
  BY DEF WorkersType
<1>2. ASSUME NEW v \in Workers \ {w} PROVE AtWork(v)'
  <2>1. AtWork(v) /\ worker'[v] = worker[v]
    BY DEF WorkersType, Frame
  <2>2. CASE ~Busy(v)
    BY <2>1, <2>2 DEF AtWork, Busy
  <2>3. CASE Busy(v)
    <3>1. worker[v].job \in DOMAIN jobs /\ worker[v].job # j
      BY <2>3, WorkerFacts DEF Frame
    <3>2. /\ worker'[v].job \in DOMAIN jobs' /\ Current(v)'.run = Current(v).run
          /\ Current(v)'.offset = Current(v).offset /\ Current(v)'.export = Current(v).export
      BY <2>1, <3>1 DEF Frame, JobsGrown, Current
    <3>3. MorePages(Current(v).offset) => MorePages(Current(v).offset)'
      BY <2>1, <3>2 DEF MorePages, NextOffset, Page, Frame
    <3>4. worker[v].pc # "idle"
      BY <2>3 DEF Busy
    <3>5. worker[v].job \in DOMAIN jobs /\ Current(v).run.state = "active"
      BY <2>3, WorkerFacts
    <3>6. worker[v].pc = "open" => worker[v].export = 0 /\ worker[v].record = 0
      BY <2>1, <3>4 DEF AtWork
    <3>7. worker[v].pc = "queue" => MorePages(Current(v).offset)
      BY <2>1, <3>4 DEF AtWork
    <3>8. Opened(v) =>
              /\ worker[v].export \in DOMAIN csv' /\ worker[v].record \in DOMAIN records'
              /\ records'[worker[v].record].export = worker[v].export
              /\ Current(v)'.export \in {0, worker[v].export}
      BY <2>1, <3>2, <3>4 DEF AtWork, Grown
    <3>9. Opened(v)' <=> Opened(v)
      BY <2>1 DEF Opened
    <3>10. QED
      BY <2>1, <3>2, <3>3, <3>4, <3>5, <3>6, <3>7, <3>8, <3>9 DEF AtWork
  <2>4. QED
    BY <2>2, <2>3
<1>3. ASSUME NEW u \in Workers, NEW v \in Workers, u # v, Busy(u)'
      PROVE  worker'[u].job # worker'[v].job
  <2>1. CASE u # w /\ v # w
    BY <1>3, <2>1 DEF Frame, Busy, WorkersType
  <2>2. CASE u = w
    <3>1. worker'[w].job \in DOMAIN jobs'
      BY <1>3, <2>2 DEF AtWork, Busy
    <3>2. worker'[w].job = j
      BY <3>1 DEF Frame, JobsType
    <3>3. QED
      BY <1>3, <2>2, <3>2 DEF Frame
  <2>3. CASE v = w
    <3>1. Busy(u) /\ worker'[u] = worker[u]
      BY <1>3, <2>3 DEF Busy, Frame
    <3>2. worker[u].job # 0 /\ worker[u].job # j
      BY <1>3, <2>3, <3>1, WorkerFacts DEF Frame
    <3>3. QED
      BY <2>3, <3>1, <3>2 DEF Frame
  <2>4. QED
    BY <2>1, <2>2, <2>3
<1>4. QED
  BY <1>1, <1>2, <1>3 DEF WorkersType

\* A step that opens no export and queues no page.
LEMMA FirstKept ==
    ASSUME Structure, NEW w \in Workers, NEW j, Frame(w, j), DOMAIN jobs' = DOMAIN jobs,
           worker'[w].export \in {0, worker[w].export},
           First(w)' => First(w) /\ worker'[w].export = worker[w].export
    PROVE  FirstAlone'
<1>1. ASSUME NEW x \in Workers, First(x)'
      PROVE  First(x) /\ worker'[x].export = worker[x].export
  <2>1. CASE x = w
    BY <1>1, <2>1
  <2>2. CASE x # w
    <3>1. worker'[x] = worker[x]
      BY <2>2 DEF Frame
    <3>2. Busy(x)
      BY <1>1, <3>1 DEF First, Opened, Busy
    <3>3. worker[x].job \in DOMAIN jobs
      BY <3>2, WorkerFacts DEF Structure
    <3>4. Current(x)'.export = Current(x).export
      BY <3>1, <3>3 DEF Frame, JobsGrown, Current
    <3>5. QED
      BY <1>1, <3>1, <3>4 DEF First, Opened
  <2>3. QED
    BY <2>1, <2>2
<1>2. SUFFICES ASSUME NEW x \in Workers, First(x)'
               PROVE  /\ \A i \in DOMAIN jobs' : jobs'[i].export # worker'[x].export
                      /\ \A v \in Workers \ {x} : worker'[v].export # worker'[x].export
  BY DEF FirstAlone
<1>3. First(x) /\ worker'[x].export = worker[x].export
  BY <1>1, <1>2
<1>4. /\ \A i \in DOMAIN jobs : jobs[i].export # worker[x].export
      /\ \A v \in Workers \ {x} : worker[v].export # worker[x].export
  BY <1>3 DEF Structure, FirstAlone
<1>5. worker[x].export # 0
  <2>1. Busy(x) /\ Opened(x)
    BY <1>3 DEF First, Opened, Busy
  <2>2. QED
    BY <2>1, WorkerFacts DEF Structure
<1>6. \A v \in Workers : worker'[v].export \in {0, worker[v].export}
  BY DEF Frame
<1>7. QED
  BY <1>3, <1>4, <1>5, <1>6 DEF Frame, JobsGrown

-----------------------------------------------------------------------------
(* What is owed.                                                           *)

LEMMA TargetKept ==
    ASSUME NEW v \in Workers, worker'[v] = worker[v], total' = total,
           Current(v)'.offset = Current(v).offset, Current(v)'.export = Current(v).export
    PROVE  Target(v)' = Target(v) /\ Reached(v)' = Reached(v)
<1>1. NextOffset(Current(v).offset)' = NextOffset(Current(v).offset)
  BY DEF NextOffset, Page
<1>2. QED
  BY <1>1 DEF Target, Reached

\* What the other jobs owe stays what it was.
LEMMA OwesOther ==
    ASSUME Basic, JobsType, WorkersType, NEW w \in Workers, NEW j, Frame(w, j),
           NEW i \in DOMAIN jobs, i # j, NEW e, NEW row
    PROVE  Owes(i, e, row)' <=> Owes(i, e, row)
<1>1. i # 0
  BY JobFacts
<1>2. worker[w].job # i /\ worker'[w].job # i
  BY <1>1 DEF Frame
<1>3. ASSUME NEW v \in Workers \ {w}, worker[v].job = i
      PROVE  Target(v)' = Target(v) /\ Reached(v)' = Reached(v)
  <2>1. worker'[v] = worker[v] /\ total' = total
    BY DEF Frame
  <2>2. Current(v)'.offset = Current(v).offset /\ Current(v)'.export = Current(v).export
    BY <1>3, <2>1 DEF Current, Frame, JobsGrown
  <2>3. QED
    BY <2>1, <2>2, TargetKept
<1>4. \A v \in Workers \ {w} : worker'[v] = worker[v]
  BY DEF Frame
<1>5. /\ jobs'[i].run = jobs[i].run /\ jobs'[i].export = jobs[i].export
      /\ jobs'[i].offset = jobs[i].offset
  BY DEF Frame, JobsGrown
<1>6. (\E v \in Workers : worker'[v].job = i /\ Target(v)' = e /\ Reached(v)' < row)
      <=> \E v \in Workers : worker[v].job = i /\ Target(v) = e /\ Reached(v) < row
  BY <1>2, <1>3, <1>4
<1>7. QED
  BY <1>5, <1>6 DEF Owes

\* A worker owes for its job.
WorkersOwe ==
    \A w \in Workers : Busy(w) => \A e, row :
        Owes(worker[w].job, e, row) <=> Target(w) = e /\ Reached(w) < row

LEMMA OwesSelf == Basic /\ JobsType /\ WorkersType => WorkersOwe
<1> SUFFICES ASSUME Basic, JobsType, WorkersType, NEW w \in Workers, Busy(w), NEW e, NEW row
             PROVE  Owes(worker[w].job, e, row) <=> Target(w) = e /\ Reached(w) < row
  BY DEF WorkersOwe
<1>1. jobs[worker[w].job].run.state # "waiting"
  BY WorkerFacts DEF Current
<1>2. \A v \in Workers : worker[v].job = worker[w].job => v = w
  BY DEF WorkersType
<1>3. QED
  BY <1>1, <1>2 DEF Owes

LEMMA OwesSelfNext == Basic' /\ JobsType' /\ WorkersType' => WorkersOwe'
BY OwesSelf, PTL

LEMMA ReachedType ==
    ASSUME Basic, JobsType, WorkersType, NEW w \in Workers, Busy(w)
    PROVE  Reached(w) \in 0..total
<1>1. Current(w).offset \in 0..total /\ total \in Nat
  BY WorkerFacts
<1>2. NextOffset(Current(w).offset) \in 0..total
  <2>1. NextOffset(Current(w).offset) \in Current(w).offset..total
    BY <1>1, PageFacts
  <2>2. QED
    BY <1>1, <2>1
<1>3. QED
  BY <1>1, <1>2 DEF Reached

ReachedInRange == \A w \in Workers : Busy(w) => Reached(w) \in 0..total

LEMMA ReachedNow == Basic /\ JobsType /\ WorkersType => ReachedInRange
BY ReachedType DEF ReachedInRange

LEMMA ReachedNext == Basic' /\ JobsType' /\ WorkersType' => ReachedInRange'
BY ReachedNow, PTL

\* A job that may add a row may change the files.
MoreOwed ==
    \A e \in Nat : \A row \in 1..(total + 1) : Debtors(e, row) \subseteq Debtors(e, total + 1)

LEMMA OwedRows == Basic /\ JobsType /\ WorkersType => MoreOwed
<1> SUFFICES ASSUME Basic, JobsType, WorkersType, NEW e \in Nat, NEW row \in 1..(total + 1),
                    NEW j \in DOMAIN jobs, Owes(j, e, row)
             PROVE  Owes(j, e, total + 1)
  BY DEF MoreOwed, Debtors
<1>1. total \in Nat /\ jobs[j].offset \in 0..total
  BY JobFacts
<1>2. CASE jobs[j].run.state = "waiting" /\ jobs[j].export = e
  BY <1>1, <1>2 DEF Owes
<1>3. ASSUME NEW w \in Workers, worker[w].job = j, Target(w) = e PROVE Owes(j, e, total + 1)
  <2>1. Busy(w)
    <3>1. ~Busy(w) => worker[w] = Idle
      BY DEF WorkersType, AtWork, Busy
    <3>2. j # 0
      BY JobFacts
    <3>3. QED
      BY <1>3, <3>1, <3>2 DEF Idle
  <2>2. Reached(w) \in 0..total
    BY <2>1, ReachedType
  <2>3. QED
    BY <1>1, <1>3, <2>2 DEF Owes
<1>4. QED
  BY <1>2, <1>3 DEF Owes

LEMMA MoreOwedNext == Basic' /\ JobsType' /\ WorkersType' => MoreOwed'
BY OwedRows, PTL

LEMMA AtMostOneMore ==
    ASSUME NEW S, NEW x, NEW T, IsFiniteSet(S), T \subseteq S \cup {x}
    PROVE  /\ IsFiniteSet(T) /\ Cardinality(T) \in Nat /\ Cardinality(S) \in Nat
           /\ Cardinality(T) <= Cardinality(S) + 1
<1>1. Cardinality(S) \in Nat
  BY FS_CardinalityType
<1>2. /\ IsFiniteSet(S \cup {x})
      /\ Cardinality(S \cup {x}) = IF x \in S THEN Cardinality(S) ELSE Cardinality(S) + 1
  BY FS_AddElement
<1>3. IsFiniteSet(T) /\ Cardinality(T) <= Cardinality(S \cup {x})
  BY <1>2, FS_Subset
<1>4. Cardinality(T) \in Nat
  BY <1>3, FS_CardinalityType
<1>5. QED
  BY <1>1, <1>2, <1>3, <1>4

LEMMA DebtorsFinite ==
    ASSUME jobs \in Seq(JobRecord), NEW e, NEW row
    PROVE  IsFiniteSet(Debtors(e, row)) /\ Cardinality(Debtors(e, row)) \in Nat
<1>1. IsFiniteSet(1..Len(jobs)) /\ DOMAIN jobs = 1..Len(jobs)
  BY FS_Interval
<1>2. Debtors(e, row) \in SUBSET (1..Len(jobs))
  BY <1>1 DEF Debtors
<1>3. QED
  BY <1>1, <1>2, FS_Subset, FS_CardinalityType

\* A step with a job that owes no more than before.
LEMMA DebtorsFewer ==
    ASSUME Basic, JobsType, WorkersType, NEW w \in Workers, NEW j, Frame(w, j),
           DOMAIN jobs' = DOMAIN jobs, NEW e, NEW row, Owes(j, e, row)' => Owes(j, e, row)
    PROVE  /\ Debtors(e, row)' \subseteq Debtors(e, row) /\ IsFiniteSet(Debtors(e, row)')
           /\ Cardinality(Debtors(e, row)') \in Nat /\ Cardinality(Debtors(e, row)) \in Nat
           /\ Cardinality(Debtors(e, row)') <= Cardinality(Debtors(e, row))
<1>1. \A i \in DOMAIN jobs : Owes(i, e, row)' => Owes(i, e, row)
  BY OwesOther
<1>2. Debtors(e, row)' \subseteq Debtors(e, row)
  BY <1>1 DEF Debtors
<1>3. IsFiniteSet(Debtors(e, row)) /\ Cardinality(Debtors(e, row)) \in Nat
  BY DebtorsFinite DEF JobsType
<1>4. /\ IsFiniteSet(Debtors(e, row)')
      /\ Cardinality(Debtors(e, row)') <= Cardinality(Debtors(e, row))
  BY <1>2, <1>3, FS_Subset
<1>5. Cardinality(Debtors(e, row)') \in Nat
  BY <1>4, FS_CardinalityType
<1>6. QED
  BY <1>2, <1>3, <1>4, <1>5

\* A step that starts a job again.
LEMMA DebtorsOneMore ==
    ASSUME Basic, JobsType, WorkersType, NEW w \in Workers, NEW j, Frame(w, j),
           DOMAIN jobs' = DOMAIN jobs, NEW e, NEW row
    PROVE  /\ Cardinality(Debtors(e, row)') \in Nat /\ Cardinality(Debtors(e, row)) \in Nat
           /\ Cardinality(Debtors(e, row)') <= Cardinality(Debtors(e, row)) + 1
<1>1. \A i \in DOMAIN jobs : i # j => (Owes(i, e, row)' => Owes(i, e, row))
  BY OwesOther
<1>2. Debtors(e, row)' \subseteq Debtors(e, row) \cup {j}
  BY <1>1 DEF Debtors
<1>3. IsFiniteSet(Debtors(e, row))
  BY DebtorsFinite DEF JobsType
<1>4. QED
  BY <1>2, <1>3, AtMostOneMore

-----------------------------------------------------------------------------
(* How often a row is in a file.                                           *)

LEMMA OccurrencesType ==
    ASSUME NEW s \in Seq(Rows), NEW row
    PROVE  /\ IsFiniteSet({n \in DOMAIN s : s[n] = row})
           /\ Occurrences(s, row) \in Nat
           /\ row \notin Rows => Occurrences(s, row) = 0
<1> DEFINE T == {n \in DOMAIN s : s[n] = row}
<1>1. IsFiniteSet(1..Len(s)) /\ DOMAIN s = 1..Len(s)
  BY FS_Interval
<1>2. T \in SUBSET (1..Len(s))
  BY <1>1
<1>3. IsFiniteSet(T) /\ Cardinality(T) \in Nat
  <2> HIDE DEF T
  <2>1. QED
    BY <1>1, <1>2, FS_Subset, FS_CardinalityType
<1>4. row \notin Rows => T = {}
  OBVIOUS
<1>5. QED
  BY <1>3, <1>4, FS_EmptySet DEF Occurrences

LEMMA OccurrencesAbsent ==
    ASSUME NEW row
    PROVE  Occurrences(Absent, row) = 0
<1>1. {n \in DOMAIN Absent : Absent[n] = row} = {}
  BY DEF Absent
<1>2. QED
  BY <1>1, FS_EmptySet DEF Occurrences

\* A page adds each of its rows once, and no other row.
LEMMA OccurrencesPage ==
    ASSUME NEW s \in Seq(Rows), total \in Nat, NEW offset \in Nat, offset <= total, NEW row \in Nat
    PROVE  /\ Occurrences(s \o Page(offset), row) \in Nat
           /\ Occurrences(s \o Page(offset), row) <= Occurrences(s, row) + 1
           /\ row \notin (offset + 1)..NextOffset(offset)
                  => Occurrences(s \o Page(offset), row) = Occurrences(s, row)
<1> DEFINE p == Page(offset)
           t == s \o p
           S == {n \in DOMAIN s : s[n] = row}
           T == {n \in DOMAIN t : t[n] = row}
           m == Len(s) + row - offset
<1>1. /\ p \in Seq(Rows) /\ DOMAIN p = 1..(NextOffset(offset) - offset)
      /\ \A n \in DOMAIN p : p[n] = offset + n
      /\ NextOffset(offset) \in offset..total /\ Len(p) = NextOffset(offset) - offset
  BY PageFacts
<1> HIDE DEF p
<1>2. /\ t \in Seq(Rows) /\ Len(t) = Len(s) + Len(p) /\ DOMAIN t = 1..Len(t)
      /\ Len(s) \in Nat /\ Len(p) \in Nat /\ DOMAIN s = 1..Len(s)
      /\ \A n \in 1..Len(s) : t[n] = s[n]
      /\ \A n \in DOMAIN t : n > Len(s) => t[n] = p[n - Len(s)]
  BY <1>1
<1> HIDE DEF t
<1>3. ASSUME NEW n \in DOMAIN t, n > Len(s)
      PROVE  n - Len(s) \in DOMAIN p /\ t[n] = offset + (n - Len(s))
  <2>1. n - Len(s) \in DOMAIN p
    BY <1>1, <1>2, <1>3
  <2>2. QED
    BY <1>1, <1>2, <1>3, <2>1
<1>4. ASSUME NEW n \in T PROVE n \in S \/ n = m
  <2>1. CASE n <= Len(s)
    BY <1>2, <2>1
  <2>2. CASE n > Len(s)
    <3>1. n \in DOMAIN t /\ t[n] = row
      OBVIOUS
    <3>2. t[n] = offset + (n - Len(s))
      BY <1>3, <2>2, <3>1
    <3>3. n \in Nat
      BY <1>2, <3>1
    <3>4. QED
      BY <1>2, <3>1, <3>2, <3>3
  <2>3. QED
    BY <1>2, <2>1, <2>2
<1>5. row \notin (offset + 1)..NextOffset(offset) => T = S
  <2> SUFFICES ASSUME row \notin (offset + 1)..NextOffset(offset) PROVE T = S
    OBVIOUS
  <2>1. ASSUME NEW n \in DOMAIN t, n > Len(s) PROVE t[n] # row
    BY <1>1, <1>2, <1>3, <2>1
  <2>2. QED
    BY <1>2, <2>1
<1>6. IsFiniteSet(S) /\ Occurrences(s, row) = Cardinality(S) /\ Cardinality(S) \in Nat
  BY OccurrencesType DEF Occurrences
<1>7. Occurrences(t, row) = Cardinality(T)
  BY DEF Occurrences
<1> HIDE DEF S, T, m
<1>8. T \subseteq S \cup {m}
  BY <1>4
<1>9. Cardinality(T) \in Nat /\ Cardinality(T) <= Cardinality(S) + 1
  BY <1>6, <1>8, AtMostOneMore
<1>10. Occurrences(t, row) \in Nat /\ Occurrences(t, row) <= Occurrences(s, row) + 1
  BY <1>6, <1>7, <1>9
<1>11. row \notin (offset + 1)..NextOffset(offset) => Occurrences(t, row) = Occurrences(s, row)
  BY <1>5, <1>6, <1>7
<1>12. QED
  BY <1>10, <1>11 DEF t, p

-----------------------------------------------------------------------------
(* The structure, for the kinds of steps.                                  *)

\* A handler goes on: only its place, and what it noted, change.
Goes(w, next) ==
    /\ worker' = [worker EXCEPT ![w] = next] /\ next \in Station
    /\ next.job = worker[w].job /\ jobs' = jobs /\ total' = total

LEMMA GoesFrame ==
    ASSUME Basic, JobsType, WorkersType, NEW w \in Workers, Busy(w), NEW next, Goes(w, next), Grown
    PROVE  /\ Frame(w, worker[w].job) /\ JobsType' /\ worker'[w] = next
           /\ Current(w)' = Current(w)
<1>1. worker'[w] = next /\ \A v \in Workers \ {w} : worker'[v] = worker[v]
  BY DEF WorkersType, Goes
<1>2. worker[w].job \in DOMAIN jobs
  BY WorkerFacts
<1>3. \A v \in Workers \ {w} : worker[v].job # worker[w].job
  BY DEF WorkersType
<1>4. JobsGrown(worker[w].job)
  BY DEF Goes, JobsGrown
<1>5. Frame(w, worker[w].job)
  BY <1>1, <1>2, <1>3, <1>4 DEF Goes, Frame
<1>6. ASSUME NEW i \in DOMAIN jobs PROVE Linked(i)'
  <2>1. Links(jobs[i].offset, jobs[i].export, jobs[i].record)
    BY DEF JobsType, Linked
  <2>2. QED
    BY <2>1, LinksKept DEF Linked, Goes
<1>7. JobsType'
  BY <1>6 DEF JobsType, Goes
<1>8. QED
  BY <1>1, <1>5, <1>7 DEF Current, Goes

LEMMA GoesStructure ==
    ASSUME Structure, NEW w \in Workers, Opened(w), worker[w].pc # "finish",
           NEW next, Goes(w, next), Grown, Basic',
           next.pc \notin {"idle", "open"}, next.export = worker[w].export,
           next.record = worker[w].record, next.pc = "queue" => MorePages(Current(w).offset)
    PROVE  /\ Structure' /\ Busy(w) /\ Frame(w, worker[w].job) /\ DOMAIN jobs' = DOMAIN jobs
           /\ worker'[w] = next /\ Current(w)' = Current(w)
<1>1. Basic /\ JobsType /\ WorkersType /\ Busy(w)
  BY DEF Structure, Opened, Busy
<1>2. /\ Frame(w, worker[w].job) /\ JobsType' /\ worker'[w] = next
      /\ Current(w)' = Current(w)
  BY <1>1, GoesFrame
<1>3. DOMAIN jobs' = DOMAIN jobs
  BY DEF Goes
<1>4. AtWork(w)'
  <2>1. AtWork(w)
    BY <1>1 DEF WorkersType
  <2>2. /\ worker[w].job \in DOMAIN jobs /\ Current(w).run.state = "active"
        /\ worker[w].export \in DOMAIN csv /\ worker[w].record \in DOMAIN records
        /\ records[worker[w].record].export = worker[w].export
        /\ Current(w).export \in {0, worker[w].export}
    BY <1>1, <2>1 DEF AtWork, Busy
  <2>3. MorePages(Current(w).offset)' <=> MorePages(Current(w).offset)
    BY <1>2 DEF MorePages, NextOffset, Page, Goes
  <2>4. next.job = worker[w].job
    BY DEF Goes
  <2>5. QED
    BY <1>2, <1>3, <2>2, <2>3, <2>4 DEF AtWork, Grown, Opened
<1>5. WorkersType'
  BY <1>1, <1>2, <1>4, WorkersKept DEF Goes
<1>6. First(w)' => First(w)
  BY <1>2 DEF First
<1>7. FirstAlone'
  BY <1>2, <1>3, <1>6, FirstKept
<1>8. QED
  BY <1>1, <1>2, <1>3, <1>5, <1>7 DEF Structure

\* A worker is done with its job in some way.
Leaves(w, run) ==
    /\ jobs' = [jobs EXCEPT ![worker[w].job].run = run] /\ run \in Run
    /\ worker' = [worker EXCEPT ![w] = Idle] /\ total' = total

LEMMA LeavesStructure ==
    ASSUME Structure, NEW w \in Workers, Busy(w), NEW run, Leaves(w, run), Grown, Basic'
    PROVE  /\ Structure' /\ Frame(w, worker[w].job) /\ DOMAIN jobs' = DOMAIN jobs
           /\ jobs'[worker[w].job].run = run /\ worker'[w] = Idle
<1> DEFINE j == worker[w].job
<1>1. Basic /\ JobsType /\ WorkersType /\ j \in DOMAIN jobs
  BY WorkerFacts DEF Structure
<1>2. jobs' = [jobs EXCEPT ![j].run = run] /\ run \in Run /\ total' = total
  BY DEF Leaves
<1> HIDE DEF j
<1>3. JobsType' /\ JobsGrown(j) /\ DOMAIN jobs' = DOMAIN jobs /\ jobs'[j].run = run
  BY <1>1, <1>2, RunSet
<1>4. worker'[w] = Idle /\ \A v \in Workers \ {w} : worker'[v] = worker[v]
  BY <1>1 DEF Leaves, WorkersType
<1>5. \A v \in Workers \ {w} : worker[v].job # j
  BY DEF Structure, WorkersType, j
<1>6. Frame(w, j)
  BY <1>1, <1>2, <1>3, <1>4, <1>5 DEF Frame, Idle, j
<1>7. Idle \in Station
  BY DEF Idle, Station, Places, Statuses
<1>8. AtWork(w)' /\ ~First(w)' /\ worker'[w].export = 0
  BY <1>4 DEF AtWork, First, Opened, Idle
<1>9. WorkersType'
  BY <1>1, <1>3, <1>6, <1>7, <1>8, WorkersKept DEF Leaves
<1>10. FirstAlone'
  BY <1>3, <1>6, <1>8, FirstKept
<1>11. QED
  BY <1>3, <1>4, <1>6, <1>9, <1>10 DEF Structure, j

\* Whatever happens to a run leaves a run.
LEMMA RunType ==
    ASSUME NEW run \in Run
    PROVE  /\ Started(run) \in Run /\ Completed(run) \in Run
           /\ Tried(run) \in Run /\ Stalled(run) \in Run /\ Queued \in Run
           /\ Started(run).state = "active"
           /\ Completed(run).state = "completed"
<1>1. Attempts \in Nat \ {0} /\ MaxStalls \in Nat
  BY BullAssumption
<1>2. Queued \in Run
  BY <1>1 DEF Queued, Run
<1>3. Started(run) \in Run /\ Started(run).state = "active"
  BY DEF Started, Run
<1>4. \A state \in {"completed", "failed", "stalled"} : Ended(state) \in Run /\ Ended(state).state = state
  BY <1>2 DEF Ended, Run, Queued
<1>5. Tried(run) \in Run
  <2>1. ASSUME NEW n \in 0..(Attempts - 1)
        PROVE  [run EXCEPT !.attempts = n, !.state = "waiting"] \in Run
    BY DEF Run
  <2>2. run.attempts \in 0..(Attempts - 1)
    BY DEF Run
  <2>3. run.attempts + 1 < Attempts => run.attempts + 1 \in 0..(Attempts - 1)
    BY <1>1, <2>2
  <2>4. QED
    BY <1>4, <2>1, <2>3 DEF Tried
<1>6. Stalled(run) \in Run
  <2>1. ASSUME NEW n \in 0..MaxStalls
        PROVE  [run EXCEPT !.stalls = n, !.state = "waiting"] \in Run
    BY DEF Run
  <2>2. run.stalls \in 0..MaxStalls
    BY DEF Run
  <2>3. run.stalls < MaxStalls => run.stalls + 1 \in 0..MaxStalls
    BY <1>1, <2>2
  <2>4. QED
    BY <1>4, <2>1, <2>3 DEF Stalled
<1>7. QED
  BY <1>2, <1>3, <1>4, <1>5, <1>6 DEF Completed

LEMMA TakeStructure ==
    ASSUME Structure, NEW w \in Workers, worker[w].pc = "idle", NEW j \in DOMAIN jobs,
           jobs[j].run.state = "waiting", jobs' = [jobs EXCEPT ![j].run = Started(@)],
           worker' = [worker EXCEPT ![w] = [Idle EXCEPT !.pc = "open", !.job = j]],
           UNCHANGED <<total, records, attached, files, faults>>
    PROVE  /\ Structure' /\ Frame(w, j) /\ DOMAIN jobs' = DOMAIN jobs
           /\ worker[w] = Idle /\ worker'[w].pc = "open" /\ worker'[w].job = j
<1> DEFINE next == [Idle EXCEPT !.pc = "open", !.job = j]
           run == Started(jobs[j].run)
<1>1. Basic /\ JobsType /\ WorkersType /\ j \in Nat \ {0} /\ jobs[j].run \in Run
  BY JobFacts DEF Structure
<1>2. run \in Run /\ run.state = "active"
  BY <1>1, RunType
<1>3. jobs' = [jobs EXCEPT ![j].run = run]
  OBVIOUS
<1>4. Grown /\ Basic'
  BY <1>1 DEF Grown, Basic, files, Rows
<1>5. /\ next \in Station /\ next.pc = "open" /\ next.job = j /\ next.export = 0 /\ next.record = 0
  BY <1>1 DEF Idle, Station, Places, Statuses
<1> HIDE DEF run, next
<1>6. JobsType' /\ JobsGrown(j) /\ DOMAIN jobs' = DOMAIN jobs /\ jobs'[j].run = run
  BY <1>1, <1>2, <1>3, <1>4, RunSet
<1>7. worker[w] = Idle
  BY <1>1 DEF WorkersType, AtWork
<1>8. worker' = [worker EXCEPT ![w] = next]
  BY DEF next
<1>9. worker'[w] = next /\ \A v \in Workers \ {w} : worker'[v] = worker[v]
  BY <1>1, <1>8 DEF WorkersType
<1>10. \A v \in Workers \ {w} : worker[v].job # j
  <2> SUFFICES ASSUME NEW v \in Workers \ {w}, worker[v].job = j PROVE FALSE
    OBVIOUS
  <2>1. Busy(v)
    BY <1>1 DEF WorkersType, AtWork, Busy, Idle
  <2>2. jobs[j].run.state = "active"
    BY <1>1, <2>1, WorkerFacts DEF Current
  <2>3. QED
    BY <2>2
<1>11. Frame(w, j)
  BY <1>5, <1>6, <1>7, <1>9, <1>10 DEF Frame, Idle
<1>12. AtWork(w)' /\ ~First(w)' /\ worker'[w].export = 0
  BY <1>2, <1>5, <1>6, <1>9 DEF AtWork, First, Opened, Current
<1>13. WorkersType'
  BY <1>1, <1>4, <1>5, <1>6, <1>8, <1>11, <1>12, WorkersKept
<1>14. FirstAlone'
  BY <1>6, <1>11, <1>12, FirstKept
<1>15. QED
  BY <1>4, <1>5, <1>6, <1>7, <1>9, <1>11, <1>13, <1>14 DEF Structure

LEMMA Appended ==
    ASSUME NEW T, NEW s \in Seq(T), NEW x \in T
    PROVE  /\ Append(s, x) \in Seq(T) /\ Len(s) \in Nat /\ DOMAIN s = 1..Len(s)
           /\ Len(Append(s, x)) = Len(s) + 1
           /\ DOMAIN Append(s, x) = DOMAIN s \cup {Len(s) + 1}
           /\ Len(s) + 1 \notin DOMAIN s
           /\ \A i \in DOMAIN s : Append(s, x)[i] = s[i]
           /\ Append(s, x)[Len(s) + 1] = x
OBVIOUS

\* A handler opens the export and the record of its job, or new ones.
LEMMA OpenFiles ==
    ASSUME Basic, JobsType, WorkersType, NEW w \in Workers, Open(w)
    PROVE  /\ Basic' /\ Grown
           /\ worker'[w].export \in DOMAIN csv' /\ worker'[w].record \in DOMAIN records'
           /\ records'[worker'[w].record].export = worker'[w].export
           /\ \A k \in DOMAIN records : records'[k] = records[k]
           /\ \A k \in DOMAIN records' : k \notin DOMAIN records => records'[k].status = "RUN"
           /\ IF Current(w).export = 0
                 THEN /\ worker'[w].export = Len(csv) + 1
                      /\ Len(csv) + 1 \notin DOMAIN csv
                      /\ csv' = Append(csv, Absent) /\ zip' = Append(zip, Absent)
                      /\ DOMAIN csv' = DOMAIN csv \cup {Len(csv) + 1}
                      /\ DOMAIN zip' = DOMAIN zip \cup {Len(csv) + 1}
                      /\ \A e \in DOMAIN csv : csv'[e] = csv[e] /\ zip'[e] = zip[e]
                      /\ csv'[Len(csv) + 1] = Absent /\ zip'[Len(csv) + 1] = Absent
                 ELSE worker'[w].export = Current(w).export /\ csv' = csv /\ zip' = zip
           /\ worker'[w].pc \in {"kill", "fetch"}
           /\ worker' = [worker EXCEPT ![w] = worker'[w]] /\ worker'[w] \in Station
           /\ worker'[w].job = worker[w].job
<1> DEFINE job == Current(w)
           export == IF job.export = 0 THEN Len(csv) + 1 ELSE job.export
           found == job.record # 0 /\ records[job.record].status # "gone"
           record == IF found THEN job.record ELSE Len(records) + 1
           seen == IF found THEN records[job.record].status ELSE "RUN"
           place == IF seen = "STO" THEN "kill" ELSE "fetch"
           new == [status |-> "RUN", export |-> export]
           next == [worker[w] EXCEPT !.pc = place, !.export = export, !.record = record, !.seen = seen]
<1>1. /\ worker[w].pc = "open"
      /\ worker' = [worker EXCEPT ![w] = next]
      /\ records' = IF found THEN records ELSE Append(records, new)
      /\ IF job.export = 0
            THEN csv' = Append(csv, Absent) /\ zip' = Append(zip, Absent)
            ELSE UNCHANGED <<csv, zip>>
      /\ UNCHANGED <<total, jobs, attached, faults, archived>>
  BY DEF Open
<1>2. Busy(w) /\ worker[w].job \in DOMAIN jobs /\ worker[w] \in Station
  BY <1>1, WorkerFacts DEF Busy
<1>3. Links(job.offset, job.export, job.record) /\ job.export \in Nat /\ job.record \in Nat
  BY <1>2, JobFacts DEF Linked, Current
<1>4. /\ records \in Seq(Record) /\ csv \in Seq(Seq(Rows)) /\ zip \in Seq(Seq(Rows))
      /\ Len(csv) \in Nat /\ DOMAIN csv = 1..Len(csv) /\ Len(zip) = Len(csv)
      /\ DOMAIN zip = 1..Len(csv) /\ Len(records) \in Nat /\ DOMAIN records = 1..Len(records)
      /\ \A k \in DOMAIN records : records[k].export \in DOMAIN csv /\ records[k] \in Record
  BY DEF Basic
<1>5. job.export = 0 \/ job.export \in DOMAIN csv
  BY <1>3 DEF Links
<1>6. found => job.export # 0 /\ job.record \in DOMAIN records /\ records[job.record].export = job.export
  <2>1. found => job.record # 0
    OBVIOUS
  <2>2. job.record # 0 => /\ job.export \in DOMAIN csv /\ job.record \in DOMAIN records
                          /\ records[job.record].export = job.export
    BY <1>3 DEF Links
  <2>3. 0 \notin DOMAIN csv
    BY <1>4
  <2>4. QED
    BY <2>1, <2>2, <2>3
<1>7. export \in Nat /\ record \in Nat /\ seen \in Statuses /\ place \in {"kill", "fetch"}
  BY <1>3, <1>4, <1>6 DEF Record, Statuses
<1> HIDE DEF job, export, found, record, seen, place
<1>8. new \in Record /\ new.status = "RUN" /\ new.export = export
  BY <1>7 DEF Record, Statuses
<1>9. /\ next \in Station /\ next.pc = place /\ next.export = export /\ next.record = record
      /\ next.job = worker[w].job
  BY <1>2, <1>7 DEF Station, Places
<1> HIDE DEF new, next
<1>10. worker'[w] = next /\ worker' = [worker EXCEPT ![w] = worker'[w]]
  BY <1>1 DEF WorkersType
<1>11. IF job.export = 0
          THEN /\ export = Len(csv) + 1
               /\ Len(csv) + 1 \notin DOMAIN csv
               /\ csv' = Append(csv, Absent) /\ zip' = Append(zip, Absent)
               /\ DOMAIN csv' = DOMAIN csv \cup {Len(csv) + 1}
               /\ DOMAIN zip' = DOMAIN zip \cup {Len(csv) + 1}
               /\ \A e \in DOMAIN csv : csv'[e] = csv[e] /\ zip'[e] = zip[e]
               /\ csv'[Len(csv) + 1] = Absent /\ zip'[Len(csv) + 1] = Absent
          ELSE export = job.export /\ csv' = csv /\ zip' = zip
  <2>1. CASE job.export = 0
    <3>1. Absent \in Seq(Rows) /\ csv \in Seq(Seq(Rows)) /\ zip \in Seq(Seq(Rows))
      BY <1>4 DEF Absent
    <3>2. /\ DOMAIN Append(csv, Absent) = DOMAIN csv \cup {Len(csv) + 1}
          /\ Len(csv) + 1 \notin DOMAIN csv
          /\ \A e \in DOMAIN csv : Append(csv, Absent)[e] = csv[e]
          /\ Append(csv, Absent)[Len(csv) + 1] = Absent
      BY <3>1, Appended
    <3>3. /\ DOMAIN Append(zip, Absent) = DOMAIN zip \cup {Len(zip) + 1}
          /\ \A e \in DOMAIN zip : Append(zip, Absent)[e] = zip[e]
          /\ Append(zip, Absent)[Len(zip) + 1] = Absent
      BY <3>1, Appended
    <3>4. csv' = Append(csv, Absent) /\ zip' = Append(zip, Absent) /\ export = Len(csv) + 1
      BY <1>1, <2>1 DEF export
    <3>5. DOMAIN zip = DOMAIN csv /\ Len(zip) = Len(csv)
      BY <1>4
    <3>6. QED
      BY <2>1, <3>2, <3>3, <3>4, <3>5
  <2>2. CASE job.export # 0
    BY <1>1, <2>2 DEF export
  <2>3. QED
    BY <2>1, <2>2
<1>12. csv' \in Seq(Seq(Rows)) /\ zip' \in Seq(Seq(Rows)) /\ Len(zip') = Len(csv')
  <2>1. Absent \in Seq(Rows) /\ csv \in Seq(Seq(Rows)) /\ zip \in Seq(Seq(Rows))
    BY <1>4 DEF Absent
  <2>2. Append(csv, Absent) \in Seq(Seq(Rows)) /\ Len(Append(csv, Absent)) = Len(csv) + 1
    BY <2>1, Appended
  <2>3. Append(zip, Absent) \in Seq(Seq(Rows)) /\ Len(Append(zip, Absent)) = Len(zip) + 1
    BY <2>1, Appended
  <2>4. QED
    BY <1>4, <1>11, <2>1, <2>2, <2>3
<1>13. /\ \A k \in DOMAIN records : k \in DOMAIN records' /\ records'[k] = records[k]
       /\ \A k \in DOMAIN records' : k \notin DOMAIN records => records'[k] = new
       /\ records' \in Seq(Record) /\ record \in DOMAIN records'
       /\ records'[record].export = export
  <2>1. CASE found
    BY <1>1, <1>4, <1>6, <2>1 DEF record, export
  <2>2. CASE ~found
    BY <1>1, <1>4, <1>8, <2>2 DEF record
  <2>3. QED
    BY <2>1, <2>2
<1>14. DOMAIN csv \subseteq DOMAIN csv' /\ export \in DOMAIN csv'
  BY <1>5, <1>11
<1>15. Grown
  BY <1>13, <1>14 DEF Grown
<1>16. Basic'
  <2>1. \A k \in DOMAIN records' : records'[k].export \in DOMAIN csv'
    BY <1>4, <1>8, <1>13, <1>14
  <2>2. Rows' = Rows
    BY <1>1 DEF Rows
  <2>3. attached' \subseteq DOMAIN records' /\ archived' \subseteq DOMAIN csv'
    BY <1>1, <1>13, <1>14 DEF Basic
  <2>4. total' \in 0..MaxTotal /\ faults' \in 0..MaxFaults
    BY <1>1 DEF Basic
  <2>5. QED
    BY <1>12, <1>13, <2>1, <2>2, <2>3, <2>4 DEF Basic
<1>17. QED
  BY <1>7, <1>8, <1>9, <1>10, <1>11, <1>13, <1>14, <1>15, <1>16 DEF job

LEMMA OpenStructure ==
    ASSUME Structure, NEW w \in Workers, Open(w)
    PROVE  /\ Structure' /\ Busy(w) /\ Frame(w, worker[w].job) /\ jobs' = jobs
           /\ Current(w)' = Current(w)
<1> DEFINE next == worker'[w]
<1>1. Basic /\ JobsType /\ WorkersType /\ Busy(w)
  BY DEF Structure, Open, Busy
<1>2. /\ Basic' /\ Grown
      /\ next.export \in DOMAIN csv' /\ next.record \in DOMAIN records'
      /\ records'[next.record].export = next.export
      /\ IF Current(w).export = 0
            THEN next.export = Len(csv) + 1 /\ Len(csv) + 1 \notin DOMAIN csv
            ELSE next.export = Current(w).export
      /\ next.pc \in {"kill", "fetch"}
      /\ worker' = [worker EXCEPT ![w] = next] /\ next \in Station
      /\ next.job = worker[w].job
  BY <1>1, OpenFiles
<1>3. jobs' = jobs /\ total' = total
  BY DEF Open
<1>4. Goes(w, next)
  BY <1>2, <1>3 DEF Goes
<1>5. Frame(w, worker[w].job) /\ JobsType' /\ Current(w)' = Current(w)
  BY <1>1, <1>2, <1>4, GoesFrame
<1>6. worker[w].job \in DOMAIN jobs /\ Current(w).run.state = "active"
  BY <1>1, WorkerFacts
<1> HIDE DEF next
<1>7. AtWork(w)'
  BY <1>2, <1>3, <1>5, <1>6 DEF AtWork, Opened, next
<1>8. WorkersType'
  BY <1>1, <1>2, <1>5, <1>7, WorkersKept
<1>9. FirstAlone'
  <2>1. \A v \in Workers \ {w} : worker'[v] = worker[v]
    BY <1>5 DEF Frame
  <2>2. ASSUME NEW v \in Workers \ {w}, Current(w).export = 0
        PROVE  worker[v].export # next.export
    <3>1. worker[v].export = 0 \/ worker[v].export \in DOMAIN csv
      BY <1>1 DEF WorkersType, AtWork, Idle, Opened
    <3>2. next.export # 0
      BY <1>2, <2>2 DEF Basic
    <3>3. QED
      BY <1>2, <2>2, <3>1, <3>2
  <2>3. ASSUME NEW i \in DOMAIN jobs, Current(w).export = 0
        PROVE  jobs[i].export # next.export
    <3>1. jobs[i].export = 0 \/ jobs[i].export \in DOMAIN csv
      BY <1>1 DEF JobsType, Linked, Links
    <3>2. next.export # 0
      BY <1>2, <2>3 DEF Basic
    <3>3. QED
      BY <1>2, <2>3, <3>1, <3>2
  <2>4. ASSUME NEW x \in Workers \ {w}, First(x)'
        PROVE  /\ \A i \in DOMAIN jobs : jobs[i].export # worker[x].export
               /\ \A v \in Workers \ {x} : worker'[v].export # worker[x].export
    <3>1. First(x)
      BY <1>3, <2>1, <2>4 DEF First, Opened, Current
    <3>2. /\ \A i \in DOMAIN jobs : jobs[i].export # worker[x].export
          /\ \A v \in Workers \ {x} : worker[v].export # worker[x].export
      BY <3>1 DEF Structure, FirstAlone
    <3>3. next.export # worker[x].export
      <4>1. CASE Current(w).export = 0
        BY <2>2, <4>1
      <4>2. CASE Current(w).export # 0
        BY <1>2, <1>6, <3>2, <4>2 DEF Current
      <4>3. QED
        BY <4>1, <4>2
    <3>4. QED
      BY <2>1, <3>2, <3>3 DEF next
  <2>5. First(w)' => Current(w).export = 0
    BY <1>5 DEF First
  <2>6. QED
    BY <1>3, <2>1, <2>2, <2>3, <2>4, <2>5 DEF FirstAlone, next
<1>10. QED
  BY <1>1, <1>2, <1>3, <1>5, <1>8, <1>9 DEF Structure

\* A handler queues the job of the next page.
LEMMA QueueStructure ==
    ASSUME Structure, NEW w \in Workers, QueueNext(w)
    PROVE  /\ Structure' /\ Busy(w) /\ Frame(w, worker[w].job) /\ worker'[w].pc = "finish"
           /\ worker'[w].export = worker[w].export /\ worker[w].export \in DOMAIN csv
           /\ DOMAIN jobs' = DOMAIN jobs \cup {Len(jobs) + 1}
           /\ Len(jobs) + 1 \notin DOMAIN jobs
           /\ \A i \in DOMAIN jobs : jobs'[i] = jobs[i]
           /\ jobs'[Len(jobs) + 1].offset = NextOffset(Current(w).offset)
           /\ jobs'[Len(jobs) + 1].export = worker[w].export
           /\ jobs'[Len(jobs) + 1].run.state = "waiting"
<1> DEFINE offset == NextOffset(Current(w).offset)
           e == worker[w].export
           k == worker[w].record
           n == Len(jobs) + 1
           next == [worker[w] EXCEPT !.pc = "finish"]
<1>1. Basic /\ JobsType /\ WorkersType /\ worker[w].pc = "queue" /\ Busy(w) /\ Opened(w)
  BY DEF Structure, QueueNext, Busy, Opened
<1>2. /\ worker[w].job \in DOMAIN jobs /\ Current(w).run.state = "active"
      /\ Current(w).offset \in 0..total /\ total \in Nat /\ worker[w] \in Station
  BY <1>1, WorkerFacts
<1>3. /\ e \in DOMAIN csv /\ k \in DOMAIN records /\ records[k].export = e
      /\ Current(w).export \in {0, e} /\ MorePages(Current(w).offset)
  BY <1>1 DEF WorkersType, AtWork
<1>4. offset \in Nat /\ offset > 0 /\ offset < total
  <2>1. /\ offset \in Current(w).offset..total
        /\ Current(w).offset < offset /\ offset < total
    BY <1>2, <1>3, PageFacts
  <2>2. QED
    BY <1>2, <2>1
<1>5. /\ jobs' = Append(jobs, NewJob(offset, e, k))
      /\ worker' = [worker EXCEPT ![w] = next]
      /\ UNCHANGED <<total, records, attached, files, faults>>
  BY DEF QueueNext, Goto
<1>6. /\ next \in Station /\ next.pc = "finish" /\ next.export = e /\ next.record = k
      /\ next.job = worker[w].job
  BY <1>2 DEF Station, Places
<1> HIDE DEF offset, next
<1>7. Grown /\ Basic' /\ total' = total
  BY <1>1, <1>5 DEF Grown, Basic, files, Rows
<1>8. offset \in 0..MaxTotal /\ e \in Nat /\ k \in Nat /\ Links(offset, e, k)
  <2>1. total \in 0..MaxTotal /\ MaxTotal \in Nat
    BY <1>1, Constants DEF Basic
  <2>2. e \in Nat /\ k \in Nat
    BY <1>2 DEF Station
  <2>3. QED
    BY <1>2, <1>3, <1>4, <2>1, <2>2 DEF Links
<1>9. /\ JobsType' /\ \A i : JobsGrown(i)
      /\ DOMAIN jobs' = DOMAIN jobs \cup {n} /\ n \notin DOMAIN jobs
      /\ \A i \in DOMAIN jobs : jobs'[i] = jobs[i]
  BY <1>1, <1>5, <1>7, <1>8, JobQueued
<1>10. /\ jobs'[n].offset = offset /\ jobs'[n].export = e /\ jobs'[n].record = k
       /\ jobs'[n].run.state = "waiting"
  BY <1>1, <1>5, <1>7, <1>8, JobQueued
<1> HIDE DEF n, e, k
<1>11. worker'[w] = next /\ \A v \in Workers \ {w} : worker'[v] = worker[v]
  BY <1>1, <1>5 DEF WorkersType
<1>12. \A v \in Workers \ {w} : worker[v].job # worker[w].job
  BY <1>1 DEF WorkersType
<1>13. Frame(w, worker[w].job)
  BY <1>2, <1>6, <1>7, <1>9, <1>11, <1>12 DEF Frame
<1>14. Current(w)' = Current(w)
  BY <1>2, <1>6, <1>9, <1>11 DEF Current
<1>15. AtWork(w)'
  BY <1>2, <1>3, <1>6, <1>7, <1>9, <1>11, <1>14 DEF AtWork, Opened, Grown, e, k
<1>16. WorkersType'
  BY <1>1, <1>5, <1>6, <1>7, <1>9, <1>13, <1>15, WorkersKept
<1>17. FirstAlone'
  <2> SUFFICES ASSUME NEW x \in Workers, First(x)'
               PROVE  /\ \A i \in DOMAIN jobs' : jobs'[i].export # worker'[x].export
                      /\ \A v \in Workers \ {x} : worker'[v].export # worker'[x].export
    BY DEF FirstAlone
  <2>1. x # w
    BY <1>6, <1>11 DEF First
  <2>2. worker'[x] = worker[x] /\ Busy(x)
    BY <1>11, <2>1 DEF First, Opened, Busy
  <2>3. worker[x].job \in DOMAIN jobs
    BY <1>1, <2>2, WorkerFacts
  <2>4. First(x)
    BY <1>9, <2>2, <2>3 DEF First, Opened, Current
  <2>5. /\ \A i \in DOMAIN jobs : jobs[i].export # worker[x].export
        /\ \A v \in Workers \ {x} : worker[v].export # worker[x].export
    BY <2>4 DEF Structure, FirstAlone
  <2>6. \A v \in Workers : worker'[v].export = worker[v].export
    BY <1>6, <1>11 DEF e
  <2>7. e # worker[x].export
    BY <2>1, <2>5 DEF e
  <2>8. QED
    BY <1>9, <1>10, <2>5, <2>6, <2>7
<1>18. QED
  BY <1>1, <1>3, <1>6, <1>7, <1>9, <1>10, <1>11, <1>13, <1>16, <1>17 DEF Structure, offset, n, e

-----------------------------------------------------------------------------
(* The rows before a page, for the kinds of steps.                         *)

\* A file that a job or a worker relied on is what it was.
FilesKept ==
    \A e \in DOMAIN csv : e \notin archived' => e \notin archived /\ csv'[e] = csv[e]

LEMMA BeforeKept ==
    ASSUME Structure, WrittenBefore, NEW j, JobsGrown(j), DOMAIN jobs' = DOMAIN jobs,
           \A e \in DOMAIN csv :
               e \notin archived' => e \notin archived /\ Range(csv[e]) \subseteq Range(csv'[e])
    PROVE  WrittenBefore'
<1> SUFFICES ASSUME NEW i \in DOMAIN jobs, jobs'[i].export # 0, jobs'[i].export \notin archived'
             PROVE  1..jobs'[i].offset \subseteq Range(csv'[jobs'[i].export])
  BY DEF WrittenBefore
<1>1. jobs'[i].offset = jobs[i].offset /\ jobs'[i].export = jobs[i].export
  BY DEF JobsGrown
<1>2. jobs[i].export \in DOMAIN csv
  BY <1>1 DEF Structure, JobsType, Linked, Links
<1>3. 1..jobs[i].offset \subseteq Range(csv[jobs[i].export])
  BY <1>1, <1>2 DEF WrittenBefore
<1>4. QED
  BY <1>1, <1>2, <1>3

LEMMA WrittenAtKept ==
    ASSUME Structure, NEW w \in Workers, NEW j, Frame(w, j), NEW v \in Workers \ {w}, WrittenAt(v),
           worker[v].export \in DOMAIN csv /\ worker[v].export \notin archived' =>
               /\ worker[v].export \notin archived
               /\ csv'[worker[v].export] = csv[worker[v].export]
    PROVE  WrittenAt(v)'
<1>1. worker'[v] = worker[v] /\ total' = total
  BY DEF Frame
<1>2. CASE Opened(v)
  <2>1. /\ Busy(v) /\ worker[v].job \in DOMAIN jobs /\ worker[v].export \in DOMAIN csv
    <3>1. Busy(v)
      BY <1>2 DEF Opened, Busy
    <3>2. QED
      BY <1>2, <3>1, WorkerFacts DEF Structure
  <2>2. Current(v)'.offset = Current(v).offset
    BY <1>1, <2>1 DEF Current, Frame, JobsGrown
  <2>3. NextOffset(Current(v).offset)' = NextOffset(Current(v).offset)
    BY <1>1, <2>2 DEF NextOffset, Page
  <2>4. QED
    BY <1>1, <2>1, <2>3 DEF WrittenAt, Rows
<1>3. CASE ~Opened(v)
  BY <1>1, <1>3 DEF Opened, WrittenAt
<1>4. QED
  BY <1>2, <1>3

\* A step that writes no rows and queues no page.
LEMMA WrittenKept ==
    ASSUME Structure, WrittenInv, NEW w \in Workers, NEW j, Frame(w, j),
           DOMAIN jobs' = DOMAIN jobs, FilesKept, WrittenAt(w)'
    PROVE  WrittenInv'
<1>1. JobsGrown(j)
  BY DEF Frame
<1>2. WrittenBefore'
  BY <1>1, BeforeKept DEF FilesKept, WrittenInv
<1>3. \A v \in Workers \ {w} : WrittenAt(v)'
  BY WrittenAtKept DEF FilesKept, WrittenInv
<1>4. QED
  BY <1>2, <1>3 DEF WrittenInv

-----------------------------------------------------------------------------
(* The rows that are owed, for the kinds of steps.                         *)

FaultsGrow == faults' \in Nat /\ faults \in Nat /\ faults <= faults'

\* The job owes no more than before.
NoMore(j) ==
    \A e \in DOMAIN csv : \A row \in 1..(total + 1) : Owes(j, e, row)' => Owes(j, e, row)

LEMMA RowsOwed ==
    ASSUME Basic, NEW e \in DOMAIN csv, NEW row
    PROVE  csv[e] \in Seq(Rows) /\ Occurrences(csv[e], row) \in Nat /\ e \in Nat \ {0}
<1>1. csv[e] \in Seq(Rows)
  BY DEF Basic
<1>2. Occurrences(csv[e], row) \in Nat
  BY <1>1, OccurrencesType
<1>3. e \in Nat \ {0}
  BY DEF Basic
<1>4. QED
  BY <1>1, <1>2, <1>3

\* A file that keeps its rows and is owed no more.
LEMMA OwedSame ==
    ASSUME Structure, OwedInv, NEW w \in Workers, NEW j, Frame(w, j),
           DOMAIN jobs' = DOMAIN jobs, FaultsGrow, NEW e \in DOMAIN csv, csv'[e] = csv[e],
           NEW row \in 1..(total + 1), Owes(j, e, row)' => Owes(j, e, row)
    PROVE  Occurrences(csv'[e], row) + Cardinality(Debtors(e, row)') <= faults' + 1
<1>1. Occurrences(csv[e], row) + Cardinality(Debtors(e, row)) <= faults + 1
  BY DEF OwedInv
<1>2. Occurrences(csv[e], row) \in Nat
  BY RowsOwed DEF Structure
<1>3. /\ Cardinality(Debtors(e, row)') \in Nat /\ Cardinality(Debtors(e, row)) \in Nat
      /\ Cardinality(Debtors(e, row)') <= Cardinality(Debtors(e, row))
  BY DebtorsFewer DEF Structure
<1>4. QED
  BY <1>1, <1>2, <1>3 DEF FaultsGrow

LEMMA OwedQuiet ==
    ASSUME Structure, OwedInv, NEW w \in Workers, NEW j, Frame(w, j),
           DOMAIN jobs' = DOMAIN jobs, csv' = csv, FaultsGrow, NoMore(j)
    PROVE  OwedInv'
<1> SUFFICES ASSUME NEW e \in DOMAIN csv, NEW row \in 1..(total + 1)
             PROVE  Occurrences(csv'[e], row) + Cardinality(Debtors(e, row)') <= faults' + 1
  BY DEF OwedInv, Frame
<1>1. Owes(j, e, row)' => Owes(j, e, row)
  BY DEF NoMore
<1>2. QED
  BY <1>1, OwedSame

\* A failure: one job may start again.
LEMMA OwedFault ==
    ASSUME Structure, OwedInv, NEW w \in Workers, NEW j, Frame(w, j),
           DOMAIN jobs' = DOMAIN jobs, csv' = csv, faults \in Nat, faults' = faults + 1
    PROVE  OwedInv'
<1> SUFFICES ASSUME NEW e \in DOMAIN csv, NEW row \in 1..(total + 1)
             PROVE  Occurrences(csv[e], row) + Cardinality(Debtors(e, row)') <= faults' + 1
  BY DEF OwedInv, Frame
<1>1. Occurrences(csv[e], row) + Cardinality(Debtors(e, row)) <= faults + 1
  BY DEF OwedInv
<1>2. Occurrences(csv[e], row) \in Nat
  BY RowsOwed DEF Structure
<1>3. /\ Cardinality(Debtors(e, row)') \in Nat /\ Cardinality(Debtors(e, row)) \in Nat
      /\ Cardinality(Debtors(e, row)') <= Cardinality(Debtors(e, row)) + 1
  BY DebtorsOneMore DEF Structure
<1>4. QED
  BY <1>1, <1>2, <1>3

\* A file without rows: jobs that may change it may write any row, but there
\* are no more of them than before.
LEMMA OwedEmptied ==
    ASSUME Structure, OwedInv, Structure', NEW w \in Workers, NEW j, Frame(w, j),
           DOMAIN jobs' = DOMAIN jobs, FaultsGrow, NEW e \in DOMAIN csv, csv'[e] = Absent,
           Owes(j, e, total + 1)' => Owes(j, e, total + 1), NEW row \in 1..(total + 1)
    PROVE  Occurrences(csv'[e], row) + Cardinality(Debtors(e, row)') <= faults' + 1
<1>1. Basic /\ JobsType /\ WorkersType /\ total' = total /\ total \in Nat
  BY Constants DEF Structure, Basic, Frame
<1>2. total + 1 \in 1..(total + 1)
  BY <1>1
<1>3. Occurrences(csv[e], total + 1) + Cardinality(Debtors(e, total + 1)) <= faults + 1
  BY <1>2 DEF OwedInv
<1>4. Occurrences(csv[e], total + 1) \in Nat
  BY <1>1, RowsOwed
<1>5. /\ IsFiniteSet(Debtors(e, total + 1)')
      /\ Cardinality(Debtors(e, total + 1)') \in Nat /\ Cardinality(Debtors(e, total + 1)) \in Nat
      /\ Cardinality(Debtors(e, total + 1)') <= Cardinality(Debtors(e, total + 1))
  <2> DEFINE last == total + 1
  <2>1. Owes(j, e, last)' => Owes(j, e, last)
    OBVIOUS
  <2>2. /\ IsFiniteSet(Debtors(e, last)')
        /\ Cardinality(Debtors(e, last)') \in Nat /\ Cardinality(Debtors(e, last)) \in Nat
        /\ Cardinality(Debtors(e, last)') <= Cardinality(Debtors(e, last))
    BY <1>1, <2>1, DebtorsFewer
  <2>3. QED
    BY <2>2
<1>6. /\ IsFiniteSet(Debtors(e, total + 1)')
      /\ Debtors(e, row)' \subseteq Debtors(e, total + 1)'
  <2>1. MoreOwed'
    BY MoreOwedNext DEF Structure
  <2>2. Debtors(e, row)' \subseteq Debtors(e, total + 1)'
    BY <1>1, <2>1 DEF MoreOwed, Basic
  <2>3. IsFiniteSet(Debtors(e, total + 1)')
    BY <1>5
  <2>4. QED
    BY <2>2, <2>3
<1>7. /\ Cardinality(Debtors(e, row)') <= Cardinality(Debtors(e, total + 1)')
      /\ Cardinality(Debtors(e, row)') \in Nat
  BY <1>6, FS_Subset, FS_CardinalityType
<1>8. Occurrences(csv'[e], row) = 0
  BY OccurrencesAbsent
<1>9. QED
  BY <1>3, <1>4, <1>5, <1>7, <1>8 DEF FaultsGrow

\* An archive is removed, emptied, or gets the rows of the file.
LEMMA ZipKept ==
    ASSUME Structure, OwedInv, ZipInv, FaultsGrow, total' = total,
           \A e \in DOMAIN zip' :
               zip'[e] = Absent \/ (e \in DOMAIN zip /\ zip'[e] \in {zip[e], csv[e]})
    PROVE  ZipInv'
<1> SUFFICES ASSUME NEW e \in DOMAIN zip', NEW row \in Rows
             PROVE  Occurrences(zip'[e], row) <= faults' + 1
  BY DEF ZipInv, Rows
<1>1. CASE zip'[e] = Absent
  BY <1>1, OccurrencesAbsent DEF FaultsGrow
<1>2. CASE e \in DOMAIN zip /\ zip'[e] = zip[e]
  <2>1. zip[e] \in Seq(Rows) /\ Occurrences(zip[e], row) <= faults + 1
    BY <1>2 DEF Structure, Basic, ZipInv
  <2>2. Occurrences(zip[e], row) \in Nat
    BY <2>1, OccurrencesType
  <2>3. QED
    BY <1>2, <2>1, <2>2 DEF FaultsGrow
<1>3. CASE e \in DOMAIN zip /\ zip'[e] = csv[e]
  <2>1. e \in DOMAIN csv
    BY <1>3 DEF Structure, Basic
  <2>2. row \in 1..(total + 1)
    BY Constants DEF Structure, Basic, Rows
  <2>3. Occurrences(csv[e], row) + Cardinality(Debtors(e, row)) <= faults + 1
    BY <2>1, <2>2 DEF OwedInv
  <2>4. Occurrences(csv[e], row) \in Nat
    BY <2>1, RowsOwed DEF Structure
  <2>5. Cardinality(Debtors(e, row)) \in Nat
    BY DebtorsFinite DEF Structure, JobsType
  <2>6. QED
    BY <1>3, <2>3, <2>4, <2>5 DEF FaultsGrow
<1>4. QED
  BY <1>1, <1>2, <1>3

-----------------------------------------------------------------------------
(* The chain of jobs of an export, for the kinds of steps.                 *)

\* While nothing failed, no two jobs may change the files of an export.
LEMMA OnlyOne ==
    ASSUME Structure, OwedInv, faults = 0, NEW e \in DOMAIN csv,
           NEW i \in Debtors(e, total + 1), NEW j \in Debtors(e, total + 1)
    PROVE  i = j
<1> DEFINE D == Debtors(e, total + 1)
<1>1. total \in Nat /\ total + 1 \in 1..(total + 1)
  BY Constants DEF Structure, Basic
<1>2. Occurrences(csv[e], total + 1) + Cardinality(D) <= 1
  BY <1>1 DEF OwedInv
<1>3. IsFiniteSet(D) /\ Cardinality(D) \in Nat /\ Occurrences(csv[e], total + 1) \in Nat
  BY DebtorsFinite, RowsOwed DEF Structure, JobsType
<1>4. i \in D /\ j \in D
  OBVIOUS
<1> HIDE DEF D
<1>5. Cardinality(D) <= 1 /\ Cardinality(D) # 0
  <2>1. Cardinality(D) # 0
    BY <1>3, <1>4, FS_EmptySet
  <2>2. QED
    BY <1>2, <1>3, <2>1
<1>6. PICK x : D = {x}
  BY <1>3, <1>5, FS_Singleton
<1>7. QED
  BY <1>4, <1>6

\* A worker and a waiting job may change the files of their export.
LEMMA WorkerOwes ==
    ASSUME Basic, JobsType, WorkersType, NEW w \in Workers, Busy(w)
    PROVE  worker[w].job \in Debtors(Target(w), total + 1)
<1>1. Reached(w) \in 0..total /\ total \in Nat /\ worker[w].job \in DOMAIN jobs
  BY ReachedType, WorkerFacts
<1>2. Reached(w) < total + 1
  BY <1>1
<1>3. QED
  BY <1>1, <1>2 DEF Owes, Debtors

LEMMA JobOwes ==
    ASSUME Basic, JobsType, NEW i \in DOMAIN jobs, jobs[i].run.state = "waiting"
    PROVE  i \in Debtors(jobs[i].export, total + 1)
<1>1. jobs[i].offset \in 0..total /\ total \in Nat
  BY JobFacts
<1>2. jobs[i].offset < total + 1
  BY <1>1
<1>3. QED
  BY <1>2 DEF Owes, Debtors

\* Only the files of one export change; others may be added.
OnlyFilesOf(e) ==
    \A f \in DOMAIN csv : f # e => csv'[f] = csv[f] /\ zip'[f] = zip[f]

LEMMA TargetType ==
    ASSUME Basic, JobsType, WorkersType, NEW w \in Workers
    PROVE  /\ Target(w) = 0 \/ Target(w) \in DOMAIN csv
           /\ Opened(w) /\ worker[w].pc # "finish" =>
                  Target(w) = worker[w].export /\ Target(w) \in DOMAIN csv
           /\ ~Busy(w) => Target(w) = 0
<1>1. ~Busy(w) => Target(w) = 0
  BY DEF Busy, Target
<1>2. CASE worker[w].pc = "open"
  <2>1. worker[w].job \in DOMAIN jobs /\ Target(w) = Current(w).export
    BY <1>2, WorkerFacts DEF Busy, Target
  <2>2. QED
    BY <1>1, <1>2, <2>1 DEF JobsType, Linked, Links, Current, Opened
<1>3. CASE Opened(w)
  <2>1. worker[w].export \in DOMAIN csv
    BY <1>3, WorkerFacts DEF Opened, Busy
  <2>2. worker[w].pc # "finish" => Target(w) = worker[w].export
    BY <1>3 DEF Target, Opened
  <2>3. worker[w].pc = "finish" => Target(w) = 0
    BY DEF Target
  <2>4. QED
    BY <1>1, <2>1, <2>2, <2>3
<1>4. CASE worker[w].pc = "idle"
  BY <1>1, <1>4 DEF Busy, Opened
<1>5. QED
  BY <1>2, <1>3, <1>4 DEF Opened

\* No one else is concerned by the files of the export a worker works on.
LEMMA ChainOthers ==
    ASSUME Structure, OwedInv, ChainInv, faults = 0, NEW w \in Workers, NEW j, Frame(w, j),
           OnlyFilesOf(Target(w)), Busy(w) => j = worker[w].job
    PROVE  /\ \A i \in DOMAIN jobs : i # j => ChainWaiting(i)'
           /\ \A v \in Workers \ {w} : ChainAt(v)'
<1>1. Basic /\ JobsType /\ WorkersType /\ 0 \notin DOMAIN csv
  BY DEF Structure, Basic
<1>2. ASSUME NEW i, i # j, NEW e \in DOMAIN csv, i \in Debtors(e, total + 1)
      PROVE  csv'[e] = csv[e] /\ zip'[e] = zip[e]
  <2>1. e # Target(w)
    <3> SUFFICES ASSUME e = Target(w) PROVE FALSE
      OBVIOUS
    <3>1. Busy(w)
      BY <1>1, TargetType
    <3>2. j \in Debtors(e, total + 1)
      BY <1>1, <3>1, WorkerOwes
    <3>3. QED
      BY <1>2, <3>2, OnlyOne
  <2>2. QED
    BY <2>1 DEF OnlyFilesOf
<1>3. ASSUME NEW i \in DOMAIN jobs, i # j, jobs'[i].run.state = "waiting", jobs'[i].export # 0
      PROVE  csv'[jobs'[i].export] = Upto(jobs'[i].offset)
  <2>1. /\ jobs'[i].run = jobs[i].run /\ jobs'[i].export = jobs[i].export
        /\ jobs'[i].offset = jobs[i].offset
    BY <1>3 DEF Frame, JobsGrown
  <2>2. i \in Debtors(jobs[i].export, total + 1) /\ jobs[i].export \in DOMAIN csv
    BY <1>1, <1>3, <2>1, JobOwes DEF JobsType, Linked, Links
  <2>3. csv'[jobs[i].export] = csv[jobs[i].export]
    BY <1>2, <1>3, <2>2
  <2>4. csv[jobs[i].export] = Upto(jobs[i].offset)
    BY <1>3, <2>1 DEF ChainInv, ChainWaiting
  <2>5. QED
    BY <2>1, <2>3, <2>4
<1>4. ASSUME NEW i \in DOMAIN jobs, i # j PROVE ChainWaiting(i)'
  <2>1. Upto(jobs[i].offset)' = Upto(jobs'[i].offset)
    BY DEF Upto
  <2>2. QED
    BY <1>3, <1>4, <2>1 DEF ChainWaiting
<1>5. ASSUME NEW v \in Workers \ {w} PROVE ChainAt(v)'
  <2>1. worker'[v] = worker[v] /\ total' = total
    BY DEF Frame
  <2>2. CASE ~Busy(v)
    BY <2>1, <2>2 DEF Busy, ChainAt
  <2>3. CASE Busy(v)
    <3>1. worker[v].job \in DOMAIN jobs /\ worker[v].job # j
      BY <1>1, <2>3, WorkerFacts DEF Frame
    <3>2. Current(v)'.offset = Current(v).offset /\ Current(v)'.export = Current(v).export
      BY <2>1, <3>1 DEF Current, Frame, JobsGrown
    <3>3. Target(v)' = Target(v)
      BY <2>1, <3>2, TargetKept
    <3>4. Target(v) = 0 \/ (csv'[Target(v)] = csv[Target(v)] /\ zip'[Target(v)] = zip[Target(v)])
      <4>1. CASE Target(v) \in DOMAIN csv
        <5>1. worker[v].job \in Debtors(Target(v), total + 1)
          BY <1>1, <2>3, WorkerOwes
        <5>2. QED
          BY <1>2, <3>1, <4>1, <5>1
      <4>2. QED
        BY <1>1, <4>1, TargetType
    <3>5. Target(v) = 0 => worker[v].pc \in {"open", "finish"}
      <4>1. worker[v].pc \notin {"open", "finish"} => Target(v) \in DOMAIN csv
        BY <1>1, <2>3, TargetType DEF Opened, Busy
      <4>2. QED
        BY <1>1, <4>1
    <3>6. NextOffset(Current(v).offset)' = NextOffset(Current(v).offset)
      BY <2>1, <3>2 DEF NextOffset, Page
    <3>7. ChainAt(v)
      BY DEF ChainInv
    <3>8. CASE Target(v) = 0
      BY <2>1, <3>3, <3>5, <3>8 DEF ChainAt
    <3>9. CASE Target(v) # 0
      BY <2>1, <3>2, <3>3, <3>4, <3>6, <3>7, <3>9 DEF ChainAt, Upto
    <3>10. QED
      BY <3>8, <3>9
  <2>4. QED
    BY <2>2, <2>3
<1>6. QED
  BY <1>4, <1>5

\* A record that is neither attached nor killed by the step.
LEMMA ChainRecordKept ==
    ASSUME Structure, NEW w \in Workers, total' = total,
           OnlyFilesOf(Target(w)), NEW k \in DOMAIN records, ChainRecord(k),
           records'[k].export = records[k].export,
           k \in attached' => k \in attached,
           records'[k].status = "RIP" => records[k].status = "RIP",
           records[k].export # Target(w) =>
               Debtors(records[k].export, total + 1)' \subseteq Debtors(records[k].export, total + 1)
    PROVE  ChainRecord(k)'
<1> DEFINE e == records[k].export
<1>1. Basic /\ JobsType /\ WorkersType /\ e \in DOMAIN csv /\ 0 \notin DOMAIN csv
  BY DEF Structure, Basic
<1>2. ASSUME Debtors(e, total + 1) = {}
      PROVE  Debtors(e, total + 1)' = {} /\ zip'[e] = zip[e]
  <2>1. e # Target(w)
    <3> SUFFICES ASSUME e = Target(w) PROVE FALSE
      OBVIOUS
    <3>1. Busy(w)
      BY <1>1, TargetType
    <3>2. QED
      BY <1>1, <1>2, <3>1, WorkerOwes
  <2>2. Debtors(e, total + 1)' = {}
    BY <1>2, <2>1
  <2>3. QED
    BY <1>1, <2>1, <2>2 DEF OnlyFilesOf
<1>3. Upto(total)' = Upto(total)
  BY DEF Upto
<1>4. CASE k \in attached' \/ records'[k].status = "RIP"
  <2>1. k \in attached \/ records[k].status = "RIP"
    BY <1>4
  <2>2. Debtors(e, total + 1) = {} /\ (k \in attached => zip[e] = Upto(total))
    BY <2>1 DEF ChainRecord
  <2>3. Debtors(e, total + 1)' = {} /\ zip'[e] = zip[e]
    BY <1>2, <2>2
  <2>4. k \in attached' => zip'[records'[k].export] = Upto(total)
    BY <2>2, <2>3
  <2>5. QED
    BY <1>3, <2>3, <2>4 DEF ChainRecord
<1>5. CASE k \notin attached' /\ records'[k].status # "RIP"
  BY <1>5 DEF ChainRecord
<1>6. QED
  BY <1>4, <1>5

\* The job owes no change of a file that it did not owe before.
NoNew(j) == \A e \in DOMAIN csv : Owes(j, e, total + 1)' => Owes(j, e, total + 1)

\* A record is as it was, as far as the chain is concerned.
RecordKept(k) ==
    /\ k \in DOMAIN records
    /\ k \in attached' => k \in attached
    /\ records'[k].status = "RIP" => records[k].status = "RIP"

LEMMA ChainKept ==
    ASSUME Structure, OwedInv, ChainInv, faults' = 0 => faults = 0, NEW w \in Workers, NEW j,
           Frame(w, j), Grown, DOMAIN jobs' = DOMAIN jobs, OnlyFilesOf(Target(w)),
           Busy(w) => j = worker[w].job, NoNew(j),
           faults' = 0 => /\ ChainWaiting(j)' /\ ChainAt(w)'
                          /\ \A k \in DOMAIN records' : ChainRecord(k)' \/ RecordKept(k)
    PROVE  ChainInv'
<1> SUFFICES ASSUME faults' = 0
             PROVE  /\ \A i \in DOMAIN jobs' : ChainWaiting(i)'
                    /\ \A v \in Workers : ChainAt(v)'
                    /\ \A k \in DOMAIN records' : ChainRecord(k)'
  BY DEF ChainInv
<1>1. faults = 0 /\ total' = total /\ Basic /\ JobsType /\ WorkersType
  BY DEF Frame, Structure
<1>2. /\ \A i \in DOMAIN jobs : i # j => ChainWaiting(i)'
      /\ \A v \in Workers \ {w} : ChainAt(v)'
  BY <1>1, ChainOthers
<1>3. ASSUME NEW k \in DOMAIN records', RecordKept(k) PROVE ChainRecord(k)'
  <2>1. /\ k \in DOMAIN records /\ records'[k].export = records[k].export
        /\ records[k].export \in DOMAIN csv /\ ChainRecord(k)
    BY <1>1, <1>3 DEF RecordKept, Grown, Basic, ChainInv
  <2>2. ASSUME NEW e \in DOMAIN csv, NEW last, last = total + 1
        PROVE  Debtors(e, last)' \subseteq Debtors(e, last)
    <3>1. Owes(j, e, last)' => Owes(j, e, last)
      BY <1>1, <2>2 DEF NoNew
    <3>2. QED
      BY <1>1, <3>1, DebtorsFewer
  <2>3. Debtors(records[k].export, total + 1)' \subseteq Debtors(records[k].export, total + 1)
    BY <1>1, <2>1, <2>2
  <2>4. QED
    BY <1>1, <1>3, <2>1, <2>3, ChainRecordKept DEF RecordKept
<1>4. QED
  BY <1>2, <1>3

-----------------------------------------------------------------------------
(* Steps of a handler that leave the CSV files alone.                      *)

LEMMA GoesOwes ==
    ASSUME Structure, Structure', NEW w \in Workers, Busy(w), Busy(w)',
           NEW j, j = worker[w].job, worker'[w].job = j, total' = total,
           Target(w)' = 0 \/ (Target(w)' = Target(w) /\ Reached(w) <= Reached(w)')
    PROVE  NoMore(j)
<1> SUFFICES ASSUME NEW e \in DOMAIN csv, NEW row \in 1..(total + 1), Owes(j, e, row)'
             PROVE  Owes(j, e, row)
  BY DEF NoMore
<1>1. WorkersOwe /\ WorkersOwe'
  BY OwesSelf, OwesSelfNext DEF Structure
<1>2. Target(w)' = e /\ Reached(w)' < row
  BY <1>1 DEF WorkersOwe
<1>3. e # 0 /\ row \in Nat
  BY Constants DEF Structure, Basic
<1>4. Reached(w) \in 0..total /\ total \in Nat
  BY ReachedType, WorkerFacts DEF Structure
<1>5. Reached(w)' \in Nat
  <2>1. ReachedInRange'
    BY ReachedNext DEF Structure
  <2>2. QED
    BY <1>4, <2>1 DEF ReachedInRange
<1>6. Target(w) = e /\ Reached(w) < row
  BY <1>2, <1>3, <1>4, <1>5
<1>7. QED
  BY <1>1, <1>6 DEF WorkersOwe

\* Once the only one that may change the files of an export is through with it,
\* nobody may.
LEMMA NoneLeft ==
    ASSUME Structure, Structure', OwedInv, faults = 0, NEW w \in Workers, Busy(w),
           NEW j, j = worker[w].job, Frame(w, j), DOMAIN jobs' = DOMAIN jobs,
           worker'[w].job = j, worker'[w].pc = "finish",
           NEW e \in DOMAIN csv, e = Target(w), NEW last, last = total + 1
    PROVE  Debtors(e, last)' = {}
<1>1. Basic /\ JobsType /\ WorkersType /\ e # 0 /\ WorkersOwe'
  <2>1. Basic /\ JobsType /\ WorkersType /\ WorkersOwe'
    BY OwesSelfNext DEF Structure
  <2>2. QED
    BY <2>1, RowsOwed
<1>2. ~Owes(j, e, last)'
  <2>1. Target(w)' = 0 /\ Busy(w)'
    BY DEF Target, Busy
  <2>2. QED
    BY <1>1, <2>1 DEF WorkersOwe
<1>3. j \in Debtors(e, last)
  BY <1>1, WorkerOwes
<1>4. ASSUME NEW i \in DOMAIN jobs, i # j PROVE ~Owes(i, e, last)'
  <2>1. i \notin Debtors(e, last)
    BY <1>3, <1>4, OnlyOne
  <2>2. ~Owes(i, e, last)
    BY <1>4, <2>1 DEF Debtors
  <2>3. QED
    BY <1>1, <1>4, <2>2, OwesOther
<1>5. QED
  BY <1>2, <1>4 DEF Debtors

\* A worker goes on with its job, and at most its archive or its record change.
LEMMA GoesOn ==
    ASSUME IInv, NEW w \in Workers, Opened(w), worker[w].pc # "finish",
           NEW next, Goes(w, next), Grown, Basic', UNCHANGED <<csv, archived, faults>>,
           next.pc \notin {"idle", "open"}, next.export = worker[w].export,
           next.record = worker[w].record, next.pc = "queue" => MorePages(Current(w).offset),
           DOMAIN zip' = DOMAIN zip, \A e \in DOMAIN zip : e # worker[w].export => zip'[e] = zip[e],
           zip'[worker[w].export] \in {Absent, zip[worker[w].export], csv[worker[w].export]},
           WrittenAt(w)', next.pc = "finish" \/ Reached(w) <= Reached(w)',
           faults = 0 => ChainAt(w)' /\ \A k \in DOMAIN records' : ChainRecord(k)' \/ RecordKept(k)
    PROVE  IInv'
<1> PICK j : j = worker[w].job
  OBVIOUS
<1>1. Structure /\ WrittenInv /\ OwedInv /\ ZipInv /\ ChainInv /\ total' = total
  BY DEF IInv, Goes
<1>2. /\ Structure' /\ Busy(w) /\ Frame(w, j) /\ DOMAIN jobs' = DOMAIN jobs
      /\ worker'[w] = next /\ Current(w)' = Current(w) /\ jobs' = jobs /\ next.job = j
  BY <1>1, GoesStructure DEF Goes
<1>3. DOMAIN zip = DOMAIN csv /\ FaultsGrow
  BY <1>1 DEF Structure, Basic, FaultsGrow
<1>4. WrittenInv'
  <2>1. FilesKept
    BY DEF FilesKept
  <2>2. QED
    BY <1>1, <1>2, <2>1, WrittenKept
<1>5. Target(w) = worker[w].export /\ Target(w) \in DOMAIN csv
  BY <1>1, TargetType DEF Structure
<1>6. Target(w)' = 0 \/ (Target(w)' = Target(w) /\ Reached(w) <= Reached(w)')
  <2>1. CASE next.pc = "finish"
    BY <1>2, <2>1 DEF Target
  <2>2. CASE next.pc # "finish"
    <3>1. Target(w)' = worker'[w].export
      BY <1>2, <2>2 DEF Target
    <3>2. QED
      BY <1>2, <1>5, <2>2, <3>1
  <2>3. QED
    BY <2>1, <2>2
<1>7. NoMore(j)
  BY <1>1, <1>2, <1>6, GoesOwes DEF Busy
<1>8. OwedInv'
  BY <1>1, <1>2, <1>3, <1>7, OwedQuiet
<1>9. ZipInv'
  BY <1>1, <1>3, ZipKept
<1>10. ChainInv'
  <2>1. OnlyFilesOf(Target(w))
    BY <1>3, <1>5 DEF OnlyFilesOf
  <2>2. NoNew(j)
    <3>1. total + 1 \in 1..(total + 1)
      BY <1>1, Constants DEF Structure, Basic
    <3>2. QED
      BY <1>1, <1>7, <3>1 DEF NoMore, NoNew
  <2>3. ChainWaiting(j)'
    <3>1. jobs[j].run.state = "active"
      BY <1>1, <1>2, WorkerFacts DEF Structure, Current
    <3>2. QED
      BY <1>2, <3>1 DEF ChainWaiting
  <2>4. QED
    BY <1>1, <1>2, <2>1, <2>2, <2>3, ChainKept
<1>11. QED
  BY <1>2, <1>4, <1>8, <1>9, <1>10 DEF IInv

\* A record whose status changes: the others stay.
LEMMA StatusSet ==
    ASSUME Basic, NEW k \in DOMAIN records, NEW status \in Statuses,
           records' = [records EXCEPT ![k].status = status],
           UNCHANGED <<total, attached, csv, zip, faults, archived>>
    PROVE  /\ Basic' /\ Grown /\ DOMAIN records' = DOMAIN records
           /\ records'[k].status = status
           /\ \A i \in DOMAIN records : i # k => records'[i] = records[i]
<1> DEFINE new == [records[k] EXCEPT !.status = status]
<1>1. records \in Seq(Record) /\ records[k] \in Record
  BY DEF Basic
<1>2. new \in Record /\ new.status = status /\ new.export = records[k].export
  BY <1>1 DEF Record
<1>3. records' = [records EXCEPT ![k] = new]
  BY Zenon
<1> HIDE DEF new
<1>4. /\ records' \in Seq(Record) /\ DOMAIN records' = DOMAIN records
      /\ \A i \in DOMAIN records : records'[i] = IF i = k THEN new ELSE records[i]
  BY <1>1, <1>2, <1>3
<1>5. \A i \in DOMAIN records : records'[i].export = records[i].export
  BY <1>2, <1>4
<1>6. Basic' /\ Grown
  BY <1>4, <1>5 DEF Basic, Grown, Rows
<1>7. QED
  BY <1>2, <1>4, <1>6

LEMMA SetStatusFacts ==
    ASSUME Basic, NEW k \in DOMAIN records, NEW status \in Statuses, SetStatus(k, status),
           UNCHANGED <<total, attached, csv, zip, faults, archived>>
    PROVE  /\ Basic' /\ Grown /\ DOMAIN records' = DOMAIN records
           /\ records'[k].status \in {"gone", status}
           /\ \A i \in DOMAIN records : i # k => records'[i] = records[i]
<1> DEFINE new == IF records[k].status = "gone" THEN "gone" ELSE status
<1>1. records' = [records EXCEPT ![k].status = new]
  BY DEF SetStatus
<1>2. new \in Statuses /\ new \in {"gone", status}
  BY DEF Statuses
<1> HIDE DEF new
<1>3. QED
  BY <1>1, <1>2, StatusSet

LEMMA KillStep ==
    ASSUME IInv, NEW w \in Workers, Kill(w)
    PROVE  IInv'
<1> DEFINE next == [worker[w] EXCEPT !.pc = "finish"]
           k == worker[w].record
<1>1. Structure /\ Basic /\ JobsType /\ WorkersType /\ OwedInv
  BY DEF IInv, Structure
<1>2. Opened(w) /\ Busy(w) /\ worker[w].pc = "kill"
  BY DEF Kill, Opened, Busy
<1>3. /\ worker' = [worker EXCEPT ![w] = next] /\ SetStatus(k, "RIP")
      /\ UNCHANGED <<total, jobs, attached, csv, zip, archived, faults>>
  BY DEF Kill, Goto, AfterKill, files
<1>4. /\ k \in DOMAIN records /\ records[k].export = worker[w].export
  BY <1>1, <1>2 DEF WorkersType, AtWork
<1>5. /\ Basic' /\ Grown /\ DOMAIN records' = DOMAIN records
      /\ \A i \in DOMAIN records : i # k => records'[i] = records[i]
  <2>1. "RIP" \in Statuses
    BY DEF Statuses
  <2>2. QED
    BY <1>1, <1>3, <1>4, <2>1, SetStatusFacts
<1>6. /\ next \in Station /\ next.pc = "finish" /\ next.job = worker[w].job
      /\ next.export = worker[w].export /\ next.record = worker[w].record
  BY <1>1, <1>2 DEF WorkersType, Station, Places
<1> HIDE DEF next, k
<1>7. Goes(w, next)
  BY <1>3, <1>6 DEF Goes
<1>8. /\ Structure' /\ Frame(w, worker[w].job) /\ DOMAIN jobs' = DOMAIN jobs
      /\ worker'[w] = next
  BY <1>1, <1>2, <1>5, <1>6, <1>7, GoesStructure
<1>9. Target(w) = worker[w].export /\ Target(w) \in DOMAIN csv
  BY <1>1, <1>2, TargetType
<1>10. ASSUME faults = 0, NEW i \in DOMAIN records' PROVE ChainRecord(i)' \/ RecordKept(i)
  <2>1. CASE i = k
    <3>1. records'[i].export = Target(w)
      BY <1>4, <1>5, <1>9, <2>1 DEF Grown
    <3>2. \A e \in DOMAIN csv : \A last : e = Target(w) /\ last = total + 1 => Debtors(e, last)' = {}
      <4> SUFFICES ASSUME NEW e \in DOMAIN csv, NEW last, e = Target(w), last = total + 1
                   PROVE  Debtors(e, last)' = {}
        OBVIOUS
      <4> PICK j : j = worker[w].job
        OBVIOUS
      <4>1. QED
        BY <1>1, <1>2, <1>6, <1>8, <1>10, NoneLeft
    <3>3. Debtors(records[i].export, total + 1)' = {}
      BY <1>3, <1>9, <3>1, <3>2
    <3>4. attached' = attached /\ zip' = zip /\ total' = total
      BY <1>3
    <3>5. CASE i \in attached
      <4>1. ChainRecord(i)
        BY <1>5, <1>10 DEF ChainInv, IInv
      <4>2. Debtors(Target(w), total + 1) = {}
        BY <1>4, <1>9, <2>1, <3>5, <4>1 DEF ChainRecord
      <4>3. QED
        BY <1>1, <1>2, <4>2, WorkerOwes
    <3>6. CASE i \notin attached
      BY <3>3, <3>4, <3>6 DEF ChainRecord
    <3>7. QED
      BY <3>5, <3>6
  <2>2. CASE i # k
    BY <1>3, <1>5, <2>2 DEF RecordKept
  <2>3. QED
    BY <2>1, <2>2
<1>11. WrittenAt(w)' /\ ChainAt(w)'
  BY <1>6, <1>8 DEF WrittenAt, ChainAt
<1>12. QED
  BY <1>1, <1>2, <1>3, <1>5, <1>6, <1>7, <1>10, <1>11, GoesOn

\* After the page: the next job is queued, or the file archived.
LEMMA AfterPage ==
    ASSUME Basic, JobsType, WorkersType, NEW w \in Workers, Busy(w)
    PROVE  /\ AfterAppend(w) \in {"queue", "zip"}
           /\ AfterAppend(w) = "queue" => MorePages(Current(w).offset)
           /\ AfterAppend(w) = "zip" => NextOffset(Current(w).offset) = total
           /\ NextOffset(Current(w).offset) \in Current(w).offset..total
           /\ Page(Current(w).offset) = <<>> =>
                  AfterAppend(w) = "zip" /\ Current(w).offset = total
<1>1. Current(w).offset \in Nat /\ Current(w).offset <= total /\ total \in Nat
  BY WorkerFacts
<1>2. /\ Len(Page(Current(w).offset)) = NextOffset(Current(w).offset) - Current(w).offset
      /\ NextOffset(Current(w).offset) \in Current(w).offset..total
      /\ MorePages(Current(w).offset) => Current(w).offset < NextOffset(Current(w).offset)
      /\ ~MorePages(Current(w).offset) => NextOffset(Current(w).offset) = total
  BY <1>1, PageFacts
<1>3. Page(Current(w).offset) = <<>> => Len(Page(Current(w).offset)) = 0
  OBVIOUS
<1>4. Page(Current(w).offset) = <<>> => NextOffset(Current(w).offset) = Current(w).offset
  BY <1>1, <1>2, <1>3
<1>5. QED
  BY <1>1, <1>2, <1>4 DEF AfterAppend

LEMMA FetchStep ==
    ASSUME IInv, NEW w \in Workers, Fetch(w)
    PROVE  IInv'
<1> DEFINE e == worker[w].export
           offset == Current(w).offset
           place == IF Page(offset) = <<>> THEN AfterAppend(w) ELSE "append"
           found == csv[e] # Absent
           next == [worker[w] EXCEPT !.pc = place, !.exists = found]
<1>1. Structure /\ Basic /\ JobsType /\ WorkersType /\ OwedInv /\ WrittenInv
  BY DEF IInv, Structure
<1>2. Opened(w) /\ Busy(w) /\ worker[w].pc = "fetch"
  BY DEF Fetch, Opened, Busy
<1>3. /\ worker' = [worker EXCEPT ![w] = next]
      /\ UNCHANGED <<total, jobs, records, attached, csv, zip, archived, faults>>
  BY DEF Fetch, files
<1>4. /\ place \in {"queue", "zip", "append"}
      /\ place = "queue" => MorePages(offset)
      /\ place # "append" => place = "zip" /\ offset = total
  BY <1>1, <1>2, AfterPage
<1>5. /\ worker[w].job \in DOMAIN jobs /\ total \in Nat /\ offset \in 0..total
      /\ e \in DOMAIN csv /\ e # 0
  BY <1>1, <1>2, WorkerFacts
<1> HIDE DEF place, found
<1>6. /\ next \in Station /\ next.pc = place /\ next.job = worker[w].job /\ next.exists = found
      /\ next.export = e /\ next.record = worker[w].record
  <2>1. place \in Places /\ found \in BOOLEAN
    BY <1>4 DEF Places, found
  <2>2. QED
    BY <1>1, <2>1 DEF WorkersType, Station
<1> HIDE DEF next, e, offset
<1>7. Goes(w, next) /\ Grown /\ Basic'
  BY <1>1, <1>3, <1>6 DEF Goes, Grown, Basic, Rows
<1>8. Structure' /\ worker'[w] = next /\ Current(w)' = Current(w)
  BY <1>1, <1>2, <1>4, <1>6, <1>7, GoesStructure DEF e, offset
<1>9. WrittenAt(w)'
  <2>1. ASSUME e \notin archived, place = "zip" PROVE Rows \subseteq Range(csv[e])
    <3>1. offset = total
      BY <1>4, <2>1
    <3>2. CASE Current(w).export = 0
      <4>1. offset = 0
        BY <1>1, <1>5, <3>2 DEF JobsType, Linked, Links, Basic, Current, offset
      <4>2. QED
        BY <3>1, <4>1 DEF Rows
    <3>3. CASE Current(w).export # 0
      <4>1. Current(w).export = e
        BY <1>1, <1>2, <3>3 DEF WorkersType, AtWork, e
      <4>2. 1..offset \subseteq Range(csv[e])
        BY <1>1, <1>5, <2>1, <3>3, <4>1 DEF WrittenInv, WrittenBefore, Current, offset
      <4>3. QED
        BY <3>1, <4>2 DEF Rows
    <3>4. QED
      BY <3>2, <3>3
  <2>2. place = "append" => found \/ csv[e] = Absent
    BY DEF found
  <2>3. archived' = archived /\ csv' = csv /\ Rows' = Rows
    BY <1>3 DEF Rows
  <2>4. place # "queue"
    BY <1>4
  <2>5. QED
    BY <1>4, <1>6, <1>8, <2>1, <2>2, <2>3, <2>4 DEF WrittenAt
<1>10. Reached(w) <= Reached(w)'
  <2>1. Reached(w) = offset
    BY <1>2 DEF Reached, offset
  <2>2. Reached(w)' = IF place = "append" THEN offset ELSE total
    BY <1>3, <1>4, <1>6, <1>8 DEF Reached, offset
  <2>3. QED
    BY <1>5, <2>1, <2>2
<1>11. ASSUME faults = 0 PROVE ChainAt(w)'
  <2>1. ChainAt(w) /\ Target(w) = e
    BY <1>1, <1>2, <1>11 DEF ChainInv, IInv, Target, e
  <2>2. csv[e] = Upto(offset)
    BY <1>2, <1>5, <2>1 DEF ChainAt, offset
  <2>3. Target(w)' = e
    BY <1>4, <1>6, <1>8 DEF Target
  <2>4. Upto(offset)' = Upto(offset) /\ Upto(total)' = Upto(total) /\ Current(w)'.offset = offset
    BY <1>3, <1>8 DEF Upto, offset
  <2>5. CASE place = "append"
    BY <1>3, <1>6, <1>8, <2>2, <2>3, <2>4, <2>5 DEF ChainAt, found, Upto
  <2>6. CASE place = "zip"
    BY <1>3, <1>4, <1>6, <1>8, <2>2, <2>3, <2>4, <2>6 DEF ChainAt
  <2>7. QED
    BY <1>4, <2>5, <2>6
<1>12. \A k \in DOMAIN records' : RecordKept(k)
  BY <1>3 DEF RecordKept
<1>13. QED
  BY <1>1, <1>2, <1>3, <1>4, <1>6, <1>7, <1>9, <1>10, <1>11, <1>12, GoesOn DEF e, offset

\* An archive that is written or removed: the others stay.
LEMMA ZipSet ==
    ASSUME Basic, NEW e \in DOMAIN csv, NEW s \in Seq(Rows), zip' = [zip EXCEPT ![e] = s],
           UNCHANGED <<total, records, attached, csv, archived>>, faults' \in 0..MaxFaults
    PROVE  /\ Basic' /\ Grown /\ DOMAIN zip' = DOMAIN zip /\ zip'[e] = s
           /\ \A f \in DOMAIN zip : f # e => zip'[f] = zip[f]
<1>1. /\ zip \in Seq(Seq(Rows)) /\ Len(zip) = Len(csv) /\ csv \in Seq(Seq(Rows))
      /\ e \in DOMAIN zip /\ Rows' = Rows
  BY DEF Basic, Rows
<1> DEFINE T == Seq(Rows)
<1>2. s \in T /\ zip \in Seq(T)
  BY <1>1
<1> HIDE DEF T
<1>3. zip' \in Seq(T) /\ Len(zip') = Len(zip) /\ DOMAIN zip' = DOMAIN zip
  BY <1>1, <1>2
<1>4. zip'[e] = s /\ \A f \in DOMAIN zip : f # e => zip'[f] = zip[f]
  BY <1>1
<1>5. zip' \in Seq(Seq(Rows))' /\ csv' \in Seq(Seq(Rows))'
  BY <1>1, <1>3 DEF T
<1>6. Basic' /\ Grown
  BY <1>1, <1>3, <1>5 DEF Basic, Grown
<1>7. QED
  BY <1>3, <1>4, <1>6

\* A worker that archives the file goes on.
LEMMA ArchiveStep ==
    ASSUME IInv, NEW w \in Workers, NEW s \in Seq(Rows), NEW place \in {"archive", "unlink"},
           \/ worker[w].pc = "zip" /\ place = "archive" /\ s = Absent
           \/ worker[w].pc = "archive" /\ place = "unlink" /\ s = csv[worker[w].export],
           zip' = [zip EXCEPT ![worker[w].export] = s], Goto(w, place),
           UNCHANGED <<total, jobs, records, attached, csv, archived, faults>>
    PROVE  IInv'
<1> DEFINE e == worker[w].export
           next == [worker[w] EXCEPT !.pc = place]
<1>1. Structure /\ Basic /\ JobsType /\ WorkersType /\ OwedInv /\ WrittenInv
  BY DEF IInv, Structure
<1>2. Opened(w) /\ Busy(w) /\ worker[w].pc \in {"zip", "archive"}
  BY DEF Opened, Busy
<1>3. e \in DOMAIN csv /\ e # 0 /\ total \in Nat
  BY <1>1, <1>2, WorkerFacts
<1>4. worker' = [worker EXCEPT ![w] = next]
  BY DEF Goto
<1>5. /\ next \in Station /\ next.pc = place /\ next.job = worker[w].job
      /\ next.export = e /\ next.record = worker[w].record
  BY <1>1 DEF WorkersType, Station, Places
<1> HIDE DEF next, e
<1>6. /\ Basic' /\ Grown /\ DOMAIN zip' = DOMAIN zip /\ zip'[e] = s
      /\ \A f \in DOMAIN zip : f # e => zip'[f] = zip[f]
  <2>1. faults' \in 0..MaxFaults
    BY <1>1 DEF Basic
  <2>2. zip' = [zip EXCEPT ![e] = s]
    BY DEF e
  <2>3. QED
    BY <1>1, <1>3, <2>1, <2>2, ZipSet
<1>7. Goes(w, next)
  BY <1>4, <1>5 DEF Goes
<1>8. Structure' /\ worker'[w] = next
  BY <1>1, <1>2, <1>5, <1>6, <1>7, GoesStructure DEF e
<1>9. WrittenAt(w)'
  <2>1. WrittenAt(w)
    BY <1>1 DEF WrittenInv
  <2>2. Rows' = Rows
    BY DEF Rows
  <2>3. QED
    BY <1>2, <1>5, <1>8, <2>1, <2>2 DEF WrittenAt, e
<1>10. Reached(w) <= Reached(w)'
  <2>1. Reached(w) = total
    BY <1>2 DEF Reached
  <2>2. Reached(w)' = total
    BY <1>5, <1>8 DEF Reached
  <2>3. QED
    BY <1>3, <2>1, <2>2
<1>11. ASSUME faults = 0 PROVE ChainAt(w)'
  <2>1. ChainAt(w) /\ Target(w) = e
    BY <1>2, <1>11 DEF ChainInv, IInv, Target, e
  <2>2. csv[e] = Upto(total)
    BY <1>2, <2>1 DEF ChainAt
  <2>3. Target(w)' = e
    BY <1>5, <1>8 DEF Target
  <2>4. Upto(total)' = Upto(total)
    BY DEF Upto
  <2>5. place = "unlink" => zip'[e] = Upto(total)
    BY <1>6, <2>2 DEF e
  <2>6. QED
    BY <1>5, <1>8, <2>2, <2>3, <2>4, <2>5 DEF ChainAt
<1>12. \A k \in DOMAIN records' : RecordKept(k)
  BY DEF RecordKept
<1>13. zip'[e] \in {Absent, zip[e], csv[e]}
  BY <1>6 DEF e
<1>14. QED
  BY <1>1, <1>2, <1>5, <1>6, <1>7, <1>9, <1>10, <1>11, <1>12, <1>13, GoesOn DEF e

LEMMA MarkDoneStep ==
    ASSUME IInv, NEW w \in Workers, MarkDone(w)
    PROVE  IInv'
<1> DEFINE k == worker[w].record
           next == [worker[w] EXCEPT !.pc = "attach"]
<1>1. Structure /\ Basic /\ JobsType /\ WorkersType /\ OwedInv
  BY DEF IInv, Structure
<1>2. Opened(w) /\ Busy(w) /\ worker[w].pc = "done"
  BY DEF MarkDone, Opened, Busy
<1>3. /\ worker' = [worker EXCEPT ![w] = next]
      /\ records' = records \/ SetStatus(k, "DON")
      /\ UNCHANGED <<total, jobs, attached, csv, zip, archived, faults>>
  BY DEF MarkDone, Goto, FinalStatus, files
<1>4. k \in DOMAIN records
  BY <1>1, <1>2 DEF WorkersType, AtWork
<1>5. /\ Basic' /\ Grown /\ DOMAIN records' = DOMAIN records
      /\ \A i \in DOMAIN records : records'[i].status = "RIP" => records[i].status = "RIP"
  <2>1. CASE records' = records
    BY <1>1, <1>3, <2>1 DEF Basic, Grown, Rows
  <2>2. CASE SetStatus(k, "DON")
    <3>1. "DON" \in Statuses
      BY DEF Statuses
    <3>2. /\ Basic' /\ Grown /\ DOMAIN records' = DOMAIN records
          /\ records'[k].status \in {"gone", "DON"}
          /\ \A i \in DOMAIN records : i # k => records'[i] = records[i]
      BY <1>1, <1>3, <1>4, <2>2, <3>1, SetStatusFacts
    <3>3. QED
      BY <3>2
  <2>3. QED
    BY <1>3, <2>1, <2>2
<1>6. /\ next \in Station /\ next.pc = "attach" /\ next.job = worker[w].job
      /\ next.export = worker[w].export /\ next.record = worker[w].record
  BY <1>1, <1>2 DEF WorkersType, Station, Places
<1> HIDE DEF next, k
<1>7. Goes(w, next)
  BY <1>3, <1>6 DEF Goes
<1>8. Structure' /\ worker'[w] = next
  BY <1>1, <1>2, <1>5, <1>6, <1>7, GoesStructure
<1>9. WrittenAt(w)'
  BY <1>6, <1>8 DEF WrittenAt
<1>10. Reached(w) = 0 /\ Reached(w)' = 0
  BY <1>2, <1>6, <1>8 DEF Reached
<1>11. ASSUME faults = 0 PROVE ChainAt(w)'
  <2>1. ChainAt(w) /\ Target(w) = worker[w].export
    BY <1>2, <1>11 DEF ChainInv, IInv, Target
  <2>2. zip[worker[w].export] = Upto(total)
    BY <1>2, <2>1 DEF ChainAt
  <2>3. Target(w)' = worker[w].export
    BY <1>6, <1>8 DEF Target
  <2>4. QED
    BY <1>3, <1>6, <1>8, <2>2, <2>3 DEF ChainAt, Upto
<1>12. \A i \in DOMAIN records' : RecordKept(i)
  BY <1>3, <1>5 DEF RecordKept
<1>13. QED
  BY <1>1, <1>2, <1>3, <1>5, <1>6, <1>7, <1>9, <1>10, <1>11, <1>12, GoesOn

LEMMA AttachStep ==
    ASSUME IInv, NEW w \in Workers, Attach(w), worker[w].record \notin attached
    PROVE  IInv'
<1> DEFINE k == worker[w].record
           next == [worker[w] EXCEPT !.pc = "finish"]
<1>1. Structure /\ Basic /\ JobsType /\ WorkersType /\ OwedInv
  BY DEF IInv, Structure
<1>2. Opened(w) /\ Busy(w) /\ worker[w].pc = "attach"
  BY DEF Attach, Opened, Busy
<1>3. /\ worker' = [worker EXCEPT ![w] = next]
      /\ attached' = attached \cup {k}
      /\ UNCHANGED <<total, jobs, records, csv, zip, archived, faults>>
  BY DEF Attach, Goto, files
<1>4. /\ k \in DOMAIN records /\ records[k].export = worker[w].export
  BY <1>1, <1>2 DEF WorkersType, AtWork
<1>5. Basic' /\ Grown
  BY <1>1, <1>3, <1>4 DEF Basic, Grown, Rows
<1>6. /\ next \in Station /\ next.pc = "finish" /\ next.job = worker[w].job
      /\ next.export = worker[w].export /\ next.record = worker[w].record
  BY <1>1, <1>2 DEF WorkersType, Station, Places
<1> HIDE DEF next, k
<1>7. Goes(w, next)
  BY <1>3, <1>6 DEF Goes
<1>8. /\ Structure' /\ Frame(w, worker[w].job) /\ DOMAIN jobs' = DOMAIN jobs
      /\ worker'[w] = next
  BY <1>1, <1>2, <1>5, <1>6, <1>7, GoesStructure
<1>9. Target(w) = worker[w].export /\ Target(w) \in DOMAIN csv
  BY <1>1, <1>2, TargetType
<1>10. ASSUME faults = 0, NEW i \in DOMAIN records' PROVE ChainRecord(i)' \/ RecordKept(i)
  <2>1. CASE i = k
    <3>1. records'[i].export = Target(w)
      BY <1>3, <1>4, <1>9, <2>1
    <3>2. \A e \in DOMAIN csv : \A last : e = Target(w) /\ last = total + 1 => Debtors(e, last)' = {}
      <4> SUFFICES ASSUME NEW e \in DOMAIN csv, NEW last, e = Target(w), last = total + 1
                   PROVE  Debtors(e, last)' = {}
        OBVIOUS
      <4> PICK j : j = worker[w].job
        OBVIOUS
      <4>1. QED
        BY <1>1, <1>2, <1>6, <1>8, <1>10, NoneLeft
    <3>3. Debtors(records[i].export, total + 1)' = {}
      BY <1>3, <1>9, <3>1, <3>2
    <3>4. zip[Target(w)] = Upto(total)
      <4>1. ChainAt(w)
        BY <1>10 DEF ChainInv, IInv
      <4>2. QED
        BY <1>2, <4>1 DEF ChainAt
    <3>5. QED
      BY <1>3, <3>1, <3>3, <3>4 DEF ChainRecord, Upto
  <2>2. CASE i # k
    BY <1>3, <2>2 DEF RecordKept
  <2>3. QED
    BY <2>1, <2>2
<1>11. WrittenAt(w)' /\ ChainAt(w)'
  BY <1>6, <1>8 DEF WrittenAt, ChainAt
<1>12. QED
  BY <1>1, <1>2, <1>3, <1>5, <1>6, <1>7, <1>10, <1>11, GoesOn

-----------------------------------------------------------------------------
(* Steps that end a run of a handler.                                      *)

\* A worker that left its job owes nothing: only the job itself may.
LEMMA LeavesOwes ==
    ASSUME Structure, NEW w \in Workers, NEW j, j # 0, Frame(w, j), worker'[w] = Idle,
           NEW e, NEW row
    PROVE  Owes(j, e, row)' <=> /\ jobs'[j].run.state = "waiting"
                                /\ jobs[j].export = e /\ jobs[j].offset < row
<1>1. \A v \in Workers : worker'[v].job # j
  BY DEF Frame, Idle
<1>2. jobs'[j].export = jobs[j].export /\ jobs'[j].offset = jobs[j].offset
  BY DEF Frame, JobsGrown
<1>3. QED
  BY <1>1, <1>2 DEF Owes

LEMMA LeavesOn ==
    ASSUME IInv, NEW w \in Workers, Busy(w), NEW j, j = worker[w].job, NEW run, Leaves(w, run),
           UNCHANGED <<records, attached, csv, archived>>, Grown, Basic', FaultsGrow,
           DOMAIN zip' = DOMAIN zip,
           \A f \in DOMAIN zip : zip'[f] = zip[f] \/ (f = Target(w) /\ zip'[f] = Absent),
           OwedInv', faults' = 0 => NoNew(j) /\ ChainWaiting(j)'
    PROVE  IInv'
<1>1. Structure /\ WrittenInv /\ OwedInv /\ ZipInv /\ ChainInv /\ total' = total
  BY DEF IInv, Leaves
<1>2. Structure' /\ Frame(w, j) /\ DOMAIN jobs' = DOMAIN jobs /\ worker'[w] = Idle
  BY <1>1, LeavesStructure
<1>3. DOMAIN zip = DOMAIN csv
  BY <1>1 DEF Structure, Basic
<1>4. WrittenAt(w)' /\ ChainAt(w)'
  BY <1>2 DEF WrittenAt, ChainAt, Idle
<1>5. WrittenInv'
  <2>1. FilesKept
    BY DEF FilesKept
  <2>2. QED
    BY <1>1, <1>2, <1>4, <2>1, WrittenKept
<1>6. ZipInv'
  BY <1>1, ZipKept
<1>7. ChainInv'
  <2>1. CASE faults' = 0
    <3>1. OnlyFilesOf(Target(w))
      BY <1>3 DEF OnlyFilesOf
    <3>2. faults = 0
      BY <2>1 DEF FaultsGrow
    <3>3. \A k \in DOMAIN records' : RecordKept(k)
      BY DEF RecordKept
    <3>4. QED
      BY <1>1, <1>2, <1>4, <2>1, <3>1, <3>2, <3>3, ChainKept
  <2>2. CASE faults' # 0
    BY <2>2 DEF ChainInv
  <2>3. QED
    BY <2>1, <2>2
<1>8. QED
  BY <1>2, <1>5, <1>6, <1>7 DEF IInv

\* Handlers end normally, and their job owes nothing any more.
LEMMA FinishStep ==
    ASSUME IInv, NEW w \in Workers, Finish(w)
    PROVE  IInv'
<1> PICK j : j = worker[w].job
  OBVIOUS
<1> DEFINE run == Completed(jobs[j].run)
<1>1. Structure /\ Basic /\ JobsType /\ WorkersType /\ OwedInv /\ Busy(w)
  BY DEF IInv, Structure, Finish, Busy
<1>2. j \in DOMAIN jobs /\ j # 0 /\ Current(w).run \in Run
  BY <1>1, WorkerFacts
<1>3. run \in Run /\ run.state = "completed"
  BY <1>2, RunType DEF Current
<1>4. /\ jobs' = [jobs EXCEPT ![worker[w].job].run = run] /\ worker' = [worker EXCEPT ![w] = Idle]
      /\ UNCHANGED <<total, records, attached, csv, zip, archived, faults>>
  BY DEF Finish, files
<1> HIDE DEF run
<1>5. Leaves(w, run) /\ Grown /\ Basic' /\ FaultsGrow
  BY <1>1, <1>3, <1>4 DEF Leaves, Grown, Basic, FaultsGrow, Rows
<1>6. /\ Structure' /\ Frame(w, j) /\ DOMAIN jobs' = DOMAIN jobs /\ jobs'[j].run = run
      /\ worker'[w] = Idle
  BY <1>1, <1>5, LeavesStructure
<1>7. \A e, row : ~Owes(j, e, row)'
  BY <1>1, <1>2, <1>3, <1>6, LeavesOwes
<1>8. NoMore(j) /\ NoNew(j) /\ ChainWaiting(j)'
  BY <1>3, <1>6, <1>7 DEF NoMore, NoNew, ChainWaiting
<1>9. OwedInv'
  BY <1>1, <1>4, <1>5, <1>6, <1>8, OwedQuiet
<1>10. QED
  BY <1>1, <1>4, <1>5, <1>8, <1>9, LeavesOn

\* A call fails or the worker dies, and the job may start again.
LEMMA FaultStep ==
    ASSUME IInv, NEW w \in Workers, Busy(w), faults < MaxFaults, faults' = faults + 1,
           NEW run \in Run, Leaves(w, run), UNCHANGED <<records, attached, csv, archived>>,
           \/ zip' = zip
           \/ worker[w].pc \in {"archive", "unlink"} /\ zip' = [zip EXCEPT ![worker[w].export] = Absent]
    PROVE  IInv'
<1> PICK j : j = worker[w].job
  OBVIOUS
<1>1. Structure /\ Basic /\ JobsType /\ WorkersType /\ OwedInv /\ total' = total
  BY DEF IInv, Structure, Leaves
<1>2. faults' \in 0..MaxFaults /\ faults \in Nat /\ faults' # 0 /\ FaultsGrow
  BY <1>1, Constants DEF Basic, FaultsGrow
<1>3. /\ Basic' /\ Grown /\ DOMAIN zip' = DOMAIN zip
      /\ \A f \in DOMAIN zip : zip'[f] = zip[f] \/ (f = Target(w) /\ zip'[f] = Absent)
  <2>1. CASE zip' = zip
    BY <1>1, <1>2, <2>1 DEF Basic, Grown, Rows
  <2>2. CASE worker[w].pc \in {"archive", "unlink"} /\ zip' = [zip EXCEPT ![worker[w].export] = Absent]
    <3> DEFINE e == worker[w].export
    <3>1. e \in DOMAIN csv /\ e = Target(w)
      BY <1>1, <2>2, TargetType DEF Opened
    <3>2. Absent \in Seq(Rows) /\ zip' = [zip EXCEPT ![e] = Absent]
      BY <2>2 DEF Absent
    <3> HIDE DEF e
    <3>3. /\ Basic' /\ Grown /\ DOMAIN zip' = DOMAIN zip /\ zip'[e] = Absent
          /\ \A f \in DOMAIN zip : f # e => zip'[f] = zip[f]
      BY <1>1, <1>2, <3>1, <3>2, ZipSet
    <3>4. QED
      BY <3>1, <3>3
  <2>3. QED
    BY <2>1, <2>2
<1>4. Frame(w, j) /\ DOMAIN jobs' = DOMAIN jobs
  BY <1>1, <1>3, LeavesStructure
<1>5. OwedInv'
  BY <1>1, <1>2, <1>4, OwedFault
<1>6. QED
  BY <1>1, <1>2, <1>3, <1>5, LeavesOn

\* A handler throws: nothing is owed for another export.
LEMMA ThrowLeaves ==
    ASSUME IInv, NEW w \in Workers, NEW j, j = worker[w].job, Opened(w), worker[w].pc # "finish",
           Throw(w), UNCHANGED <<total, faults>>, Grown, Basic'
    PROVE  /\ Leaves(w, Tried(jobs[j].run)) /\ Structure' /\ Frame(w, j)
           /\ DOMAIN jobs' = DOMAIN jobs /\ j \in DOMAIN jobs /\ FaultsGrow
           /\ \A e \in DOMAIN csv : \A row : Owes(j, e, row)' =>
                  e = Target(w) /\ e = jobs[j].export /\ jobs[j].offset < row
<1> DEFINE run == Tried(jobs[j].run)
<1>1. Structure /\ Basic /\ JobsType /\ WorkersType /\ Busy(w)
  BY DEF IInv, Structure, Opened, Busy
<1>2. j \in DOMAIN jobs /\ j # 0 /\ Current(w).run \in Run
  BY <1>1, WorkerFacts
<1>3. run \in Run
  BY <1>2, RunType DEF Current
<1>4. jobs' = [jobs EXCEPT ![worker[w].job].run = run] /\ worker' = [worker EXCEPT ![w] = Idle]
  BY DEF Throw
<1> HIDE DEF run
<1>5. Leaves(w, run)
  BY <1>3, <1>4 DEF Leaves
<1>6. Structure' /\ Frame(w, j) /\ DOMAIN jobs' = DOMAIN jobs /\ worker'[w] = Idle
  BY <1>1, <1>5, LeavesStructure
<1>7. \A e, row : Owes(j, e, row)' => jobs[j].export = e /\ jobs[j].offset < row
  BY <1>1, <1>2, <1>6, LeavesOwes
<1>8. jobs[j].export \in {0, Target(w)}
  <2>1. Target(w) = worker[w].export
    BY <1>1, TargetType
  <2>2. QED
    BY <1>1, <2>1 DEF WorkersType, AtWork, Busy, Current
<1>9. 0 \notin DOMAIN csv
  BY <1>1 DEF Basic
<1>10. FaultsGrow
  BY <1>1, Constants DEF Basic, FaultsGrow
<1>11. QED
  BY <1>2, <1>5, <1>6, <1>7, <1>8, <1>9, <1>10 DEF run

\* The archive was attached before: only after a failure.
LEMMA AttachThrows ==
    ASSUME IInv, NEW w \in Workers, Attach(w), worker[w].record \in attached
    PROVE  IInv'
<1> PICK j : j = worker[w].job
  OBVIOUS
<1>1. Structure /\ Basic /\ JobsType /\ WorkersType /\ OwedInv
  BY DEF IInv, Structure
<1>2. Opened(w) /\ Busy(w) /\ worker[w].pc = "attach"
  BY DEF Attach, Opened, Busy
<1>3. Throw(w) /\ UNCHANGED <<total, records, attached, csv, zip, archived, faults>>
  BY DEF Attach, files
<1>4. Basic' /\ Grown
  BY <1>1, <1>3 DEF Basic, Grown, Rows
<1>5. /\ Leaves(w, Tried(jobs[j].run)) /\ Structure' /\ Frame(w, j)
      /\ DOMAIN jobs' = DOMAIN jobs /\ j \in DOMAIN jobs /\ FaultsGrow
      /\ \A e \in DOMAIN csv : \A row : Owes(j, e, row)' =>
             e = Target(w) /\ e = jobs[j].export /\ jobs[j].offset < row
  BY <1>2, <1>3, <1>4, ThrowLeaves
<1>6. NoMore(j)
  <2> SUFFICES ASSUME NEW e \in DOMAIN csv, NEW row \in 1..(total + 1), Owes(j, e, row)'
               PROVE  Owes(j, e, row)
    BY DEF NoMore
  <2>1. e = Target(w)
    BY <1>5
  <2>2. Reached(w) = 0 /\ 0 < row
    BY <1>1, <1>2, Constants DEF Reached, Basic
  <2>3. QED
    BY <2>1, <2>2 DEF Owes
<1>7. OwedInv'
  BY <1>1, <1>3, <1>5, <1>6, OwedQuiet
<1>8. faults # 0
  <2> SUFFICES ASSUME faults = 0 PROVE FALSE
    OBVIOUS
  <2>1. ChainRecord(worker[w].record) /\ records[worker[w].record].export = worker[w].export
    BY <1>1, <1>2 DEF IInv, ChainInv, WorkersType, AtWork
  <2>2. Debtors(Target(w), total + 1) = {}
    BY <1>2, <2>1 DEF ChainRecord, Target
  <2>3. QED
    BY <1>1, <1>2, <2>2, WorkerOwes
<1>9. QED
  BY <1>1, <1>2, <1>3, <1>4, <1>5, <1>7, <1>8, LeavesOn

\* The file is not there to be archived or unlinked: only after a failure, or
\* when there are no rows.
LEMMA FileMissing ==
    ASSUME IInv, NEW w \in Workers, worker[w].pc \in {"archive", "unlink"},
           csv[worker[w].export] = Absent, Throw(w),
           zip' = [zip EXCEPT ![worker[w].export] = Absent],
           UNCHANGED <<total, records, attached, csv, archived, faults>>
    PROVE  IInv'
<1> PICK j : j = worker[w].job
  OBVIOUS
<1> PICK d : d = worker[w].export
  OBVIOUS
<1>1. Structure /\ Basic /\ JobsType /\ WorkersType /\ OwedInv
  BY DEF IInv, Structure
<1>2. Opened(w) /\ Busy(w)
  BY DEF Opened, Busy
<1>3. d \in DOMAIN csv /\ d = Target(w) /\ csv'[d] = Absent
  BY <1>1, <1>2, TargetType
<1>4. /\ Basic' /\ Grown /\ DOMAIN zip' = DOMAIN zip /\ zip'[d] = Absent
      /\ \A f \in DOMAIN zip : f # d => zip'[f] = zip[f]
  <2>1. Absent \in Seq(Rows) /\ zip' = [zip EXCEPT ![d] = Absent] /\ faults' \in 0..MaxFaults
    BY <1>1 DEF Absent, Basic
  <2>2. QED
    BY <1>1, <1>3, <2>1, ZipSet
<1>5. /\ Leaves(w, Tried(jobs[j].run)) /\ Structure' /\ Frame(w, j)
      /\ DOMAIN jobs' = DOMAIN jobs /\ j \in DOMAIN jobs /\ FaultsGrow
      /\ \A e \in DOMAIN csv : \A row : Owes(j, e, row)' =>
             e = Target(w) /\ e = jobs[j].export /\ jobs[j].offset < row
  BY <1>2, <1>4, ThrowLeaves
<1>6. total \in Nat /\ Reached(w) = total
  BY <1>1, Constants DEF Basic, Reached
<1>7. \A e \in DOMAIN csv : \A row : Owes(j, e, row)' => e = d
  BY <1>3, <1>5
<1>8. ASSUME NEW last, last = total + 1 PROVE Owes(j, d, last)
  <2>1. Reached(w) < last
    BY <1>6, <1>8
  <2>2. QED
    BY <1>3, <2>1 DEF Owes
<1>9. NoNew(j)
  <2> SUFFICES ASSUME NEW e \in DOMAIN csv, NEW last, last = total + 1, Owes(j, e, last)'
               PROVE  Owes(j, e, last)
    BY DEF NoNew
  <2>1. QED
    BY <1>7, <1>8
<1>10. OwedInv'
  <2> SUFFICES ASSUME NEW e \in DOMAIN csv, NEW row \in 1..(total + 1)
               PROVE  Occurrences(csv'[e], row) + Cardinality(Debtors(e, row)') <= faults' + 1
    BY DEF OwedInv
  <2>1. CASE e = d
    <3>1. Owes(j, e, total + 1)' => Owes(j, e, total + 1)
      BY <1>9 DEF NoNew
    <3>2. QED
      BY <1>1, <1>3, <1>5, <2>1, <3>1, OwedEmptied
  <2>2. CASE e # d
    <3>1. ~Owes(j, e, row)'
      BY <1>7, <2>2
    <3>2. QED
      BY <1>1, <1>5, <3>1, OwedSame
  <2>3. QED
    BY <2>1, <2>2
<1>11. ASSUME faults = 0 PROVE ChainWaiting(j)'
  <2>1. csv[d] = Upto(total)
    BY <1>1, <1>3, <1>11 DEF IInv, ChainInv, ChainAt
  <2>2. total = 0
    <3>1. Len(Upto(total)) = total /\ Len(Absent) = 0
      BY <1>6 DEF Upto, Absent
    <3>2. QED
      BY <1>3, <2>1, <3>1
  <2>3. jobs[j].export = 0
    <3>1. jobs[j].offset \in 0..total
      BY <1>1, <1>5, JobFacts
    <3>2. QED
      BY <1>1, <1>5, <2>2, <3>1 DEF JobsType, Linked, Links
  <2>4. jobs'[j].export = 0
    BY <1>5, <2>3 DEF Frame, JobsGrown
  <2>5. QED
    BY <2>4 DEF ChainWaiting
<1>12. QED
  BY <1>1, <1>2, <1>3, <1>4, <1>5, <1>9, <1>10, <1>11, LeavesOn

-----------------------------------------------------------------------------
(* Steps of no handler.                                                    *)

\* A job is taken: what it owed its worker owes.
LEMMA TakeStep ==
    ASSUME IInv, NEW w \in Workers, Take(w)
    PROVE  IInv'
<1>1. Structure /\ Basic /\ JobsType /\ WorkersType /\ WrittenInv /\ OwedInv /\ ZipInv /\ ChainInv
  BY DEF IInv, Structure
<1>2. PICK j \in DOMAIN jobs :
          /\ jobs[j].run.state = "waiting" /\ jobs' = [jobs EXCEPT ![j].run = Started(@)]
          /\ worker' = [worker EXCEPT ![w] = [Idle EXCEPT !.pc = "open", !.job = j]]
  BY DEF Take
<1>3. worker[w].pc = "idle" /\ ~Busy(w) /\ UNCHANGED <<total, records, attached, files, faults>>
  BY DEF Take, Busy
<1>4. /\ Structure' /\ Frame(w, j) /\ DOMAIN jobs' = DOMAIN jobs
      /\ worker'[w].pc = "open" /\ worker'[w].job = j
  BY <1>1, <1>2, <1>3, TakeStructure
<1>5. UNCHANGED <<total, records, attached, csv, zip, archived, faults>>
  BY <1>3 DEF files
<1>6. Grown /\ FaultsGrow
  BY <1>1, <1>5, Constants DEF Grown, Basic, FaultsGrow
<1>7. /\ Target(w)' = jobs[j].export /\ Reached(w)' = jobs[j].offset
      /\ Current(w)'.offset = jobs[j].offset
  <2>1. Current(w)'.export = jobs[j].export /\ Current(w)'.offset = jobs[j].offset
    BY <1>4 DEF Current, Frame, JobsGrown
  <2>2. QED
    BY <1>4, <2>1 DEF Target, Reached
<1>8. jobs'[j].run.state = "active"
  <2>1. Busy(w)' /\ Structure'
    BY <1>4 DEF Busy
  <2>2. QED
    BY <1>4, <2>1 DEF Structure, WorkersType, AtWork, Busy, Current
<1>9. NoMore(j) /\ NoNew(j)
  <2>1. ASSUME NEW e, NEW row, Owes(j, e, row)' PROVE Owes(j, e, row)
    <3>1. WorkersOwe' /\ Busy(w)'
      BY <1>4, OwesSelfNext DEF Structure, Busy
    <3>2. Target(w)' = e /\ Reached(w)' < row
      BY <1>4, <2>1, <3>1 DEF WorkersOwe
    <3>3. QED
      BY <1>2, <1>7, <3>2 DEF Owes
  <2>2. ASSUME NEW e \in DOMAIN csv, Owes(j, e, total + 1)' PROVE Owes(j, e, total + 1)
    BY <1>5, <2>1, <2>2
  <2>3. QED
    BY <2>1, <2>2 DEF NoMore, NoNew
<1>10. WrittenInv'
  <2>1. FilesKept /\ WrittenAt(w)'
    BY <1>4, <1>5 DEF FilesKept, WrittenAt
  <2>2. QED
    BY <1>1, <1>4, <2>1, WrittenKept
<1>11. OwedInv'
  BY <1>1, <1>4, <1>5, <1>6, <1>9, OwedQuiet
<1>12. ZipInv'
  BY <1>1, <1>5, <1>6, ZipKept
<1>13. ChainInv'
  <2>1. faults = 0 => ChainAt(w)'
    <3>1. faults = 0 => ChainWaiting(j)
      BY <1>1 DEF ChainInv
    <3>2. QED
      BY <1>2, <1>4, <1>5, <1>7, <3>1 DEF ChainAt, ChainWaiting, Upto
  <2>2. ChainWaiting(j)'
    BY <1>8 DEF ChainWaiting
  <2>3. OnlyFilesOf(Target(w)) /\ \A k \in DOMAIN records' : RecordKept(k)
    BY <1>5 DEF OnlyFilesOf, RecordKept
  <2>4. QED
    BY <1>1, <1>3, <1>4, <1>5, <1>6, <1>9, <2>1, <2>2, <2>3, ChainKept
<1>14. QED
  BY <1>4, <1>10, <1>11, <1>12, <1>13 DEF IInv

\* The user, or nobody, does something: the jobs of the exports and their
\* files stay.
LEMMA Untouched ==
    ASSUME IInv, UNCHANGED <<total, attached, csv, zip, worker, faults, archived>>,
           Grown, Basic', JobsType', DOMAIN jobs \subseteq DOMAIN jobs',
           \A i \in DOMAIN jobs : jobs'[i] = jobs[i],
           \A i \in DOMAIN jobs' : i \notin DOMAIN jobs => jobs'[i].export = 0,
           DOMAIN records' = DOMAIN records,
           \A k \in DOMAIN records : records'[k].status = "RIP" => records[k].status = "RIP"
    PROVE  IInv'
<1>1. /\ Structure /\ Basic /\ JobsType /\ WorkersType /\ FirstAlone
      /\ WrittenInv /\ OwedInv /\ ZipInv /\ ChainInv
  BY DEF IInv, Structure
<1>2. 0 \notin DOMAIN csv /\ 0 \notin DOMAIN jobs'
  BY <1>1 DEF Basic, JobsType
<1>3. ASSUME NEW v \in Workers, Busy(v)
      PROVE  /\ worker[v].job \in DOMAIN jobs /\ Current(v)' = Current(v)
             /\ Target(v)' = Target(v) /\ Reached(v)' = Reached(v)
             /\ NextOffset(Current(v).offset)' = NextOffset(Current(v).offset)
  <2>1. worker[v].job \in DOMAIN jobs
    BY <1>1, <1>3, WorkerFacts
  <2>2. Current(v)' = Current(v)
    BY <2>1 DEF Current
  <2>3. NextOffset(Current(v).offset)' = NextOffset(Current(v).offset)
    BY <2>2 DEF NextOffset, Page
  <2>4. QED
    BY <2>1, <2>2, <2>3, TargetKept
<1>4. WorkersType'
  <2>1. ASSUME NEW v \in Workers PROVE AtWork(v)'
    <3>1. AtWork(v)
      BY <1>1 DEF WorkersType
    <3>2. CASE Busy(v)
      <4>1. /\ worker[v].job \in DOMAIN jobs /\ Current(v)' = Current(v)
            /\ NextOffset(Current(v).offset)' = NextOffset(Current(v).offset)
        BY <1>3, <3>2
      <4>2. MorePages(Current(v).offset)' <=> MorePages(Current(v).offset)
        BY <4>1 DEF MorePages
      <4>3. QED
        BY <3>1, <3>2, <4>1, <4>2 DEF AtWork, Grown, Busy, Opened
    <3>3. CASE ~Busy(v)
      BY <3>1, <3>3 DEF AtWork, Busy
    <3>4. QED
      BY <3>2, <3>3
  <2>2. QED
    BY <1>1, <2>1 DEF WorkersType, Busy
<1>5. FirstAlone'
  <2> SUFFICES ASSUME NEW x \in Workers, First(x)'
               PROVE  /\ \A i \in DOMAIN jobs' : jobs'[i].export # worker[x].export
                      /\ \A v \in Workers \ {x} : worker[v].export # worker[x].export
    BY DEF FirstAlone
  <2>1. Busy(x) /\ Opened(x)
    BY DEF First, Opened, Busy
  <2>2. First(x)
    BY <1>3, <2>1 DEF First, Opened
  <2>3. worker[x].export # 0
    BY <1>1, <2>1, WorkerFacts
  <2>4. QED
    BY <1>1, <2>2, <2>3 DEF FirstAlone
<1>6. Structure'
  BY <1>4, <1>5 DEF Structure
<1>7. WrittenInv'
  <2>1. WrittenBefore'
    BY <1>1 DEF WrittenInv, WrittenBefore
  <2>2. ASSUME NEW v \in Workers PROVE WrittenAt(v)'
    <3>1. WrittenAt(v)
      BY <1>1 DEF WrittenInv
    <3>2. CASE Busy(v)
      BY <1>3, <3>1, <3>2 DEF WrittenAt, Rows
    <3>3. CASE ~Busy(v)
      BY <3>3 DEF WrittenAt, Busy
    <3>4. QED
      BY <3>2, <3>3
  <2>3. QED
    BY <2>1, <2>2 DEF WrittenInv
<1>8. ASSUME NEW e \in DOMAIN csv, NEW row PROVE Debtors(e, row)' = Debtors(e, row)
  <2>1. \A v \in Workers : ~Busy(v) => worker[v].job = 0
    BY <1>1 DEF WorkersType, AtWork, Busy, Idle
  <2>2. ASSUME NEW i \in DOMAIN jobs PROVE Owes(i, e, row)' <=> Owes(i, e, row)
    <3>1. i # 0
      BY <1>2
    <3>2. \A v \in Workers : worker[v].job = i => Target(v)' = Target(v) /\ Reached(v)' = Reached(v)
      BY <1>3, <2>1, <3>1
    <3>3. QED
      BY <3>2 DEF Owes
  <2>3. ASSUME NEW i \in DOMAIN jobs', i \notin DOMAIN jobs PROVE ~Owes(i, e, row)'
    <3>1. \A v \in Workers : worker[v].job # i
      BY <1>2, <1>3, <2>1, <2>3
    <3>2. QED
      BY <1>2, <2>3, <3>1 DEF Owes
  <2>4. QED
    BY <2>2, <2>3 DEF Debtors
<1>9. OwedInv'
  BY <1>1, <1>8 DEF OwedInv
<1>10. ZipInv'
  BY <1>1 DEF ZipInv, Rows
<1>11. ChainInv'
  <2> SUFFICES ASSUME faults = 0
               PROVE  /\ \A i \in DOMAIN jobs' : ChainWaiting(i)'
                      /\ \A v \in Workers : ChainAt(v)'
                      /\ \A k \in DOMAIN records' : ChainRecord(k)'
    BY DEF ChainInv
  <2>1. /\ \A i \in DOMAIN jobs : ChainWaiting(i)
        /\ \A v \in Workers : ChainAt(v)
        /\ \A k \in DOMAIN records : ChainRecord(k)
    BY <1>1 DEF ChainInv
  <2>2. \A i \in DOMAIN jobs' : ChainWaiting(i)'
    BY <2>1 DEF ChainWaiting, Upto
  <2>3. ASSUME NEW v \in Workers PROVE ChainAt(v)'
    <3>1. CASE Busy(v)
      BY <1>3, <2>1, <3>1 DEF ChainAt, Upto
    <3>2. CASE ~Busy(v)
      BY <3>2 DEF ChainAt, Busy
    <3>3. QED
      BY <3>1, <3>2
  <2>4. ASSUME NEW k \in DOMAIN records PROVE ChainRecord(k)'
    <3>1. ChainRecord(k) /\ records[k].export \in DOMAIN csv /\ records'[k].export = records[k].export
      BY <1>1, <2>1 DEF Basic, Grown
    <3>2. \A e \in DOMAIN csv : \A last : last = total + 1 => Debtors(e, last)' = Debtors(e, last)
      BY <1>8
    <3>3. Debtors(records[k].export, total + 1)' = Debtors(records[k].export, total + 1)
      BY <3>1, <3>2
    <3>4. QED
      BY <3>1, <3>3 DEF ChainRecord, Upto
  <2>5. QED
    BY <2>2, <2>3, <2>4
<1>12. QED
  BY <1>6, <1>7, <1>9, <1>10, <1>11 DEF IInv

LEMMA SubmitStep ==
    ASSUME IInv, Submit
    PROVE  IInv'
<1>1. Basic /\ JobsType
  BY DEF IInv, Structure
<1>2. /\ jobs' = Append(jobs, NewJob(0, 0, 0))
      /\ UNCHANGED <<total, records, attached, csv, zip, archived, worker, faults>>
  BY DEF Submit, files
<1>3. Grown /\ Basic' /\ Links(0, 0, 0) /\ 0 \in 0..MaxTotal
  BY <1>1, <1>2, Constants DEF Grown, Basic, Links, Rows
<1>4. /\ JobsType' /\ DOMAIN jobs' = DOMAIN jobs \cup {Len(jobs) + 1}
      /\ \A i \in DOMAIN jobs : jobs'[i] = jobs[i]
      /\ jobs'[Len(jobs) + 1].export = 0
  BY <1>1, <1>2, <1>3, JobQueued
<1>5. QED
  BY <1>2, <1>3, <1>4, Untouched

LEMMA UserStep ==
    ASSUME IInv, NEW k \in DOMAIN records, Stop(k) \/ Remove(k)
    PROVE  IInv'
<1>1. Basic /\ JobsType
  BY DEF IInv, Structure
<1>2. UNCHANGED <<total, jobs, attached, csv, zip, archived, worker, faults>>
  BY DEF Stop, Remove, files
<1>3. /\ Basic' /\ Grown /\ DOMAIN records' = DOMAIN records
      /\ \A i \in DOMAIN records : records'[i].status = "RIP" => records[i].status = "RIP"
  <2>1. {"STO", "gone"} \subseteq Statuses
    BY DEF Statuses
  <2>2. CASE Stop(k)
    <3>1. SetStatus(k, "STO")
      BY <2>2 DEF Stop
    <3>2. /\ Basic' /\ Grown /\ DOMAIN records' = DOMAIN records
          /\ records'[k].status \in {"gone", "STO"}
          /\ \A i \in DOMAIN records : i # k => records'[i] = records[i]
      BY <1>1, <1>2, <2>1, <3>1, SetStatusFacts
    <3>3. QED
      BY <3>2
  <2>3. CASE Remove(k)
    <3>1. records' = [records EXCEPT ![k].status = "gone"]
      BY <2>3 DEF Remove
    <3>2. /\ Basic' /\ Grown /\ DOMAIN records' = DOMAIN records
          /\ records'[k].status = "gone"
          /\ \A i \in DOMAIN records : i # k => records'[i] = records[i]
      BY <1>1, <1>2, <2>1, <3>1, StatusSet
    <3>3. QED
      BY <3>2
  <2>4. QED
    BY <2>2, <2>3
<1>4. JobsType'
  BY <1>1, <1>2, <1>3, LinksKept DEF JobsType, Linked
<1>5. QED
  BY <1>2, <1>3, <1>4, Untouched

LEMMA Stutter ==
    ASSUME IInv, UNCHANGED vars
    PROVE  IInv'
<1>1. Basic /\ JobsType
  BY DEF IInv, Structure
<1>2. UNCHANGED <<total, jobs, records, attached, csv, zip, worker, faults, archived>>
  BY DEF vars
<1>3. Grown /\ Basic' /\ JobsType'
  BY <1>1, <1>2, LinksKept DEF Grown, Basic, Rows, JobsType, Linked
<1>4. QED
  BY <1>2, <1>3, Untouched

-----------------------------------------------------------------------------
(* Steps that change a CSV file.                                           *)

\* A file that is written or removed: the others stay.
LEMMA CsvSet ==
    ASSUME Basic, NEW e \in DOMAIN csv, NEW s \in Seq(Rows), csv' = [csv EXCEPT ![e] = s],
           UNCHANGED <<total, records, attached, zip, faults>>, archived' \subseteq DOMAIN csv
    PROVE  /\ Basic' /\ Grown /\ DOMAIN csv' = DOMAIN csv /\ csv'[e] = s
           /\ \A f \in DOMAIN csv : f # e => csv'[f] = csv[f]
<1>1. /\ zip \in Seq(Seq(Rows)) /\ Len(zip) = Len(csv) /\ csv \in Seq(Seq(Rows)) /\ Rows' = Rows
  BY DEF Basic, Rows
<1> DEFINE T == Seq(Rows)
<1>2. s \in T /\ csv \in Seq(T)
  BY <1>1
<1> HIDE DEF T
<1>3. csv' \in Seq(T) /\ Len(csv') = Len(csv) /\ DOMAIN csv' = DOMAIN csv
  BY <1>1, <1>2
<1>4. csv'[e] = s /\ \A f \in DOMAIN csv : f # e => csv'[f] = csv[f]
  BY <1>1
<1>5. zip' \in Seq(Seq(Rows))' /\ csv' \in Seq(Seq(Rows))'
  BY <1>1, <1>3 DEF T
<1>6. Basic' /\ Grown
  BY <1>1, <1>3, <1>5 DEF Basic, Grown
<1>7. QED
  BY <1>3, <1>4, <1>6

\* The file was archived, and is unlinked.
LEMMA UnlinkStep ==
    ASSUME IInv, NEW w \in Workers, UnlinkCSV(w), csv[worker[w].export] # Absent
    PROVE  IInv'
<1> PICK j : j = worker[w].job
  OBVIOUS
<1> PICK e : e = worker[w].export
  OBVIOUS
<1> DEFINE next == [worker[w] EXCEPT !.pc = "done"]
<1>1. /\ Structure /\ Basic /\ JobsType /\ WorkersType
      /\ WrittenInv /\ OwedInv /\ ZipInv /\ ChainInv
  BY DEF IInv, Structure
<1>2. Opened(w) /\ Busy(w) /\ worker[w].pc = "unlink"
  BY DEF UnlinkCSV, Opened, Busy
<1>3. /\ worker' = [worker EXCEPT ![w] = next] /\ csv' = [csv EXCEPT ![e] = Absent]
      /\ archived' = archived \cup {e}
      /\ UNCHANGED <<total, jobs, records, attached, zip, faults>>
  BY DEF UnlinkCSV, Goto
<1>4. e \in DOMAIN csv /\ e # 0 /\ e = Target(w)
  BY <1>1, <1>2, TargetType, RowsOwed
<1>5. /\ Basic' /\ Grown /\ DOMAIN csv' = DOMAIN csv /\ csv'[e] = Absent
      /\ \A f \in DOMAIN csv : f # e => csv'[f] = csv[f]
  <2>1. Absent \in Seq(Rows) /\ archived' \subseteq DOMAIN csv
    BY <1>1, <1>3, <1>4 DEF Absent, Basic
  <2>2. QED
    BY <1>1, <1>3, <1>4, <2>1, CsvSet
<1>6. /\ next \in Station /\ next.pc = "done" /\ next.job = worker[w].job
      /\ next.export = e /\ next.record = worker[w].record
  BY <1>1 DEF WorkersType, Station, Places
<1> HIDE DEF next
<1>7. Goes(w, next)
  BY <1>3, <1>6 DEF Goes
<1>8. Structure' /\ Frame(w, j) /\ DOMAIN jobs' = DOMAIN jobs /\ worker'[w] = next
  BY <1>1, <1>2, <1>5, <1>6, <1>7, GoesStructure
<1>9. FaultsGrow /\ total \in Nat
  BY <1>1, <1>3, Constants DEF Basic, FaultsGrow
<1>10. WrittenInv'
  <2>1. WrittenAt(w)'
    BY <1>6, <1>8 DEF WrittenAt
  <2>2. FilesKept
    BY <1>3, <1>5 DEF FilesKept
  <2>3. QED
    BY <1>1, <1>8, <2>1, <2>2, WrittenKept
<1>11. ASSUME NEW f, NEW row, Owes(j, f, row)' PROVE f = e
  <2>1. WorkersOwe' /\ Busy(w)' /\ Target(w)' = e
    BY <1>6, <1>8, OwesSelfNext DEF Structure, Busy, Target
  <2>2. QED
    BY <1>6, <1>8, <1>11, <2>1 DEF WorkersOwe
<1>12. ASSUME NEW last, last = total + 1 PROVE Owes(j, e, last)
  <2>1. Reached(w) < last
    BY <1>2, <1>9, <1>12 DEF Reached
  <2>2. QED
    BY <1>4, <2>1 DEF Owes
<1>13. NoNew(j)
  <2> SUFFICES ASSUME NEW f \in DOMAIN csv, NEW last, last = total + 1, Owes(j, f, last)'
               PROVE  Owes(j, f, last)
    BY <1>3 DEF NoNew
  <2>1. QED
    BY <1>11, <1>12
<1>14. OwedInv'
  <2> SUFFICES ASSUME NEW f \in DOMAIN csv, NEW row \in 1..(total + 1)
               PROVE  Occurrences(csv'[f], row) + Cardinality(Debtors(f, row)') <= faults' + 1
    BY <1>3, <1>5 DEF OwedInv
  <2>1. CASE f = e
    <3>1. Owes(j, f, total + 1)' => Owes(j, f, total + 1)
      BY <1>13 DEF NoNew
    <3>2. QED
      BY <1>1, <1>5, <1>8, <1>9, <2>1, <3>1, OwedEmptied
  <2>2. CASE f # e
    <3>1. ~Owes(j, f, row)'
      BY <1>11, <2>2
    <3>2. QED
      BY <1>1, <1>5, <1>8, <1>9, <2>2, <3>1, OwedSame
  <2>3. QED
    BY <2>1, <2>2
<1>15. ZipInv'
  BY <1>1, <1>3, <1>9, ZipKept
<1>16. ChainInv'
  <2>1. OnlyFilesOf(Target(w)) /\ \A k \in DOMAIN records' : RecordKept(k)
    BY <1>3, <1>4, <1>5 DEF OnlyFilesOf, RecordKept
  <2>2. ChainWaiting(j)'
    <3>1. jobs[j].run.state = "active"
      BY <1>1, <1>2, WorkerFacts DEF Current
    <3>2. QED
      BY <1>3, <3>1 DEF ChainWaiting
  <2>3. ASSUME faults = 0 PROVE ChainAt(w)'
    <3>1. zip[e] = Upto(total)
      BY <1>1, <1>2, <1>4, <2>3 DEF ChainInv, ChainAt
    <3>2. Target(w)' = e
      BY <1>6, <1>8 DEF Target
    <3>3. QED
      BY <1>3, <1>6, <1>8, <3>1, <3>2 DEF ChainAt, Upto
  <2>4. QED
    BY <1>1, <1>3, <1>5, <1>8, <1>13, <2>1, <2>2, <2>3, ChainKept
<1>17. QED
  BY <1>8, <1>10, <1>14, <1>15, <1>16 DEF IInv

\* The first page finds no files of its export: it creates them.
LEMMA OpenStep ==
    ASSUME IInv, NEW w \in Workers, Open(w)
    PROVE  IInv'
<1> PICK j : j = worker[w].job
  OBVIOUS
<1> PICK e : e = worker'[w].export
  OBVIOUS
<1>1. /\ Structure /\ Basic /\ JobsType /\ WorkersType
      /\ WrittenInv /\ OwedInv /\ ZipInv /\ ChainInv
  BY DEF IInv, Structure
<1>2. Busy(w) /\ worker[w].pc = "open" /\ UNCHANGED <<total, jobs, attached, faults, archived>>
  BY DEF Open, Busy
<1>3. /\ Structure' /\ Frame(w, j) /\ Current(w)' = Current(w)
  BY <1>1, OpenStructure
<1>4. /\ Grown /\ worker'[w].pc \in {"kill", "fetch"} /\ worker'[w].job = j
      /\ \A k \in DOMAIN records : records'[k] = records[k]
      /\ \A k \in DOMAIN records' : k \notin DOMAIN records => records'[k].status = "RUN"
  BY <1>1, OpenFiles
<1>5. \/ /\ Current(w).export = 0 /\ e = Len(csv) + 1 /\ Len(csv) + 1 \notin DOMAIN csv
         /\ DOMAIN csv' = DOMAIN csv \cup {e} /\ DOMAIN zip' = DOMAIN zip \cup {e}
         /\ csv'[e] = Absent /\ zip'[e] = Absent
         /\ \A f \in DOMAIN csv : csv'[f] = csv[f] /\ zip'[f] = zip[f]
      \/ Current(w).export # 0 /\ e = Current(w).export /\ csv' = csv /\ zip' = zip
  BY <1>1, OpenFiles
<1>6. \A f \in DOMAIN csv : csv'[f] = csv[f] /\ zip'[f] = zip[f]
  BY <1>5
<1>7. FaultsGrow /\ total \in Nat /\ DOMAIN zip = DOMAIN csv /\ 0 \notin DOMAIN csv
  BY <1>1, <1>2, Constants DEF Basic, FaultsGrow
<1>8. e # 0
  BY <1>1, <1>5, <1>7 DEF Basic
<1>9. /\ Target(w) = Current(w).export /\ Reached(w) = Current(w).offset
      /\ Target(w)' = e /\ Reached(w)' = Current(w).offset
  BY <1>2, <1>3, <1>4 DEF Target, Reached
<1>10. WrittenInv'
  <2>1. WrittenAt(w)'
    BY <1>4 DEF WrittenAt
  <2>2. FilesKept
    BY <1>2, <1>6 DEF FilesKept
  <2>3. QED
    BY <1>1, <1>2, <1>3, <2>1, <2>2, WrittenKept
<1>11. ASSUME NEW f \in DOMAIN csv, NEW row, Owes(j, f, row)' PROVE Owes(j, f, row)
  <2>1. WorkersOwe' /\ Busy(w)' /\ WorkersOwe
    BY <1>1, <1>3, <1>4, OwesSelf, OwesSelfNext DEF Structure, Busy
  <2>2. Target(w)' = f /\ Reached(w)' < row
    BY <1>4, <1>11, <2>1 DEF WorkersOwe
  <2>3. f = Current(w).export
    BY <1>5, <1>9, <2>2
  <2>4. QED
    BY <1>2, <1>9, <2>1, <2>2, <2>3 DEF WorkersOwe
<1>12. ASSUME NEW row, e \notin DOMAIN csv PROVE Debtors(e, row)' \subseteq {j}
  <2> SUFFICES ASSUME NEW i \in DOMAIN jobs, i # j, Owes(i, e, row) PROVE FALSE
    BY <1>1, <1>2, <1>3, OwesOther DEF Debtors
  <2>1. jobs[i].export # e
    BY <1>1, <1>8, <1>12 DEF JobsType, Linked, Links
  <2>2. \A v \in Workers : Target(v) # e
    BY <1>1, <1>8, <1>12, TargetType
  <2>3. QED
    BY <2>1, <2>2 DEF Owes
<1>13. OwedInv'
  <2> SUFFICES ASSUME NEW f \in DOMAIN csv', NEW row \in 1..(total + 1)
               PROVE  Occurrences(csv'[f], row) + Cardinality(Debtors(f, row)') <= faults' + 1
    BY <1>2 DEF OwedInv
  <2>1. CASE f \in DOMAIN csv
    BY <1>1, <1>2, <1>3, <1>6, <1>7, <1>11, <2>1, OwedSame
  <2>2. CASE f \notin DOMAIN csv
    <3>1. f = e /\ csv'[f] = Absent
      BY <1>5, <2>2
    <3>2. Debtors(f, row)' \subseteq {} \cup {j}
      BY <1>12, <2>2, <3>1
    <3>3. Cardinality(Debtors(f, row)') \in Nat /\ Cardinality(Debtors(f, row)') <= 1
      <4>1. ASSUME NEW S, S = {}, NEW D, D \subseteq S \cup {j}
            PROVE  Cardinality(D) \in Nat /\ Cardinality(D) <= 1
        <5>1. IsFiniteSet(S) /\ Cardinality(S) = 0
          BY <4>1, FS_EmptySet
        <5>2. D \subseteq S \cup {j}
          BY <4>1
        <5>3. Cardinality(D) \in Nat /\ Cardinality(D) <= Cardinality(S) + 1
          BY <5>1, <5>2, AtMostOneMore
        <5>4. QED
          BY <5>1, <5>3
      <4>2. QED
        BY <3>2, <4>1
    <3>4. Occurrences(csv'[f], row) = 0
      BY <3>1, OccurrencesAbsent
    <3>5. QED
      BY <1>7, <3>3, <3>4 DEF FaultsGrow
  <2>3. QED
    BY <2>1, <2>2
<1>14. ZipInv'
  BY <1>1, <1>2, <1>5, <1>6, <1>7, ZipKept
<1>15. ChainInv'
  <2>1. OnlyFilesOf(Target(w))
    BY <1>6 DEF OnlyFilesOf
  <2>2. ChainWaiting(j)'
    <3>1. jobs[j].run.state = "active"
      BY <1>1, <1>2, WorkerFacts DEF Current
    <3>2. QED
      BY <1>2, <3>1 DEF ChainWaiting
  <2>3. ASSUME faults = 0 PROVE ChainAt(w)'
    <3>1. csv'[e] = Upto(Current(w).offset)
      <4>1. CASE Current(w).export = 0
        <5>1. Current(w).offset = 0
          <6>1. worker[w].job \in DOMAIN jobs
            BY <1>1, <1>2, WorkerFacts
          <6>2. QED
            BY <1>1, <1>7, <4>1, <6>1 DEF JobsType, Linked, Links, Current
        <5>2. Upto(0) = Absent
          BY DEF Upto, Absent
        <5>3. QED
          BY <1>5, <4>1, <5>1, <5>2
      <4>2. CASE Current(w).export # 0
        <5>1. ChainAt(w)
          BY <1>1, <2>3 DEF ChainInv
        <5>2. csv[e] = Upto(Current(w).offset)
          BY <1>2, <1>5, <1>9, <4>2, <5>1 DEF ChainAt
        <5>3. QED
          BY <1>5, <4>2, <5>2
      <4>3. QED
        BY <4>1, <4>2
    <3>2. QED
      BY <1>3, <1>4, <1>9, <3>1 DEF ChainAt, Upto
  <2>4. ASSUME NEW k \in DOMAIN records' PROVE ChainRecord(k)' \/ RecordKept(k)
    <3>1. CASE k \in DOMAIN records
      BY <1>2, <1>4, <3>1 DEF RecordKept
    <3>2. CASE k \notin DOMAIN records
      BY <1>1, <1>2, <1>4, <3>2 DEF ChainRecord, Basic
    <3>3. QED
      BY <3>1, <3>2
  <2>5. NoNew(j)
    BY <1>2, <1>11 DEF NoNew
  <2>6. QED
    BY <1>1, <1>2, <1>3, <1>4, <2>1, <2>2, <2>3, <2>4, <2>5, ChainKept
<1>16. QED
  BY <1>3, <1>10, <1>13, <1>14, <1>15 DEF IInv

\* A page that is written follows the rows that were there.
LEMMA PageAppended ==
    ASSUME total \in Nat, NEW s \in Seq(Rows), NEW offset \in Nat, offset <= total
    PROVE  /\ s \o Page(offset) \in Seq(Rows)
           /\ Range(s) \subseteq Range(s \o Page(offset))
           /\ 1..offset \subseteq Range(s) => 1..NextOffset(offset) \subseteq Range(s \o Page(offset))
           /\ s = Upto(offset) => s \o Page(offset) = Upto(NextOffset(offset))
<1> DEFINE p == Page(offset)
           end == NextOffset(offset)
           t == s \o p
<1>1. /\ p \in Seq(Rows) /\ DOMAIN p = 1..(end - offset) /\ Len(p) = end - offset
      /\ \A n \in DOMAIN p : p[n] = offset + n
      /\ end \in offset..total
  BY PageFacts
<1> HIDE DEF p, end
<1>2. /\ t \in Seq(Rows) /\ Len(t) = Len(s) + Len(p) /\ DOMAIN t = 1..Len(t)
      /\ Len(s) \in Nat /\ DOMAIN s = 1..Len(s)
      /\ \A n \in 1..Len(s) : t[n] = s[n]
      /\ \A n \in 1..Len(p) : t[Len(s) + n] = p[n]
  <2>1. /\ t \in Seq(Rows) /\ Len(t) = Len(s) + Len(p) /\ DOMAIN t = 1..Len(t)
        /\ Len(s) \in Nat /\ Len(p) \in Nat /\ DOMAIN s = 1..Len(s)
        /\ \A n \in 1..Len(s) : t[n] = s[n]
        /\ \A n \in DOMAIN t : n > Len(s) => t[n] = p[n - Len(s)]
    BY <1>1
  <2> HIDE DEF t
  <2>2. ASSUME NEW n \in 1..Len(p) PROVE t[Len(s) + n] = p[n]
    <3>1. Len(s) + n \in DOMAIN t /\ Len(s) + n > Len(s) /\ (Len(s) + n) - Len(s) = n
      BY <2>1
    <3>2. QED
      BY <2>1, <3>1
  <2>3. QED
    BY <2>1, <2>2
<1> HIDE DEF t
<1>3. ASSUME NEW row \in Range(s) PROVE row \in Range(t)
  <2>1. PICK n \in DOMAIN s : s[n] = row
    BY DEF Range
  <2>2. n \in DOMAIN t /\ t[n] = row
    BY <1>1, <1>2, <2>1
  <2>3. QED
    BY <2>2 DEF Range
<1>4. ASSUME NEW row \in (offset + 1)..end PROVE row \in Range(t)
  <2> DEFINE n == row - offset
  <2>1. n \in 1..Len(p) /\ n \in DOMAIN p /\ Len(p) \in Nat /\ offset + n = row
    BY <1>1
  <2> HIDE DEF n
  <2>2. Len(s) + n \in DOMAIN t /\ t[Len(s) + n] = p[n]
    BY <1>2, <2>1
  <2>3. p[n] = row
    BY <1>1, <2>1
  <2>4. QED
    BY <2>2, <2>3 DEF Range
<1>5. ASSUME 1..offset \subseteq Range(s), NEW row \in 1..end PROVE row \in Range(t)
  <2>1. row <= offset => row \in Range(s)
    BY <1>1, <1>5
  <2>2. ~(row <= offset) => row \in (offset + 1)..end
    BY <1>1
  <2>3. QED
    BY <1>3, <1>4, <2>1, <2>2
<1>6. ASSUME s = Upto(offset) PROVE t = Upto(end)
  <2>1. Len(s) = offset /\ \A n \in 1..offset : s[n] = n
    BY <1>6 DEF Upto
  <2>2. Len(t) = end /\ DOMAIN t = 1..end
    BY <1>1, <1>2, <2>1
  <2>3. ASSUME NEW n \in 1..end PROVE t[n] = n
    <3>1. CASE n <= offset
      BY <1>2, <2>1, <3>1
    <3>2. CASE ~(n <= offset)
      <4>1. n - offset \in 1..Len(p) /\ n - offset \in DOMAIN p /\ Len(s) + (n - offset) = n
        BY <1>1, <2>1, <3>2
      <4>2. t[n] = p[n - offset]
        BY <1>2, <4>1
      <4>3. p[n - offset] = offset + (n - offset)
        BY <1>1, <4>1
      <4>4. QED
        BY <4>2, <4>3
    <3>3. QED
      BY <3>1, <3>2
  <2>4. t = [n \in 1..end |-> t[n]]
    BY <1>2, <2>2
  <2>5. QED
    BY <2>2, <2>3, <2>4 DEF Upto
<1>7. QED
  BY <1>2, <1>3, <1>5, <1>6 DEF t, p, end

\* A job that no longer owes a row.
LEMMA DebtorsLess ==
    ASSUME Basic, JobsType, WorkersType, NEW w \in Workers, NEW j, Frame(w, j),
           DOMAIN jobs' = DOMAIN jobs, NEW e, NEW row, Owes(j, e, row), ~Owes(j, e, row)'
    PROVE  /\ Cardinality(Debtors(e, row)') \in Nat /\ Cardinality(Debtors(e, row)) \in Nat
           /\ Cardinality(Debtors(e, row)') + 1 <= Cardinality(Debtors(e, row))
<1>1. j \in Debtors(e, row) /\ IsFiniteSet(Debtors(e, row))
  BY DebtorsFinite DEF Debtors, Frame, JobsType
<1>2. Debtors(e, row)' \subseteq Debtors(e, row) \ {j}
  BY OwesOther DEF Debtors
<1>3. ASSUME NEW D, IsFiniteSet(D), j \in D, NEW T, T \subseteq D \ {j}
      PROVE  Cardinality(T) \in Nat /\ Cardinality(D) \in Nat /\ Cardinality(T) + 1 <= Cardinality(D)
  <2>1. /\ IsFiniteSet(D \ {j}) /\ Cardinality(D \ {j}) = Cardinality(D) - 1
        /\ Cardinality(D) \in Nat
    BY <1>3, FS_RemoveElement, FS_CardinalityType
  <2>2. IsFiniteSet(T) /\ Cardinality(T) <= Cardinality(D \ {j}) /\ Cardinality(T) \in Nat
    BY <1>3, <2>1, FS_Subset, FS_CardinalityType
  <2>3. QED
    BY <2>1, <2>2
<1>4. QED
  BY <1>1, <1>2, <1>3

\* The rows before the page a worker is to write are there.
LEMMA RowsBefore ==
    ASSUME Structure, WrittenInv, NEW w \in Workers, Opened(w),
           worker[w].export \notin archived
    PROVE  1..Current(w).offset \subseteq Range(csv[worker[w].export])
<1>1. Basic /\ JobsType /\ WorkersType /\ Busy(w)
  BY DEF Structure, Opened, Busy
<1>2. worker[w].job \in DOMAIN jobs /\ Current(w).export \in {0, worker[w].export}
  BY <1>1 DEF WorkersType, AtWork, Busy
<1>3. CASE Current(w).export = 0
  <2>1. Current(w).offset = 0
    BY <1>1, <1>2, <1>3 DEF JobsType, Linked, Links, Basic, Current
  <2>2. QED
    BY <2>1
<1>4. CASE Current(w).export # 0
  BY <1>2, <1>4 DEF WrittenInv, WrittenBefore, Current
<1>5. QED
  BY <1>3, <1>4

LEMMA AppendStep ==
    ASSUME IInv, NEW w \in Workers, AppendRows(w)
    PROVE  IInv'
<1> PICK j : j = worker[w].job
  OBVIOUS
<1> PICK e : e = worker[w].export
  OBVIOUS
<1> PICK offset : offset = Current(w).offset
  OBVIOUS
<1> DEFINE old == IF worker[w].exists THEN csv[e] ELSE Absent
           end == NextOffset(offset)
           new == old \o Page(offset)
           place == AfterAppend(w)
           next == [worker[w] EXCEPT !.pc = place, !.exists = FALSE]
<1>1. /\ Structure /\ Basic /\ JobsType /\ WorkersType
      /\ WrittenInv /\ OwedInv /\ ZipInv /\ ChainInv
  BY DEF IInv, Structure
<1>2. Opened(w) /\ Busy(w) /\ worker[w].pc = "append"
  BY DEF AppendRows, Opened, Busy
<1>3. /\ csv' = [csv EXCEPT ![e] = new] /\ worker' = [worker EXCEPT ![w] = next]
      /\ UNCHANGED <<total, jobs, records, attached, zip, faults, archived>>
  BY DEF AppendRows
<1>4. /\ e \in DOMAIN csv /\ e # 0 /\ e = Target(w) /\ csv[e] \in Seq(Rows)
      /\ total \in Nat /\ offset \in Nat /\ offset <= total /\ FaultsGrow
  <2>1. Current(w).offset \in 0..total /\ total \in Nat
    BY <1>1, <1>2, WorkerFacts
  <2>2. FaultsGrow
    BY <1>1, <1>3, Constants DEF Basic, FaultsGrow
  <2>3. e = Target(w) /\ e \in DOMAIN csv
    BY <1>1, <1>2, TargetType
  <2>4. QED
    BY <1>1, <2>1, <2>2, <2>3, RowsOwed
<1>5. /\ place \in {"queue", "zip"}
      /\ place = "queue" => MorePages(offset)
      /\ place = "zip" => end = total
      /\ end \in offset..total
  BY <1>1, <1>2, AfterPage
<1> HIDE DEF place
<1>6. /\ next \in Station /\ next.pc = place /\ next.job = worker[w].job
      /\ next.export = e /\ next.record = worker[w].record
  BY <1>1, <1>5 DEF WorkersType, Station, Places
<1>7. old \in Seq(Rows) /\ old \in {csv[e], Absent}
  BY <1>4 DEF Absent
<1> HIDE DEF next, old
<1>8. /\ new \in Seq(Rows) /\ Range(old) \subseteq Range(new)
      /\ 1..offset \subseteq Range(old) => 1..end \subseteq Range(new)
      /\ old = Upto(offset) => new = Upto(end)
  BY <1>4, <1>7, PageAppended
<1>9. /\ Occurrences(new, total + 1) \in Nat
      /\ \A row \in Nat : /\ Occurrences(new, row) \in Nat
                          /\ Occurrences(new, row) <= Occurrences(old, row) + 1
                          /\ row \notin (offset + 1)..end => Occurrences(new, row) = Occurrences(old, row)
  BY <1>4, <1>7, OccurrencesPage
<1> HIDE DEF new, end
<1>10. /\ Basic' /\ Grown /\ DOMAIN csv' = DOMAIN csv /\ csv'[e] = new
       /\ \A f \in DOMAIN csv : f # e => csv'[f] = csv[f]
  <2>1. archived' \subseteq DOMAIN csv
    BY <1>1, <1>3 DEF Basic
  <2>2. QED
    BY <1>1, <1>3, <1>4, <1>8, <2>1, CsvSet
<1>11. Goes(w, next)
  BY <1>3, <1>6 DEF Goes
<1>12. /\ Structure' /\ Frame(w, j) /\ DOMAIN jobs' = DOMAIN jobs /\ worker'[w] = next
       /\ Current(w)' = Current(w)
  BY <1>1, <1>2, <1>5, <1>6, <1>10, <1>11, GoesStructure
<1>13. NextOffset(Current(w).offset)' = end /\ Current(w)'.offset = offset
  BY <1>3, <1>12 DEF NextOffset, Page, end
<1>14. e \notin archived => Range(csv[e]) \subseteq Range(new)
  <2>1. e \notin archived => worker[w].exists \/ csv[e] = Absent
    BY <1>1, <1>2 DEF WrittenInv, WrittenAt
  <2>2. e \notin archived => old = csv[e]
    BY <2>1 DEF old
  <2>3. QED
    BY <1>8, <2>2
<1>15. WrittenInv'
  <2>1. WrittenBefore'
    <3>1. \A f \in DOMAIN csv :
              f \notin archived' => f \notin archived /\ Range(csv[f]) \subseteq Range(csv'[f])
      BY <1>3, <1>10, <1>14
    <3>2. JobsGrown(j)
      BY <1>12 DEF Frame
    <3>3. QED
      BY <1>1, <1>12, <3>1, <3>2, BeforeKept DEF WrittenInv
  <2>2. WrittenAt(w)'
    <3>1. ASSUME e \notin archived PROVE 1..end \subseteq Range(new)
      <4>1. 1..offset \subseteq Range(csv[e])
        BY <1>1, <1>2, <3>1, RowsBefore
      <4>2. worker[w].exists \/ csv[e] = Absent
        BY <1>1, <1>2, <3>1 DEF WrittenInv, WrittenAt
      <4>3. old = csv[e]
        BY <4>2 DEF old
      <4>4. QED
        BY <1>8, <4>1, <4>3
    <3>2. Rows' = 1..total /\ archived' = archived
      BY <1>3 DEF Rows
    <3>3. CASE place = "queue"
      BY <1>6, <1>10, <1>12, <1>13, <3>1, <3>2, <3>3 DEF WrittenAt
    <3>4. CASE place = "zip"
      BY <1>5, <1>6, <1>10, <1>12, <3>1, <3>2, <3>4 DEF WrittenAt
    <3>5. QED
      BY <1>5, <3>3, <3>4
  <2>3. ASSUME NEW v \in Workers \ {w} PROVE WrittenAt(v)'
    <3>1. WrittenAt(v) /\ worker'[v] = worker[v]
      BY <1>1, <1>12 DEF WrittenInv, Frame
    <3>2. CASE worker[v].export # e
      BY <1>1, <1>3, <1>10, <1>12, <3>1, <3>2, WrittenAtKept
    <3>3. CASE worker[v].export = e
      <4> SUFFICES ASSUME Opened(v), e \notin archived PROVE WrittenAt(v)'
        BY <1>3, <3>1, <3>3 DEF WrittenAt, Opened
      <4>1. Busy(v) /\ worker[v].job \in DOMAIN jobs /\ Current(v)' = Current(v)
        <5>1. Busy(v)
          BY DEF Opened, Busy
        <5>2. worker[v].job \in DOMAIN jobs
          BY <1>1, <5>1, WorkerFacts
        <5>3. QED
          BY <1>3, <3>1, <5>1, <5>2 DEF Current
      <4>2. NextOffset(Current(v).offset)' = NextOffset(Current(v).offset) /\ Rows' = Rows
        BY <1>3, <4>1 DEF NextOffset, Page, Rows
      <4>3. worker[v].pc = "append" => worker[v].exists
        <5> SUFFICES ASSUME worker[v].pc = "append" PROVE worker[v].exists
          OBVIOUS
        <5>1. ~First(v)
          BY <1>1, <1>2, <3>3 DEF Structure, FirstAlone
        <5>2. Current(v).export # 0
          BY <5>1 DEF First
        <5>3. Current(v).offset \in Nat /\ Current(v).offset > 0
          <6>1. Current(v).offset \in 0..total
            BY <1>1, <4>1, WorkerFacts
          <6>2. QED
            BY <1>1, <4>1, <5>2, <6>1 DEF JobsType, Linked, Links, Current
        <5>4. 1..Current(v).offset \subseteq Range(csv[e])
          BY <1>1, <3>3, RowsBefore
        <5>5. 1 \in Range(csv[e])
          BY <5>3, <5>4
        <5>6. csv[e] # Absent
          BY <5>5 DEF Range, Absent
        <5>7. QED
          BY <3>1, <3>3, <5>6 DEF WrittenAt
      <4>4. QED
        BY <1>3, <1>10, <1>14, <3>1, <3>3, <4>1, <4>2, <4>3 DEF WrittenAt
    <3>4. QED
      BY <3>2, <3>3
  <2>4. QED
    BY <2>1, <2>2, <2>3 DEF WrittenInv
<1>16. /\ Target(w)' = e /\ Reached(w)' = end /\ Reached(w) = offset
  <2>1. Target(w)' = e
    BY <1>5, <1>6, <1>12 DEF Target
  <2>2. Reached(w) = offset
    BY <1>2 DEF Reached
  <2>3. Reached(w)' = end
    BY <1>3, <1>5, <1>6, <1>12, <1>13 DEF Reached
  <2>4. QED
    BY <2>1, <2>2, <2>3
<1>17. ASSUME NEW f, NEW row PROVE Owes(j, f, row)' <=> f = e /\ end < row
  <2>1. WorkersOwe' /\ Busy(w)'
    BY <1>5, <1>6, <1>12, OwesSelfNext DEF Structure, Busy
  <2>2. QED
    BY <1>6, <1>12, <1>16, <2>1 DEF WorkersOwe
<1>18. ASSUME NEW f, NEW row PROVE Owes(j, f, row) <=> f = e /\ offset < row
  <2>1. WorkersOwe
    BY <1>1, OwesSelf
  <2>2. QED
    BY <1>2, <1>4, <1>16, <2>1 DEF WorkersOwe
<1>19. ASSUME NEW f, NEW row \in Nat, Owes(j, f, row)' PROVE Owes(j, f, row)
  BY <1>4, <1>5, <1>17, <1>18, <1>19
<1>20. OwedInv'
  <2> SUFFICES ASSUME NEW f \in DOMAIN csv, NEW row \in 1..(total + 1)
               PROVE  Occurrences(csv'[f], row) + Cardinality(Debtors(f, row)') <= faults' + 1
    BY <1>3, <1>10 DEF OwedInv
  <2>1. row \in Nat
    BY <1>4
  <2>2. CASE f # e
    BY <1>1, <1>4, <1>10, <1>12, <1>19, <2>1, <2>2, OwedSame
  <2>3. CASE f = e
    <3>1. /\ Occurrences(csv[e], row) + Cardinality(Debtors(e, row)) <= faults + 1
          /\ Occurrences(csv[e], row) \in Nat
      BY <1>1, <1>4, RowsOwed DEF OwedInv
    <3>2. Occurrences(old, row) \in Nat /\ Occurrences(old, row) <= Occurrences(csv[e], row)
      BY <1>7, <3>1, OccurrencesAbsent
    <3>3. CASE row \in (offset + 1)..end
      <4>1. Owes(j, e, row) /\ ~Owes(j, e, row)'
        BY <1>4, <1>5, <1>17, <1>18, <3>3
      <4>2. /\ Cardinality(Debtors(e, row)') \in Nat /\ Cardinality(Debtors(e, row)) \in Nat
            /\ Cardinality(Debtors(e, row)') + 1 <= Cardinality(Debtors(e, row))
        BY <1>1, <1>12, <4>1, DebtorsLess
      <4>3. Occurrences(new, row) \in Nat /\ Occurrences(new, row) <= Occurrences(old, row) + 1
        BY <1>9, <2>1
      <4>4. QED
        BY <1>4, <1>10, <2>3, <3>1, <3>2, <4>2, <4>3 DEF FaultsGrow
    <3>4. CASE row \notin (offset + 1)..end
      <4>1. Owes(j, e, row)' => Owes(j, e, row)
        BY <1>19, <2>1
      <4>2. /\ Cardinality(Debtors(e, row)') \in Nat /\ Cardinality(Debtors(e, row)) \in Nat
            /\ Cardinality(Debtors(e, row)') <= Cardinality(Debtors(e, row))
        BY <1>1, <1>12, <4>1, DebtorsFewer
      <4>3. Occurrences(new, row) = Occurrences(old, row)
        BY <1>9, <2>1, <3>4
      <4>4. QED
        BY <1>4, <1>10, <2>3, <3>1, <3>2, <4>2, <4>3 DEF FaultsGrow
    <3>5. QED
      BY <3>3, <3>4
  <2>4. QED
    BY <2>2, <2>3
<1>21. ZipInv'
  BY <1>1, <1>3, <1>4, ZipKept
<1>22. ChainInv'
  <2>1. OnlyFilesOf(Target(w)) /\ \A k \in DOMAIN records' : RecordKept(k)
    BY <1>3, <1>4, <1>10 DEF OnlyFilesOf, RecordKept
  <2>2. ChainWaiting(j)'
    <3>1. jobs[j].run.state = "active"
      BY <1>1, <1>2, WorkerFacts DEF Current
    <3>2. QED
      BY <1>3, <3>1 DEF ChainWaiting
  <2>3. ASSUME faults = 0 PROVE ChainAt(w)'
    <3>1. csv[e] = Upto(offset) /\ (worker[w].exists <=> csv[e] # Absent)
      BY <1>1, <1>2, <1>4, <2>3 DEF ChainInv, ChainAt
    <3>2. old = csv[e]
      BY <3>1 DEF old
    <3>3. csv'[e] = Upto(end)
      BY <1>8, <1>10, <3>1, <3>2
    <3>4. QED
      BY <1>3, <1>5, <1>6, <1>12, <1>13, <1>16, <3>3 DEF ChainAt, Upto
  <2>4. NoNew(j)
    <3>1. ASSUME NEW f \in DOMAIN csv, NEW last, last = total + 1, Owes(j, f, last)'
          PROVE  Owes(j, f, last)
      BY <1>4, <1>19, <3>1
    <3>2. QED
      BY <1>3, <3>1 DEF NoNew
  <2>5. QED
    BY <1>1, <1>3, <1>10, <1>12, <2>1, <2>2, <2>3, <2>4, ChainKept
<1>23. QED
  BY <1>12, <1>15, <1>20, <1>21, <1>22 DEF IInv

-----------------------------------------------------------------------------
(* The step that queues the next page.                                     *)

LEMMA QueueStep ==
    ASSUME IInv, NEW w \in Workers, QueueNext(w)
    PROVE  IInv'
<1> PICK j : j = worker[w].job
  OBVIOUS
<1> PICK e : e = worker[w].export
  OBVIOUS
<1> PICK n : n = Len(jobs) + 1
  OBVIOUS
<1> PICK end : end = NextOffset(Current(w).offset)
  OBVIOUS
<1>1. /\ Structure /\ Basic /\ JobsType /\ WorkersType
      /\ WrittenInv /\ OwedInv /\ ZipInv /\ ChainInv
  BY DEF IInv, Structure
<1>2. Opened(w) /\ Busy(w) /\ worker[w].pc = "queue"
  BY DEF QueueNext, Opened, Busy
<1>3. UNCHANGED <<total, records, attached, csv, zip, archived, faults>>
  BY DEF QueueNext, files
<1>4. /\ Structure' /\ Frame(w, j) /\ worker'[w].pc = "finish" /\ e \in DOMAIN csv
      /\ DOMAIN jobs' = DOMAIN jobs \cup {n} /\ n \notin DOMAIN jobs
      /\ \A i \in DOMAIN jobs : jobs'[i] = jobs[i]
      /\ jobs'[n].offset = end /\ jobs'[n].export = e /\ jobs'[n].run.state = "waiting"
  BY <1>1, QueueStructure
<1>5. j \in DOMAIN jobs /\ worker'[w].job = j
  <2>1. worker'[w].job = worker[w].job
    BY <1>1 DEF QueueNext, Goto, WorkersType
  <2>2. QED
    BY <1>1, <1>2, <2>1, WorkerFacts
<1>6. FaultsGrow /\ total \in Nat /\ 0 \notin DOMAIN csv /\ e = Target(w) /\ end \in 0..total
  <2>1. e = Target(w)
    BY <1>1, <1>2, TargetType
  <2>2. Current(w).offset \in 0..total /\ end \in Current(w).offset..total
    BY <1>1, <1>2, WorkerFacts, AfterPage
  <2>3. FaultsGrow /\ total \in Nat /\ 0 \notin DOMAIN csv
    BY <1>1, <1>3, Constants DEF Basic, FaultsGrow
  <2>4. QED
    BY <2>1, <2>2, <2>3
<1>7. WrittenInv'
  <2>1. ASSUME e \notin archived PROVE 1..end \subseteq Range(csv[e])
    BY <1>1, <1>2, <2>1 DEF WrittenInv, WrittenAt
  <2>2. WrittenBefore'
    BY <1>1, <1>3, <1>4, <2>1 DEF WrittenInv, WrittenBefore
  <2>3. WrittenAt(w)'
    BY <1>4 DEF WrittenAt
  <2>4. \A v \in Workers \ {w} : WrittenAt(v)'
    BY <1>1, <1>3, <1>4, WrittenAtKept DEF WrittenInv
  <2>5. QED
    BY <2>2, <2>3, <2>4 DEF WrittenInv
<1>8. ASSUME NEW f \in DOMAIN csv, NEW row PROVE ~Owes(j, f, row)'
  <2>1. WorkersOwe' /\ Busy(w)' /\ Target(w)' = 0
    BY <1>4, OwesSelfNext DEF Structure, Busy, Target
  <2>2. QED
    BY <1>5, <1>6, <2>1 DEF WorkersOwe
<1>9. ASSUME NEW f, NEW row PROVE Owes(n, f, row)' <=> f = e /\ end < row
  <2>1. ASSUME NEW v \in Workers PROVE worker'[v].job # n
    <3>1. CASE v = w
      BY <1>4, <1>5, <3>1
    <3>2. CASE v # w
      <4>1. worker'[v] = worker[v]
        BY <1>4, <3>2 DEF Frame
      <4>2. worker[v].job \in DOMAIN jobs \/ worker[v].job = 0
        BY <1>1 DEF WorkersType, AtWork, Idle
      <4>3. n # 0
        BY <1>1 DEF JobsType
      <4>4. QED
        BY <1>4, <4>1, <4>2, <4>3
    <3>3. QED
      BY <3>1, <3>2
  <2>2. QED
    BY <1>4, <2>1 DEF Owes
<1>10. ASSUME NEW f, NEW row PROVE Owes(j, f, row) <=> f = e /\ end < row
  <2>1. WorkersOwe /\ Reached(w) = end
    BY <1>1, <1>2, OwesSelf DEF Reached
  <2>2. QED
    BY <1>2, <1>6, <2>1 DEF WorkersOwe
<1>11. ASSUME NEW f \in DOMAIN csv, NEW row
       PROVE  IF Owes(j, f, row) THEN f = e /\ Debtors(f, row)' \subseteq (Debtors(f, row) \ {j}) \cup {n}
                                 ELSE Debtors(f, row)' \subseteq Debtors(f, row)
  <2>1. \A i \in DOMAIN jobs : i # j => (Owes(i, f, row)' <=> Owes(i, f, row))
    BY <1>1, <1>4, OwesOther
  <2>2. Owes(n, f, row)' <=> Owes(j, f, row)
    BY <1>9, <1>10
  <2>3. ~Owes(j, f, row)'
    BY <1>8
  <2>4. Owes(j, f, row) => f = e
    BY <1>10
  <2>5. QED
    BY <1>4, <2>1, <2>2, <2>3, <2>4 DEF Debtors
<1>12. ASSUME NEW f \in DOMAIN csv, NEW row
       PROVE  /\ Cardinality(Debtors(f, row)') \in Nat /\ Cardinality(Debtors(f, row)) \in Nat
              /\ Cardinality(Debtors(f, row)') <= Cardinality(Debtors(f, row))
  <2>1. IsFiniteSet(Debtors(f, row)) /\ Cardinality(Debtors(f, row)) \in Nat
    BY <1>1, DebtorsFinite DEF JobsType
  <2>2. CASE Owes(j, f, row)
    <3>1. j \in Debtors(f, row) /\ Debtors(f, row)' \subseteq (Debtors(f, row) \ {j}) \cup {n}
      BY <1>5, <1>11, <2>2 DEF Debtors
    <3>2. ASSUME NEW D, IsFiniteSet(D), j \in D, NEW T, T \subseteq (D \ {j}) \cup {n}
          PROVE  Cardinality(T) \in Nat /\ Cardinality(T) <= Cardinality(D)
      <4> DEFINE S == D \ {j}
      <4>1. IsFiniteSet(S) /\ Cardinality(S) = Cardinality(D) - 1 /\ Cardinality(D) \in Nat
        BY <3>2, FS_RemoveElement, FS_CardinalityType
      <4>2. T \subseteq S \cup {n}
        BY <3>2
      <4> HIDE DEF S
      <4>3. Cardinality(T) \in Nat /\ Cardinality(S) \in Nat /\ Cardinality(T) <= Cardinality(S) + 1
        BY <4>1, <4>2, AtMostOneMore
      <4>4. QED
        BY <4>1, <4>3
    <3>3. QED
      BY <2>1, <3>1, <3>2
  <2>3. CASE ~Owes(j, f, row)
    <3>1. Debtors(f, row)' \subseteq Debtors(f, row)
      BY <1>11, <2>3
    <3>2. QED
      BY <2>1, <3>1, FS_Subset, FS_CardinalityType
  <2>4. QED
    BY <2>2, <2>3
<1>13. OwedInv'
  <2> SUFFICES ASSUME NEW f \in DOMAIN csv, NEW row \in 1..(total + 1)
               PROVE  Occurrences(csv[f], row) + Cardinality(Debtors(f, row)') <= faults + 1
    BY <1>3 DEF OwedInv
  <2>1. Occurrences(csv[f], row) + Cardinality(Debtors(f, row)) <= faults + 1
    BY <1>1 DEF OwedInv
  <2>2. Occurrences(csv[f], row) \in Nat /\ faults \in Nat
    BY <1>1, <1>6, RowsOwed DEF FaultsGrow
  <2>3. QED
    BY <1>6, <1>12, <2>1, <2>2
<1>14. ZipInv'
  BY <1>1, <1>3, <1>6, ZipKept
<1>15. ChainInv'
  <2> SUFFICES ASSUME faults = 0
               PROVE  /\ \A i \in DOMAIN jobs' : ChainWaiting(i)'
                      /\ \A v \in Workers : ChainAt(v)'
                      /\ \A k \in DOMAIN records' : ChainRecord(k)'
    BY <1>3 DEF ChainInv
  <2>1. OnlyFilesOf(Target(w))
    BY <1>3 DEF OnlyFilesOf
  <2>2. /\ \A i \in DOMAIN jobs : i # j => ChainWaiting(i)'
        /\ \A v \in Workers \ {w} : ChainAt(v)'
    BY <1>1, <1>2, <1>4, <2>1, ChainOthers
  <2>3. ChainWaiting(j)'
    <3>1. jobs[j].run.state = "active"
      BY <1>1, <1>2, WorkerFacts DEF Current
    <3>2. QED
      BY <1>4, <1>5, <3>1 DEF ChainWaiting
  <2>4. ChainWaiting(n)'
    <3>1. csv[e] = Upto(end)
      BY <1>1, <1>2, <1>6 DEF ChainInv, ChainAt
    <3>2. QED
      BY <1>3, <1>4, <3>1 DEF ChainWaiting, Upto
  <2>5. ChainAt(w)'
    BY <1>4 DEF ChainAt
  <2>6. ASSUME NEW k \in DOMAIN records PROVE ChainRecord(k)'
    <3>1. ChainRecord(k) /\ records[k].export \in DOMAIN csv
      BY <1>1 DEF ChainInv, Basic
    <3>2. ASSUME NEW f \in DOMAIN csv, f # Target(w), NEW last, last = total + 1
          PROVE  Debtors(f, last)' \subseteq Debtors(f, last)
      BY <1>6, <1>10, <1>11, <3>2
    <3>3. records[k].export # Target(w) =>
              Debtors(records[k].export, total + 1)' \subseteq Debtors(records[k].export, total + 1)
      BY <1>3, <3>1, <3>2
    <3>4. QED
      BY <1>1, <1>3, <2>1, <3>1, <3>3, ChainRecordKept
  <2>7. QED
    BY <1>3, <1>4, <2>2, <2>3, <2>4, <2>5, <2>6
<1>16. QED
  BY <1>4, <1>7, <1>13, <1>14, <1>15 DEF IInv

-----------------------------------------------------------------------------
(* The invariant.                                                          *)

LEMMA InitInv == Init => IInv
<1> SUFFICES ASSUME Init PROVE IInv
  OBVIOUS
<1>1. /\ DOMAIN jobs = {} /\ DOMAIN records = {} /\ DOMAIN csv = {} /\ DOMAIN zip = {}
      /\ \A w \in Workers : worker[w] = Idle
  BY DEF Init
<1>2. /\ jobs \in Seq(JobRecord) /\ records \in Seq(Record)
      /\ csv \in Seq(Seq(Rows)) /\ zip \in Seq(Seq(Rows)) /\ Len(zip) = Len(csv)
  BY DEF Init
<1>3. Basic
  BY <1>1, <1>2, Constants DEF Init, Basic
<1>4. JobsType
  BY <1>1, <1>2 DEF JobsType
<1>5. WorkersType /\ FirstAlone
  <2>1. Idle \in Station
    BY DEF Idle, Station, Places, Statuses
  <2>2. worker \in [Workers -> Station]
    BY <2>1 DEF Init
  <2>3. \A w \in Workers : AtWork(w) /\ ~Busy(w) /\ ~First(w)
    BY <1>1 DEF AtWork, Busy, First, Opened, Idle
  <2>4. QED
    BY <2>2, <2>3 DEF WorkersType, FirstAlone
<1>6. WrittenInv /\ OwedInv /\ ZipInv
  BY <1>1 DEF WrittenInv, WrittenBefore, WrittenAt, OwedInv, ZipInv, Idle
<1>7. ChainInv
  BY <1>1 DEF ChainInv, ChainAt, Idle
<1>8. QED
  BY <1>3, <1>4, <1>5, <1>6, <1>7 DEF IInv, Structure

\* What a handler whose call failed, or whose worker died, leaves behind.
LEMMA FailedStep ==
    ASSUME IInv, NEW w \in Workers, CallFails(w) \/ Crash(w)
    PROVE  IInv'
<1>1. /\ Busy(w) /\ faults < MaxFaults /\ faults' = faults + 1
      /\ UNCHANGED <<total, records, attached, csv, archived>>
      /\ \/ zip' = zip
         \/ worker[w].pc \in {"archive", "unlink"} /\ zip' = [zip EXCEPT ![worker[w].export] = Absent]
  BY DEF CallFails, Crash, Busy, files
<1>2. Current(w).run \in Run
  BY <1>1, WorkerFacts DEF IInv, Structure
<1>3. Tried(Current(w).run) \in Run /\ Stalled(Current(w).run) \in Run
  BY <1>2, RunType
<1>4. Leaves(w, Tried(Current(w).run)) \/ Leaves(w, Stalled(Current(w).run))
  <2>1. CASE CallFails(w)
    <3>1. Leaves(w, Tried(Current(w).run))
      BY <1>3, <2>1 DEF CallFails, Throw, Leaves, Current
    <3>2. QED
      BY <3>1
  <2>2. CASE Crash(w)
    <3>1. Leaves(w, Stalled(Current(w).run))
      BY <1>3, <2>2 DEF Crash, Leaves, Current
    <3>2. QED
      BY <3>1
  <2>3. QED
    BY <2>1, <2>2
<1>5. QED
  BY <1>1, <1>3, <1>4, FaultStep

LEMMA ZipStep ==
    ASSUME IInv, NEW w \in Workers, OpenZip(w) \/ WriteZip(w)
    PROVE  IInv'
<1> DEFINE e == worker[w].export
<1>1. Opened(w) /\ UNCHANGED <<total, records, attached, csv, archived, faults>>
  BY DEF OpenZip, WriteZip, Opened
<1>2. Structure /\ Basic /\ JobsType /\ WorkersType
  BY DEF IInv, Structure
<1>3. csv[e] \in Seq(Rows) /\ Absent \in Seq(Rows)
  <2>1. e \in DOMAIN csv
    BY <1>1, <1>2, WorkerFacts DEF Opened, Busy
  <2>2. QED
    BY <1>2, <2>1, RowsOwed DEF Absent
<1>4. CASE OpenZip(w)
  BY <1>1, <1>3, <1>4, ArchiveStep DEF OpenZip
<1>5. CASE WriteZip(w) /\ csv[e] # Absent
  BY <1>1, <1>3, <1>5, ArchiveStep DEF WriteZip
<1>6. CASE WriteZip(w) /\ csv[e] = Absent
  BY <1>1, <1>6, FileMissing DEF WriteZip
<1>7. QED
  BY <1>4, <1>5, <1>6

LEMMA EndStep ==
    ASSUME IInv, NEW w \in Workers, UnlinkCSV(w) \/ Attach(w)
    PROVE  IInv'
<1>1. CASE UnlinkCSV(w) /\ csv[worker[w].export] # Absent
  BY <1>1, UnlinkStep
<1>2. CASE UnlinkCSV(w) /\ csv[worker[w].export] = Absent
  BY <1>2, FileMissing DEF UnlinkCSV
<1>3. CASE Attach(w) /\ worker[w].record \notin attached
  BY <1>3, AttachStep
<1>4. CASE Attach(w) /\ worker[w].record \in attached
  BY <1>4, AttachThrows
<1>5. QED
  BY <1>1, <1>2, <1>3, <1>4

LEMMA NextInv == IInv /\ [Next]_vars => IInv'
<1> SUFFICES ASSUME IInv, [Next]_vars PROVE IInv'
  OBVIOUS
<1>1. CASE Submit
  BY <1>1, SubmitStep
<1>2. ASSUME NEW w \in Workers, WorkerStep(w) PROVE IInv'
  <2>1. CASE Take(w)
    BY <2>1, TakeStep
  <2>2. CASE Open(w)
    BY <2>2, OpenStep
  <2>3. CASE Kill(w)
    BY <2>3, KillStep
  <2>4. CASE Fetch(w)
    BY <2>4, FetchStep
  <2>5. CASE AppendRows(w)
    BY <2>5, AppendStep
  <2>6. CASE QueueNext(w)
    BY <2>6, QueueStep
  <2>7. CASE OpenZip(w) \/ WriteZip(w)
    BY <2>7, ZipStep
  <2>8. CASE MarkDone(w)
    BY <2>8, MarkDoneStep
  <2>9. CASE UnlinkCSV(w) \/ Attach(w)
    BY <2>9, EndStep
  <2>10. CASE Finish(w)
    BY <2>10, FinishStep
  <2>11. QED
    BY <1>2, <2>1, <2>2, <2>3, <2>4, <2>5, <2>6, <2>7, <2>8, <2>9, <2>10 DEF WorkerStep
<1>3. ASSUME NEW w \in Workers, CallFails(w) \/ Crash(w) PROVE IInv'
  BY <1>3, FailedStep
<1>4. ASSUME NEW k \in DOMAIN records, Stop(k) \/ Remove(k) PROVE IInv'
  BY <1>4, UserStep
<1>5. CASE UNCHANGED vars
  BY <1>5, Stutter
<1>6. QED
  BY <1>1, <1>2, <1>3, <1>4, <1>5 DEF Next

LEMMA Invariance == Spec => []IInv
BY InitInv, NextInv, PTL DEF Spec

-----------------------------------------------------------------------------
(* What the invariant says of the exports.                                 *)

\* Jobs, records, files and workers stay well-formed whatever fails: in
\* particular a job and a worker never name an export or a record that is not
\* there.
THEOREM TypeCorrect == Spec => []TypeOK
<1>1. IInv => TypeOK
  <2> SUFFICES ASSUME IInv PROVE TypeOK
    OBVIOUS
  <2>1. Basic /\ JobsType /\ WorkersType
    BY DEF IInv, Structure
  <2>2. /\ DOMAIN csv = 1..Len(csv) /\ DOMAIN records = 1..Len(records) /\ DOMAIN jobs = 1..Len(jobs)
        /\ Len(csv) \in Nat /\ Len(records) \in Nat /\ Len(jobs) \in Nat
        /\ DOMAIN zip = DOMAIN csv
    BY <2>1 DEF Basic, JobsType
  <2>3. ASSUME NEW j \in DOMAIN jobs
        PROVE  /\ jobs[j] \in JobRecord /\ jobs[j].record \in 0..Len(records)
               /\ jobs[j].export \in 0..Len(csv)
    BY <2>1, <2>2 DEF JobsType, Linked, Links
  <2>4. ASSUME NEW k \in DOMAIN records
        PROVE  records[k].status \in Statuses /\ records[k].export \in DOMAIN csv
    <3>1. records \in Seq(Record) /\ records[k].export \in DOMAIN csv
      BY <2>1 DEF Basic
    <3>2. records[k] \in Record
      BY <3>1
    <3>3. QED
      BY <3>1, <3>2 DEF Record
  <2>5. ASSUME NEW e \in DOMAIN csv PROVE csv[e] \in Seq(Rows) /\ zip[e] \in Seq(Rows)
    <3> DEFINE T == Seq(Rows)
    <3>1. csv \in Seq(T) /\ zip \in Seq(T) /\ e \in DOMAIN zip
      BY <2>1, <2>2 DEF Basic
    <3> HIDE DEF T
    <3>2. csv[e] \in T /\ zip[e] \in T
      BY <3>1
    <3>3. QED
      BY <3>2 DEF T
  <2>6. ASSUME NEW w \in Workers
        PROVE  /\ worker[w].pc \in Places /\ worker[w].job \in 0..Len(jobs)
               /\ worker[w].record \in 0..Len(records) /\ worker[w].export \in 0..Len(csv)
    <3>1. AtWork(w) /\ worker[w] \in Station
      BY <2>1 DEF WorkersType
    <3>2. CASE worker[w].pc \in {"idle", "open"}
      BY <2>2, <3>1, <3>2 DEF AtWork, Idle, Station
    <3>3. CASE worker[w].pc \notin {"idle", "open"}
      BY <2>2, <3>1, <3>3 DEF AtWork, Opened, Station
    <3>4. QED
      BY <3>2, <3>3
  <2>7. QED
    BY <2>1, <2>3, <2>4, <2>5, <2>6 DEF TypeOK, Basic
<1>2. QED
  BY <1>1, Invariance, PTL

\* However many workers run, fail and die, the job of a page never runs ahead
\* of the rows before it: appendItemsToCSV has written them by then, as long as
\* createZipArchive has not unlinked the file.
THEOREM Written == Spec => []WrittenBeforeQueued
<1>1. IInv => WrittenBeforeQueued
  BY DEF IInv, WrittenInv, WrittenBefore, WrittenBeforeQueued
<1>2. QED
  BY <1>1, Invariance, PTL

\* As long as nothing failed, the archive that is attached to a job record
\* holds every row of the search result once and in order, for any page size,
\* any number of exports and workers, and whatever the user stopped or removed.
THEOREM Exact == Spec => []AttachedExact
<1>1. IInv => AttachedExact
  <2> SUFFICES ASSUME IInv, faults = 0, NEW k \in attached
               PROVE  zip[records[k].export] = [i \in Rows |-> i]
    BY DEF AttachedExact
  <2>1. k \in DOMAIN records
    BY DEF IInv, Structure, Basic
  <2>2. zip[records[k].export] = Upto(total)
    BY <2>1 DEF IInv, ChainInv, ChainRecord
  <2>3. QED
    BY <2>2 DEF Upto, Rows
<1>2. QED
  BY <1>1, Invariance, PTL

\* A row is in a file at most once more than calls failed and workers died: a
\* retried or stalled job forks the chain of page jobs, and no chain multiplies.
THEOREM Repeats == Spec => []RepeatsBounded
<1>1. IInv => RepeatsBounded
  <2> SUFFICES ASSUME IInv, NEW e \in DOMAIN csv, NEW i \in Rows
               PROVE  Occurrences(csv[e], i) <= faults + 1 /\ Occurrences(zip[e], i) <= faults + 1
    BY DEF RepeatsBounded
  <2>1. Structure /\ Basic /\ e \in DOMAIN zip /\ total \in Nat /\ faults \in Nat
    BY Constants DEF IInv, Structure, Basic
  <2>2. i \in 1..(total + 1)
    BY <2>1 DEF Rows
  <2>3. Occurrences(csv[e], i) + Cardinality(Debtors(e, i)) <= faults + 1
    BY <2>2 DEF IInv, OwedInv
  <2>4. Occurrences(csv[e], i) \in Nat /\ Cardinality(Debtors(e, i)) \in Nat
    BY <2>1, RowsOwed, DebtorsFinite DEF Structure, JobsType
  <2>5. Occurrences(zip[e], i) <= faults + 1
    BY <2>1 DEF IInv, ZipInv
  <2>6. QED
    BY <2>1, <2>3, <2>4, <2>5
<1>2. QED
  BY <1>1, Invariance, PTL

\* The files of an export change only by a worker at work for it.
LEMMA FilesChange ==
    ASSUME IInv, Next, NEW e,
           (e \in DOMAIN csv /\ csv'[e] # csv[e]) \/ (e \in archived' /\ e \notin archived)
    PROVE  \E w \in Workers :
               /\ Target(w) = e /\ Busy(w)
               /\ AppendRows(w) \/ (UnlinkCSV(w) /\ csv[e] # Absent)
               /\ e \in archived' /\ e \notin archived => worker[w].pc = "unlink"
<1>1. Structure /\ Basic /\ JobsType /\ WorkersType
  BY DEF IInv, Structure
<1>2. csv' # csv \/ archived' # archived
  OBVIOUS
<1>3. ~Submit /\ \A k \in DOMAIN records : ~Stop(k) /\ ~Remove(k)
  BY <1>2 DEF Submit, Stop, Remove, files
<1>4. \A w \in Workers : ~CallFails(w) /\ ~Crash(w)
  BY <1>2 DEF CallFails, Crash, files
<1>5. PICK w \in Workers : WorkerStep(w)
  BY <1>3, <1>4 DEF Next
<1>6. ~Open(w)
  <2> SUFFICES ASSUME Open(w) PROVE FALSE
    OBVIOUS
  <2>1. archived' = archived
    BY DEF Open
  <2>2. e \in DOMAIN csv => csv'[e] = csv[e]
    BY <1>1, OpenFiles
  <2>3. QED
    BY <2>1, <2>2
<1>7. /\ ~Take(w) /\ ~Kill(w) /\ ~Fetch(w) /\ ~QueueNext(w) /\ ~OpenZip(w) /\ ~WriteZip(w)
      /\ ~MarkDone(w) /\ ~Attach(w) /\ ~Finish(w)
  BY <1>2 DEF Take, Kill, Fetch, QueueNext, OpenZip, WriteZip, MarkDone, Attach, Finish, files
<1>8. AppendRows(w) \/ UnlinkCSV(w)
  BY <1>5, <1>6, <1>7 DEF WorkerStep
<1>9. worker[w].pc \in {"append", "unlink"}
  BY <1>8 DEF AppendRows, UnlinkCSV
<1>10. Target(w) = worker[w].export /\ Busy(w)
  BY <1>9 DEF Target, Busy
<1>11. worker[w].export = e
  <2>1. CASE AppendRows(w)
    BY <1>1, <2>1 DEF AppendRows, Basic
  <2>2. CASE UnlinkCSV(w)
    BY <1>1, <2>2 DEF UnlinkCSV, Basic
  <2>3. QED
    BY <1>8, <2>1, <2>2
<1>12. UnlinkCSV(w) => csv[e] # Absent
  BY <1>2, <1>11 DEF UnlinkCSV
<1>13. AppendRows(w) => archived' = archived
  BY DEF AppendRows
<1>14. UnlinkCSV(w) => worker[w].pc = "unlink"
  BY DEF UnlinkCSV
<1>15. QED
  BY <1>8, <1>10, <1>11, <1>12, <1>13, <1>14

\* As long as nothing failed, no row is written for an export whose record is
\* marked killed: there is no second chain of jobs behind the one that saw
\* the stop.
KilledExportStops ==
    [][\A k \in DOMAIN records :
          faults = 0 /\ records[k].status = "RIP"
              => csv'[records[k].export] = csv[records[k].export]]_vars

\* Once checkJobStatus has marked a record killed, and as long as nothing
\* failed, nothing is written to the CSV file of its export or takes it away:
\* no other chain of page jobs is at work behind the one that saw the stop.
THEOREM Killed == Spec => KilledExportStops
<1>1. IInv /\ [Next]_vars =>
          [\A k \in DOMAIN records :
               faults = 0 /\ records[k].status = "RIP"
                   => csv'[records[k].export] = csv[records[k].export]]_vars
  <2> SUFFICES ASSUME IInv, Next, NEW k \in DOMAIN records, faults = 0, records[k].status = "RIP",
                      csv'[records[k].export] # csv[records[k].export]
               PROVE  FALSE
    OBVIOUS
  <2>1. Structure /\ Basic /\ JobsType /\ WorkersType /\ records[k].export \in DOMAIN csv
    BY DEF IInv, Structure, Basic
  <2>2. PICK w \in Workers : Target(w) = records[k].export /\ Busy(w)
    BY <2>1, FilesChange
  <2>3. Debtors(records[k].export, total + 1) = {}
    BY DEF IInv, ChainInv, ChainRecord
  <2>4. QED
    BY <2>1, <2>2, <2>3, WorkerOwes
<1>2. QED
  BY <1>1, Invariance, PTL DEF Spec, KilledExportStops

\* A worker that only changes its place.
LEMMA Moves ==
    ASSUME WorkersType, NEW w \in Workers, NEW place, Goto(w, place)
    PROVE  worker'[w].pc = place /\ worker'[w].export = worker[w].export
<1> DEFINE next == [worker[w] EXCEPT !.pc = place]
<1>1. worker' = [worker EXCEPT ![w] = next]
  BY DEF Goto
<1>2. next.pc = place /\ next.export = worker[w].export
  BY DEF WorkersType, Station
<1> HIDE DEF next
<1>3. worker'[w] = next
  BY <1>1 DEF WorkersType
<1>4. QED
  BY <1>2, <1>3

LEMMA Freed ==
    ASSUME WorkersType, NEW w \in Workers, worker' = [worker EXCEPT ![w] = Idle]
    PROVE  worker'[w].pc = "idle"
BY DEF WorkersType, Idle

\* The archive of an export that one worker is about to make final.
SoloInv ==
    \A w \in Workers :
        worker[w].pc = "unlink" /\ worker[w].export \notin archived
            => Rows \subseteq Range(zip[worker[w].export])

LEMMA SoloNext ==
    ASSUME \A v, w \in Workers : v = w, IInv, SoloInv, [Next]_vars
    PROVE  SoloInv'
<1> SUFFICES ASSUME NEW w \in Workers, worker'[w].pc = "unlink", worker'[w].export \notin archived'
             PROVE  Rows' \subseteq Range(zip'[worker'[w].export])
  BY DEF SoloInv
<1>1. Structure /\ Basic /\ JobsType /\ WorkersType /\ total' = total /\ Rows' = Rows
  <2>1. total' = total
    BY DEF Next, WorkerStep, Submit, Take, Open, Kill, Fetch, AppendRows, QueueNext, OpenZip,
           WriteZip, UnlinkCSV, MarkDone, Attach, Finish, CallFails, Crash, Stop, Remove, vars
  <2>2. QED
    BY <2>1 DEF IInv, Structure, Rows
<1>2. CASE WriteZip(w)
  <2> DEFINE e == worker[w].export
  <2>1. worker[w].pc = "archive" /\ archived' = archived /\ Busy(w) /\ Opened(w)
    BY <1>2 DEF WriteZip, Busy, Opened
  <2>2. e \in DOMAIN csv /\ e \in DOMAIN zip
    BY <1>1, <2>1, WorkerFacts DEF Basic
  <2>3. csv[e] # Absent
    <3>1. csv[e] = Absent => worker' = [worker EXCEPT ![w] = Idle]
      BY <1>2 DEF WriteZip, Throw
    <3>2. QED
      BY <1>1, <3>1, Freed
  <2>4. worker'[w].export = e /\ zip'[e] = csv[e]
    <3>1. Goto(w, "unlink") /\ zip' = [zip EXCEPT ![e] = csv[e]]
      BY <1>2, <2>3 DEF WriteZip
    <3>2. QED
      BY <1>1, <2>2, <3>1, Moves
  <2>5. WrittenAt(w)
    BY DEF IInv, WrittenInv
  <2>6. Rows \subseteq Range(csv[e])
    BY <2>1, <2>4, <2>5 DEF WrittenAt
  <2>7. QED
    BY <1>1, <2>4, <2>6
<1>3. CASE worker'[w] = worker[w] /\ zip' = zip /\ archived' = archived
  BY <1>1, <1>3 DEF SoloInv
<1>4. CASE Submit \/ (\E k \in DOMAIN records : Stop(k) \/ Remove(k)) \/ UNCHANGED vars
  BY <1>3, <1>4 DEF Submit, Stop, Remove, vars, files
<1>5. ASSUME NEW v \in Workers, WorkerStep(v), ~WriteZip(w) PROVE FALSE
  <2>1. v = w
    OBVIOUS
  <2>2. worker'[w].pc # "unlink"
    <3>1. CASE Open(v)
      <4>1. worker'[w].pc \in {"kill", "fetch"}
        BY <1>1, <2>1, <3>1, OpenFiles
      <4>2. QED
        BY <4>1
    <3>2. CASE Take(v)
      <4>1. PICK j : worker' = [worker EXCEPT ![v] = [Idle EXCEPT !.pc = "open", !.job = j]]
        BY <3>2 DEF Take
      <4>2. QED
        BY <1>1, <2>1, <4>1 DEF WorkersType, Idle
    <3>3. CASE Kill(v) \/ QueueNext(v) \/ OpenZip(v) \/ UnlinkCSV(v) \/ MarkDone(v) \/ Attach(v) \/ Finish(v)
      <4>1. \/ \E place \in {"finish", "archive", "done", "attach"} : Goto(w, place)
            \/ worker' = [worker EXCEPT ![w] = Idle]
        BY <2>1, <3>3 DEF Kill, AfterKill, QueueNext, OpenZip, UnlinkCSV, MarkDone, Attach, Finish, Throw
      <4>2. QED
        BY <1>1, <4>1, Moves, Freed
    <3>4. CASE Fetch(v) \/ AppendRows(v)
      <4>1. Busy(v)
        BY <3>4 DEF Fetch, AppendRows, Busy
      <4>2. AfterAppend(v) \in {"queue", "zip"}
        BY <1>1, <4>1, AfterPage
      <4>3. PICK place, exists :
                /\ worker' = [worker EXCEPT ![w] = [worker[w] EXCEPT !.pc = place, !.exists = exists]]
                /\ place \in {"queue", "zip", "append"}
        BY <2>1, <3>4, <4>2 DEF Fetch, AppendRows
      <4>4. QED
        BY <1>1, <4>3 DEF WorkersType, Station
    <3>5. QED
      BY <1>5, <2>1, <3>1, <3>2, <3>3, <3>4 DEF WorkerStep
  <2>3. QED
    BY <2>2
<1>6. ASSUME NEW v \in Workers, CallFails(v) \/ Crash(v) PROVE FALSE
  <2>1. v = w
    OBVIOUS
  <2>2. worker'[w] = Idle
    BY <1>1, <1>6, <2>1 DEF CallFails, Crash, Throw, WorkersType
  <2>3. QED
    BY <2>2 DEF Idle
<1>7. QED
  BY <1>2, <1>4, <1>5, <1>6 DEF Next

\* With one worker on the queue, the CSV file of an export is unlinked for the
\* first time only when every row of the search result is in the archive,
\* however often its jobs were retried.  (With two, a second chain of jobs that
\* a failure forked may open the archive anew in between.)
THEOREM FirstComplete ==
    ASSUME \A v, w \in Workers : v = w
    PROVE  Spec => FirstArchiveComplete
<1>1. Init => SoloInv
  BY DEF Init, SoloInv, Idle
<1>2. IInv /\ SoloInv /\ [Next]_vars => SoloInv'
  BY SoloNext
<1>3. IInv /\ SoloInv /\ [Next]_vars =>
          [\A e \in archived' \ archived : Rows \subseteq Range(zip[e])]_vars
  <2> SUFFICES ASSUME IInv, SoloInv, Next, NEW e \in archived', e \notin archived
               PROVE  Rows \subseteq Range(zip[e])
    OBVIOUS
  <2>1. PICK w \in Workers : Target(w) = e /\ Busy(w) /\ worker[w].pc = "unlink"
    BY FilesChange
  <2>2. worker[w].export = e
    BY <2>1 DEF Target
  <2>3. QED
    BY <2>1, <2>2 DEF SoloInv
<1>4. QED
  BY <1>1, <1>2, <1>3, Invariance, PTL DEF Spec, FirstArchiveComplete
-----------------------------------------------------------------------------
(* The export as one process: what its mapping depends on.                 *)

\* While nothing failed, the archive of an export is not there before a worker
\* writes it; a worker only marks a record killed that is to be stopped; and
\* one that has archived the file finds it gone.
StageWaiting(j) ==
    jobs[j].run.state = "waiting" /\ jobs[j].export # 0 => zip[jobs[j].export] = Absent

StageAt(w) ==
    LET e == Target(w)
    IN  /\ worker[w].pc \in {"open", "kill", "fetch", "append", "queue", "zip", "archive"} /\ e # 0
              => zip[e] = Absent
        /\ worker[w].pc = "kill" => worker[w].record \in StopRecorded
        /\ worker[w].pc \in {"done", "attach"} => csv[e] = Absent
        /\ worker[w].pc \in {"unlink", "done", "attach"} => total > 0

StageInv ==
    faults = 0 => /\ \A j \in DOMAIN jobs : StageWaiting(j)
                  /\ \A w \in Workers : StageAt(w)

\* A job that still has something to do for an export, by itself or by the
\* worker that runs it.
Claims(j, e) ==
    \/ jobs[j].run.state = "waiting" /\ jobs[j].export = e
    \/ \E w \in Workers : worker[w].job = j /\ Target(w) = e

Rest(j, e) == \E i \in DOMAIN jobs \ {j} : Claims(i, e)

Due == {e \in DOMAIN csv : \E j \in DOMAIN jobs : Claims(j, e)}

\* To have something to do for an export is to owe it a change of its files.
LEMMA ClaimsOwes ==
    ASSUME Basic, JobsType, WorkersType, NEW j \in DOMAIN jobs, NEW e
    PROVE  Claims(j, e) <=> j \in Debtors(e, total + 1)
<1>1. j # 0
  BY JobFacts
<1>2. Claims(j, e) => j \in Debtors(e, total + 1)
  <2>1. CASE jobs[j].run.state = "waiting" /\ jobs[j].export = e
    BY <2>1, JobOwes
  <2>2. ASSUME NEW w \in Workers, worker[w].job = j, Target(w) = e
        PROVE  j \in Debtors(e, total + 1)
    <3>1. Busy(w)
      BY <1>1, <2>2 DEF WorkersType, AtWork, Busy, Idle
    <3>2. QED
      BY <2>2, <3>1, WorkerOwes
  <2>3. QED
    BY <2>1, <2>2 DEF Claims
<1>3. j \in Debtors(e, total + 1) => Claims(j, e)
  BY DEF Debtors, Owes, Claims
<1>4. QED
  BY <1>2, <1>3

\* While nothing failed, one job at most has something to do for an export.
LEMMA OneClaim ==
    ASSUME IInv, faults = 0, NEW e \in DOMAIN csv, NEW j \in DOMAIN jobs, Claims(j, e)
    PROVE  ~Rest(j, e)
<1>1. Structure /\ Basic /\ JobsType /\ WorkersType /\ OwedInv
  BY DEF IInv, Structure
<1>2. ASSUME NEW i \in DOMAIN jobs, Claims(i, e) PROVE i = j
  BY <1>1, <1>2, ClaimsOwes, OnlyOne
<1>3. QED
  BY <1>2 DEF Rest

\* An export that a job or a worker is about is not over.
DueLive == faults = 0 => Live = Due

LEMMA LiveIsDue == IInv => DueLive
<1> SUFFICES ASSUME IInv, faults = 0, NEW e \in DOMAIN csv
             PROVE  About(e) /\ ~Over(e) <=> \E j \in DOMAIN jobs : Claims(j, e)
  BY DEF DueLive, Live, Due
<1>1. Structure /\ Basic /\ JobsType /\ WorkersType /\ e # 0
  <2>1. Structure /\ Basic /\ JobsType /\ WorkersType
    BY DEF IInv, Structure
  <2>2. QED
    BY <2>1, RowsOwed
<1>2. ASSUME NEW j \in DOMAIN jobs, Claims(j, e) PROVE About(e) /\ ~Over(e)
  <2>1. About(e)
    BY <1>2 DEF Claims, About
  <2>2. ASSUME NEW k \in DOMAIN records, records[k].export = e,
               k \in attached \/ records[k].status = "RIP"
        PROVE  FALSE
    <3>1. Debtors(records[k].export, total + 1) = {}
      BY <2>2 DEF IInv, ChainInv, ChainRecord
    <3>2. QED
      BY <1>1, <1>2, <2>2, <3>1, ClaimsOwes
  <2>3. QED
    BY <2>1, <2>2 DEF Over
<1>3. ASSUME About(e) PROVE \E j \in DOMAIN jobs : Claims(j, e)
  <2>1. ASSUME NEW j \in DOMAIN jobs, jobs[j].run.state = "waiting", jobs[j].export = e
        PROVE  \E i \in DOMAIN jobs : Claims(i, e)
    BY <2>1 DEF Claims
  <2>2. ASSUME NEW w \in Workers, Target(w) = e PROVE \E i \in DOMAIN jobs : Claims(i, e)
    <3>1. Busy(w)
      BY <1>1, <2>2, TargetType
    <3>2. worker[w].job \in DOMAIN jobs
      BY <1>1, <3>1, WorkerFacts
    <3>3. QED
      BY <2>2, <3>2 DEF Claims
  <2>3. QED
    BY <1>3, <2>1, <2>2 DEF About
<1>4. QED
  BY <1>2, <1>3

LEMMA LiveIsDueNext == IInv' => DueLive'
BY LiveIsDue, PTL

\* A worker has to do what its job has to.
WorkersClaim == \A w \in Workers : Busy(w) => \A e : Claims(worker[w].job, e) <=> Target(w) = e

LEMMA ClaimsSelf == Basic /\ JobsType /\ WorkersType => WorkersClaim
<1> SUFFICES ASSUME Basic, JobsType, WorkersType, NEW w \in Workers, Busy(w), NEW e
             PROVE  Claims(worker[w].job, e) <=> Target(w) = e
  BY DEF WorkersClaim
<1>1. jobs[worker[w].job].run.state # "waiting"
  BY WorkerFacts DEF Current
<1>2. \A v \in Workers : worker[v].job = worker[w].job => v = w
  BY DEF WorkersType
<1>3. QED
  BY <1>1, <1>2 DEF Claims

LEMMA ClaimsSelfNext == Basic' /\ JobsType' /\ WorkersType' => WorkersClaim'
BY ClaimsSelf, PTL

\* What the other jobs have to do stays what it was.
LEMMA ClaimsOther ==
    ASSUME Basic, JobsType, WorkersType, NEW w \in Workers, NEW j, Frame(w, j),
           NEW i \in DOMAIN jobs, i # j, NEW e
    PROVE  Claims(i, e)' <=> Claims(i, e)
<1>1. i # 0
  BY JobFacts
<1>2. worker[w].job # i /\ worker'[w].job # i
  BY <1>1 DEF Frame
<1>3. ASSUME NEW v \in Workers \ {w}, worker[v].job = i PROVE Target(v)' = Target(v)
  <2>1. worker'[v] = worker[v] /\ total' = total
    BY DEF Frame
  <2>2. Current(v)'.offset = Current(v).offset /\ Current(v)'.export = Current(v).export
    BY <1>3, <2>1 DEF Current, Frame, JobsGrown
  <2>3. QED
    BY <2>1, <2>2, TargetKept
<1>4. \A v \in Workers \ {w} : worker'[v] = worker[v]
  BY DEF Frame
<1>5. jobs'[i].run = jobs[i].run /\ jobs'[i].export = jobs[i].export
  BY DEF Frame, JobsGrown
<1>6. (\E v \in Workers : worker'[v].job = i /\ Target(v)' = e)
      <=> \E v \in Workers : worker[v].job = i /\ Target(v) = e
  BY <1>2, <1>3, <1>4
<1>7. QED
  BY <1>5, <1>6 DEF Claims

\* So an export is due after a step of a job if another job has something to do
\* for it, or this one then has.
LEMMA DueOf ==
    ASSUME Basic, JobsType, WorkersType, NEW w \in Workers, NEW j, Frame(w, j),
           DOMAIN jobs' = DOMAIN jobs, NEW e
    PROVE  /\ e \in Due <=> e \in DOMAIN csv /\ (Claims(j, e) \/ Rest(j, e))
           /\ e \in Due' <=> e \in DOMAIN csv' /\ (Claims(j, e)' \/ Rest(j, e))
<1>1. j \in DOMAIN jobs
  BY DEF Frame
<1>2. \A i \in DOMAIN jobs \ {j} : Claims(i, e)' <=> Claims(i, e)
  BY ClaimsOther
<1>3. QED
  BY <1>1, <1>2 DEF Due, Rest

-----------------------------------------------------------------------------
(* The export as one process: the kinds of steps.                          *)

\* A step of a worker: what the other jobs and workers rely on stays.
LEMMA StageOthers ==
    ASSUME IInv, StageInv, faults = 0, NEW w \in Workers, NEW j, Frame(w, j),
           OnlyFilesOf(Target(w)), Busy(w) => j = worker[w].job,
           \A k \in StopRecorded : k \in StopRecorded' \/ records[k].export = Target(w)
    PROVE  /\ \A i \in DOMAIN jobs : i # j => StageWaiting(i)'
           /\ \A v \in Workers \ {w} : StageAt(v)'
<1>1. Structure /\ Basic /\ JobsType /\ WorkersType /\ 0 \notin DOMAIN csv /\ j \in DOMAIN jobs
  BY DEF IInv, Structure, Basic, Frame
<1>2. ASSUME NEW i \in DOMAIN jobs, i # j, NEW e \in DOMAIN csv, Claims(i, e)
      PROVE  e # Target(w) /\ csv'[e] = csv[e] /\ zip'[e] = zip[e]
  <2>1. e # Target(w)
    <3> SUFFICES ASSUME e = Target(w) PROVE FALSE
      OBVIOUS
    <3>1. Busy(w)
      BY <1>1, TargetType
    <3>2. Claims(j, e)
      BY <1>1, <3>1, ClaimsSelf DEF WorkersClaim
    <3>3. QED
      BY <1>1, <1>2, <3>2, OneClaim DEF Rest
  <2>2. QED
    BY <2>1 DEF OnlyFilesOf
<1>3. ASSUME NEW i \in DOMAIN jobs, i # j PROVE StageWaiting(i)'
  <2>1. jobs'[i].run = jobs[i].run /\ jobs'[i].export = jobs[i].export
    BY <1>3 DEF Frame, JobsGrown
  <2>2. ASSUME jobs[i].run.state = "waiting", jobs[i].export # 0
        PROVE  zip'[jobs[i].export] = Absent
    <3>1. Claims(i, jobs[i].export) /\ jobs[i].export \in DOMAIN csv
      BY <1>1, <2>2 DEF Claims, JobsType, Linked, Links
    <3>2. zip[jobs[i].export] = Absent
      BY <2>2 DEF StageInv, StageWaiting
    <3>3. QED
      BY <1>2, <1>3, <3>1, <3>2
  <2>3. QED
    BY <2>1, <2>2 DEF StageWaiting
<1>4. ASSUME NEW v \in Workers \ {w} PROVE StageAt(v)'
  <2>1. worker'[v] = worker[v] /\ total' = total /\ StageAt(v)
    BY DEF Frame, StageInv
  <2>2. CASE ~Busy(v)
    BY <2>1, <2>2 DEF Busy, StageAt
  <2>3. CASE Busy(v)
    <3>1. worker[v].job \in DOMAIN jobs /\ worker[v].job # j
      BY <1>1, <2>3, WorkerFacts DEF Frame
    <3>2. Current(v)'.offset = Current(v).offset /\ Current(v)'.export = Current(v).export
      BY <2>1, <3>1 DEF Current, Frame, JobsGrown
    <3>3. Target(v)' = Target(v)
      BY <2>1, <3>2, TargetKept
    <3>4. CASE Target(v) = 0
      <4>1. worker[v].pc \in {"open", "finish"}
        <5>1. worker[v].pc \notin {"open", "finish"} => Target(v) \in DOMAIN csv
          BY <1>1, <2>3, TargetType DEF Opened, Busy
        <5>2. QED
          BY <1>1, <3>4, <5>1
      <4>2. QED
        BY <2>1, <3>3, <3>4, <4>1 DEF StageAt
    <3>5. CASE Target(v) # 0
      <4>1. Target(v) \in DOMAIN csv
        BY <1>1, <3>5, TargetType
      <4>2. Claims(worker[v].job, Target(v))
        BY <1>1, <2>3, ClaimsSelf DEF WorkersClaim
      <4>3. Target(v) # Target(w) /\ csv'[Target(v)] = csv[Target(v)] /\ zip'[Target(v)] = zip[Target(v)]
        BY <1>2, <3>1, <4>1, <4>2
      <4>4. worker[v].pc = "kill" => worker'[v].record \in StopRecorded'
        <5> SUFFICES ASSUME worker[v].pc = "kill" PROVE worker[v].record \in StopRecorded'
          BY <2>1
        <5>1. worker[v].record \in StopRecorded
          BY <2>1 DEF StageAt
        <5>2. Opened(v) /\ worker[v].pc # "finish"
          BY DEF Opened
        <5>3. worker[v].record \in DOMAIN records /\ records[worker[v].record].export = Target(v)
          BY <1>1, <2>3, <5>2, TargetType DEF WorkersType, AtWork, Busy
        <5>4. QED
          BY <4>3, <5>1, <5>3
      <4>5. QED
        BY <2>1, <3>3, <4>3, <4>4 DEF StageAt
    <3>6. QED
      BY <3>4, <3>5
  <2>4. QED
    BY <2>2, <2>3
<1>5. QED
  BY <1>3, <1>4

\* A handler goes on: the export it works on stays due until it is through.
LEMMA GoesDue ==
    ASSUME IInv, IInv', NEW w \in Workers, Opened(w), worker[w].pc # "finish",
           NEW next, Goes(w, next), Grown, DOMAIN csv' = DOMAIN csv, faults = 0, faults' = 0,
           next.pc \notin {"idle", "open"}, next.export = worker[w].export
    PROVE  /\ Frame(w, worker[w].job) /\ Busy(w) /\ worker'[w] = next
           /\ Target(w) = worker[w].export /\ Target(w) \in DOMAIN csv /\ Target(w) \in Live
           /\ Live' = IF next.pc = "finish" THEN Live \ {Target(w)} ELSE Live
<1> PICK j : j = worker[w].job
  OBVIOUS
<1>1. /\ Structure /\ Basic /\ JobsType /\ WorkersType /\ Busy(w)
      /\ Basic' /\ JobsType' /\ WorkersType'
  BY DEF IInv, Structure, Opened, Busy
<1>2. Frame(w, j) /\ worker'[w] = next /\ DOMAIN jobs' = DOMAIN jobs /\ j \in DOMAIN jobs
  BY <1>1, GoesFrame, WorkerFacts DEF Goes
<1>3. Target(w) = worker[w].export /\ Target(w) \in DOMAIN csv /\ 0 \notin DOMAIN csv
  BY <1>1, TargetType, RowsOwed
<1>4. Target(w)' = IF next.pc = "finish" THEN 0 ELSE Target(w)
  <2>1. next.pc # "finish" => Target(w)' = worker'[w].export
    BY <1>2 DEF Target
  <2>2. next.pc = "finish" => Target(w)' = 0
    BY <1>2 DEF Target
  <2>3. QED
    BY <1>2, <1>3, <2>1, <2>2
<1>5. ASSUME NEW e PROVE Claims(j, e) <=> e = Target(w)
  BY <1>1, ClaimsSelf DEF WorkersClaim
<1>6. ASSUME NEW e \in DOMAIN csv PROVE Claims(j, e)' <=> next.pc # "finish" /\ e = Target(w)
  <2>1. WorkersClaim' /\ Busy(w)' /\ worker'[w].job = j
    BY <1>1, <1>2, ClaimsSelfNext DEF Busy, Goes
  <2>2. QED
    BY <1>3, <1>4, <2>1 DEF WorkersClaim
<1>7. ASSUME NEW e \in DOMAIN csv
      PROVE  e \in Due' <=> e \in Due /\ (next.pc # "finish" \/ e # Target(w))
  <2>1. Rest(j, e) => e # Target(w)
    BY <1>2, <1>3, <1>5, OneClaim
  <2>2. /\ e \in Due <=> Claims(j, e) \/ Rest(j, e)
        /\ e \in Due' <=> Claims(j, e)' \/ Rest(j, e)
    BY <1>1, <1>2, DueOf
  <2>3. QED
    BY <1>5, <1>6, <2>1, <2>2
<1>8. Target(w) \in Due
  BY <1>2, <1>3, <1>5 DEF Due
<1>9. Live = Due /\ Live' = Due'
  BY LiveIsDue, LiveIsDueNext DEF DueLive
<1>10. \A e : e \in Due' => e \in DOMAIN csv
  BY DEF Due
<1>11. Due \subseteq DOMAIN csv
  BY DEF Due
<1>12. QED
  BY <1>1, <1>2, <1>3, <1>7, <1>8, <1>9, <1>10, <1>11

\* What its step has to show of itself.
LEMMA StageGoes ==
    ASSUME IInv, IInv', StageInv, NEW w \in Workers, Opened(w), worker[w].pc # "finish",
           NEW next, Goes(w, next), Grown, DOMAIN csv' = DOMAIN csv, faults = 0, faults' = 0,
           next.pc \notin {"idle", "open"}, next.export = worker[w].export,
           OnlyFilesOf(Target(w)),
           \A k \in StopRecorded : k \in StopRecorded' \/ records[k].export = Target(w),
           StageAt(w)'
    PROVE  StageInv'
<1> PICK j : j = worker[w].job
  OBVIOUS
<1>1. Structure /\ Basic /\ JobsType /\ WorkersType /\ Busy(w)
  BY DEF IInv, Structure, Opened, Busy
<1>2. Frame(w, j) /\ DOMAIN jobs' = DOMAIN jobs
  BY GoesDue DEF Goes
<1>3. /\ \A i \in DOMAIN jobs : i # j => StageWaiting(i)'
      /\ \A v \in Workers \ {w} : StageAt(v)'
  BY <1>2, StageOthers
<1>4. StageWaiting(j)'
  <2>1. jobs'[j].run.state = "active"
    BY <1>1, WorkerFacts DEF Current, Goes
  <2>2. QED
    BY <2>1 DEF StageWaiting
<1>5. QED
  BY <1>2, <1>3, <1>4 DEF StageInv

\* A worker is done with its job, which has nothing to do for an export then.
LEMMA LeavesDue ==
    ASSUME IInv, IInv', NEW w \in Workers, Busy(w), NEW run, Leaves(w, run), Grown,
           DOMAIN csv' = DOMAIN csv, faults = 0, faults' = 0,
           run.state # "waiting" \/ Current(w).export = 0
    PROVE  /\ Frame(w, worker[w].job)
           /\ Live' = Live \ {Target(w)}
           /\ Target(w) # 0 => Target(w) \in Live
<1> PICK j : j = worker[w].job
  OBVIOUS
<1>1. /\ Structure /\ Basic /\ JobsType /\ WorkersType
      /\ Basic' /\ JobsType' /\ WorkersType' /\ 0 \notin DOMAIN csv
  <2>1. /\ Structure /\ Basic /\ JobsType /\ WorkersType
        /\ Basic' /\ JobsType' /\ WorkersType'
    BY DEF IInv, Structure
  <2>2. 0 \notin DOMAIN csv
    BY <2>1, RowsOwed
  <2>3. QED
    BY <2>1, <2>2
<1>2. /\ Frame(w, j) /\ worker'[w] = Idle /\ DOMAIN jobs' = DOMAIN jobs /\ jobs'[j].run = run
      /\ j \in DOMAIN jobs /\ j # 0
  BY <1>1, LeavesStructure, WorkerFacts
<1>3. ASSUME NEW e PROVE Claims(j, e) <=> e = Target(w)
  BY <1>1, ClaimsSelf DEF WorkersClaim
<1>4. ASSUME NEW e \in DOMAIN csv PROVE ~Claims(j, e)'
  <2>1. \A v \in Workers : worker'[v].job # j
    BY <1>2 DEF Frame, Idle
  <2>2. jobs'[j].export = Current(w).export
    BY <1>2 DEF Frame, JobsGrown, Current
  <2>3. QED
    BY <1>1, <1>2, <2>1, <2>2 DEF Claims
<1>5. ASSUME NEW e \in DOMAIN csv PROVE e \in Due' <=> e \in Due /\ e # Target(w)
  <2>1. Rest(j, e) => e # Target(w)
    BY <1>2, <1>3, OneClaim
  <2>2. /\ e \in Due <=> Claims(j, e) \/ Rest(j, e)
        /\ e \in Due' <=> Claims(j, e)' \/ Rest(j, e)
    BY <1>1, <1>2, DueOf
  <2>3. QED
    BY <1>3, <1>4, <2>1, <2>2
<1>6. Target(w) # 0 => Target(w) \in Due
  <2>1. Target(w) = 0 \/ Target(w) \in DOMAIN csv
    BY <1>1, TargetType
  <2>2. QED
    BY <1>2, <1>3, <2>1 DEF Due
<1>7. Live = Due /\ Live' = Due'
  BY LiveIsDue, LiveIsDueNext DEF DueLive
<1>8. Due \subseteq DOMAIN csv /\ \A e : e \in Due' => e \in DOMAIN csv
  BY DEF Due
<1>9. QED
  BY <1>2, <1>5, <1>6, <1>7, <1>8

LEMMA StageLeaves ==
    ASSUME IInv, IInv', StageInv, NEW w \in Workers, Busy(w), NEW run, Leaves(w, run), Grown,
           DOMAIN csv' = DOMAIN csv, faults = 0, faults' = 0, OnlyFilesOf(Target(w)),
           records' = records, run.state # "waiting" \/ Current(w).export = 0
    PROVE  StageInv'
<1> PICK j : j = worker[w].job
  OBVIOUS
<1>1. Structure /\ Basic
  BY DEF IInv, Structure
<1>2. /\ Frame(w, j) /\ worker'[w] = Idle /\ DOMAIN jobs' = DOMAIN jobs /\ jobs'[j].run = run
  BY <1>1, LeavesStructure DEF IInv, Structure
<1>3. StopRecorded' = StopRecorded
  BY DEF StopRecorded
<1>4. /\ \A i \in DOMAIN jobs : i # j => StageWaiting(i)'
      /\ \A v \in Workers \ {w} : StageAt(v)'
  BY <1>2, <1>3, StageOthers
<1>5. StageAt(w)'
  BY <1>2 DEF StageAt, Idle
<1>6. StageWaiting(j)'
  <2>1. j \in DOMAIN jobs /\ jobs'[j].export = Current(w).export
    BY <1>2 DEF Frame, JobsGrown, Current
  <2>2. QED
    BY <1>2, <2>1 DEF StageWaiting
<1>7. QED
  BY <1>2, <1>4, <1>5, <1>6 DEF StageInv

-----------------------------------------------------------------------------
(* The export as one process: the steps.                                   *)

\* Nothing that the abstract export has changes.
Quiet == UNCHANGED <<total, csv, zip, Live, ExportsOf(StopRecorded), ExportsOf(attached)>>

\* A step is one of the abstract export, or none.
Mapped == Promise!Step \/ Quiet

\* Records keep their exports.
LEMMA RecordsNamed ==
    ASSUME Basic, Grown
    PROVE  /\ StopRecorded' = StopRecorded => ExportsOf(StopRecorded)' = ExportsOf(StopRecorded)
           /\ attached' = attached => ExportsOf(attached)' = ExportsOf(attached)
BY DEF Basic, Grown, ExportsOf, StopRecorded

\* A step of the abstract export for one that is live.
LEMMA StepOf ==
    ASSUME NEW e \in Live,
           Promise!Write(e) \/ Promise!Pack(e) \/ Promise!RemoveFile(e) \/ Promise!Deliver(e)
               \/ Promise!Stop(e)
    PROVE  Mapped
BY DEF Mapped, Promise!Step

LEMMA MapFetch ==
    ASSUME IInv, IInv', StageInv, faults = 0, NEW w \in Workers, Fetch(w)
    PROVE  StageInv' /\ Mapped
<1> DEFINE place == IF Page(Current(w).offset) = <<>> THEN AfterAppend(w) ELSE "append"
           found == csv[worker[w].export] # Absent
           next == [worker[w] EXCEPT !.pc = place, !.exists = found]
<1>1. Structure /\ Basic /\ JobsType /\ WorkersType
  BY DEF IInv, Structure
<1>2. Opened(w) /\ Busy(w) /\ worker[w].pc = "fetch"
  BY DEF Fetch, Opened, Busy
<1>3. /\ worker' = [worker EXCEPT ![w] = next]
      /\ UNCHANGED <<total, jobs, records, attached, csv, zip, archived, faults>>
  BY DEF Fetch, files
<1>4. place \in {"zip", "append"}
  BY <1>1, <1>2, AfterPage
<1> HIDE DEF place, found
<1>5. /\ next \in Station /\ next.pc = place /\ next.job = worker[w].job
      /\ next.export = worker[w].export
  <2>1. place \in Places /\ found \in BOOLEAN
    BY <1>4 DEF Places, found
  <2>2. QED
    BY <1>1, <2>1 DEF WorkersType, Station
<1> HIDE DEF next
<1>6. Goes(w, next) /\ Grown
  BY <1>3, <1>5 DEF Goes, Grown
<1>7. next.pc \notin {"idle", "open", "finish"}
  BY <1>4, <1>5
<1>8. /\ worker'[w] = next /\ Target(w) = worker[w].export /\ Target(w) \in DOMAIN csv
      /\ Live' = Live
  BY <1>2, <1>3, <1>5, <1>6, <1>7, GoesDue
<1>9. StopRecorded' = StopRecorded
  BY <1>3 DEF StopRecorded
<1>10. StageAt(w)'
  <2>1. Target(w)' = Target(w)
    BY <1>5, <1>7, <1>8 DEF Target
  <2>2. zip[Target(w)] = Absent
    BY <1>1, <1>2, <1>8, RowsOwed DEF StageInv, StageAt
  <2>3. QED
    BY <1>3, <1>4, <1>5, <1>8, <2>1, <2>2 DEF StageAt
<1>11. OnlyFilesOf(Target(w))
  BY <1>3 DEF OnlyFilesOf
<1>12. StageInv'
  BY <1>2, <1>3, <1>5, <1>6, <1>7, <1>9, <1>10, <1>11, StageGoes
<1>13. Quiet
  BY <1>1, <1>3, <1>6, <1>8, <1>9, RecordsNamed DEF Quiet
<1>14. QED
  BY <1>12, <1>13 DEF Mapped

\* checkJobStatus ends an export that was to be stopped.
LEMMA MapKill ==
    ASSUME IInv, IInv', StageInv, faults = 0, NEW w \in Workers, Kill(w)
    PROVE  StageInv' /\ Mapped
<1> DEFINE k == worker[w].record
           next == [worker[w] EXCEPT !.pc = "finish"]
<1>1. Structure /\ Basic /\ JobsType /\ WorkersType
  BY DEF IInv, Structure
<1>2. Opened(w) /\ Busy(w) /\ worker[w].pc = "kill"
  BY DEF Kill, Opened, Busy
<1>3. /\ worker' = [worker EXCEPT ![w] = next] /\ SetStatus(k, "RIP")
      /\ UNCHANGED <<total, jobs, attached, csv, zip, archived, faults>>
  BY DEF Kill, Goto, AfterKill, files
<1>4. /\ k \in DOMAIN records /\ records[k].export = worker[w].export
  BY <1>1, <1>2 DEF WorkersType, AtWork
<1>5. /\ Grown /\ DOMAIN records' = DOMAIN records
      /\ records'[k].status \in {"gone", "RIP"}
      /\ \A i \in DOMAIN records : i # k => records'[i] = records[i]
  <2>1. "RIP" \in Statuses
    BY DEF Statuses
  <2>2. QED
    BY <1>1, <1>3, <1>4, <2>1, SetStatusFacts
<1>6. /\ next \in Station /\ next.pc = "finish" /\ next.job = worker[w].job
      /\ next.export = worker[w].export
  BY <1>1, <1>2 DEF WorkersType, Station, Places
<1> HIDE DEF next, k
<1>7. Goes(w, next)
  BY <1>3, <1>6 DEF Goes
<1>8. /\ worker'[w] = next /\ Target(w) = worker[w].export /\ Target(w) \in DOMAIN csv
      /\ Live' = Live \ {Target(w)} /\ Target(w) \in Live
  BY <1>2, <1>3, <1>5, <1>6, <1>7, GoesDue
<1>9. StageAt(w)
  BY DEF StageInv
<1>10. zip[Target(w)] = Absent /\ k \in StopRecorded
  BY <1>1, <1>2, <1>8, <1>9, RowsOwed DEF StageAt, k
<1>11. StopRecorded' = StopRecorded
  BY <1>5, <1>10 DEF StopRecorded
<1>12. StageInv'
  <2>1. StageAt(w)' /\ OnlyFilesOf(Target(w))
    BY <1>3, <1>6, <1>8 DEF StageAt, OnlyFilesOf
  <2>2. QED
    BY <1>2, <1>3, <1>5, <1>6, <1>7, <1>11, <2>1, StageGoes
<1>13. Target(w) \in ExportsOf(StopRecorded)
  BY <1>4, <1>8, <1>10 DEF ExportsOf
<1>14. Promise!Stop(Target(w))
  <2>1. /\ ExportsOf(StopRecorded)' = ExportsOf(StopRecorded)
        /\ ExportsOf(attached)' = ExportsOf(attached)
    BY <1>1, <1>3, <1>5, <1>11, RecordsNamed
  <2>2. QED
    BY <1>3, <1>8, <1>10, <1>13, <2>1 DEF Promise!Stop, Promise!Packed, Absent
<1>15. QED
  BY <1>8, <1>12, <1>14, StepOf

\* Its own numbering of rows is this one.
LEMMA SameRows == \A n : Promise!Upto(n) = Upto(n)
BY DEF Promise!Upto, Upto

LEMMA UptoFacts ==
    ASSUME NEW n \in Nat
    PROVE  Len(Upto(n)) = n /\ (Upto(n) = Absent <=> n = 0)
<1>1. Len(Upto(n)) = n /\ Len(Absent) = 0
  BY DEF Upto, Absent
<1>2. n = 0 => Upto(n) = Absent
  BY DEF Upto, Absent
<1>3. QED
  BY <1>1, <1>2

\* A page is added to the file of an export that has no archive yet.
LEMMA MapAppend ==
    ASSUME IInv, IInv', StageInv, faults = 0, NEW w \in Workers, AppendRows(w)
    PROVE  StageInv' /\ Mapped
<1> PICK e : e = worker[w].export
  OBVIOUS
<1> PICK offset : offset = Current(w).offset
  OBVIOUS
<1> DEFINE old == IF worker[w].exists THEN csv[e] ELSE Absent
           end == NextOffset(offset)
           new == old \o Page(offset)
           place == AfterAppend(w)
           next == [worker[w] EXCEPT !.pc = place, !.exists = FALSE]
<1>1. Structure /\ Basic /\ JobsType /\ WorkersType
  BY DEF IInv, Structure
<1>2. Opened(w) /\ Busy(w) /\ worker[w].pc = "append"
  BY DEF AppendRows, Opened, Busy
<1>3. /\ csv' = [csv EXCEPT ![e] = new] /\ worker' = [worker EXCEPT ![w] = next]
      /\ UNCHANGED <<total, jobs, records, attached, zip, faults, archived>>
  BY DEF AppendRows
<1>4. place \in {"queue", "zip"} /\ end \in offset..total
  BY <1>1, <1>2, AfterPage
<1>5. total \in Nat /\ offset \in Nat /\ offset <= total
  BY <1>1, <1>2, WorkerFacts
<1> HIDE DEF place
<1>6. /\ next \in Station /\ next.pc = place /\ next.job = worker[w].job
      /\ next.export = e
  BY <1>1, <1>4 DEF WorkersType, Station, Places
<1> HIDE DEF next
<1>7. Goes(w, next) /\ Grown /\ DOMAIN csv' = DOMAIN csv
  BY <1>3, <1>6 DEF Goes, Grown
<1>8. next.pc \notin {"idle", "open", "finish"}
  BY <1>4, <1>6
<1>9. /\ worker'[w] = next /\ Target(w) = e /\ e \in DOMAIN csv /\ e \in Live
      /\ Live' = Live
  BY <1>2, <1>3, <1>6, <1>7, <1>8, GoesDue
<1>10. csv[e] = Upto(offset) /\ (worker[w].exists <=> csv[e] # Absent) /\ e # 0
  BY <1>1, <1>2, <1>9, RowsOwed DEF IInv, ChainInv, ChainAt
<1>11. old = Upto(offset) /\ old \in Seq(Rows)
  BY <1>1, <1>9, <1>10, RowsOwed
<1> HIDE DEF old
<1>12. new = Upto(end)
  BY <1>5, <1>11, PageAppended
<1> HIDE DEF new, end
<1>13. zip[e] = Absent
  BY <1>2, <1>9, <1>10 DEF StageInv, StageAt
<1>14. StopRecorded' = StopRecorded
  BY <1>3 DEF StopRecorded
<1>15. StageInv'
  <2>1. StageAt(w)'
    <3>1. Target(w)' = e
      BY <1>6, <1>8, <1>9 DEF Target
    <3>2. QED
      BY <1>3, <1>4, <1>6, <1>9, <1>13, <3>1 DEF StageAt
  <2>2. OnlyFilesOf(Target(w))
    BY <1>3, <1>9 DEF OnlyFilesOf
  <2>3. QED
    BY <1>2, <1>3, <1>6, <1>7, <1>8, <1>14, <2>1, <2>2, StageGoes
<1>16. /\ ExportsOf(StopRecorded)' = ExportsOf(StopRecorded)
       /\ ExportsOf(attached)' = ExportsOf(attached)
  BY <1>1, <1>3, <1>7, <1>14, RecordsNamed
<1>17. CASE end = offset
  <2>1. csv' = csv
    BY <1>1, <1>3, <1>9, <1>10, <1>12, <1>17 DEF Basic
  <2>2. QED
    BY <1>3, <1>9, <1>15, <1>16, <2>1 DEF Mapped, Quiet
<1>18. CASE end # offset
  <2>1. Len(csv[e]) = offset
    BY <1>5, <1>10, UptoFacts
  <2>2. end \in Len(csv[e]) + 1 .. total
    BY <1>4, <1>5, <1>18, <2>1
  <2>3. csv' = [csv EXCEPT ![e] = Promise!Upto(end)]
    BY <1>3, <1>12, SameRows
  <2>4. Promise!Write(e)
    BY <1>3, <1>9, <1>13, <1>16, <2>2, <2>3 DEF Promise!Write, Promise!Packed, Absent
  <2>5. QED
    BY <1>9, <1>15, <2>4, StepOf
<1>19. QED
  BY <1>17, <1>18

\* The archive is opened: it was not there.
LEMMA MapOpenZip ==
    ASSUME IInv, IInv', StageInv, faults = 0, NEW w \in Workers, OpenZip(w)
    PROVE  StageInv' /\ Mapped
<1> PICK e : e = worker[w].export
  OBVIOUS
<1> DEFINE next == [worker[w] EXCEPT !.pc = "archive"]
<1>1. Structure /\ Basic /\ JobsType /\ WorkersType
  BY DEF IInv, Structure
<1>2. Opened(w) /\ Busy(w) /\ worker[w].pc = "zip"
  BY DEF OpenZip, Opened, Busy
<1>3. /\ worker' = [worker EXCEPT ![w] = next] /\ zip' = [zip EXCEPT ![e] = Absent]
      /\ UNCHANGED <<total, jobs, records, attached, csv, archived, faults>>
  BY DEF OpenZip, Goto
<1>4. /\ next \in Station /\ next.pc = "archive" /\ next.job = worker[w].job
      /\ next.export = e
  BY <1>1 DEF WorkersType, Station, Places
<1> HIDE DEF next
<1>5. Goes(w, next) /\ Grown /\ DOMAIN csv' = DOMAIN csv
  BY <1>3, <1>4 DEF Goes, Grown
<1>6. /\ worker'[w] = next /\ Target(w) = e /\ e \in DOMAIN csv /\ Live' = Live
  BY <1>2, <1>3, <1>4, <1>5, GoesDue
<1>7. zip[e] = Absent /\ zip' = zip
  <2>1. zip[e] = Absent
    BY <1>1, <1>2, <1>6, RowsOwed DEF StageInv, StageAt
  <2>2. QED
    BY <1>1, <1>3, <1>6, <2>1 DEF Basic
<1>8. StopRecorded' = StopRecorded
  BY <1>3 DEF StopRecorded
<1>9. StageInv'
  <2>1. Target(w)' = e
    BY <1>4, <1>6 DEF Target
  <2>2. StageAt(w)' /\ OnlyFilesOf(Target(w))
    BY <1>3, <1>4, <1>6, <1>7, <2>1 DEF StageAt, OnlyFilesOf
  <2>3. QED
    BY <1>2, <1>3, <1>4, <1>5, <1>8, <2>2, StageGoes
<1>10. Quiet
  BY <1>1, <1>3, <1>5, <1>6, <1>7, <1>8, RecordsNamed DEF Quiet
<1>11. QED
  BY <1>9, <1>10 DEF Mapped

\* The file is packed; it is only missing when there are no rows.
LEMMA MapWriteZip ==
    ASSUME IInv, IInv', StageInv, faults = 0, NEW w \in Workers, WriteZip(w)
    PROVE  StageInv' /\ Mapped
<1> PICK e : e = worker[w].export
  OBVIOUS
<1>1. Structure /\ Basic /\ JobsType /\ WorkersType
  BY DEF IInv, Structure
<1>2. Opened(w) /\ Busy(w) /\ worker[w].pc = "archive"
  BY DEF WriteZip, Opened, Busy
<1>3. UNCHANGED <<total, records, attached, csv, archived, faults>> /\ Grown
  BY DEF WriteZip, Grown
<1>4. Target(w) = e /\ e \in DOMAIN csv /\ e # 0 /\ total \in Nat
  BY <1>1, <1>2, TargetType, RowsOwed, Constants DEF Basic
<1>5. zip[e] = Absent
  BY <1>2, <1>4 DEF StageInv, StageAt
<1>6. csv[e] = Upto(total)
  BY <1>2, <1>4 DEF IInv, ChainInv, ChainAt
<1>7. StopRecorded' = StopRecorded
  BY <1>3 DEF StopRecorded
<1>8. /\ ExportsOf(StopRecorded)' = ExportsOf(StopRecorded)
      /\ ExportsOf(attached)' = ExportsOf(attached)
  BY <1>1, <1>3, <1>7, RecordsNamed
<1>9. CASE csv[e] # Absent
  <2> DEFINE next == [worker[w] EXCEPT !.pc = "unlink"]
  <2>1. worker' = [worker EXCEPT ![w] = next] /\ zip' = [zip EXCEPT ![e] = csv[e]] /\ jobs' = jobs
    BY <1>9 DEF WriteZip, Goto
  <2>2. /\ next \in Station /\ next.pc = "unlink" /\ next.job = worker[w].job
        /\ next.export = e
    BY <1>1 DEF WorkersType, Station, Places
  <2> HIDE DEF next
  <2>3. Goes(w, next)
    BY <1>3, <2>1, <2>2 DEF Goes
  <2>4. worker'[w] = next /\ Live' = Live /\ e \in Live
    BY <1>2, <1>3, <1>4, <2>2, <2>3, GoesDue
  <2>5. total > 0
    BY <1>4, <1>6, <1>9, UptoFacts
  <2>6. StageInv'
    <3>1. StageAt(w)'
      BY <1>3, <2>2, <2>4, <2>5 DEF StageAt
    <3>2. OnlyFilesOf(Target(w))
      BY <1>1, <1>3, <1>4, <2>1 DEF OnlyFilesOf, Basic
    <3>3. QED
      BY <1>2, <1>3, <1>7, <2>2, <2>3, <3>1, <3>2, StageGoes
  <2>7. Promise!Pack(e)
    <3>1. csv[e] = Promise!Upto(total)
      BY <1>6, SameRows
    <3>2. zip' = [zip EXCEPT ![e] = Promise!Upto(total)]
      BY <2>1, <3>1
    <3>3. QED
      BY <1>3, <1>5, <1>8, <2>4, <3>1, <3>2 DEF Promise!Pack, Promise!Packed, Absent
  <2>8. QED
    BY <2>4, <2>6, <2>7, StepOf
<1>10. CASE csv[e] = Absent
  <2> DEFINE run == Tried(Current(w).run)
  <2>1. Throw(w) /\ zip' = [zip EXCEPT ![e] = Absent]
    BY <1>10 DEF WriteZip
  <2>2. run \in Run
    BY <1>1, <1>2, WorkerFacts, RunType
  <2>3. jobs' = [jobs EXCEPT ![worker[w].job].run = run] /\ worker' = [worker EXCEPT ![w] = Idle]
    BY <2>1 DEF Throw, Current
  <2> HIDE DEF run
  <2>4. Leaves(w, run)
    BY <1>3, <2>2, <2>3 DEF Leaves
  <2>5. total = 0
    BY <1>4, <1>6, <1>10, UptoFacts
  <2>6. Current(w).export = 0
    <3>1. worker[w].job \in DOMAIN jobs /\ Current(w).offset \in 0..total
      BY <1>1, <1>2, WorkerFacts
    <3>2. Links(Current(w).offset, Current(w).export, Current(w).record)
      BY <1>1, <3>1 DEF JobsType, Linked, Current
    <3>3. QED
      BY <2>5, <3>1, <3>2 DEF Links
  <2>7. Live' = Live \ {e} /\ e \in Live
    BY <1>2, <1>3, <1>4, <2>4, <2>6, LeavesDue
  <2>8. zip' = zip
    BY <1>1, <1>4, <1>5, <2>1 DEF Basic
  <2>9. StageInv'
    <3>1. OnlyFilesOf(Target(w))
      BY <1>3, <2>8 DEF OnlyFilesOf
    <3>2. QED
      BY <1>2, <1>3, <2>4, <2>6, <3>1, StageLeaves
  <2>10. Promise!Stop(e)
    BY <1>3, <1>5, <1>8, <2>5, <2>7, <2>8 DEF Promise!Stop, Promise!Packed, Absent
  <2>11. QED
    BY <2>7, <2>9, <2>10, StepOf
<1>11. QED
  BY <1>9, <1>10

\* The file is unlinked, once it is in the archive.
LEMMA MapUnlink ==
    ASSUME IInv, IInv', StageInv, faults = 0, NEW w \in Workers, UnlinkCSV(w)
    PROVE  StageInv' /\ Mapped
<1> PICK e : e = worker[w].export
  OBVIOUS
<1> DEFINE next == [worker[w] EXCEPT !.pc = "done"]
<1>1. Structure /\ Basic /\ JobsType /\ WorkersType
  BY DEF IInv, Structure
<1>2. Opened(w) /\ Busy(w) /\ worker[w].pc = "unlink"
  BY DEF UnlinkCSV, Opened, Busy
<1>3. Target(w) = e /\ e \in DOMAIN csv /\ total \in Nat
  BY <1>1, <1>2, TargetType, Constants DEF Basic
<1>4. csv[e] = Upto(total) /\ zip[e] = Upto(total)
  BY <1>2, <1>3 DEF IInv, ChainInv, ChainAt
<1>5. total > 0
  BY <1>2 DEF StageInv, StageAt
<1>6. csv[e] # Absent /\ zip[e] # Absent
  BY <1>3, <1>4, <1>5, UptoFacts
<1>7. /\ worker' = [worker EXCEPT ![w] = next] /\ csv' = [csv EXCEPT ![e] = Absent]
      /\ UNCHANGED <<total, jobs, records, attached, zip, faults>>
  BY <1>6 DEF UnlinkCSV, Goto
<1>8. /\ next \in Station /\ next.pc = "done" /\ next.job = worker[w].job
      /\ next.export = e
  BY <1>1 DEF WorkersType, Station, Places
<1> HIDE DEF next
<1>9. Goes(w, next) /\ Grown /\ DOMAIN csv' = DOMAIN csv
  BY <1>7, <1>8 DEF Goes, Grown
<1>10. worker'[w] = next /\ Live' = Live /\ e \in Live
  BY <1>2, <1>3, <1>7, <1>8, <1>9, GoesDue
<1>11. csv'[e] = Absent /\ OnlyFilesOf(Target(w))
  BY <1>1, <1>3, <1>7 DEF OnlyFilesOf, Basic
<1>12. StopRecorded' = StopRecorded
  BY <1>7 DEF StopRecorded
<1>13. StageInv'
  <2>1. Target(w)' = e
    BY <1>8, <1>10 DEF Target
  <2>2. StageAt(w)'
    BY <1>5, <1>7, <1>8, <1>10, <1>11, <2>1 DEF StageAt
  <2>3. QED
    BY <1>2, <1>7, <1>8, <1>9, <1>11, <1>12, <2>2, StageGoes
<1>14. /\ ExportsOf(StopRecorded)' = ExportsOf(StopRecorded)
       /\ ExportsOf(attached)' = ExportsOf(attached)
  BY <1>1, <1>7, <1>9, <1>12, RecordsNamed
<1>15. Promise!RemoveFile(e)
  BY <1>4, <1>6, <1>7, <1>10, <1>14 DEF Promise!RemoveFile, Promise!Packed, Absent
<1>16. QED
  BY <1>10, <1>13, <1>15, StepOf

\* Whatever becomes of the records, they are records of exports.
LEMMA Asked ==
    ASSUME Basic', DOMAIN csv' = DOMAIN csv, UNCHANGED <<total, csv, zip, faults>>, Live' = Live,
           ExportsOf(attached)' = ExportsOf(attached)
    PROVE  Mapped
<1>1. ExportsOf(StopRecorded)' \subseteq DOMAIN csv
  <2>1. \A k \in DOMAIN records' : records'[k].export \in DOMAIN csv
    BY DEF Basic
  <2>2. StopRecorded' \subseteq DOMAIN records'
    BY DEF StopRecorded
  <2>3. QED
    BY <2>1, <2>2 DEF ExportsOf
<1>2. Promise!Ask
  BY <1>1 DEF Promise!Ask
<1>3. QED
  BY <1>2 DEF Mapped, Promise!Step

\* A stop that comes after the archive is overwritten.
LEMMA MapMarkDone ==
    ASSUME IInv, IInv', StageInv, faults = 0, NEW w \in Workers, MarkDone(w)
    PROVE  StageInv' /\ Mapped
<1> DEFINE k == worker[w].record
           next == [worker[w] EXCEPT !.pc = "attach"]
<1>1. Structure /\ Basic /\ JobsType /\ WorkersType /\ Basic'
  BY DEF IInv, Structure
<1>2. Opened(w) /\ Busy(w) /\ worker[w].pc = "done"
  BY DEF MarkDone, Opened, Busy
<1>3. /\ worker' = [worker EXCEPT ![w] = next]
      /\ records' = records \/ SetStatus(k, "DON")
      /\ UNCHANGED <<total, jobs, attached, csv, zip, archived, faults>>
  BY DEF MarkDone, Goto, FinalStatus, files
<1>4. k \in DOMAIN records /\ records[k].export = worker[w].export
  BY <1>1, <1>2 DEF WorkersType, AtWork
<1>5. /\ Grown /\ DOMAIN records' = DOMAIN records
      /\ \A i \in DOMAIN records : i # k => records'[i] = records[i]
  <2>1. CASE records' = records
    BY <1>3, <2>1 DEF Grown
  <2>2. CASE SetStatus(k, "DON")
    <3>1. "DON" \in Statuses
      BY DEF Statuses
    <3>2. QED
      BY <1>1, <1>3, <1>4, <2>2, <3>1, SetStatusFacts
  <2>3. QED
    BY <1>3, <2>1, <2>2
<1>6. /\ next \in Station /\ next.pc = "attach" /\ next.job = worker[w].job
      /\ next.export = worker[w].export
  BY <1>1 DEF WorkersType, Station, Places
<1> HIDE DEF next, k
<1>7. Goes(w, next)
  BY <1>3, <1>6 DEF Goes
<1>8. /\ worker'[w] = next /\ Target(w) = worker[w].export /\ Live' = Live
  BY <1>2, <1>3, <1>5, <1>6, <1>7, GoesDue
<1>9. StageInv'
  <2>1. StageAt(w)
    BY DEF StageInv
  <2>2. Target(w)' = Target(w)
    BY <1>6, <1>8 DEF Target
  <2>3. StageAt(w)'
    BY <1>2, <1>3, <1>6, <1>8, <2>1, <2>2 DEF StageAt
  <2>4. \A i \in StopRecorded : i \in StopRecorded' \/ records[i].export = Target(w)
    BY <1>4, <1>5, <1>8 DEF StopRecorded
  <2>5. OnlyFilesOf(Target(w))
    BY <1>3 DEF OnlyFilesOf
  <2>6. QED
    BY <1>2, <1>3, <1>5, <1>6, <1>7, <2>3, <2>4, <2>5, StageGoes
<1>10. QED
  BY <1>1, <1>3, <1>5, <1>8, <1>9, RecordsNamed, Asked

\* The archive is attached, for the first time.
LEMMA MapAttach ==
    ASSUME IInv, IInv', StageInv, faults = 0, NEW w \in Workers, Attach(w)
    PROVE  StageInv' /\ Mapped
<1> DEFINE next == [worker[w] EXCEPT !.pc = "finish"]
<1> PICK e : e = worker[w].export
  OBVIOUS
<1> PICK k : k = worker[w].record
  OBVIOUS
<1>1. Structure /\ Basic /\ JobsType /\ WorkersType
  BY DEF IInv, Structure
<1>2. Opened(w) /\ Busy(w) /\ worker[w].pc = "attach"
  BY DEF Attach, Opened, Busy
<1>3. k \in DOMAIN records /\ records[k].export = e /\ e = Target(w) /\ total \in Nat
  BY <1>1, <1>2, TargetType, Constants DEF WorkersType, AtWork, Basic
<1>4. k \notin attached
  <2> SUFFICES ASSUME k \in attached PROVE FALSE
    OBVIOUS
  <2>1. Debtors(Target(w), total + 1) = {}
    BY <1>3 DEF IInv, ChainInv, ChainRecord
  <2>2. QED
    BY <1>1, <1>2, <2>1, WorkerOwes
<1>5. /\ worker' = [worker EXCEPT ![w] = next] /\ attached' = attached \cup {k}
      /\ UNCHANGED <<total, jobs, records, csv, zip, archived, faults>>
  BY <1>4 DEF Attach, Goto, files
<1>6. /\ next \in Station /\ next.pc = "finish" /\ next.job = worker[w].job
      /\ next.export = e
  BY <1>1 DEF WorkersType, Station, Places
<1> HIDE DEF next
<1>7. Goes(w, next) /\ Grown
  BY <1>5, <1>6 DEF Goes, Grown
<1>8. worker'[w] = next /\ e \in Live /\ Live' = Live \ {e}
  BY <1>2, <1>3, <1>5, <1>6, <1>7, GoesDue
<1>9. csv[e] = Absent /\ zip[e] = Upto(total) /\ total > 0
  <2>1. StageAt(w) /\ ChainAt(w)
    BY DEF StageInv, IInv, ChainInv
  <2>2. QED
    BY <1>2, <1>3, <2>1 DEF StageAt, ChainAt
<1>10. zip[e] # Absent
  BY <1>3, <1>9, UptoFacts
<1>11. StopRecorded' = StopRecorded
  BY <1>5 DEF StopRecorded
<1>12. StageInv'
  <2>1. StageAt(w)'
    BY <1>6, <1>8 DEF StageAt
  <2>2. OnlyFilesOf(Target(w))
    BY <1>5 DEF OnlyFilesOf
  <2>3. QED
    BY <1>2, <1>5, <1>6, <1>7, <1>11, <2>1, <2>2, StageGoes
<1>13. ExportsOf(StopRecorded)' = ExportsOf(StopRecorded)
  BY <1>1, <1>7, <1>11, RecordsNamed
<1>14. ExportsOf(attached)' = ExportsOf(attached) \cup {e}
  BY <1>3, <1>5 DEF ExportsOf
<1>15. Promise!Deliver(e)
  BY <1>5, <1>8, <1>9, <1>10, <1>13, <1>14 DEF Promise!Deliver, Promise!Packed, Absent
<1>16. QED
  BY <1>8, <1>12, <1>15, StepOf

\* A handler returns: it was through with its export before.
LEMMA MapFinish ==
    ASSUME IInv, IInv', StageInv, faults = 0, NEW w \in Workers, Finish(w)
    PROVE  StageInv' /\ Mapped
<1> DEFINE run == Completed(Current(w).run)
<1>1. Structure /\ Basic /\ JobsType /\ WorkersType
  BY DEF IInv, Structure
<1>2. Busy(w) /\ Target(w) = 0
  BY DEF Finish, Busy, Target
<1>3. UNCHANGED <<total, records, attached, csv, zip, archived, faults>> /\ Grown
  BY DEF Finish, files, Grown
<1>4. run \in Run /\ run.state = "completed"
  BY <1>1, <1>2, WorkerFacts, RunType
<1>5. jobs' = [jobs EXCEPT ![worker[w].job].run = run] /\ worker' = [worker EXCEPT ![w] = Idle]
  BY DEF Finish, Current
<1> HIDE DEF run
<1>6. Leaves(w, run)
  BY <1>3, <1>4, <1>5 DEF Leaves
<1>7. Live' = Live \ {0}
  BY <1>2, <1>3, <1>4, <1>6, LeavesDue
<1>8. Live' = Live
  <2>1. 0 \notin Live
    BY <1>1, RowsOwed DEF Live
  <2>2. QED
    BY <1>7, <2>1
<1>9. StageInv'
  <2>1. OnlyFilesOf(Target(w))
    BY <1>3 DEF OnlyFilesOf
  <2>2. QED
    BY <1>2, <1>3, <1>4, <1>6, <2>1, StageLeaves
<1>10. StopRecorded' = StopRecorded
  BY <1>3 DEF StopRecorded
<1>11. QED
  BY <1>1, <1>3, <1>8, <1>9, <1>10, RecordsNamed DEF Mapped, Quiet

\* The next page is queued: its job takes over.
LEMMA MapQueue ==
    ASSUME IInv, IInv', StageInv, faults = 0, NEW w \in Workers, QueueNext(w)
    PROVE  StageInv' /\ Mapped
<1> PICK j : j = worker[w].job
  OBVIOUS
<1> PICK e : e = worker[w].export
  OBVIOUS
<1> PICK n : n = Len(jobs) + 1
  OBVIOUS
<1>1. /\ Structure /\ Basic /\ JobsType /\ WorkersType /\ JobsType' /\ WorkersType' /\ Basic'
      /\ Opened(w) /\ Busy(w) /\ worker[w].pc = "queue"
  BY DEF IInv, Structure, QueueNext, Opened, Busy
<1>2. UNCHANGED <<total, records, attached, csv, zip, archived, faults>> /\ Grown
  BY DEF QueueNext, files, Grown
<1>3. /\ Frame(w, j) /\ worker'[w].pc = "finish" /\ e \in DOMAIN csv
      /\ DOMAIN jobs' = DOMAIN jobs \cup {n} /\ n \notin DOMAIN jobs
      /\ \A i \in DOMAIN jobs : jobs'[i] = jobs[i]
      /\ jobs'[n].export = e /\ jobs'[n].run.state = "waiting"
  BY <1>1, QueueStructure
<1>4. e = Target(w) /\ e # 0 /\ j \in DOMAIN jobs /\ worker'[w].job = j
  <2>1. worker'[w].job = worker[w].job
    BY <1>1 DEF QueueNext, Goto, WorkersType
  <2>2. QED
    BY <1>1, <2>1, TargetType, WorkerFacts, RowsOwed
<1>5. ASSUME NEW f \in DOMAIN csv PROVE ~Claims(j, f)'
  <2>1. WorkersClaim' /\ Busy(w)' /\ Target(w)' = 0
    BY <1>1, <1>3, ClaimsSelfNext DEF Busy, Target
  <2>2. f # 0
    BY <1>1, RowsOwed
  <2>3. QED
    BY <1>4, <2>1, <2>2 DEF WorkersClaim
<1>6. Claims(n, e)' /\ \A f : Claims(n, f)' => f = e
  <2>1. ASSUME NEW v \in Workers PROVE worker'[v].job # n
    <3>1. CASE v = w
      BY <1>3, <1>4, <3>1
    <3>2. CASE v # w
      <4>1. worker'[v] = worker[v]
        BY <1>3, <3>2 DEF Frame
      <4>2. worker[v].job \in DOMAIN jobs \/ worker[v].job = 0
        BY <1>1 DEF WorkersType, AtWork, Idle
      <4>3. n # 0
        BY <1>1 DEF JobsType
      <4>4. QED
        BY <1>3, <4>1, <4>2, <4>3
    <3>3. QED
      BY <3>1, <3>2
  <2>2. QED
    BY <1>3, <2>1 DEF Claims
<1>7. ASSUME NEW f PROVE Claims(j, f) <=> f = e
  BY <1>1, <1>4, ClaimsSelf DEF WorkersClaim
<1>8. ASSUME NEW f, NEW i \in DOMAIN jobs, i # j PROVE Claims(i, f)' <=> Claims(i, f)
  BY <1>1, <1>3, <1>8, ClaimsOther
<1>9. Live' = Live
  <2>1. DOMAIN csv' = DOMAIN csv
    BY <1>2
  <2>2. ASSUME NEW f \in DOMAIN csv
        PROVE  (\E i \in DOMAIN jobs' : Claims(i, f)') <=> \E i \in DOMAIN jobs : Claims(i, f)
    <3>1. (\E i \in DOMAIN jobs' : Claims(i, f)')
              <=> \/ \E i \in DOMAIN jobs : i # j /\ Claims(i, f)'
                  \/ f = e
      BY <1>3, <1>4, <1>5, <1>6
    <3>2. (\E i \in DOMAIN jobs : Claims(i, f))
              <=> \/ \E i \in DOMAIN jobs : i # j /\ Claims(i, f)
                  \/ f = e
      BY <1>4, <1>7
    <3>3. QED
      BY <1>8, <3>1, <3>2
  <2>3. Due' = Due
    BY <2>1, <2>2 DEF Due
  <2>4. QED
    BY <1>2, <2>3, LiveIsDue, LiveIsDueNext DEF DueLive
<1>10. StopRecorded' = StopRecorded
  BY <1>2 DEF StopRecorded
<1>11. StageInv'
  <2>1. OnlyFilesOf(Target(w))
    BY <1>2 DEF OnlyFilesOf
  <2>2. /\ \A i \in DOMAIN jobs : i # j => StageWaiting(i)'
        /\ \A v \in Workers \ {w} : StageAt(v)'
    BY <1>3, <1>10, <2>1, StageOthers
  <2>3. StageWaiting(j)'
    <3>1. jobs[j].run.state = "active"
      BY <1>1, WorkerFacts DEF Current
    <3>2. QED
      BY <1>3, <1>4, <3>1 DEF StageWaiting
  <2>4. StageWaiting(n)'
    <3>1. zip[e] = Absent
      BY <1>1, <1>4 DEF StageInv, StageAt
    <3>2. QED
      BY <1>2, <1>3, <3>1 DEF StageWaiting
  <2>5. StageAt(w)'
    BY <1>3 DEF StageAt
  <2>6. QED
    BY <1>3, <2>2, <2>3, <2>4, <2>5 DEF StageInv
<1>12. QED
  BY <1>1, <1>2, <1>9, <1>10, <1>11, RecordsNamed DEF Mapped, Quiet

\* A job is taken: its worker has to do what it had to.
LEMMA MapTake ==
    ASSUME IInv, IInv', StageInv, faults = 0, NEW w \in Workers, Take(w)
    PROVE  StageInv' /\ Mapped
<1>1. Structure /\ Basic /\ JobsType /\ WorkersType /\ worker[w].pc = "idle"
  BY DEF IInv, Structure, Take
<1>2. UNCHANGED <<total, records, attached, csv, zip, archived, faults>> /\ Grown
  BY DEF Take, files, Grown
<1>3. PICK j \in DOMAIN jobs :
          /\ jobs[j].run.state = "waiting" /\ jobs' = [jobs EXCEPT ![j].run = Started(@)]
          /\ worker' = [worker EXCEPT ![w] = [Idle EXCEPT !.pc = "open", !.job = j]]
  BY DEF Take
<1>4. /\ Frame(w, j) /\ DOMAIN jobs' = DOMAIN jobs
      /\ worker[w] = Idle /\ worker'[w].pc = "open" /\ worker'[w].job = j
  <2>1. UNCHANGED <<total, records, attached, files, faults>>
    BY DEF Take
  <2>2. QED
    BY <1>1, <1>3, <2>1, TakeStructure
<1>5. jobs'[j].export = jobs[j].export /\ j # 0 /\ jobs'[j].run.state = "active"
  <2>1. jobs'[j].export = jobs[j].export
    BY <1>4 DEF Frame, JobsGrown
  <2>2. AtWork(w)'
    BY DEF IInv, Structure, WorkersType
  <2>3. jobs'[j].run.state = "active"
    BY <1>4, <2>2 DEF AtWork, Current
  <2>4. j # 0
    BY <1>1, JobFacts
  <2>5. QED
    BY <2>1, <2>3, <2>4
<1>6. Target(w)' = jobs[j].export /\ Target(w) = 0
  BY <1>4, <1>5 DEF Target, Current, Idle
<1>7. ASSUME NEW f PROVE Claims(j, f)' <=> Claims(j, f)
  <2>1. \A v \in Workers : worker[v].job # j
    BY <1>4, <1>5 DEF Frame, Idle
  <2>2. Claims(j, f) <=> f = jobs[j].export
    <3>1. jobs[j].run.state = "waiting"
      BY <1>3
    <3>2. QED
      BY <2>1, <3>1 DEF Claims
  <2>3. \A v \in Workers : worker'[v].job = j <=> v = w
    BY <1>4, <2>1 DEF Frame
  <2>4. Claims(j, f)' <=> f = jobs[j].export
    BY <1>5, <1>6, <2>3 DEF Claims
  <2>5. QED
    BY <2>2, <2>4
<1>8. Live' = Live
  <2>1. ASSUME NEW f PROVE f \in Due' <=> f \in Due
    BY <1>1, <1>2, <1>4, <1>7, DueOf
  <2>2. Due' = Due
    BY <1>2, <2>1 DEF Due
  <2>3. QED
    BY <1>2, <2>2, LiveIsDue, LiveIsDueNext DEF DueLive
<1>9. StopRecorded' = StopRecorded
  BY <1>2 DEF StopRecorded
<1>10. StageInv'
  <2>1. OnlyFilesOf(Target(w)) /\ ~Busy(w)
    BY <1>1, <1>2 DEF OnlyFilesOf, Busy
  <2>2. /\ \A i \in DOMAIN jobs : i # j => StageWaiting(i)'
        /\ \A v \in Workers \ {w} : StageAt(v)'
    BY <1>4, <1>9, <2>1, StageOthers
  <2>3. StageWaiting(j)'
    BY <1>5 DEF StageWaiting
  <2>4. StageWaiting(j)
    BY DEF StageInv
  <2>5. StageAt(w)'
    BY <1>2, <1>3, <1>4, <1>6, <2>4 DEF StageAt, StageWaiting
  <2>6. QED
    BY <1>4, <2>2, <2>3, <2>5 DEF StageInv
<1>11. QED
  BY <1>1, <1>2, <1>8, <1>9, <1>10, RecordsNamed DEF Mapped, Quiet

\* Only a record marked as stopping is going to be marked killed.
LEMMA OpenToKill ==
    ASSUME Basic, JobsType, WorkersType, NEW w \in Workers, Open(w), worker'[w].pc = "kill"
    PROVE  worker'[w].record \in StopRecorded
<1> DEFINE job == Current(w)
           export == IF job.export = 0 THEN Len(csv) + 1 ELSE job.export
           found == job.record # 0 /\ records[job.record].status # "gone"
           record == IF found THEN job.record ELSE Len(records) + 1
           seen == IF found THEN records[job.record].status ELSE "RUN"
           place == IF seen = "STO" THEN "kill" ELSE "fetch"
           next == [worker[w] EXCEPT !.pc = place, !.export = export, !.record = record, !.seen = seen]
<1>1. worker[w].pc = "open" /\ worker' = [worker EXCEPT ![w] = next]
  BY DEF Open
<1>2. Busy(w) /\ worker[w].job \in DOMAIN jobs /\ worker[w] \in Station
  BY <1>1, WorkerFacts DEF Busy
<1>3. job.record \in DOMAIN records \/ job.record = 0
  BY <1>2 DEF JobsType, Linked, Links, Current
<1> HIDE DEF job, export, found, record, seen, place
<1>4. next.pc = place /\ next.record = record
  BY <1>2 DEF Station
<1> HIDE DEF next
<1>5. place = "kill" /\ worker'[w].record = record
  BY <1>1, <1>4 DEF WorkersType
<1>6. found /\ records[job.record].status = "STO" /\ record = job.record
  BY <1>5 DEF place, seen, record
<1>7. QED
  BY <1>3, <1>5, <1>6 DEF found, StopRecorded

\* A handler begins with its page: the first one begins an export.
LEMMA MapOpen ==
    ASSUME IInv, IInv', StageInv, faults = 0, NEW w \in Workers, Open(w)
    PROVE  StageInv' /\ Mapped
<1> PICK j : j = worker[w].job
  OBVIOUS
<1> PICK e : e = worker'[w].export
  OBVIOUS
<1>1. /\ Structure /\ Basic /\ JobsType /\ WorkersType
      /\ Basic' /\ JobsType' /\ WorkersType'
  BY DEF IInv, Structure
<1>2. Busy(w) /\ worker[w].pc = "open" /\ UNCHANGED <<total, jobs, attached, faults, archived>>
  BY DEF Open, Busy
<1>3. Frame(w, j) /\ Current(w)' = Current(w) /\ j \in DOMAIN jobs
  BY <1>1, <1>2, OpenStructure, WorkerFacts
<1>4. /\ Grown /\ worker'[w].pc \in {"kill", "fetch"} /\ worker'[w].job = j
      /\ \A k \in DOMAIN records : records'[k] = records[k]
      /\ \A k \in DOMAIN records' : k \notin DOMAIN records => records'[k].status = "RUN"
  BY <1>1, OpenFiles
<1>5. \/ /\ Current(w).export = 0 /\ e = Len(csv) + 1 /\ Len(csv) + 1 \notin DOMAIN csv
         /\ csv' = Append(csv, Absent) /\ zip' = Append(zip, Absent)
         /\ DOMAIN csv' = DOMAIN csv \cup {e} /\ zip'[e] = Absent
         /\ \A f \in DOMAIN csv : csv'[f] = csv[f] /\ zip'[f] = zip[f]
      \/ Current(w).export # 0 /\ e = Current(w).export /\ csv' = csv /\ zip' = zip
  BY <1>1, OpenFiles
<1>6. OnlyFilesOf(Target(w))
  BY <1>5 DEF OnlyFilesOf
<1>7. Target(w) = Current(w).export /\ Target(w)' = e
  BY <1>2, <1>4 DEF Target
<1>8. ASSUME NEW f PROVE (Claims(j, f) <=> f = Target(w)) /\ (Claims(j, f)' <=> f = e)
  <2>1. WorkersClaim /\ WorkersClaim' /\ Busy(w)'
    BY <1>1, <1>4, ClaimsSelf, ClaimsSelfNext DEF Busy
  <2>2. QED
    BY <1>2, <1>4, <1>7, <2>1 DEF WorkersClaim
<1>9. ASSUME NEW f
      PROVE  /\ f \in Due <=> f \in DOMAIN csv /\ (f = Target(w) \/ Rest(j, f))
             /\ f \in Due' <=> f \in DOMAIN csv' /\ (f = e \/ Rest(j, f))
  BY <1>1, <1>2, <1>3, <1>8, DueOf
<1>10. Live = Due /\ Live' = Due' /\ 0 \notin DOMAIN csv
  <2>1. 0 \notin DOMAIN csv
    BY <1>1, RowsOwed
  <2>2. QED
    BY <1>2, <2>1, LiveIsDue, LiveIsDueNext DEF DueLive
<1>11. StopRecorded' = StopRecorded
  BY <1>4 DEF StopRecorded, Grown
<1>12. /\ ExportsOf(StopRecorded)' = ExportsOf(StopRecorded)
       /\ ExportsOf(attached)' = ExportsOf(attached)
  BY <1>1, <1>2, <1>4, <1>11, RecordsNamed
<1>13. StageInv'
  <2>1. /\ \A i \in DOMAIN jobs : i # j => StageWaiting(i)'
        /\ \A v \in Workers \ {w} : StageAt(v)'
    BY <1>3, <1>6, <1>11, StageOthers
  <2>2. StageWaiting(j)'
    <3>1. jobs[j].run.state = "active"
      BY <1>1, <1>2, WorkerFacts DEF Current
    <3>2. QED
      BY <1>2, <3>1 DEF StageWaiting
  <2>3. zip'[e] = Absent
    <3>1. StageAt(w)
      BY DEF StageInv
    <3>2. Current(w).export # 0 => zip[Current(w).export] = Absent
      BY <1>2, <1>7, <3>1 DEF StageAt
    <3>3. QED
      BY <1>5, <3>2
  <2>4. worker'[w].pc = "kill" => worker'[w].record \in StopRecorded'
    BY <1>1, <1>11, OpenToKill
  <2>5. StageAt(w)'
    BY <1>4, <1>7, <2>3, <2>4 DEF StageAt
  <2>6. QED
    BY <1>2, <2>1, <2>2, <2>5 DEF StageInv
<1>14. CASE Current(w).export = 0
  <2>1. Live' = Live \cup {e}
    <3>1. ~Rest(j, e)
      <4> SUFFICES ASSUME NEW i \in DOMAIN jobs, Claims(i, e) PROVE FALSE
        BY DEF Rest
      <4>1. e # 0 /\ e \notin DOMAIN csv
        BY <1>1, <1>5, <1>14 DEF Basic
      <4>2. jobs[i].export = 0 \/ jobs[i].export \in DOMAIN csv
        BY <1>1 DEF JobsType, Linked, Links
      <4>3. \A v \in Workers : Target(v) = 0 \/ Target(v) \in DOMAIN csv
        BY <1>1, TargetType
      <4>4. QED
        BY <4>1, <4>2, <4>3 DEF Claims
    <3>2. ASSUME NEW f PROVE f \in Due' <=> f \in Due \cup {e}
      BY <1>5, <1>7, <1>9, <1>10, <1>14
    <3>3. Due' = Due \cup {e}
      BY <3>2, Zenon
    <3>4. QED
      BY <1>10, <3>3
  <2>2. Promise!Begin
    BY <1>2, <1>5, <1>12, <1>14, <2>1 DEF Promise!Begin, Absent
  <2>3. QED
    BY <1>13, <2>2 DEF Mapped, Promise!Step
<1>15. CASE Current(w).export # 0
  <2>1. ASSUME NEW f PROVE f \in Due' <=> f \in Due
    BY <1>5, <1>7, <1>9, <1>15
  <2>2. Due' = Due
    BY <2>1, Zenon
  <2>3. QED
    BY <1>2, <1>5, <1>10, <1>12, <1>13, <1>15, <2>2 DEF Mapped, Quiet
<1>16. QED
  BY <1>14, <1>15

\* A new export is only a job for its first page.
LEMMA MapSubmit ==
    ASSUME IInv, IInv', StageInv, faults = 0, Submit
    PROVE  StageInv' /\ Mapped
<1>1. /\ Structure /\ Basic /\ JobsType /\ WorkersType /\ 0 \notin DOMAIN csv
  <2>1. Structure /\ Basic /\ JobsType /\ WorkersType
    BY DEF IInv, Structure
  <2>2. QED
    BY <2>1, RowsOwed
<1>2. /\ jobs' = Append(jobs, NewJob(0, 0, 0)) /\ Grown
      /\ UNCHANGED <<total, records, attached, csv, zip, archived, worker, faults>>
  BY DEF Submit, files, Grown
<1>3. /\ DOMAIN jobs' = DOMAIN jobs \cup {Len(jobs) + 1}
      /\ \A i \in DOMAIN jobs : jobs'[i] = jobs[i]
      /\ jobs'[Len(jobs) + 1].export = 0
  <2>1. Links(0, 0, 0) /\ 0 \in 0..MaxTotal
    BY Constants DEF Links
  <2>2. QED
    BY <1>1, <1>2, <2>1, JobQueued
<1>4. ASSUME NEW w \in Workers
      PROVE  Target(w)' = Target(w) /\ (Busy(w) => Current(w)' = Current(w))
  <2>1. Busy(w) => worker[w].job \in DOMAIN jobs
    BY <1>1, WorkerFacts
  <2>2. Busy(w) => Current(w)' = Current(w)
    BY <1>2, <1>3, <2>1 DEF Current
  <2>3. worker[w].pc = "open" => Busy(w)
    BY DEF Busy
  <2>4. QED
    BY <1>2, <2>2, <2>3 DEF Target
<1>5. ASSUME NEW e \in DOMAIN csv PROVE (About(e) /\ ~Over(e))' <=> About(e) /\ ~Over(e)
  <2>1. (\E i \in DOMAIN jobs' : jobs'[i].run.state = "waiting" /\ jobs'[i].export = e)
            <=> \E i \in DOMAIN jobs : jobs[i].run.state = "waiting" /\ jobs[i].export = e
    BY <1>1, <1>3
  <2>2. About(e)' <=> About(e)
    BY <1>4, <2>1 DEF About
  <2>3. Over(e)' <=> Over(e)
    BY <1>2 DEF Over
  <2>4. QED
    BY <2>2, <2>3
<1>6. Live' = Live
  BY <1>2, <1>5 DEF Live
<1>7. StopRecorded' = StopRecorded
  BY <1>2 DEF StopRecorded
<1>8. StageInv'
  <2>1. \A i \in DOMAIN jobs' : StageWaiting(i)'
    BY <1>2, <1>3 DEF StageInv, StageWaiting
  <2>2. \A w \in Workers : StageAt(w)'
    BY <1>2, <1>4, <1>7 DEF StageInv, StageAt
  <2>3. QED
    BY <2>1, <2>2 DEF StageInv
<1>9. QED
  BY <1>1, <1>2, <1>6, <1>7, <1>8, RecordsNamed DEF Mapped, Quiet

\* The user stops an export, in time or not, or removes a record.
LEMMA MapUser ==
    ASSUME IInv, IInv', StageInv, faults = 0, NEW k \in DOMAIN records, Stop(k) \/ Remove(k)
    PROVE  StageInv' /\ Mapped
<1>1. Basic /\ Basic'
  BY DEF IInv, Structure
<1>2. UNCHANGED <<total, jobs, attached, csv, zip, archived, worker, faults>>
  BY DEF Stop, Remove, files
<1>3. /\ Grown /\ DOMAIN records' = DOMAIN records
      /\ records'[k].status \in {"gone", "STO"}
      /\ \A i \in DOMAIN records : i # k => records'[i] = records[i]
  <2>1. {"STO", "gone"} \subseteq Statuses
    BY DEF Statuses
  <2>2. CASE Stop(k)
    <3>1. SetStatus(k, "STO")
      BY <2>2 DEF Stop
    <3>2. QED
      BY <1>1, <1>2, <2>1, <3>1, SetStatusFacts
  <2>3. CASE Remove(k)
    <3>1. records' = [records EXCEPT ![k].status = "gone"]
      BY <2>3 DEF Remove
    <3>2. QED
      BY <1>1, <1>2, <2>1, <3>1, StatusSet
  <2>4. QED
    BY <2>2, <2>3
<1>4. \A w \in Workers : Target(w)' = Target(w)
  BY <1>2 DEF Target, Current
<1>5. Due' = Due
  <2>1. ASSUME NEW j, NEW e PROVE Claims(j, e)' <=> Claims(j, e)
    BY <1>2, <1>4 DEF Claims
  <2>2. QED
    BY <1>2, <2>1 DEF Due
<1>6. Live' = Live
  BY <1>2, <1>5, LiveIsDue, LiveIsDueNext DEF DueLive
<1>7. StopRecorded \subseteq StopRecorded'
  BY <1>3 DEF StopRecorded
<1>8. StageInv'
  BY <1>2, <1>4, <1>7 DEF StageInv, StageAt, StageWaiting
<1>9. QED
  BY <1>1, <1>2, <1>3, <1>6, <1>8, RecordsNamed, Asked

LEMMA MapNext ==
    ASSUME IInv, IInv', StageInv, faults' = 0, Next
    PROVE  StageInv' /\ Mapped
<1>1. CASE faults # 0
  <2>1. faults \in Nat
    BY Constants DEF IInv, Structure, Basic
  <2>2. faults' = faults \/ faults' = faults + 1
    BY DEF Next, WorkerStep, Submit, Take, Open, Kill, Fetch, AppendRows, QueueNext, OpenZip,
           WriteZip, UnlinkCSV, MarkDone, Attach, Finish, CallFails, Crash, Stop, Remove
  <2>3. QED
    BY <1>1, <2>1, <2>2
<1>2. CASE faults = 0
  <2>1. ASSUME NEW w \in Workers, WorkerStep(w) PROVE StageInv' /\ Mapped
    BY <1>2, <2>1, MapTake, MapOpen, MapKill, MapFetch, MapAppend, MapQueue, MapOpenZip,
       MapWriteZip, MapUnlink, MapMarkDone, MapAttach, MapFinish DEF WorkerStep
  <2>2. ASSUME NEW w \in Workers, CallFails(w) \/ Crash(w) PROVE FALSE
    BY <1>2, <2>2 DEF CallFails, Crash
  <2>3. ASSUME NEW k \in DOMAIN records, Stop(k) \/ Remove(k) PROVE StageInv' /\ Mapped
    BY <1>2, <2>3, MapUser
  <2>4. CASE Submit
    BY <1>2, <2>4, MapSubmit
  <2>5. QED
    BY <2>1, <2>2, <2>3, <2>4 DEF Next
<1>3. QED
  BY <1>1, <1>2

\* As long as no call failed and no worker died, the queue, its workers and the
\* database do for every export what one process would do that writes the rows
\* in order, packs the file when all of them are there, and delivers the
\* archive, or stops before it is there because a stop was asked for; and
\* nothing is done for an export that is over.
THEOREM KeepsPromise == Spec => PromiseSpec
<1>1. Init => StageInv /\ Promise!Init
  <2> SUFFICES ASSUME Init PROVE StageInv /\ Promise!Init
    OBVIOUS
  <2>1. /\ DOMAIN jobs = {} /\ DOMAIN records = {} /\ DOMAIN csv = {} /\ attached = {}
        /\ csv = <<>> /\ zip = <<>> /\ faults = 0 /\ total \in Nat
        /\ \A w \in Workers : worker[w] = Idle
    BY Constants DEF Init
  <2>2. StageInv
    BY <2>1 DEF StageInv, StageAt, Idle
  <2>3. Live = {} /\ ExportsOf(StopRecorded) = {} /\ ExportsOf(attached) = {}
    BY <2>1 DEF Live, ExportsOf, StopRecorded
  <2>4. QED
    BY <2>1, <2>2, <2>3 DEF Promise!Init
<1>2. IInv /\ IInv' /\ StageInv /\ [Next]_vars => StageInv' /\ [Promise!Next]_(Promise!vars)
  <2> SUFFICES ASSUME IInv, IInv', StageInv, [Next]_vars
               PROVE  StageInv' /\ [Promise!Next]_(Promise!vars)
    OBVIOUS
  <2>1. CASE Next /\ faults' = 0
    <3>1. StageInv' /\ Mapped
      BY <2>1, MapNext
    <3>2. CASE Promise!Step
      BY <3>1, <3>2 DEF Promise!Next
    <3>3. CASE Quiet
      <4>1. faults = 0
        <5>1. faults \in Nat
          BY Constants DEF IInv, Structure, Basic
        <5>2. faults' = faults \/ faults' = faults + 1
          BY <2>1 DEF Next, WorkerStep, Submit, Take, Open, Kill, Fetch, AppendRows, QueueNext,
             OpenZip, WriteZip, UnlinkCSV, MarkDone, Attach, Finish, CallFails, Crash, Stop, Remove
        <5>3. QED
          BY <2>1, <5>1, <5>2
      <4>2. QED
        BY <2>1, <3>1, <3>3, <4>1 DEF Quiet, Promise!vars
    <3>4. QED
      BY <3>1, <3>2, <3>3 DEF Mapped
  <2>2. CASE faults' # 0
    <3>1. faults' \in Nat
      BY Constants DEF IInv, Structure, Basic
    <3>2. (faults > 0)' /\ StageInv'
      BY <2>2, <3>1 DEF StageInv
    <3>3. QED
      BY <3>2 DEF Promise!Next
  <2>3. CASE UNCHANGED vars
    <3>1. UNCHANGED <<total, jobs, records, attached, csv, zip, worker, faults>>
      BY <2>3 DEF vars
    <3>2. StopRecorded' = StopRecorded /\ \A w \in Workers : Target(w)' = Target(w)
      BY <3>1 DEF StopRecorded, Target, Current
    <3>3. StageInv'
      BY <3>1, <3>2 DEF StageInv, StageAt, StageWaiting
    <3>4. Live' = Live
      BY <3>1, <3>2 DEF Live, About, Over
    <3>5. UNCHANGED Promise!vars
      BY <3>1, <3>2, <3>4 DEF Promise!vars, ExportsOf
    <3>6. QED
      BY <3>3, <3>5
  <2>4. QED
    BY <2>1, <2>2, <2>3
<1>3. QED
  BY <1>1, <1>2, Invariance, PTL DEF Spec, PromiseSpec, Promise!Spec
=============================================================================
