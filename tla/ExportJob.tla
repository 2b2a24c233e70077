----------------------------- MODULE ExportJob -----------------------------
(***************************************************************************)
(* Exporting search results as a background job.  search-exporter queues   *)
(* one BullMQ job; its handler writes one page of rows to a CSV file and   *)
(* queues a job for the next page, until the last page turns the file into *)
(* a zip archive, marks the database record done and attaches the archive  *)
(* to it.  The user may stop the export and remove its record meanwhile.   *)
(* BullMQ runs a job at least once: a handler that throws is run again up  *)
(* to Attempts times, and a job whose worker died is handed out again.     *)
(* Rows are numbered by their place in the search result, which does not   *)
(* change during the export.                                               *)
(***************************************************************************)
EXTENDS BullJob, Sequences, FiniteSets, Functions

CONSTANTS
    Workers,     (* server processes, each with one worker on the queue     *)
    PageSize,    (* rows fetched by one job                                 *)
    MaxTotal,    (* bound: rows in the search result                        *)
    MaxExports,  (* bound: exports requested                                *)
    MaxFaults    (* bound: failed calls and worker crashes                  *)

ASSUME ExportAssumption ==
    /\ PageSize \in Nat \ {0}
    /\ {MaxTotal, MaxExports, MaxFaults} \subseteq Nat

VARIABLES
    total,     (* rows in the search result                                 *)
    jobs,      (* BullMQ jobs, in the order they were queued                *)
    records,   (* rows of the jobs table                                    *)
    attached,  (* rows of the attachments table, keyed by the job record    *)
    csv, zip,  (* files of each export id; an absent file has no rows       *)
    worker,    (* what each worker is doing                                 *)
    faults,    (* failed calls and crashes so far                           *)
    archived   (* history: exports whose CSV file was once unlinked         *)

vars == <<total, jobs, records, attached, csv, zip, worker, faults, archived>>
files == <<csv, zip, archived>>

\* A removed record stays in the sequence, marked "gone": ids are not reused.
Statuses == {"RUN", "STO", "RIP", "DON", "gone"}
Places == {"idle", "open", "kill", "fetch", "append", "queue", "zip", "archive",
           "unlink", "done", "attach", "finish"}

Rows == 1..total
Absent == <<>>

\* The job of the first page has no context: export and record are 0.
JobRecord == [offset : 0..MaxTotal, export : Nat, record : Nat, run : Run]

TypeOK ==
    /\ total \in 0..MaxTotal
    /\ \A j \in DOMAIN jobs : /\ jobs[j] \in JobRecord
                              /\ jobs[j].record \in 0..Len(records)
                              /\ jobs[j].export \in 0..Len(csv)
    /\ \A k \in DOMAIN records : /\ records[k].status \in Statuses
                                 /\ records[k].export \in DOMAIN csv
    /\ attached \subseteq DOMAIN records
    /\ Len(zip) = Len(csv)
    /\ \A e \in DOMAIN csv : csv[e] \in Seq(Rows) /\ zip[e] \in Seq(Rows)
    /\ \A w \in Workers : /\ worker[w].pc \in Places
                          /\ worker[w].job \in 0..Len(jobs)
                          /\ worker[w].record \in 0..Len(records)
                          /\ worker[w].export \in 0..Len(csv)
    /\ faults \in 0..MaxFaults
    /\ archived \subseteq DOMAIN csv

Idle == [pc |-> "idle", job |-> 0, export |-> 0, record |-> 0, seen |-> "RUN", exists |-> FALSE]

Init ==
    /\ total \in 0..MaxTotal
    /\ jobs = <<>>
    /\ records = <<>>
    /\ attached = {}
    /\ csv = <<>>
    /\ zip = <<>>
    /\ worker = [w \in Workers |-> Idle]
    /\ faults = 0
    /\ archived = {}

-----------------------------------------------------------------------------
(* The queue (BullMQ)                                                      *)

NewJob(offset, export, record) ==
    [offset |-> offset, export |-> export, record |-> record, run |-> Queued]

\* search-exporter create.
Submit ==
    /\ Len(SelectSeq(jobs, LAMBDA job : job.record = 0)) < MaxExports
    /\ jobs' = Append(jobs, NewJob(0, 0, 0))
    /\ UNCHANGED <<total, records, attached, files, worker, faults>>

\* A backed-off job may be taken after one queued later.
Take(w) ==
    /\ worker[w].pc = "idle"
    /\ \E j \in DOMAIN jobs :
          /\ jobs[j].run.state = "waiting"
          /\ jobs' = [jobs EXCEPT ![j].run = Started(@)]
          /\ worker' = [worker EXCEPT ![w] = [Idle EXCEPT !.pc = "open", !.job = j]]
    /\ UNCHANGED <<total, records, attached, files, faults>>

-----------------------------------------------------------------------------
(* The handler, one action per awaited call                                *)

Current(w) == jobs[worker[w].job]
Goto(w, place) == worker' = [worker EXCEPT ![w].pc = place]
SetStatus(k, status) ==
    records' = [records EXCEPT ![k].status = IF @ = "gone" THEN @ ELSE status]

\* The handler throws: its worker is free and the job is retried or given up.
Throw(w) ==
    /\ jobs' = [jobs EXCEPT ![worker[w].job].run = Tried(@)]
    /\ worker' = [worker EXCEPT ![w] = Idle]

\* Mutant: the rows past the end of the result.
FullPage(offset) == [i \in 1..PageSize |-> offset + i]

\* The page that content-items find returns for an offset.
Page(offset) ==
    [i \in 1..(IF offset + PageSize <= total THEN PageSize ELSE total - offset) |-> offset + i]

\* Mutants: the next page starts one row early, or late.
NextOffsetEarly(offset) == offset + Len(Page(offset)) - 1
NextOffsetLate(offset) == offset + Len(Page(offset)) + 1

NextOffset(offset) == offset + Len(Page(offset))

\* Mutant: a last page of one row is forgotten.
MorePagesButOne(offset) == NextOffset(offset) + 1 < total

MorePages(offset) == NextOffset(offset) < total

\* getOrCreateJobRecord, and the check of its status.
Open(w) ==
    LET job == Current(w)
        export == IF job.export = 0 THEN Len(csv) + 1 ELSE job.export
        found == job.record # 0 /\ records[job.record].status # "gone"
        record == IF found THEN job.record ELSE Len(records) + 1
        seen == IF found THEN records[job.record].status ELSE "RUN"
    IN  /\ worker[w].pc = "open"
        /\ worker' = [worker EXCEPT ![w] = [@ EXCEPT
                         !.pc = IF seen = "STO" THEN "kill" ELSE "fetch",
                         !.export = export, !.record = record, !.seen = seen]]
        /\ records' = IF found THEN records ELSE Append(records, [status |-> "RUN", export |-> export])
        /\ IF job.export = 0
              THEN csv' = Append(csv, Absent) /\ zip' = Append(zip, Absent)
              ELSE UNCHANGED <<csv, zip>>
        /\ UNCHANGED <<total, jobs, attached, faults, archived>>

\* Mutant: the handler goes on after it marked the record killed.
AfterKillGoOn == "fetch"

AfterKill == "finish"

\* A record marked as stopping is marked killed, and the handler returns.
Kill(w) ==
    /\ worker[w].pc = "kill"
    /\ SetStatus(worker[w].record, "RIP")
    /\ Goto(w, AfterKill)
    /\ UNCHANGED <<total, jobs, attached, files, faults>>

AfterAppend(w) == IF MorePages(Current(w).offset) THEN "queue" ELSE "zip"

\* The page is fetched and appendItemsToCSV looks for the file; a page without
\* rows is not written.
Fetch(w) ==
    /\ worker[w].pc = "fetch"
    /\ worker' = [worker EXCEPT ![w] = [@ EXCEPT
                     !.pc = IF Page(Current(w).offset) = <<>> THEN AfterAppend(w) ELSE "append",
                     !.exists = csv[worker[w].export] # Absent]]
    /\ UNCHANGED <<total, jobs, records, attached, files, faults>>

\* appendFile, or writeFile, which truncates, if the file was not found.
AppendRows(w) ==
    LET e == worker[w].export
        old == IF worker[w].exists THEN csv[e] ELSE Absent
    IN  /\ worker[w].pc = "append"
        /\ csv' = [csv EXCEPT ![e] = old \o Page(Current(w).offset)]
        /\ worker' = [worker EXCEPT ![w] = [@ EXCEPT !.pc = AfterAppend(w), !.exists = FALSE]]
        /\ UNCHANGED <<total, jobs, records, attached, zip, faults, archived>>

\* queueService.exportSearchResults for the next page.
QueueNext(w) ==
    /\ worker[w].pc = "queue"
    /\ jobs' = Append(jobs, NewJob(NextOffset(Current(w).offset), worker[w].export, worker[w].record))
    /\ Goto(w, "finish")
    /\ UNCHANGED <<total, records, attached, files, faults>>

\* createZipArchive opens the archive for writing, truncating an earlier one.
OpenZip(w) ==
    /\ worker[w].pc = "zip"
    /\ zip' = [zip EXCEPT ![worker[w].export] = Absent]
    /\ Goto(w, "archive")
    /\ UNCHANGED <<total, jobs, records, attached, csv, faults, archived>>

\* The CSV file is read into the archive; reading a missing one rejects, and
\* the archive is unlinked.
WriteZip(w) ==
    LET e == worker[w].export
    IN  /\ worker[w].pc = "archive"
        /\ IF csv[e] = Absent
              THEN Throw(w) /\ zip' = [zip EXCEPT ![e] = Absent]
              ELSE Goto(w, "unlink") /\ zip' = [zip EXCEPT ![e] = csv[e]] /\ UNCHANGED jobs
        /\ UNCHANGED <<total, records, attached, csv, faults, archived>>

\* Once the archive is finished the CSV file is unlinked; if that fails the
\* archive is unlinked too.
UnlinkCSV(w) ==
    LET e == worker[w].export
    IN  /\ worker[w].pc = "unlink"
        /\ IF csv[e] = Absent
              THEN Throw(w) /\ zip' = [zip EXCEPT ![e] = Absent] /\ UNCHANGED <<csv, archived>>
              ELSE /\ csv' = [csv EXCEPT ![e] = Absent]
                   /\ archived' = archived \cup {e}
                   /\ Goto(w, "done")
                   /\ UNCHANGED <<zip, jobs>>
        /\ UNCHANGED <<total, records, attached, faults>>

\* Mutant: the status read when the job started is written back.
FinalStatusRead(seen) == seen

FinalStatus(seen) == "DON"

\* Sequelize sends no update when the record already had this status.
MarkDone(w) ==
    /\ worker[w].pc = "done"
    /\ IF worker[w].seen = "DON" THEN UNCHANGED records
                                 ELSE SetStatus(worker[w].record, FinalStatus(worker[w].seen))
    /\ Goto(w, "attach")
    /\ UNCHANGED <<total, jobs, attached, files, faults>>

\* The attachment's primary key is the record's id: a second one is an error.
Attach(w) ==
    /\ worker[w].pc = "attach"
    /\ IF worker[w].record \in attached
          THEN Throw(w) /\ UNCHANGED attached
          ELSE attached' = attached \cup {worker[w].record} /\ Goto(w, "finish") /\ UNCHANGED jobs
    /\ UNCHANGED <<total, records, files, faults>>

\* The handler publishes its progress and returns, and BullMQ records it.
Finish(w) ==
    /\ worker[w].pc = "finish"
    /\ jobs' = [jobs EXCEPT ![worker[w].job].run = Completed(@)]
    /\ worker' = [worker EXCEPT ![w] = Idle]
    /\ UNCHANGED <<total, records, attached, files, faults>>

-----------------------------------------------------------------------------
(* Faults, and the user                                                    *)

\* The next call of the handler fails, publishProgressUpdate at its end
\* included; inside createZipArchive the archive is unlinked on the way out.
CallFails(w) ==
    /\ worker[w].pc # "idle"
    /\ faults < MaxFaults
    /\ faults' = faults + 1
    /\ Throw(w)
    /\ zip' = IF worker[w].pc \in {"archive", "unlink"}
                 THEN [zip EXCEPT ![worker[w].export] = Absent] ELSE zip
    /\ UNCHANGED <<total, records, attached, csv, archived>>

\* The process dies, and is started again.
Crash(w) ==
    /\ worker[w].pc # "idle"
    /\ faults < MaxFaults
    /\ faults' = faults + 1
    /\ jobs' = [jobs EXCEPT ![worker[w].job].run = Stalled(@)]
    /\ worker' = [worker EXCEPT ![w] = Idle]
    /\ UNCHANGED <<total, records, attached, files>>

\* jobs patch {status: stop}, whatever the status is.
Stop(k) ==
    /\ records[k].status # "gone"
    /\ SetStatus(k, "STO")
    /\ UNCHANGED <<total, jobs, attached, files, worker, faults>>

\* jobs remove.
Remove(k) ==
    /\ records[k].status \in {"RIP", "DON"}
    /\ records' = [records EXCEPT ![k].status = "gone"]
    /\ UNCHANGED <<total, jobs, attached, files, worker, faults>>

WorkerStep(w) ==
    \/ Take(w) \/ Open(w) \/ Kill(w) \/ Fetch(w) \/ AppendRows(w) \/ QueueNext(w)
    \/ OpenZip(w) \/ WriteZip(w) \/ UnlinkCSV(w) \/ MarkDone(w) \/ Attach(w) \/ Finish(w)

Next ==
    \/ Submit
    \/ \E w \in Workers : WorkerStep(w) \/ CallFails(w) \/ Crash(w)
    \/ \E k \in DOMAIN records : Stop(k) \/ Remove(k)

Spec == Init /\ [][Next]_vars

\* A worker that runs polls its queue, and a handler goes on when the call it
\* awaits has answered; nothing obliges a user to do anything.
FairSpec == Spec /\ \A w \in Workers : WF_vars(WorkerStep(w))

-----------------------------------------------------------------------------
(* Properties                                                              *)

Occurrences(s, row) == Cardinality({n \in DOMAIN s : s[n] = row})
Running(k) == k \in DOMAIN records /\ records[k].status = "RUN"
Pending(j) == Unfinished(jobs[j].run)

\* As long as nothing failed, an archive attached to a record holds every row
\* of the result once and in order, whatever was stopped or removed meanwhile.
AttachedExact ==
    faults = 0 => \A k \in attached : zip[records[k].export] = [i \in Rows |-> i]

\* Retries and crashes may write a page twice, but the job of a page never
\* runs ahead of the rows before it: they are in the file as long as the
\* export has not been archived.
WrittenBeforeQueued ==
    \A j \in DOMAIN jobs :
        Pending(j) /\ jobs[j].export # 0 /\ jobs[j].export \notin archived
            => 1..jobs[j].offset \subseteq Range(csv[jobs[j].export])

\* Nothing remembers which pages were written, so a retry repeats rows.  But a
\* failure repeats a row of an export at most once: the chains of page jobs
\* that it forks do not multiply, on two workers either.
RepeatsBounded ==
    \A e \in DOMAIN csv : \A i \in Rows :
        Occurrences(csv[e], i) <= faults + 1 /\ Occurrences(zip[e], i) <= faults + 1

\* However often its jobs were retried by one worker, the CSV file of an export
\* is unlinked for the first time only when its archive holds every row.
FirstArchiveComplete ==
    [][\A e \in archived' \ archived : Rows \subseteq Range(zip[e])]_vars

\* An export of at least one row is delivered unless the user stops it, as many
\* calls failed as there are attempts, or the worker of one of its jobs died once
\* more than stalls are allowed: the second death is the end of a job, although
\* four failed calls are not.
ExportDelivered ==
    (jobs # <<>> /\ total > 0) ~>
        \/ attached # {}
        \/ faults >= Attempts
        \/ \E j \in DOMAIN jobs : jobs[j].run.state = "stalled"
        \/ \E k \in DOMAIN records : records[k].status \in {"STO", "RIP", "gone"}

\* As long as nothing fails, no record of a non-empty export stays running.
ExportEnds ==
    \A k \in 1..MaxExports :
        (Running(k) /\ total > 0) ~> (~Running(k) \/ faults > 0)

-----------------------------------------------------------------------------
(* What an export promises: the abstract specification and the mapping      *)

\* The export whose files a worker may still change, 0 for none.
Target(w) ==
    CASE worker[w].pc \in {"idle", "finish"} -> 0
      [] worker[w].pc = "open" -> Current(w).export
      [] OTHER -> worker[w].export

\* A job or a worker still has something to do for the export.
About(e) ==
    \/ \E j \in DOMAIN jobs : jobs[j].run.state = "waiting" /\ jobs[j].export = e
    \/ \E w \in Workers : Target(w) = e

\* The export was delivered, or its record was marked killed.
Over(e) ==
    \E k \in DOMAIN records :
        records[k].export = e /\ (k \in attached \/ records[k].status = "RIP")

Live == {e \in DOMAIN csv : About(e) /\ ~Over(e)}

\* The exports with a record of this kind.
ExportsOf(ks) == {records[k].export : k \in ks}

StopRecorded == {k \in DOMAIN records : records[k].status \in {"STO", "RIP", "gone"}}

Promise == INSTANCE Export WITH
    file <- csv, archive <- zip, live <- Live,
    asked <- ExportsOf(StopRecorded), delivered <- ExportsOf(attached),
    failed <- faults > 0

\* As long as nothing failed, what jobs, workers and records do for an export is
\* what one process would do: the rows in order, the archive when all of them
\* are there, its delivery, or a stop that was asked for; and nothing is done
\* for an export that is over, which a second chain of jobs would.
PromiseSpec == Promise!Spec

-----------------------------------------------------------------------------
(* What the code's comments say, and the code does not do                  *)

\* "Fetches search results in batches, writes them to CSV, and creates a zip
\* archive when complete": the archive of a finished export holds every row.
AttachedHoldsEveryRow ==
    \A k \in attached :
        (\A j \in DOMAIN jobs : ~Pending(j)) => Range(zip[records[k].export]) = Rows
=============================================================================
