------------------------------ MODULE BullJob ------------------------------
(***************************************************************************)
(* The life of one BullMQ job as the queues of this system configure it:   *)
(* a run that throws is repeated after a backoff until the attempts are    *)
(* used up, and a run whose worker died is handed out again as stalled,    *)
(* only so often however many attempts are left.                           *)
(* The modules of the jobs keep this record in the field "run" of a job.   *)
(***************************************************************************)
EXTENDS Naturals

CONSTANTS
    Attempts,    (* attempts: runs that may throw before a job is given up  *)
    MaxStalls    (* times a job whose worker died is handed out again       *)

ASSUME BullAssumption == Attempts \in Nat \ {0} /\ MaxStalls \in Nat

\* "stalled" is a job BullMQ failed because it stalled too often.
Run == [state : {"waiting", "active", "completed", "failed", "stalled"},
        attempts : 0..(Attempts - 1), stalls : 0..MaxStalls]

Queued == [state |-> "waiting", attempts |-> 0, stalls |-> 0]

\* Of a job that has ended only its outcome is kept: nothing asks for its counts.
Ended(state) == [Queued EXCEPT !.state = state]

Started(run) == [run EXCEPT !.state = "active"]
Completed(run) == Ended("completed")

\* Mutant: the last attempt is never made.
TriedOneLess(run) ==
    IF run.attempts + 2 < Attempts
       THEN [run EXCEPT !.attempts = @ + 1, !.state = "waiting"]
       ELSE Ended("failed")

\* A run that threw: again after the backoff, or given up.
Tried(run) ==
    IF run.attempts + 1 < Attempts
       THEN [run EXCEPT !.attempts = @ + 1, !.state = "waiting"]
       ELSE Ended("failed")

\* A run whose worker died.
Stalled(run) ==
    IF run.stalls < MaxStalls
       THEN [run EXCEPT !.stalls = @ + 1, !.state = "waiting"]
       ELSE Ended("stalled")

Unfinished(run) == run.state \in {"waiting", "active"}
=============================================================================
