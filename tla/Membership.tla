----------------------------- MODULE Membership -----------------------------
(***************************************************************************)
(* The life of one account: registration, terms of use, plan changes and   *)
(* special memberships.  This program writes rows and queues Celery tasks, *)
(* with no transaction around the two; the Django application behind the   *)
(* queue informs the administrators, and makes of the rows what they       *)
(* decide.  Calls overlap between their awaited steps, and any step of a   *)
(* call may fail: the database, the broker or the process.                 *)
(***************************************************************************)
EXTENDS Naturals

CONSTANTS
    Callers,   (* API calls that may be in flight at once                   *)
    Plans,     (* groups a plan stands for                                  *)
    Wishes,    (* plans registrations ask for; NoPlan for none              *)
    MaxCalls,  (* bound: API calls                                          *)
    MaxFaults  (* bound: failures                                           *)

NoPlan == "no plan"

ASSUME MembershipAssumption ==
    /\ NoPlan \notin Plans
    /\ Plans \cap {"registered", "bitmap", "special"} = {}
    /\ Wishes \subseteq Plans \cup {NoPlan}
    /\ {MaxCalls, MaxFaults} \subseteq Nat

VARIABLES
    user,     (* the account's row: "none", "inactive" or "active"          *)
    profile,  (* has a profile row                                          *)
    groups,   (* groups of the account                                      *)
    joining,  (* groups being added by a call that was not awaited          *)
    bitmap,   (* row of the user's rights and acceptance of the terms       *)
    request,  (* row of the plan change                                     *)
    special,  (* rows of special membership requests                        *)
    token,    (* groups in the token of the account's session               *)
    caller,   (* API calls between their awaited steps                      *)
    sending,  (* tasks of calls that did not await their sending            *)
    tasks,    (* task -> copies in the broker                               *)
    done,     (* history: task -> times a Celery worker ran it              *)
    failed,   (* history: steps that failed                                 *)
    calls,    (* API calls so far                                           *)
    faults    (* failures so far                                            *)

broker == <<sending, tasks, done>>
counters == <<calls, faults>>
vars == <<user, profile, groups, joining, bitmap, request, special, token,
          caller, broker, failed, counters>>

\* A plan stands for the task that asks for it.
Tasks == {"registered", "bitmap", "special"} \cup Plans

Levels == {"guest", "auth", "plan"}
Statuses == {"pending", "approved", "rejected"}

\* The row a read of the terms creates, and the row their acceptance creates.
GuestRow == [bits |-> "guest", accepted |-> FALSE]
AuthRow == [bits |-> "auth", accepted |-> TRUE]
NoRow == [bits |-> "none", accepted |-> FALSE]

\* "told": since this program last marked the row, a worker has run the task.
NoRequest == [status |-> "none", told |-> TRUE]

\* A session that is not logged in has the token of nobody.
NoToken == {"nobody"}

Idle == [pc |-> "idle", plan |-> NoPlan]

Pcs == {"idle", "find", "create", "profile", "group", "announce",
        "seek", "mark", "ask", "accept", "refresh"}

TypeOK ==
    /\ user \in {"none", "inactive", "active"}
    /\ profile \in BOOLEAN
    /\ groups \subseteq Plans /\ joining \subseteq Plans
    /\ bitmap \in [bits : Levels \cup {"none"}, accepted : BOOLEAN]
    /\ request \in [status : Statuses \cup {"none"}, told : BOOLEAN]
    /\ special \in Nat
    /\ token = NoToken \/ token \subseteq Plans
    /\ caller \in [Callers -> [pc : Pcs, plan : Plans \cup {NoPlan}]]
    /\ sending \in Nat
    /\ tasks \in [Tasks -> Nat]
    /\ done \in [Tasks -> Nat]
    /\ failed \subseteq Pcs \cup Tasks \cup {"join"}
    /\ calls \in 0..MaxCalls
    /\ faults \in 0..MaxFaults
    (* A request nobody was told of is pending, an account of a session exists. *)
    /\ ~request.told => request.status = "pending"
    /\ token # NoToken => user # "none"
    /\ bitmap.accepted => bitmap.bits # "none"

Init ==
    /\ user = "none"
    /\ profile = FALSE
    /\ groups = {}
    /\ joining = {}
    /\ bitmap = NoRow
    /\ request = NoRequest
    /\ special = 0
    /\ token = NoToken
    /\ caller = [c \in Callers |-> Idle]
    /\ sending = 0
    /\ tasks = [t \in Tasks |-> 0]
    /\ done = [t \in Tasks |-> 0]
    /\ failed = {}
    /\ calls = 0
    /\ faults = 0

-----------------------------------------------------------------------------
(* Calls and their steps.                                                  *)

Start(c, pc, plan) ==
    /\ caller[c].pc = "idle"
    /\ calls < MaxCalls
    /\ calls' = calls + 1
    /\ caller' = [caller EXCEPT ![c] = [pc |-> pc, plan |-> plan]]

GoTo(c, pc) ==
    caller' = [caller EXCEPT ![c] = IF pc = "idle" THEN Idle ELSE [@ EXCEPT !.pc = pc]]

At(c, pc) == caller[c].pc = pc

Send(t) == tasks' = [tasks EXCEPT ![t] = @ + 1] /\ UNCHANGED <<sending, done>>

-----------------------------------------------------------------------------
(* Registration: POST /users.                                              *)

Register(c, wish) ==
    /\ Start(c, "find", wish)
    /\ UNCHANGED <<user, profile, groups, joining, bitmap, request, special, token,
                   broker, failed, faults>>

\* An account that exists is refused: by this read, or by the unique index.
FindUser(c) ==
    /\ At(c, "find")
    /\ GoTo(c, IF user = "none" THEN "create" ELSE "idle")
    /\ UNCHANGED <<user, profile, groups, joining, bitmap, request, special, token,
                   broker, failed, counters>>

\* Mutant: a conflict with the unique index is taken for success.
CreateUserAgain(c) ==
    /\ At(c, "create")
    /\ GoTo(c, "profile")
    /\ user' = IF user = "none" THEN "inactive" ELSE user
    /\ UNCHANGED <<profile, groups, joining, bitmap, request, special, token,
                   broker, failed, counters>>

CreateUser(c) ==
    /\ At(c, "create")
    /\ GoTo(c, IF user = "none" THEN "profile" ELSE "idle")
    /\ user' = IF user = "none" THEN "inactive" ELSE user
    /\ UNCHANGED <<profile, groups, joining, bitmap, request, special, token,
                   broker, failed, counters>>

CreateProfile(c) ==
    /\ At(c, "profile")
    /\ profile' = TRUE
    /\ GoTo(c, "group")
    /\ UNCHANGED <<user, groups, joining, bitmap, request, special, token,
                   broker, failed, counters>>

\* Without a plan the query for the group throws, and the call ends.  Otherwise
\* the account joins the group by a call that is not awaited.
FindGroup(c) ==
    /\ At(c, "group")
    /\ IF caller[c].plan = NoPlan
       THEN /\ GoTo(c, "idle") /\ failed' = failed \cup {"group"}
            /\ UNCHANGED joining
       ELSE /\ GoTo(c, "announce") /\ joining' = joining \cup {caller[c].plan}
            /\ UNCHANGED failed
    /\ UNCHANGED <<user, profile, groups, bitmap, request, special, token,
                   broker, counters>>

Join(p) ==
    /\ p \in joining
    /\ joining' = joining \ {p}
    /\ groups' = groups \cup {p}
    /\ UNCHANGED <<user, profile, bitmap, request, special, token, caller,
                   broker, failed, counters>>

Announce(c) ==
    /\ At(c, "announce")
    /\ Send("registered")
    /\ GoTo(c, "idle")
    /\ UNCHANGED <<user, profile, groups, joining, bitmap, request, special, token,
                   failed, counters>>

-----------------------------------------------------------------------------
(* Plan change: POST /user-change-plan-request.                            *)

\* Asked for in a session: the groups are those of its token.
AskPlan(c, p) ==
    /\ token # NoToken
    /\ p \notin token
    /\ Start(c, "seek", p)
    /\ UNCHANGED <<user, profile, groups, joining, bitmap, request, special, token,
                   broker, failed, faults>>

FindRequest(c) ==
    /\ At(c, "seek")
    /\ GoTo(c, CASE request.status = "pending" -> "idle"
                 [] request.status = "none" -> "ask"
                 [] OTHER -> "mark")
    /\ UNCHANGED <<user, profile, groups, joining, bitmap, request, special, token,
                   broker, failed, counters>>

\* Mutant: marking the row is taken for the whole of the request.
MarkRequestOnly(c) ==
    /\ At(c, "mark")
    /\ request' = [status |-> "pending", told |-> FALSE]
    /\ GoTo(c, "idle")
    /\ UNCHANGED <<user, profile, groups, joining, bitmap, special, token,
                   broker, failed, counters>>

\* Mutant: the row is told of, and its status left as it was.
MarkRequestUnchanged(c) ==
    /\ At(c, "mark")
    /\ request' = [request EXCEPT !.told = FALSE]
    /\ GoTo(c, "ask")
    /\ UNCHANGED <<user, profile, groups, joining, bitmap, special, token,
                   broker, failed, counters>>

\* The status only: the plan is up to the task.
MarkRequest(c) ==
    /\ At(c, "mark")
    /\ request' = [status |-> "pending", told |-> FALSE]
    /\ GoTo(c, "ask")
    /\ UNCHANGED <<user, profile, groups, joining, bitmap, special, token,
                   broker, failed, counters>>

SendRequest(c) ==
    /\ At(c, "ask")
    /\ Send(caller[c].plan)
    /\ GoTo(c, "idle")
    /\ UNCHANGED <<user, profile, groups, joining, bitmap, request, special, token,
                   failed, counters>>

-----------------------------------------------------------------------------
(* Terms of use: GET and PATCH /terms-of-use.  findOrCreate is one step: the *)
(* user of a row is unique, and a loser of the race finds the winner's row.  *)

ReadTerms(c) ==
    /\ token # NoToken
    /\ Start(c, "idle", NoPlan)
    /\ bitmap' = IF bitmap = NoRow THEN GuestRow ELSE bitmap
    /\ UNCHANGED <<user, profile, groups, joining, request, special, token,
                   broker, failed, faults>>

\* Mutant: the row that acceptance creates has the default rights.
AcceptTermsAsGuest(c) ==
    /\ token # NoToken
    /\ Start(c, IF bitmap = NoRow THEN "idle" ELSE "accept", NoPlan)
    /\ bitmap' = IF bitmap = NoRow THEN [AuthRow EXCEPT !.bits = "guest"] ELSE bitmap
    /\ UNCHANGED <<user, profile, groups, joining, request, special, token,
                   broker, failed, faults>>

\* A row that acceptance creates has the rights of an authenticated user; those
\* of an older row are recomputed by a task.
AcceptTerms(c) ==
    /\ token # NoToken
    /\ Start(c, IF bitmap = NoRow THEN "idle" ELSE "accept", NoPlan)
    /\ bitmap' = IF bitmap = NoRow THEN AuthRow ELSE bitmap
    /\ UNCHANGED <<user, profile, groups, joining, request, special, token,
                   broker, failed, faults>>

UpdateTerms(c) ==
    /\ At(c, "accept")
    /\ bitmap' = [bitmap EXCEPT !.accepted = TRUE]
    /\ GoTo(c, "refresh")
    /\ UNCHANGED <<user, profile, groups, joining, request, special, token,
                   broker, failed, counters>>

RefreshBitmap(c) ==
    /\ At(c, "refresh")
    /\ Send("bitmap")
    /\ GoTo(c, "idle")
    /\ UNCHANGED <<user, profile, groups, joining, bitmap, request, special, token,
                   failed, counters>>

-----------------------------------------------------------------------------
(* Special memberships: POST /user-special-membership-requests.  Each call *)
(* creates a row and sends its task without awaiting it.                   *)

RequestSpecial(c) ==
    /\ token # NoToken
    /\ Start(c, "idle", NoPlan)
    /\ special' = special + 1
    /\ sending' = sending + 1
    /\ UNCHANGED <<user, profile, groups, joining, bitmap, request, token,
                   tasks, done, failed, faults>>

\* Mutant: the task is sent by the call and again by the unawaited promise.
SendSpecialTwice ==
    /\ sending > 0
    /\ sending' = sending - 1
    /\ tasks' = [tasks EXCEPT !["special"] = @ + 2]
    /\ UNCHANGED <<user, profile, groups, joining, bitmap, request, special, token,
                   caller, done, failed, counters>>

SendSpecial ==
    /\ sending > 0
    /\ sending' = sending - 1
    /\ tasks' = [tasks EXCEPT !["special"] = @ + 1]
    /\ UNCHANGED <<user, profile, groups, joining, bitmap, request, special, token,
                   caller, done, failed, counters>>

-----------------------------------------------------------------------------
(* Failures.                                                               *)

Fault == faults < MaxFaults /\ faults' = faults + 1

\* The database, the broker or the process fails before the next step of the
\* call has taken effect.  What the call has done so far stays.
CallFails(c) ==
    /\ Fault
    /\ caller[c].pc # "idle"
    /\ failed' = failed \cup {caller[c].pc}
    /\ GoTo(c, "idle")
    /\ UNCHANGED <<user, profile, groups, joining, bitmap, request, special, token,
                   broker, calls>>

JoinFails(p) ==
    /\ Fault
    /\ p \in joining
    /\ joining' = joining \ {p}
    /\ failed' = failed \cup {"join"}
    /\ UNCHANGED <<user, profile, groups, bitmap, request, special, token, caller,
                   broker, calls>>

SendSpecialFails ==
    /\ Fault
    /\ sending > 0
    /\ sending' = sending - 1
    /\ failed' = failed \cup {"special"}
    /\ UNCHANGED <<user, profile, groups, joining, bitmap, request, special, token,
                   caller, tasks, done, calls>>

\* The client publishes after the call has returned; a broker may lose a task.
LoseTask(t) ==
    /\ Fault
    /\ tasks[t] > 0
    /\ tasks' = [tasks EXCEPT ![t] = @ - 1]
    /\ failed' = failed \cup {t}
    /\ UNCHANGED <<user, profile, groups, joining, bitmap, request, special, token,
                   caller, sending, done, calls>>

-----------------------------------------------------------------------------
(* Outside this program: the Celery workers and the Django application.    *)

\* The rights follow the acceptance of the terms and the plan; a plan change
\* writes its row; the other tasks send mails.
RunTask(t) ==
    /\ tasks[t] > 0
    /\ tasks' = [tasks EXCEPT ![t] = @ - 1]
    /\ done' = [done EXCEPT ![t] = @ + 1]
    /\ bitmap' = IF t = "bitmap" /\ bitmap # NoRow
                 THEN [bitmap EXCEPT !.bits =
                          IF ~bitmap.accepted THEN "guest" ELSE IF groups = {} THEN "auth" ELSE "plan"]
                 ELSE bitmap
    /\ request' = IF t \in Plans THEN [status |-> "pending", told |-> TRUE] ELSE request
    /\ UNCHANGED <<user, profile, groups, joining, special, token, caller, sending,
                   failed, counters>>

\* An administrator activates an account, and decides on a plan change of
\* which the worker has told.
Activate ==
    /\ user = "inactive"
    /\ user' = "active"
    /\ UNCHANGED <<profile, groups, joining, bitmap, request, special, token, caller,
                   broker, failed, counters>>

Review(status, p) ==
    /\ request.status = "pending" /\ request.told
    /\ request' = [request EXCEPT !.status = status]
    /\ groups' = IF status = "approved" THEN {p} ELSE groups
    /\ UNCHANGED <<user, profile, joining, bitmap, special, token, caller,
                   broker, failed, counters>>

LogIn ==
    /\ user = "active"
    /\ token' = groups
    /\ UNCHANGED <<user, profile, groups, joining, bitmap, request, special, caller,
                   broker, failed, counters>>

-----------------------------------------------------------------------------
CallStep(c) ==
    \/ FindUser(c) \/ CreateUser(c) \/ CreateProfile(c) \/ FindGroup(c) \/ Announce(c)
    \/ FindRequest(c) \/ MarkRequest(c) \/ SendRequest(c)
    \/ UpdateTerms(c) \/ RefreshBitmap(c)

Call(c) ==
    \/ \E w \in Wishes : Register(c, w)
    \/ \E p \in Plans : AskPlan(c, p)
    \/ ReadTerms(c) \/ AcceptTerms(c) \/ RequestSpecial(c)

Failure ==
    \/ \E c \in Callers : CallFails(c)
    \/ \E p \in Plans : JoinFails(p)
    \/ SendSpecialFails
    \/ \E t \in Tasks : LoseTask(t)

Next ==
    \/ \E c \in Callers : Call(c) \/ CallStep(c)
    \/ \E p \in Plans : Join(p)
    \/ SendSpecial
    \/ Failure
    \/ \E t \in Tasks : RunTask(t)
    \/ Activate
    \/ \E p \in Plans, s \in {"approved", "rejected"} : Review(s, p)
    \/ LogIn

Spec == Init /\ [][Next]_vars

\* Calls and unawaited promises go on, and Celery workers take their tasks.
FairSpec ==
    /\ Spec
    /\ \A c \in Callers : WF_vars(CallStep(c))
    /\ \A p \in Plans : WF_vars(Join(p))
    /\ WF_vars(SendSpecial)
    /\ \A t \in Tasks : WF_vars(RunTask(t))

-----------------------------------------------------------------------------
(* Properties                                                              *)

\* Times a task was handed over: it waits in the broker, or has run.
Handed(t) == tasks[t] + done[t]

Registering == \E c \in Callers : caller[c].pc \in {"profile", "group", "announce"}

\* However registrations overlap, an account whose registration is over is
\* complete, unless one of the registration's own steps failed, as the look-up of
\* a plan that was left out always does: it has a profile and a group, or is
\* about to have it, and the administrators hear of it exactly once.
AccountComplete ==
    (/\ user # "none" /\ ~Registering
     /\ failed \cap {"profile", "group", "announce", "registered", "join"} = {})
        => profile /\ groups \cup joining # {} /\ Handed("registered") = 1

\* A plan change that is marked pending is on its way to the administrators:
\* its task waits or is about to be sent, unless the sending of one failed.
\* Nothing else could end it: while it is pending no other can be asked for.
PendingOnItsWay ==
    (/\ request.status = "pending" /\ ~request.told
     /\ failed \cap (Plans \cup {"ask"}) = {})
        => \/ \E p \in Plans : tasks[p] > 0
           \/ \E c \in Callers : At(c, "ask")

\* A user that accepted the terms has the rights that go with it, or a task
\* that gives them waits or is about to be sent, unless its sending failed.
AcceptedCounts ==
    (bitmap.accepted /\ failed \cap {"refresh", "bitmap"} = {})
        => \/ bitmap.bits # "guest"
           \/ tasks["bitmap"] > 0
           \/ \E c \in Callers : At(c, "refresh")

\* Every special membership request is announced once, unless a task was lost.
SpecialAnnounced ==
    /\ Handed("special") + sending <= special
    /\ "special" \notin failed => Handed("special") + sending = special

\* A pending plan change comes before the administrators, unless the sending of
\* its task failed.
PendingHeard ==
    (request.status = "pending") ~>
        (request.told \/ failed \cap (Plans \cup {"ask"}) # {})
=============================================================================
