-------------------------- MODULE MembershipProofs --------------------------
(***************************************************************************)
(* Proofs about Membership: for any number of calls in flight, any plans   *)
(* and any number of calls and failures.                                   *)
(***************************************************************************)
EXTENDS Membership, TLAPS

\* What a call knows: a registration has a wish, an accepted one and a plan
\* change have a plan; terms that are being accepted have a row.
CallerInv ==
    \A c \in Callers :
        /\ caller[c].pc \in {"find", "create", "profile", "group"} => caller[c].plan \in Wishes
        /\ caller[c].pc \in {"announce", "seek", "mark", "ask"} => caller[c].plan \in Plans
        /\ caller[c].pc = "accept" => bitmap.bits # "none"

IInv == TypeOK /\ CallerInv /\ PendingOnItsWay /\ AcceptedCounts /\ SpecialAnnounced

-----------------------------------------------------------------------------
(* What a call's step and the sending of a task do.                        *)

LEMMA Constants ==
    /\ NoPlan \notin Plans
    /\ Wishes \subseteq Plans \cup {NoPlan}
    /\ Plans \subseteq Tasks
    /\ "registered" \in Tasks /\ "bitmap" \in Tasks /\ "special" \in Tasks
    /\ "registered" \notin Plans /\ "bitmap" \notin Plans /\ "special" \notin Plans
BY MembershipAssumption DEF MembershipAssumption, Tasks

LEMMA Moved ==
    ASSUME TypeOK, NEW c \in Callers, NEW pc \in Pcs, GoTo(c, pc)
    PROVE  /\ caller' \in [Callers -> [pc : Pcs, plan : Plans \cup {NoPlan}]]
           /\ caller'[c].pc = pc
           /\ pc # "idle" => caller'[c].plan = caller[c].plan
           /\ \A d \in Callers \ {c} : caller'[d] = caller[d]
<1>1. caller \in [Callers -> [pc : Pcs, plan : Plans \cup {NoPlan}]]
  BY DEF TypeOK
<1>2. CASE pc = "idle"
  <2>1. caller' = [caller EXCEPT ![c] = Idle]
    BY <1>2 DEF GoTo
  <2>2. Idle \in [pc : Pcs, plan : Plans \cup {NoPlan}] /\ Idle.pc = "idle"
    BY DEF Idle, Pcs
  <2>3. QED
    BY <1>1, <1>2, <2>1, <2>2
<1>3. CASE pc # "idle"
  <2> DEFINE new == [caller[c] EXCEPT !.pc = pc]
  <2>1. caller' = [caller EXCEPT ![c] = new]
    BY <1>3 DEF GoTo
  <2>2. new \in [pc : Pcs, plan : Plans \cup {NoPlan}] /\ new.pc = pc /\ new.plan = caller[c].plan
    BY <1>1
  <2> HIDE DEF new
  <2>3. QED
    BY <1>1, <2>1, <2>2
<1>4. QED
  BY <1>2, <1>3

LEMMA Started ==
    ASSUME TypeOK, NEW c \in Callers, NEW pc \in Pcs, NEW plan \in Plans \cup {NoPlan},
           Start(c, pc, plan)
    PROVE  /\ caller' \in [Callers -> [pc : Pcs, plan : Plans \cup {NoPlan}]]
           /\ caller[c].pc = "idle"
           /\ caller'[c].pc = pc /\ caller'[c].plan = plan
           /\ \A d \in Callers \ {c} : caller'[d] = caller[d]
           /\ calls' \in 0..MaxCalls
<1>1. caller \in [Callers -> [pc : Pcs, plan : Plans \cup {NoPlan}]] /\ calls \in 0..MaxCalls
  BY DEF TypeOK
<1>2. [pc |-> pc, plan |-> plan] \in [pc : Pcs, plan : Plans \cup {NoPlan}]
  OBVIOUS
<1>3. QED
  BY <1>1, <1>2, MembershipAssumption DEF Start, MembershipAssumption

LEMMA Sent ==
    ASSUME TypeOK, NEW t \in Tasks, Send(t)
    PROVE  /\ tasks' \in [Tasks -> Nat]
           /\ tasks'[t] = tasks[t] + 1
           /\ \A u \in Tasks \ {t} : tasks'[u] = tasks[u]
           /\ sending' = sending /\ done' = done
BY DEF TypeOK, Send

LEMMA Faults ==
    ASSUME TypeOK, Fault
    PROVE  faults' \in 0..MaxFaults
BY MembershipAssumption DEF TypeOK, Fault, MembershipAssumption

-----------------------------------------------------------------------------
(* Type correctness.                                                       *)

LEMMA TypeCall ==
    ASSUME TypeOK, NEW c \in Callers, Call(c)
    PROVE  TypeOK'
<1> USE Constants
<1>1. ASSUME NEW w \in Wishes, Register(c, w) PROVE TypeOK'
  <2>1. w \in Plans \cup {NoPlan} /\ "find" \in Pcs
    BY DEF Pcs
  <2>2. QED
    BY <1>1, <2>1, Started DEF Register, TypeOK, broker
<1>2. ASSUME NEW p \in Plans, AskPlan(c, p) PROVE TypeOK'
  <2>1. "seek" \in Pcs
    BY DEF Pcs
  <2>2. QED
    BY <1>2, <2>1, Started DEF AskPlan, TypeOK, broker
<1>3. CASE ReadTerms(c)
  <2>1. "idle" \in Pcs
    BY DEF Pcs
  <2>2. QED
    BY <1>3, <2>1, Started DEF ReadTerms, TypeOK, broker, GuestRow, Levels
<1>4. CASE AcceptTerms(c)
  <2>1. "idle" \in Pcs /\ "accept" \in Pcs
    BY DEF Pcs
  <2>2. QED
    BY <1>4, <2>1, Started DEF AcceptTerms, TypeOK, broker, AuthRow, Levels
<1>5. CASE RequestSpecial(c)
  <2>1. "idle" \in Pcs
    BY DEF Pcs
  <2>2. QED
    BY <1>5, <2>1, Started DEF RequestSpecial, TypeOK
<1>6. QED
  BY <1>1, <1>2, <1>3, <1>4, <1>5 DEF Call

LEMMA TypeCallStep ==
    ASSUME TypeOK, CallerInv, NEW c \in Callers, CallStep(c)
    PROVE  TypeOK'
<1> USE Constants
<1>0. \A pc \in {"idle", "create", "profile", "group", "announce", "mark", "ask", "refresh"} : pc \in Pcs
  BY DEF Pcs
<1>1. CASE FindUser(c)
  BY <1>0, <1>1, Moved DEF FindUser, TypeOK, broker, counters
<1>2. CASE CreateUser(c)
  BY <1>0, <1>2, Moved DEF CreateUser, TypeOK, broker, counters
<1>3. CASE CreateProfile(c)
  BY <1>0, <1>3, Moved DEF CreateProfile, TypeOK, broker, counters
<1>4. CASE FindGroup(c)
  <2>1. joining' \subseteq Plans
    BY <1>4 DEF FindGroup, At, CallerInv, TypeOK
  <2>2. caller' \in [Callers -> [pc : Pcs, plan : Plans \cup {NoPlan}]]
    BY <1>0, <1>4, Moved DEF FindGroup
  <2>3. failed' \subseteq Pcs \cup Tasks \cup {"join"}
    BY <1>4 DEF FindGroup, TypeOK, Pcs
  <2>4. QED
    BY <1>4, <2>1, <2>2, <2>3 DEF FindGroup, TypeOK, broker, counters
<1>5. CASE Announce(c)
  BY <1>0, <1>5, Moved, Sent DEF Announce, TypeOK, counters
<1>6. CASE FindRequest(c)
  <2>1. request.status \in {"pending", "none", "approved", "rejected"}
    BY DEF TypeOK, Statuses
  <2>2. caller' \in [Callers -> [pc : Pcs, plan : Plans \cup {NoPlan}]]
    <3>1. GoTo(c, "idle") \/ GoTo(c, "ask") \/ GoTo(c, "mark")
      BY <1>6, <2>1 DEF FindRequest
    <3>2. QED
      BY <1>0, <3>1, Moved
  <2>3. QED
    BY <1>6, <2>2 DEF FindRequest, TypeOK, broker, counters
<1>7. CASE MarkRequest(c)
  BY <1>0, <1>7, Moved DEF MarkRequest, TypeOK, broker, counters, Statuses
<1>8. CASE SendRequest(c)
  <2>1. caller[c].plan \in Tasks
    BY <1>8 DEF SendRequest, At, CallerInv
  <2>2. QED
    BY <1>0, <1>8, <2>1, Moved, Sent DEF SendRequest, TypeOK, counters
<1>9. CASE UpdateTerms(c)
  <2>1. bitmap.bits # "none"
    BY <1>9 DEF UpdateTerms, CallerInv, At
  <2>2. QED
    BY <1>0, <1>9, <2>1, Moved DEF UpdateTerms, TypeOK, broker, counters
<1>10. CASE RefreshBitmap(c)
  BY <1>0, <1>10, Moved, Sent DEF RefreshBitmap, TypeOK, counters
<1>11. QED
  BY <1>1, <1>2, <1>3, <1>4, <1>5, <1>6, <1>7, <1>8, <1>9, <1>10 DEF CallStep

LEMMA TypeElsewhere ==
    ASSUME TypeOK, [Next]_vars
    PROVE  \/ TypeOK'
           \/ \E c \in Callers : Call(c) \/ CallStep(c)
<1> USE Constants
<1>1. CASE UNCHANGED vars
  BY <1>1 DEF TypeOK, vars, broker, counters
<1>2. ASSUME NEW p \in Plans, Join(p) PROVE TypeOK'
  BY <1>2 DEF Join, TypeOK, broker, counters
<1>3. CASE SendSpecial
  BY <1>3 DEF SendSpecial, TypeOK, counters
<1>4. CASE Failure
  <2>1. ASSUME NEW c \in Callers, CallFails(c) PROVE TypeOK'
    <3>1. "idle" \in Pcs /\ caller[c].pc \in Pcs
      BY DEF Pcs, TypeOK
    <3>2. QED
      BY <2>1, <3>1, Moved, Faults DEF CallFails, TypeOK, broker
  <2>2. ASSUME NEW p \in Plans, JoinFails(p) PROVE TypeOK'
    BY <2>2, Faults DEF JoinFails, TypeOK, broker
  <2>3. CASE SendSpecialFails
    BY <2>3, Faults DEF SendSpecialFails, TypeOK
  <2>4. ASSUME NEW t \in Tasks, LoseTask(t) PROVE TypeOK'
    BY <2>4, Faults DEF LoseTask, TypeOK
  <2>5. QED
    BY <1>4, <2>1, <2>2, <2>3, <2>4 DEF Failure
<1>5. ASSUME NEW t \in Tasks, RunTask(t) PROVE TypeOK'
  <2>1. /\ bitmap' \in [bits : Levels \cup {"none"}, accepted : BOOLEAN]
        /\ bitmap'.accepted => bitmap'.bits # "none"
    BY <1>5 DEF RunTask, TypeOK, Levels
  <2>2. /\ request' \in [status : Statuses \cup {"none"}, told : BOOLEAN]
        /\ ~request'.told => request'.status = "pending"
    BY <1>5 DEF RunTask, TypeOK, Statuses
  <2>3. QED
    BY <1>5, <2>1, <2>2 DEF RunTask, TypeOK, counters
<1>6. CASE Activate
  BY <1>6 DEF Activate, TypeOK, broker, counters
<1>7. ASSUME NEW p \in Plans, NEW s \in {"approved", "rejected"}, Review(s, p) PROVE TypeOK'
  BY <1>7 DEF Review, TypeOK, broker, counters, Statuses
<1>8. CASE LogIn
  BY <1>8 DEF LogIn, TypeOK, broker, counters
<1>9. QED
  BY <1>1, <1>2, <1>3, <1>4, <1>5, <1>6, <1>7, <1>8 DEF Next

LEMMA TypeStep ==
    ASSUME TypeOK, CallerInv, [Next]_vars
    PROVE  TypeOK'
BY TypeCall, TypeCallStep, TypeElsewhere

-----------------------------------------------------------------------------
(* What calls know.                                                        *)

LEMMA CallerStep ==
    ASSUME TypeOK, CallerInv, [Next]_vars
    PROVE  CallerInv'
<1> USE Constants
<1> SUFFICES ASSUME NEW d \in Callers
             PROVE  /\ caller'[d].pc \in {"find", "create", "profile", "group"} => caller'[d].plan \in Wishes
                    /\ caller'[d].pc \in {"announce", "seek", "mark", "ask"} => caller'[d].plan \in Plans
                    /\ caller'[d].pc = "accept" => bitmap'.bits # "none"
  BY DEF CallerInv
<1>0. /\ caller[d].pc \in {"find", "create", "profile", "group"} => caller[d].plan \in Wishes
      /\ caller[d].pc \in {"announce", "seek", "mark", "ask"} => caller[d].plan \in Plans
      /\ caller[d].pc = "accept" => bitmap.bits # "none"
  BY DEF CallerInv
<1>1. bitmap.bits # "none" => bitmap'.bits # "none"
  <2>1. CASE bitmap' = bitmap
    BY <2>1
  <2>2. ASSUME NEW c \in Callers, ReadTerms(c) \/ AcceptTerms(c) PROVE bitmap'.bits # "none"
    BY <2>2 DEF ReadTerms, AcceptTerms, GuestRow, AuthRow, NoRow, TypeOK
  <2>3. ASSUME NEW c \in Callers, UpdateTerms(c) PROVE bitmap'.bits = bitmap.bits
    BY <2>3 DEF UpdateTerms, TypeOK
  <2>4. ASSUME NEW t \in Tasks, RunTask(t), bitmap.bits # "none" PROVE bitmap'.bits # "none"
    BY <2>4 DEF RunTask, TypeOK
  <2>5. QED
    BY <2>1, <2>2, <2>3, <2>4
    DEF Next, vars, Call, Register, AskPlan, RequestSpecial, CallStep, FindUser, CreateUser,
        CreateProfile, FindGroup, Announce, FindRequest, MarkRequest, SendRequest, RefreshBitmap,
        Join, SendSpecial, Failure, CallFails, JoinFails, SendSpecialFails, LoseTask, Activate,
        Review, LogIn
<1>2. CASE caller'[d] = caller[d]
  BY <1>0, <1>1, <1>2
<1>3. ASSUME NEW c \in Callers, Call(c), caller'[d] # caller[d]
      PROVE  \/ caller'[d].pc = "find" /\ caller'[d].plan \in Wishes
             \/ caller'[d].pc = "seek" /\ caller'[d].plan \in Plans
             \/ caller'[d].pc = "idle"
             \/ caller'[d].pc = "accept" /\ bitmap.bits # "none"
  <2>0. "find" \in Pcs /\ "seek" \in Pcs /\ "idle" \in Pcs /\ "accept" \in Pcs
    BY DEF Pcs
  <2>1. ASSUME NEW w \in Wishes, Register(c, w) PROVE caller'[d].pc = "find" /\ caller'[d].plan \in Wishes
    BY <1>3, <2>0, <2>1, Started DEF Register
  <2>2. ASSUME NEW p \in Plans, AskPlan(c, p) PROVE caller'[d].pc = "seek" /\ caller'[d].plan \in Plans
    BY <1>3, <2>0, <2>2, Started DEF AskPlan
  <2>3. CASE ReadTerms(c) \/ RequestSpecial(c)
    <3>1. Start(c, "idle", NoPlan)
      BY <2>3 DEF ReadTerms, RequestSpecial
    <3>2. caller'[d].pc = "idle"
      BY <1>3, <2>0, <3>1, Started
    <3>3. QED
      BY <3>2
  <2>4. CASE AcceptTerms(c)
    <3>1. bitmap # NoRow => bitmap.bits # "none"
      BY DEF TypeOK, NoRow
    <3>2. \/ Start(c, "idle", NoPlan)
          \/ Start(c, "accept", NoPlan) /\ bitmap # NoRow
      BY <2>4 DEF AcceptTerms
    <3>3. caller'[d].pc = "idle" \/ (caller'[d].pc = "accept" /\ bitmap # NoRow)
      BY <1>3, <2>0, <3>2, Started
    <3>4. QED
      BY <3>1, <3>3
  <2>5. QED
    BY <1>3, <2>1, <2>2, <2>3, <2>4 DEF Call
<1>4. ASSUME NEW c \in Callers, CallStep(c), caller'[d] # caller[d]
      PROVE  \/ /\ caller'[d].pc \in {"create", "profile", "group"}
                /\ caller[d].pc \in {"find", "create", "profile"} /\ caller'[d].plan = caller[d].plan
             \/ caller'[d].pc \in {"announce", "mark", "ask"} /\ caller'[d].plan \in Plans
             \/ caller'[d].pc \in {"idle", "refresh"}
  <2>0. \A pc \in {"idle", "create", "profile", "group", "announce", "mark", "ask", "refresh"} : pc \in Pcs
    BY DEF Pcs
  <2>1. CASE FindUser(c) \/ CreateUser(c) \/ CreateProfile(c)
    BY <1>4, <2>0, <2>1, Moved DEF FindUser, CreateUser, CreateProfile, At
  <2>2. CASE FindGroup(c)
    BY <1>4, <2>0, <2>2, Moved DEF FindGroup, At, CallerInv
  <2>3. CASE FindRequest(c)
    <3>1. request.status \in {"pending", "none", "approved", "rejected"}
      BY DEF TypeOK, Statuses
    <3>2. GoTo(c, "idle") \/ GoTo(c, "ask") \/ GoTo(c, "mark")
      BY <2>3, <3>1 DEF FindRequest
    <3>3. QED
      BY <1>4, <2>0, <2>3, <3>2, Moved DEF FindRequest, At, CallerInv
  <2>4. CASE MarkRequest(c)
    BY <1>4, <2>0, <2>4, Moved DEF MarkRequest, At, CallerInv
  <2>5. CASE Announce(c) \/ SendRequest(c) \/ UpdateTerms(c) \/ RefreshBitmap(c)
    BY <1>4, <2>0, <2>5, Moved DEF Announce, SendRequest, UpdateTerms, RefreshBitmap
  <2>6. QED
    BY <1>4, <2>1, <2>2, <2>3, <2>4, <2>5 DEF CallStep
<1>5. ASSUME NEW c \in Callers, CallFails(c), caller'[d] # caller[d] PROVE caller'[d].pc = "idle"
  <2>1. "idle" \in Pcs
    BY DEF Pcs
  <2>2. QED
    BY <1>5, <2>1, Moved DEF CallFails
<1>6. \/ caller' = caller
      \/ \E c \in Callers : Call(c) \/ CallStep(c) \/ CallFails(c)
  BY DEF Next, vars, Join, SendSpecial, Failure, JoinFails, SendSpecialFails, LoseTask, RunTask,
         Activate, Review, LogIn
<1>7. QED
  BY <1>0, <1>1, <1>2, <1>3, <1>4, <1>5, <1>6

-----------------------------------------------------------------------------
(* The promises that rest on tasks.                                        *)

LEMMA PendingStep ==
    ASSUME TypeOK, CallerInv, PendingOnItsWay, [Next]_vars
    PROVE  PendingOnItsWay'
<1> USE Constants
<1> SUFFICES ASSUME request'.status = "pending", ~request'.told,
                    failed' \cap (Plans \cup {"ask"}) = {}
             PROVE  \/ \E p \in Plans : tasks'[p] > 0
                    \/ \E c \in Callers : caller'[c].pc = "ask"
  BY DEF PendingOnItsWay, At
<1>0. failed \subseteq failed'
  BY DEF Next, vars, Call, Register, AskPlan, ReadTerms, AcceptTerms, RequestSpecial, CallStep,
         FindUser, CreateUser, CreateProfile, FindGroup, Announce, FindRequest, MarkRequest,
         SendRequest, UpdateTerms, RefreshBitmap, Join, SendSpecial, Failure, CallFails, JoinFails,
         SendSpecialFails, LoseTask, RunTask, Activate, Review, LogIn
<1>1. ASSUME NEW c \in Callers, MarkRequest(c) PROVE caller'[c].pc = "ask"
  <2>1. "ask" \in Pcs
    BY DEF Pcs
  <2>2. QED
    BY <1>1, <2>1, Moved DEF MarkRequest
<1>2. ASSUME request' = request
      PROVE  \/ \E p \in Plans : tasks[p] > 0
             \/ \E c \in Callers : caller[c].pc = "ask"
  BY <1>0, <1>2 DEF PendingOnItsWay, At
<1>3. ASSUME NEW p \in Plans, tasks[p] > 0, request' = request PROVE tasks'[p] > 0
  <2>1. ASSUME NEW t \in Tasks, Send(t) PROVE tasks'[p] > 0
    BY <1>3, <2>1, Sent DEF TypeOK
  <2>2. ASSUME NEW t \in Tasks, LoseTask(t) PROVE tasks'[p] > 0
    <3>1. t # p
      BY <2>2 DEF LoseTask
    <3>2. QED
      BY <1>3, <2>2, <3>1 DEF LoseTask, TypeOK
  <2>3. ASSUME NEW t \in Tasks, RunTask(t) PROVE tasks'[p] > 0
    <3>1. t # p
      BY <1>3, <2>3 DEF RunTask
    <3>2. QED
      BY <1>3, <2>3, <3>1 DEF RunTask, TypeOK
  <2>4. CASE SendSpecial
    BY <1>3, <2>4 DEF SendSpecial, TypeOK
  <2>5. ASSUME NEW c \in Callers, CallStep(c) PROVE tasks'[p] > 0
    <3>1. CASE tasks' = tasks
      BY <1>3, <3>1
    <3>2. CASE Announce(c) \/ RefreshBitmap(c)
      BY <2>1, <3>2 DEF Announce, RefreshBitmap
    <3>3. CASE SendRequest(c)
      <4>1. caller[c].plan \in Tasks
        BY <3>3 DEF SendRequest, At, CallerInv
      <4>2. QED
        BY <2>1, <3>3, <4>1 DEF SendRequest
    <3>4. QED
      BY <2>5, <3>1, <3>2, <3>3 DEF CallStep, FindUser, CreateUser, CreateProfile, FindGroup,
         FindRequest, MarkRequest, UpdateTerms, broker
  <2>6. \/ tasks' = tasks
        \/ \E c \in Callers : CallStep(c)
        \/ SendSpecial
        \/ \E t \in Tasks : LoseTask(t) \/ RunTask(t)
    BY DEF Next, vars, broker, Call, Register, AskPlan, ReadTerms, AcceptTerms, RequestSpecial, Join,
           Failure, CallFails, JoinFails, SendSpecialFails, Activate, Review, LogIn
  <2>7. QED
    BY <1>3, <2>2, <2>3, <2>4, <2>5, <2>6
<1>4. ASSUME NEW c \in Callers, caller[c].pc = "ask"
      PROVE  \/ \E p \in Plans : tasks'[p] > 0
             \/ caller'[c].pc = "ask"
  <2>1. CASE SendRequest(c)
    <3>1. caller[c].plan \in Plans
      BY <1>4 DEF CallerInv
    <3>2. tasks'[caller[c].plan] > 0
      BY <2>1, <3>1, Sent DEF SendRequest, TypeOK
    <3>3. QED
      BY <3>1, <3>2
  <2>2. CASE CallFails(c)
    BY <1>4, <2>2 DEF CallFails
  <2>3. ASSUME NEW d \in Callers, Call(d) PROVE caller'[c] = caller[c]
    <3>1. \E pc \in Pcs, plan \in Plans \cup {NoPlan} : Start(d, pc, plan)
      <4>1. "find" \in Pcs /\ "seek" \in Pcs /\ "idle" \in Pcs /\ "accept" \in Pcs
        BY DEF Pcs
      <4>2. QED
        BY <2>3, <4>1 DEF Call, Register, AskPlan, ReadTerms, AcceptTerms, RequestSpecial
    <3>2. QED
      BY <1>4, <3>1, Started
  <2>4. ASSUME NEW d \in Callers, CallStep(d) \/ CallFails(d), d # c PROVE caller'[c] = caller[c]
    BY <2>4 DEF CallStep, FindUser, CreateUser, CreateProfile, FindGroup, Announce, FindRequest,
       MarkRequest, SendRequest, UpdateTerms, RefreshBitmap, CallFails, GoTo, TypeOK
  <2>5. CallStep(c) => SendRequest(c)
    BY <1>4 DEF CallStep, FindUser, CreateUser, CreateProfile, FindGroup, Announce, FindRequest,
       MarkRequest, UpdateTerms, RefreshBitmap, At
  <2>6. \/ caller' = caller
        \/ \E d \in Callers : Call(d) \/ CallStep(d) \/ CallFails(d)
    BY DEF Next, vars, Join, SendSpecial, Failure, JoinFails, SendSpecialFails, LoseTask, RunTask,
           Activate, Review, LogIn
  <2>7. QED
    BY <1>4, <2>1, <2>2, <2>3, <2>4, <2>5, <2>6
<1>5. \/ request' = request
      \/ \E c \in Callers : MarkRequest(c)
      \/ request'.told
  <2>1. ASSUME NEW p \in Plans, NEW s \in {"approved", "rejected"}, Review(s, p) PROVE request'.told
    BY <2>1 DEF Review, TypeOK
  <2>2. ASSUME NEW t \in Tasks, RunTask(t), request' # request PROVE request'.told
    BY <2>2 DEF RunTask
  <2>3. QED
    BY <2>1, <2>2
    DEF Next, vars, Call, Register, AskPlan, ReadTerms, AcceptTerms, RequestSpecial, CallStep,
        FindUser, CreateUser, CreateProfile, FindGroup, Announce, FindRequest, SendRequest,
        UpdateTerms, RefreshBitmap, Join, SendSpecial, Failure, CallFails, JoinFails,
        SendSpecialFails, LoseTask, Activate, LogIn
<1>6. QED
  BY <1>1, <1>2, <1>3, <1>4, <1>5

LEMMA AcceptedStep ==
    ASSUME TypeOK, CallerInv, AcceptedCounts, [Next]_vars
    PROVE  AcceptedCounts'
<1> USE Constants
<1> SUFFICES ASSUME bitmap'.accepted, failed' \cap {"refresh", "bitmap"} = {}, bitmap'.bits = "guest"
             PROVE  \/ tasks'["bitmap"] > 0
                    \/ \E c \in Callers : caller'[c].pc = "refresh"
  BY DEF AcceptedCounts, At
<1>0. failed \subseteq failed'
  BY DEF Next, vars, Call, Register, AskPlan, ReadTerms, AcceptTerms, RequestSpecial, CallStep,
         FindUser, CreateUser, CreateProfile, FindGroup, Announce, FindRequest, MarkRequest,
         SendRequest, UpdateTerms, RefreshBitmap, Join, SendSpecial, Failure, CallFails, JoinFails,
         SendSpecialFails, LoseTask, RunTask, Activate, Review, LogIn
<1>1. ASSUME NEW c \in Callers, UpdateTerms(c) PROVE caller'[c].pc = "refresh"
  <2>1. "refresh" \in Pcs
    BY DEF Pcs
  <2>2. QED
    BY <1>1, <2>1, Moved DEF UpdateTerms
<1>2. ASSUME bitmap' = bitmap
      PROVE  \/ tasks["bitmap"] > 0
             \/ \E c \in Callers : caller[c].pc = "refresh"
  BY <1>0, <1>2 DEF AcceptedCounts, At
<1>3. ASSUME tasks["bitmap"] > 0, bitmap' = bitmap PROVE tasks'["bitmap"] > 0
  <2>1. ASSUME NEW t \in Tasks, Send(t) PROVE tasks'["bitmap"] > 0
    BY <1>3, <2>1, Sent DEF TypeOK
  <2>2. ASSUME NEW t \in Tasks, LoseTask(t) PROVE tasks'["bitmap"] > 0
    <3>1. t # "bitmap"
      BY <2>2 DEF LoseTask
    <3>2. QED
      BY <1>3, <2>2, <3>1 DEF LoseTask, TypeOK
  <2>3. ASSUME NEW t \in Tasks, RunTask(t) PROVE tasks'["bitmap"] > 0
    <3>1. bitmap.accepted /\ bitmap.bits = "guest" /\ bitmap # NoRow
      BY <1>3 DEF NoRow
    <3>2. t # "bitmap"
      <4>1. SUFFICES ASSUME t = "bitmap" PROVE FALSE
        OBVIOUS
      <4>2. bitmap' = [bitmap EXCEPT !.bits = IF groups = {} THEN "auth" ELSE "plan"]
        BY <2>3, <3>1, <4>1 DEF RunTask
      <4>3. bitmap'.bits # "guest"
        BY <4>2 DEF TypeOK
      <4>4. QED
        BY <4>3
    <3>3. QED
      BY <1>3, <2>3, <3>2 DEF RunTask, TypeOK
  <2>4. CASE SendSpecial
    BY <1>3, <2>4 DEF SendSpecial, TypeOK
  <2>5. ASSUME NEW c \in Callers, CallStep(c) PROVE tasks'["bitmap"] > 0
    <3>1. CASE tasks' = tasks
      BY <1>3, <3>1
    <3>2. CASE Announce(c) \/ RefreshBitmap(c)
      BY <2>1, <3>2 DEF Announce, RefreshBitmap
    <3>3. CASE SendRequest(c)
      <4>1. caller[c].plan \in Tasks
        BY <3>3 DEF SendRequest, At, CallerInv
      <4>2. QED
        BY <2>1, <3>3, <4>1 DEF SendRequest
    <3>4. QED
      BY <2>5, <3>1, <3>2, <3>3 DEF CallStep, FindUser, CreateUser, CreateProfile, FindGroup,
         FindRequest, MarkRequest, UpdateTerms, broker
  <2>6. \/ tasks' = tasks
        \/ \E c \in Callers : CallStep(c)
        \/ SendSpecial
        \/ \E t \in Tasks : LoseTask(t) \/ RunTask(t)
    BY DEF Next, vars, broker, Call, Register, AskPlan, ReadTerms, AcceptTerms, RequestSpecial, Join,
           Failure, CallFails, JoinFails, SendSpecialFails, Activate, Review, LogIn
  <2>7. QED
    BY <1>3, <2>2, <2>3, <2>4, <2>5, <2>6
<1>4. ASSUME NEW c \in Callers, caller[c].pc = "refresh"
      PROVE  tasks'["bitmap"] > 0 \/ caller'[c].pc = "refresh"
  <2>1. CASE RefreshBitmap(c)
    BY <2>1, Sent DEF RefreshBitmap, TypeOK
  <2>2. CASE CallFails(c)
    BY <1>4, <2>2 DEF CallFails
  <2>3. ASSUME NEW d \in Callers, Call(d) PROVE caller'[c] = caller[c]
    <3>1. \E pc \in Pcs, plan \in Plans \cup {NoPlan} : Start(d, pc, plan)
      <4>1. "find" \in Pcs /\ "seek" \in Pcs /\ "idle" \in Pcs /\ "accept" \in Pcs
        BY DEF Pcs
      <4>2. QED
        BY <2>3, <4>1 DEF Call, Register, AskPlan, ReadTerms, AcceptTerms, RequestSpecial
    <3>2. QED
      BY <1>4, <3>1, Started
  <2>4. ASSUME NEW d \in Callers, CallStep(d) \/ CallFails(d), d # c PROVE caller'[c] = caller[c]
    BY <2>4 DEF CallStep, FindUser, CreateUser, CreateProfile, FindGroup, Announce, FindRequest,
       MarkRequest, SendRequest, UpdateTerms, RefreshBitmap, CallFails, GoTo, TypeOK
  <2>5. CallStep(c) => RefreshBitmap(c)
    BY <1>4 DEF CallStep, FindUser, CreateUser, CreateProfile, FindGroup, Announce, FindRequest,
       MarkRequest, UpdateTerms, SendRequest, At
  <2>6. \/ caller' = caller
        \/ \E d \in Callers : Call(d) \/ CallStep(d) \/ CallFails(d)
    BY DEF Next, vars, Join, SendSpecial, Failure, JoinFails, SendSpecialFails, LoseTask, RunTask,
           Activate, Review, LogIn
  <2>7. QED
    BY <1>4, <2>1, <2>2, <2>3, <2>4, <2>5, <2>6
<1>5. \/ bitmap' = bitmap
      \/ \E c \in Callers : UpdateTerms(c)
  <2>1. ASSUME NEW c \in Callers, ReadTerms(c) \/ AcceptTerms(c) PROVE bitmap' = bitmap
    BY <2>1 DEF ReadTerms, AcceptTerms, GuestRow, AuthRow
  <2>2. ASSUME NEW t \in Tasks, RunTask(t), bitmap' # bitmap PROVE FALSE
    <3>1. bitmap' = [bitmap EXCEPT !.bits =
                        IF ~bitmap.accepted THEN "guest" ELSE IF groups = {} THEN "auth" ELSE "plan"]
      BY <2>2 DEF RunTask
    <3>2. bitmap'.accepted = bitmap.accepted
      BY <3>1 DEF TypeOK
    <3>3. bitmap'.bits # "guest"
      BY <3>1, <3>2 DEF TypeOK
    <3>4. QED
      BY <3>3
  <2>3. QED
    BY <2>1, <2>2
    DEF Next, vars, Call, Register, AskPlan, RequestSpecial, CallStep,
        FindUser, CreateUser, CreateProfile, FindGroup, Announce, FindRequest, MarkRequest,
        SendRequest, RefreshBitmap, Join, SendSpecial, Failure, CallFails, JoinFails,
        SendSpecialFails, LoseTask, Activate, Review, LogIn
<1>6. QED
  BY <1>1, <1>2, <1>3, <1>4, <1>5

LEMMA SpecialStep ==
    ASSUME TypeOK, CallerInv, SpecialAnnounced, [Next]_vars
    PROVE  SpecialAnnounced'
<1> USE Constants
<1>0. /\ special \in Nat /\ sending \in Nat /\ tasks["special"] \in Nat /\ done["special"] \in Nat
      /\ tasks["special"] + done["special"] + sending <= special
      /\ "special" \notin failed => tasks["special"] + done["special"] + sending = special
  BY DEF TypeOK, SpecialAnnounced, Handed
<1>1. ASSUME /\ failed \subseteq failed'
             /\ special' = special /\ sending' = sending
             /\ tasks'["special"] + done'["special"] = tasks["special"] + done["special"]
      PROVE  SpecialAnnounced'
  BY <1>0, <1>1 DEF SpecialAnnounced, Handed
<1>2. ASSUME NEW t \in Tasks \ {"special"}, Send(t)
      PROVE  sending' = sending /\ tasks'["special"] + done'["special"] = tasks["special"] + done["special"]
  BY <1>2, Sent
<1>3. ASSUME NEW c \in Callers, Call(c) PROVE SpecialAnnounced'
  <2>1. CASE RequestSpecial(c)
    BY <1>0, <2>1 DEF RequestSpecial, SpecialAnnounced, Handed
  <2>2. CASE ~RequestSpecial(c)
    BY <1>1, <1>3, <2>2 DEF Call, Register, AskPlan, ReadTerms, AcceptTerms, broker
  <2>3. QED
    BY <2>1, <2>2
<1>4. ASSUME NEW c \in Callers, CallStep(c) PROVE SpecialAnnounced'
  <2>1. CASE Announce(c) \/ RefreshBitmap(c)
    BY <1>1, <1>2, <2>1 DEF Announce, RefreshBitmap
  <2>2. CASE SendRequest(c)
    <3>1. caller[c].plan \in Tasks \ {"special"}
      BY <2>2 DEF SendRequest, At, CallerInv
    <3>2. QED
      BY <1>1, <1>2, <2>2, <3>1 DEF SendRequest
  <2>3. CASE UNCHANGED <<special, broker>> /\ failed \subseteq failed'
    BY <1>1, <2>3 DEF broker
  <2>4. QED
    BY <1>4, <2>1, <2>2, <2>3 DEF CallStep, FindUser, CreateUser, CreateProfile, FindGroup, FindRequest,
       MarkRequest, UpdateTerms
<1>5. CASE SendSpecial
  <2>1. tasks'["special"] = tasks["special"] + 1
    BY <1>5 DEF SendSpecial, TypeOK
  <2>2. QED
    BY <1>0, <1>5, <2>1 DEF SendSpecial, SpecialAnnounced, Handed
<1>6. CASE SendSpecialFails
  BY <1>0, <1>6 DEF SendSpecialFails, SpecialAnnounced, Handed
<1>7. ASSUME NEW t \in Tasks, LoseTask(t) PROVE SpecialAnnounced'
  <2>1. CASE t = "special"
    <3>1. tasks'["special"] = tasks["special"] - 1
      BY <1>7, <2>1 DEF LoseTask, TypeOK
    <3>2. QED
      BY <1>0, <1>7, <2>1, <3>1 DEF LoseTask, SpecialAnnounced, Handed
  <2>2. CASE t # "special"
    <3>1. tasks'["special"] = tasks["special"]
      BY <1>7, <2>2 DEF LoseTask, TypeOK
    <3>2. QED
      BY <1>1, <1>7, <3>1 DEF LoseTask
  <2>3. QED
    BY <2>1, <2>2
<1>8. ASSUME NEW t \in Tasks, RunTask(t) PROVE SpecialAnnounced'
  <2>1. tasks'["special"] + done'["special"] = tasks["special"] + done["special"]
    BY <1>8 DEF RunTask, TypeOK
  <2>2. QED
    BY <1>1, <1>8, <2>1 DEF RunTask
<1>9. CASE UNCHANGED <<special, broker>> /\ failed \subseteq failed'
  BY <1>1, <1>9 DEF broker
<1>10. QED
  BY <1>3, <1>4, <1>5, <1>6, <1>7, <1>8, <1>9
  DEF Next, vars, broker, Failure, CallFails, JoinFails, Join, Activate, Review, LogIn

\* Every reachable state satisfies the invariant.
THEOREM Invariance == Spec => []IInv
<1>1. Init => IInv
  <2> SUFFICES ASSUME Init PROVE IInv
    OBVIOUS
  <2>1. NoRow \in [bits : Levels \cup {"none"}, accepted : BOOLEAN] /\ ~NoRow.accepted
    BY DEF NoRow
  <2>2. NoRequest \in [status : Statuses \cup {"none"}, told : BOOLEAN] /\ NoRequest.told
    BY DEF NoRequest
  <2>3. Idle \in [pc : Pcs, plan : Plans \cup {NoPlan}] /\ Idle.pc = "idle"
    BY DEF Idle, Pcs
  <2>4. TypeOK
    <3>1. 0 \in 0..MaxCalls /\ 0 \in 0..MaxFaults
      BY MembershipAssumption DEF MembershipAssumption
    <3>2. caller \in [Callers -> [pc : Pcs, plan : Plans \cup {NoPlan}]]
      BY <2>3 DEF Init
    <3>3. tasks \in [Tasks -> Nat] /\ done \in [Tasks -> Nat]
      BY DEF Init
    <3>4. QED
      BY <2>1, <2>2, <3>1, <3>2, <3>3 DEF Init, TypeOK
  <2>5. CallerInv
    BY <2>3 DEF Init, CallerInv
  <2>6. PendingOnItsWay /\ AcceptedCounts
    BY <2>1, <2>2 DEF Init, PendingOnItsWay, AcceptedCounts
  <2>7. SpecialAnnounced
    BY Constants DEF Init, SpecialAnnounced, Handed
  <2>8. QED
    BY <2>4, <2>5, <2>6, <2>7 DEF IInv
<1>2. IInv /\ [Next]_vars => IInv'
  BY TypeStep, CallerStep, PendingStep, AcceptedStep, SpecialStep DEF IInv
<1>3. QED
  BY <1>1, <1>2, PTL DEF Spec

\* Accounts, rows, tasks and calls keep their types; a plan change nobody was
\* told of is pending, and accepted terms have a row.
THEOREM TypeCorrect == Spec => []TypeOK
BY Invariance, PTL DEF IInv

\* A plan change that is marked pending is on its way to the administrators.
THEOREM Pending == Spec => []PendingOnItsWay
BY Invariance, PTL DEF IInv

\* Accepting the terms counts.
THEOREM Accepted == Spec => []AcceptedCounts
BY Invariance, PTL DEF IInv

\* A special membership request is announced once.
THEOREM Special == Spec => []SpecialAnnounced
BY Invariance, PTL DEF IInv

-----------------------------------------------------------------------------
(* Registration, as long as it names a plan.                               *)

RegistrationPcs == {"profile", "group", "announce"}

\* While none of its own steps has failed, a registration that has created the
\* account is the only one, and has done its steps in order; nothing is done
\* before, and everything after.
RegistrationInv ==
    failed \cap {"profile", "group", "announce", "registered", "join"} = {} =>
        /\ \A c, d \in Callers :
               caller[c].pc \in RegistrationPcs /\ caller[d].pc \in RegistrationPcs => c = d
        /\ \A c \in Callers : caller[c].pc \in RegistrationPcs =>
               /\ user # "none"
               /\ Handed("registered") = 0
               /\ caller[c].pc # "profile" => profile
               /\ caller[c].pc = "announce" => groups \cup joining # {}
        /\ user = "none" => Handed("registered") = 0
        /\ AccountComplete

LEMMA RegistrationStep ==
    ASSUME TypeOK, CallerInv, RegistrationInv, [Next]_vars
    PROVE  RegistrationInv'
<1> USE Constants
<1> DEFINE Own == {"profile", "group", "announce", "registered", "join"}
<1> SUFFICES ASSUME failed' \cap Own = {} PROVE RegistrationInv'
  BY DEF RegistrationInv
<1>0. failed \subseteq failed'
  BY DEF Next, vars, Call, Register, AskPlan, ReadTerms, AcceptTerms, RequestSpecial, CallStep,
         FindUser, CreateUser, CreateProfile, FindGroup, Announce, FindRequest, MarkRequest,
         SendRequest, UpdateTerms, RefreshBitmap, Join, SendSpecial, Failure, CallFails, JoinFails,
         SendSpecialFails, LoseTask, RunTask, Activate, Review, LogIn
<1> HIDE DEF Own
<1> DEFINE H == tasks["registered"] + done["registered"]
           At3(c) == caller[c].pc \in RegistrationPcs
<1>01. /\ \A c, d \in Callers : At3(c) /\ At3(d) => c = d
       /\ \A c \in Callers : At3(c) => /\ user # "none" /\ H = 0
                                       /\ caller[c].pc # "profile" => profile
                                       /\ caller[c].pc = "announce" => groups \cup joining # {}
       /\ user = "none" => H = 0
       /\ user # "none" /\ (\A c \in Callers : ~At3(c)) => profile /\ groups \cup joining # {} /\ H = 1
  BY <1>0 DEF RegistrationInv, AccountComplete, Registering, Handed, RegistrationPcs, Own
<1>02. tasks["registered"] \in Nat /\ done["registered"] \in Nat /\ H \in Nat
  BY DEF TypeOK
<1>03. ASSUME /\ \A c, d \in Callers : At3(c)' /\ At3(d)' => c = d
              /\ \A c \in Callers : At3(c)' => /\ user' # "none" /\ H' = 0
                                               /\ caller'[c].pc # "profile" => profile'
                                               /\ caller'[c].pc = "announce" => groups' \cup joining' # {}
              /\ user' = "none" => H' = 0
              /\ user' # "none" /\ (\A c \in Callers : ~At3(c)') =>
                     profile' /\ groups' \cup joining' # {} /\ H' = 1
       PROVE  RegistrationInv'
  BY <1>03 DEF RegistrationInv, AccountComplete, Registering, Handed, RegistrationPcs
<1> DEFINE Same == /\ \A c \in Callers : \/ caller'[c].pc = caller[c].pc
                                         \/ ~At3(c) /\ ~At3(c)'
                   /\ user' = "none" <=> user = "none"
                   /\ profile' = profile
                   /\ groups \cup joining # {} => groups' \cup joining' # {}
                   /\ H' = H
<1>04. ASSUME Same PROVE RegistrationInv'
  <2>1. \A c \in Callers : At3(c)' <=> At3(c)
    BY <1>04 DEF RegistrationPcs
  <2>2. \A c \in Callers : At3(c) => caller'[c].pc = caller[c].pc
    BY <1>04
  <2> HIDE DEF At3, H
  <2>3. QED
    BY <1>01, <1>03, <1>04, <2>1, <2>2
<1>05. ASSUME NEW t \in Tasks \ {"registered"}, Send(t) PROVE H' = H
  BY <1>05, Sent
<1> DEFINE Elsewhere(c, pc) == caller[c].pc \notin RegistrationPcs /\ pc \notin RegistrationPcs
<1>06. ASSUME NEW c \in Callers, NEW pc \in Pcs, GoTo(c, pc), Elsewhere(c, pc)
       PROVE  \A d \in Callers : caller'[d].pc = caller[d].pc \/ (~At3(d) /\ ~At3(d)')
  BY <1>06, Moved
<1>07. ASSUME NEW c \in Callers, NEW pc \in Pcs, NEW plan \in Plans \cup {NoPlan}, Start(c, pc, plan),
              pc \notin RegistrationPcs
       PROVE  \A d \in Callers : caller'[d].pc = caller[d].pc \/ (~At3(d) /\ ~At3(d)')
  BY <1>07, Started DEF RegistrationPcs
<1>08. \A pc \in {"idle", "find", "seek", "accept", "create", "profile", "group", "announce", "mark", "ask", "refresh"} :
           pc \in Pcs
  BY DEF Pcs
<1>1. ASSUME NEW c \in Callers, Call(c) PROVE RegistrationInv'
  <2>1. \E pc \in Pcs \ RegistrationPcs, plan \in Plans \cup {NoPlan} : Start(c, pc, plan)
    BY <1>1, <1>08 DEF Call, Register, AskPlan, ReadTerms, AcceptTerms, RequestSpecial, RegistrationPcs
  <2>2. UNCHANGED <<user, profile, groups, joining, tasks, done>>
    BY <1>1 DEF Call, Register, AskPlan, ReadTerms, AcceptTerms, RequestSpecial, broker
  <2>3. Same
    BY <1>07, <2>1, <2>2
  <2>4. QED
    BY <1>04, <2>3
<1>2. ASSUME NEW c \in Callers, CallStep(c) PROVE RegistrationInv'
  <2>1. CASE FindUser(c) \/ FindRequest(c) \/ MarkRequest(c) \/ UpdateTerms(c)
    <3>1. \E pc \in Pcs : GoTo(c, pc) /\ Elsewhere(c, pc)
      <4>1. request.status \in {"pending", "none", "approved", "rejected"}
        BY DEF TypeOK, Statuses
      <4>2. FindRequest(c) => GoTo(c, "idle") \/ GoTo(c, "ask") \/ GoTo(c, "mark")
        BY <4>1 DEF FindRequest
      <4>3. QED
        BY <1>08, <2>1, <4>2 DEF FindUser, FindRequest, MarkRequest, UpdateTerms, At, RegistrationPcs
    <3>2. UNCHANGED <<user, profile, groups, joining, tasks, done>>
      BY <2>1 DEF FindUser, FindRequest, MarkRequest, UpdateTerms, broker
    <3>3. Same
      BY <1>06, <3>1, <3>2
    <3>4. QED
      BY <1>04, <3>3
  <2>2. CASE SendRequest(c) \/ RefreshBitmap(c)
    <3>1. GoTo(c, "idle") /\ Elsewhere(c, "idle")
      BY <2>2 DEF SendRequest, RefreshBitmap, At, RegistrationPcs
    <3>2. UNCHANGED <<user, profile, groups, joining>>
      BY <2>2 DEF SendRequest, RefreshBitmap
    <3>3. H' = H
      <4>1. \E t \in Tasks \ {"registered"} : Send(t)
        BY <2>2 DEF SendRequest, RefreshBitmap, At, CallerInv
      <4>2. QED
        BY <1>05, <4>1
    <3>4. Same
      BY <1>06, <1>08, <3>1, <3>2, <3>3
    <3>5. QED
      BY <1>04, <3>4
  <2>3. CASE CreateUser(c)
    <3>1. UNCHANGED <<profile, groups, joining, tasks, done>> /\ caller[c].pc = "create"
      BY <2>3 DEF CreateUser, broker, At
    <3>2. CASE user # "none"
      <4>1. GoTo(c, "idle") /\ user' = user /\ Elsewhere(c, "idle")
        BY <2>3, <3>1, <3>2 DEF CreateUser, RegistrationPcs
      <4>2. Same
        BY <1>06, <1>08, <3>1, <4>1
      <4>3. QED
        BY <1>04, <4>2
    <3>3. CASE user = "none"
      <4>1. GoTo(c, "profile") /\ user' = "inactive"
        BY <2>3, <3>3 DEF CreateUser
      <4>2. caller'[c].pc = "profile" /\ \A d \in Callers \ {c} : caller'[d] = caller[d]
        BY <1>08, <4>1, Moved
      <4>3. /\ \A d \in Callers : ~At3(d)
            /\ H' = 0
        BY <1>01, <3>1, <3>3
      <4>4. QED
        BY <1>03, <4>1, <4>2, <4>3 DEF RegistrationPcs
    <3>4. QED
      BY <3>2, <3>3
  <2>4. CASE CreateProfile(c)
    <3>1. /\ UNCHANGED <<user, groups, joining, tasks, done>> /\ caller[c].pc = "profile" /\ profile'
          /\ GoTo(c, "group")
      BY <2>4 DEF CreateProfile, broker, At
    <3>2. caller'[c].pc = "group" /\ \A d \in Callers \ {c} : caller'[d] = caller[d]
      BY <1>08, <3>1, Moved
    <3>3. At3(c) /\ At3(c)'
      BY <3>1, <3>2 DEF RegistrationPcs
    <3>4. QED
      BY <1>01, <1>03, <3>1, <3>2, <3>3
  <2>5. CASE FindGroup(c)
    <3>1. caller[c].pc = "group" /\ caller[c].plan # NoPlan
      BY <2>5 DEF FindGroup, At, Own
    <3>2. /\ UNCHANGED <<user, profile, groups, tasks, done>>
          /\ GoTo(c, "announce") /\ joining' # {}
      BY <2>5, <3>1 DEF FindGroup, broker
    <3>3. caller'[c].pc = "announce" /\ \A d \in Callers \ {c} : caller'[d] = caller[d]
      BY <1>08, <3>2, Moved
    <3>4. At3(c) /\ At3(c)'
      BY <3>1, <3>3 DEF RegistrationPcs
    <3>5. profile /\ user # "none" /\ H = 0
      BY <1>01, <3>1, <3>4
    <3>6. QED
      BY <1>01, <1>03, <3>2, <3>3, <3>4, <3>5
  <2>6. CASE Announce(c)
    <3>1. UNCHANGED <<user, profile, groups, joining>> /\ caller[c].pc = "announce" /\ GoTo(c, "idle")
      BY <2>6 DEF Announce, At
    <3>2. caller'[c].pc = "idle" /\ \A d \in Callers \ {c} : caller'[d] = caller[d]
      BY <1>08, <3>1, Moved
    <3>3. At3(c) /\ ~At3(c)'
      BY <3>1, <3>2 DEF RegistrationPcs
    <3>4. H' = H + 1
      BY <1>02, <2>6, Sent DEF Announce
    <3>5. \A d \in Callers : ~At3(d)'
      BY <1>01, <3>2, <3>3
    <3>6. profile /\ user # "none" /\ H = 0 /\ groups \cup joining # {}
      BY <1>01, <3>1, <3>3
    <3>7. QED
      BY <1>03, <3>1, <3>4, <3>5, <3>6
  <2>7. QED
    BY <1>2, <2>1, <2>2, <2>3, <2>4, <2>5, <2>6 DEF CallStep
<1>3. ASSUME NEW p \in Plans, Join(p) PROVE RegistrationInv'
  <2>1. Same
    BY <1>3 DEF Join, broker
  <2>2. QED
    BY <1>04, <2>1
<1>4. CASE SendSpecial \/ SendSpecialFails
  <2>1. tasks'["registered"] = tasks["registered"] /\ done' = done
    BY <1>4 DEF SendSpecial, SendSpecialFails, TypeOK
  <2>2. Same
    BY <1>4, <2>1 DEF SendSpecial, SendSpecialFails
  <2>3. QED
    BY <1>04, <2>2
<1>5. ASSUME NEW c \in Callers, CallFails(c) PROVE RegistrationInv'
  <2>1. GoTo(c, "idle") /\ Elsewhere(c, "idle") /\ UNCHANGED <<user, profile, groups, joining, tasks, done>>
    BY <1>5 DEF CallFails, RegistrationPcs, Own, broker
  <2>2. Same
    BY <1>06, <1>08, <2>1
  <2>3. QED
    BY <1>04, <2>2
<1>6. ASSUME NEW p \in Plans, JoinFails(p) PROVE RegistrationInv'
  BY <1>6 DEF JoinFails, Own
<1>7. ASSUME NEW t \in Tasks, LoseTask(t) PROVE RegistrationInv'
  <2>1. t # "registered"
    BY <1>7 DEF LoseTask, Own
  <2>2. tasks'["registered"] = tasks["registered"] /\ done' = done
    BY <1>7, <2>1 DEF LoseTask, TypeOK
  <2>3. Same
    BY <1>7, <2>2 DEF LoseTask
  <2>4. QED
    BY <1>04, <2>3
<1>8. ASSUME NEW t \in Tasks, RunTask(t) PROVE RegistrationInv'
  <2>1. H' = H
    BY <1>8 DEF RunTask, TypeOK
  <2>2. Same
    BY <1>8, <2>1 DEF RunTask
  <2>3. QED
    BY <1>04, <2>2
<1>9. ASSUME NEW p \in Plans, NEW s \in {"approved", "rejected"}, Review(s, p) PROVE RegistrationInv'
  <2>1. Same
    BY <1>9 DEF Review, broker
  <2>2. QED
    BY <1>04, <2>1
<1>10. CASE Activate \/ LogIn \/ UNCHANGED vars
  <2>1. Same
    BY <1>10 DEF Activate, LogIn, vars, broker
  <2>2. QED
    BY <1>04, <2>1
<1>11. QED
  BY <1>1, <1>2, <1>3, <1>4, <1>5, <1>6, <1>7, <1>8, <1>9, <1>10 DEF Next, Failure

\* However registrations overlap, an account whose registration is over is
\* complete and announced once, unless a step of the registration failed.
THEOREM Complete == Spec => []AccountComplete
<1>1. Init => RegistrationInv
  BY Constants DEF Init, RegistrationInv, AccountComplete, Registering, Handed, RegistrationPcs, Idle
<1>2. IInv /\ RegistrationInv /\ [Next]_vars => RegistrationInv'
  BY RegistrationStep DEF IInv
<1>3. RegistrationInv => AccountComplete
  BY DEF RegistrationInv, AccountComplete
<1>4. QED
  BY <1>1, <1>2, <1>3, Invariance, PTL DEF Spec
=============================================================================
