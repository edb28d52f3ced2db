--------------------------- MODULE SchedulerProofs ---------------------------
(* Theorems about Scheduler.tla, for every set of instances and checks and   *)
(* every environment of reports.  No liveness is proved here.                *)
EXTENDS Scheduler, SequenceLemmas

\* While the process runs, what is scheduled agrees with what is believed.
Scheduled == UpMeansScheduled /\ UpCheckScheduled

IInv == TypeOK /\ Scheduled

-----------------------------------------------------------------------------
\* The queue operators keep the type of a queue.
LEMMA QueueOK ==
    ASSUME NEW S, NEW q \in Seq(S), NEW m \in S
    PROVE  /\ Publish(q, m) \in Seq(S) /\ Requeue(q, m) \in Seq(S)
           /\ q # <<>> => DropOldest(q) \in Seq(S)
BY QueueTypes, MaxQueueAssumption DEF Publish, Requeue, DropOldest

LEMMA AttemptParts ==
    ASSUME NEW a \in Attempt
    PROVE  InstanceOf(a) \in Instance /\ CheckOf(a) \in Check
BY DEF Attempt, Configured, InstanceOf, CheckOf

\* A process that ended satisfies the invariant whatever it was doing.
LEMMA HaltOK ==
    ASSUME Halt, orders' \in Seq(Attempt)
    PROVE  IInv'
<1>1. TypeOK'
  BY DEF Halt, TypeOK
<1>2. Scheduled'
  BY DEF Halt, Scheduled, UpMeansScheduled, UpCheckScheduled
<1> QED
  BY <1>1, <1>2 DEF IInv

\* Steps that leave the process's own variables alone.
LEMMA SvarsUnchangedOK ==
    ASSUME IInv, UNCHANGED svars, orders' \in Seq(Attempt)
    PROVE  IInv'
BY DEF IInv, TypeOK, Scheduled, UpMeansScheduled, UpCheckScheduled, svars
-----------------------------------------------------------------------------
(* One lemma per kind of step                                                *)

\* A step that only changes next_run for the attempt a, to a time that is not
\* "never", and the pc and the todo of the process.
LEMMA RescheduleOK ==
    ASSUME IInv, NEW a \in Attempt, NEW when \in {"later", "due"},
           next_run' = [next_run EXCEPT ![a] = when],
           UNCHANGED <<pc, channel, is_alive>>,
           todo' \in Seq(Attempt), orders' \in Seq(Attempt)
    PROVE  IInv'
<1>1. TypeOK'
  BY DEF IInv, TypeOK
<1>2. \A b \in Attempt : next_run[b] # "never" => next_run'[b] # "never"
  BY DEF IInv, TypeOK
<1>3. Scheduled'
  BY <1>2 DEF IInv, Scheduled, UpMeansScheduled, UpCheckScheduled
<1> QED
  BY <1>1, <1>3 DEF IInv

\* A step that only moves the process or its channel.
LEMMA MoveOK ==
    ASSUME IInv, pc # "down", pc' \in {"ioloop", "waiting", "pass"},
           channel' \in {"none", "open", "closed"}, todo' \in Seq(Attempt),
           UNCHANGED <<next_run, is_alive, orders>>
    PROVE  IInv'
BY DEF IInv, TypeOK, Scheduled, UpMeansScheduled, UpCheckScheduled

LEMMA StartOK ==
    ASSUME IInv, Start
    PROVE  IInv'
<1>1. TypeOK'
  BY DEF IInv, TypeOK, Start, InitAttempts
<1>2. UpMeansScheduled'
  BY AttemptParts DEF Start, UpMeansScheduled
<1>3. UpCheckScheduled'
  BY DEF Start, InitAttempts, UpCheckScheduled
<1> QED
  BY <1>1, <1>2, <1>3 DEF IInv, Scheduled

\* A change of state of an instance.  Parking takes the instance out of UP,
\* and neither parking nor releasing touches an up check.
LEMMA ChangeStateOK ==
    ASSUME IInv, NEW i \in Instance,
           NEW to \in {"UP", "DOWN"}, NEW when \in {"never", "due"},
           to = "UP" => when = "due",
           ChangeState(i, to, when), orders' = orders
    PROVE  IInv'
<1> orders' \in Seq(Attempt)
  BY DEF IInv, TypeOK
<1>1. CASE LoopRaises(i)
  BY <1>1, HaltOK DEF ChangeState
<1>2. CASE ~LoopRaises(i)
  <2>1. /\ is_alive' = [is_alive EXCEPT ![i] = to]
        /\ next_run' = [a \in Attempt |->
              IF InstanceOf(a) = i /\ ~IsUpCheck(a) THEN when ELSE next_run[a]]
        /\ UNCHANGED <<pc, channel, todo>>
    BY <1>2 DEF ChangeState, ScheduleOthers
  <2>2. TypeOK'
    BY <2>1 DEF IInv, TypeOK
  <2>3. UpMeansScheduled'
    <3> SUFFICES ASSUME pc' # "down", NEW a \in Attempt,
                        is_alive'[InstanceOf(a)] = "UP"
                 PROVE  next_run'[a] # "never"
      BY DEF UpMeansScheduled
    <3>0. InstanceOf(a) \in Instance
      BY AttemptParts
    <3>1. CASE InstanceOf(a) = i /\ ~IsUpCheck(a)
      <4>1. to = "UP"
        BY <2>1, <3>1 DEF IInv, TypeOK
      <4> QED
        BY <4>1, <2>1, <3>1
    <3>2. CASE InstanceOf(a) = i /\ IsUpCheck(a)
      BY <2>1, <3>2 DEF IInv, Scheduled, UpCheckScheduled
    <3>3. CASE InstanceOf(a) # i
      BY <2>1, <3>0, <3>3 DEF IInv, TypeOK, Scheduled, UpMeansScheduled
    <3> QED
      BY <3>1, <3>2, <3>3
  <2>4. UpCheckScheduled'
    BY <2>1 DEF IInv, Scheduled, UpCheckScheduled
  <2> QED
    BY <2>2, <2>3, <2>4 DEF IInv, Scheduled
<1> QED
  BY <1>1, <1>2

LEMMA HandleReportOK ==
    ASSUME IInv, NEW r \in Report, HandleReport(r)
    PROVE  IInv'
<1>0. orders' \in Seq(Attempt) /\ orders' = orders
  BY DEF IInv, TypeOK, HandleReport
<1>1. CASE ReportUp(r)
  <2>1. CASE r.attempt \in Attempt /\ GoesDown(r)
    BY <1>0, <1>1, <2>1, AttemptParts, ChangeStateOK DEF ReportUp
  <2>2. CASE r.attempt \in Attempt /\ ~GoesDown(r) /\ GoesUp(r)
    BY <1>0, <1>1, <2>2, AttemptParts, ChangeStateOK DEF ReportUp
  <2>3. CASE ~(r.attempt \in Attempt /\ (GoesDown(r) \/ GoesUp(r)))
    BY <1>0, <1>1, <2>3, SvarsUnchangedOK DEF ReportUp
  <2> QED
    BY <2>1, <2>2, <2>3
<1>2. CASE ReportDone(r)
  <2>1. CASE r.attempt \in Attempt
    <3>1. todo' \in Seq(Attempt)
      BY <1>2 DEF IInv, TypeOK, ReportDone
    <3> QED
      BY <1>0, <1>2, <2>1, <3>1, RescheduleOK DEF ReportDone
  <2>2. CASE r.attempt \notin Attempt
    BY <1>0, <1>2, <2>2, SvarsUnchangedOK DEF ReportDone, svars
  <2> QED
    BY <2>1, <2>2
<1>3. CASE ReportOther(r)
  BY <1>0, <1>3, HaltOK, SvarsUnchangedOK DEF ReportOther
<1> QED
  BY <1>1, <1>2, <1>3 DEF HandleReport

LEMMA OrderAttemptOK ==
    ASSUME IInv, OrderAttempt
    PROVE  IInv'
<1> DEFINE a == Head(todo)
<1>0. a \in Attempt /\ Tail(todo) \in Seq(Attempt) /\ pc # "down"
  BY DEF IInv, TypeOK, OrderAttempt
<1>1. CASE PassOver(a)
  <2>0. /\ UNCHANGED <<pc, channel, is_alive, orders>>
        /\ todo' \in Seq(Attempt) /\ orders' \in Seq(Attempt)
    BY <1>0, <1>1 DEF PassOver, Advance, IInv, TypeOK
  <2>1. CASE UNCHANGED next_run
    <3>1. channel' \in {"none", "open", "closed"}
          /\ pc' \in {"ioloop", "waiting", "pass"}
      BY <1>0, <2>0 DEF IInv, TypeOK
    <3> QED
      BY <1>0, <2>0, <2>1, <3>1, MoveOK
  <2>2. CASE Reschedule(a)
    BY <1>0, <2>0, <2>2, RescheduleOK DEF Reschedule
  <2> QED
    BY <1>1, <2>1, <2>2 DEF PassOver
<1>2. CASE PublishOrder(a)
  <2>1. CASE channel = "open"
    <3>1. orders' \in Seq(Attempt)
      BY <1>0, <1>2, <2>1, QueueOK DEF PublishOrder, IInv, TypeOK
    <3>2. Reschedule(a) /\ Advance
      BY <1>2, <2>1 DEF PublishOrder
    <3> QED
      BY <1>0, <3>1, <3>2, RescheduleOK DEF Reschedule, Advance
  <2>2. CASE channel # "open"
    <3>1. Halt /\ orders' \in Seq(Attempt)
      BY <1>2, <2>2 DEF PublishOrder, IInv, TypeOK
    <3> QED
      BY <3>1, HaltOK
  <2> QED
    BY <2>1, <2>2
<1> QED
  BY <1>1, <1>2 DEF OrderAttempt

-----------------------------------------------------------------------------
THEOREM InitIInv == Init => IInv
BY DEF Init, IInv, TypeOK, Scheduled, UpMeansScheduled, UpCheckScheduled

THEOREM NextIInv == IInv /\ [Next]_vars => IInv'
<1> SUFFICES ASSUME IInv, [Next]_vars
             PROVE  IInv'
  OBVIOUS
<1>0. orders \in Seq(Attempt) /\ AttemptDict \in Seq(Attempt)
  BY AttemptDictAssumption DEF IInv, TypeOK
<1>1. CASE Start
  BY <1>1, StartOK
<1>2. CASE ChannelOpen \/ ConnectionLost
  BY <1>2, MoveOK DEF ChannelOpen, ConnectionLost, IInv, TypeOK
<1>3. CASE Stop
  BY <1>0, <1>3, HaltOK DEF Stop
<1>4. CASE OrderTaken \/ OrderReturned
  <2>1. CASE OrderTaken
    BY <1>0, <2>1, QueueOK, SvarsUnchangedOK DEF OrderTaken
  <2>2. CASE OrderReturned
    <3>1. PICK a \in Attempt : orders' = Requeue(orders, a)
      BY <2>2 DEF OrderReturned
    <3> QED
      BY <1>0, <2>2, <3>1, QueueOK, SvarsUnchangedOK DEF OrderReturned
  <2> QED
    BY <1>4, <2>1, <2>2
<1>5. CASE IoloopStop \/ PassEnd
  BY <1>0, <1>5, MoveOK DEF IoloopStop, PassEnd, IInv, TypeOK
<1>6. CASE OrderAttempt
  BY <1>6, OrderAttemptOK
<1>7. ASSUME NEW a \in Attempt, Elapse(a)
      PROVE  IInv'
  <2>1. todo' \in Seq(Attempt) /\ orders' \in Seq(Attempt)
    BY <1>7 DEF Elapse, IInv, TypeOK
  <2> QED
    BY <1>7, <2>1, RescheduleOK DEF Elapse
<1>8. ASSUME NEW r \in Report, HandleReport(r)
      PROVE  IInv'
  BY <1>8, HandleReportOK
<1>9. CASE UNCHANGED vars
  BY <1>0, <1>9, SvarsUnchangedOK DEF vars, svars
<1> QED
  BY <1>1, <1>2, <1>3, <1>4, <1>5, <1>6, <1>7, <1>8, <1>9 DEF Next, Process

\* The inductive invariant holds in every state the scheduler can be in.
THEOREM AlwaysIInv == Spec => []IInv
BY InitIInv, NextIInv, PTL DEF Spec

\* The variables keep their types, for any number of instances and checks.
THEOREM TypeCorrect == Spec => []TypeOK
BY AlwaysIInv, PTL DEF IInv

\* No check of an instance that is UP is ever parked (reports_callback and
\* order_attempt), for any instances, checks, broken attempts and reports.
THEOREM UpIsScheduled == Spec => []UpMeansScheduled
BY AlwaysIInv, PTL DEF IInv, Scheduled

\* The up check of an instance is never parked.
THEOREM UpCheckIsScheduled == Spec => []UpCheckScheduled
BY AlwaysIInv, PTL DEF IInv, Scheduled
=============================================================================
