------------------------------ MODULE SammProofs ------------------------------
(* Theorems about Samm.tla, for any number of hosts, checks and collectors   *)
(* and any bounds: in the distributed system the scheduler is the one of     *)
(* Scheduler.tla, so what holds of that one holds here.  The liveness of the *)
(* system is left to TLC.                                                    *)
EXTENDS Samm, SchedulerProofs

\* Orders name attempts the scheduler has created, whoever holds them.
JobsAreAttempts ==
    /\ job \in [Worker -> Attempt \cup {None}]
    /\ owed \in [Worker -> Attempt \cup {None}]

SInv == IInv /\ SammTypeOK /\ JobsAreAttempts

-----------------------------------------------------------------------------
\* What a collector can report is what the scheduler's handlers are made for.
LEMMA WorkerReportIsReport == C!WorkerReport \subseteq Report
BY DEF C!WorkerReport, C!UpReport, C!DoneReport, Report, UpTargets

LEMMA AttemptIsConfigured == Attempt \subseteq Configured
BY DEF Attempt

\* Publishing keeps the type of a queue of reports.
LEMMA ReportQueue ==
    ASSUME NEW q \in Seq(C!WorkerReport), NEW m \in C!WorkerReport
    PROVE  C!Publish(q, m) \in Seq(C!WorkerReport)
<1>1. MaxQueue \in Nat \ {0}
  BY MaxQueueAssumption
<1>2. Append(q, m) \in Seq(C!WorkerReport)
  OBVIOUS
<1>3. CASE Len(q) < MaxQueue
  BY <1>2, <1>3 DEF C!Publish
<1>4. CASE ~(Len(q) < MaxQueue)
  <2>1. q # <<>>
    BY <1>1, <1>4
  <2>2. Tail(q) \in Seq(C!WorkerReport)
    BY <2>1
  <2> QED
    BY <1>4, <2>2 DEF C!Publish
<1> QED
  BY <1>3, <1>4

\* Every step of the system is a step of Scheduler.tla, or does not touch it.
LEMMA SchedulerSteps ==
    ASSUME SInv, [SammNext]_allvars
    PROVE  [Next]_vars
<1>1. CASE SchedulerStep \/ SchedulerStart \/ SchedulerOpens \/ SchedulerStops
           \/ ConnectionBreaks
  BY <1>1 DEF SchedulerStep, SchedulerStart, SchedulerOpens, SchedulerStops,
              ConnectionBreaks, Next
<1>2. CASE HandleOldestReport
  <2>1. Head(reports) \in C!WorkerReport
    BY <1>2 DEF HandleOldestReport, SInv, SammTypeOK, C!TypeOK
  <2>2. HandleReport(Head(reports)) /\ Head(reports) \in Report
    BY <1>2, <2>1, WorkerReportIsReport DEF HandleOldestReport
  <2> QED
    BY <2>2 DEF Next
<1>3. ASSUME NEW a \in Attempt, IntervalPasses(a)
      PROVE  Next
  BY <1>3 DEF IntervalPasses, Next
<1>4. ASSUME NEW w \in Worker, CollectorTake(w)
      PROVE  Next
  BY <1>4 DEF CollectorTake, C!Take, OrderTaken, DropOldest, C!DropOldest, Next
<1>5. ASSUME NEW w \in Worker,
             \/ CollectorBegin(w) \/ Measure(w) \/ CollectorReportUp(w)
             \/ CollectorAck(w) \/ CollectorDone(w)
      PROVE  UNCHANGED vars
  BY <1>5 DEF CollectorBegin, C!Begin, Measure, CollectorReportUp, C!ReportUp,
              CollectorAck, C!Ack, CollectorDone, C!PublishDone, vars, svars
<1>6. ASSUME NEW w \in Worker, CollectorExits(w)
      PROVE  [Next]_vars
  <2>1. CASE job[w] = None
    BY <1>6, <2>1 DEF CollectorExits, C!Exit, vars, svars
  <2>2. CASE job[w] # None
    <3>1. job[w] \in Attempt
      BY <2>2 DEF SInv, JobsAreAttempts
    <3> QED
      BY <1>6, <2>2, <3>1 DEF CollectorExits, C!Exit, OrderReturned, Requeue,
                              C!Requeue, Next
  <2> QED
    BY <2>1, <2>2
<1>7. CASE OrderLost
  BY <1>7 DEF OrderLost, C!OrderExpires, OrderTaken, DropOldest, C!DropOldest, Next
<1>8. CASE ReportLost \/ (\E i \in Instance : HostChanges(i)) \/ UNCHANGED allvars
  BY <1>8 DEF ReportLost, C!ReportTaken, HostChanges, allvars, vars, svars
<1> QED
  BY <1>1, <1>2, <1>3, <1>4, <1>5, <1>6, <1>7, <1>8 DEF SammNext, CollectorStep

-----------------------------------------------------------------------------
(* The collectors' half of the invariant.  orders is the scheduler's half.   *)

Others ==
    /\ mode \in [Worker -> {"down", "up"}]
    /\ JobsAreAttempts
    /\ reports \in Seq(C!WorkerReport)
    /\ measured \in [Worker -> {"todo", "0", "1", "told"}]
    /\ host \in [Instance -> {"0", "1"}]
    /\ faults \in 0..MaxFaults

LEMMA SInvIsOthers == SInv <=> IInv /\ Others
<1>1. SInv => Others
  BY DEF SInv, SammTypeOK, C!TypeOK, Others
<1>2. IInv => orders \in Seq(Configured)
  BY AttemptIsConfigured DEF IInv, TypeOK
<1>3. JobsAreAttempts => /\ job \in [Worker -> Configured \cup {None}]
                         /\ owed \in [Worker -> Configured \cup {None}]
  BY AttemptIsConfigured DEF JobsAreAttempts
<1>4. IInv /\ Others => SInv
  BY <1>2, <1>3 DEF SInv, SammTypeOK, C!TypeOK, Others, IInv
<1> QED
  BY <1>1, <1>4 DEF SInv

\* One step of collector w.
LEMMA CollectorStepOK ==
    ASSUME SInv, NEW w \in Worker, CollectorStep(w)
    PROVE  Others'
<1>0. Others
  BY SInvIsOthers
<1>1. CASE CollectorBegin(w)
  BY <1>0, <1>1 DEF CollectorBegin, C!Begin, hvars, Others, JobsAreAttempts
<1>2. CASE CollectorTake(w)
  <2>1. Head(orders) \in Attempt
    BY <1>2 DEF CollectorTake, C!Take, SInv, IInv, TypeOK
  <2>2. /\ job' = [job EXCEPT ![w] = Head(orders)]
        /\ measured' = [measured EXCEPT ![w] = "todo"]
        /\ UNCHANGED <<mode, owed, reports, host, faults>>
    BY <1>2 DEF CollectorTake, C!Take, Idle, hvars
  <2> QED
    BY <1>0, <2>1, <2>2 DEF Others, JobsAreAttempts
<1>3. CASE Measure(w)
  <2>1. host[InstanceOf(job[w])] \in {"0", "1"}
    BY <1>0, <1>3 DEF Measure, UpTargets, Configured, InstanceOf, Others
  <2> QED
    BY <1>0, <1>3, <2>1 DEF Measure, hvars, Others, JobsAreAttempts
<1>4. CASE CollectorReportUp(w)
  <2>1. C!UpReport(job[w], measured[w]) \in C!WorkerReport
    BY <1>4 DEF CollectorReportUp, C!ReportUp, C!WorkerReport, Value
  <2>2. reports' \in Seq(C!WorkerReport)
    BY <1>0, <1>4, <2>1, ReportQueue DEF CollectorReportUp, C!ReportUp, Others
  <2>3. /\ measured' = [measured EXCEPT ![w] = "told"]
        /\ UNCHANGED <<mode, job, owed, host, faults>>
    BY <1>4 DEF CollectorReportUp, C!ReportUp, hvars
  <2> QED
    BY <1>0, <2>2, <2>3 DEF Others, JobsAreAttempts
<1>5. CASE CollectorAck(w)
  <2>1. /\ job[w] \in Attempt
        /\ job' = [job EXCEPT ![w] = None]
        /\ owed' = [owed EXCEPT ![w] = job[w]]
        /\ measured' = [measured EXCEPT ![w] = "todo"]
        /\ UNCHANGED <<mode, reports, host, faults>>
    BY <1>0, <1>5 DEF CollectorAck, C!Ack, Idle, hvars, Others, JobsAreAttempts
  <2> QED
    BY <1>0, <2>1 DEF Others, JobsAreAttempts
<1>6. CASE CollectorDone(w)
  <2>1. owed[w] \in Configured
    BY <1>0, <1>6, AttemptIsConfigured DEF CollectorDone, C!PublishDone, Others,
       JobsAreAttempts
  <2>2. C!DoneReport(owed[w]) \in C!WorkerReport
    BY <2>1 DEF C!WorkerReport
  <2>3. reports' \in Seq(C!WorkerReport)
    BY <1>0, <1>6, <2>2, ReportQueue DEF CollectorDone, C!PublishDone, Others
  <2>4. /\ owed' = [owed EXCEPT ![w] = None]
        /\ UNCHANGED <<mode, job, measured, host, faults>>
    BY <1>6 DEF CollectorDone, C!PublishDone, hvars
  <2> QED
    BY <1>0, <2>3, <2>4 DEF Others, JobsAreAttempts
<1> QED
  BY <1>1, <1>2, <1>3, <1>4, <1>5, <1>6 DEF CollectorStep

LEMMA FaultOK ==
    ASSUME SInv,
           \/ SchedulerStops \/ ConnectionBreaks \/ OrderLost \/ ReportLost
           \/ \E w \in Worker : CollectorExits(w)
           \/ \E i \in Instance : HostChanges(i)
    PROVE  Others'
<1>0. Others
  BY SInvIsOthers
<1>1. faults' \in 0..MaxFaults
  BY <1>0, SammAssumption DEF Fault, Spend, Others, SchedulerStops, ConnectionBreaks,
     OrderLost, ReportLost, CollectorExits, HostChanges
<1>2. CASE SchedulerStops \/ ConnectionBreaks \/ OrderLost
  BY <1>0, <1>1, <1>2 DEF SchedulerStops, ConnectionBreaks, OrderLost,
     C!OrderExpires, cvars, Others, JobsAreAttempts
<1>3. CASE ReportLost
  <2>1. reports' \in Seq(C!WorkerReport)
    BY <1>0, <1>3 DEF ReportLost, C!ReportTaken, C!DropOldest, Others
  <2> QED
    BY <1>0, <1>1, <1>3, <2>1 DEF ReportLost, C!ReportTaken, Others, JobsAreAttempts
<1>4. ASSUME NEW w \in Worker, CollectorExits(w)
      PROVE  Others'
  BY <1>0, <1>1, <1>4 DEF CollectorExits, C!Exit, Idle, Others, JobsAreAttempts
<1>5. ASSUME NEW i \in Instance, HostChanges(i)
      PROVE  Others'
  BY <1>0, <1>1, <1>5 DEF HostChanges, cvars, Others, JobsAreAttempts
<1> QED
  BY <1>2, <1>3, <1>4, <1>5

LEMMA NextSInv == SInv /\ [SammNext]_allvars => SInv'
<1> SUFFICES ASSUME SInv, [SammNext]_allvars
             PROVE  SInv'
  OBVIOUS
<1>0. Others /\ IInv
  BY SInvIsOthers
<1>1. IInv'
  BY <1>0, SchedulerSteps, NextIInv
<1>2. Others'
  <2>1. CASE SchedulerStep \/ SchedulerStart \/ SchedulerOpens \/ UNCHANGED allvars
             \/ \E a \in Attempt : IntervalPasses(a)
    BY <1>0, <2>1 DEF SchedulerStep, SchedulerStart, SchedulerOpens, IntervalPasses,
       allvars, cvars, hvars, Others, JobsAreAttempts
  <2>2. CASE HandleOldestReport
    <3>1. reports' \in Seq(C!WorkerReport)
      BY <1>0, <2>2 DEF HandleOldestReport, DropOldest, Others
    <3> QED
      BY <1>0, <2>2, <3>1 DEF HandleOldestReport, hvars, Others, JobsAreAttempts
  <2> QED
    BY <2>1, <2>2, CollectorStepOK, FaultOK DEF SammNext
<1> QED
  BY <1>1, <1>2, SInvIsOthers, PTL

LEMMA InitSInv == SammInit => SInv
<1> SUFFICES ASSUME SammInit PROVE SInv
  OBVIOUS
<1>1. IInv
  BY InitIInv DEF SammInit
<1>2. Others
  BY SammAssumption DEF SammInit, C!InitWorkers, Others, JobsAreAttempts
<1> QED
  BY <1>1, <1>2, SInvIsOthers

THEOREM AlwaysSInv == SammSpec => []SInv
BY InitSInv, NextSInv, PTL DEF SammSpec

\* The variables of the system keep their types.
THEOREM SammTypeCorrect == SammSpec => []SammTypeOK
BY AlwaysSInv, PTL DEF SInv

\* Whatever the collectors do is allowed for in the open environment of
\* Scheduler.tla: its safety theorems hold in the distributed system.
THEOREM SammHasTheScheduler == SammSpec => OpenScheduler
<1>1. SammInit => Init
  BY DEF SammInit
<1>2. SInv /\ [SammNext]_allvars => [Next]_vars
  BY SchedulerSteps
<1> QED
  BY <1>1, <1>2, AlwaysSInv, PTL DEF SammSpec, OpenScheduler

\* So no check of a host seen as UP is ever parked by reports of any number of
\* collectors, in any order.
THEOREM SammUpIsScheduled == SammSpec => []UpMeansScheduled
BY AlwaysSInv, PTL DEF SInv, IInv, Scheduled
=============================================================================
