-------------------------------- MODULE Samm --------------------------------
(* The distributed system: the scheduler of Scheduler.tla, the collectors of *)
(* Worker.tla, the two queues between them, and the monitored hosts.         *)
(*                                                                           *)
(* A collector measures the host at one moment and publishes what it found   *)
(* later, so reports may overtake each other.  Faults - a process ends, the  *)
(* scheduler's connection is lost, a message expires, a host changes state - *)
(* are bounded by MaxFaults; what the system does after the last one is what *)
(* the liveness properties are about.                                        *)
EXTENDS Scheduler

CONSTANTS
    Worker,     \* collector processes
    None,
    MaxFaults,  \* bound on the faults, see Spend
    MaxCopies   \* [Attempt -> Nat]: orders of an attempt in the system at once,
                \* see IntervalPasses

ASSUME SammAssumption ==
    MaxFaults \in Nat /\ MaxCopies \in [Attempt -> Nat \ {0}]

VARIABLES
    reports, mode, job, owed,   \* see Worker
    measured,   \* [Worker -> {"todo", "0", "1", "told"}]: the host as this
                \* order's collection found it
    host,       \* [Instance -> {"0", "1"}]: is the host up
    faults      \* counter for MaxFaults

cvars  == <<reports, mode, job, owed, measured>>
hvars  == <<host, faults>>
allvars == <<vars, cvars, hvars>>

UpTargets == {a \in Configured : IsUpCheck(a)}
C == INSTANCE Worker WITH Target <- Configured, UpTarget <- UpTargets

SammInit ==
    /\ Init
    /\ C!InitWorkers
    /\ reports = <<>>
    /\ measured = [w \in Worker |-> "todo"]
    /\ host \in [Instance -> {"0", "1"}]
    /\ faults = 0

-----------------------------------------------------------------------------
(* Scheduler steps *)

\* The scheduler's own steps, none of which sees a collector.
SchedulerStep == Process /\ UNCHANGED <<cvars, hvars>>
SchedulerStart == Start /\ UNCHANGED <<cvars, hvars>>
SchedulerOpens == ChannelOpen /\ UNCHANGED <<cvars, hvars>>

\* The oldest report is delivered.  It leaves the queue when it is acked; the
\* handler that raises leaves it there.
HandleOldestReport ==
    /\ reports # <<>>
    /\ HandleReport(Head(reports))
    /\ reports' = IF pc' = "down" THEN reports ELSE DropOldest(reports)
    /\ UNCHANGED <<mode, job, owed, measured, hvars>>

\* Orders of a somewhere between the two processes, up to their done report.
\* Reports no one listens to expire and are not counted.
Copies(a) ==
    Len(SelectSeq(orders, LAMBDA x : x = a))
    + Cardinality({w \in Worker : job[w] = a})
    + Cardinality({w \in Worker : owed[w] = a})
    + IF channel = "open" THEN Len(SelectSeq(reports, LAMBDA r : r = C!DoneReport(a)))
                          ELSE 0

\* The check interval of a passes.  The bound: with messages that live a
\* minute and intervals of a minute or so, an attempt becomes due again while
\* at most MaxCopies[a] orders of it are in the system.
IntervalPasses(a) ==
    /\ Copies(a) < MaxCopies[a]
    /\ Elapse(a)
    /\ UNCHANGED <<cvars, hvars>>

-----------------------------------------------------------------------------
(* Collector steps *)

Idle(w) == measured' = [measured EXCEPT ![w] = "todo"]

CollectorBegin(w) == C!Begin(w) /\ UNCHANGED <<svars, measured, hvars>>
CollectorTake(w)  == C!Take(w) /\ Idle(w) /\ UNCHANGED <<svars, hvars>>

\* The module of an up check runs: what it finds is the host at this moment.
Measure(w) ==
    /\ mode[w] = "up" /\ job[w] \in UpTargets /\ measured[w] = "todo"
    /\ measured' = [measured EXCEPT ![w] = host[InstanceOf(job[w])]]
    /\ UNCHANGED <<vars, reports, mode, job, owed, hvars>>

CollectorReportUp(w) ==
    /\ measured[w] \in {"0", "1"}
    /\ C!ReportUp(w, measured[w])
    /\ measured' = [measured EXCEPT ![w] = "told"]
    /\ UNCHANGED <<svars, hvars>>

\* The work is over; a module that raised leaves nothing to report.
CollectorAck(w) ==
    /\ measured[w] \notin {"0", "1"}
    /\ C!Ack(w)
    /\ Idle(w)
    /\ UNCHANGED <<svars, hvars>>

CollectorDone(w) == C!PublishDone(w) /\ UNCHANGED <<svars, measured, hvars>>

-----------------------------------------------------------------------------
(* Faults *)

\* The bound on faults: a host that changes counts one, a fault of the system
\* two.  With MaxFaults = 2 TLC explores a host that goes and comes back, and
\* any one fault of the system, and not the product of the two.
Spend(n) ==
    /\ faults + n <= MaxFaults
    /\ faults' = faults + n

Fault == Spend(2)

SchedulerStops == Fault /\ Stop /\ UNCHANGED <<cvars, host>>
ConnectionBreaks == Fault /\ ConnectionLost /\ UNCHANGED <<cvars, host>>
CollectorExits(w) == Fault /\ C!Exit(w) /\ Idle(w) /\ UNCHANGED <<svars, host>>
OrderLost ==
    Fault /\ C!OrderExpires /\ UNCHANGED <<svars, measured, host>>
ReportLost ==
    Fault /\ C!ReportTaken /\ UNCHANGED <<svars, measured, host>>
HostChanges(i) ==
    /\ Spend(1)
    /\ host' = [host EXCEPT ![i] = IF @ = "0" THEN "1" ELSE "0"]
    /\ UNCHANGED <<vars, cvars>>

-----------------------------------------------------------------------------
CollectorStep(w) ==
    \/ CollectorBegin(w) \/ CollectorTake(w) \/ Measure(w)
    \/ CollectorReportUp(w) \/ CollectorAck(w) \/ CollectorDone(w)

SammNext ==
    \/ SchedulerStep \/ SchedulerStart \/ SchedulerOpens \/ HandleOldestReport
    \/ \E a \in Attempt : IntervalPasses(a)
    \/ \E w \in Worker : CollectorStep(w) \/ CollectorExits(w)
    \/ SchedulerStops \/ ConnectionBreaks \/ OrderLost \/ ReportLost
    \/ \E i \in Instance : HostChanges(i)

\* Processes are restarted and run; an ioloop round of loop_sleep_s seconds
\* handles a report that is waiting (strong fairness: the passes in between
\* disable it); a module that runs again and again does not always raise.
SammFairness ==
    /\ WF_allvars(SchedulerStep)
    /\ WF_allvars(SchedulerStart)
    /\ WF_allvars(SchedulerOpens)
    /\ SF_allvars(HandleOldestReport)
    /\ \A a \in Attempt : WF_allvars(IntervalPasses(a))
    /\ \A w \in Worker :
          /\ WF_allvars(CollectorBegin(w))
          /\ WF_allvars(CollectorTake(w))
          /\ WF_allvars(CollectorReportUp(w))
          /\ WF_allvars(CollectorAck(w))
          /\ WF_allvars(CollectorDone(w))
          /\ SF_allvars(Measure(w))

SammSpec == SammInit /\ [][SammNext]_allvars /\ SammFairness

-----------------------------------------------------------------------------
(* Properties *)

\* The variables have their types.
SammTypeOK ==
    /\ TypeOK /\ C!TypeOK
    /\ measured \in [Worker -> {"todo", "0", "1", "told"}]
    /\ host \in [Instance -> {"0", "1"}]
    /\ faults \in 0..MaxFaults

Settles(i, up) == <>[](host[i] = up)

\* A host that stays up is seen as UP for good, whatever was lost, repeated or
\* overtaken before: a stale up_check report is corrected by a later one.
HostUpIsSeen ==
    \A i \in Instance : Settles(i, "1") => <>[](is_alive[i] = "UP")

\* A host that stays down is not taken for UP for good.
HostDownIsSeen ==
    \A i \in Instance : Settles(i, "0") => <>[](is_alive[i] # "UP")

\* Every check of a host that stays up is collected again and again: no
\* attempt is parked, forgotten or starved after the faults.
ChecksOfLiveHostRun ==
    \A a \in Attempt :
        Settles(InstanceOf(a), "1") => []<>(\E w \in Worker : job[w] = a)

\* A host that stays down costs only its up check: the other checks are no
\* longer ordered, even by done reports that come after it was seen DOWN.
DeadHostIsLeftAlone ==
    \A a \in Attempt :
        Skipped(a) /\ Settles(InstanceOf(a), "0")
            => <>[](\A w \in Worker : job[w] # a)

\* The scheduler in the system is the scheduler of Scheduler.tla: its open
\* environment allows everything the collectors do to the order queue.
OpenScheduler == Init /\ [][Next]_vars
=============================================================================
