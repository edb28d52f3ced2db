------------------------------- MODULE Worker -------------------------------
(* What a collector process promises to the rest of the system, seen from    *)
(* the two queues: it takes one order at a time, reports the state of the    *)
(* host while it works on the order of an up check, acks the order only when *)
(* the work is over and then publishes one done report.  A process that ends *)
(* gives its order back.  Collector.tla implements this with two threads.    *)
EXTENDS Broker, FiniteSets

CONSTANTS
    Worker,     \* the collector processes
    Target,     \* attempt names an order can carry
    UpTarget,   \* those of them that are up checks
    None,       \* no order
    Value       \* what an up check can report

VARIABLES
    mode,       \* [Worker -> {"down", "up"}]
    job,        \* [Worker -> Target \cup {None}]: delivered, not acked
    owed,       \* [Worker -> Target \cup {None}]: acked, done not published
    orders,     \* samm_orders
    reports     \* samm_reports

wvars == <<mode, job, owed, orders, reports>>

UpReport(a, v) == [type |-> "up_check", attempt |-> a, value |-> v]
DoneReport(a)  == [type |-> "done", attempt |-> a]
WorkerReport   == {UpReport(a, v) : a \in UpTarget, v \in Value}
                     \cup {DoneReport(a) : a \in Target}

TypeOK ==
    /\ mode \in [Worker -> {"down", "up"}]
    /\ job \in [Worker -> Target \cup {None}]
    /\ owed \in [Worker -> Target \cup {None}]
    /\ orders \in Seq(Target)
    /\ reports \in Seq(WorkerReport)

InitWorkers ==
    /\ mode = [w \in Worker |-> "down"]
    /\ job = [w \in Worker |-> None]
    /\ owed = [w \in Worker |-> None]
-----------------------------------------------------------------------------
\* The process starts, or is restarted, and subscribes to samm_orders.
Begin(w) ==
    /\ mode[w] = "down"
    /\ mode' = [mode EXCEPT ![w] = "up"]
    /\ UNCHANGED <<job, owed, orders, reports>>

\* An order is delivered (prefetch_count=1: one at a time) and accepted.
Take(w) ==
    /\ mode[w] = "up"
    /\ job[w] = None
    /\ orders # <<>>
    /\ job' = [job EXCEPT ![w] = Head(orders)]
    /\ orders' = DropOldest(orders)
    /\ UNCHANGED <<mode, owed, reports>>

\* The collection of an up check tells what it found.
ReportUp(w, v) ==
    /\ mode[w] = "up"
    /\ job[w] \in UpTarget
    /\ reports' = Publish(reports, UpReport(job[w], v))
    /\ UNCHANGED <<mode, job, owed, orders>>

\* The work is over: the order is acked, its done report is owed.
Ack(w) ==
    /\ mode[w] = "up"
    /\ job[w] # None
    /\ owed[w] = None
    /\ job' = [job EXCEPT ![w] = None]
    /\ owed' = [owed EXCEPT ![w] = job[w]]
    /\ UNCHANGED <<mode, orders, reports>>

\* Mutant: done for the order at hand, not for the one acked.
PublishDoneForJob(w) ==
    /\ mode[w] = "up"
    /\ owed[w] # None
    /\ owed' = [owed EXCEPT ![w] = None]
    /\ reports' = Publish(reports, DoneReport(job[w]))
    /\ UNCHANGED <<mode, job, orders>>

\* The done report of the order that was acked.
PublishDone(w) ==
    /\ mode[w] = "up"
    /\ owed[w] # None
    /\ owed' = [owed EXCEPT ![w] = None]
    /\ reports' = Publish(reports, DoneReport(owed[w]))
    /\ UNCHANGED <<mode, job, orders>>

\* Mutant: the order is given back behind the others.
ExitToTail(w) ==
    /\ mode[w] = "up"
    /\ mode' = [mode EXCEPT ![w] = "down"]
    /\ job' = [job EXCEPT ![w] = None]
    /\ owed' = [owed EXCEPT ![w] = None]
    /\ orders' = IF job[w] = None THEN orders ELSE Publish(orders, job[w])
    /\ UNCHANGED reports

\* The process ends; the broker returns its unacked order to the queue.
Exit(w) ==
    /\ mode[w] = "up"
    /\ mode' = [mode EXCEPT ![w] = "down"]
    /\ job' = [job EXCEPT ![w] = None]
    /\ owed' = [owed EXCEPT ![w] = None]
    /\ orders' = IF job[w] = None THEN orders ELSE Requeue(orders, job[w])
    /\ UNCHANGED reports

\* The rest of the system: an order is published, a report is taken, the
\* oldest message of a queue expires.
OrderArrives ==
    /\ \E a \in Target : orders' = Publish(orders, a)
    /\ UNCHANGED <<mode, job, owed, reports>>
OrderExpires ==
    /\ orders # <<>>
    /\ orders' = DropOldest(orders)
    /\ UNCHANGED <<mode, job, owed, reports>>
ReportTaken ==
    /\ reports # <<>>
    /\ reports' = DropOldest(reports)
    /\ UNCHANGED <<mode, job, owed, orders>>

Environment == OrderArrives \/ OrderExpires \/ ReportTaken

Step(w) ==
    \/ Begin(w) \/ Take(w) \/ Ack(w) \/ PublishDone(w) \/ Exit(w)
    \/ \E v \in Value : ReportUp(w, v)

Next == Environment \/ \E w \in Worker : Step(w)

Init == InitWorkers /\ orders = <<>> /\ reports = <<>>
Spec == Init /\ [][Next]_wvars
=============================================================================
