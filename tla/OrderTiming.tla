----------------------------- MODULE OrderTiming -----------------------------
(* The clock of one attempt, from samm_orders and back: when does the        *)
(* scheduler order it again?  docs/README.md says one interval after the     *)
(* done report of the order before, or one interval after a lost order.      *)
(* The code schedules the attempt twice: when it publishes the order         *)
(* (order_attempt, line 138) and when the done report comes (report_done,    *)
(* line 104); the earlier of the two fires if it comes first.                *)
(*                                                                           *)
(* Time goes in ticks of equal length.  Ages count the ticks since a message *)
(* was published, or since the module was started.  Reports that move the    *)
(* instance between states are left out (Scheduler.tla has them).            *)
EXTENDS Naturals, Integers, Sequences

CONSTANTS
    Interval,   \* check_interval
    Jitter,     \* schedule() adds uniform(-8, 8) seconds
    TTL,        \* x-message-ttl of samm_orders
    MaxWork,    \* longest collection, the exporter's cycle included
    MaxDelay,   \* longest time a done report waits for the scheduler's ioloop
    MaxLag      \* longest time a due attempt waits for the next pass

ASSUME TimingAssumption ==
    /\ Interval \in Nat /\ Jitter \in Nat /\ Jitter <= Interval
    /\ TTL \in Nat /\ MaxWork \in Nat /\ MaxDelay \in Nat /\ MaxLag \in Nat

VARIABLES
    until,      \* next_run - time.time(): due once negative
    waiting,    \* ages of its orders in samm_orders, oldest first
    working,    \* age of the collection, -1 if none runs
    done        \* ages of its done reports in samm_reports

vars == <<until, waiting, working, done>>

\* schedule(check_interval): any time within the jitter.
ScheduleNext == until' \in (Interval - Jitter)..(Interval + Jitter)

\* init_attempts: schedule(0).
Init == until = 0 /\ waiting = <<>> /\ working = -1 /\ done = <<>>

Due == until < 0

\* Mutant: the next order is left to the done report.
OrderOnly ==
    /\ Due
    /\ waiting' = Append(waiting, 0)
    /\ UNCHANGED <<until, working, done>>

\* order_attempt: publish, then schedule_next.
Order ==
    /\ Due
    /\ waiting' = Append(waiting, 0)
    /\ ScheduleNext
    /\ UNCHANGED <<working, done>>

\* A collector accepts the order.
Accept ==
    /\ waiting # <<>>
    /\ working = -1
    /\ waiting' = Tail(waiting)
    /\ working' = 0
    /\ UNCHANGED <<until, done>>

\* done_callback: ack, and the done report.
Finish ==
    /\ working # -1
    /\ working' = -1
    /\ done' = Append(done, 0)
    /\ UNCHANGED <<until, waiting>>

\* report_done: schedule_next.
HandleDone ==
    /\ done # <<>>
    /\ done' = Tail(done)
    /\ ScheduleNext
    /\ UNCHANGED <<waiting, working>>

\* No collector picked the order up.
Expire ==
    /\ waiting # <<>>
    /\ Head(waiting) = TTL
    /\ waiting' = Tail(waiting)
    /\ UNCHANGED <<until, working, done>>

Older(ages) == [k \in DOMAIN ages |-> ages[k] + 1]

\* One tick, unless something must happen before.
Tick ==
    /\ until > -1 - MaxLag
    /\ waiting # <<>> => Head(waiting) < TTL
    /\ working < MaxWork
    /\ done # <<>> => Head(done) < MaxDelay
    /\ until' = until - 1
    /\ waiting' = Older(waiting)
    /\ working' = IF working = -1 THEN -1 ELSE working + 1
    /\ done' = Older(done)

Next == Order \/ Accept \/ Finish \/ HandleDone \/ Expire \/ Tick
Spec == Init /\ [][Next]_vars

-----------------------------------------------------------------------------
(* Properties *)

\* Orders of the attempt that are waiting, being worked on or just done.
Outstanding == Len(waiting) + (IF working = -1 THEN 0 ELSE 1) + Len(done)

\* The attempt is not ordered again before the done report of its last order
\* was handled or that order was lost: never two orders at once, so that the
\* next one comes (time in queue) + (process time) + (interval) after the
\* last, or (interval) after a lost one, as docs/README.md has it.
OneOrderAtATime == Outstanding <= 1
=============================================================================
