------------------------------ MODULE Scheduler ------------------------------
(* The scheduler process: samm/scheduler.py with the timing half of          *)
(* samm/attempt.py.  It creates one attempt per check of an instance, orders *)
(* each attempt when it is due by publishing to samm_orders, and listens to  *)
(* the collectors' reports, which move an instance between PENDING, UP and   *)
(* DOWN and with that park or release the instance's other checks.           *)
(*                                                                           *)
(* next_run abstracts the wall clock: "never" is math.inf, "due" a time in   *)
(* the past and "later" a time ahead, which Elapse turns into "due".         *)
(* The reports are the environment's: any report may come at any moment.     *)
EXTENDS Broker, FiniteSets, SequencesExt

CONSTANTS
    Instance,       \* registered instances
    Check,          \* check names
    Checks,         \* [Instance -> Seq(Check)]: instance.checks
    UpCheck,        \* [Instance -> Check \cup {NoCheck}]: instance.up_check_name
    NoCheck,        \* an instance without an up_check
    CheckIfDown,    \* instances whose check_if_down is truthy
    Broken,         \* attempts whose constructor raises
    AttemptDict,    \* the other attempts, in the order init_attempts creates them
    SlowOpen        \* the channel may take longer than the first ioloop second

\* An attempt is named "<instance>.<check>".
InstanceOf(a) == a[1]
CheckOf(a)    == a[2]
Configured    == {a \in Instance \X Check : a[2] \in ToSet(Checks[a[1]])}
Attempt       == Configured \ Broken

ASSUME ChecksAssumption      == Checks \in [Instance -> Seq(Check)]
ASSUME UpCheckAssumption     == UpCheck \in [Instance -> Check \cup {NoCheck}]
ASSUME AttemptDictAssumption ==
    /\ AttemptDict \in Seq(Attempt)
    /\ \A a \in Attempt : a \in ToSet(AttemptDict)
ASSUME SlowOpenAssumption    == SlowOpen \in BOOLEAN

IsUpCheck(a) == CheckOf(a) = UpCheck[InstanceOf(a)]

VARIABLES
    pc,         \* "down", "ioloop", "waiting" (line 155) or "pass" (line 158)
    channel,    \* self.channel: "none", "open" or "closed"
    todo,       \* attempts the pass has still to visit
    next_run,   \* [Attempt -> {"never", "later", "due"}]
    is_alive,   \* [Instance -> {"PENDING", "UP", "DOWN"}]
    orders      \* the samm_orders queue

svars == <<pc, channel, todo, next_run, is_alive>>
vars  == <<pc, channel, todo, next_run, is_alive, orders>>

\* int(data["value"]) of an up_check report: 0, 1, another integer, no integer.
Value  == {"0", "1", "n", "bad"}
Report == [type : {"up_check"}, attempt : Configured, value : Value]
             \cup [type : {"done"}, attempt : Configured]
             \cup [type : {"other", "missing"}]

TypeOK ==
    /\ pc \in {"down", "ioloop", "waiting", "pass"}
    /\ channel \in {"none", "open", "closed"}
    /\ todo \in Seq(Attempt)
    /\ next_run \in [Attempt -> {"never", "later", "due"}]
    /\ is_alive \in [Instance -> {"PENDING", "UP", "DOWN"}]
    /\ orders \in Seq(Attempt)

-----------------------------------------------------------------------------
\* What a process that is not running keeps: nothing.
Halt ==
    /\ pc' = "down"
    /\ channel' = "none"
    /\ todo' = <<>>
    /\ next_run' = [a \in Attempt |-> "never"]
    /\ is_alive' = [i \in Instance |-> "PENDING"]

Init ==
    /\ pc = "down"
    /\ channel = "none"
    /\ todo = <<>>
    /\ next_run = [a \in Attempt |-> "never"]
    /\ is_alive = [i \in Instance |-> "PENDING"]
    /\ orders = <<>>

\* reload_config and init_attempts: the up checks and the instances checked
\* even when down start at once, the rest wait for their instance to be up.
InitAttempts ==
    [a \in Attempt |-> IF IsUpCheck(a) \/ InstanceOf(a) \in CheckIfDown
                       THEN "due" ELSE "never"]

\* run up to the first connection.ioloop.start.  Without attempts
\* process_loop raises and the process is down again.
Start ==
    /\ pc = "down"
    /\ Attempt # {}
    /\ pc' = "ioloop"
    /\ next_run' = InitAttempts
    /\ is_alive' = [i \in Instance |-> "PENDING"]
    /\ UNCHANGED <<channel, todo, orders>>

\* on_open, then on_channel_open: both run inside the ioloop.
ChannelOpen ==
    /\ pc = "ioloop"
    /\ channel = "none"
    /\ channel' = "open"
    /\ UNCHANGED <<pc, todo, next_run, is_alive, orders>>

\* The broker closes the connection.  The scheduler registers no callback
\* for it: only a later publish notices.
ConnectionLost ==
    /\ pc = "ioloop"
    /\ channel = "open"
    /\ channel' = "closed"
    /\ UNCHANGED <<pc, todo, next_run, is_alive, orders>>

\* The call_later timer stops the ioloop.  With a channel the pass over
\* attempt_dict begins; without one the process sleeps in the loop of line
\* 155, where nothing runs the ioloop and so nothing can open the channel.
IoloopStop ==
    /\ pc = "ioloop"
    /\ IF channel = "none"
       THEN SlowOpen /\ pc' = "waiting" /\ UNCHANGED todo
       ELSE pc' = "pass" /\ todo' = AttemptDict
    /\ UNCHANGED <<channel, next_run, is_alive, orders>>

\* Time passes: a scheduled attempt becomes due.
Elapse(a) ==
    /\ pc # "down"
    /\ next_run[a] = "later"
    /\ next_run' = [next_run EXCEPT ![a] = "due"]
    /\ UNCHANGED <<pc, channel, todo, is_alive, orders>>

\* SIGKILL, KeyboardInterrupt or a failed connection attempt end the process.
Stop == pc # "down" /\ Halt /\ UNCHANGED orders

-----------------------------------------------------------------------------
(* reports_callback *)

\* The positions of instance.checks the loops of report_up get to: the first
\* check without an attempt leaves attempt = None, on which the evaluation of
\* attempt.instance.name raises if there is a further check to visit.
Visited(i) ==
    {k \in DOMAIN Checks[i] : \A j \in 1..(k-1) : <<i, Checks[i][j]>> \in Attempt}
LoopRaises(i) == Visited(i) # DOMAIN Checks[i]

\* Mutants: the up check is parked too; the release parks as well.
ScheduleAll(i, when) ==
    next_run' = [a \in Attempt |-> IF InstanceOf(a) = i THEN when ELSE next_run[a]]
ParkOthers(i, when) ==
    next_run' = [a \in Attempt |->
        IF InstanceOf(a) = i /\ ~IsUpCheck(a) THEN "never" ELSE next_run[a]]

\* schedule(math.inf) or schedule(0) on the checks of i but its up check.
ScheduleOthers(i, when) ==
    next_run' = [a \in Attempt |->
        IF InstanceOf(a) = i /\ ~IsUpCheck(a) THEN when ELSE next_run[a]]

\* Mutant: the exception is caught and the rest of the loop forgotten.
ChangeStateInPart(i, to, when) ==
    /\ is_alive' = [is_alive EXCEPT ![i] = to]
    /\ next_run' = [a \in Attempt |->
          IF InstanceOf(a) = i /\ ~IsUpCheck(a)
             /\ \E k \in Visited(i) : Checks[i][k] = CheckOf(a)
          THEN when ELSE next_run[a]]
    /\ UNCHANGED <<pc, channel, todo>>

\* A change of state of instance i.  An exception in the loop leaves the
\* ioloop and ends the process with the report unacked.
ChangeState(i, to, when) ==
    IF LoopRaises(i)
    THEN Halt
    ELSE /\ is_alive' = [is_alive EXCEPT ![i] = to]
         /\ ScheduleOthers(i, when)
         /\ UNCHANGED <<pc, channel, todo>>

\* Mutants: the test of the present state is inverted, or forgets a state.
DownUnlessUp(r) == r.value = "0" /\ is_alive[InstanceOf(r.attempt)] # "UP"
UpIfPending(r)  == r.value = "1" /\ is_alive[InstanceOf(r.attempt)] = "PENDING"

\* report_up for an attempt of attempt_dict and an integer value.
GoesDown(r) == r.value = "0" /\ is_alive[InstanceOf(r.attempt)] = "UP"
GoesUp(r)   == r.value = "1" /\ is_alive[InstanceOf(r.attempt)] # "UP"

ReportUp(r) ==
    /\ r.type = "up_check"
    /\ IF r.attempt \in Attempt /\ GoesDown(r)
       THEN ChangeState(InstanceOf(r.attempt), "DOWN", "never")
       ELSE IF r.attempt \in Attempt /\ GoesUp(r)
       THEN ChangeState(InstanceOf(r.attempt), "UP", "due")
       ELSE UNCHANGED svars

\* Mutant: an attempt nobody created is scheduled as well.
ReportDoneForAny(r) ==
    /\ r.type = "done"
    /\ next_run' = (r.attempt :> "later") @@ next_run
    /\ UNCHANGED <<pc, channel, todo, is_alive>>

\* report_done: the attempt is scheduled an interval from now, even one that
\* was parked since it was ordered.
ReportDone(r) ==
    /\ r.type = "done"
    /\ next_run' = IF r.attempt \in Attempt
                   THEN [next_run EXCEPT ![r.attempt] = "later"]
                   ELSE next_run
    /\ UNCHANGED <<pc, channel, todo, is_alive>>

\* An unknown type is logged and acked; a report without one raises.
ReportOther(r) ==
    \/ r.type = "other" /\ UNCHANGED svars
    \/ r.type = "missing" /\ Halt

HandleReport(r) ==
    /\ pc = "ioloop"
    /\ channel = "open"
    /\ ReportUp(r) \/ ReportDone(r) \/ ReportOther(r)
    /\ UNCHANGED orders

-----------------------------------------------------------------------------
(* order_attempt, one attempt of the pass *)

Skipped(a) == InstanceOf(a) \notin CheckIfDown /\ ~IsUpCheck(a)
Reschedule(a) == next_run' = [next_run EXCEPT ![a] = "later"]

Advance ==
    /\ todo' = Tail(todo)
    /\ UNCHANGED <<pc, channel, is_alive>>

\* Mutant: skipped without being scheduled again.
PassOverForgets(a) ==
    /\ next_run[a] # "due" \/ (Skipped(a) /\ is_alive[InstanceOf(a)] # "UP")
    /\ Advance
    /\ UNCHANGED <<next_run, orders>>

\* Not due, or due while the instance is DOWN (schedule_next) or PENDING
\* (schedule(pending_retry)): nothing is published.
PassOver(a) ==
    /\ \/ next_run[a] # "due" /\ UNCHANGED next_run
       \/ /\ next_run[a] = "due"
          /\ Skipped(a) /\ is_alive[InstanceOf(a)] # "UP"
          /\ Reschedule(a)
    /\ Advance
    /\ UNCHANGED orders

\* Mutant: ordered whatever the state of the instance.
WantedAnyway(a) == next_run[a] = "due"

Wanted(a) ==
    /\ next_run[a] = "due"
    /\ ~Skipped(a) \/ is_alive[InstanceOf(a)] = "UP"

\* basic_publish, then schedule_next.  On a closed channel the publish raises
\* and the process ends.
PublishOrder(a) ==
    /\ Wanted(a)
    /\ IF channel = "open"
       THEN /\ orders' = Publish(orders, a)
            /\ Reschedule(a)
            /\ Advance
       ELSE Halt /\ UNCHANGED orders

OrderAttempt ==
    /\ pc = "pass"
    /\ todo # <<>>
    /\ PassOver(Head(todo)) \/ PublishOrder(Head(todo))

\* The pass is over: back to the ioloop for loop_sleep_s.
PassEnd ==
    /\ pc = "pass"
    /\ todo = <<>>
    /\ pc' = "ioloop"
    /\ UNCHANGED <<channel, todo, next_run, is_alive, orders>>

-----------------------------------------------------------------------------
\* A collector takes the oldest order, or the order expires.
OrderTaken ==
    /\ orders # <<>>
    /\ orders' = DropOldest(orders)
    /\ UNCHANGED svars

\* A collector gives an order back.
OrderReturned ==
    /\ \E a \in Attempt : orders' = Requeue(orders, a)
    /\ UNCHANGED svars

Process == IoloopStop \/ OrderAttempt \/ PassEnd
Next ==
    \/ Start \/ ChannelOpen \/ ConnectionLost \/ Stop \/ OrderTaken \/ OrderReturned
    \/ Process
    \/ \E a \in Attempt : Elapse(a)
    \/ \E r \in Report : HandleReport(r)

\* The process runs whenever it can: the timer fires and the pass goes on;
\* and a channel that is asked for is opened, if the ioloop runs.
Spec == Init /\ [][Next]_vars /\ WF_vars(Process) /\ WF_vars(ChannelOpen)

-----------------------------------------------------------------------------
(* Properties *)

\* While an instance is UP none of its attempts is parked: whatever the order
\* in which up_check and done reports and passes interleave, no check of a
\* live host is scheduled at math.inf (reports_callback, order_attempt).
UpMeansScheduled ==
    pc # "down" => \A a \in Attempt :
        is_alive[InstanceOf(a)] = "UP" => next_run[a] # "never"

\* The up check itself is never parked, in any state of its instance: it is
\* what brings a DOWN instance back (the continue of lines 87 and 95).
UpCheckScheduled ==
    pc # "down" => \A a \in Attempt : IsUpCheck(a) => next_run[a] # "never"

\* A due attempt does not stay due: a pass of the running process publishes
\* it or schedules it again.
DueIsHandled ==
    \A a \in Attempt :
        (pc # "down" /\ next_run[a] = "due") ~> (pc = "down" \/ next_run[a] # "due")
=============================================================================
