------------------------------ MODULE Collector ------------------------------
(* One collector process: samm/collector.py and samm/otlpattempt.py.         *)
(*                                                                           *)
(* Two threads share the process.  The pika thread runs message_callback for *)
(* each delivery and arms the attempt.  The exporter thread (OpenTelemetry's *)
(* PeriodicExportingMetricReader, external) calls in every cycle the         *)
(* callback of every instrument in the order they were created; the first    *)
(* instrument of an armed attempt runs the module, each one then exports its *)
(* metric, and the one that exports the last acks the delivery and publishes *)
(* done - from the exporter's thread.                                        *)
(*                                                                           *)
(* The info instruments change nothing and are left out; so is               *)
(* instance.is_alive, which no code of a collector reads.                    *)
EXTENDS Broker, FiniteSets, SequencesExt

CONSTANTS
    Attempt,        \* attempts this collector created
    AttemptDict,    \* the same, in the order they were created
    Foreign,        \* attempts only the scheduler's configuration has
    Metrics,        \* [Attempt -> Seq(metric)]: check.metrics
    UpAttempt,      \* attempts whose check is the up check of the instance
    UpMetric,       \* instance.up_metric_name
    Outcomes,       \* how a run of the module may end, see Collect
    ConfigMatch,    \* whether an order's config_id may be equal, or not
    MismatchAction, \* config_version_mismatch_action
    Preempt,        \* the exporter may run between lines of message_callback
    None

ASSUME CollectorAssumption ==
    /\ AttemptDict \in Seq(Attempt) /\ ToSet(AttemptDict) = Attempt
    /\ \A a \in Attempt : Metrics[a] \in Seq(ToSet(Metrics[a]))
    /\ \E a \in Attempt : a \in UpAttempt \/ Metrics[a] # <<>>
    /\ UpAttempt \subseteq Attempt
    /\ Foreign \cap Attempt = {}
    /\ None \notin Attempt \cup Foreign
    /\ Outcomes \subseteq {"raise", "rows", "empty", "nokey"}
    /\ ConfigMatch \subseteq BOOLEAN
    /\ MismatchAction \in {"ignore", "exit"}
    /\ Preempt \in BOOLEAN

VARIABLES
    proc,       \* "down" or "up"
    channel,    \* the pika channel: "open" or "closed"
    unacked,    \* the delivery the broker waits an ack for
    tag,        \* self._delivery_tag: "none", "cur" (that delivery) or "old"
    ppc,        \* what message_callback does next: "idle" (take a delivery),
                \* "busy" or "due" (lines 85, 86 of otlpattempt.py) or "tag"
    target,     \* the attempt it does that for
    busy,       \* collector.collecting
    collecting, \* [Attempt -> BOOLEAN]: attempt.collecting
    next_run,   \* [Attempt -> {"never", "due"}]
    pending,    \* [Attempt -> SUBSET metric]: _pending_metrics
    cache,      \* [Attempt -> {"none", "0", "1", "empty"}]: _cache, by the up
                \* metric of its first row
    pos,        \* instrument the exporter is at
    epc,        \* "call", "collect", "clear", "ack" or "done": where in its
                \* callback
    slow,       \* a module ran in this cycle: the cycle may time out
    collected,  \* history: the module ran since unacked was accepted
    keyMissed,  \* history: a row of this process lacked the up metric
    orders,     \* samm_orders
    reports     \* samm_reports

pvars == <<proc, channel, unacked, tag, ppc, target>>
avars == <<busy, collecting, next_run, pending, cache>>
evars == <<pos, epc, slow>>
history == <<collected, keyMissed>>
vars  == <<pvars, avars, evars, history, orders, reports>>

-----------------------------------------------------------------------------
(* The instruments OTLPAttempt.__init__ creates: "up", then the metrics      *)

InstrumentNames(a) == (IF a \in UpAttempt THEN <<"up">> ELSE <<>>) \o Metrics[a]

Instruments ==
    FlattenSeq([k \in DOMAIN AttemptDict |->
        LET a == AttemptDict[k]
        IN  [j \in DOMAIN InstrumentNames(a) |-> <<a, InstrumentNames(a)[j]>>]])

\* Mutant: "up" is pending for every check, not only for the up check.
PendingWithUp(a) == ToSet(InstrumentNames(a)) \cup {"up"}

\* check.metrics as a set, with "up" for an up check (lines 128 to 130)
PendingOf(a) == ToSet(InstrumentNames(a))

Metric == UNION {PendingOf(a) : a \in Attempt}

Order  == Attempt \cup Foreign
Value  == {"0", "1"}
Report == [type : {"up_check"}, attempt : UpAttempt, value : Value]
              \cup [type : {"done"}, attempt : Attempt]

TypeOK ==
    /\ proc \in {"down", "up"}
    /\ channel \in {"open", "closed"}
    /\ unacked \in Attempt \cup {None}
    /\ tag \in {"none", "cur", "old"}
    /\ ppc \in {"idle", "busy", "due", "tag"}
    /\ target \in Attempt \cup {None}
    /\ ppc # "idle" => target # None
    /\ busy \in BOOLEAN
    /\ collecting \in [Attempt -> BOOLEAN]
    /\ next_run \in [Attempt -> {"never", "due"}]
    /\ DOMAIN pending = Attempt
    /\ \A a \in Attempt : pending[a] \subseteq PendingOf(a)
    /\ cache \in [Attempt -> {"none", "empty"} \cup Value]
    /\ pos \in DOMAIN Instruments
    /\ epc \in {"call", "collect", "clear", "ack", "done"}
    /\ slow \in BOOLEAN
    /\ collected \in BOOLEAN /\ keyMissed \in BOOLEAN
    /\ orders \in Seq(Order)
    /\ reports \in Seq(Report)

\* The state of a process that starts (Collector.__init__, OTLPAttempt.__init__).
Fresh ==
    /\ channel' = "open" /\ unacked' = None /\ tag' = "none"
    /\ ppc' = "idle" /\ target' = None
    /\ busy' = FALSE
    /\ collecting' = [a \in Attempt |-> FALSE]
    /\ next_run' = [a \in Attempt |-> "never"]
    /\ pending' = [a \in Attempt |-> {}]
    /\ cache' = [a \in Attempt |-> "none"]
    /\ pos' = 1 /\ epc' = "call" /\ slow' = FALSE
    /\ collected' = FALSE /\ keyMissed' = FALSE

Init ==
    /\ proc = "down" /\ channel = "open" /\ unacked = None
    /\ tag = "none" /\ ppc = "idle" /\ target = None
    /\ busy = FALSE
    /\ collecting = [a \in Attempt |-> FALSE]
    /\ next_run = [a \in Attempt |-> "never"]
    /\ pending = [a \in Attempt |-> {}]
    /\ cache = [a \in Attempt |-> "none"]
    /\ pos = 1 /\ epc = "call" /\ slow = FALSE
    /\ collected = FALSE /\ keyMissed = FALSE
    /\ orders = <<>> /\ reports = <<>>

\* run, up to on_channel_open: the queue is consumed and the exporter runs.
Start ==
    /\ proc = "down"
    /\ proc' = "up"
    /\ Fresh
    /\ UNCHANGED <<orders, reports>>

\* The broker gives the unacked delivery back to the queue.
GiveBack ==
    orders' = IF unacked = None THEN orders ELSE Requeue(orders, unacked)

\* SIGKILL, or the connection closes: on_close_callback ends the process.
Exit ==
    /\ proc = "up"
    /\ proc' = "down"
    /\ Fresh
    /\ GiveBack
    /\ UNCHANGED reports
-----------------------------------------------------------------------------
(* The pika thread: message_callback                                         *)

Deliverable ==
    /\ proc = "up" /\ channel = "open" /\ unacked = None /\ ppc = "idle"
    /\ orders # <<>>

\* The order's config_id differs: sys.exit(0) when the action is "exit".
\* An attempt_name attempt_dict does not have is a KeyError no one catches
\* before run does, which returns.  Either way the order goes back.
CannotServe(match) ==
    \/ ~match /\ MismatchAction = "exit"
    \/ Head(orders) \notin Attempt
MessageEndsProcess ==
    /\ Deliverable
    /\ \E match \in ConfigMatch : CannotServe(match)
    /\ proc' = "down"
    /\ Fresh
    /\ UNCHANGED <<orders, reports>>

\* collect: refused while the collector is busy, or the attempt is due.  The
\* basic_reject requeues, so the order is at the head again.
Refused(a) == busy \/ next_run[a] = "due"
Reject ==
    /\ Deliverable
    /\ \E match \in ConfigMatch : ~CannotServe(match)
    /\ Refused(Head(orders))
    /\ UNCHANGED vars

\* collect: accepted.  The attempt is armed a line at a time, and only then
\* the delivery tag is stored; the exporter may run before each of them.
Accept ==
    /\ Deliverable
    /\ \E match \in ConfigMatch : ~CannotServe(match)
    /\ LET a == Head(orders)
       IN  /\ ~Refused(a)
           /\ unacked' = a /\ target' = a
           /\ collecting' = [collecting EXCEPT ![a] = TRUE]
    /\ ppc' = "busy"
    /\ collected' = FALSE
    /\ orders' = DropOldest(orders)
    /\ UNCHANGED <<proc, channel, tag, busy, next_run, pending, cache, evars,
                   keyMissed, reports>>

\* self._collector.collecting = True
SetBusy ==
    /\ ppc = "busy"
    /\ busy' = TRUE
    /\ ppc' = "due"
    /\ UNCHANGED <<target, tag, next_run>>

\* self.schedule(0)
SetDue ==
    /\ ppc = "due"
    /\ next_run' = [next_run EXCEPT ![target] = "due"]
    /\ ppc' = "tag"
    /\ UNCHANGED <<target, tag, busy>>

\* Mutant: a tag that is set already is kept.
StoreFirstTag ==
    /\ ppc = "tag"
    /\ tag' = IF unacked = None \/ tag # "none" THEN "old" ELSE "cur"
    /\ ppc' = "idle" /\ target' = None
    /\ UNCHANGED <<busy, next_run>>

\* Line 59 of collector.py, the end of message_callback.  The delivery may
\* have been given back by then.
StoreTag ==
    /\ ppc = "tag"
    /\ tag' = IF unacked = None THEN "old" ELSE "cur"
    /\ ppc' = "idle" /\ target' = None
    /\ UNCHANGED <<busy, next_run>>

\* The rest of message_callback after line 84.
ArmOn ==
    /\ proc = "up"
    /\ SetBusy \/ SetDue \/ StoreTag
    /\ UNCHANGED <<proc, channel, unacked, collecting, pending, cache, evars,
                   history, orders, reports>>

-----------------------------------------------------------------------------
(* The exporter thread                                                       *)

CurrentAttempt == Instruments[pos][1]
CurrentMetric  == Instruments[pos][2]

\* Mutant: the exporter does not start over.
ReturnOnward(ran) ==
    /\ epc' = "call" /\ pos' = pos + 1 /\ slow' = ran

\* The callback of this instrument returns, or raises, which the SDK logs.
\* The next instrument is called; after the last one, the first one of the
\* next cycle.  A cycle in which a module ran may exceed the export timeout,
\* which the SDK looks at between two callbacks: it is then cut short.
Return(ran) ==
    /\ epc' = "call"
    /\ \/ pos < Len(Instruments) /\ pos' = pos + 1 /\ slow' = ran
       \/ (pos = Len(Instruments) \/ ran) /\ pos' = 1 /\ slow' = FALSE

\* The end of a collection that was ordered (lines 136 and 167): the
\* attempt's flag is cleared, the collector's and the ack follow.
Finish(a, ran) ==
    /\ collecting' = [collecting EXCEPT ![a] = FALSE]
    /\ epc' = "clear"
    /\ slow' = ran
    /\ UNCHANGED <<pos, busy>>

FinishIfOrdered(a, ran) ==
    IF collecting[a] THEN Finish(a, ran)
                     ELSE Return(ran) /\ UNCHANGED <<busy, collecting>>

Calling == proc = "up" /\ epc = "call"

\* Nothing is pending and the attempt is not armed: no observation.
NotDue ==
    /\ Calling
    /\ pending[CurrentAttempt] = {}
    /\ next_run[CurrentAttempt] # "due"
    /\ Return(slow)
    /\ UNCHANGED <<pvars, avars, history, orders, reports>>

\* schedule(math.inf), then the module is run.
Begin ==
    /\ Calling
    /\ pending[CurrentAttempt] = {}
    /\ next_run[CurrentAttempt] = "due"
    /\ next_run' = [next_run EXCEPT ![CurrentAttempt] = "never"]
    /\ epc' = "collect"
    /\ UNCHANGED <<pvars, busy, collecting, pending, cache, pos, slow,
                   history, orders, reports>>

\* Mutant: _pending_metrics is set before the module is run.
RaisesAfterPending(a) ==
    /\ pending' = [pending EXCEPT ![a] = PendingOf(a)]
    /\ cache' = [cache EXCEPT ![a] = "0"]
    /\ FinishIfOrdered(a, TRUE)

\* The module raises before _cache is assigned.
Raises(a) == FinishIfOrdered(a, TRUE) /\ UNCHANGED <<pending, cache>>

\* Rows are cached, v standing for the up metric of the first one.
Cached(a, v) ==
    /\ cache' = [cache EXCEPT ![a] = v]
    /\ pending' = [pending EXCEPT ![a] = PendingOf(a)]

\* list(self.iterator) and the lines after it.  The module raises; or it
\* yields rows, the up metric of the first being "0" or "1"; or no row at
\* all; or, for an up check, a row without the up metric, which raises when
\* _cache and _pending_metrics are set already (get then makes it a 0).
Collect(outcome) ==
    LET a == CurrentAttempt
    IN  /\ proc = "up" /\ epc = "collect"
        /\ collected' = (collected \/ unacked = a)
        /\ keyMissed' = (keyMissed \/ outcome = "nokey")
        /\ \/ outcome = "raise" /\ Raises(a)
           \/ /\ outcome = "nokey" /\ a \in UpAttempt
              /\ Cached(a, "0")
              /\ FinishIfOrdered(a, TRUE)
           \/ /\ \/ outcome = "rows" /\ \E v \in Value : Cached(a, v)
                 \/ outcome = "empty" /\ Cached(a, "empty")
              /\ epc' = "call" /\ slow' = TRUE
              /\ UNCHANGED <<pos, busy, collecting>>
        /\ UNCHANGED <<pvars, next_run, orders, reports>>

\* The metric is exported from _cache.  The up metric is first published as
\* an up_check report: _cache[0] raises when there was no row, the publish
\* raises on a closed channel.
Observe ==
    LET a == CurrentAttempt
        m == CurrentMetric
        reportsUp == a \in UpAttempt /\ m = UpMetric
        raises == reportsUp /\ (cache[a] = "empty" \/ channel = "closed")
        left == pending[a] \ {m}
    IN  /\ Calling
        /\ pending[a] # {}
        /\ reports' = IF reportsUp /\ ~raises
                      THEN Publish(reports, [type |-> "up_check",
                                             attempt |-> a, value |-> cache[a]])
                      ELSE reports
        /\ \/ /\ raises \/ m \notin pending[a]          \* remove: KeyError
              /\ Return(slow)
              /\ UNCHANGED <<pending, busy, collecting>>
           \/ /\ ~raises /\ m \in pending[a]
              /\ pending' = [pending EXCEPT ![a] = left]
              /\ IF left = {} THEN FinishIfOrdered(a, slow)
                 ELSE Return(slow) /\ UNCHANGED <<busy, collecting>>
        /\ UNCHANGED <<pvars, next_run, cache, history, orders>>

\* Mutants: the flag is forgotten; the delivery is not acked.
ClearsNothing ==
    /\ proc = "up" /\ epc = "clear"
    /\ epc' = "ack"
    /\ UNCHANGED <<pvars, avars, pos, slow, history, orders, reports>>
ClearBusySkipsAck ==
    /\ proc = "up" /\ epc = "clear"
    /\ busy' = FALSE
    /\ epc' = "done"
    /\ UNCHANGED <<pvars, collecting, next_run, pending, cache, pos, slow,
                   history, orders, reports>>

\* self._collector.collecting = False; done_callback is next.
ClearBusy ==
    /\ proc = "up" /\ epc = "clear"
    /\ busy' = FALSE
    /\ epc' = "ack"
    /\ UNCHANGED <<pvars, collecting, next_run, pending, cache, pos, slow,
                   history, orders, reports>>

\* done_callback: basic_ack.  The stored tag may not be this delivery's: none
\* at all cannot be encoded and raises, as does a closed channel; the broker
\* answers an old one by closing the channel.
Ack ==
    /\ proc = "up" /\ epc = "ack"
    /\ \/ /\ channel = "closed" \/ tag = "none"
          /\ Return(slow)
          /\ UNCHANGED <<channel, unacked, tag, orders>>
       \/ /\ channel = "open" /\ tag # "none"
          /\ IF tag = "cur" THEN UNCHANGED <<channel, orders>>
                            ELSE channel' = "closed" /\ GiveBack
          /\ unacked' = None
          /\ tag' = "old"
          /\ epc' = "done"
          /\ UNCHANGED <<pos, slow>>
    /\ UNCHANGED <<proc, ppc, target, avars, history, reports>>

\* done_callback: the done report, lost when the channel is closed.
PublishDone ==
    /\ proc = "up" /\ epc = "done"
    /\ reports' = IF channel = "open"
                  THEN Publish(reports, [type |-> "done", attempt |-> CurrentAttempt])
                  ELSE reports
    /\ Return(slow)
    /\ UNCHANGED <<pvars, avars, history, orders>>

-----------------------------------------------------------------------------
\* The scheduler and the broker: orders come and expire, reports are taken.
OrderArrives ==
    /\ \E a \in Order : orders' = Publish(orders, a)
    /\ UNCHANGED <<pvars, avars, evars, history, reports>>
OrderExpires ==
    /\ orders # <<>>
    /\ orders' = DropOldest(orders)
    /\ UNCHANGED <<pvars, avars, evars, history, reports>>
ReportTaken ==
    /\ reports # <<>>
    /\ reports' = DropOldest(reports)
    /\ UNCHANGED <<pvars, avars, evars, history, orders>>

Exporter ==
    /\ Preempt \/ ppc = "idle"
    /\ \/ NotDue \/ Begin \/ Observe \/ ClearBusy \/ Ack \/ PublishDone
       \/ \E outcome \in Outcomes : Collect(outcome)
Pika == MessageEndsProcess \/ Reject \/ Accept \/ ArmOn

Next ==
    \/ Start \/ Exit \/ Pika \/ Exporter
    \/ OrderArrives \/ OrderExpires \/ ReportTaken

\* Both threads go on.  The exporter has instruments to call.
Fairness == WF_vars(Exporter) /\ WF_vars(ArmOn)
Spec == Init /\ [][Next]_vars /\ Fairness

-----------------------------------------------------------------------------
(* Properties *)

\* The flags the two threads share agree with what the broker waits for, up
\* to the lines between two writes of one thread: an attempt is collecting
\* only for the one delivery that is not acked yet; and, as long as no row
\* lacked the up metric, the collector is busy exactly while an attempt is
\* collecting.  Both are needed for prefetch_count=1 and the busy test to say
\* the same thing (collect, observable_callback).
FlagsMatchDelivery ==
    /\ \A a \in Attempt : collecting[a] => unacked = a
    /\ ~keyMissed /\ ppc # "busy" /\ epc # "clear"
          => busy = (\E a \in Attempt : collecting[a])

\* No order is acked for nothing: when done_callback runs, the module was run
\* after the order was accepted.
AckedAfterCollection == epc = "ack" => collected

\* An accepted order is acked or given back: the collector never keeps it.
\* (docs/README.md: the attempt is rescheduled when a done message comes.)
AcceptedIsFinished == \A a \in Attempt : unacked = a ~> unacked # a

\* The ack names the delivery it is for, through any sequence of deliveries:
\* the broker never has a reason to close the channel.  Only if the exporter
\* does not run between the lines of message_callback (Preempt is FALSE).
ChannelStaysOpen == channel = "open"

\* The collector implements the abstract one of Worker.tla: it takes, reports,
\* acks and publishes done in that order, one order at a time.
Abstract == INSTANCE Worker WITH
    Worker <- {"self"}, Target <- Order, UpTarget <- UpAttempt,
    mode <- [w \in {"self"} |-> proc],
    job  <- [w \in {"self"} |-> unacked],
    owed <- [w \in {"self"} |-> IF epc = "done" THEN CurrentAttempt ELSE None]
ImplementsWorker == Abstract!Spec
=============================================================================
