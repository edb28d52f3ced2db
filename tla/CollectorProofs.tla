--------------------------- MODULE CollectorProofs ---------------------------
(* Theorems about Collector.tla, for all attempts, metrics and outcomes of   *)
(* the modules.  What the exporter may do between the lines of               *)
(* message_callback (Preempt) and rows without the up metric ("nokey") are   *)
(* assumed away only where a theorem says so.                                *)
EXTENDS Collector, SequenceLemmas

\* TypeOK is not inductive by itself: what is pending is served from rows.
PendingIsCached == \A a \in Attempt : pending[a] # {} => cache[a] # "none"

\* A process that is not running holds no delivery.
DownIsIdle == proc = "down" => unacked = None /\ epc = "call"

\* An attempt is collecting only for the delivery that is not acked yet.
CollectsForDelivery == \A a \in Attempt : collecting[a] => unacked = a

\* Between Finish and the ack no other order can be accepted: the delivery is
\* still unacked, though nobody is collecting any more.
AckIsOwed ==
    epc \in {"clear", "ack"} =>
        unacked = CurrentAttempt /\ \A a \in Attempt : ~collecting[a]

\* A module is only run when nothing of its last run is left to export.
CollectIsFresh == epc = "collect" => pending[CurrentAttempt] = {}

IInv ==
    /\ TypeOK /\ CollectsForDelivery
    /\ PendingIsCached /\ DownIsIdle /\ AckIsOwed /\ CollectIsFresh

-----------------------------------------------------------------------------
\* The queue operators keep the type of a queue.
LEMMA QueueOK ==
    ASSUME NEW S, NEW q \in Seq(S), NEW m \in S
    PROVE  /\ Publish(q, m) \in Seq(S) /\ Requeue(q, m) \in Seq(S)
           /\ q # <<>> => DropOldest(q) \in Seq(S)
BY QueueTypes, MaxQueueAssumption DEF Publish, Requeue, DropOldest

\* The instruments are the names of every attempt, one after the other, and
\* there is at least one.
LEMMA InstrumentsOK == Instruments \in Seq(Attempt \X Metric) /\ Instruments # <<>>
<1> DEFINE Of(a) == [j \in DOMAIN InstrumentNames(a) |-> <<a, InstrumentNames(a)[j]>>]
           parts == [k \in DOMAIN AttemptDict |-> Of(AttemptDict[k])]
<1>1. ASSUME NEW a \in Attempt
      PROVE  /\ InstrumentNames(a) \in Seq(PendingOf(a))
             /\ a \in UpAttempt \/ Metrics[a] # <<>> => InstrumentNames(a) # <<>>
  <2> DEFINE up      == IF a \in UpAttempt THEN <<"up">> ELSE <<>>
             metrics == Metrics[a]
             names   == up \o metrics
             S       == {"up"} \cup ToSet(metrics)
  <2>1. metrics \in Seq(ToSet(metrics))
    BY CollectorAssumption
  <2>2. up \in Seq(S) /\ metrics \in Seq(S) /\ (a \in UpAttempt => Len(up) = 1)
    <3>1. up \in Seq({"up"}) /\ (a \in UpAttempt => Len(up) = 1)
      OBVIOUS
    <3> HIDE DEF up, metrics
    <3>2. {"up"} \subseteq S /\ ToSet(metrics) \subseteq S
      OBVIOUS
    <3> QED
      BY <2>1, <3>1, <3>2, SeqMonotonic
  <2>3. metrics # <<>> => Len(metrics) # 0
    BY <2>1
  <2>4. InstrumentNames(a) = names
    BY DEF InstrumentNames
  <2> HIDE DEF S, up, metrics
  <2>5. names \in Seq(S) /\ Len(names) = Len(up) + Len(metrics)
    BY <2>2
  <2>6. Len(up) \in Nat /\ Len(metrics) \in Nat
    BY <2>2
  <2>7. Len(up) # 0 \/ Len(metrics) # 0 => names # <<>>
    BY <2>5, <2>6
  <2> HIDE DEF names
  <2>8. names \in Seq(ToSet(names))
    <3>1. Len(names) \in Nat /\ names \in [1 .. Len(names) -> S]
      BY <2>5
    <3>2. names \in [1 .. Len(names) -> ToSet(names)]
      BY <3>1 DEF ToSet
    <3> QED
      BY <3>1, <3>2, IsASeq
  <2> QED
    BY <2>2, <2>3, <2>4, <2>7, <2>8 DEF PendingOf, metrics
<1>2. ASSUME NEW a \in Attempt PROVE Of(a) \in Seq(Attempt \X Metric)
  <2>1. DOMAIN InstrumentNames(a) = 1 .. Len(InstrumentNames(a)) /\ Len(InstrumentNames(a)) \in Nat
    BY <1>1
  <2>2. \A j \in DOMAIN InstrumentNames(a) : InstrumentNames(a)[j] \in Metric
    BY DEF Metric, PendingOf, ToSet
  <2>3. Of(a) \in [1 .. Len(InstrumentNames(a)) -> Attempt \X Metric]
    BY <2>1, <2>2
  <2> QED
    BY <2>1, <2>3, IsASeq
<1>3. AttemptDict \in Seq(Attempt) /\ ToSet(AttemptDict) = Attempt
  BY CollectorAssumption
<1>4. parts \in Seq(Seq(Attempt \X Metric)) /\ DOMAIN parts = DOMAIN AttemptDict
  <2> HIDE DEF Of
  <2>1. Len(AttemptDict) \in Nat /\ DOMAIN AttemptDict = 1 .. Len(AttemptDict)
    BY <1>3
  <2>2. parts \in [1 .. Len(AttemptDict) -> Seq(Attempt \X Metric)]
    BY <1>2, <1>3, <2>1
  <2> QED
    BY <2>1, <2>2, IsASeq
<1>5. Instruments = FlattenSeq(parts)
  BY DEF Instruments
<1>6. PICK a \in Attempt : a \in UpAttempt \/ Metrics[a] # <<>>
  BY CollectorAssumption
<1>7. PICK k \in DOMAIN AttemptDict : AttemptDict[k] = a
  BY <1>3 DEF ToSet
<1>8. 1 \in DOMAIN parts[k]
  <2>1. InstrumentNames(a) \in Seq(PendingOf(a)) /\ InstrumentNames(a) # <<>>
    BY <1>1, <1>6
  <2>2. 1 \in DOMAIN InstrumentNames(a)
    BY <2>1
  <2>3. parts[k] = Of(a)
    BY <1>7
  <2>4. 1 \in DOMAIN Of(a)
    BY <2>2
  <2> QED
    BY <2>3, <2>4
<1> HIDE DEF parts
<1>9. parts[k][1] \in ToSet(FlattenSeq(parts))
  <2>1. ToSet(FlattenSeq(parts)) = UNION {ToSet(parts[i]) : i \in DOMAIN parts}
    BY <1>4, FlattenRange
  <2>2. k \in DOMAIN parts /\ parts[k][1] \in ToSet(parts[k])
    BY <1>4, <1>7, <1>8 DEF ToSet
  <2> QED
    BY <2>1, <2>2
<1>10. FlattenSeq(parts) # <<>>
  BY <1>9 DEF ToSet
<1> QED
  BY <1>4, <1>5, <1>10, FlattenParts

LEMMA CurrentIsAttempt ==
    ASSUME pos \in DOMAIN Instruments
    PROVE  CurrentAttempt \in Attempt
<1>1. Instruments[pos] \in Attempt \X Metric
  BY InstrumentsOK
<1> QED
  BY <1>1 DEF CurrentAttempt

\* Attempts are never None, which stands for no delivery.
LEMMA NoneIsNoAttempt == None \notin Attempt
BY CollectorAssumption

LEMMA InstrumentPositions ==
    /\ Len(Instruments) \in Nat \ {0}
    /\ DOMAIN Instruments = 1 .. Len(Instruments)
    /\ 1 \in DOMAIN Instruments
<1>1. Len(Instruments) \in Nat /\ DOMAIN Instruments = 1 .. Len(Instruments)
  BY InstrumentsOK
<1>2. Len(Instruments) # 0
  BY InstrumentsOK
<1> QED
  BY <1>1, <1>2

LEMMA GiveBackType ==
    ASSUME IInv, GiveBack
    PROVE  orders' \in Seq(Order)
<1>1. orders \in Seq(Order) /\ unacked \in Attempt \cup {None}
  BY DEF IInv, TypeOK
<1>2. CASE unacked = None
  BY <1>1, <1>2 DEF GiveBack
<1>3. CASE unacked # None
  <2>1. unacked \in Order
    BY <1>1, <1>3 DEF Order
  <2> QED
    BY <1>1, <1>3, <2>1, QueueOK DEF GiveBack
<1> QED
  BY <1>2, <1>3

\* What a callback leaves when it returns: another instrument to call.
LEMMA ReturnType ==
    ASSUME NEW ran \in BOOLEAN, Return(ran), pos \in DOMAIN Instruments
    PROVE  /\ epc' = "call" /\ slow' \in BOOLEAN
           /\ pos' \in DOMAIN Instruments
<1> DEFINE n == Len(Instruments)
<1>1. n \in Nat \ {0} /\ pos \in 1 .. n
  BY InstrumentPositions
<1>2. epc' = "call" /\ (slow' = ran \/ slow' = FALSE)
  BY DEF Return
<1>3. pos' = 1 \/ (pos < n /\ pos' = pos + 1)
  BY DEF Return
<1>4. pos' \in 1 .. n
  <2> HIDE DEF n
  <2> QED
    BY <1>1, <1>3
<1> QED
  BY <1>2, <1>4, InstrumentPositions

\* A process that starts or ends has a state that satisfies the invariant.
LEMMA FreshOK ==
    ASSUME Fresh, proc' \in {"up", "down"},
           orders' \in Seq(Order), reports' \in Seq(Report)
    PROVE  IInv'
<1>1. TypeOK'
  BY InstrumentPositions DEF Fresh, TypeOK
<1>2. CollectsForDelivery'
  BY DEF Fresh, CollectsForDelivery
<1>3. (PendingIsCached /\ DownIsIdle /\ AckIsOwed /\ CollectIsFresh)'
  BY DEF Fresh, PendingIsCached, DownIsIdle, AckIsOwed, CollectIsFresh
<1> QED
  BY <1>1, <1>2, <1>3 DEF IInv

\* Orders and reports come and go without touching the process.
LEMMA QueuesOnlyOK ==
    ASSUME IInv, UNCHANGED <<pvars, avars, evars, history>>,
           orders' \in Seq(Order), reports' \in Seq(Report)
    PROVE  IInv'
<1>1. TypeOK'
  BY DEF IInv, TypeOK, pvars, avars, evars, history
<1>2. CollectsForDelivery'
  BY DEF IInv, CollectsForDelivery, pvars, avars
<1>3. (PendingIsCached /\ DownIsIdle /\ AckIsOwed /\ CollectIsFresh)'
  BY DEF IInv, PendingIsCached, DownIsIdle, AckIsOwed, CollectIsFresh,
         CurrentAttempt, pvars, avars, evars
<1> QED
  BY <1>1, <1>2, <1>3 DEF IInv

-----------------------------------------------------------------------------
(* The pika thread                                                           *)

\* Accepting finds nobody collecting: nothing is unacked.
LEMMA AcceptOK ==
    ASSUME IInv, Accept
    PROVE  IInv'
<1> DEFINE a == Head(orders)
<1>1. a \in Attempt /\ unacked = None /\ proc = "up"
  BY DEF Accept, CannotServe, Deliverable
<1>2. /\ unacked' = a /\ target' = a /\ ppc' = "busy" /\ collected' = FALSE
      /\ collecting' = [collecting EXCEPT ![a] = TRUE]
      /\ orders' = Tail(orders) /\ orders # <<>>
      /\ UNCHANGED <<proc, channel, tag, busy, next_run, pending, cache, pos,
                     epc, slow, keyMissed, reports>>
  BY DEF Accept, Deliverable, DropOldest, evars
<1> HIDE DEF a
<1>3. a # None
  BY <1>1, NoneIsNoAttempt
<1>4. TypeOK'
  <2>1. orders' \in Seq(Order)
    BY <1>2 DEF IInv, TypeOK
  <2>2. /\ unacked' \in Attempt \cup {None} /\ target' \in Attempt \cup {None}
        /\ collecting' \in [Attempt -> BOOLEAN] /\ collected' \in BOOLEAN
    BY <1>1, <1>2 DEF IInv, TypeOK
  <2> QED
    BY <1>2, <1>3, <2>1, <2>2 DEF IInv, TypeOK
<1>5. CollectsForDelivery'
  <2>1. \A b \in Attempt : ~collecting[b]
    BY <1>1, NoneIsNoAttempt DEF IInv, CollectsForDelivery
  <2>2. \A b \in Attempt : collecting'[b] <=> b = a
    BY <1>1, <1>2, <2>1 DEF IInv, TypeOK
  <2> QED
    BY <1>2, <2>2 DEF CollectsForDelivery
<1>6. PendingIsCached' /\ DownIsIdle'
  BY <1>1, <1>2 DEF IInv, PendingIsCached, DownIsIdle
<1>7. epc \notin {"clear", "ack"}
  BY <1>1, CurrentIsAttempt, NoneIsNoAttempt DEF IInv, TypeOK, AckIsOwed
<1>8. AckIsOwed' /\ CollectIsFresh'
  BY <1>2, <1>7 DEF IInv, AckIsOwed, CollectIsFresh, CurrentAttempt
<1> QED
  BY <1>4, <1>5, <1>6, <1>8 DEF IInv

\* The rest of message_callback touches busy, next_run and the tag only.
LEMMA ArmOnOK ==
    ASSUME IInv, ArmOn
    PROVE  IInv'
<1>0. /\ proc = "up"
      /\ UNCHANGED <<proc, channel, unacked, collecting, pending, cache, pos,
                     epc, slow, collected, keyMissed, orders, reports>>
  BY DEF ArmOn, evars, history
<1>1. /\ tag' \in {"none", "cur", "old"} /\ busy' \in BOOLEAN
      /\ next_run' \in [Attempt -> {"never", "due"}]
      /\ ppc' \in {"idle", "busy", "due", "tag"}
      /\ target' \in Attempt \cup {None} /\ (ppc' # "idle" => target' # None)
  <2>1. CASE SetBusy
    BY <2>1 DEF SetBusy, IInv, TypeOK
  <2>2. CASE SetDue
    BY <2>2 DEF SetDue, IInv, TypeOK
  <2>3. CASE StoreTag
    BY <2>3 DEF StoreTag, IInv, TypeOK
  <2> QED
    BY <2>1, <2>2, <2>3 DEF ArmOn
<1>2. TypeOK'
  BY <1>0, <1>1 DEF IInv, TypeOK
<1>3. (CollectsForDelivery /\ PendingIsCached /\ DownIsIdle)'
  BY <1>0 DEF IInv, CollectsForDelivery, PendingIsCached, DownIsIdle
<1>4. (AckIsOwed /\ CollectIsFresh)'
  BY <1>0 DEF IInv, AckIsOwed, CollectIsFresh, CurrentAttempt
<1> QED
  BY <1>2, <1>3, <1>4 DEF IInv

LEMMA PikaOK ==
    ASSUME IInv, Pika
    PROVE  IInv'
<1>1. CASE MessageEndsProcess
  BY <1>1, FreshOK DEF MessageEndsProcess, IInv, TypeOK
<1>2. CASE Reject
  <2>1. UNCHANGED <<pvars, avars, evars, history, orders, reports>>
    BY <1>2 DEF Reject, vars
  <2> QED
    BY <2>1, QueuesOnlyOK DEF IInv, TypeOK
<1> QED
  BY <1>1, <1>2, AcceptOK, ArmOnOK DEF Pika

-----------------------------------------------------------------------------
(* The exporter thread.  Each step is split into what it does to the flags   *)
(* and what it does to the rows.                                             *)

\* The callback returns, the flags are as they were.
LEMMA ReturnOK ==
    ASSUME IInv, proc = "up", NEW ran \in BOOLEAN, Return(ran),
           UNCHANGED <<pvars, busy, collecting, next_run, orders>>,
           DOMAIN pending' = Attempt,
           \A a \in Attempt : pending'[a] \subseteq PendingOf(a),
           cache' \in [Attempt -> {"none", "empty"} \cup Value],
           PendingIsCached', collected' \in BOOLEAN, keyMissed' \in BOOLEAN,
           reports' \in Seq(Report)
    PROVE  IInv'
<1>1. epc' = "call" /\ slow' \in BOOLEAN /\ pos' \in DOMAIN Instruments
  BY ReturnType DEF IInv, TypeOK
<1>2. TypeOK'
  BY <1>1 DEF IInv, TypeOK, pvars
<1>3. CollectsForDelivery'
  BY DEF IInv, CollectsForDelivery, pvars
<1>4. DownIsIdle' /\ AckIsOwed' /\ CollectIsFresh'
  BY <1>1 DEF DownIsIdle, AckIsOwed, CollectIsFresh, pvars
<1> QED
  BY <1>2, <1>3, <1>4 DEF IInv

\* The collection ends: the one attempt that was collecting no longer is.
LEMMA FinishOK ==
    ASSUME IInv, proc = "up", NEW ran \in BOOLEAN,
           collecting[CurrentAttempt], Finish(CurrentAttempt, ran),
           UNCHANGED <<pvars, next_run, orders>>,
           DOMAIN pending' = Attempt,
           \A a \in Attempt : pending'[a] \subseteq PendingOf(a),
           cache' \in [Attempt -> {"none", "empty"} \cup Value],
           PendingIsCached', collected' \in BOOLEAN, keyMissed' \in BOOLEAN,
           reports' \in Seq(Report)
    PROVE  IInv'
<1> DEFINE c == CurrentAttempt
<1>1. /\ collecting' = [collecting EXCEPT ![c] = FALSE]
      /\ busy' = busy /\ epc' = "clear" /\ slow' = ran /\ pos' = pos
  BY DEF Finish
<1>2. c \in Attempt /\ CurrentAttempt' = c
  BY <1>1, CurrentIsAttempt DEF IInv, TypeOK, CurrentAttempt
<1> HIDE DEF c
<1>3. unacked = c
  BY <1>2 DEF IInv, CollectsForDelivery, c
<1>4. TypeOK'
  BY <1>1, <1>2 DEF IInv, TypeOK, pvars
<1>5. \A b \in Attempt : ~collecting'[b]
  <2>1. \A b \in Attempt : collecting[b] => b = c
    BY <1>3 DEF IInv, CollectsForDelivery
  <2> QED
    BY <1>1, <1>2, <2>1 DEF IInv, TypeOK
<1>6. CollectsForDelivery' /\ DownIsIdle' /\ AckIsOwed' /\ CollectIsFresh'
  BY <1>1, <1>2, <1>3, <1>5
     DEF CollectsForDelivery, DownIsIdle, AckIsOwed, CollectIsFresh, pvars
<1> QED
  BY <1>4, <1>6 DEF IInv

\* Both of them: how every collection ends.
LEMMA FinishIfOrderedOK ==
    ASSUME IInv, proc = "up", NEW ran \in BOOLEAN,
           FinishIfOrdered(CurrentAttempt, ran),
           UNCHANGED <<pvars, next_run, orders>>,
           DOMAIN pending' = Attempt,
           \A a \in Attempt : pending'[a] \subseteq PendingOf(a),
           cache' \in [Attempt -> {"none", "empty"} \cup Value],
           PendingIsCached', collected' \in BOOLEAN, keyMissed' \in BOOLEAN,
           reports' \in Seq(Report)
    PROVE  IInv'
BY FinishOK, ReturnOK DEF FinishIfOrdered

LEMMA NotDueOK ==
    ASSUME IInv, NotDue
    PROVE  IInv'
<1>1. proc = "up" /\ Return(slow) /\ slow \in BOOLEAN
      /\ UNCHANGED <<pvars, busy, collecting, next_run, pending, cache,
                     collected, keyMissed, orders, reports>>
  BY DEF NotDue, Calling, IInv, TypeOK, avars, history
<1> QED
  BY <1>1, ReturnOK DEF IInv, TypeOK, PendingIsCached

LEMMA BeginOK ==
    ASSUME IInv, Begin
    PROVE  IInv'
<1>1. /\ proc = "up" /\ pending[CurrentAttempt] = {} /\ epc' = "collect"
      /\ next_run' = [next_run EXCEPT ![CurrentAttempt] = "never"]
      /\ UNCHANGED <<pvars, busy, collecting, pending, cache, pos, slow,
                     collected, keyMissed, orders, reports>>
  BY DEF Begin, Calling, history
<1>2. TypeOK'
  BY <1>1 DEF IInv, TypeOK, pvars
<1>3. CollectsForDelivery'
  BY <1>1 DEF IInv, CollectsForDelivery, pvars
<1>4. (PendingIsCached /\ DownIsIdle /\ AckIsOwed /\ CollectIsFresh)'
  BY <1>1 DEF IInv, PendingIsCached, DownIsIdle, AckIsOwed, CollectIsFresh,
              CurrentAttempt, pvars
<1> QED
  BY <1>2, <1>3, <1>4 DEF IInv

\* What Cached leaves in the two fields of the attempt.
LEMMA CachedOK ==
    ASSUME IInv, NEW a \in Attempt, NEW v \in {"empty"} \cup Value, Cached(a, v)
    PROVE  /\ DOMAIN pending' = Attempt
           /\ \A b \in Attempt : pending'[b] \subseteq PendingOf(b)
           /\ cache' \in [Attempt -> {"none", "empty"} \cup Value]
           /\ PendingIsCached'
<1>1. /\ cache' = [cache EXCEPT ![a] = v]
      /\ pending' = [pending EXCEPT ![a] = PendingOf(a)]
  BY DEF Cached
<1>2. v # "none"
  BY DEF Value
<1>3. /\ DOMAIN pending = Attempt /\ \A b \in Attempt : pending[b] \subseteq PendingOf(b)
      /\ cache \in [Attempt -> {"none", "empty"} \cup Value]
  BY DEF IInv, TypeOK
<1> QED
  BY <1>1, <1>2, <1>3 DEF IInv, PendingIsCached

LEMMA CollectOK ==
    ASSUME IInv, NEW outcome \in Outcomes, Collect(outcome)
    PROVE  IInv'
<1> DEFINE c == CurrentAttempt
<1>1. /\ proc = "up" /\ epc = "collect"
      /\ collected' = (collected \/ unacked = c)
      /\ UNCHANGED <<pvars, next_run, orders, reports>>
  BY DEF Collect
<1>2. c \in Attempt
  BY CurrentIsAttempt DEF IInv, TypeOK
<1>3. collected' \in BOOLEAN /\ keyMissed' \in BOOLEAN /\ reports' \in Seq(Report)
  BY <1>1 DEF Collect, IInv, TypeOK
<1>4. CASE outcome = "raise" /\ Raises(c)
  <2>1. FinishIfOrdered(c, TRUE) /\ UNCHANGED <<pending, cache>>
    BY <1>4 DEF Raises
  <2> QED
    BY <1>1, <1>3, <2>1, FinishIfOrderedOK DEF IInv, TypeOK, PendingIsCached
<1>5. CASE Cached(c, "0") /\ FinishIfOrdered(c, TRUE)
  <2>1. /\ DOMAIN pending' = Attempt
        /\ \A b \in Attempt : pending'[b] \subseteq PendingOf(b)
        /\ cache' \in [Attempt -> {"none", "empty"} \cup Value]
        /\ PendingIsCached'
    BY <1>2, <1>5, CachedOK DEF Value
  <2> QED
    BY <1>1, <1>3, <1>5, <2>1, FinishIfOrderedOK
<1>6. ASSUME NEW v \in {"empty"} \cup Value, Cached(c, v),
             epc' = "call", slow' = TRUE, UNCHANGED <<pos, busy, collecting>>
      PROVE  IInv'
  <2>1. /\ DOMAIN pending' = Attempt
        /\ \A b \in Attempt : pending'[b] \subseteq PendingOf(b)
        /\ cache' \in [Attempt -> {"none", "empty"} \cup Value]
        /\ PendingIsCached'
    BY <1>2, <1>6, CachedOK
  <2>2. TypeOK'
    BY <1>1, <1>3, <1>6, <2>1 DEF IInv, TypeOK, pvars
  <2>3. CollectsForDelivery'
    BY <1>1, <1>6 DEF IInv, CollectsForDelivery, pvars
  <2>4. DownIsIdle' /\ AckIsOwed' /\ CollectIsFresh'
    BY <1>1, <1>6 DEF DownIsIdle, AckIsOwed, CollectIsFresh, pvars
  <2> QED
    BY <2>1, <2>2, <2>3, <2>4 DEF IInv
<1>7. \/ outcome = "raise" /\ Raises(c)
      \/ Cached(c, "0") /\ FinishIfOrdered(c, TRUE)
      \/ /\ \E v \in {"empty"} \cup Value : Cached(c, v)
         /\ epc' = "call" /\ slow' = TRUE /\ UNCHANGED <<pos, busy, collecting>>
  BY DEF Collect
<1> QED
  BY <1>4, <1>5, <1>6, <1>7

LEMMA ObserveOK ==
    ASSUME IInv, Observe
    PROVE  IInv'
<1> DEFINE c == CurrentAttempt
           left == pending[c] \ {CurrentMetric}
           v == cache[c]
           report == [type |-> "up_check", attempt |-> c, value |-> v]
<1>1. /\ proc = "up" /\ epc = "call" /\ pending[c] # {}
      /\ UNCHANGED <<pvars, next_run, cache, collected, keyMissed, orders>>
  BY DEF Observe, Calling, history
<1>2. /\ c \in Attempt /\ slow \in BOOLEAN
      /\ collected' \in BOOLEAN /\ keyMissed' \in BOOLEAN
  BY <1>1, CurrentIsAttempt DEF IInv, TypeOK
<1>3. reports' = reports \/ (c \in UpAttempt /\ v # "empty" /\ reports' = Publish(reports, report))
  BY DEF Observe
<1>4. reports' \in Seq(Report)
  <2>1. reports \in Seq(Report)
    BY DEF IInv, TypeOK
  <2>2. v \in {"empty"} \cup Value
    BY <1>1, <1>2 DEF IInv, TypeOK, PendingIsCached
  <2>3. CASE c \in UpAttempt /\ v # "empty" /\ reports' = Publish(reports, report)
    <3>1. report \in Report
      BY <2>2, <2>3 DEF Report
    <3> QED
      BY <2>1, <2>3, <3>1, QueueOK
  <2> QED
    BY <1>3, <2>1, <2>3
<1>5. CASE Return(slow) /\ UNCHANGED <<pending, busy, collecting>>
  BY <1>1, <1>2, <1>4, <1>5, ReturnOK DEF IInv, TypeOK, PendingIsCached
<1>6. ASSUME pending' = [pending EXCEPT ![c] = left],
             \/ FinishIfOrdered(c, slow)
             \/ Return(slow) /\ UNCHANGED <<busy, collecting>>
      PROVE  IInv'
  <2>1. /\ DOMAIN pending' = Attempt
        /\ \A b \in Attempt : pending'[b] \subseteq pending[b]
    BY <1>2, <1>6 DEF IInv, TypeOK
  <2>2. /\ \A b \in Attempt : pending'[b] \subseteq PendingOf(b)
        /\ cache' \in [Attempt -> {"none", "empty"} \cup Value]
    BY <1>1, <2>1 DEF IInv, TypeOK
  <2>3. PendingIsCached'
    BY <1>1, <2>1 DEF IInv, PendingIsCached
  <2>4. CASE FinishIfOrdered(c, slow)
    BY <1>1, <1>2, <1>4, <2>1, <2>2, <2>3, <2>4, FinishIfOrderedOK
  <2>5. CASE Return(slow) /\ UNCHANGED <<busy, collecting>>
    BY <1>1, <1>2, <1>4, <2>1, <2>2, <2>3, <2>5, ReturnOK
  <2> QED
    BY <1>6, <2>4, <2>5
<1>7. \/ Return(slow) /\ UNCHANGED <<pending, busy, collecting>>
      \/ /\ pending' = [pending EXCEPT ![c] = left]
         /\ \/ FinishIfOrdered(c, slow)
            \/ Return(slow) /\ UNCHANGED <<busy, collecting>>
  BY DEF Observe
<1> QED
  BY <1>5, <1>6, <1>7

LEMMA ClearBusyOK ==
    ASSUME IInv, ClearBusy
    PROVE  IInv'
<1>1. /\ proc = "up" /\ epc = "clear" /\ busy' = FALSE /\ epc' = "ack"
      /\ UNCHANGED <<proc, channel, unacked, tag, ppc, target, collecting, next_run,
                     pending, cache, pos, slow, collected, keyMissed, orders, reports>>
  BY DEF ClearBusy, pvars, history
<1>2. TypeOK'
  BY <1>1 DEF IInv, TypeOK
<1>3. (CollectsForDelivery /\ PendingIsCached /\ DownIsIdle)'
  BY <1>1 DEF IInv, CollectsForDelivery, PendingIsCached, DownIsIdle
<1>4. (AckIsOwed /\ CollectIsFresh)'
  BY <1>1 DEF IInv, AckIsOwed, CollectIsFresh, CurrentAttempt
<1> QED
  BY <1>2, <1>3, <1>4 DEF IInv

\* The delivery that is acked is the one the attempt was collected for, and
\* nobody collects while it is.
LEMMA AckOK ==
    ASSUME IInv, Ack
    PROVE  IInv'
<1>1. /\ proc = "up" /\ epc = "ack"
      /\ UNCHANGED <<proc, ppc, target, busy, collecting, next_run, pending,
                     cache, collected, keyMissed, reports>>
  BY DEF Ack, avars, history
<1>2. slow \in BOOLEAN /\ pos \in DOMAIN Instruments
  BY DEF IInv, TypeOK
<1>3. CASE Return(slow) /\ UNCHANGED <<channel, unacked, tag, orders>>
  BY <1>1, <1>2, <1>3, ReturnOK DEF IInv, TypeOK, PendingIsCached, pvars
<1>4. CASE /\ UNCHANGED <<channel, orders>> \/ (channel' = "closed" /\ GiveBack)
           /\ unacked' = None /\ tag' = "old" /\ epc' = "done"
           /\ UNCHANGED <<pos, slow>>
  <2>1. orders' \in Seq(Order)
    BY <1>4, GiveBackType DEF IInv, TypeOK
  <2>2. TypeOK'
    BY <1>1, <1>4, <2>1 DEF IInv, TypeOK
  <2>3. CollectsForDelivery'
    BY <1>1, <1>4 DEF IInv, CollectsForDelivery, AckIsOwed
  <2>4. (PendingIsCached /\ DownIsIdle /\ AckIsOwed /\ CollectIsFresh)'
    BY <1>1, <1>4 DEF IInv, PendingIsCached, DownIsIdle, AckIsOwed, CollectIsFresh
  <2> QED
    BY <2>2, <2>3, <2>4 DEF IInv
<1> QED
  BY <1>3, <1>4 DEF Ack

LEMMA PublishDoneOK ==
    ASSUME IInv, PublishDone
    PROVE  IInv'
<1> DEFINE report == [type |-> "done", attempt |-> CurrentAttempt]
<1>1. /\ proc = "up" /\ Return(slow) /\ slow \in BOOLEAN
      /\ UNCHANGED <<pvars, busy, collecting, next_run, pending, cache,
                     collected, keyMissed, orders>>
      /\ reports' = reports \/ reports' = Publish(reports, report)
  BY DEF PublishDone, IInv, TypeOK, avars, history
<1>2. report \in Report
  BY CurrentIsAttempt DEF Report, IInv, TypeOK
<1>3. reports' \in Seq(Report)
  <2>1. reports \in Seq(Report)
    BY DEF IInv, TypeOK
  <2> HIDE DEF report
  <2>2. Publish(reports, report) \in Seq(Report)
    BY <1>2, <2>1, QueueOK
  <2> QED
    BY <1>1, <2>1, <2>2
<1> QED
  BY <1>1, <1>3, ReturnOK DEF IInv, TypeOK, PendingIsCached

LEMMA ExporterOK ==
    ASSUME IInv, Exporter
    PROVE  IInv'
BY NotDueOK, BeginOK, ObserveOK, ClearBusyOK, AckOK, PublishDoneOK, CollectOK DEF Exporter

-----------------------------------------------------------------------------
(* The environment and the theorems                                          *)

LEMMA EnvironmentOK ==
    ASSUME IInv, OrderArrives \/ OrderExpires \/ ReportTaken
    PROVE  IInv'
<1>0. orders \in Seq(Order) /\ reports \in Seq(Report)
  BY DEF IInv, TypeOK
<1>1. CASE OrderArrives
  BY <1>0, <1>1, QueueOK, QueuesOnlyOK DEF OrderArrives
<1>2. CASE OrderExpires
  BY <1>0, <1>2, QueuesOnlyOK DEF OrderExpires, DropOldest
<1>3. CASE ReportTaken
  BY <1>0, <1>3, QueuesOnlyOK DEF ReportTaken, DropOldest
<1> QED
  BY <1>1, <1>2, <1>3

LEMMA InitIInv ==
    ASSUME Init
    PROVE  IInv
<1>1. TypeOK
  <2>1. orders \in Seq(Order) /\ reports \in Seq(Report)
    BY DEF Init
  <2>2. pos \in DOMAIN Instruments
    BY InstrumentPositions DEF Init
  <2> QED
    BY <2>1, <2>2 DEF Init, TypeOK
<1>2. CollectsForDelivery
  BY DEF Init, CollectsForDelivery
<1>3. PendingIsCached /\ DownIsIdle /\ AckIsOwed /\ CollectIsFresh
  BY DEF Init, PendingIsCached, DownIsIdle, AckIsOwed, CollectIsFresh
<1> QED
  BY <1>1, <1>2, <1>3 DEF IInv

LEMMA NextIInv ==
    ASSUME IInv, [Next]_vars
    PROVE  IInv'
<1>1. CASE Start
  BY <1>1, FreshOK DEF Start, IInv, TypeOK
<1>2. CASE Exit
  <2>1. orders' \in Seq(Order)
    BY <1>2, GiveBackType DEF Exit
  <2> QED
    BY <1>2, <2>1, FreshOK DEF Exit, IInv, TypeOK
<1>3. CASE UNCHANGED vars
  BY <1>3, QueuesOnlyOK DEF vars, IInv, TypeOK
<1> QED
  BY <1>1, <1>2, <1>3, PikaOK, ExporterOK, EnvironmentOK DEF Next

\* The inductive invariant holds in every state of a collector.
THEOREM AlwaysIInv == Spec => []IInv
BY InitIInv, NextIInv, PTL DEF Spec

\* The variables keep their types.
THEOREM TypeCorrect == Spec => []TypeOK
BY AlwaysIInv, PTL DEF IInv

-----------------------------------------------------------------------------
(* As long as no row lacked the up metric                                    *)

\* The collector is busy exactly while an attempt is collecting, but for the
\* moments between two writes.
BusyMatches ==
    ppc # "busy" /\ epc # "clear" => busy = (\E a \in Attempt : collecting[a])

\* While message_callback arms its attempt the exporter has nothing to do.
ArmedInTurn ==
    ppc \in {"busy", "due"} =>
        /\ collecting[target]
        /\ \A a \in Attempt : next_run[a] # "due" /\ pending[a] = {}
        /\ epc \notin {"collect", "clear", "ack"}

\* Rows are left to export only for the order at hand: nothing an earlier
\* order left can be exported, and acked, for a later one.
Armed ==
    /\ \A a \in Attempt : next_run[a] = "due" => collecting[a]
    /\ \A a \in Attempt :
          pending[a] # {} => collecting[a] /\ next_run[a] # "due" /\ collected
    /\ epc = "collect" =>
          collecting[CurrentAttempt] /\ next_run[CurrentAttempt] # "due"
    /\ epc \in {"clear", "ack"} => collected
    /\ ArmedInTurn
    /\ BusyMatches

KeyArmed == ~keyMissed => Armed

LEMMA FreshArmed ==
    ASSUME Fresh
    PROVE  KeyArmed'
BY DEF Fresh, KeyArmed, Armed, ArmedInTurn, BusyMatches

\* Where the exporter runs a module or exports a metric, the attempt at hand is
\* the only one that collects and message_callback is past arming it.
LEMMA AtWork ==
    ASSUME IInv, Armed, epc \in {"call", "collect"},
           epc = "collect" \/ pending[CurrentAttempt] # {}
    PROVE  /\ CurrentAttempt \in Attempt
           /\ collecting[CurrentAttempt] /\ next_run[CurrentAttempt] # "due"
           /\ \A b \in Attempt : collecting[b] => b = CurrentAttempt
           /\ ppc \notin {"busy", "due"}
<1>1. CurrentAttempt \in Attempt
  BY CurrentIsAttempt DEF IInv, TypeOK
<1>2. collecting[CurrentAttempt] /\ next_run[CurrentAttempt] # "due"
  BY <1>1 DEF Armed
<1>3. \A b \in Attempt : collecting[b] => b = CurrentAttempt
  BY <1>1, <1>2 DEF IInv, CollectsForDelivery
<1>4. ppc \notin {"busy", "due"}
  BY <1>1 DEF Armed, ArmedInTurn
<1> QED
  BY <1>1, <1>2, <1>3, <1>4

\* Only the attempt of the unacked delivery can be collecting, so when its
\* collection ends nothing is armed any more.
LEMMA FinishArmed ==
    ASSUME IInv, Armed, NEW ran \in BOOLEAN,
           epc \in {"call", "collect"},
           epc = "collect" \/ pending[CurrentAttempt] # {},
           Finish(CurrentAttempt, ran), collected',
           UNCHANGED <<ppc, target, next_run>>, DOMAIN pending' = Attempt,
           pending'[CurrentAttempt] = {},
           \A b \in Attempt : pending'[b] \subseteq pending[b]
    PROVE  Armed'
<1> DEFINE c == CurrentAttempt
<1>1. /\ c \in Attempt /\ next_run[c] # "due" /\ ppc \notin {"busy", "due"}
      /\ \A b \in Attempt : collecting[b] => b = c
  BY AtWork
<1>2. \A b \in Attempt : next_run'[b] # "due" /\ pending'[b] = {}
  BY <1>1 DEF Armed
<1>3. epc' = "clear"
  BY DEF Finish
<1>4. ArmedInTurn' /\ BusyMatches'
  BY <1>1, <1>3 DEF ArmedInTurn, BusyMatches
<1> QED
  BY <1>2, <1>3, <1>4 DEF Armed

\* When an order is accepted nobody collects, and so nothing is left over.
LEMMA AcceptArmed ==
    ASSUME IInv, Armed, Accept
    PROVE  Armed'
<1> DEFINE a == Head(orders)
<1>1. a \in Attempt /\ unacked = None
  BY DEF Accept, CannotServe, Deliverable
<1>2. /\ collecting' = [collecting EXCEPT ![a] = TRUE]
      /\ target' = a /\ ppc' = "busy"
      /\ UNCHANGED <<next_run, pending, pos, epc>>
  BY DEF Accept, evars
<1> HIDE DEF a
<1>3. \A b \in Attempt : ~collecting[b]
  BY <1>1, NoneIsNoAttempt DEF IInv, CollectsForDelivery
<1>4. \A b \in Attempt : pending[b] = {} /\ next_run[b] # "due"
  BY <1>3 DEF Armed
<1>5. CurrentAttempt \in Attempt
  BY CurrentIsAttempt DEF IInv, TypeOK
<1>6. epc \notin {"collect", "clear", "ack"}
  BY <1>1, <1>3, <1>5, NoneIsNoAttempt DEF IInv, AckIsOwed, Armed
<1>7. collecting'[a]
  BY <1>1, <1>2 DEF IInv, TypeOK
<1> QED
  BY <1>2, <1>4, <1>6, <1>7 DEF Armed, ArmedInTurn, BusyMatches

LEMMA ArmOnArmed ==
    ASSUME IInv, Armed, ArmOn
    PROVE  Armed'
<1>0. /\ UNCHANGED <<collecting, pending, pos, epc, collected>>
      /\ CurrentAttempt' = CurrentAttempt
  BY DEF ArmOn, evars, history, CurrentAttempt
<1>1. CASE SetBusy
  <2>1. collecting[target] /\ target \in Attempt /\ epc # "clear"
    BY <1>1 DEF SetBusy, IInv, TypeOK, Armed, ArmedInTurn
  <2>2. BusyMatches'
    BY <1>0, <1>1, <2>1 DEF SetBusy, BusyMatches
  <2>3. ArmedInTurn'
    BY <1>0, <1>1 DEF SetBusy, Armed, ArmedInTurn
  <2> QED
    BY <1>0, <1>1, <2>2, <2>3 DEF SetBusy, Armed
<1>2. CASE SetDue
  <2>1. /\ collecting[target] /\ target \in Attempt
        /\ epc \notin {"collect", "clear", "ack"}
        /\ \A a \in Attempt : next_run[a] # "due" /\ pending[a] = {}
    BY <1>2 DEF SetDue, IInv, TypeOK, Armed, ArmedInTurn
  <2>2. /\ next_run' = [next_run EXCEPT ![target] = "due"]
        /\ ppc = "due" /\ ppc' = "tag" /\ busy' = busy
    BY <1>2 DEF SetDue
  <2>3. \A a \in Attempt : next_run'[a] = "due" => collecting'[a]
    BY <1>0, <2>1, <2>2 DEF IInv, TypeOK
  <2>4. ArmedInTurn' /\ BusyMatches'
    BY <1>0, <2>2 DEF Armed, ArmedInTurn, BusyMatches
  <2> QED
    BY <1>0, <2>1, <2>3, <2>4 DEF Armed
<1>3. CASE StoreTag
  <2>1. UNCHANGED <<busy, next_run>> /\ ppc = "tag" /\ ppc' = "idle"
    BY <1>3 DEF StoreTag
  <2> QED
    BY <1>0, <2>1 DEF Armed, ArmedInTurn, BusyMatches
<1> QED
  BY <1>1, <1>2, <1>3 DEF ArmOn

LEMMA CollectArmed ==
    ASSUME IInv, Armed, NEW outcome \in Outcomes, outcome # "nokey", Collect(outcome)
    PROVE  Armed'
<1> DEFINE c == CurrentAttempt
<1>0. epc = "collect" /\ UNCHANGED <<ppc, target, next_run>>
  BY DEF Collect, pvars
<1>1. /\ c \in Attempt /\ pending[c] = {} /\ collecting[c] /\ next_run[c] # "due"
      /\ ppc \notin {"busy", "due"}
  BY <1>0, AtWork DEF IInv, CollectIsFresh
<1>2. collected'
  BY <1>1 DEF Collect, IInv, CollectsForDelivery
<1>3. CASE Raises(c)
  <2>1. Finish(c, TRUE) /\ UNCHANGED pending
    BY <1>1, <1>3 DEF Raises, FinishIfOrdered
  <2> QED
    BY <1>0, <1>1, <1>2, <2>1, FinishArmed DEF IInv, TypeOK
<1>4. CASE /\ \E v \in {"empty"} \cup Value : Cached(c, v)
           /\ epc' = "call" /\ UNCHANGED <<pos, busy, collecting>>
  <2>1. \A b \in Attempt : b # c => pending'[b] = pending[b]
    BY <1>1, <1>4 DEF Cached, IInv, TypeOK
  <2>2. ArmedInTurn' /\ BusyMatches'
    BY <1>0, <1>1, <1>4 DEF Armed, ArmedInTurn, BusyMatches
  <2> QED
    BY <1>0, <1>1, <1>2, <1>4, <2>1, <2>2 DEF Armed
<1> QED
  BY <1>3, <1>4 DEF Collect

LEMMA ObserveArmed ==
    ASSUME IInv, Armed, Observe
    PROVE  Armed'
<1> DEFINE c == CurrentAttempt
           left == pending[c] \ {CurrentMetric}
<1>1. /\ epc = "call" /\ pending[c] # {} /\ slow \in BOOLEAN
      /\ UNCHANGED <<ppc, target, next_run, collected>>
  BY DEF Observe, Calling, IInv, TypeOK, pvars, history
<1>2. /\ c \in Attempt /\ collecting[c] /\ next_run[c] # "due" /\ collected
      /\ ppc \notin {"busy", "due"}
  BY <1>1, AtWork DEF Armed
<1>3. CASE Return(slow) /\ UNCHANGED <<pending, busy, collecting>>
  BY <1>1, <1>2, <1>3 DEF Return, Armed, ArmedInTurn, BusyMatches
<1>4. ASSUME pending' = [pending EXCEPT ![c] = left],
             IF left = {} THEN FinishIfOrdered(c, slow)
             ELSE Return(slow) /\ UNCHANGED <<busy, collecting>>
      PROVE  Armed'
  <2>1. /\ DOMAIN pending' = Attempt /\ pending'[c] = left
        /\ \A b \in Attempt : pending'[b] \subseteq pending[b]
    BY <1>2, <1>4 DEF IInv, TypeOK
  <2>2. CASE left = {}
    <3>1. Finish(c, slow)
      BY <1>2, <1>4, <2>2 DEF FinishIfOrdered
    <3> QED
      BY <1>1, <1>2, <2>1, <2>2, <3>1, FinishArmed
  <2>3. CASE left # {}
    <3>1. epc' = "call" /\ UNCHANGED <<busy, collecting>>
      BY <1>4, <2>3 DEF Return
    <3>2. ArmedInTurn' /\ BusyMatches'
      BY <1>1, <1>2, <3>1 DEF Armed, ArmedInTurn, BusyMatches
    <3> QED
      BY <1>1, <1>2, <2>1, <3>1, <3>2 DEF Armed
  <2> QED
    BY <2>2, <2>3
<1>5. \/ Return(slow) /\ UNCHANGED <<pending, busy, collecting>>
      \/ /\ pending' = [pending EXCEPT ![c] = left]
         /\ IF left = {} THEN FinishIfOrdered(c, slow)
            ELSE Return(slow) /\ UNCHANGED <<busy, collecting>>
  BY DEF Observe
<1> QED
  BY <1>3, <1>4, <1>5

\* The attempt was armed, so message_callback is past that.
LEMMA BeginArmed ==
    ASSUME IInv, Armed, Begin
    PROVE  Armed'
<1>1. CurrentAttempt \in Attempt /\ next_run[CurrentAttempt] = "due"
  BY CurrentIsAttempt DEF Begin, IInv, TypeOK
<1>2. /\ next_run' = [next_run EXCEPT ![CurrentAttempt] = "never"]
      /\ epc = "call" /\ epc' = "collect"
      /\ UNCHANGED <<ppc, target, busy, collecting, pending, pos, collected>>
  BY DEF Begin, Calling, pvars, history
<1>3. \A b \in Attempt : next_run'[b] = "due" => next_run[b] = "due"
  BY <1>1, <1>2 DEF IInv, TypeOK
<1>4. CurrentAttempt' = CurrentAttempt /\ next_run'[CurrentAttempt] = "never"
  BY <1>1, <1>2 DEF CurrentAttempt, IInv, TypeOK
<1>5. ArmedInTurn' /\ BusyMatches'
  BY <1>1, <1>2 DEF Armed, ArmedInTurn, BusyMatches
<1> QED
  BY <1>1, <1>2, <1>3, <1>4, <1>5 DEF Armed

\* Nobody is collecting when the collector's flag is cleared, and no order is
\* being accepted.
LEMMA ClearBusyArmed ==
    ASSUME IInv, Armed, ClearBusy
    PROVE  Armed'
<1>1. /\ epc = "clear" /\ epc' = "ack" /\ busy' = FALSE
      /\ UNCHANGED <<ppc, target, collecting, next_run, pending, pos, collected>>
  BY DEF ClearBusy, pvars, history
<1>2. ppc \notin {"busy", "due"} /\ \A a \in Attempt : ~collecting[a]
  BY <1>1 DEF Armed, ArmedInTurn, IInv, AckIsOwed
<1>3. ArmedInTurn' /\ BusyMatches'
  BY <1>1, <1>2 DEF ArmedInTurn, BusyMatches
<1> QED
  BY <1>1, <1>3 DEF Armed

LEMMA DoneArmed ==
    ASSUME IInv, Armed, Ack \/ PublishDone \/ NotDue
    PROVE  Armed'
<1>1. /\ epc \notin {"collect", "clear"} /\ epc' \in {"call", "done"}
      /\ UNCHANGED <<ppc, target, busy, collecting, next_run, pending, collected>>
  BY DEF Ack, PublishDone, NotDue, Calling, Return, pvars, avars, history
<1>2. ArmedInTurn' /\ BusyMatches'
  BY <1>1 DEF Armed, ArmedInTurn, BusyMatches
<1> QED
  BY <1>1, <1>2 DEF Armed

LEMMA SameArmed ==
    ASSUME Armed, UNCHANGED <<ppc, target, avars, evars, collected>>
    PROVE  Armed'
<1>1. CurrentAttempt' = CurrentAttempt
  BY DEF evars, CurrentAttempt
<1> QED
  BY <1>1 DEF Armed, ArmedInTurn, BusyMatches, avars, evars

LEMMA NextArmed ==
    ASSUME IInv, KeyArmed, [Next]_vars
    PROVE  KeyArmed'
<1>1. CASE Start \/ Exit \/ MessageEndsProcess
  BY <1>1, FreshArmed DEF Start, Exit, MessageEndsProcess
<1>2. CASE Accept \/ ArmOn \/ Begin \/ Observe \/ ClearBusy
  <2>1. keyMissed' = keyMissed
    BY <1>2 DEF Accept, ArmOn, Begin, Observe, ClearBusy, history
  <2> QED
    BY <1>2, <2>1, AcceptArmed, ArmOnArmed, BeginArmed, ObserveArmed, ClearBusyArmed
       DEF KeyArmed
<1>3. CASE Ack \/ PublishDone \/ NotDue
  <2>1. keyMissed' = keyMissed
    BY <1>3 DEF Ack, PublishDone, NotDue, history
  <2> QED
    BY <1>3, <2>1, DoneArmed DEF KeyArmed
<1>4. ASSUME NEW outcome \in Outcomes, Collect(outcome)
      PROVE  KeyArmed'
  <2>1. keyMissed' = (keyMissed \/ outcome = "nokey")
    BY <1>4 DEF Collect
  <2> QED
    BY <1>4, <2>1, CollectArmed DEF KeyArmed
<1>5. CASE Reject \/ OrderArrives \/ OrderExpires \/ ReportTaken \/ UNCHANGED vars
  <2>1. UNCHANGED <<ppc, target, avars, evars, collected, keyMissed>>
    BY <1>5 DEF Reject, OrderArrives, OrderExpires, ReportTaken, vars, pvars, history
  <2> QED
    BY <2>1, SameArmed DEF KeyArmed
<1> QED
  BY <1>1, <1>2, <1>3, <1>4, <1>5 DEF Next, Pika, Exporter

LEMMA AlwaysKeyArmed == Spec => []KeyArmed
<1>1. Init => KeyArmed
  BY DEF Init, KeyArmed, Armed, ArmedInTurn, BusyMatches
<1>2. IInv /\ KeyArmed /\ [Next]_vars => KeyArmed'
  BY NextArmed
<1> QED
  BY <1>1, <1>2, AlwaysIInv, PTL DEF Spec

\* The busy flags of the two threads match the unacked delivery, line by line
\* and however the threads interleave (collect in collector.py and
\* otlpattempt.py, observable_callback): the attempt's flag whatever the
\* modules yield, the collector's until a row lacks the up metric.
THEOREM FlagsMatch == Spec => []FlagsMatchDelivery
<1>1. IInv /\ KeyArmed => FlagsMatchDelivery
  BY DEF IInv, CollectsForDelivery, KeyArmed, Armed, BusyMatches, FlagsMatchDelivery
<1> QED
  BY <1>1, AlwaysIInv, AlwaysKeyArmed, PTL

\* Where no row lacks the up metric, that never happened.
LEMMA NeverMissed ==
    ASSUME "nokey" \notin Outcomes
    PROVE  Spec => []~keyMissed
<1>1. Init => ~keyMissed
  BY DEF Init
<1>2. ~keyMissed /\ [Next]_vars => ~keyMissed'
  <2> SUFFICES ASSUME ~keyMissed, [Next]_vars PROVE ~keyMissed'
    OBVIOUS
  <2>1. CASE Start \/ Exit \/ MessageEndsProcess
    BY <2>1 DEF Start, Exit, MessageEndsProcess, Fresh
  <2>2. ASSUME NEW outcome \in Outcomes, Collect(outcome)
        PROVE  ~keyMissed'
    BY <2>2 DEF Collect
  <2>3. CASE Reject \/ Accept \/ ArmOn \/ NotDue \/ Begin \/ Observe \/ ClearBusy
             \/ Ack \/ PublishDone
    BY <2>3 DEF Reject, Accept, ArmOn, NotDue, Begin, Observe, ClearBusy, Ack,
                PublishDone, vars, history
  <2>4. CASE OrderArrives \/ OrderExpires \/ ReportTaken \/ UNCHANGED vars
    BY <2>4 DEF OrderArrives, OrderExpires, ReportTaken, vars, history
  <2> QED
    BY <2>1, <2>2, <2>3, <2>4 DEF Next, Pika, Exporter
<1> QED
  BY <1>1, <1>2, PTL DEF Spec

\* No order is acked before its module was run (done_callback): the rows that
\* are exported are those of this order.  Rows without the up metric, which
\* leave some behind, are the exception (otlpattempt.py:132).
THEOREM AckedOnlyAfterCollection ==
    ASSUME "nokey" \notin Outcomes
    PROVE  Spec => []AckedAfterCollection
<1>1. KeyArmed /\ ~keyMissed => AckedAfterCollection
  BY DEF KeyArmed, Armed, AckedAfterCollection
<1> QED
  BY <1>1, AlwaysKeyArmed, NeverMissed, PTL

-----------------------------------------------------------------------------
(* An exporter that does not run between the lines of message_callback       *)

\* While an order is being collected, and until it is acked, the stored tag
\* is the one of its delivery.
Tagged ==
    /\ channel = "open"
    /\ ppc = "idle" => \A a \in Attempt : collecting[a] => tag = "cur"
    /\ ppc # "idle" => unacked # None /\ epc \notin {"clear", "ack"}
    /\ epc \in {"clear", "ack"} => tag = "cur"

\* What the exporter does while message_callback is not at work.
LEMMA ExporterTagged ==
    ASSUME Preempt = FALSE, IInv, Tagged, Exporter
    PROVE  Tagged'
<1>0. ppc = "idle" /\ channel = "open"
  BY DEF Exporter, Tagged
<1>1. ASSUME UNCHANGED pvars,
             \/ FinishIfOrdered(CurrentAttempt, TRUE)
             \/ FinishIfOrdered(CurrentAttempt, slow)
             \/ epc' \notin {"clear", "ack"} /\ UNCHANGED collecting
      PROVE  Tagged'
  <2>1. CurrentAttempt \in Attempt
    BY CurrentIsAttempt DEF IInv, TypeOK
  <2>2. \/ collecting[CurrentAttempt]
           /\ collecting' = [collecting EXCEPT ![CurrentAttempt] = FALSE]
        \/ epc' \notin {"clear", "ack"} /\ UNCHANGED collecting
    BY <1>1 DEF FinishIfOrdered, Finish, Return
  <2>3. \A b \in Attempt : collecting'[b] => collecting[b]
    BY <2>1, <2>2 DEF IInv, TypeOK
  <2> QED
    BY <1>0, <1>1, <2>1, <2>2, <2>3 DEF Tagged, pvars
<1>2. CASE NotDue \/ Begin \/ PublishDone
  <2>1. UNCHANGED <<pvars, collecting>> /\ epc' \notin {"clear", "ack"}
    BY <1>2 DEF NotDue, Begin, PublishDone, Return, avars
  <2> QED
    BY <1>1, <2>1
<1>3. ASSUME NEW outcome \in Outcomes, Collect(outcome)
      PROVE  Tagged'
  BY <1>1, <1>3 DEF Collect, Raises
<1>4. CASE Observe
  BY <1>1, <1>4 DEF Observe, Return
<1>5. CASE ClearBusy
  BY <1>5 DEF ClearBusy, pvars, Tagged
<1>6. CASE Ack
  <2>1. (\A b \in Attempt : ~collecting[b]) /\ tag = "cur"
    BY <1>6 DEF Ack, IInv, AckIsOwed, Tagged
  <2>2. ppc' = "idle" /\ channel' = "open" /\ collecting' = collecting
        /\ epc' \notin {"clear", "ack"}
    BY <1>0, <1>6, <2>1 DEF Ack, Return, avars
  <2> QED
    BY <2>1, <2>2 DEF Tagged
<1> QED
  BY <1>2, <1>3, <1>4, <1>5, <1>6 DEF Exporter

LEMMA NextTagged ==
    ASSUME Preempt = FALSE, IInv, Tagged, [Next]_vars
    PROVE  Tagged'
<1>1. CASE Start \/ Exit \/ MessageEndsProcess
  BY <1>1 DEF Start, Exit, MessageEndsProcess, Fresh, Tagged
<1>2. CASE Accept
  <2>1. unacked = None /\ Head(orders) \in Attempt
    BY <1>2 DEF Accept, CannotServe, Deliverable
  <2>2. epc \notin {"clear", "ack"}
    BY <2>1, CurrentIsAttempt, NoneIsNoAttempt DEF IInv, TypeOK, AckIsOwed
  <2>3. ppc' = "busy" /\ unacked' # None /\ UNCHANGED <<channel, epc>>
    BY <1>2, <2>1, NoneIsNoAttempt DEF Accept, evars
  <2> QED
    BY <2>2, <2>3 DEF Tagged
<1>3. CASE ArmOn
  <2>1. UNCHANGED <<channel, unacked, epc>>
    BY <1>3 DEF ArmOn, evars
  <2>2. CASE SetBusy \/ SetDue
    BY <2>1, <2>2 DEF SetBusy, SetDue, Tagged
  <2>3. CASE StoreTag
    BY <2>1, <2>3 DEF StoreTag, Tagged
  <2> QED
    BY <1>3, <2>2, <2>3 DEF ArmOn
<1>4. CASE Reject \/ OrderArrives \/ OrderExpires \/ ReportTaken \/ UNCHANGED vars
  BY <1>4 DEF Reject, OrderArrives, OrderExpires, ReportTaken,
              vars, pvars, avars, evars, Tagged
<1> QED
  BY <1>1, <1>2, <1>3, <1>4, ExporterTagged DEF Next, Pika

LEMMA AlwaysTagged ==
    ASSUME Preempt = FALSE
    PROVE  Spec => []Tagged
<1>1. Init => Tagged
  BY DEF Init, Tagged
<1>2. IInv /\ Tagged /\ [Next]_vars => Tagged'
  BY NextTagged
<1> QED
  BY <1>1, <1>2, AlwaysIInv, PTL DEF Spec

\* Unless the exporter overtakes message_callback, every ack names its own
\* delivery and the broker has no reason to close the channel.
THEOREM ChannelIsKept ==
    ASSUME Preempt = FALSE
    PROVE  Spec => []ChannelStaysOpen
<1>1. Tagged => ChannelStaysOpen
  BY DEF Tagged, ChannelStaysOpen
<1> QED
  BY <1>1, AlwaysTagged, PTL

-----------------------------------------------------------------------------
(* The collector implements Worker.tla                                       *)

LEMMA SelfSteps ==
    ASSUME Abstract!Step("self")
    PROVE  Abstract!Next
BY DEF Abstract!Next

\* The pika thread takes an order, or ends the process.
LEMMA PikaImplements ==
    ASSUME IInv, Pika
    PROVE  [Abstract!Next]_Abstract!wvars
<1>1. CASE MessageEndsProcess
  <2>1. Abstract!Exit("self")
    BY <1>1 DEF MessageEndsProcess, Deliverable, Fresh, Abstract!Exit
  <2> QED
    BY <2>1, SelfSteps DEF Abstract!Step
<1>2. CASE Reject
  BY <1>2 DEF Reject, vars, pvars, evars, CurrentAttempt, Abstract!wvars
<1>3. CASE Accept
  <2>1. UNCHANGED CurrentAttempt /\ UNCHANGED epc
    BY <1>3 DEF Accept, evars, CurrentAttempt
  <2>2. Abstract!Take("self")
    BY <1>3, <2>1 DEF Accept, Deliverable, DropOldest,
                      Abstract!Take, Abstract!DropOldest
  <2> QED
    BY <2>2, SelfSteps DEF Abstract!Step
<1>4. CASE ArmOn
  BY <1>4 DEF ArmOn, evars, CurrentAttempt, Abstract!wvars
<1> QED
  BY <1>1, <1>2, <1>3, <1>4 DEF Pika

\* What the exporter exports leaves the mapped state alone, except the up
\* metric, which is a report on the order at hand.
LEMMA ObserveImplements ==
    ASSUME IInv, Armed, Observe
    PROVE  [Abstract!Next]_Abstract!wvars
<1> DEFINE c == CurrentAttempt
           v == cache[c]
<1>1. /\ proc = "up" /\ epc = "call" /\ pending[c] # {}
      /\ UNCHANGED <<proc, unacked, orders>>
  BY DEF Observe, Calling, pvars
<1>2. epc' # "done"
  BY DEF Observe, FinishIfOrdered, Finish, Return
<1>3. c \in Attempt /\ unacked = c
  BY <1>1, CurrentIsAttempt DEF IInv, TypeOK, Armed, CollectsForDelivery
<1>4. CASE reports' = reports
  BY <1>1, <1>2, <1>4 DEF Abstract!wvars
<1>5. CASE /\ c \in UpAttempt /\ v # "empty"
           /\ reports' = Publish(reports, [type |-> "up_check", attempt |-> c,
                                          value |-> v])
  <2>1. v \in Value
    BY <1>1, <1>3, <1>5 DEF IInv, TypeOK, PendingIsCached
  <2>2. Abstract!ReportUp("self", v)
    BY <1>1, <1>2, <1>3, <1>5 DEF Abstract!ReportUp, Abstract!UpReport,
                                  Publish, Abstract!Publish
  <2> QED
    BY <2>1, <2>2, SelfSteps DEF Abstract!Step
<1> QED
  BY <1>4, <1>5 DEF Observe

LEMMA ExporterImplements ==
    ASSUME IInv, Armed, Tagged, Exporter
    PROVE  [Abstract!Next]_Abstract!wvars
<1>1. CASE NotDue \/ Begin \/ ClearBusy
  BY <1>1 DEF NotDue, Begin, ClearBusy, Calling, Return, pvars, Abstract!wvars
<1>2. ASSUME NEW outcome \in Outcomes, Collect(outcome)
      PROVE  UNCHANGED Abstract!wvars
  <2>1. epc = "collect" /\ epc' # "done" /\ UNCHANGED <<proc, unacked, orders, reports>>
    BY <1>2 DEF Collect, Raises, FinishIfOrdered, Finish, Return, pvars
  <2> QED
    BY <2>1 DEF Abstract!wvars
<1>3. CASE Ack
  <2>1. unacked = CurrentAttempt /\ tag = "cur" /\ channel = "open"
    BY <1>3 DEF Ack, IInv, AckIsOwed, Tagged
  <2>2. CurrentAttempt \in Attempt
    BY CurrentIsAttempt DEF IInv, TypeOK
  <2>3. /\ proc = "up" /\ epc = "ack" /\ epc' = "done" /\ unacked' = None
        /\ UNCHANGED <<proc, orders, reports, pos>>
    BY <1>3, <2>1 DEF Ack
  <2>4. CurrentAttempt' = CurrentAttempt
    BY <2>3 DEF CurrentAttempt
  <2>5. Abstract!Ack("self")
    BY <2>1, <2>2, <2>3, <2>4, NoneIsNoAttempt DEF Abstract!Ack
  <2> QED
    BY <2>5, SelfSteps DEF Abstract!Step
<1>4. CASE PublishDone
  <2>1. CurrentAttempt \in Attempt
    BY CurrentIsAttempt DEF IInv, TypeOK
  <2>2. /\ proc = "up" /\ epc = "done" /\ epc' = "call"
        /\ UNCHANGED <<proc, unacked, orders>>
        /\ reports' = Publish(reports, [type |-> "done", attempt |-> CurrentAttempt])
    BY <1>4 DEF PublishDone, Return, pvars, Tagged
  <2>3. Abstract!PublishDone("self")
    BY <2>1, <2>2, NoneIsNoAttempt DEF Abstract!PublishDone,
       Abstract!DoneReport, Publish, Abstract!Publish
  <2> QED
    BY <2>3, SelfSteps DEF Abstract!Step
<1> QED
  BY <1>1, <1>2, <1>3, <1>4, ObserveImplements DEF Exporter

\* The process starts or ends, messages come and go.
LEMMA RestImplements ==
    ASSUME IInv, \/ Start \/ Exit \/ OrderArrives \/ OrderExpires \/ ReportTaken
                 \/ UNCHANGED vars
    PROVE  [Abstract!Next]_Abstract!wvars
<1>1. CASE Start
  <2>1. Abstract!Begin("self")
    BY <1>1 DEF Start, Fresh, IInv, DownIsIdle, Abstract!Begin
  <2> QED
    BY <2>1, SelfSteps DEF Abstract!Step
<1>2. CASE Exit
  <2>1. Abstract!Exit("self")
    BY <1>2 DEF Exit, Fresh, GiveBack, Requeue, Abstract!Exit, Abstract!Requeue
  <2> QED
    BY <2>1, SelfSteps DEF Abstract!Step
<1>3. CASE OrderArrives \/ OrderExpires \/ ReportTaken
  <2>1. UNCHANGED <<proc, unacked, epc, CurrentAttempt>>
    BY <1>3 DEF OrderArrives, OrderExpires, ReportTaken, pvars, evars, CurrentAttempt
  <2>2. Abstract!Environment
    BY <1>3, <2>1 DEF OrderArrives, OrderExpires, ReportTaken,
       Publish, DropOldest, Abstract!Publish, Abstract!DropOldest,
       Abstract!Environment, Abstract!OrderArrives, Abstract!OrderExpires,
       Abstract!ReportTaken
  <2> QED
    BY <2>2 DEF Abstract!Next
<1>4. CASE UNCHANGED vars
  BY <1>4 DEF vars, pvars, evars, CurrentAttempt, Abstract!wvars
<1> QED
  BY <1>1, <1>2, <1>3, <1>4

\* The two threads together do what Worker.tla promises of a collector: one
\* order at a time, collected, reported on, acked and then reported done.
\* Assumed: no row lacks the up metric, and the exporter does not overtake
\* message_callback.
THEOREM CollectorImplementsWorker ==
    ASSUME "nokey" \notin Outcomes, Preempt = FALSE
    PROVE  Spec => ImplementsWorker
<1>1. Init => Abstract!Init
  BY DEF Init, Abstract!Init, Abstract!InitWorkers
<1>2. IInv /\ KeyArmed /\ ~keyMissed /\ Tagged /\ [Next]_vars => [Abstract!Next]_Abstract!wvars
  BY PikaImplements, ExporterImplements, RestImplements DEF Next, KeyArmed
<1> QED
  BY <1>1, <1>2, AlwaysIInv, AlwaysKeyArmed, NeverMissed, AlwaysTagged, PTL
     DEF Spec, ImplementsWorker, Abstract!Spec
=============================================================================
