---------------------------- MODULE RolloutProofs ----------------------------
(* Theorems about Rollout.tla, for any number of collectors and versions,    *)
(* any crashes and any edits, also those in the middle of a load.            *)
EXTENDS Rollout, SequenceLemmas

\* The time of a file is taken before the file is read, and files only get
\* newer: the id of a process is never newer than what it has read.
StatComesFirst ==
    \A p \in Process :
        /\ id[p] <= disk
        /\ phase[p] = "up" => id[p] <= read[p]
        /\ phase[p] # "down" => id[p] \in Version

\* An order at hand was accepted by this very process.
AcceptedBySelf ==
    \A c \in Collector :
        job[c] # None =>
            /\ phase[c] = "up"
            /\ mismatch_action = "exit" => job[c].id = id[c]

IInv == TypeOK /\ StatComesFirst /\ AcceptedBySelf

-----------------------------------------------------------------------------
\* The queue operators keep the type of a queue.
LEMMA QueueOK ==
    ASSUME NEW S, NEW q \in Seq(S), NEW m \in S
    PROVE  /\ Publish(q, m) \in Seq(S) /\ Requeue(q, m) \in Seq(S)
           /\ q # <<>> => DropOldest(q) \in Seq(S)
BY QueueTypes, MaxQueueAssumption DEF Publish, Requeue, DropOldest

LEMMA VersionIsNat == Version \subseteq Nat /\ 1 \in Version /\ Version = 1 .. Len(Files)
<1>1. Len(Files) \in Nat \ {0} /\ DOMAIN Files = 1 .. Len(Files)
  BY RolloutAssumption
<1> QED
  BY <1>1 DEF Version

LEMMA GivenBackOK ==
    ASSUME NEW o \in Order, NEW q \in Seq(Order), GivenBack(o, q)
    PROVE  orders' \in Seq(Order)
<1> DEFINE again == [o EXCEPT !.returned = @ + 1]
<1>1. CASE o.returned < MaxReturns /\ orders' = Requeue(q, again)
  <2>1. o.returned + 1 \in 0 .. MaxReturns
    BY <1>1, RolloutAssumption DEF Order
  <2>2. again \in Order
    BY <2>1 DEF Order
  <2> HIDE DEF again
  <2> QED
    BY <1>1, <2>2, QueueOK
<1> QED
  BY <1>1 DEF GivenBack

\* A process without an order may end at any time.
LEMMA EndsOK ==
    ASSUME IInv, NEW p \in Process, Ends(p),
           p \in Collector => job'[p] = None,
           \A c \in Collector : c = p \/ job'[c] = job[c],
           job' \in [Collector -> Order \cup {None}],
           orders' \in Seq(Order), faults' \in 0 .. MaxFaults,
           UNCHANGED <<disk, mismatch_action>>
    PROVE  IInv'
<1>1. TypeOK'
  BY DEF IInv, TypeOK, Ends
<1>2. StatComesFirst'
  <2> SUFFICES ASSUME NEW r \in Process
               PROVE  /\ id'[r] <= disk
                      /\ phase'[r] = "up" => id'[r] <= read'[r]
                      /\ phase'[r] # "down" => id'[r] \in Version
    BY DEF StatComesFirst
  <2>1. CASE r = p
    BY <2>1, VersionIsNat DEF IInv, TypeOK, Ends
  <2>2. CASE r # p
    BY <2>2 DEF IInv, TypeOK, StatComesFirst, Ends
  <2> QED
    BY <2>1, <2>2
<1>3. AcceptedBySelf'
  BY DEF IInv, TypeOK, AcceptedBySelf, Ends, Process
<1> QED
  BY <1>1, <1>2, <1>3 DEF IInv

LEMMA StatOK ==
    ASSUME IInv, NEW p \in Process, Stat(p)
    PROVE  IInv'
<1>1. TypeOK'
  BY DEF Stat, IInv, TypeOK
<1>2. StatComesFirst'
  BY VersionIsNat DEF Stat, IInv, TypeOK, StatComesFirst
<1>3. AcceptedBySelf'
  BY DEF Stat, IInv, TypeOK, AcceptedBySelf, Process
<1> QED
  BY <1>1, <1>2, <1>3 DEF IInv

LEMMA ReadOK ==
    ASSUME IInv, NEW p \in Process, NEW found \in SUBSET Discovered, Read(p, found),
           faults' \in 0 .. MaxFaults
    PROVE  IInv'
<1> DEFINE content == Files[disk] \cup found
<1>1. content \subseteq Attempt
  BY RolloutAssumption DEF IInv, TypeOK, Version
<1>2. CASE Ends(p)
  <2>1. p \in Collector => job[p] = None
    BY DEF Read, IInv, AcceptedBySelf
  <2>2. UNCHANGED <<disk, orders, job, mismatch_action>>
    BY DEF Read
  <2> QED
    BY <1>2, <2>1, <2>2, EndsOK DEF IInv, TypeOK
<1>3. CASE /\ phase' = [phase EXCEPT ![p] = "up"]
           /\ read' = [read EXCEPT ![p] = disk]
           /\ known' = [known EXCEPT ![p] = content]
           /\ UNCHANGED id
  <2>1. TypeOK'
    BY <1>1, <1>3 DEF Read, IInv, TypeOK
  <2>2. StatComesFirst'
    BY <1>3 DEF Read, IInv, TypeOK, StatComesFirst
  <2>3. AcceptedBySelf'
    BY <1>3 DEF Read, IInv, TypeOK, AcceptedBySelf, Process
  <2> QED
    BY <2>1, <2>2, <2>3 DEF IInv
<1> QED
  BY <1>2, <1>3 DEF Read

LEMMA PublishOrderOK ==
    ASSUME IInv, NEW a \in Attempt, PublishOrder(a)
    PROVE  IInv'
<1> DEFINE o == [attempt |-> a, id |-> id[Scheduler], returned |-> 0]
<1>1. id[Scheduler] \in Version
  BY DEF PublishOrder, IInv, StatComesFirst, Process
<1>2. o \in Order
  BY <1>1, RolloutAssumption DEF Order
<1>3. orders \in Seq(Order) /\ orders' = Publish(orders, o)
  BY DEF PublishOrder, IInv, TypeOK
<1> HIDE DEF o
<1>4. orders' \in Seq(Order)
  BY <1>2, <1>3, QueueOK
<1> QED
  BY <1>4 DEF PublishOrder, procvars, IInv, TypeOK, StatComesFirst, AcceptedBySelf

LEMMA TakeOK ==
    ASSUME IInv, NEW c \in Collector, Take(c)
    PROVE  IInv'
<1> DEFINE o == Head(orders)
<1>1. /\ o \in Order /\ DropOldest(orders) \in Seq(Order) /\ c \in Process
      /\ job[c] = None /\ phase[c] = "up" /\ faults' \in 0 .. MaxFaults
      /\ UNCHANGED <<disk, mismatch_action>>
  BY DEF Take, DropOldest, IInv, TypeOK, Process
<1>2. CASE Ends(c) /\ GivenBack(o, DropOldest(orders)) /\ UNCHANGED job
  <2>1. orders' \in Seq(Order)
    BY <1>1, <1>2, GivenBackOK
  <2> QED
    BY <1>1, <1>2, <2>1, EndsOK DEF IInv, TypeOK
<1>3. CASE /\ ~Kills(c, o)
           /\ job' = [job EXCEPT ![c] = o]
           /\ orders' = DropOldest(orders)
           /\ UNCHANGED procvars
  <2>1. mismatch_action = "exit" => o.id = id[c]
    BY <1>3 DEF Kills
  <2> HIDE DEF o
  <2>2. TypeOK'
    BY <1>1, <1>3 DEF procvars, IInv, TypeOK
  <2>3. StatComesFirst'
    BY <1>1, <1>3 DEF procvars, IInv, StatComesFirst
  <2>4. AcceptedBySelf'
    BY <1>1, <1>3, <2>1 DEF procvars, IInv, TypeOK, AcceptedBySelf
  <2> QED
    BY <2>2, <2>3, <2>4 DEF IInv
<1> QED
  BY <1>2, <1>3 DEF Take

LEMMA FinishOK ==
    ASSUME IInv, NEW c \in Collector, Finish(c)
    PROVE  IInv'
  BY DEF Finish, procvars, IInv, TypeOK, StatComesFirst, AcceptedBySelf

LEMMA FaultCounted ==
    ASSUME IInv, Fault
    PROVE  faults' \in 0 .. MaxFaults
  BY RolloutAssumption DEF Fault, IInv, TypeOK

LEMMA RestartsOK ==
    ASSUME IInv, SchedulerRestarts \/ \E c \in Collector : CollectorRestarts(c)
    PROVE  IInv'
<1>1. CASE SchedulerRestarts
  <2>1. /\ Scheduler \in Process /\ Scheduler \notin Collector
        /\ Ends(Scheduler) /\ faults' \in 0 .. MaxFaults
        /\ UNCHANGED <<disk, orders, job, mismatch_action>>
    BY <1>1, FaultCounted, RolloutAssumption DEF SchedulerRestarts, Process
  <2> QED
    BY <2>1, EndsOK DEF IInv, TypeOK
<1>2. ASSUME NEW c \in Collector, CollectorRestarts(c) PROVE IInv'
  <2>1. /\ c \in Process /\ Ends(c) /\ faults' \in 0 .. MaxFaults
        /\ job' = [job EXCEPT ![c] = None]
        /\ UNCHANGED <<disk, mismatch_action>>
    BY <1>2, FaultCounted DEF CollectorRestarts, Process
  <2>2. orders' \in Seq(Order)
    <3>1. orders \in Seq(Order) /\ (job[c] # None => job[c] \in Order)
      BY DEF IInv, TypeOK
    <3> QED
      BY <1>2, <3>1, GivenBackOK DEF CollectorRestarts
  <2>3. /\ job' \in [Collector -> Order \cup {None}]
        /\ job'[c] = None /\ \A d \in Collector : d = c \/ job'[d] = job[d]
    BY <2>1 DEF IInv, TypeOK
  <2> QED
    BY <2>1, <2>2, <2>3, EndsOK
<1> QED
  BY <1>1, <1>2

LEMMA RestOK ==
    ASSUME IInv, Edit \/ OrderExpires \/ UNCHANGED vars
    PROVE  IInv'
<1>1. CASE Edit
  <2>1. disk' \in Version /\ disk' > disk /\ disk \in Nat
    BY <1>1, VersionIsNat DEF Edit, IInv, TypeOK
  <2>2. \A p \in Process : id[p] \in Nat
    BY VersionIsNat DEF IInv, TypeOK
  <2>3. StatComesFirst'
    BY <1>1, <2>1, <2>2 DEF Edit, procvars, IInv, StatComesFirst
  <2> QED
    BY <1>1, <2>1, <2>3 DEF Edit, procvars, IInv, TypeOK, AcceptedBySelf
<1>2. CASE OrderExpires
  <2>1. orders' \in Seq(Order) /\ faults' \in 0 .. MaxFaults
    BY <1>2, FaultCounted DEF OrderExpires, DropOldest, IInv, TypeOK
  <2> QED
    BY <1>2, <2>1 DEF OrderExpires, procvars, IInv, TypeOK, StatComesFirst, AcceptedBySelf
<1>3. CASE UNCHANGED vars
  BY <1>3 DEF vars, procvars, IInv, TypeOK, StatComesFirst, AcceptedBySelf
<1> QED
  BY <1>1, <1>2, <1>3

LEMMA InitIInv == Init => IInv
<1> SUFFICES ASSUME Init PROVE IInv
  OBVIOUS
<1>1. TypeOK
  BY VersionIsNat, RolloutAssumption DEF Init, TypeOK
<1>2. StatComesFirst /\ AcceptedBySelf
  BY DEF Init, StatComesFirst, AcceptedBySelf
<1> QED
  BY <1>1, <1>2 DEF IInv

LEMMA NextIInv == IInv /\ [Next]_vars => IInv'
<1> SUFFICES ASSUME IInv, [Next]_vars PROVE IInv'
  OBVIOUS
<1>1. ASSUME NEW p \in Process, Load(p) PROVE IInv'
  <2>1. Read(p, Discovered) /\ faults' \in 0 .. MaxFaults
    BY <1>1 DEF Load, IInv, TypeOK
  <2> QED
    BY <2>1, ReadOK
<1>2. ASSUME NEW p \in Process, SearchFails(p) PROVE IInv'
  <2>1. Read(p, {}) /\ faults' \in 0 .. MaxFaults
    BY <1>2, FaultCounted DEF SearchFails
  <2> QED
    BY <2>1, ReadOK
<1> QED
  BY <1>1, <1>2, StatOK, PublishOrderOK, TakeOK, FinishOK, RestartsOK, RestOK DEF Next

LEMMA AlwaysIInv == Spec => []IInv
  BY InitIInv, NextIInv, PTL DEF Spec

-----------------------------------------------------------------------------
\* Every variable of a rollout keeps its type (Config, Collector).
THEOREM TypeCorrect == Spec => []TypeOK
<1>1. IInv => TypeOK
  BY DEF IInv
<1> QED
  BY <1>1, AlwaysIInv, PTL

\* However the files are edited and whoever restarts when, a collector with
\* the action "exit" never works from files older than the order's id says
\* (Config.load_base takes the time before it reads; message_callback).
THEOREM NeverOlderHolds == Spec => []NeverOlder
<1>1. IInv => NeverOlder
  BY DEF IInv, StatComesFirst, AcceptedBySelf, NeverOlder, Process
<1> QED
  BY <1>1, AlwaysIInv, PTL
=============================================================================
