-------------------------- MODULE OrderTimingProofs --------------------------
(* When the intervals leave room for the whole trip of an order, an attempt  *)
(* has never two orders at once - for every interval, TTL and delay.         *)
EXTENDS OrderTiming, TLAPS

\* The longest trip of an order fits in the shortest interval.
RoomForATrip == TTL + MaxWork + MaxDelay <= Interval - Jitter

\* Where the attempt's one order is, and how much of the interval is left.
Nowhere == waiting = <<>> /\ working = -1 /\ done = <<>>
InQueue ==
    \E age \in 0..TTL :
        /\ waiting = <<age>> /\ working = -1 /\ done = <<>>
        /\ until >= Interval - Jitter - age
AtWork ==
    \E age \in 0..MaxWork :
        /\ waiting = <<>> /\ working = age /\ done = <<>>
        /\ until >= Interval - Jitter - TTL - age
Reported ==
    \E age \in 0..MaxDelay :
        /\ waiting = <<>> /\ working = -1 /\ done = <<age>>
        /\ until >= Interval - Jitter - TTL - MaxWork - age

Whereabouts == until \in Int /\ (Nowhere \/ InQueue \/ AtWork \/ Reported)

-----------------------------------------------------------------------------
\* An order on its way means that the attempt is not due yet.
LEMMA NotDueOnTheWay ==
    ASSUME RoomForATrip, Whereabouts, Due
    PROVE  Nowhere
BY TimingAssumption DEF RoomForATrip, Whereabouts, Due, InQueue, AtWork, Reported

LEMMA ScheduleNextOK ==
    ASSUME ScheduleNext
    PROVE  until' \in Int /\ until' >= Interval - Jitter
BY TimingAssumption DEF ScheduleNext

LEMMA TickOK ==
    ASSUME Whereabouts, Tick
    PROVE  Whereabouts'
<1>0. until' = until - 1 /\ until' \in Int
  BY DEF Tick, Whereabouts
<1>1. CASE Nowhere
  BY <1>0, <1>1 DEF Tick, Older, Nowhere, Whereabouts
<1>2. CASE InQueue
  <2>1. PICK age \in 0..TTL :
           /\ waiting = <<age>> /\ working = -1 /\ done = <<>>
           /\ until >= Interval - Jitter - age
    BY <1>2 DEF InQueue
  <2>2. age + 1 \in 0..TTL
    BY <2>1, TimingAssumption DEF Tick
  <2>3. waiting' = <<age + 1>> /\ working' = -1 /\ done' = <<>>
    BY <2>1 DEF Tick, Older
  <2>4. until' >= Interval - Jitter - (age + 1)
    BY <1>0, <2>1, TimingAssumption DEF Whereabouts
  <2> QED
    BY <1>0, <2>2, <2>3, <2>4 DEF InQueue, Whereabouts
<1>3. CASE AtWork
  <2>1. PICK age \in 0..MaxWork :
           /\ waiting = <<>> /\ working = age /\ done = <<>>
           /\ until >= Interval - Jitter - TTL - age
    BY <1>3 DEF AtWork
  <2>2. age + 1 \in 0..MaxWork
    BY <2>1, TimingAssumption DEF Tick
  <2>3. waiting' = <<>> /\ working' = age + 1 /\ done' = <<>>
    BY <2>1 DEF Tick, Older
  <2>4. until' >= Interval - Jitter - TTL - (age + 1)
    BY <1>0, <2>1, TimingAssumption DEF Whereabouts
  <2> QED
    BY <1>0, <2>2, <2>3, <2>4 DEF AtWork, Whereabouts
<1>4. CASE Reported
  <2>1. PICK age \in 0..MaxDelay :
           /\ waiting = <<>> /\ working = -1 /\ done = <<age>>
           /\ until >= Interval - Jitter - TTL - MaxWork - age
    BY <1>4 DEF Reported
  <2>2. age + 1 \in 0..MaxDelay
    BY <2>1, TimingAssumption DEF Tick
  <2>3. waiting' = <<>> /\ working' = -1 /\ done' = <<age + 1>>
    BY <2>1 DEF Tick, Older
  <2>4. until' >= Interval - Jitter - TTL - MaxWork - (age + 1)
    BY <1>0, <2>1, TimingAssumption DEF Whereabouts
  <2> QED
    BY <1>0, <2>2, <2>3, <2>4 DEF Reported, Whereabouts
<1> QED
  BY <1>1, <1>2, <1>3, <1>4 DEF Whereabouts

LEMMA OrderOK ==
    ASSUME RoomForATrip, Whereabouts, Order
    PROVE  Whereabouts'
<1>1. Nowhere
  BY NotDueOnTheWay DEF Order
<1>2. waiting' = <<0>> /\ working' = -1 /\ done' = <<>>
  BY <1>1 DEF Order, Nowhere
<1>3. until' \in Int /\ until' >= Interval - Jitter - 0
  BY ScheduleNextOK, TimingAssumption DEF Order
<1>4. 0 \in 0..TTL
  BY TimingAssumption
<1> QED
  BY <1>2, <1>3, <1>4 DEF Whereabouts, InQueue

LEMMA AcceptOK ==
    ASSUME Whereabouts, Accept
    PROVE  Whereabouts'
<1>1. PICK age \in 0..TTL :
         /\ waiting = <<age>> /\ working = -1 /\ done = <<>>
         /\ until >= Interval - Jitter - age
  BY DEF Accept, Whereabouts, Nowhere, InQueue, AtWork, Reported
<1>2. waiting' = <<>> /\ working' = 0 /\ done' = <<>> /\ until' = until
  BY <1>1 DEF Accept
<1>3. until' >= Interval - Jitter - TTL - 0
  BY <1>1, <1>2, TimingAssumption DEF Whereabouts
<1>4. 0 \in 0..MaxWork /\ until' \in Int
  BY <1>2, TimingAssumption DEF Whereabouts
<1> QED
  BY <1>2, <1>3, <1>4 DEF Whereabouts, AtWork

LEMMA FinishOK ==
    ASSUME Whereabouts, Finish
    PROVE  Whereabouts'
<1>1. PICK age \in 0..MaxWork :
         /\ waiting = <<>> /\ working = age /\ done = <<>>
         /\ until >= Interval - Jitter - TTL - age
  BY DEF Finish, Whereabouts, Nowhere, InQueue, AtWork, Reported
<1>2. waiting' = <<>> /\ working' = -1 /\ done' = <<0>> /\ until' = until
  BY <1>1 DEF Finish
<1>3. until' >= Interval - Jitter - TTL - MaxWork - 0
  BY <1>1, <1>2, TimingAssumption DEF Whereabouts
<1>4. 0 \in 0..MaxDelay /\ until' \in Int
  BY <1>2, TimingAssumption DEF Whereabouts
<1> QED
  BY <1>2, <1>3, <1>4 DEF Whereabouts, Reported

\* The order is gone: done and handled, or lost.
LEMMA GoneOK ==
    ASSUME Whereabouts, HandleDone \/ Expire
    PROVE  Whereabouts'
<1>1. until' \in Int
  BY ScheduleNextOK DEF HandleDone, Expire, Whereabouts
<1>2. Nowhere'
  <2>1. CASE HandleDone
    <3>1. Reported
      BY <2>1 DEF HandleDone, Whereabouts, Nowhere, InQueue, AtWork
    <3> QED
      BY <2>1, <3>1 DEF HandleDone, Nowhere, Reported
  <2>2. CASE Expire
    <3>1. InQueue
      BY <2>2 DEF Expire, Whereabouts, Nowhere, AtWork, Reported
    <3> QED
      BY <2>2, <3>1 DEF Expire, Nowhere, InQueue
  <2> QED
    BY <2>1, <2>2
<1> QED
  BY <1>1, <1>2 DEF Whereabouts

-----------------------------------------------------------------------------
\* The invariant behind OneOrderAtATime: the order's place and age bound what
\* is left of the interval.
THEOREM AlwaysWhereabouts ==
    ASSUME RoomForATrip
    PROVE  Spec => []Whereabouts
<1>1. Init => Whereabouts
  BY DEF Init, Whereabouts, Nowhere
<1>2. Whereabouts /\ [Next]_vars => Whereabouts'
  <2> SUFFICES ASSUME Whereabouts, [Next]_vars
               PROVE  Whereabouts'
    OBVIOUS
  <2>1. CASE UNCHANGED vars
    BY <2>1 DEF vars, Whereabouts, Nowhere, InQueue, AtWork, Reported
  <2> QED
    BY <2>1, OrderOK, AcceptOK, FinishOK, GoneOK, TickOK DEF Next
<1> QED
  BY <1>1, <1>2, PTL DEF Spec

\* An attempt has never two orders at once if the longest trip of an order -
\* time in samm_orders, collection, report - fits in the shortest interval
\* schedule_next can draw.  docs/README.md promises it for every interval.
THEOREM OneOrder ==
    ASSUME RoomForATrip
    PROVE  Spec => []OneOrderAtATime
<1>1. Whereabouts => OneOrderAtATime
  <2> SUFFICES ASSUME Whereabouts
               PROVE  OneOrderAtATime
    OBVIOUS
  <2>1. Len(waiting) + Len(done) <= 1
        /\ (working # -1 => Len(waiting) + Len(done) = 0)
    BY DEF Whereabouts, Nowhere, InQueue, AtWork, Reported
  <2>2. Len(waiting) \in Nat /\ Len(done) \in Nat
    BY DEF Whereabouts, Nowhere, InQueue, AtWork, Reported
  <2> QED
    BY <2>1, <2>2 DEF OneOrderAtATime, Outstanding
<1>2. Spec => []Whereabouts
  BY AlwaysWhereabouts
<1> QED
  BY <1>1, <1>2, PTL
=============================================================================
