------------------------------- MODULE Broker -------------------------------
(* The two RabbitMQ queues the scheduler and the collectors share            *)
(* (samm_orders and samm_reports).  RabbitMQ is external to the repository:  *)
(* these operators say what the code relies on.  A queue is a FIFO sequence; *)
(* a message not taken within the queue's x-message-ttl is dropped from its  *)
(* head; a delivered message that is rejected, or whose channel closes       *)
(* before the ack, goes back to the head.                                    *)
(*                                                                           *)
(* The clock is abstracted: the head may expire at any time.  So that TLC    *)
(* sees finite queues, the oldest message of a queue that would grow beyond  *)
(* MaxQueue is taken to have just expired.                                   *)
EXTENDS Sequences, Naturals

CONSTANT MaxQueue       \* longest queue explored

ASSUME MaxQueueAssumption == MaxQueue \in Nat \ {0}

\* basic_publish: m joins the tail.
Publish(q, m) ==
    IF Len(q) < MaxQueue THEN Append(q, m) ELSE Append(Tail(q), m)

\* The queue after its oldest message expired, or was delivered.
DropOldest(q) == Tail(q)

\* basic_reject, or the loss of the channel a delivery was unacked on.
Requeue(q, m) == IF Len(q) < MaxQueue THEN <<m>> \o q ELSE q
=============================================================================
