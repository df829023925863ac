------------------------------- MODULE Broker -------------------------------
(***************************************************************************)
(* RabbitMQ as internal/queue declares and uses it: the main exchange and  *)
(* a channel's queue, the wait tiers whose TTL dead-letters a message back *)
(* to that queue, and the DLQ, which nothing consumes.                     *)
(*                                                                         *)
(* A message is <<notification, x-redeliveries>>; the rest of the envelope *)
(* is a copy of the row.  Queues are bags: with priorities, several        *)
(* consumers, prefetch and requeueing no order is promised.  The three     *)
(* tiers differ only in TTL and every TTL is "some time", so they are one  *)
(* bag.  The broker itself neither loses nor duplicates: queues are        *)
(* durable, messages persistent, publishes confirmed.                      *)
(***************************************************************************)
EXTENDS Naturals, Notification

CONSTANT MaxRedeliveries   \* worker.maxRedeliveries

ASSUME BrokerAssumption == MaxRedeliveries \in Nat

VARIABLES
  mainQ,   \* ready messages of the channel queue: how many of each
  waitQ,   \* messages in the wait tiers: how many of each
  dlq      \* notifications with a message in the DLQ

brokerVars == <<mainQ, waitQ, dlq>>

Message == Notifs \X (0..MaxRedeliveries)

BrokerTypeOK ==
  /\ mainQ \in [Message -> Nat]
  /\ waitQ \in [Message -> Nat]
  /\ dlq \subseteq Notifs

BrokerInit ==
  /\ mainQ = [m \in Message |-> 0]
  /\ waitQ = [m \in Message |-> 0]
  /\ dlq = {}

(* Publish to the main exchange; also what a nack with requeue, or a lost   *)
(* connection, does with an unacknowledged message.                         *)
Enqueue(m) == mainQ' = [mainQ EXCEPT ![m] = @ + 1]

Dequeue(m) ==
  /\ mainQ[m] > 0
  /\ mainQ' = [mainQ EXCEPT ![m] = @ - 1]

(* Mutation of PublishToWait: the wait queue's dead-letter routing key has  *)
(* no binding, the message bounces into the void.                           *)
BounceIntoVoid(m) == UNCHANGED waitQ

PublishToWait(m) == waitQ' = [waitQ EXCEPT ![m] = @ + 1]

(* A wait tier's TTL runs out: x-dead-letter-exchange routes the message,   *)
(* headers included, back to the channel queue.                             *)
WaitExpire(m) ==
  /\ waitQ[m] > 0
  /\ waitQ' = [waitQ EXCEPT ![m] = @ - 1]
  /\ Enqueue(m)
  /\ UNCHANGED dlq
=============================================================================
