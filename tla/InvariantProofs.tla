-------------------------- MODULE InvariantProofs ---------------------------
(***************************************************************************)
(* The upper layers of IInv, which completes the proof that it is          *)
(* inductive, the refinement of Lifecycle, and the ways a notification can *)
(* be lost.                                                                *)
(***************************************************************************)
EXTENDS DeliveryProofs

USE DEF rowVars, storeVars, brokerVars, deliveryVars, workerVars, observedVars, outboxVars

-----------------------------------------------------------------------------
(* Layer 6: a row that waits for pickup is carried by an outbox row, a      *)
(* message or a worker, or its loss is on record.  Four kinds of carrier,   *)
(* one lemma for each that says when it outlives a step.                    *)

(* The carriers *)

Kept(n) == InOutbox(n) \/ InQueue(n) \/ InHand(n) \/ OnRecord(n)

(* What is on record stays on record. *)
RecordsGrow ==
  /\ dlq \subseteq dlq' /\ deadLetters \subseteq deadLetters' /\ deferred \subseteq deferred'
  /\ dropped \subseteq dropped' /\ forgotten \subseteq forgotten'

(* No message of n leaves the queues. *)
QueuesGrow(n) ==
  \A m \in Message : m[1] = n => mainQ'[m] >= mainQ[m] /\ waitQ'[m] >= waitQ[m]

(* Worker w has what it had. *)
WorkerStays(w) ==
  pc'[w] = pc[w] /\ job'[w] = job[w] /\ ret'[w] = ret[w] /\ unacked'[w] = unacked[w]

(* No outbox row of n is marked published or has its message out. *)
OutboxStays(n) ==
  \A i \in OutboxIds :
    outbox[i].notif = n /\ ~outbox[i].published /\ ~HandedOver(i) =>
      outbox'[i].notif = n /\ ~outbox'[i].published /\ ~HandedOver(i)'

(* An outbox row carries on unless it is marked published or its message is *)
(* out.                                                                     *)
LEMMA OutboxCarriesOn ==
  ASSUME NEW n \in Notifs, InOutbox(n),
         OutboxStays(n)
  PROVE  InOutbox(n)'
BY NotificationAssumption DEF InOutbox, Unpublished, OutboxStays

(* A message carries on while no message of its notification is taken. *)
LEMMA QueueCarriesOn ==
  ASSUME BrokerTypeOK, BrokerTypeOK', NEW n \in Notifs, InQueue(n), QueuesGrow(n)
  PROVE  InQueue(n)'
<1>1. PICK m \in Message : m[1] = n /\ mainQ[m] + waitQ[m] > 0
  BY DEF InQueue
<1>2. /\ mainQ[m] \in Nat /\ waitQ[m] \in Nat /\ mainQ'[m] \in Nat /\ waitQ'[m] \in Nat
      /\ mainQ'[m] >= mainQ[m] /\ waitQ'[m] >= waitQ[m]
  BY <1>1 DEF BrokerTypeOK, QueuesGrow
<1>3. mainQ'[m] + waitQ'[m] > 0
  BY <1>1, <1>2
<1> QED
  BY <1>1, <1>3 DEF InQueue

(* One message of n in a queue is enough. *)
LEMMA QueueCarries ==
  ASSUME BrokerTypeOK', NEW m \in Message, mainQ'[m] > 0 \/ waitQ'[m] > 0
  PROVE  InQueue(m[1])'
<1>1. mainQ'[m] \in Nat /\ waitQ'[m] \in Nat
  BY DEF BrokerTypeOK
<1>2. mainQ'[m] + waitQ'[m] > 0
  BY <1>1
<1> QED
  BY <1>2 DEF InQueue

(* Queues to which a message is added, or none, only grow. *)
LEMMA PublishingGrows ==
  ASSUME BrokerTypeOK, NEW x, NEW y,
         Enqueue(x) \/ UNCHANGED mainQ, PublishToWait(y) \/ UNCHANGED waitQ
  PROVE  /\ \A n \in Notifs : QueuesGrow(n)
         /\ x \in Message /\ Enqueue(x) => mainQ'[x] > 0
         /\ y \in Message /\ PublishToWait(y) => waitQ'[y] > 0
<1>1. \A m \in Message : /\ mainQ'[m] >= mainQ[m]
                         /\ m = x /\ Enqueue(x) => mainQ'[m] > 0
  BY DEF BrokerTypeOK, Enqueue
<1>2. \A m \in Message : /\ waitQ'[m] >= waitQ[m]
                         /\ m = y /\ PublishToWait(y) => waitQ'[m] > 0
  BY DEF BrokerTypeOK, PublishToWait
<1> QED
  BY <1>1, <1>2 DEF QueuesGrow

(* A worker that has what it had carries what it carried. *)
LEMMA HandCarriesOn ==
  ASSUME NEW w \in Workers, WorkerStays(w)
  PROVE  WillHandOn(w)' = WillHandOn(w) /\ job'[w] = job[w]
BY DEF WorkerStays, WillHandOn

(* A row is kept while its carriers carry on; the workers in W have to be   *)
(* looked at.                                                               *)
LEMMA KeptUnless ==
  ASSUME TypeInv, TypeInv', NEW n \in Notifs, NEW W \in SUBSET Workers, Kept(n),
         OutboxStays(n), QueuesGrow(n), RecordsGrow,
         \A v \in Workers \ W : WorkerStays(v)
  PROVE  Kept(n)' \/ \E w \in W : job[w] = n /\ WillHandOn(w)
<1>t. BrokerTypeOK /\ BrokerTypeOK'
  BY DEF TypeInv, TypeOK
<1>1. CASE InOutbox(n)
  BY <1>1, OutboxCarriesOn DEF Kept
<1>2. CASE InQueue(n)
  BY <1>t, <1>2, QueueCarriesOn DEF Kept
<1>3. CASE InHand(n)
  <2>1. PICK v \in Workers : job[v] = n /\ WillHandOn(v)
    BY <1>3 DEF InHand
  <2>2. CASE v \notin W
    BY Zenon, <2>1, <2>2, HandCarriesOn DEF Kept, InHand
  <2> QED
    BY <2>1, <2>2
<1>4. CASE OnRecord(n)
  BY <1>4 DEF OnRecord, RecordsGrow, Kept
<1> QED
  BY <1>1, <1>2, <1>3, <1>4 DEF Kept

-----------------------------------------------------------------------------
(* The calls of a handler *)

(* A handler's call adds messages and records, and moves its own worker. *)
LEMMA HandlerAdds ==
  ASSUME TypeInv, NEW w \in Workers, HandlerStep(w), UNCHANGED outboxVars
  PROVE  /\ RecordsGrow
         /\ \A n \in Notifs : QueuesGrow(n)
         /\ \A v \in Workers \ {w} : WorkerStays(v)
         /\ UNCHANGED outbox
<1>t. BrokerTypeOK /\ ControlOK
  BY TypeParts
<1>1. RecordsGrow
  BY Zenon DEF RecordsGrow, HandlerStep, CASHit, CASMiss, CASError, AcquireLock, LockHeld, SetNXError,
     DeferToHolder, TakeAllowed, TakeThrottled, TakeError, StartCall, BreakerOpen, SendCancelled,
     CallSucceeds, CallFailsRetryable, CallFailsTerminal, RecordAttempt, RevertForRetry,
     routeToRetryTier, TerminalMark, TerminalInsert, InsertDeadLetter, MarkSentOk, MarkSentError,
     UndoAfterMarkSent, Unlock, requeueViaWaitTier, DropsIfCut, Settle
<1>2. \A n \in Notifs : QueuesGrow(n)
  <2>1. CASE UNCHANGED brokerVars \/ routeToRetryTier(w)
    BY <1>t, <2>1, PublishingGrows DEF routeToRetryTier
  <2>2. CASE requeueViaWaitTier(w) \/ Settle(w)
    BY Zenon, <1>t, <2>2, PublishingGrows DEF requeueViaWaitTier, Settle
  <2>3. UNCHANGED brokerVars \/ routeToRetryTier(w) \/ requeueViaWaitTier(w) \/ Settle(w)
    BY Zenon DEF HandlerStep, CASHit, CASMiss, CASError, AcquireLock, LockHeld, SetNXError,
       DeferToHolder, TakeAllowed, TakeThrottled, TakeError, StartCall, BreakerOpen,
       SendCancelled, CallSucceeds, CallFailsRetryable, CallFailsTerminal, RecordAttempt,
       RevertForRetry, TerminalMark, TerminalInsert, MarkSentOk, MarkSentError,
       UndoAfterMarkSent, Unlock
  <2> QED
    BY <2>1, <2>2, <2>3
<1>3. \A v \in Workers \ {w} : WorkerStays(v)
  <2>1. CASE Control(w)
    BY <1>t, <2>1 DEF Control, ControlOK, WorkerStays
  <2>2. CASE Settle(w)
    BY <1>t, <2>2 DEF Settle, Reset, ControlOK, WorkerStays
  <2> QED
    BY <2>1, <2>2, HandlerControl
<1> QED
  BY <1>1, <1>2, <1>3, HandlerTables

(* After a handler's call a row waiting for pickup is kept, if its worker   *)
(* still hands on, if it did not before and left the row waiting, or if it  *)
(* put the notification somewhere.                                          *)
LEMMA HandlerKeeps ==
  ASSUME TypeInv, TypeInv', LossInv, NEW w \in Workers, HandlerStep(w), UNCHANGED outboxVars,
         NEW n \in Notifs, Pickable(n)',
         job[w] = n =>
           \/ WillHandOn(w)' /\ job'[w] = n
           \/ ~WillHandOn(w) /\ Pickable(n)
           \/ InQueue(n)' \/ OnRecord(n)'
  PROVE  Kept(n)'
<1>a. /\ RecordsGrow /\ QueuesGrow(n) /\ UNCHANGED outbox
      /\ \A v \in Workers \ {w} : WorkerStays(v)
  BY Zenon, HandlerAdds
<1>o. OutboxStays(n)
  BY Zenon, <1>a DEF OutboxStays, HandedOver
<1>k. ASSUME Pickable(n)
      PROVE  Kept(n)' \/ (job[w] = n /\ WillHandOn(w))
  <2>1. Kept(n)
    BY Zenon, <1>k DEF LossInv, Kept
  <2> QED
    BY Zenon, <1>a, <1>o, <2>1, {w} \in SUBSET Workers, KeptUnless
<1>1. CASE job[w] = n
  BY Zenon, <1>1, <1>k DEF Kept, InHand
<1>2. CASE job[w] # n
  <2>1. status'[n] = status[n]
    <3>1. CASE Settle(w)
      BY Zenon, <3>1 DEF Settle
    <3>2. CASE ~Settle(w)
      BY <1>2, <3>2, HandlerLocal DEF RowStays
    <3> QED
      BY Zenon, <3>1, <3>2
  <2> QED
    BY <1>2, <1>k, <2>1 DEF Pickable
<1> QED
  BY Zenon, <1>1, <1>2

(* The message a bounced delivery is published again as. *)
LEMMA NextDelivery ==
  ASSUME NEW n \in Notifs, NEW r \in 0..MaxRedeliveries, r < MaxRedeliveries
  PROVE  <<n, r + 1>> \in Message /\ <<n, r + 1>>[1] = n
  BY SMT, BrokerAssumption DEF Message

(* What a handler's call leaves of its own row's carriers. *)
LEMMA LossHandler ==
  ASSUME TypeInv, TypeInv', LossInv, NEW w \in Workers, HandlerStep(w), UNCHANGED outboxVars,
         NEW n \in Notifs, Pickable(n)'
  PROVE  Kept(n)'
<1>t. /\ pc \in [Workers -> Labels] /\ ret \in [Workers -> {"nil", "err", "terminal"}]
      /\ RowTypeOK /\ BrokerTypeOK /\ BrokerTypeOK' /\ redel[w] \in 0..MaxRedeliveries
      /\ pc' \in [Workers -> Labels] /\ ret' \in [Workers -> {"nil", "err", "terminal"}]
  BY TypeParts, TypePartsNext DEF ControlOK
<1> SUFFICES ASSUME job[w] = n
             PROVE  \/ WillHandOn(w)' /\ job'[w] = n
                    \/ ~WillHandOn(w) /\ Pickable(n)
                    \/ InQueue(n)' \/ OnRecord(n)'
  BY Zenon, HandlerKeeps
<1>s. CASE Settle(w)
  <2>1. CASE WillHandOn(w)
    <3>1. unacked[w] /\ (ret[w] = "err" \/ ret[w] = "terminal")
      BY Zenon, <1>s, <2>1 DEF Settle, WillHandOn
    <3>2. CASE ret[w] = "err"
      <4>1. <<n, redel[w]>> \in Message /\ <<n, redel[w]>>[1] = n
        BY <1>t DEF Message
      <4>2. Enqueue(<<n, redel[w]>>) /\ UNCHANGED waitQ
        BY Zenon, <1>s, <3>1, <3>2 DEF Settle
      <4> QED
        BY Zenon, <1>t, <4>1, <4>2, PublishingGrows, QueueCarries
    <3>3. CASE ret[w] = "terminal"
      BY Zenon, <1>s, <3>1, <3>3 DEF Settle, OnRecord
    <3> QED
      BY <3>1, <3>2, <3>3
  <2>2. CASE ~WillHandOn(w)
    BY Zenon, <1>s, <2>2 DEF Settle, Pickable
  <2> QED
    BY Zenon, <2>1, <2>2
<1> SUFFICES ASSUME ~Settle(w)
             PROVE  \/ WillHandOn(w)' /\ job'[w] = n
                    \/ ~WillHandOn(w) /\ Pickable(n)
                    \/ InQueue(n)' \/ OnRecord(n)'
  BY Zenon, <1>s
<1>j. job'[w] = n
  BY HandlerLocal
<1> USE DEF Goto, Returns, WillHandOn
<1>1. CASE CASHit(w)
  <2>1. status'[n] = "sending"
    BY Zenon, <1>t, <1>1, RowQueryLocal DEF CASHit, RowQuery
  <2> QED
    BY <2>1 DEF Pickable
<1>2. CASE CASMiss(w)
  BY Zenon, <1>2 DEF CASMiss, Pickable
<1>3. CASE CASError(w) \/ SetNXError(w)
  BY Zenon, <1>t, <1>j, <1>3 DEF CASError, SetNXError
<1>4. CASE AcquireLock(w) \/ LockHeld(w)
  BY Zenon, <1>t, <1>4 DEF AcquireLock, LockHeld, Pickable
<1>5. CASE DeferToHolder(w)
  BY Zenon, <1>5 DEF DeferToHolder, OnRecord
<1>6. CASE TakeAllowed(w) \/ TakeThrottled(w)
  BY Zenon, <1>t, <1>6 DEF TakeAllowed, TakeThrottled, Pickable
<1>7. CASE TakeError(w)
  BY Zenon, <1>t, <1>j, <1>7 DEF TakeError
<1>8. CASE StartCall(w) \/ BreakerOpen(w) \/ SendCancelled(w)
  BY Zenon, <1>t, <1>8 DEF StartCall, BreakerOpen, SendCancelled, Pickable
<1>9. CASE CallSucceeds(w) \/ CallFailsRetryable(w) \/ CallFailsTerminal(w) \/ RecordAttempt(w)
  BY Zenon, <1>t, <1>9 DEF CallSucceeds, CallFailsRetryable, CallFailsTerminal, RecordAttempt, Pickable
<1>10. CASE RevertForRetry(w)
  BY Zenon, <1>t, <1>j, <1>10 DEF RevertForRetry
<1>11. CASE routeToRetryTier(w)
  <2>1. <<n, 0>> \in Message /\ <<n, 0>>[1] = n
    BY BrokerAssumption DEF Message
  <2>2. CASE PublishToWait(<<n, 0>>)
    BY Zenon, <1>t, <1>11, <2>1, <2>2, PublishingGrows, QueueCarries DEF routeToRetryTier
  <2>3. CASE ~PublishToWait(<<n, 0>>)
    BY Zenon, <1>t, <1>j, <1>11, <2>3 DEF routeToRetryTier
  <2> QED
    BY Zenon, <2>2, <2>3
<1>12. CASE TerminalMark(w)
  <2>1. pc[w] = "markDead" /\ (MarkDeadLetter(n) \/ UNCHANGED rowVars)
    BY <1>12 DEF TerminalMark
  <2>2. status'[n] = status[n] \/ status'[n] = "dead_letter"
    BY Zenon, <1>t, <2>1, RowQueryLocal DEF RowQuery, RowStays
  <2> QED
    BY Zenon, <2>1, <2>2 DEF Pickable
<1>13. CASE TerminalInsert(w)
  BY Zenon, <1>13 DEF TerminalInsert, Pickable
<1>14. CASE MarkSentOk(w)
  <2>1. status'[n] = "sent"
    BY Zenon, <1>t, <1>14, RowQueryLocal DEF MarkSentOk, RowQuery
  <2> QED
    BY Zenon, <2>1 DEF Pickable
<1>15. CASE MarkSentError(w) \/ UndoAfterMarkSent(w)
  BY Zenon, <1>t, <1>j, <1>15 DEF MarkSentError, UndoAfterMarkSent
<1>16. CASE Unlock(w)
  BY Zenon, <1>t, <1>j, <1>16 DEF Unlock, Pickable
<1>17. CASE requeueViaWaitTier(w)
  <2>0. pc[w] = "bounce" /\ pc'[w] = "settle" /\ redel[w] < MaxRedeliveries /\ ret[w] = "err"
    BY Zenon, <1>t, <1>17 DEF requeueViaWaitTier, LossInv
  <2>1. <<n, redel[w] + 1>> \in Message /\ <<n, redel[w] + 1>>[1] = n
    BY Zenon, <1>t, <2>0, NextDelivery
  <2>2. CASE PublishToWait(<<n, redel[w] + 1>>)
    BY Zenon, <1>t, <1>17, <2>1, <2>2, PublishingGrows, QueueCarries DEF requeueViaWaitTier
  <2>3. CASE ~PublishToWait(<<n, redel[w] + 1>>)
    <3>1. ret' = ret /\ DropsIfCut(w) /\ unacked' = unacked
      BY Zenon, <1>17, <2>3 DEF requeueViaWaitTier
    <3>2. CASE unacked[w]
      BY Zenon, <1>j, <2>0, <3>1, <3>2
    <3>3. CASE ~unacked[w]
      BY Zenon, <3>1, <3>3 DEF DropsIfCut, OnRecord
    <3> QED
      BY Zenon, <3>2, <3>3
  <2> QED
    BY Zenon, <2>2, <2>3
<1> QED
  BY Zenon, <1>1, <1>2, <1>3, <1>4, <1>5, <1>6, <1>7, <1>8, <1>9, <1>10, <1>11, <1>12, <1>13, <1>14,
     <1>15, <1>16, <1>17 DEF HandlerStep

-----------------------------------------------------------------------------
(* The other steps of workers *)

(* A delivery goes from the queue into a worker's hands, and back when the  *)
(* worker dies or its connection drops; a worker that has no delivery to    *)
(* give back is on record.                                                  *)
LEMMA LossWorker ==
  ASSUME TypeInv, TypeInv', LossInv, WorkerNext, UNCHANGED outboxVars,
         NEW n \in Notifs, Pickable(n)'
  PROVE  Kept(n)'
<1>t. /\ BrokerTypeOK /\ BrokerTypeOK' /\ ControlOK /\ ControlOK'
  BY TypeParts, TypePartsNext
<1>k. Pickable(n) => Kept(n)
  BY DEF LossInv, Kept
<1>o. UNCHANGED outbox => OutboxStays(n)
  BY DEF OutboxStays, HandedOver
<1>1. ASSUME NEW w \in Workers, HandlerStep(w)
      PROVE  Kept(n)'
  BY <1>1, LossHandler
<1>2. ASSUME NEW w \in Workers, Deliver(w)
      PROVE  Kept(n)'
  <2>1. PICK m \in Message : Deliver(w)!(m)
    BY Zenon, <1>2 DEF Deliver
  <2>2. job'[w] = m[1] /\ unacked'[w] = TRUE /\ pc[w] = "idle"
        /\ \/ pc'[w] = "cas"
           \/ pc'[w] = "settle" /\ ret'[w] = "terminal"
    BY <1>t, <2>1 DEF ControlOK, Goto, Returns
  <2>3. CASE m[1] = n
    BY Zenon, <2>2, <2>3 DEF Kept, InHand, WillHandOn
  <2>4. CASE m[1] # n
    <3>1. QueuesGrow(n)
      BY <1>t, <2>1, <2>4 DEF QueuesGrow, Dequeue, BrokerTypeOK
    <3>2. \A v \in Workers \ {w} : WorkerStays(v)
      BY <1>t, <2>1 DEF ControlOK, Goto, Returns, WorkerStays
    <3>3. RecordsGrow /\ OutboxStays(n) /\ Kept(n)
      BY <1>o, <1>k, <2>1 DEF RecordsGrow, Pickable
    <3>4. Kept(n)' \/ \E v \in {w} : job[v] = n /\ WillHandOn(v)
      BY Zenon, <3>1, <3>2, <3>3, {w} \in SUBSET Workers, KeptUnless
    <3> QED
      BY Zenon, <2>2, <3>4 DEF WillHandOn
  <2> QED
    BY <2>3, <2>4
<1>3. ASSUME NEW w \in Workers, WorkerCrash(w) \/ ConnectionLost(w)
      PROVE  Kept(n)'
  <2> DEFINE m == <<job[w], redel[w]>>
  <2>1. m \in Message /\ m[1] = job[w]
    BY <1>t, <1>3 DEF WorkerCrash, ConnectionLost, ControlOK, HasJob, Message
  <2>2. unacked[w] => Enqueue(m)
    BY Zenon, <1>3 DEF WorkerCrash, ConnectionLost
  <2>3. (Enqueue(m) \/ UNCHANGED mainQ) /\ UNCHANGED waitQ
    BY Zenon, <1>3 DEF WorkerCrash, ConnectionLost
  <2> HIDE DEF m
  <2>4. QueuesGrow(n)
    BY Zenon, <1>t, <2>3, PublishingGrows
  <2>5. \A v \in Workers \ {w} : WorkerStays(v)
    BY <1>t, <1>3 DEF ControlOK, WorkerCrash, ConnectionLost, Reset, WorkerStays
  <2>6. RecordsGrow /\ OutboxStays(n) /\ Kept(n)
    BY Zenon, <1>o, <1>k, <1>3 DEF RecordsGrow, Pickable, WorkerCrash, ConnectionLost, DropsIfCut
  <2>7. ASSUME job[w] = n, WillHandOn(w)
        PROVE  Kept(n)'
    <3>1. CASE unacked[w]
      <4>1. mainQ'[m] > 0
        BY Zenon, <1>t, <2>1, <2>2, <2>3, <3>1, PublishingGrows
      <4> QED
        BY Zenon, <1>t, <2>1, <2>7, <4>1, QueueCarries DEF Kept
    <3>2. CASE ~unacked[w]
      BY Zenon, <1>3, <2>7, <3>2 DEF WorkerCrash, ConnectionLost, DropsIfCut, Kept, OnRecord
    <3> QED
      BY <3>1, <3>2
  <2> QED
    BY Zenon, <2>4, <2>5, <2>6, <2>7, {w} \in SUBSET Workers, KeptUnless
<1>4. ASSUME UNCHANGED <<pc, job, ret, unacked, brokerVars, status, deadLetters, outbox,
                         observedVars>>
      PROVE  Kept(n)'
  <2>1. RecordsGrow /\ OutboxStays(n) /\ Kept(n) /\ \A v \in Workers : WorkerStays(v)
    BY Zenon, <1>o, <1>k, <1>4 DEF RecordsGrow, Pickable, WorkerStays
  <2>2. QueuesGrow(n)
    BY Zenon, <1>t, <1>4, PublishingGrows
  <2> QED
    BY Zenon, <2>1, <2>2, KeptUnless, {} \in SUBSET Workers
<1>5. ASSUME NEW w \in Workers, Shutdown(w)
      PROVE  Kept(n)'
  BY <1>4, <1>5 DEF Shutdown
<1>6. CASE Tick
  BY <1>4, <1>6 DEF Tick
<1> QED
  BY Zenon, <1>1, <1>2, <1>3, <1>5, <1>6 DEF WorkerNext

-----------------------------------------------------------------------------
(* Dispatchers *)

(* Rows keep their notification and whether they are published. *)
FieldsStay(S) ==
  \A i \in S : outbox'[i].notif = outbox[i].notif /\ outbox'[i].published = outbox[i].published

(* Only MarkOutboxPublished changes one of the two, and only in its row. *)
LEMMA OutboxFields ==
  ASSUME OutboxTableOK, NEW i \in OutboxIds
  PROVE  /\ MarkOutboxPublished(i) => FieldsStay(OutboxIds \ {i})
         /\ MarkOutboxFailed(i) => FieldsStay(OutboxIds)
         /\ outbox' = [outbox EXCEPT ![i].claimed = FALSE] => FieldsStay(OutboxIds)
<1> USE DEF OutboxTableOK, FieldsStay
<1>0. outbox[i] \in OutboxRow
  OBVIOUS
<1>1. MarkOutboxPublished(i) => FieldsStay(OutboxIds \ {i})
  BY DEF MarkOutboxPublished
<1>a. ASSUME NEW r, r.notif = outbox[i].notif, r.published = outbox[i].published,
             outbox' = [outbox EXCEPT ![i] = r]
      PROVE  FieldsStay(OutboxIds)
  BY <1>a
<1>2. ASSUME MarkOutboxFailed(i)
      PROVE  FieldsStay(OutboxIds)
  <2> DEFINE r == [FreeRow EXCEPT !.notif = outbox[i].notif,
                                  !.attempts = outbox[i].attempts + 1]
  <2>1. CASE outbox[i].published
    BY <1>2, <2>1 DEF MarkOutboxFailed
  <2>2. CASE ~outbox[i].published
    <3>1. r.notif = outbox[i].notif /\ r.published = FALSE
      BY DEF FreeRow
    <3>2. outbox[i].published = FALSE
      BY <1>0, <2>2, Zenon DEF OutboxRow
    <3>3. outbox' = [outbox EXCEPT ![i] = r]
      BY <1>2, <2>2 DEF MarkOutboxFailed
    <3> HIDE DEF r
    <3> QED
      BY Zenon, <1>a, <3>1, <3>2, <3>3
  <2> QED
    BY <2>1, <2>2
<1>3. ASSUME outbox' = [outbox EXCEPT ![i].claimed = FALSE]
      PROVE  FieldsStay(OutboxIds)
  <2> DEFINE r == [outbox[i] EXCEPT !.claimed = FALSE]
  <2>1. r.notif = outbox[i].notif /\ r.published = outbox[i].published
    BY <1>0 DEF OutboxRow
  <2>2. outbox' = [outbox EXCEPT ![i] = r]
    BY <1>3
  <2> HIDE DEF r
  <2> QED
    BY <1>a, <2>1, <2>2
<1> QED
  BY <1>1, <1>2, <1>3

(* ClaimOutboxBatch keeps both in every row. *)
LEMMA ClaimFields ==
  ASSUME OutboxTableOK, NEW d, ClaimOutboxBatch(d)
  PROVE  FieldsStay(OutboxIds)
<1>1. PICK S : outbox' = [i \in OutboxIds |-> IF i \in S
                                              THEN [outbox[i] EXCEPT !.claimed = TRUE]
                                              ELSE outbox[i]]
  BY DEF ClaimOutboxBatch
<1>2. \A r \in OutboxRow : /\ [r EXCEPT !.claimed = TRUE].notif = r.notif
                           /\ [r EXCEPT !.claimed = TRUE].published = r.published
  BY DEF OutboxRow
<1> QED
  BY <1>1, <1>2 DEF FieldsStay, OutboxTableOK

(* Dispatchers make no row wait for pickup that did not. *)
LEMMA OutboxPickable ==
  ASSUME TypeInv, OutboxNext, NEW n \in Notifs, Pickable(n)'
  PROVE  Pickable(n)
<1>t. RowTypeOK
  BY TypeParts
<1>1. CASE UNCHANGED rowVars
  BY <1>1 DEF Pickable
<1>2. ASSUME NEW k \in Notifs, MarkQueued(k) \/ MarkDeadLetter(k)
      PROVE  Pickable(n)
  <2>1. RowQuery(k)
    BY <1>2 DEF RowQuery
  <2>2. RowStays(n) \/ status[n] = "pending" \/ status'[n] = "dead_letter"
    BY Zenon, <1>t, <1>2, <2>1, RowQueryLocal
  <2> QED
    BY <2>2 DEF RowStays, Pickable
<1> QED
  BY <1>1, <1>2, OutboxTables

(* A dispatcher's row stays in the outbox until its message is in the       *)
(* queue, or until the dispatcher gives it up.                              *)
LEMMA LossOutbox ==
  ASSUME TypeInv, TypeInv', LossInv, OutboxNext, UNCHANGED <<workerVars, lockTTL, observedVars>>,
         NEW n \in Notifs, Pickable(n)'
  PROVE  Kept(n)'
<1>t. BrokerTypeOK /\ BrokerTypeOK' /\ OutboxTableOK /\ DispatchersOK
  BY TypeParts, TypePartsNext
<1>k. Kept(n) /\ Pickable(n)
  BY Zenon, OutboxPickable DEF LossInv, Kept
<1>w. \A v \in Workers : WorkerStays(v)
  BY Zenon DEF WorkerStays
<1>u. ASSUME OutboxStays(n), QueuesGrow(n), RecordsGrow
      PROVE  Kept(n)'
  BY Zenon, <1>u, <1>k, <1>w, {} \in SUBSET Workers, KeptUnless
<1>q. UNCHANGED brokerVars => QueuesGrow(n)
  BY Zenon, <1>t, PublishingGrows
<1>r. UNCHANGED <<dlq, deadLetters, forgotten>> => RecordsGrow
  BY DEF RecordsGrow
<1>h. ASSUME NEW d \in Dispatchers, dpc'[d] # "mark",
             \A e \in Dispatchers \ {d} : dpc'[e] = dpc[e] /\ cur'[e] = cur[e]
      PROVE  \A i \in OutboxIds : HandedOver(i)' => HandedOver(i)
  BY Zenon, <1>h DEF HandedOver
<1>s. ASSUME FieldsStay(OutboxIds), \A i \in OutboxIds : HandedOver(i)' => HandedOver(i)
      PROVE  OutboxStays(n)
  BY <1>s DEF OutboxStays, FieldsStay
<1>f. UNCHANGED outbox => FieldsStay(OutboxIds)
  BY DEF FieldsStay
<1>c. ASSUME NEW d \in Dispatchers, dpc[d] # "ready"
      PROVE  cur[d][1] \in OutboxIds
  BY <1>t, <1>c DEF DispatchersOK, HasRow, InsertedRow
<1>1. ASSUME NEW d \in Dispatchers, ClaimOutboxBatch(d)
      PROVE  Kept(n)'
  <2>1. FieldsStay(OutboxIds)
    BY <1>t, <1>1, ClaimFields
  <2>2. OutboxStays(n)
    BY <1>1, <1>s, <2>1 DEF ClaimOutboxBatch, HandedOver
  <2> QED
    BY Zenon, <1>1, <1>u, <1>q, <1>r, <2>2 DEF ClaimOutboxBatch
<1>2. ASSUME NEW i \in OutboxIds, ClaimLapse(i)
      PROVE  Kept(n)'
  <2>1. FieldsStay(OutboxIds)
    BY Zenon, <1>t, <1>2, OutboxFields DEF ClaimLapse
  <2>2. OutboxStays(n)
    BY Zenon, <1>2, <1>s, <2>1 DEF ClaimLapse, HandedOver
  <2> QED
    BY Zenon, <1>2, <1>u, <1>q, <1>r, <2>2 DEF ClaimLapse
<1>3. ASSUME NEW d \in Dispatchers, PublishRow(d)
      PROVE  Kept(n)'
  <2>1. PICK c \in batch[d] : PublishRow(d)!(c)
    BY Zenon, <1>3 DEF PublishRow
  <2> DEFINE m == <<outbox[c[1]].notif, 0>>
  <2>2. c[1] \in OutboxIds /\ m \in Message /\ m[1] = outbox[c[1]].notif
    BY <1>t, BrokerAssumption DEF DispatchersOK, HasRow, InsertedRow, Message
  <2>3. (Enqueue(m) \/ UNCHANGED mainQ) /\ UNCHANGED waitQ
    BY Zenon, <2>1
  <2>4. \/ Enqueue(m)
        \/ dpc'[d] # "mark"
    BY Zenon, <1>t, <2>1 DEF DGoto, DispatchersOK, OutboxTypeOK
  <2>5. /\ \A e \in Dispatchers \ {d} : dpc'[e] = dpc[e] /\ cur'[e] = cur[e]
        /\ cur'[d] = c
    BY Zenon, <1>t, <2>1 DEF DGoto, DispatchersOK, OutboxTypeOK
  <2> HIDE DEF m
  <2>6. QueuesGrow(n) /\ RecordsGrow
    BY Zenon, <1>t, <1>r, <2>1, <2>3, PublishingGrows
  <2>7. CASE Enqueue(m) /\ m[1] = n
    <3>1. mainQ'[m] > 0
      BY Zenon, <1>t, <2>2, <2>3, <2>7, PublishingGrows
    <3> QED
      BY Zenon, <1>t, <2>2, <2>7, <3>1, QueueCarries DEF Kept
  <2>8. CASE dpc'[d] # "mark" \/ m[1] # n
    <3>1. OutboxStays(n)
      BY Zenon, <2>1, <2>2, <2>5, <2>8 DEF OutboxStays, HandedOver
    <3> QED
      BY Zenon, <1>u, <2>6, <3>1
  <2> QED
    BY <2>4, <2>7, <2>8
<1>4. ASSUME NEW d \in Dispatchers, MarkPublished(d)
      PROVE  Kept(n)'
  <2>1. dpc[d] = "mark" /\ dpc'[d] # "mark" /\ cur[d][1] \in OutboxIds
    BY Zenon, <1>t, <1>c, <1>4 DEF MarkPublished, DGoto, DDone, DispatchersOK, OutboxTypeOK
  <2>2. \A e \in Dispatchers \ {d} : dpc'[e] = dpc[e] /\ cur'[e] = cur[e]
    BY <1>t, <1>4 DEF MarkPublished, DGoto, DDone, DispatchersOK, OutboxTypeOK
  <2>3. FieldsStay(OutboxIds \ {cur[d][1]})
    BY Zenon, <1>t, <1>4, <2>1, OutboxFields DEF MarkPublished, FieldsStay
  <2>4. HandedOver(cur[d][1]) /\ \A i \in OutboxIds : HandedOver(i)' => HandedOver(i)
    BY <2>1, <2>2 DEF HandedOver
  <2>5. OutboxStays(n)
    BY <2>3, <2>4 DEF OutboxStays, FieldsStay
  <2> QED
    BY Zenon, <1>4, <1>u, <1>q, <1>r, <2>5 DEF MarkPublished
<1>5. ASSUME NEW d \in Dispatchers,
             \/ MarkRowQueued(d) \/ MarkRowFailed(d) \/ GiveUp(d) \/ GiveUpInsert(d)
             \/ DispatcherCrash(d)
      PROVE  Kept(n)'
  <2>1. /\ dpc'[d] # "mark"
        /\ \A e \in Dispatchers \ {d} : dpc'[e] = dpc[e] /\ cur'[e] = cur[e]
    BY Zenon, <1>t, <1>5 DEF MarkRowQueued, MarkRowFailed, GiveUp, GiveUpInsert, DispatcherCrash, DGoto,
       DDone, DispatchersOK, OutboxTypeOK
  <2>2. MarkRowFailed(d) => dpc[d] # "ready"
    BY DEF MarkRowFailed, DGoto, DDone
  <2>3. FieldsStay(OutboxIds)
    BY Zenon, <1>t, <1>c, <1>f, <1>5, <2>2, OutboxFields
       DEF MarkRowQueued, MarkRowFailed, GiveUp, GiveUpInsert, DispatcherCrash
  <2>4. RecordsGrow
    BY <1>5 DEF RecordsGrow, MarkRowQueued, MarkRowFailed, GiveUp, GiveUpInsert, DispatcherCrash,
       InsertDeadLetter
  <2> QED
    BY Zenon, <1>5, <1>h, <1>s, <1>u, <1>q, <2>1, <2>3, <2>4
       DEF MarkRowQueued, MarkRowFailed, GiveUp, GiveUpInsert, DispatcherCrash
<1>6. ASSUME NEW d \in Dispatchers, GiveUpMark(d)
      PROVE  Kept(n)'
  <2>1. /\ dpc[d] = "giveUpMark" /\ dpc'[d] = "ready" /\ cur[d][1] \in OutboxIds
        /\ \A e \in Dispatchers \ {d} : dpc'[e] = dpc[e] /\ cur'[e] = cur[e]
    BY <1>t, <1>c, <1>6 DEF GiveUpMark, DGoto, DDone, DispatchersOK, OutboxTypeOK
  <2>2. \A i \in OutboxIds : HandedOver(i)' => HandedOver(i)
    BY Zenon, <1>h, <2>1
  <2>3. RecordsGrow /\ QueuesGrow(n)
    BY Zenon, <1>6, <1>q DEF GiveUpMark, RecordsGrow
  <2>4. CASE UNCHANGED outbox
    BY Zenon, <1>f, <1>s, <1>u, <2>2, <2>3, <2>4
  <2>5. CASE outbox' # outbox /\ CurNotif(d) = n
    <3>1. n \in deadLetters' \cup forgotten'
      BY Zenon, <1>6, <1>k, <2>5 DEF GiveUpMark
    <3> QED
      BY <3>1 DEF Kept, OnRecord
  <2>6. CASE outbox' # outbox /\ CurNotif(d) # n
    <3>1. FieldsStay(OutboxIds \ {cur[d][1]})
      BY Zenon, <1>t, <1>6, <2>1, <2>6, OutboxFields DEF GiveUpMark
    <3>2. OutboxStays(n)
      BY Zenon, <2>2, <2>6, <3>1 DEF OutboxStays, FieldsStay, CurNotif
    <3> QED
      BY <1>u, <2>3, <3>2
  <2> QED
    BY Zenon, <2>4, <2>5, <2>6
<1> QED
  BY Zenon, <1>1, <1>2, <1>3, <1>4, <1>5, <1>6 DEF OutboxNext, DispatcherStep

-----------------------------------------------------------------------------
(* Create, cancel, sweep and wait-tier expiry *)

(* A row that waits for pickup because it was inserted or swept has its     *)
(* outbox row from the same transaction; a wait tier hands its message to   *)
(* the main queue.                                                          *)
LEMMA LossEnvironment ==
  ASSUME TypeInv, TypeInv', LossInv,
         \/ \E k \in Notifs : Create(k) \/ Cancel(k)
         \/ Sweep
         \/ \E m \in Message : WaitTierExpires(m),
         NEW n \in Notifs, Pickable(n)'
  PROVE  Kept(n)'
<1>t. BrokerTypeOK /\ BrokerTypeOK' /\ OutboxTableOK /\ DispatchersOK
  BY TypeParts, TypePartsNext
<1>k. Pickable(n) => Kept(n)
  BY Zenon DEF LossInv, Kept
<1>o. UNCHANGED <<outbox, outboxVars>> => OutboxStays(n)
  BY Zenon DEF OutboxStays, HandedOver
<1>u. ASSUME OutboxStays(n), Pickable(n),
             UNCHANGED <<brokerVars, workerVars, observedVars, deadLetters, forgotten>>
      PROVE  Kept(n)'
  <2>1. RecordsGrow /\ \A v \in Workers : WorkerStays(v)
    BY Zenon, <1>u DEF RecordsGrow, WorkerStays
  <2>2. QueuesGrow(n)
    BY Zenon, <1>t, <1>u, PublishingGrows
  <2> QED
    BY Zenon, <1>k, <1>u, <2>1, <2>2, {} \in SUBSET Workers, KeptUnless
<1>f. ASSUME NEW i \in FreeIds, UNCHANGED outboxVars
      PROVE  ~HandedOver(i)'
  <2>1. outbox[i].notif \notin Notifs
    BY NotificationAssumption DEF FreeIds
  <2>2. \A d \in Dispatchers : dpc[d] = "mark" => outbox[cur[d][1]].notif \in Notifs
    BY Zenon, <1>t DEF DispatchersOK, HasRow, InsertedRow
  <2> QED
    BY Zenon, <1>f, <2>1, <2>2 DEF HandedOver
<1>i. ASSUME NEW i \in FreeIds, UNCHANGED outboxVars, outbox'[i] = [FreeRow EXCEPT !.notif = n]
      PROVE  Kept(n)'
  <2>1. outbox'[i].notif = n /\ outbox'[i].published = FALSE /\ i \in OutboxIds
    BY <1>i DEF FreeRow, FreeIds
  <2> QED
    BY Zenon, <1>f, <1>i, <2>1, NotificationAssumption DEF Kept, InOutbox, Unpublished
<1>1. ASSUME NEW k \in Notifs, Create(k)
      PROVE  Kept(n)'
  <2>1. PICK i \in FreeIds : outbox' = [outbox EXCEPT ![i] = [FreeRow EXCEPT !.notif = k]]
    BY Zenon, <1>1 DEF Create, InsertOutbox
  <2>2. i \in OutboxIds /\ outbox[i].notif # n /\ UNCHANGED outboxVars
    BY Zenon, <1>1, NotificationAssumption DEF FreeIds, Create, nonStoreVars
  <2>3. CASE k = n
    <3>1. outbox'[i] = [FreeRow EXCEPT !.notif = n]
      BY Zenon, <1>t, <2>1, <2>2, <2>3 DEF OutboxTableOK
    <3> QED
      BY <1>i, <2>2, <3>1
  <2>4. CASE k # n
    <3>1. \A j \in OutboxIds \ {i} : outbox'[j] = outbox[j]
      BY <1>t, <2>1 DEF OutboxTableOK
    <3>2. OutboxStays(n)
      BY Zenon, <2>2, <3>1 DEF OutboxStays, HandedOver
    <3>3. Pickable(n)
      BY Zenon, <1>1, <2>4, ApiLocal DEF RowStays, Pickable
    <3> QED
      BY <1>1, <1>u, <3>2, <3>3 DEF Create, nonStoreVars
  <2> QED
    BY <2>3, <2>4
<1>2. ASSUME NEW k \in Notifs, Cancel(k)
      PROVE  Kept(n)'
  <2>1. status'[k] = "cancelled" \/ (status[k] = "absent" /\ status'[k] = "pending")
    BY Zenon, <1>2, ApiLocal
  <2>2. status[k] # "absent"
    BY <1>2 DEF Cancel, CancelPendingOrQueued, Cancellable
  <2>3. Pickable(n)
    BY Zenon, <1>2, <2>1, <2>2, ApiLocal DEF RowStays, Pickable
  <2> QED
    BY <1>2, <1>o, <1>u, <2>3 DEF Cancel, nonStoreVars
<1>3. CASE Sweep
  <2>1. PICK new \in [StuckSending -> FreeIds] :
          /\ \A k, l \in StuckSending : k # l => new[k] # new[l]
          /\ outbox' = [i \in OutboxIds |->
                          IF \E k \in StuckSending : new[k] = i
                          THEN [FreeRow EXCEPT !.notif = CHOOSE k \in StuckSending : new[k] = i]
                          ELSE outbox[i]]
    BY Zenon, <1>3 DEF Sweep, InsertOutboxAll
  <2>2. UNCHANGED <<outboxVars, brokerVars, workerVars, observedVars, deadLetters>>
    BY <1>3 DEF Sweep, nonStoreVars
  <2>3. CASE n \in StuckSending
    <3>1. new[n] \in FreeIds /\ new[n] \in OutboxIds
      BY <2>1, <2>3 DEF FreeIds
    <3>2. (CHOOSE k \in StuckSending : new[k] = new[n]) = n
      BY <2>1, <2>3
    <3>3. outbox'[new[n]] = [FreeRow EXCEPT !.notif = CHOOSE k \in StuckSending : new[k] = new[n]]
      BY Zenon, <2>1, <2>3, <3>1
    <3> QED
      BY Zenon, <1>i, <2>2, <3>1, <3>2, <3>3
  <2>4. CASE n \notin StuckSending
    <3>1. \A i \in OutboxIds : outbox[i].notif = n => outbox'[i] = outbox[i]
      BY <2>1, NotificationAssumption DEF FreeIds
    <3>2. OutboxStays(n)
      BY Zenon, <2>2, <3>1 DEF OutboxStays, HandedOver
    <3>3. Pickable(n)
      BY Zenon, <1>3, <2>4, SweepLocal DEF RowStays, Pickable
    <3> QED
      BY Zenon, <1>u, <2>2, <3>2, <3>3
  <2> QED
    BY <2>3, <2>4
<1>4. ASSUME NEW m \in Message, WaitTierExpires(m)
      PROVE  Kept(n)'
  <2>1. Enqueue(m) /\ waitQ' = [waitQ EXCEPT ![m] = @ - 1] /\ waitQ[m] > 0 /\ UNCHANGED dlq
    BY Zenon, <1>4 DEF WaitTierExpires, WaitExpire
  <2>2. CASE m[1] = n
    <3>1. mainQ'[m] > 0
      BY <1>t, <2>1 DEF Enqueue, BrokerTypeOK
    <3> QED
      BY Zenon, <1>t, <2>2, <3>1, QueueCarries DEF Kept
  <2>3. CASE m[1] # n
    <3>1. QueuesGrow(n)
      BY <1>t, <2>1, <2>3 DEF QueuesGrow, Enqueue, BrokerTypeOK
    <3>2. /\ RecordsGrow /\ OutboxStays(n) /\ Kept(n)
          /\ \A v \in Workers : WorkerStays(v)
      BY Zenon, <1>k, <1>o, <1>4, <2>1 DEF WaitTierExpires, RecordsGrow, WorkerStays, Pickable
    <3> QED
      BY Zenon, <3>1, <3>2, {} \in SUBSET Workers, KeptUnless
  <2> QED
    BY <2>2, <2>3
<1> QED
  BY <1>1, <1>2, <1>3, <1>4

-----------------------------------------------------------------------------
(* Layer 6 *)

(* Every step keeps layer 6. *)
LEMMA LossStep ==
  ASSUME TypeInv, LossInv, [Next]_vars
  PROVE  LossInv'
<1>t. TypeInv'
  BY TypeStep
<1>1. \A v \in Workers : CanBounce(v)'
  BY Zenon, BounceStep DEF LossInv, CanBounce
<1>2. ASSUME NEW n \in Notifs, Pickable(n)'
      PROVE  Kept(n)'
  <2>1. CASE WorkerNext /\ UNCHANGED outboxVars
    BY <1>t, <1>2, <2>1, LossWorker
  <2>2. CASE OutboxNext /\ UNCHANGED <<workerVars, lockTTL, observedVars>>
    BY Zenon, <1>t, <1>2, <2>2, LossOutbox
  <2>3. CASE \/ \E k \in Notifs : Create(k) \/ Cancel(k)
             \/ Sweep
             \/ \E m \in Message : WaitTierExpires(m)
    BY <1>t, <1>2, <2>3, LossEnvironment
  <2>4. CASE UNCHANGED vars
    <3>1. Kept(n)
      BY Zenon, <1>2, <2>4 DEF vars, LossInv, Kept, Pickable
    <3> QED
      BY Zenon, <2>4, <3>1 DEF vars, Kept, InOutbox, InQueue, InHand, OnRecord, Unpublished, HandedOver,
         WillHandOn
  <2> QED
    BY <2>1, <2>2, <2>3, <2>4 DEF Next
<1> QED
  BY Zenon, <1>1, <1>2 DEF LossInv, CanBounce, Kept

(* A row that waits for pickup is carried or its loss is on record. *)
LEMMA LossInvariant == Spec => []LossInv
<1>1. Init => LossInv
  BY DEF Init, StoreInit, WorkerInit, LossInv, Pickable
<1> QED
  BY <1>1, LossStep, TypeCorrect, PTL DEF Spec

-----------------------------------------------------------------------------
(* Delivery implements Lifecycle: every initial state is one of Lifecycle's *)
(* and every step is a step of Lifecycle or leaves its variables alone.     *)
(* Layer 5 rules out the edges that do not exist (a dead letter of a        *)
(* notification that was never accepted).                                   *)

-----------------------------------------------------------------------------
(* The statements on rows, as moves of Lifecycle *)

(* Each row stays, takes an edge, or counts an attempt. *)
RowsOk == \A n \in Notifs : L!Stays(n) \/ L!Moves(n) \/ L!CountsAttempt(n)

(* A statement on an existing row takes an edge of Lifecycle or none. *)
LEMMA RowQueryMoves ==
  ASSUME StoreTypeOK, NEW n \in Notifs, RowQuery(n),
         status[n] \notin {"absent", "failed", "scheduled"}
  PROVE  RowsOk
<1> USE DEF StoreTypeOK, SetStatus, RowsOk, L!Stays, L!Moves, L!CountsAttempt, L!Edges, Statuses
<1>1. CASE MarkSendingCAS(n)
  BY <1>1 DEF MarkSendingCAS, Pickable
<1>2. CASE MarkSent(n)
  BY Zenon, <1>2 DEF MarkSent, IsSending
<1>3. CASE CancelPendingOrQueued(n)
  BY Zenon, <1>3 DEF CancelPendingOrQueued, Cancellable
<1>4. CASE MarkQueued(n)
  BY Zenon, <1>4 DEF MarkQueued
<1>5. CASE RevertToQueuedNoAttempt(n)
  BY Zenon, <1>5 DEF RevertToQueuedNoAttempt, IsSending
<1>6. CASE RevertToQueued(n)
  BY Zenon, <1>6 DEF RevertToQueued, IsSending
<1>7. CASE MarkDeadLetter(n)
  BY <1>7 DEF MarkDeadLetter
<1>8. CASE UNCHANGED rowVars
  BY Zenon, <1>8
<1> QED
  BY Zenon, <1>1, <1>2, <1>3, <1>4, <1>5, <1>6, <1>7, <1>8 DEF RowQuery

(* A step of Lifecycle, or none, with calls unchanged; or a provider call.  *)
LifecycleStep == (RowsOk /\ UNCHANGED calls) \/ \E n \in Notifs : L!Contact(n)

(* Every call of a handler is a step of Lifecycle or none. *)
LEMMA HandlerMoves ==
  ASSUME TypeInv, OwnInv, BudgetInv, RowInv, NEW w \in Workers, HandlerStep(w)
  PROVE  LifecycleStep
<1>j. pc[w] # "idle" => job[w] \in Notifs
  BY Zenon DEF TypeInv, HasJob, Busy
<1>a. ASSUME job[w] \in Notifs, RowQuery(job[w]), Owns(w) \/ Pickable(job[w]), UNCHANGED calls
      PROVE  LifecycleStep
  <2>1. status[job[w]] \notin {"absent", "failed", "scheduled"}
    BY Zenon, <1>a DEF OwnInv, Held, Pickable
  <2> QED
    BY Zenon, <1>a, <2>1, RowQueryMoves DEF LifecycleStep, TypeInv, TypeOK
<1>b. ASSUME UNCHANGED <<status, attemptCount, calls>>
      PROVE  LifecycleStep
  BY Zenon, <1>b DEF LifecycleStep, RowsOk, L!Stays
<1>1. CASE CASHit(w)
  BY Zenon, <1>1, <1>a, <1>b, <1>j DEF CASHit, RowQuery, Goto, Owns, OwningLabels, MarkSendingCAS
<1>2. CASE CASError(w)
  BY Zenon, <1>2, <1>a, <1>b, <1>j DEF CASError, RowQuery, Goto, Owns, OwningLabels, MarkSendingCAS
<1>3. CASE DeferToHolder(w)
  BY Zenon, <1>3, <1>a, <1>b, <1>j DEF DeferToHolder, RowQuery, Goto, Owns, OwningLabels
<1>4. CASE RevertForRetry(w)
  BY Zenon, <1>4, <1>a, <1>b, <1>j DEF RevertForRetry, RowQuery, Goto, Owns, OwningLabels
<1>5. CASE TerminalMark(w)
  BY Zenon, <1>5, <1>a, <1>b, <1>j DEF TerminalMark, RowQuery, Goto, Owns, OwningLabels
<1>6. CASE MarkSentOk(w)
  BY Zenon, <1>6, <1>a, <1>b, <1>j DEF MarkSentOk, RowQuery, Goto, Owns, OwningLabels
<1>7. CASE MarkSentError(w)
  BY Zenon, <1>7, <1>a, <1>b, <1>j DEF MarkSentError, RowQuery, Goto, Owns, OwningLabels
<1>8. CASE UndoAfterMarkSent(w)
  BY Zenon, <1>8, <1>a, <1>b, <1>j DEF UndoAfterMarkSent, RowQuery, Goto, Owns, OwningLabels
<1>9. CASE StartCall(w)
  <2>1. L!Contact(job[w])
    BY Zenon, <1>9, <1>j DEF StartCall, Goto, L!Contact, OwnInv, Held, Owns, OwningLabels, BudgetInv,
       UncalledLabels
  <2> QED
    BY <1>9, <1>j, <2>1 DEF StartCall, Goto, LifecycleStep
<1>10. CASE \/ CASMiss(w) \/ AcquireLock(w) \/ LockHeld(w) \/ SetNXError(w) \/ TakeAllowed(w) \/ TakeThrottled(w)
           \/ TakeError(w) \/ BreakerOpen(w) \/ SendCancelled(w) \/ CallSucceeds(w) \/ CallFailsRetryable(w)
           \/ CallFailsTerminal(w) \/ RecordAttempt(w) \/ routeToRetryTier(w) \/ TerminalInsert(w)
           \/ Unlock(w) \/ requeueViaWaitTier(w) \/ Settle(w)
  BY Zenon, <1>10, <1>b DEF CASMiss, AcquireLock, LockHeld, SetNXError, TakeAllowed, TakeThrottled, TakeError, BreakerOpen, SendCancelled,
     CallSucceeds, CallFailsRetryable, CallFailsTerminal, RecordAttempt, routeToRetryTier, TerminalInsert, Unlock, requeueViaWaitTier, Settle
<1> QED
  BY Zenon, <1>1, <1>2, <1>3, <1>4, <1>5, <1>6, <1>7, <1>8, <1>9, <1>10 DEF HandlerStep

(* Every step of Delivery is a step of Lifecycle or none. *)
LEMMA NextMoves ==
  ASSUME TypeInv, OwnInv, BudgetInv, RowInv, [Next]_vars
  PROVE  LifecycleStep
<1>b. ASSUME UNCHANGED <<status, attemptCount, calls>>
      PROVE  LifecycleStep
  BY <1>b DEF LifecycleStep, RowsOk, L!Stays
<1>1. ASSUME NEW w \in Workers, HandlerStep(w)
      PROVE  LifecycleStep
  BY <1>1, HandlerMoves
<1>2. ASSUME NEW w \in Workers, Deliver(w) \/ WorkerCrash(w) \/ ConnectionLost(w) \/ Shutdown(w)
      PROVE  LifecycleStep
  BY Zenon, <1>2, <1>b DEF Deliver, WorkerCrash, ConnectionLost, Shutdown
<1>3. CASE Tick
  BY Zenon, <1>3, <1>b DEF Tick
<1>4. CASE OutboxNext /\ UNCHANGED <<workerVars, lockTTL, observedVars>>
  <2>1. ASSUME NEW n \in Notifs, MarkQueued(n) \/ MarkDeadLetter(n), status[n] # "absent"
        PROVE  LifecycleStep
    <3>1. RowQuery(n) /\ status[n] \notin {"absent", "failed", "scheduled"}
      BY Zenon, <2>1 DEF RowQuery, RowInv
    <3> QED
      BY <1>4, <3>1, RowQueryMoves DEF LifecycleStep, TypeInv, TypeOK
  <2>2. \/ UNCHANGED rowVars
        \/ \E n \in Notifs : status[n] # "absent" /\ (MarkQueued(n) \/ MarkDeadLetter(n))
    <3>1. ASSUME NEW d \in Dispatchers, dpc[d] # "ready"
          PROVE  CurNotif(d) \in Notifs /\ status[CurNotif(d)] # "absent"
      BY Zenon, <3>1 DEF TypeInv, HasRow, InsertedRow, CurNotif, RowInv
    <3>2. ASSUME NEW d \in Dispatchers, MarkRowQueued(d) \/ GiveUp(d) \/ GiveUpInsert(d)
          PROVE  CurNotif(d) \in Notifs /\ status[CurNotif(d)] # "absent"
      BY <3>1, <3>2 DEF MarkRowQueued, GiveUp, GiveUpInsert, DGoto, DDone
    <3>3. CASE \E d \in Dispatchers : DispatcherStep(d)
      BY Zenon, <3>2, <3>3 DEF DispatcherStep, ClaimOutboxBatch, PublishRow, MarkPublished,
         MarkRowQueued, MarkRowFailed, GiveUp, GiveUpInsert, GiveUpMark
    <3>4. CASE \/ \E d \in Dispatchers : DispatcherCrash(d)
               \/ \E i \in OutboxIds : ClaimLapse(i)
      BY <3>4 DEF DispatcherCrash, ClaimLapse
    <3> QED
      BY <1>4, <3>3, <3>4 DEF OutboxNext
  <2> QED
    BY Zenon, <1>4, <1>b, <2>1, <2>2
<1>5. ASSUME NEW n \in Notifs, Create(n)
      PROVE  LifecycleStep
  BY <1>5 DEF Create, SetStatus, nonStoreVars, LifecycleStep, RowsOk, L!Stays, L!Moves, L!Edges,
     TypeInv, TypeOK, StoreTypeOK
<1>6. ASSUME NEW n \in Notifs, Cancel(n)
      PROVE  LifecycleStep
  <2>1. RowQuery(n) /\ status[n] \notin {"absent", "failed", "scheduled"} /\ UNCHANGED calls
    BY Zenon, <1>6 DEF Cancel, RowQuery, RowInv, CancelPendingOrQueued, Cancellable, nonStoreVars
  <2> QED
    BY <2>1, RowQueryMoves DEF LifecycleStep, TypeInv, TypeOK
<1>7. CASE Sweep
  BY Zenon, <1>7 DEF Sweep, SweepStuckSending, StuckSending, SendingRows, IsSending, nonStoreVars,
     LifecycleStep, RowsOk, L!Stays, L!CountsAttempt
<1>8. ASSUME NEW m \in Message, WaitTierExpires(m)
      PROVE  LifecycleStep
  BY Zenon, <1>8, <1>b DEF WaitTierExpires
<1>9. CASE UNCHANGED vars
  BY <1>9, <1>b DEF vars
<1> QED
  BY Zenon, <1>1, <1>2, <1>3, <1>4, <1>5, <1>6, <1>7, <1>8, <1>9 DEF Next, WorkerNext

-----------------------------------------------------------------------------
(* Layer 5: outbox rows *)

(* An outbox row after the step was there before, or its notification is    *)
(* there now.                                                               *)
OutboxGrows ==
  \A i \in OutboxIds :
    outbox'[i].notif \in Notifs =>
      \/ outbox'[i].notif = outbox[i].notif
      \/ status'[outbox'[i].notif] # "absent"

(* A statement on an outbox row keeps its notification. *)
LEMMA OutboxStatementGrows ==
  ASSUME StoreTypeOK, NEW i \in OutboxIds,
         \/ MarkOutboxPublished(i)
         \/ MarkOutboxFailed(i)
         \/ outbox' = [outbox EXCEPT ![i].claimed = FALSE]
  PROVE  OutboxGrows
<1>1. ASSUME NEW r, r.notif = outbox[i].notif, outbox' = [outbox EXCEPT ![i] = r]
      PROVE  OutboxGrows
  BY <1>1 DEF OutboxGrows, StoreTypeOK
<1>2. outbox[i] \in OutboxRow
  BY DEF StoreTypeOK
<1>3. CASE MarkOutboxPublished(i)
  <2> DEFINE r == [FreeRow EXCEPT !.notif = outbox[i].notif, !.published = TRUE]
  <2>1. r.notif = outbox[i].notif
    BY DEF FreeRow
  <2>2. outbox' = [outbox EXCEPT ![i] = r]
    BY <1>3 DEF MarkOutboxPublished
  <2> HIDE DEF r
  <2> QED
    BY Zenon, <2>1, <2>2, <1>1
<1>4. CASE MarkOutboxFailed(i)
  <2> DEFINE r == [FreeRow EXCEPT !.notif = outbox[i].notif,
                                  !.attempts = outbox[i].attempts + 1]
  <2>1. r.notif = outbox[i].notif
    BY DEF FreeRow
  <2>2. outbox' = [outbox EXCEPT ![i] = r] \/ UNCHANGED outbox
    BY <1>4 DEF MarkOutboxFailed
  <2>3. UNCHANGED outbox => OutboxGrows
    BY DEF OutboxGrows
  <2> HIDE DEF r
  <2> QED
    BY <2>1, <2>2, <2>3, <1>1
<1>5. CASE outbox' = [outbox EXCEPT ![i].claimed = FALSE]
  <2> DEFINE r == [outbox[i] EXCEPT !.claimed = FALSE]
  <2>1. r.notif = outbox[i].notif
    BY <1>2 DEF OutboxRow
  <2>2. outbox' = [outbox EXCEPT ![i] = r]
    BY <1>5
  <2> HIDE DEF r
  <2> QED
    BY Zenon, <2>1, <2>2, <1>1
<1> QED
  BY <1>3, <1>4, <1>5

(* A row enters the outbox only for a notification that exists. *)
LEMMA NextGrows ==
  ASSUME TypeInv, [Next]_vars
  PROVE  OutboxGrows
<1> USE DEF TypeInv, TypeOK
<1>0. ASSUME UNCHANGED outbox
      PROVE  OutboxGrows
  BY <1>0 DEF OutboxGrows
<1>1. CASE WorkerNext
  <2>1. ASSUME NEW w \in Workers, HandlerStep(w)
        PROVE  UNCHANGED outbox
    BY Zenon, <2>1 DEF HandlerStep, CASHit, CASMiss, CASError, AcquireLock, LockHeld, SetNXError,
       DeferToHolder, TakeAllowed, TakeThrottled, TakeError, StartCall, BreakerOpen,
       SendCancelled, CallSucceeds, CallFailsRetryable, CallFailsTerminal, RecordAttempt,
       RevertForRetry, routeToRetryTier, TerminalMark, TerminalInsert, MarkSentOk,
       MarkSentError, UndoAfterMarkSent, Unlock, requeueViaWaitTier, Settle
  <2>2. ASSUME NEW w \in Workers,
               Deliver(w) \/ WorkerCrash(w) \/ ConnectionLost(w) \/ Shutdown(w)
        PROVE  UNCHANGED outbox
    BY Zenon, <2>2 DEF Deliver, WorkerCrash, ConnectionLost, Shutdown
  <2>3. CASE Tick
    BY <2>3, <1>0 DEF Tick
  <2> QED
    BY <1>1, <2>1, <2>2, <2>3, <1>0 DEF WorkerNext
<1>2. CASE OutboxNext
  <2>1. ASSUME NEW d \in Dispatchers, dpc[d] # "ready"
        PROVE  cur[d][1] \in OutboxIds
    BY Zenon, <2>1 DEF HasRow, InsertedRow
  <2>2. ASSUME NEW d \in Dispatchers, ClaimOutboxBatch(d)
        PROVE  OutboxGrows
    <3>1. \A i \in OutboxIds : outbox[i] \in OutboxRow
      BY DEF StoreTypeOK
    <3>2. \A r \in OutboxRow : [r EXCEPT !.claimed = TRUE].notif = r.notif
      BY DEF OutboxRow
    <3>3. PICK S : outbox' = [i \in OutboxIds |-> IF i \in S
                                                 THEN [outbox[i] EXCEPT !.claimed = TRUE]
                                                 ELSE outbox[i]]
      BY Zenon, <2>2 DEF ClaimOutboxBatch
    <3> QED
      BY <3>1, <3>2, <3>3 DEF OutboxGrows
  <2>3. ASSUME NEW d \in Dispatchers,
               \/ PublishRow(d) \/ MarkRowQueued(d) \/ GiveUp(d) \/ GiveUpInsert(d)
               \/ DispatcherCrash(d)
        PROVE  OutboxGrows
    BY Zenon, <2>3, <1>0 DEF PublishRow, MarkRowQueued, GiveUp, GiveUpInsert, DispatcherCrash
  <2>4. ASSUME NEW d \in Dispatchers, MarkPublished(d) \/ MarkRowFailed(d) \/ GiveUpMark(d)
        PROVE  OutboxGrows
    BY <2>1, <2>4, <1>0, OutboxStatementGrows
       DEF MarkPublished, MarkRowFailed, GiveUpMark, DGoto, DDone
  <2>5. ASSUME NEW i \in OutboxIds, ClaimLapse(i)
        PROVE  OutboxGrows
    BY Zenon, <2>5, OutboxStatementGrows DEF ClaimLapse
  <2> QED
    BY <1>2, <2>2, <2>3, <2>4, <2>5 DEF OutboxNext, DispatcherStep
<1>3. ASSUME NEW n \in Notifs, Create(n)
      PROVE  OutboxGrows
  <2>1. PICK i \in FreeIds : outbox' = [outbox EXCEPT ![i] = [FreeRow EXCEPT !.notif = n]]
    BY Zenon, <1>3 DEF Create, InsertOutbox
  <2>2. [FreeRow EXCEPT !.notif = n].notif = n
    BY DEF FreeRow
  <2>3. status'[n] = "pending"
    BY <1>3 DEF Create, SetStatus, StoreTypeOK
  <2> QED
    BY <2>1, <2>2, <2>3 DEF OutboxGrows, StoreTypeOK
<1>4. CASE Sweep
  <2>1. PICK new \in [StuckSending -> FreeIds] :
          outbox' = [i \in OutboxIds |->
                       IF \E n \in StuckSending : new[n] = i
                       THEN [FreeRow EXCEPT !.notif = CHOOSE n \in StuckSending : new[n] = i]
                       ELSE outbox[i]]
    BY <1>4 DEF Sweep, InsertOutboxAll
  <2>2. \A n \in Notifs : [FreeRow EXCEPT !.notif = n].notif = n
    BY DEF FreeRow
  <2>3. StuckSending \subseteq Notifs /\ \A n \in StuckSending : status'[n] = "queued"
    BY Zenon, <1>4 DEF Sweep, SweepStuckSending, StuckSending, SendingRows
  <2>4. ASSUME NEW i \in OutboxIds, \E n \in StuckSending : new[n] = i
        PROVE  (CHOOSE n \in StuckSending : new[n] = i) \in StuckSending
    BY <2>4
  <2> QED
    BY <2>1, <2>2, <2>3, <2>4 DEF OutboxGrows
<1>5. CASE \/ \E n \in Notifs : Cancel(n)
           \/ \E m \in Message : WaitTierExpires(m)
           \/ UNCHANGED vars
  BY Zenon, <1>5, <1>0 DEF Cancel, WaitTierExpires, vars
<1> QED
  BY Zenon, <1>1, <1>2, <1>3, <1>4, <1>5 DEF Next

(* Every step keeps layer 5. *)
LEMMA RowStep ==
  ASSUME TypeInv, OwnInv, BudgetInv, RowInv, [Next]_vars
  PROVE  RowInv'
<1>1. \A n \in Notifs : /\ status'[n] \notin {"failed", "scheduled"}
                        /\ status[n] # "absent" => status'[n] # "absent"
  BY Zenon, NextMoves DEF LifecycleStep, RowsOk, L!Stays, L!Moves, L!CountsAttempt, L!Edges, L!Contact,
     RowInv
<1>2. ASSUME NEW i \in OutboxIds, outbox'[i].notif \in Notifs
      PROVE  status'[outbox'[i].notif] # "absent"
  BY <1>1, <1>2, NextGrows DEF RowInv, OutboxGrows
<1> QED
  BY Zenon, <1>1, <1>2 DEF RowInv

(* Outbox rows belong to existing notifications. *)
LEMMA RowInvariant == Spec => []RowInv
<1>1. Init => RowInv
  BY NotificationAssumption, StoreAssumption DEF Init, StoreInit, RowInv, FreeRow
<1> QED
  BY <1>1, RowStep, TypeCorrect, OwnInvariant, BudgetInvariant, PTL DEF Spec

-----------------------------------------------------------------------------
(* Under the invariant every step refines a step of Lifecycle or a stutter. *)
LEMMA RefinesStep ==
  ASSUME TypeInv, OwnInv, BudgetInv, RowInv, [Next]_vars
  PROVE  [L!LNext]_(L!lifecycleVars)
<1>1. status' \in [Notifs -> Statuses] /\ attemptCount' \in [Notifs -> Nat]
  BY TypeStep DEF TypeInv, TypeOK, StoreTypeOK
<1> QED
  BY Zenon, <1>1, NextMoves DEF LifecycleStep, RowsOk, L!LNext, L!RowsMove, L!Statuses, Statuses

(* The delivery path implements the abstract lifecycle: statuses take no    *)
(* edge outside it, 'sent' is final, attempt_count moves only when a row    *)
(* goes back to the queue, and the provider is contacted only for a row a   *)
(* worker has taken and with every earlier contact counted.                 *)
THEOREM RefinesLifecycle == Spec => ImplementsLifecycle
<1>1. Init => L!LInit
  BY DEF Init, StoreInit, WorkerInit, L!LInit
<1>2. Spec => [](TypeInv /\ OwnInv /\ BudgetInv /\ RowInv)
  BY TypeCorrect, OwnInvariant, BudgetInvariant, RowInvariant, PTL
<1>3. TypeInv /\ OwnInv /\ BudgetInv /\ RowInv /\ [Next]_vars => [L!LNext]_(L!lifecycleVars)
  BY RefinesStep
<1> QED
  BY <1>1, <1>2, <1>3, PTL DEF Spec, ImplementsLifecycle, L!LSpec

(* The whole inductive invariant holds: whatever a crash, an error, a lost  *)
(* connection or a timeout leaves behind.                                   *)
THEOREM InductiveInvariant == Spec => []IInv
<1>1. TypeInv /\ LockInv /\ OwnInv /\ BudgetInv /\ RowInv /\ LossInv => IInv
  BY Zenon DEF IInv
<1> QED
  BY <1>1, TypeCorrect, LockInvariant, OwnInvariant, BudgetInvariant, RowInvariant,
     LossInvariant, PTL

-----------------------------------------------------------------------------
(* Outbox rows that are given up *)

(* An outbox row keeps its notification. *)
NotifsStay == \A i \in OutboxIds : InsertedRow(i) => outbox'[i].notif = outbox[i].notif

(* Statements change other fields, INSERTs fill free rows. *)
LEMMA NotifsKept ==
  ASSUME TypeInv, [Next]_vars
  PROVE  NotifsStay
<1>t. OutboxTableOK
  BY TypeParts
<1>0. UNCHANGED outbox \/ FieldsStay(OutboxIds) => NotifsStay
  BY DEF NotifsStay, FieldsStay
<1>1. ASSUME NEW i \in OutboxIds, MarkOutboxPublished(i)
      PROVE  NotifsStay
  <2> DEFINE r == [FreeRow EXCEPT !.notif = outbox[i].notif, !.published = TRUE]
  <2>1. r.notif = outbox[i].notif
    BY DEF FreeRow
  <2>2. outbox' = [outbox EXCEPT ![i] = r]
    BY <1>1 DEF MarkOutboxPublished
  <2> HIDE DEF r
  <2> QED
    BY <1>t, <2>1, <2>2 DEF NotifsStay, OutboxTableOK
<1>2. CASE WorkerNext
  <2>1. ASSUME NEW w \in Workers, HandlerStep(w)
        PROVE  UNCHANGED outbox
    BY Zenon, <2>1 DEF HandlerStep, CASHit, CASMiss, CASError, AcquireLock, LockHeld, SetNXError,
       DeferToHolder, TakeAllowed, TakeThrottled, TakeError, StartCall, BreakerOpen,
       SendCancelled, CallSucceeds, CallFailsRetryable, CallFailsTerminal, RecordAttempt,
       RevertForRetry, routeToRetryTier, TerminalMark, TerminalInsert, MarkSentOk,
       MarkSentError, UndoAfterMarkSent, Unlock, requeueViaWaitTier, Settle
  <2> QED
    BY Zenon, <1>0, <1>2, <2>1 DEF WorkerNext, Deliver, WorkerCrash, ConnectionLost, Shutdown, Tick
<1>3. CASE OutboxNext
  <2>1. ASSUME NEW d \in Dispatchers, dpc[d] # "ready"
        PROVE  cur[d][1] \in OutboxIds
    BY Zenon, <2>1 DEF TypeInv, HasRow, InsertedRow
  <2>2. ASSUME NEW d \in Dispatchers, MarkPublished(d) \/ MarkRowFailed(d) \/ GiveUpMark(d)
        PROVE  NotifsStay
    BY Zenon, <1>0, <1>1, <1>t, <2>1, <2>2, OutboxFields
       DEF MarkPublished, MarkRowFailed, GiveUpMark, DDone, DGoto
  <2>3. ASSUME NEW d \in Dispatchers, ClaimOutboxBatch(d)
        PROVE  NotifsStay
    BY <1>0, <1>t, <2>3, ClaimFields
  <2>4. ASSUME NEW i \in OutboxIds, ClaimLapse(i)
        PROVE  NotifsStay
    BY Zenon, <1>0, <1>t, <2>4, OutboxFields DEF ClaimLapse
  <2> QED
    BY Zenon, <1>0, <1>3, <2>2, <2>3, <2>4 DEF OutboxNext, DispatcherStep, PublishRow, MarkRowQueued,
       GiveUp, GiveUpInsert, DispatcherCrash
<1>4. ASSUME NEW n \in Notifs, Create(n)
      PROVE  NotifsStay
  <2>1. PICK i \in FreeIds : outbox' = [outbox EXCEPT ![i] = [FreeRow EXCEPT !.notif = n]]
    BY Zenon, <1>4 DEF Create, InsertOutbox
  <2> QED
    BY <1>t, <2>1, NotificationAssumption DEF NotifsStay, InsertedRow, FreeIds, OutboxTableOK
<1>5. CASE Sweep
  <2>1. PICK new \in [StuckSending -> FreeIds] :
          outbox' = [i \in OutboxIds |->
                       IF \E k \in StuckSending : new[k] = i
                       THEN [FreeRow EXCEPT !.notif = CHOOSE k \in StuckSending : new[k] = i]
                       ELSE outbox[i]]
    BY <1>5 DEF Sweep, InsertOutboxAll
  <2> QED
    BY <2>1, NotificationAssumption DEF NotifsStay, InsertedRow, FreeIds
<1> QED
  BY Zenon, <1>0, <1>2, <1>3, <1>4, <1>5 DEF Next, Cancel, WaitTierExpires, vars

(* Dead letters are only added. *)
LEMMA DeadLettersGrow ==
  ASSUME [Next]_vars
  PROVE  deadLetters \subseteq deadLetters'
<1>1. ASSUME NEW w \in Workers, HandlerStep(w)
      PROVE  deadLetters \subseteq deadLetters'
  <2>1. CASE TerminalInsert(w)
    BY <2>1 DEF TerminalInsert, InsertDeadLetter
  <2> QED
    BY Zenon, <1>1, <2>1 DEF HandlerStep, CASHit, CASMiss, CASError, AcquireLock, LockHeld, SetNXError,
       DeferToHolder, TakeAllowed, TakeThrottled, TakeError, StartCall, BreakerOpen,
       SendCancelled, CallSucceeds, CallFailsRetryable, CallFailsTerminal, RecordAttempt,
       RevertForRetry, routeToRetryTier, TerminalMark, MarkSentOk,
       MarkSentError, UndoAfterMarkSent, Unlock, requeueViaWaitTier, Settle
<1>2. CASE WorkerNext
  BY Zenon, <1>1, <1>2 DEF WorkerNext, Deliver, WorkerCrash, ConnectionLost, Shutdown, Tick
<1>3. CASE OutboxNext
  BY Zenon, <1>3 DEF OutboxNext, DispatcherStep, ClaimOutboxBatch, PublishRow, MarkPublished,
     MarkRowQueued, MarkRowFailed, GiveUp, GiveUpInsert, GiveUpMark, DispatcherCrash, ClaimLapse,
     InsertDeadLetter
<1> QED
  BY ZenonT(30), <1>2, <1>3 DEF Next, Create, Cancel, Sweep, WaitTierExpires, nonStoreVars, vars

(* What a dispatcher that gives up has behind it. *)
GaveUp(d) ==
  /\ dpc[d] = "giveUp" => faults >= 1
  /\ dpc[d] = "giveUpInsert" => Settled(CurNotif(d)) \/ faults >= 2
  /\ dpc[d] = "giveUpMark" =>
       Settled(CurNotif(d)) \/ CurNotif(d) \in deadLetters \/ faults >= 3

(* Three best-effort calls must fail before a row that waits for pickup is  *)
(* given up without a trace.                                                *)
LEMMA GivenUpStep ==
  ASSUME TypeInv, OwnInv, BudgetInv, RowInv, GivenUpInv, [Next]_vars
  PROVE  GivenUpInv'
<1>t. DispatchersOK /\ RowTypeOK
  BY TypeParts
<1>f. faults \in Nat /\ faults' \in Nat /\ faults <= faults'
  BY FaultsGrow
<1>m. /\ faults >= 1 => faults' >= 1
      /\ faults >= 2 => faults' >= 2
      /\ faults >= 3 => faults' >= 3
  BY <1>f
<1>i. (\A d \in Dispatchers : GaveUp(d)') /\ (forgotten' # {} => faults' >= 3) => GivenUpInv'
  BY Zenon DEF GivenUpInv, GaveUp
<1>s. \A n \in Notifs : Settled(n) => Settled(n)'
  BY NextMoves DEF LifecycleStep, RowsOk, L!Stays, L!Moves, L!CountsAttempt, L!Edges, L!Contact,
     Settled
<1>d. deadLetters \subseteq deadLetters'
  BY Zenon, DeadLettersGrow
<1>c. \A d \in Dispatchers : dpc[d] # "ready" =>
        CurNotif(d) \in Notifs /\ outbox'[cur[d][1]].notif = CurNotif(d)
  BY NotifsKept DEF TypeInv, HasRow, InsertedRow, CurNotif, NotifsStay
<1>g. \A d \in Dispatchers : GaveUp(d)
  BY Zenon DEF GivenUpInv, GaveUp
<1>0. ASSUME NEW d \in Dispatchers, dpc'[d] = dpc[d], cur'[d] = cur[d]
      PROVE  GaveUp(d)'
  <2>1. CASE dpc[d] \in {"giveUp", "giveUpInsert", "giveUpMark"}
    <3>1. CurNotif(d)' = CurNotif(d) /\ CurNotif(d) \in Notifs
      BY <1>0, <1>c, <2>1 DEF CurNotif
    <3> QED
      BY ZenonT(30), <1>0, <1>d, <1>m, <1>g, <1>s, <3>1 DEF GaveUp, Settled
  <2> QED
    BY <1>0, <2>1 DEF GaveUp
<1>1. CASE UNCHANGED outboxVars
  BY Zenon, <1>0, <1>1, <1>i, <1>m DEF GivenUpInv
<1>2. ASSUME NEW d \in Dispatchers, DispatcherStep(d) \/ DispatcherCrash(d)
      PROVE  GivenUpInv'
  <2>1. \A e \in Dispatchers \ {d} : dpc'[e] = dpc[e] /\ cur'[e] = cur[e]
    BY Zenon, <1>t, <1>2 DEF DispatchersOK, OutboxTypeOK, DispatcherStep, ClaimOutboxBatch, PublishRow,
       MarkPublished, MarkRowQueued, MarkRowFailed, GiveUp, GiveUpInsert, GiveUpMark,
       DispatcherCrash, DDone, DGoto
  <2>2. ASSUME GaveUp(d)', forgotten' # {} => forgotten # {} \/ faults' >= 3
        PROVE  GivenUpInv'
    BY Zenon, <1>0, <1>i, <1>m, <2>1, <2>2 DEF GivenUpInv
  <2>3. CASE \/ ClaimOutboxBatch(d) \/ MarkPublished(d) \/ MarkRowQueued(d)
             \/ MarkRowFailed(d) \/ DispatcherCrash(d)
    <3>1. UNCHANGED forgotten
      BY Zenon, <2>3 DEF ClaimOutboxBatch, MarkPublished, MarkRowQueued, MarkRowFailed, DispatcherCrash
    <3>2. dpc'[d] \in {"ready", "markQueued"}
      BY Zenon, <1>t, <2>3 DEF DispatchersOK, OutboxTypeOK, ClaimOutboxBatch, MarkPublished,
         MarkRowQueued, MarkRowFailed, DispatcherCrash, DDone, DGoto
    <3> QED
      BY Zenon, <2>2, <3>1, <3>2 DEF GaveUp
  <2>4. CASE PublishRow(d)
    <3>1. UNCHANGED forgotten
      BY Zenon, <2>4 DEF PublishRow
    <3>2. \/ dpc'[d] \in {"mark", "markFailed"}
          \/ dpc'[d] = "giveUp" /\ faults' = faults + 1
      BY Zenon, <1>t, <2>4 DEF DispatchersOK, OutboxTypeOK, PublishRow, DGoto, Fault
    <3> QED
      BY <1>f, <2>2, <3>1, <3>2 DEF GaveUp
  <2>5. CASE GiveUp(d)
    <3>1. /\ UNCHANGED <<forgotten, cur, outbox>> /\ dpc'[d] = "giveUpInsert" /\ dpc[d] = "giveUp"
          /\ MarkDeadLetter(CurNotif(d)) \/ faults' = faults + 1
      BY <1>t, <2>5 DEF DispatchersOK, OutboxTypeOK, GiveUp, DGoto, Fault
    <3>2. CurNotif(d)' = CurNotif(d) /\ CurNotif(d) \in Notifs
      BY Zenon, <1>c, <3>1 DEF CurNotif
    <3>3. MarkDeadLetter(CurNotif(d)) => Settled(CurNotif(d))'
      BY Zenon, <1>t, <3>2 DEF MarkDeadLetter, SetStatus, RowTypeOK, Settled
    <3> QED
      BY <1>f, <1>g, <2>2, <3>1, <3>2, <3>3 DEF GaveUp
  <2>6. CASE GiveUpInsert(d)
    <3>1. /\ UNCHANGED <<forgotten, cur, outbox>>
          /\ dpc'[d] = "giveUpMark" /\ dpc[d] = "giveUpInsert"
          /\ CurNotif(d) \in deadLetters' \/ faults' = faults + 1
      BY Zenon, <1>t, <2>6 DEF DispatchersOK, OutboxTypeOK, GiveUpInsert, InsertDeadLetter, DGoto, Fault
    <3>2. CurNotif(d)' = CurNotif(d) /\ CurNotif(d) \in Notifs
      BY Zenon, <1>c, <3>1 DEF CurNotif
    <3> QED
      BY <1>f, <1>g, <1>s, <2>2, <3>1, <3>2 DEF GaveUp
  <2>7. CASE GiveUpMark(d)
    <3>1. /\ dpc'[d] = "ready" /\ dpc[d] = "giveUpMark"
          /\ \/ UNCHANGED forgotten
             \/ Pickable(CurNotif(d)) /\ CurNotif(d) \notin deadLetters
      BY Zenon, <1>t, <2>7 DEF DispatchersOK, OutboxTypeOK, GiveUpMark, DDone, DGoto
    <3>2. Pickable(CurNotif(d)) => ~Settled(CurNotif(d))
      BY DEF Pickable, Settled
    <3> QED
      BY <1>f, <1>g, <2>2, <3>1, <3>2 DEF GaveUp
  <2> QED
    BY Zenon, <1>2, <2>3, <2>4, <2>5, <2>6, <2>7 DEF DispatcherStep
<1> QED
  BY Zenon, <1>1, <1>2, DispatchersMove

LEMMA GivenUpInvariant == Spec => []GivenUpInv
<1>1. Init => GivenUpInv
  BY DEF Init, OutboxInit, GivenUpInv
<1> QED
  BY <1>1, GivenUpStep, TypeCorrect, OwnInvariant, BudgetInvariant, RowInvariant, PTL DEF Spec

(* No notification is lost but in the three ways the code has: whatever     *)
(* faults happen, and however many, an accepted notification that waits for *)
(* pickup is carried by an outbox row, a message, a worker or a dead-letter *)
(* record, unless the in-flight key of another worker deferred it, a        *)
(* shutdown dropped its retry, or its outbox row was given up while three   *)
(* calls failed.                                                            *)
THEOREM LossesAreExplained == Spec => []LossesExplained
<1>1. LossInv /\ GivenUpInv => LossesExplained
  BY DEF LossInv, GivenUpInv, LossesExplained, Carried, InOutbox, InQueue, InHand, OnRecord
<1> QED
  BY <1>1, LossInvariant, GivenUpInvariant, PTL

=============================================================================
