--------------------------- MODULE DeliveryProofs ---------------------------
(***************************************************************************)
(* The safety properties of Delivery, for any number of workers,           *)
(* dispatchers, notifications and faults and any timeouts that obey        *)
(* TimeoutAssumption.  IInv is shown to be inductive layer by layer: here  *)
(* the types (layer 1), the in-flight key (layer 2), the ownership of a    *)
(* row (layer 3) and the count of requests (layer 4); the other layers in  *)
(* InvariantProofs.                                                        *)
(*                                                                         *)
(* Layer 1 is split by component (rows, outbox table, broker, a worker's   *)
(* control state, what it has obtained, dispatchers, faults).  Each        *)
(* component has one lemma for a step that changes it; a step that leaves  *)
(* it alone needs only its frame.                                          *)
(***************************************************************************)
EXTENDS DeliveryInv, TLAPS

USE DEF rowVars, storeVars, brokerVars, deliveryVars, workerVars, observedVars, outboxVars

-----------------------------------------------------------------------------
(* The components of TypeInv *)

(* The columns of notifications. *)
RowTypeOK ==
  /\ status \in [Notifs -> Statuses]
  /\ attemptCount \in [Notifs -> Nat]
  /\ sendingAge \in [Notifs -> 0..AgeCap]

RecordTypeOK ==
  /\ deliveryAttempts \in [Notifs -> SUBSET Nat]
  /\ deadLetters \subseteq Notifs

OutboxTableOK == outbox \in [OutboxIds -> OutboxRow]

(* Where a worker is and which delivery it has. *)
ControlOK ==
  /\ pc \in [Workers -> Labels]
  /\ job \in [Workers -> Notifs \cup {None}]
  /\ redel \in [Workers -> 0..MaxRedeliveries]
  /\ left \in [Workers -> 0..HandleTimeout]
  /\ unacked \in [Workers -> BOOLEAN]
  /\ ret \in [Workers -> {"nil", "err", "terminal"}]
  /\ HasJob

(* What it has obtained for it. *)
EffectOK ==
  /\ attempt \in [Workers -> Nat]
  /\ lockTTL \in [Notifs -> 0..LockTTL]
  /\ calls \in [Notifs -> Nat]
  /\ accepted \in [Notifs -> Nat]
  /\ deferred \subseteq Notifs
  /\ dropped \subseteq Notifs

DispatchersOK == OutboxTypeOK /\ HasRow

(* The layer is the conjunction of its components, now and after a step. *)
LEMMA TypeParts ==
  TypeInv <=> /\ RowTypeOK /\ RecordTypeOK /\ OutboxTableOK /\ BrokerTypeOK
              /\ ControlOK /\ EffectOK /\ DispatchersOK /\ FaultsTypeOK
BY DEF TypeInv, TypeOK, StoreTypeOK, WorkerTypeOK, RowTypeOK, RecordTypeOK, OutboxTableOK,
       ControlOK, EffectOK, DispatchersOK

(* And the components of the next state add up to layer 1 there. *)
LEMMA TypePartsNext ==
  TypeInv' <=> /\ RowTypeOK' /\ RecordTypeOK' /\ OutboxTableOK' /\ BrokerTypeOK'
               /\ ControlOK' /\ EffectOK' /\ DispatchersOK' /\ FaultsTypeOK'
BY DEF TypeInv, TypeOK, StoreTypeOK, WorkerTypeOK, RowTypeOK, RecordTypeOK, OutboxTableOK,
       ControlOK, EffectOK, DispatchersOK

(* Frames: a component whose variables do not change keeps its type. *)
LEMMA RowFrame == RowTypeOK /\ UNCHANGED rowVars => RowTypeOK'
BY DEF RowTypeOK

(* delivery_attempts and dead_letters that do not change keep their types. *)
LEMMA RecordFrame == RecordTypeOK /\ UNCHANGED <<deliveryAttempts, deadLetters>> => RecordTypeOK'
BY DEF RecordTypeOK

(* Queues that do not change keep their types. *)
LEMMA BrokerFrame == BrokerTypeOK /\ UNCHANGED brokerVars => BrokerTypeOK'
BY DEF BrokerTypeOK

(* Workers that do not move keep their control state. *)
LEMMA ControlFrame ==
  ControlOK /\ UNCHANGED <<pc, job, redel, left, unacked, ret>> => ControlOK'
BY DEF ControlOK, HasJob, Busy

(* A key and counters that do not change keep their types. *)
LEMMA EffectFrame ==
  EffectOK /\ UNCHANGED <<attempt, lockTTL, observedVars>> => EffectOK'
BY DEF EffectOK

-----------------------------------------------------------------------------
(* Rows and records *)

(* Some statement on row n, or none. *)
RowQuery(n) ==
  \/ MarkSendingCAS(n) \/ MarkSent(n) \/ CancelPendingOrQueued(n) \/ MarkQueued(n)
  \/ RevertToQueuedNoAttempt(n) \/ RevertToQueued(n) \/ MarkDeadLetter(n)
  \/ UNCHANGED rowVars

(* An UPDATE of one row's status keeps the column types. *)
LEMMA SetStatusType ==
  ASSUME RowTypeOK, NEW n \in Notifs, NEW s \in Statuses, SetStatus(n, s),
         attemptCount' = attemptCount \/ attemptCount' = [attemptCount EXCEPT ![n] = @ + 1]
  PROVE  RowTypeOK'
<1>1. status' \in [Notifs -> Statuses]
  BY DEF RowTypeOK, SetStatus
<1>2. sendingAge' \in [Notifs -> 0..AgeCap]
  BY StoreAssumption DEF RowTypeOK, SetStatus, AgeCap
<1>3. attemptCount' \in [Notifs -> Nat]
  BY DEF RowTypeOK
<1> QED
  BY <1>1, <1>2, <1>3 DEF RowTypeOK

(* A statement on a row keeps the column types. *)
LEMMA RowQueryType ==
  ASSUME RowTypeOK, NEW n \in Notifs, RowQuery(n)
  PROVE  RowTypeOK'
<1>s. {"sending", "sent", "cancelled", "queued", "dead_letter"} \subseteq Statuses
  BY DEF Statuses
<1>1. CASE UNCHANGED rowVars
  BY <1>1, RowFrame
<1>2. CASE RevertToQueued(n)
  BY <1>s, <1>1, <1>2, SetStatusType DEF RevertToQueued
<1>3. CASE \/ MarkSendingCAS(n) \/ MarkSent(n) \/ CancelPendingOrQueued(n)
           \/ MarkQueued(n) \/ RevertToQueuedNoAttempt(n) \/ MarkDeadLetter(n)
  BY <1>s, <1>1, <1>3, SetStatusType
     DEF MarkSendingCAS, MarkSent, CancelPendingOrQueued, MarkQueued, RevertToQueuedNoAttempt,
         MarkDeadLetter
<1> QED
  BY <1>1, <1>2, <1>3 DEF RowQuery

-----------------------------------------------------------------------------
(* Broker *)

(* One more copy of a message keeps a queue a bag of messages. *)
LEMMA MessageAdded ==
  ASSUME NEW q \in [Message -> Nat], NEW m
  PROVE  [q EXCEPT ![m] = @ + 1] \in [Message -> Nat]
<1> DEFINE f == [q EXCEPT ![m] = @ + 1]
<1>1. f = [x \in Message |-> IF x = m THEN q[x] + 1 ELSE q[x]]
  BY Zenon
<1>2. \A x \in Message : (IF x = m THEN q[x] + 1 ELSE q[x]) \in Nat
  OBVIOUS
<1> QED
  BY Zenon, <1>1, <1>2

(* One copy less does, if there was one. *)
LEMMA MessageRemoved ==
  ASSUME NEW q \in [Message -> Nat], NEW m \in Message, q[m] > 0
  PROVE  [q EXCEPT ![m] = @ - 1] \in [Message -> Nat]
OBVIOUS

(* Publishing to the main exchange keeps the queue's type. *)
LEMMA EnqueueType ==
  ASSUME BrokerTypeOK, NEW m, Enqueue(m)
  PROVE  mainQ' \in [Message -> Nat]
BY MessageAdded DEF BrokerTypeOK, Enqueue

(* Publishing to a wait tier keeps its type. *)
LEMMA PublishToWaitType ==
  ASSUME BrokerTypeOK, NEW m, PublishToWait(m)
  PROVE  waitQ' \in [Message -> Nat]
BY MessageAdded DEF BrokerTypeOK, PublishToWait

-----------------------------------------------------------------------------
(* Faults *)

(* No fault, or one within the budget. *)
FaultsMove == faults' = faults \/ (faults < MaxFaults /\ faults' = faults + 1)

(* The count stays within the budget. *)
LEMMA FaultsType == FaultsTypeOK /\ FaultsMove => FaultsTypeOK'
BY FaultsAssumption DEF FaultsTypeOK, FaultsMove

-----------------------------------------------------------------------------
(* The calls of a handler *)

(* What a call of a handler does to its control state: it is somewhere else *)
(* in handle, perhaps with a return value, with the same delivery.          *)
Control(w) ==
  /\ Busy(w)
  /\ \E l \in Labels : pc' = [pc EXCEPT ![w] = l]
  /\ ret' = ret \/ \E r \in {"nil", "err", "terminal"} : ret' = [ret EXCEPT ![w] = r]
  /\ UNCHANGED deliveryVars

(* Such a move keeps the control state's type. *)
LEMMA ControlType ==
  ASSUME ControlOK, NEW w \in Workers, Control(w)
  PROVE  ControlOK'
<1>1. pc' \in [Workers -> Labels] /\ \A v \in Workers : v # w => pc'[v] = pc[v]
  BY DEF ControlOK, Control
<1>2. ret' \in [Workers -> {"nil", "err", "terminal"}]
  BY DEF ControlOK, Control
<1>3. HasJob'
  BY <1>1 DEF ControlOK, Control, HasJob, Busy
<1> QED
  BY <1>1, <1>2, <1>3 DEF ControlOK, Control

(* Ready for the next delivery. *)
LEMMA ResetType ==
  ASSUME ControlOK, EffectOK, NEW w \in Workers, Busy(w), Reset(w),
         UNCHANGED <<lockTTL, calls, accepted, deferred>>, UNCHANGED dropped \/ DropsIfCut(w)
  PROVE  ControlOK' /\ EffectOK'
<1>1. /\ pc' \in [Workers -> Labels] /\ pc'[w] = "idle"
      /\ \A v \in Workers : v # w => pc'[v] = pc[v]
  BY DEF ControlOK, Reset, Labels
<1>2. /\ job' \in [Workers -> Notifs \cup {None}]
      /\ \A v \in Workers : v # w => job'[v] = job[v]
  BY DEF ControlOK, Reset
<1>3. redel' \in [Workers -> 0..MaxRedeliveries] /\ left' \in [Workers -> 0..HandleTimeout]
  BY BrokerAssumption, WorkerAssumption DEF ControlOK, Reset
<1>4. unacked' \in [Workers -> BOOLEAN] /\ ret' \in [Workers -> {"nil", "err", "terminal"}]
  BY DEF ControlOK, Reset
<1>5. HasJob'
  BY <1>1, <1>2 DEF ControlOK, HasJob, Busy
<1>6. attempt' \in [Workers -> Nat] /\ dropped' \subseteq Notifs
  BY Zenon DEF EffectOK, Reset, DropsIfCut, ControlOK, HasJob
<1> QED
  BY <1>1, <1>2, <1>3, <1>4, <1>5, <1>6 DEF ControlOK, EffectOK

(* A handler's call moves its control state, except the last, which ends it. *)
LEMMA HandlerControl ==
  ASSUME NEW w \in Workers, HandlerStep(w)
  PROVE  Control(w) \/ Settle(w)
<1> USE DEF Control, Goto, Returns, Busy, Labels
<1>1. CASE CASHit(w) \/ CASMiss(w) \/ CASError(w)
  BY Zenon, <1>1 DEF CASHit, CASMiss, CASError
<1>2. CASE AcquireLock(w) \/ LockHeld(w) \/ SetNXError(w) \/ DeferToHolder(w)
  BY Zenon, <1>2 DEF AcquireLock, LockHeld, SetNXError, DeferToHolder
<1>3. CASE TakeAllowed(w) \/ TakeThrottled(w) \/ TakeError(w)
  BY <1>3 DEF TakeAllowed, TakeThrottled, TakeError
<1>4. CASE StartCall(w) \/ BreakerOpen(w) \/ SendCancelled(w)
  BY Zenon, <1>4 DEF StartCall, BreakerOpen, SendCancelled, AfterFailure
<1>5. CASE CallSucceeds(w) \/ CallFailsRetryable(w) \/ CallFailsTerminal(w)
  BY Zenon, <1>5 DEF CallSucceeds, CallFailsRetryable, CallFailsTerminal, AfterFailure
<1>6. CASE RecordAttempt(w)
  BY <1>6 DEF RecordAttempt
<1>7. CASE RevertForRetry(w) \/ routeToRetryTier(w)
  BY <1>7 DEF RevertForRetry, routeToRetryTier
<1>8. CASE TerminalMark(w) \/ TerminalInsert(w)
  BY <1>8 DEF TerminalMark, TerminalInsert
<1>9. CASE MarkSentOk(w) \/ MarkSentError(w) \/ UndoAfterMarkSent(w)
  BY <1>9 DEF MarkSentOk, MarkSentError, UndoAfterMarkSent
<1>10. CASE Unlock(w) \/ requeueViaWaitTier(w)
  BY Zenon, <1>10 DEF Unlock, requeueViaWaitTier
<1> QED
  BY Zenon, <1>1, <1>2, <1>3, <1>4, <1>5, <1>6, <1>7, <1>8, <1>9, <1>10 DEF HandlerStep

(* A handler's call writes its own row with one statement, or inserts a     *)
(* delivery_attempts or dead_letters row, or leaves the tables alone.       *)
LEMMA HandlerTables ==
  ASSUME NEW w \in Workers, HandlerStep(w)
  PROVE  /\ UNCHANGED outbox
         /\ RowQuery(job[w])
         /\ UNCHANGED deliveryAttempts \/ RecordAttempt(w)
         /\ UNCHANGED deadLetters \/ TerminalInsert(w)
<1> USE DEF RowQuery
<1>1. CASE CASHit(w) \/ CASMiss(w) \/ CASError(w)
  BY Zenon, <1>1 DEF CASHit, CASMiss, CASError
<1>2. CASE AcquireLock(w) \/ LockHeld(w) \/ SetNXError(w) \/ DeferToHolder(w)
  BY Zenon, <1>2 DEF AcquireLock, LockHeld, SetNXError, DeferToHolder
<1>3. CASE TakeAllowed(w) \/ TakeThrottled(w) \/ TakeError(w)
  BY <1>3 DEF TakeAllowed, TakeThrottled, TakeError
<1>4. CASE StartCall(w) \/ BreakerOpen(w) \/ SendCancelled(w)
  BY Zenon, <1>4 DEF StartCall, BreakerOpen, SendCancelled
<1>5. CASE CallSucceeds(w) \/ CallFailsRetryable(w) \/ CallFailsTerminal(w)
  BY Zenon, <1>5 DEF CallSucceeds, CallFailsRetryable, CallFailsTerminal
<1>6. CASE RecordAttempt(w)
  BY Zenon, <1>6 DEF RecordAttempt
<1>7. CASE RevertForRetry(w) \/ routeToRetryTier(w)
  BY <1>7 DEF RevertForRetry, routeToRetryTier
<1>8. CASE TerminalMark(w) \/ TerminalInsert(w)
  BY <1>8 DEF TerminalMark, TerminalInsert
<1>9. CASE MarkSentOk(w) \/ MarkSentError(w) \/ UndoAfterMarkSent(w)
  BY Zenon, <1>9 DEF MarkSentOk, MarkSentError, UndoAfterMarkSent
<1>10. CASE Unlock(w) \/ requeueViaWaitTier(w) \/ Settle(w)
  BY <1>10 DEF Unlock, requeueViaWaitTier, Settle
<1> QED
  BY Zenon, <1>1, <1>2, <1>3, <1>4, <1>5, <1>6, <1>7, <1>8, <1>9, <1>10 DEF HandlerStep

(* Only the calls that publish or settle touch the broker. *)
LEMMA HandlerBroker ==
  ASSUME BrokerTypeOK, ControlOK, NEW w \in Workers, HandlerStep(w)
  PROVE  BrokerTypeOK'
<1>0. CASE UNCHANGED brokerVars
  BY <1>0, BrokerFrame
<1>1. CASE routeToRetryTier(w)
  <2>1. waitQ' \in [Message -> Nat]
    BY <1>1, PublishToWaitType DEF routeToRetryTier, BrokerTypeOK
  <2> QED
    BY <1>1, <2>1 DEF routeToRetryTier, BrokerTypeOK
<1>2. CASE requeueViaWaitTier(w)
  <2>1. waitQ' \in [Message -> Nat]
    BY Zenon, <1>2, PublishToWaitType DEF requeueViaWaitTier, BrokerTypeOK
  <2> QED
    BY Zenon, <1>2, <2>1 DEF requeueViaWaitTier, BrokerTypeOK
<1>3. CASE Settle(w)
  <2>1. mainQ' \in [Message -> Nat]
    BY <1>3, EnqueueType DEF Settle, BrokerTypeOK
  <2>2. dlq' \subseteq Notifs
    BY <1>3 DEF Settle, BrokerTypeOK, ControlOK, HasJob, Busy
  <2> QED
    BY <1>3, <2>1, <2>2 DEF Settle, BrokerTypeOK
<1>4. UNCHANGED brokerVars \/ routeToRetryTier(w) \/ requeueViaWaitTier(w) \/ Settle(w)
  BY Zenon DEF HandlerStep, CASHit, CASMiss, CASError, AcquireLock, LockHeld, SetNXError, DeferToHolder,
     TakeAllowed, TakeThrottled, TakeError, StartCall, BreakerOpen, SendCancelled, CallSucceeds,
     CallFailsRetryable, CallFailsTerminal, RecordAttempt, RevertForRetry, TerminalMark,
     TerminalInsert, MarkSentOk, MarkSentError, UndoAfterMarkSent, Unlock
<1> QED
  BY <1>0, <1>1, <1>2, <1>3, <1>4

(* A handler's call is no fault or one. *)
LEMMA HandlerFaults ==
  ASSUME NEW w \in Workers, HandlerStep(w)
  PROVE  FaultsMove
<1> USE DEF FaultsMove, CallOk, CallFails, CallLost, Fault, NoFault
<1>1. CASE CASHit(w) \/ CASMiss(w) \/ CASError(w)
  BY Zenon, <1>1 DEF CASHit, CASMiss, CASError
<1>2. CASE AcquireLock(w) \/ LockHeld(w) \/ SetNXError(w) \/ DeferToHolder(w)
  BY <1>2 DEF AcquireLock, LockHeld, SetNXError, DeferToHolder
<1>3. CASE TakeAllowed(w) \/ TakeThrottled(w) \/ TakeError(w)
  BY <1>3 DEF TakeAllowed, TakeThrottled, TakeError
<1>4. CASE StartCall(w) \/ BreakerOpen(w) \/ SendCancelled(w)
  BY Zenon, <1>4 DEF StartCall, BreakerOpen, SendCancelled
<1>5. CASE CallSucceeds(w) \/ CallFailsRetryable(w) \/ CallFailsTerminal(w)
  BY Zenon, <1>5 DEF CallSucceeds, CallFailsRetryable, CallFailsTerminal
<1>6. CASE RecordAttempt(w)
  BY Zenon, <1>6 DEF RecordAttempt
<1>7. CASE RevertForRetry(w) \/ routeToRetryTier(w)
  BY <1>7 DEF RevertForRetry, routeToRetryTier
<1>8. CASE TerminalMark(w) \/ TerminalInsert(w)
  BY Zenon, <1>8 DEF TerminalMark, TerminalInsert
<1>9. CASE MarkSentOk(w) \/ MarkSentError(w) \/ UndoAfterMarkSent(w)
  BY <1>9 DEF MarkSentOk, MarkSentError, UndoAfterMarkSent
<1>10. CASE Unlock(w) \/ requeueViaWaitTier(w) \/ Settle(w)
  BY Zenon, <1>10 DEF Unlock, requeueViaWaitTier, Settle
<1> QED
  BY Zenon, <1>1, <1>2, <1>3, <1>4, <1>5, <1>6, <1>7, <1>8, <1>9, <1>10 DEF HandlerStep

(* The calls that obtain something: an attempt number, the key, an answer.  *)
LEMMA HandlerEffect ==
  ASSUME RowTypeOK, ControlOK, EffectOK, NEW w \in Workers, HandlerStep(w), ~Settle(w)
  PROVE  EffectOK'
<1>j. job[w] \in Notifs
  BY HandlerControl DEF Control, ControlOK, HasJob
<1>0. CASE UNCHANGED <<attempt, lockTTL, observedVars>>
  BY <1>0, EffectFrame
<1>1. CASE CASHit(w)
  BY <1>j, <1>1 DEF CASHit, EffectOK, RowTypeOK
<1>2. CASE AcquireLock(w) \/ SetNXError(w) \/ Unlock(w)
  <2>1. \E t \in 0..LockTTL : lockTTL' = [lockTTL EXCEPT ![job[w]] = t] \/ UNCHANGED lockTTL
    BY <1>2, WorkerAssumption DEF AcquireLock, SetNXError, Unlock, SetNX
  <2>2. lockTTL' \in [Notifs -> 0..LockTTL]
    BY <2>1 DEF EffectOK
  <2> QED
    BY Zenon, <1>2, <2>2 DEF AcquireLock, SetNXError, Unlock, EffectOK
<1>3. CASE DeferToHolder(w)
  BY <1>j, <1>3 DEF DeferToHolder, EffectOK
<1>4. CASE StartCall(w)
  BY <1>j, <1>4 DEF StartCall, EffectOK
<1>5. CASE CallSucceeds(w) \/ CallFailsRetryable(w)
  <2>1. accepted' = accepted \/ accepted' = [accepted EXCEPT ![job[w]] = @ + 1]
    BY Zenon, <1>5 DEF CallSucceeds, CallFailsRetryable
  <2>2. accepted' \in [Notifs -> Nat]
    BY <1>j, <2>1 DEF EffectOK
  <2> QED
    BY Zenon, <1>5, <2>2 DEF CallSucceeds, CallFailsRetryable, EffectOK
<1>6. CASE requeueViaWaitTier(w)
  BY <1>j, <1>6 DEF requeueViaWaitTier, DropsIfCut, EffectOK
<1>7. \/ UNCHANGED <<attempt, lockTTL, observedVars>>
      \/ requeueViaWaitTier(w) \/ CASHit(w) \/ AcquireLock(w) \/ SetNXError(w) \/ Unlock(w) \/ DeferToHolder(w)
      \/ StartCall(w) \/ CallSucceeds(w) \/ CallFailsRetryable(w)
  BY Zenon DEF HandlerStep, CASMiss, CASError, LockHeld, TakeAllowed, TakeThrottled, TakeError,
     BreakerOpen, SendCancelled, CallFailsTerminal, RecordAttempt, RevertForRetry,
     routeToRetryTier, TerminalMark, TerminalInsert, MarkSentOk, MarkSentError,
     UndoAfterMarkSent
<1> QED
  BY <1>0, <1>1, <1>2, <1>3, <1>4, <1>5, <1>6, <1>7

(* Layer 1 through every call of a handler. *)
LEMMA TypeHandler ==
  ASSUME TypeInv, NEW w \in Workers, HandlerStep(w)
  PROVE  /\ RowTypeOK' /\ RecordTypeOK' /\ UNCHANGED outbox /\ BrokerTypeOK'
         /\ ControlOK' /\ EffectOK' /\ FaultsTypeOK'
<1>t. /\ RowTypeOK /\ RecordTypeOK /\ BrokerTypeOK /\ ControlOK /\ EffectOK /\ FaultsTypeOK
  BY TypeParts
<1>j. job[w] \in Notifs
  <2>1. Busy(w)
    BY Zenon, HandlerControl DEF Control, Settle, Busy
  <2> QED
    BY <1>t, <2>1 DEF ControlOK, HasJob
<1>1. RowTypeOK' /\ UNCHANGED outbox
  BY <1>t, <1>j, HandlerTables, RowQueryType
<1>2. RecordTypeOK'
  <2>1. deliveryAttempts' \in [Notifs -> SUBSET Nat]
    BY <1>t, <1>j, HandlerTables DEF RecordAttempt, InsertDeliveryAttempt, RecordTypeOK, EffectOK
  <2>2. deadLetters' \subseteq Notifs
    BY <1>t, <1>j, HandlerTables DEF TerminalInsert, InsertDeadLetter, RecordTypeOK
  <2> QED
    BY <2>1, <2>2 DEF RecordTypeOK
<1>3. BrokerTypeOK' /\ FaultsTypeOK'
  BY Zenon, <1>t, HandlerBroker, HandlerFaults, FaultsType
<1>4. CASE Settle(w)
  BY <1>t, <1>1, <1>2, <1>3, <1>4, ResetType DEF Settle, Busy
<1>5. CASE ~Settle(w)
  BY Zenon, <1>t, <1>1, <1>2, <1>3, <1>5, HandlerControl, ControlType, HandlerEffect
<1> QED
  BY <1>4, <1>5

-----------------------------------------------------------------------------
(* What happens to a worker, and time *)

(* A delivery arrives. *)
LEMMA TypeDeliver ==
  ASSUME BrokerTypeOK, ControlOK, NEW w \in Workers, Deliver(w)
  PROVE  BrokerTypeOK' /\ ControlOK'
<1>1. PICK m \in Message : Deliver(w)!(m)
  BY Zenon DEF Deliver
<1>2. m[1] \in Notifs /\ m[2] \in 0..MaxRedeliveries
  BY DEF Message
<1>3. BrokerTypeOK'
  BY Zenon, <1>1, MessageRemoved DEF Dequeue, BrokerTypeOK
<1>4. /\ pc' \in [Workers -> Labels] /\ ret' \in [Workers -> {"nil", "err", "terminal"}]
      /\ \A v \in Workers : v # w => pc'[v] = pc[v]
  BY <1>1 DEF Goto, Returns, ControlOK, Labels
<1>5. /\ job' \in [Workers -> Notifs \cup {None}] /\ job'[w] \in Notifs
      /\ \A v \in Workers : v # w => job'[v] = job[v]
  BY <1>1, <1>2 DEF ControlOK
<1>6. redel' \in [Workers -> 0..MaxRedeliveries]
  BY Zenon, <1>1, <1>2 DEF ControlOK
<1>7. left' \in [Workers -> 0..HandleTimeout] /\ unacked' \in [Workers -> BOOLEAN]
  BY <1>1, WorkerAssumption DEF ControlOK
<1>8. HasJob'
  BY <1>4, <1>5 DEF ControlOK, HasJob, Busy
<1> QED
  BY <1>3, <1>4, <1>5, <1>6, <1>7, <1>8 DEF ControlOK

(* The connection drops or the replica is stopped: the handler runs on. *)
LEMMA TypeInterrupted ==
  ASSUME BrokerTypeOK, ControlOK, NEW w \in Workers, ConnectionLost(w) \/ Shutdown(w)
  PROVE  BrokerTypeOK' /\ ControlOK'
<1>1. CASE ConnectionLost(w)
  <2>1. BrokerTypeOK'
    BY <1>1, EnqueueType DEF ConnectionLost, BrokerTypeOK
  <2>2. unacked' \in [Workers -> BOOLEAN]
    BY Zenon, <1>1 DEF ConnectionLost, ControlOK
  <2> QED
    BY Zenon, <1>1, <2>1, <2>2 DEF ConnectionLost, ControlOK, HasJob, Busy
<1>2. CASE Shutdown(w)
  <2>1. left' \in [Workers -> 0..HandleTimeout]
    BY <1>2, WorkerAssumption DEF Shutdown, ControlOK
  <2> QED
    BY Zenon, <1>2, <2>1, BrokerFrame DEF Shutdown, ControlOK, HasJob, Busy
<1> QED
  BY Zenon, <1>1, <1>2

(* Deadlines, keys and ages stay in their ranges as time passes. *)
LEMMA TypeTick ==
  ASSUME RowTypeOK, ControlOK, EffectOK, Tick
  PROVE  RowTypeOK' /\ ControlOK' /\ EffectOK'
<1>1. left' \in [Workers -> 0..HandleTimeout]
  <2>1. \A w \in Workers : left[w] \in 0..HandleTimeout /\ (Busy(w) => left[w] # 0)
    BY DEF Tick, CtxDone, ControlOK
  <2>2. \A w \in Workers : (IF Busy(w) THEN left[w] - 1 ELSE left[w]) \in 0..HandleTimeout
    BY ONLY <2>1, WorkerAssumption
  <2> QED
    BY <2>2 DEF Tick
<1>2. lockTTL' \in [Notifs -> 0..LockTTL]
  <2>1. \A n \in Notifs : (IF lockTTL[n] > 0 THEN lockTTL[n] - 1 ELSE 0) \in 0..LockTTL
    BY WorkerAssumption DEF EffectOK
  <2> QED
    BY <2>1 DEF Tick, ExpireLocks
<1>3. sendingAge' \in [Notifs -> 0..AgeCap]
  <2>1. \A n \in Notifs : (IF IsSending(n) /\ sendingAge[n] < AgeCap
                           THEN sendingAge[n] + 1 ELSE sendingAge[n]) \in 0..AgeCap
    BY StoreAssumption DEF RowTypeOK, AgeCap
  <2> QED
    BY <2>1 DEF Tick, AgeSendingRows
<1>4. ControlOK'
  BY Zenon, <1>1 DEF Tick, ControlOK, HasJob, Busy
<1> QED
  BY <1>2, <1>3, <1>4 DEF Tick, RowTypeOK, EffectOK

(* Layer 1, except the dispatchers' part, through every step of WorkerNext. *)
LEMMA TypeWorker ==
  ASSUME TypeInv, WorkerNext
  PROVE  /\ RowTypeOK' /\ RecordTypeOK' /\ UNCHANGED outbox /\ BrokerTypeOK'
         /\ ControlOK' /\ EffectOK' /\ FaultsTypeOK'
<1>t. /\ RowTypeOK /\ RecordTypeOK /\ BrokerTypeOK /\ ControlOK /\ EffectOK /\ FaultsTypeOK
  BY TypeParts
<1> DEFINE Goal == /\ RowTypeOK' /\ RecordTypeOK' /\ UNCHANGED outbox /\ BrokerTypeOK'
                   /\ ControlOK' /\ EffectOK' /\ FaultsTypeOK'
<1>1. ASSUME NEW w \in Workers, Deliver(w)
      PROVE  Goal
  BY Zenon, <1>t, <1>1, TypeDeliver, RowFrame, RecordFrame, EffectFrame, FaultsType
     DEF Deliver, NoFault, FaultsMove
<1>2. ASSUME NEW w \in Workers, HandlerStep(w)
      PROVE  Goal
  BY Zenon, <1>2, TypeHandler
<1>3. ASSUME NEW w \in Workers, WorkerCrash(w)
      PROVE  Goal
  <2>1. BrokerTypeOK'
    BY Zenon, <1>t, <1>3, EnqueueType DEF WorkerCrash, BrokerTypeOK
  <2> QED
    BY <1>t, <1>3, <2>1, ResetType, RowFrame, RecordFrame, FaultsType
       DEF WorkerCrash, Fault, FaultsMove
<1>4. ASSUME NEW w \in Workers, ConnectionLost(w) \/ Shutdown(w)
      PROVE  Goal
  BY Zenon, <1>t, <1>4, TypeInterrupted, RowFrame, RecordFrame, EffectFrame, FaultsType
     DEF ConnectionLost, Shutdown, Fault, NoFault, FaultsMove
<1>5. CASE Tick
  BY <1>t, <1>5, TypeTick, RecordFrame, BrokerFrame, FaultsType
     DEF Tick, Fault, NoFault, FaultsMove
<1> QED
  BY <1>1, <1>2, <1>3, <1>4, <1>5 DEF WorkerNext

-----------------------------------------------------------------------------
(* The outbox table *)

(* Outbox rows keep their type and their notification. *)
OutboxKept ==
  /\ outbox' \in [OutboxIds -> OutboxRow]
  /\ \A i \in OutboxIds : outbox[i].notif \in Notifs => outbox'[i].notif \in Notifs

(* A statement on an outbox row keeps the table's type and its rows. *)
LEMMA OutboxStatementType ==
  ASSUME OutboxTableOK, NEW i \in OutboxIds,
         \/ MarkOutboxPublished(i)
         \/ MarkOutboxFailed(i)
         \/ outbox' = [outbox EXCEPT ![i].claimed = FALSE]
         \/ UNCHANGED outbox
  PROVE  OutboxKept
<1> USE DEF OutboxTableOK, OutboxKept
<1>0. outbox[i] \in OutboxRow
  OBVIOUS
<1>a. ASSUME NEW r \in OutboxRow, r.notif = outbox[i].notif, outbox' = [outbox EXCEPT ![i] = r]
      PROVE  OutboxKept
  BY <1>a
<1>1. CASE MarkOutboxPublished(i)
  <2> DEFINE r == [FreeRow EXCEPT !.notif = outbox[i].notif, !.published = TRUE]
  <2>1. r \in OutboxRow /\ r.notif = outbox[i].notif
    BY Zenon, <1>0 DEF OutboxRow, FreeRow
  <2>2. outbox' = [outbox EXCEPT ![i] = r]
    BY <1>1 DEF MarkOutboxPublished
  <2> QED
    BY <2>1, <2>2, <1>a
<1>2. CASE MarkOutboxFailed(i)
  <2> DEFINE r == [FreeRow EXCEPT !.notif = outbox[i].notif,
                                  !.attempts = outbox[i].attempts + 1]
  <2>0. outbox[i].notif \in Notifs \cup {None} /\ outbox[i].attempts + 1 \in Nat
    BY <1>0 DEF OutboxRow
  <2>1. r \in OutboxRow /\ r.notif = outbox[i].notif
    BY Zenon, <2>0 DEF OutboxRow, FreeRow
  <2>2. outbox' = [outbox EXCEPT ![i] = r] \/ UNCHANGED outbox
    BY <1>2 DEF MarkOutboxFailed
  <2> QED
    BY Zenon, <2>1, <2>2, <1>a
<1>3. CASE outbox' = [outbox EXCEPT ![i].claimed = FALSE]
  <2> DEFINE r == [outbox[i] EXCEPT !.claimed = FALSE]
  <2>1. r \in OutboxRow /\ r.notif = outbox[i].notif
    BY Zenon, <1>0 DEF OutboxRow
  <2> QED
    BY <2>1, <1>3, <1>a
<1> QED
  BY <1>1, <1>2, <1>3

(* persist's INSERT fills a free row and keeps the others. *)
LEMMA InsertOutboxType ==
  ASSUME OutboxTableOK, NEW n \in Notifs, InsertOutbox(n)
  PROVE  OutboxKept
<1>1. PICK i \in FreeIds : outbox' = [outbox EXCEPT ![i] = [FreeRow EXCEPT !.notif = n]]
  BY Zenon DEF InsertOutbox
<1>2. [FreeRow EXCEPT !.notif = n] \in OutboxRow /\ [FreeRow EXCEPT !.notif = n].notif = n
  BY Zenon DEF FreeRow, OutboxRow
<1> QED
  BY <1>1, <1>2 DEF OutboxKept, OutboxTableOK, FreeIds

(* So do the sweeper's INSERTs. *)
LEMMA InsertOutboxAllType ==
  ASSUME OutboxTableOK, NEW S \in SUBSET Notifs, InsertOutboxAll(S)
  PROVE  OutboxKept
<1>1. PICK new \in [S -> FreeIds] :
        outbox' = [i \in OutboxIds |->
                     IF \E n \in S : new[n] = i
                     THEN [FreeRow EXCEPT !.notif = CHOOSE n \in S : new[n] = i]
                     ELSE outbox[i]]
  BY DEF InsertOutboxAll
<1>2. ASSUME NEW n \in Notifs
      PROVE  [FreeRow EXCEPT !.notif = n] \in OutboxRow /\ [FreeRow EXCEPT !.notif = n].notif = n
  BY Zenon DEF FreeRow, OutboxRow
<1>3. ASSUME NEW i \in OutboxIds, \E n \in S : new[n] = i
      PROVE  (CHOOSE n \in S : new[n] = i) \in Notifs
  BY Zenon, <1>3
<1> QED
  BY <1>1, <1>2, <1>3 DEF OutboxKept, OutboxTableOK

-----------------------------------------------------------------------------
(* Dispatchers *)

(* Rows a dispatcher has claimed stay inserted. *)
LEMMA DispatchersFrame ==
  ASSUME DispatchersOK, OutboxKept, UNCHANGED outboxVars
  PROVE  DispatchersOK'
BY DEF DispatchersOK, OutboxTypeOK, HasRow, InsertedRow, OutboxKept

(* What a dispatcher's call after the publish does to its control state. *)
DControl(d) ==
  \E from \in DispatcherLabels \ {"ready"}, to \in DispatcherLabels :
    /\ UNCHANGED batch
    /\ UNCHANGED forgotten \/ forgotten' = forgotten \cup {CurNotif(d)}
    /\ \/ DGoto(d, from, to) /\ UNCHANGED cur
       \/ DDone(d, from)

(* Such a move keeps the dispatchers' type. *)
LEMMA DControlType ==
  ASSUME DispatchersOK, OutboxKept, NEW d \in Dispatchers, DControl(d)
  PROVE  DispatchersOK'
<1>1. PICK from \in DispatcherLabels \ {"ready"}, to \in DispatcherLabels :
        \/ DGoto(d, from, to) /\ UNCHANGED cur
        \/ DDone(d, from)
  BY DEF DControl
<1>2. /\ dpc' \in [Dispatchers -> DispatcherLabels]
      /\ \A e \in Dispatchers : dpc'[e] # "ready" => dpc[e] # "ready"
  BY <1>1 DEF DGoto, DDone, DispatchersOK, OutboxTypeOK, DispatcherLabels
<1>f. forgotten' \subseteq Notifs
  <2>1. dpc[d] # "ready"
    BY Zenon, <1>1 DEF DGoto, DDone
  <2> QED
    BY <2>1 DEF DControl, DispatchersOK, OutboxTypeOK, HasRow, InsertedRow, CurNotif
<1>3. CASE UNCHANGED cur
  BY Zenon, <1>2, <1>f, <1>3 DEF DControl, DispatchersOK, OutboxTypeOK, HasRow, InsertedRow, OutboxKept
<1>4. CASE DDone(d, from)
  <2>1. <<0, 0>> \in Claim
    BY StoreAssumption DEF Claim
  <2>2. /\ cur' \in [Dispatchers -> Claim] /\ dpc'[d] = "ready"
        /\ \A e \in Dispatchers : e # d => cur'[e] = cur[e]
    BY <1>4, <2>1 DEF DDone, DGoto, DispatchersOK, OutboxTypeOK
  <2> QED
    BY <1>2, <1>f, <2>2 DEF DControl, DispatchersOK, OutboxTypeOK, HasRow, InsertedRow, OutboxKept
<1> QED
  BY <1>1, <1>3, <1>4

(* ClaimOutboxBatch hands inserted rows to the dispatcher. *)
LEMMA TypeClaim ==
  ASSUME OutboxTableOK, DispatchersOK, NEW d \in Dispatchers, ClaimOutboxBatch(d)
  PROVE  OutboxKept /\ DispatchersOK'
<1> DEFINE S == Oldest(Claimable, BatchSize)
<1>1. S \subseteq OutboxIds /\ \A i \in S : outbox[i].notif \in Notifs /\ outbox[i].attempts \in Nat
  BY DEF Oldest, Claimable, Unpublished, OutboxRow, OutboxTableOK
<1>2. outbox' = [i \in OutboxIds |-> IF i \in S THEN [outbox[i] EXCEPT !.claimed = TRUE]
                                                ELSE outbox[i]]
  BY DEF ClaimOutboxBatch
<1>3. \/ batch' = [batch EXCEPT ![d] = {<<i, outbox[i].attempts>> : i \in S}]
      \/ batch' = batch
  BY DEF ClaimOutboxBatch
<1> HIDE DEF S
<1>4. OutboxKept
  <2>1. ASSUME NEW r \in OutboxRow
        PROVE  /\ [r EXCEPT !.claimed = TRUE] \in OutboxRow
               /\ [r EXCEPT !.claimed = TRUE].notif = r.notif
    BY Zenon DEF OutboxRow
  <2> QED
    BY <1>2, <2>1 DEF OutboxKept, OutboxTableOK
<1> DEFINE C == {<<i, outbox[i].attempts>> : i \in S}
<1>5. C \subseteq OutboxIds \X Nat /\ \A c \in C : InsertedRow(c[1])
  BY <1>1 DEF InsertedRow
<1>6. batch' = [batch EXCEPT ![d] = C] \/ batch' = batch
  BY <1>3
<1> HIDE DEF C
<1>7. batch' \in [Dispatchers -> SUBSET (OutboxIds \X Nat)]
  BY <1>5, <1>6 DEF DispatchersOK, OutboxTypeOK
<1>8. \A e \in Dispatchers : \A c \in batch'[e] : InsertedRow(c[1])
  BY <1>5, <1>6 DEF DispatchersOK, OutboxTypeOK, HasRow
<1>9. \A i : InsertedRow(i) => InsertedRow(i)'
  BY <1>4 DEF InsertedRow, OutboxKept
<1>10. UNCHANGED <<dpc, cur, forgotten>>
  BY Zenon DEF ClaimOutboxBatch
<1> QED
  BY Zenon, <1>4, <1>7, <1>8, <1>9, <1>10 DEF DispatchersOK, OutboxTypeOK, HasRow

(* publishRow takes a claimed row in hand. *)
LEMMA TypePublishRow ==
  ASSUME BrokerTypeOK, DispatchersOK, NEW d \in Dispatchers, PublishRow(d)
  PROVE  BrokerTypeOK' /\ DispatchersOK'
<1>1. PICK c \in batch[d] : PublishRow(d)!(c)
  BY Zenon DEF PublishRow
<1>2. BrokerTypeOK'
  BY <1>1, EnqueueType DEF BrokerTypeOK
<1>3. c \in OutboxIds \X Nat /\ InsertedRow(c[1])
  BY DEF DispatchersOK, OutboxTypeOK, HasRow
<1>4. c \in Claim
  BY <1>3 DEF Claim, OutboxIds
<1>5. cur' \in [Dispatchers -> Claim] /\ cur'[d] = c /\ \A e \in Dispatchers : e # d => cur'[e] = cur[e]
  BY <1>1, <1>4 DEF DispatchersOK, OutboxTypeOK
<1>6. /\ batch' \in [Dispatchers -> SUBSET (OutboxIds \X Nat)]
      /\ \A e \in Dispatchers : batch'[e] \subseteq batch[e]
  BY <1>1 DEF DispatchersOK, OutboxTypeOK
<1>7. /\ dpc' \in [Dispatchers -> DispatcherLabels]
      /\ \A e \in Dispatchers : e # d => dpc'[e] = dpc[e]
  BY <1>1 DEF DGoto, DispatchersOK, OutboxTypeOK, DispatcherLabels
<1>8. UNCHANGED <<outbox, forgotten>>
  BY Zenon, <1>1
<1> QED
  BY <1>2, <1>3, <1>5, <1>6, <1>7, <1>8 DEF DispatchersOK, OutboxTypeOK, HasRow, InsertedRow

(* A dispatcher that dies has nothing in hand. *)
LEMMA TypeDispatcherCrash ==
  ASSUME DispatchersOK, NEW d \in Dispatchers, DispatcherCrash(d)
  PROVE  DispatchersOK'
<1>1. <<0, 0>> \in Claim
  BY StoreAssumption DEF Claim
<1>2. /\ dpc' \in [Dispatchers -> DispatcherLabels] /\ dpc'[d] = "ready"
      /\ \A e \in Dispatchers : e # d => dpc'[e] = dpc[e]
  BY DEF DispatcherCrash, DispatchersOK, OutboxTypeOK, DispatcherLabels
<1>3. /\ batch' \in [Dispatchers -> SUBSET (OutboxIds \X Nat)]
      /\ \A e \in Dispatchers : batch'[e] \subseteq batch[e]
  BY DEF DispatcherCrash, DispatchersOK, OutboxTypeOK
<1>4. cur' \in [Dispatchers -> Claim] /\ \A e \in Dispatchers : e # d => cur'[e] = cur[e]
  BY <1>1 DEF DispatcherCrash, DispatchersOK, OutboxTypeOK
<1>5. UNCHANGED <<outbox, forgotten>>
  BY DEF DispatcherCrash
<1> QED
  BY <1>2, <1>3, <1>4, <1>5 DEF DispatchersOK, OutboxTypeOK, HasRow, InsertedRow

(* What a dispatcher's call, a crash or a lapsing claim does to the tables: *)
(* at most one statement on the row in hand.                                *)
LEMMA OutboxTables ==
  ASSUME TypeInv, OutboxNext
  PROVE  /\ UNCHANGED deliveryAttempts
         /\ UNCHANGED rowVars \/ \E n \in Notifs : MarkQueued(n) \/ MarkDeadLetter(n)
         /\ UNCHANGED deadLetters \/ \E n \in Notifs : InsertDeadLetter(n)
<1>1. ASSUME NEW d \in Dispatchers, dpc[d] # "ready"
      PROVE  CurNotif(d) \in Notifs
  BY Zenon, <1>1 DEF TypeInv, HasRow, InsertedRow, CurNotif
<1>2. ASSUME NEW d \in Dispatchers, MarkRowQueued(d) \/ GiveUp(d) \/ GiveUpInsert(d)
      PROVE  CurNotif(d) \in Notifs
  BY <1>1, <1>2 DEF MarkRowQueued, GiveUp, GiveUpInsert, DGoto, DDone
<1>3. CASE \E d \in Dispatchers : DispatcherStep(d)
  BY Zenon, <1>2, <1>3 DEF DispatcherStep, ClaimOutboxBatch, PublishRow, MarkPublished, MarkRowQueued,
     MarkRowFailed, GiveUp, GiveUpInsert, GiveUpMark
<1>4. CASE \/ \E d \in Dispatchers : DispatcherCrash(d)
           \/ \E i \in OutboxIds : ClaimLapse(i)
  BY <1>4 DEF DispatcherCrash, ClaimLapse
<1> QED
  BY <1>3, <1>4 DEF OutboxNext

(* Layer 1, except the workers' part, through every step of OutboxNext. *)
LEMMA TypeOutbox ==
  ASSUME TypeInv, OutboxNext
  PROVE  /\ RowTypeOK' /\ RecordTypeOK' /\ OutboxTableOK' /\ BrokerTypeOK'
         /\ DispatchersOK' /\ FaultsTypeOK'
<1>t. /\ RowTypeOK /\ RecordTypeOK /\ OutboxTableOK /\ BrokerTypeOK /\ DispatchersOK /\ FaultsTypeOK
  BY TypeParts
<1>1. RowTypeOK'
  BY <1>t, OutboxTables, RowFrame, RowQueryType DEF RowQuery
<1>2. RecordTypeOK'
  BY <1>t, OutboxTables DEF RecordTypeOK, InsertDeadLetter
<1> DEFINE Goal == OutboxKept /\ BrokerTypeOK' /\ DispatchersOK' /\ FaultsMove
<1>k. UNCHANGED outbox => OutboxKept
  BY <1>t DEF OutboxKept, OutboxTableOK
<1>c. ASSUME NEW d \in Dispatchers, dpc[d] # "ready"
      PROVE  cur[d][1] \in OutboxIds
  BY <1>t, <1>c DEF DispatchersOK, HasRow, InsertedRow
<1>3. ASSUME NEW d \in Dispatchers, ClaimOutboxBatch(d)
      PROVE  Goal
  BY <1>t, <1>3, TypeClaim, BrokerFrame DEF ClaimOutboxBatch, NoFault, Fault, FaultsMove
<1>4. ASSUME NEW d \in Dispatchers, PublishRow(d)
      PROVE  Goal
  BY Zenon, <1>t, <1>k, <1>4, TypePublishRow DEF PublishRow, NoFault, Fault, FaultsMove
<1>5. ASSUME NEW d \in Dispatchers,
             \/ MarkPublished(d) \/ MarkRowQueued(d) \/ MarkRowFailed(d)
             \/ GiveUp(d) \/ GiveUpInsert(d) \/ GiveUpMark(d)
      PROVE  Goal
  <2>1. DControl(d) /\ UNCHANGED brokerVars
    BY Zenon, <1>5 DEF DControl, DispatcherLabels, MarkPublished, MarkRowQueued, MarkRowFailed, GiveUp,
       GiveUpInsert, GiveUpMark
  <2>2. dpc[d] # "ready"
    BY Zenon, <1>5 DEF DGoto, DDone, MarkPublished, MarkRowQueued, MarkRowFailed, GiveUp, GiveUpInsert,
       GiveUpMark
  <2>3. OutboxKept
    BY <1>t, <1>c, <1>5, <2>2, OutboxStatementType
       DEF MarkPublished, MarkRowQueued, MarkRowFailed, GiveUp, GiveUpInsert, GiveUpMark
  <2>4. FaultsMove
    BY Zenon, <1>5 DEF FaultsMove, Fault, NoFault, MarkPublished, MarkRowQueued, MarkRowFailed, GiveUp,
       GiveUpInsert, GiveUpMark
  <2> QED
    BY <1>t, <2>1, <2>3, <2>4, DControlType, BrokerFrame
<1>6. ASSUME NEW d \in Dispatchers, DispatcherCrash(d)
      PROVE  Goal
  BY Zenon, <1>t, <1>k, <1>6, TypeDispatcherCrash, BrokerFrame DEF DispatcherCrash, Fault, FaultsMove
<1>7. ASSUME NEW i \in OutboxIds, ClaimLapse(i)
      PROVE  Goal
  BY Zenon, <1>t, <1>7, OutboxStatementType, DispatchersFrame, BrokerFrame
     DEF ClaimLapse, NoFault, FaultsMove
<1>8. Goal
  BY <1>3, <1>4, <1>5, <1>6, <1>7 DEF OutboxNext, DispatcherStep
<1> QED
  BY <1>t, <1>1, <1>2, <1>8, FaultsType DEF OutboxKept, OutboxTableOK

-----------------------------------------------------------------------------
(* Create, cancel, sweep and wait-tier expiry *)

(* Layer 1 through the steps of the API, the sweeper and the wait tiers. *)
LEMMA TypeEnvironment ==
  ASSUME TypeInv,
         \/ \E n \in Notifs : Create(n) \/ Cancel(n)
         \/ Sweep
         \/ \E m \in Message : WaitTierExpires(m)
  PROVE  TypeInv'
<1>t. /\ RowTypeOK /\ RecordTypeOK /\ OutboxTableOK /\ BrokerTypeOK
      /\ ControlOK /\ EffectOK /\ DispatchersOK /\ FaultsTypeOK
  BY Zenon, TypeParts
<1>f. ASSUME RowTypeOK', OutboxKept, UNCHANGED <<deliveryAttempts, deadLetters, nonStoreVars>>, NoFault
      PROVE  TypeInv'
  BY <1>t, <1>f, RecordFrame, BrokerFrame, ControlFrame, EffectFrame, DispatchersFrame, FaultsType,
     TypePartsNext DEF OutboxKept, OutboxTableOK, nonStoreVars, NoFault, FaultsMove
<1>k. UNCHANGED outbox => OutboxKept
  BY <1>t DEF OutboxKept, OutboxTableOK
<1>1. ASSUME NEW n \in Notifs, Create(n)
      PROVE  TypeInv'
  <2>1. RowTypeOK'
    BY Zenon, <1>t, <1>1, SetStatusType DEF Create, Statuses
  <2> QED
    BY <1>t, <1>f, <1>1, <2>1, InsertOutboxType DEF Create
<1>2. ASSUME NEW n \in Notifs, Cancel(n)
      PROVE  TypeInv'
  BY Zenon, <1>t, <1>f, <1>k, <1>2, RowQueryType DEF Cancel, RowQuery
<1>3. CASE Sweep
  <2>1. StuckSending \subseteq Notifs
    BY Zenon DEF StuckSending, SendingRows
  <2>2. status' \in [Notifs -> Statuses]
    BY Zenon, <1>t, <1>3 DEF Sweep, SweepStuckSending, RowTypeOK, Statuses
  <2>3. attemptCount' \in [Notifs -> Nat]
    BY <1>t, <1>3 DEF Sweep, SweepStuckSending, RowTypeOK
  <2>4. sendingAge' \in [Notifs -> 0..AgeCap]
    BY <1>t, <1>3, StoreAssumption DEF Sweep, SweepStuckSending, RowTypeOK, AgeCap
  <2>5. RowTypeOK'
    BY <2>2, <2>3, <2>4 DEF RowTypeOK
  <2> QED
    BY <1>t, <1>f, <1>3, <2>1, <2>5, InsertOutboxAllType DEF Sweep
<1>4. ASSUME NEW m \in Message, WaitTierExpires(m)
      PROVE  TypeInv'
  <2>1. mainQ' \in [Message -> Nat]
    BY Zenon, <1>t, <1>4, EnqueueType DEF WaitTierExpires, WaitExpire
  <2>2. waitQ' \in [Message -> Nat]
    BY Zenon, <1>t, <1>4, MessageRemoved DEF WaitTierExpires, WaitExpire, BrokerTypeOK
  <2>3. BrokerTypeOK'
    BY Zenon, <1>t, <1>4, <2>1, <2>2 DEF WaitTierExpires, WaitExpire, BrokerTypeOK
  <2> QED
    BY Zenon, <1>t, <1>k, <1>4, <2>3, RowFrame, RecordFrame, ControlFrame, EffectFrame, DispatchersFrame,
       FaultsType, TypePartsNext DEF WaitTierExpires, OutboxKept, OutboxTableOK, NoFault, FaultsMove
<1> QED
  BY <1>1, <1>2, <1>3, <1>4

-----------------------------------------------------------------------------
(* Layer 1 holds initially. *)
LEMMA TypeInit ==
  ASSUME Init
  PROVE  TypeInv
<1>1. RowTypeOK /\ RecordTypeOK
  BY StoreAssumption DEF Init, RowTypeOK, RecordTypeOK, StoreInit, Statuses, AgeCap
<1>2. OutboxTableOK
  BY DEF Init, OutboxTableOK, StoreInit, OutboxRow, FreeRow
<1>3. BrokerTypeOK
  BY DEF Init, BrokerTypeOK, BrokerInit
<1>4. FaultsTypeOK
  BY FaultsAssumption DEF Init, FaultsTypeOK, FaultsInit
<1>5. ControlOK
  BY BrokerAssumption, WorkerAssumption DEF Init, ControlOK, WorkerInit, HasJob, Busy, Labels
<1>6. EffectOK
  BY WorkerAssumption DEF Init, EffectOK, WorkerInit
<1>7. DispatchersOK
  BY StoreAssumption DEF Init, DispatchersOK, OutboxTypeOK, OutboxInit, HasRow, DispatcherLabels, Claim
<1> QED
  BY Zenon, <1>1, <1>2, <1>3, <1>4, <1>5, <1>6, <1>7, TypeParts

(* Every step keeps layer 1. *)
LEMMA TypeStep ==
  ASSUME TypeInv, [Next]_vars
  PROVE  TypeInv'
<1>t. /\ RowTypeOK /\ RecordTypeOK /\ OutboxTableOK /\ BrokerTypeOK
      /\ ControlOK /\ EffectOK /\ DispatchersOK /\ FaultsTypeOK
  BY TypeParts
<1>k. UNCHANGED outbox => OutboxKept /\ OutboxTableOK'
  BY <1>t DEF OutboxKept, OutboxTableOK
<1>1. CASE WorkerNext /\ UNCHANGED outboxVars
  BY Zenon, <1>t, <1>k, <1>1, TypeWorker, DispatchersFrame, TypePartsNext
<1>2. CASE OutboxNext /\ UNCHANGED <<workerVars, lockTTL, observedVars>>
  BY <1>t, <1>2, TypeOutbox, ControlFrame, EffectFrame, TypePartsNext
<1>3. CASE \/ \E n \in Notifs : Create(n) \/ Cancel(n)
           \/ Sweep
           \/ \E m \in Message : WaitTierExpires(m)
  BY Zenon, <1>3, TypeEnvironment
<1>4. CASE UNCHANGED vars
  BY Zenon, <1>t, <1>k, <1>4, RowFrame, RecordFrame, BrokerFrame, ControlFrame, EffectFrame,
     DispatchersFrame, FaultsType, TypePartsNext DEF vars, FaultsMove
<1> QED
  BY <1>1, <1>2, <1>3, <1>4 DEF Next

(* Every variable keeps its type, a busy worker has a notification in hand, *)
(* and a dispatcher only works on outbox rows that were inserted.           *)
THEOREM TypeCorrect == Spec => []TypeInv
<1> QED
  BY TypeInit, TypeStep, PTL DEF Spec

-----------------------------------------------------------------------------
(* Layer 2: the in-flight key.                                              *)

-----------------------------------------------------------------------------
(* Layer 2: the in-flight key *)

(* No call of a handler lets a second handler under its in-flight key. *)
LEMMA LockHandler ==
  ASSUME TypeInv, LockInv, NEW w \in Workers, HandlerStep(w)
  PROVE  LockInv'
<1> USE DEF LockInv, Locked, LockedLabels, Goto
<1>t. /\ pc \in [Workers -> Labels] /\ job \in [Workers -> Notifs \cup {None}]
      /\ left \in [Workers -> 0..HandleTimeout] /\ lockTTL \in [Notifs -> 0..LockTTL]
      /\ \A v \in Workers : pc[v] # "idle" => job[v] \in Notifs
  BY Zenon DEF TypeInv, TypeOK, WorkerTypeOK, HasJob, Busy
<1>1. CASE CASHit(w)
  BY Zenon, <1>t, <1>1 DEF CASHit
<1>2. CASE CASMiss(w)
  BY Zenon, <1>t, <1>2 DEF CASMiss
<1>3. CASE CASError(w)
  BY Zenon, <1>t, <1>3 DEF CASError
<1>4. CASE AcquireLock(w)
  <2>1. \A v \in Workers : Locked(v) => v # w /\ job[v] # job[w]
    BY <1>t, <1>4 DEF AcquireLock, SetNX
  <2>2. \A v \in Workers : Locked(v)' <=> v = w \/ Locked(v)
    BY Zenon, <1>t, <1>4 DEF AcquireLock
  <2>3. lockTTL'[job[w]] > left[w]
    BY SMTT(30), <1>t, <1>4, WorkerAssumption, TimeoutAssumption DEF AcquireLock, SetNX
  <2>4. \A v \in Workers : Locked(v) => lockTTL'[job[v]] = lockTTL[job[v]]
    BY <1>t, <1>4, <2>1 DEF AcquireLock, SetNX
  <2>5. UNCHANGED <<job, left>>
    BY Zenon, <1>4 DEF AcquireLock
  <2> QED
    BY <2>1, <2>2, <2>3, <2>4, <2>5
<1>5. CASE LockHeld(w)
  BY Zenon, <1>t, <1>5 DEF LockHeld
<1>6. CASE SetNXError(w)
  BY <1>t, <1>6 DEF SetNXError, SetNX
<1>7. CASE DeferToHolder(w)
  BY Zenon, <1>t, <1>7 DEF DeferToHolder
<1>8. CASE TakeAllowed(w)
  BY <1>t, <1>8 DEF TakeAllowed
<1>9. CASE TakeThrottled(w)
  BY <1>t, <1>9 DEF TakeThrottled
<1>10. CASE TakeError(w)
  BY Zenon, <1>t, <1>10 DEF TakeError
<1>11. CASE StartCall(w)
  BY <1>t, <1>11 DEF StartCall
<1>12. CASE BreakerOpen(w)
  BY <1>t, <1>12 DEF BreakerOpen
<1>13. CASE SendCancelled(w)
  BY <1>t, <1>13 DEF SendCancelled, AfterFailure
<1>14. CASE CallSucceeds(w)
  BY <1>t, <1>14 DEF CallSucceeds
<1>15. CASE CallFailsRetryable(w)
  BY <1>t, <1>15 DEF CallFailsRetryable, AfterFailure
<1>16. CASE CallFailsTerminal(w)
  BY <1>t, <1>16 DEF CallFailsTerminal, AfterFailure
<1>17. CASE RecordAttempt(w)
  BY <1>t, <1>17 DEF RecordAttempt
<1>18. CASE RevertForRetry(w)
  BY <1>t, <1>18 DEF RevertForRetry
<1>19. CASE routeToRetryTier(w)
  BY Zenon, <1>t, <1>19 DEF routeToRetryTier
<1>20. CASE TerminalMark(w)
  BY <1>t, <1>20 DEF TerminalMark
<1>21. CASE TerminalInsert(w)
  BY Zenon, <1>t, <1>21 DEF TerminalInsert
<1>22. CASE MarkSentOk(w)
  BY ZenonT(30), <1>t, <1>22 DEF MarkSentOk
<1>23. CASE MarkSentError(w)
  BY <1>t, <1>23 DEF MarkSentError
<1>24. CASE UndoAfterMarkSent(w)
  BY Zenon, <1>t, <1>24 DEF UndoAfterMarkSent
<1>25. CASE Unlock(w)
  BY Zenon, <1>t, <1>25 DEF Unlock
<1>26. CASE requeueViaWaitTier(w)
  BY Zenon, <1>t, <1>26 DEF requeueViaWaitTier
<1>27. CASE Settle(w)
  BY <1>t, <1>27 DEF Settle, Reset
<1> QED
  BY Zenon, <1>1, <1>2, <1>3, <1>4, <1>5, <1>6, <1>7, <1>8, <1>9, <1>10, <1>11, <1>12, <1>13, <1>14, <1>15, <1>16, <1>17, <1>18, <1>19, <1>20, <1>21, <1>22, <1>23, <1>24, <1>25, <1>26, <1>27 DEF HandlerStep

(* Every step keeps layer 2; on Tick the key and the deadline run together. *)
LEMMA LockStep ==
  ASSUME TypeInv, LockInv, [Next]_vars
  PROVE  LockInv'
<1> USE DEF LockInv, Locked, LockedLabels
<1>t. /\ pc \in [Workers -> Labels] /\ job \in [Workers -> Notifs \cup {None}]
      /\ left \in [Workers -> 0..HandleTimeout] /\ lockTTL \in [Notifs -> 0..LockTTL]
      /\ \A v \in Workers : pc[v] # "idle" => job[v] \in Notifs
  BY Zenon DEF TypeInv, TypeOK, WorkerTypeOK, HasJob, Busy
<1>0. ASSUME UNCHANGED <<pc, job, left, lockTTL>>
      PROVE  LockInv'
  BY Zenon, <1>0
<1>1. ASSUME NEW w \in Workers, Deliver(w)
      PROVE  LockInv'
  <2>1. PICK m \in Message : Deliver(w)!(m)
    BY Zenon, <1>1 DEF Deliver
  <2> QED
    BY <1>t, <2>1 DEF Goto
<1>2. ASSUME NEW w \in Workers, HandlerStep(w)
      PROVE  LockInv'
  BY Zenon, <1>2, LockHandler
<1>3. ASSUME NEW w \in Workers, WorkerCrash(w)
      PROVE  LockInv'
  BY Zenon, <1>t, <1>3 DEF WorkerCrash, Reset
<1>4. ASSUME NEW w \in Workers, ConnectionLost(w)
      PROVE  LockInv'
  BY Zenon, <1>0, <1>4 DEF ConnectionLost
<1>5. ASSUME NEW w \in Workers, Shutdown(w)
      PROVE  LockInv'
  BY <1>t, <1>5 DEF Shutdown
<1>6. CASE Tick
  <2>1. \A w \in Workers : Locked(w) => left[w] > 0 /\ left'[w] = left[w] - 1
    BY <1>t, <1>6 DEF Tick, Busy, CtxDone
  <2>2. \A w \in Workers : Locked(w) => lockTTL'[job[w]] = lockTTL[job[w]] - 1
    BY <1>t, <1>6, <2>1 DEF Tick, ExpireLocks
  <2>3. UNCHANGED <<pc, job>>
    BY Zenon, <1>6 DEF Tick
  <2> QED
    BY <1>t, <2>1, <2>2, <2>3
<1>7. CASE OutboxNext /\ UNCHANGED <<workerVars, lockTTL, observedVars>>
  BY Zenon, <1>0, <1>7
<1>8. CASE \/ \E n \in Notifs : Create(n) \/ Cancel(n)
           \/ Sweep
           \/ \E m \in Message : WaitTierExpires(m)
  BY Zenon, <1>0, <1>8 DEF Create, Cancel, Sweep, WaitTierExpires, nonStoreVars
<1>9. CASE UNCHANGED vars
  BY Zenon, <1>0, <1>9 DEF vars
<1> QED
  BY Zenon, <1>1, <1>2, <1>3, <1>4, <1>5, <1>6, <1>7, <1>8, <1>9 DEF Next, WorkerNext

(* The in-flight key outlives the handler that set it. *)
LEMMA LockInvariant == Spec => []LockInv
<1>1. Init => LockInv
  BY DEF Init, WorkerInit, LockInv, Locked, LockedLabels
<1> QED
  BY <1>1, LockStep, TypeCorrect, PTL DEF Spec

(* At most one provider request for a notification is in flight at a time   *)
(* (pipeline.go steps 3 to 6).                                              *)
THEOREM ConcurrentSendExcluded == Spec => []NoConcurrentSend
<1>1. LockInv => NoConcurrentSend
  BY Zenon DEF LockInv, NoConcurrentSend, Locked, LockedLabels
<1> QED
  BY <1>1, LockInvariant, PTL
-----------------------------------------------------------------------------
(* Statements on rows, pointwise *)

RowStays(n) ==
  status'[n] = status[n] /\ attemptCount'[n] = attemptCount[n] /\ sendingAge'[n] = sendingAge[n]

(* An UPDATE of the status of n resets its age and leaves the others alone. *)
LEMMA SetStatusLocal ==
  ASSUME RowTypeOK, NEW n \in Notifs, NEW s, SetStatus(n, s),
         attemptCount' = attemptCount \/ attemptCount' = [attemptCount EXCEPT ![n] = @ + 1]
  PROVE  /\ status'[n] = s /\ sendingAge'[n] = 0
         /\ attemptCount' = attemptCount \/ attemptCount'[n] = attemptCount[n] + 1
         /\ \A k \in Notifs \ {n} : RowStays(k)
<1>1. status'[n] = s /\ \A k \in Notifs \ {n} : status'[k] = status[k]
  BY DEF RowTypeOK, SetStatus
<1>2. sendingAge'[n] = 0 /\ \A k \in Notifs \ {n} : sendingAge'[k] = sendingAge[k]
  BY DEF RowTypeOK, SetStatus
<1>3. /\ attemptCount' = attemptCount \/ attemptCount'[n] = attemptCount[n] + 1
      /\ \A k \in Notifs \ {n} : attemptCount'[k] = attemptCount[k]
  BY DEF RowTypeOK
<1> QED
  BY <1>1, <1>2, <1>3 DEF RowStays

(* What each statement leaves in its row. *)
LEMMA RowQueryLocal ==
  ASSUME RowTypeOK, NEW n \in Notifs, RowQuery(n)
  PROVE  /\ \A k \in Notifs \ {n} : RowStays(k)
         /\ MarkSendingCAS(n) => /\ status'[n] = "sending" /\ sendingAge'[n] = 0
                                 /\ attemptCount'[n] = attemptCount[n]
         /\ MarkSent(n) => status'[n] = "sent" /\ attemptCount'[n] = attemptCount[n]
         /\ MarkQueued(n) => \/ RowStays(n)
                             \/ /\ status[n] = "pending" /\ status'[n] = "queued"
                                /\ attemptCount'[n] = attemptCount[n]
         /\ RevertToQueuedNoAttempt(n) =>
              \/ RowStays(n)
              \/ status[n] = "sending" /\ status'[n] = "queued" /\ attemptCount'[n] = attemptCount[n]
         /\ RevertToQueued(n) =>
              \/ RowStays(n)
              \/ /\ status[n] = "sending" /\ status'[n] = "queued"
                 /\ attemptCount'[n] = attemptCount[n] + 1
         /\ MarkDeadLetter(n) =>
              \/ RowStays(n)
              \/ status'[n] = "dead_letter" /\ attemptCount'[n] = attemptCount[n]
         /\ CancelPendingOrQueued(n) =>
              status'[n] = "cancelled" /\ attemptCount'[n] = attemptCount[n]
         /\ UNCHANGED rowVars => RowStays(n)
<1>0. UNCHANGED rowVars => \A k \in Notifs : RowStays(k)
  BY DEF RowStays
<1>1. ASSUME MarkSendingCAS(n) \/ MarkSent(n) \/ CancelPendingOrQueued(n)
      PROVE  \A k \in Notifs \ {n} : RowStays(k)
  BY Zenon, <1>1, SetStatusLocal DEF MarkSendingCAS, MarkSent, CancelPendingOrQueued
<1>2. ASSUME MarkQueued(n) \/ RevertToQueuedNoAttempt(n) \/ MarkDeadLetter(n) \/ RevertToQueued(n)
      PROVE  \A k \in Notifs \ {n} : RowStays(k)
  BY Zenon, <1>0, <1>2, SetStatusLocal
     DEF MarkQueued, RevertToQueuedNoAttempt, RevertToQueued, MarkDeadLetter
<1>3. \A k \in Notifs \ {n} : RowStays(k)
  BY <1>0, <1>1, <1>2 DEF RowQuery
<1>4. /\ MarkSendingCAS(n) => /\ status'[n] = "sending" /\ sendingAge'[n] = 0
                              /\ attemptCount'[n] = attemptCount[n]
      /\ MarkSent(n) => status'[n] = "sent" /\ attemptCount'[n] = attemptCount[n]
      /\ CancelPendingOrQueued(n) =>
           status'[n] = "cancelled" /\ attemptCount'[n] = attemptCount[n]
  BY Zenon, SetStatusLocal DEF MarkSendingCAS, MarkSent, CancelPendingOrQueued
<1>5. MarkQueued(n) => \/ RowStays(n)
                       \/ /\ status[n] = "pending" /\ status'[n] = "queued"
                          /\ attemptCount'[n] = attemptCount[n]
  BY Zenon, <1>0, SetStatusLocal DEF MarkQueued
<1>6. RevertToQueuedNoAttempt(n) =>
        \/ RowStays(n)
        \/ status[n] = "sending" /\ status'[n] = "queued" /\ attemptCount'[n] = attemptCount[n]
  BY Zenon, <1>0, SetStatusLocal DEF RevertToQueuedNoAttempt, IsSending
<1>7. RevertToQueued(n) =>
        \/ RowStays(n)
        \/ /\ status[n] = "sending" /\ status'[n] = "queued"
           /\ attemptCount'[n] = attemptCount[n] + 1
  BY <1>0, SetStatusLocal DEF RevertToQueued, IsSending, RowTypeOK
<1>8. MarkDeadLetter(n) => \/ RowStays(n)
                           \/ status'[n] = "dead_letter" /\ attemptCount'[n] = attemptCount[n]
  BY Zenon, <1>0, SetStatusLocal DEF MarkDeadLetter
<1> QED
  BY Zenon, <1>0, <1>3, <1>4, <1>5, <1>6, <1>7, <1>8

(* A handler's call before the last: its delivery and the other workers'    *)
(* control state stay.                                                      *)
LEMMA HandlerLocal ==
  ASSUME TypeInv, NEW w \in Workers, HandlerStep(w), ~Settle(w)
  PROVE  /\ UNCHANGED <<job, left>> /\ job[w] \in Notifs
         /\ \A v \in Workers \ {w} : pc'[v] = pc[v]
         /\ UNCHANGED attempt \/ CASHit(w)
         /\ \A k \in Notifs \ {job[w]} : RowStays(k)
<1>t. RowTypeOK /\ ControlOK
  BY TypeParts
<1>1. Control(w)
  BY Zenon, HandlerControl
<1>2. job[w] \in Notifs
  BY Zenon, <1>t, <1>1 DEF ControlOK, Control, HasJob
<1>3. \A v \in Workers \ {w} : pc'[v] = pc[v]
  BY <1>t, <1>1 DEF ControlOK, Control
<1>4. \A k \in Notifs \ {job[w]} : RowStays(k)
  BY Zenon, <1>t, <1>2, HandlerTables, RowQueryLocal
<1>5. UNCHANGED attempt \/ CASHit(w)
  BY Zenon DEF HandlerStep, CASMiss, CASError, AcquireLock, LockHeld, SetNXError, DeferToHolder,
     TakeAllowed, TakeThrottled, TakeError, StartCall, BreakerOpen, SendCancelled, CallSucceeds,
     CallFailsRetryable, CallFailsTerminal, RecordAttempt, RevertForRetry, routeToRetryTier,
     TerminalMark, TerminalInsert, MarkSentOk, MarkSentError, UndoAfterMarkSent, Unlock,
     requeueViaWaitTier
<1> QED
  BY <1>1, <1>2, <1>3, <1>4, <1>5 DEF Control

-----------------------------------------------------------------------------
(* Layer 3: who owns a row *)

(* The arithmetic of ages (a), locks (k), deadlines (l) and the two         *)
(* timeouts (h, t).                                                         *)
LEMMA InInterval ==
  ASSUME NEW h \in Nat, NEW l \in 0..h
  PROVE  l \in Nat /\ l <= h
  BY SMT

(* A row just picked is within its handler's deadline, *)
LEMMA FreshRow ==
  ASSUME NEW a, NEW l, NEW h \in Nat, a = 0, l \in Nat, l <= h
  PROVE  a + l <= h
  BY SMT

(* and its lock, of whatever age, within the two timeouts. *)
LEMMA FreshRowLock ==
  ASSUME NEW a, NEW k, NEW h \in Nat, NEW t \in Nat, a = 0, k \in Nat, k <= t
  PROVE  k + a <= h + t
  BY SMT

(* A lock taken within the deadline is within the two timeouts. *)
LEMMA FreshLock ==
  ASSUME NEW a \in Nat, NEW l \in Nat, NEW h \in Nat, NEW t \in Nat, a + l <= h
  PROVE  t + a <= h + t
  BY SMT

(* Within the deadline is not stuck. *)
LEMMA YoungRow ==
  ASSUME NEW a \in Nat, NEW l \in Nat, a + l <= HandleTimeout
  PROVE  ~(a > StuckAfter)
  BY SMT, WorkerAssumption, TimeoutAssumption, StoreAssumption

(* The timeouts are numbers. *)
LEMMA Timeouts == HandleTimeout \in Nat /\ LockTTL \in Nat /\ AgeCap \in Nat
                  /\ HandleTimeout + LockTTL \in Nat
  BY SMT, WorkerAssumption, StoreAssumption DEF AgeCap

TimeBound(n) ==
  IsSending(n) /\ lockTTL[n] > 0 => lockTTL[n] + sendingAge[n] <= HandleTimeout + LockTTL

(* A worker changes the row of its delivery only if it owns it or if nobody *)
(* can; the other owners keep theirs.                                       *)
LEMMA OwnHandover ==
  ASSUME TypeInv, OwnInv, NEW w \in Workers, NEW n \in Notifs, job[w] = n,
         UNCHANGED <<job, left>>,
         \A v \in Workers \ {w} : pc'[v] = pc[v] /\ attempt'[v] = attempt[v],
         \A k \in Notifs \ {n} : RowStays(k) /\ lockTTL'[k] = lockTTL[k],
         Owns(w) \/ Pickable(n) \/ (RowStays(n) /\ ~Owns(w)'),
         Owns(w)' => Held(n, w)',
         TimeBound(n)'
  PROVE  OwnInv'
<1>h. \A v \in Workers : Owns(v) => Held(job[v], v) /\ job[v] \in Notifs
  BY Zenon DEF OwnInv, TypeInv, HasJob, Busy, Owns, OwningLabels
<1>p. \A v \in Workers : Owns(v) => ~Pickable(job[v])
  BY Zenon, <1>h DEF Held, Pickable
<1>o. \A v \in Workers \ {w} : Owns(v)' = Owns(v)
  BY Zenon DEF Owns
<1>s. \A u, v \in Workers : u # v /\ Owns(u) /\ Owns(v) => job[u] # job[v]
  BY Zenon DEF OwnInv, SoleOwner
<1>1. ASSUME NEW v \in Workers, Owns(v)'
      PROVE  Held(job[v], v)'
  <2>1. CASE v = w
    BY Zenon, <1>1, <2>1 DEF Held, IsSending
  <2>2. CASE v # w
    <3>1. Held(job[v], v) /\ job[v] \in Notifs /\ Owns(v)
      BY Zenon, <1>1, <1>h, <1>o, <2>2
    <3>2. RowStays(job[v])
      BY Zenon, <1>p, <1>s, <2>2, <3>1
    <3> QED
      BY Zenon, <2>2, <3>1, <3>2 DEF Held, RowStays, IsSending
  <2> QED
    BY Zenon, <2>1, <2>2
<1>2. ASSUME NEW u \in Workers, NEW v \in Workers, u # v, Owns(u)', Owns(v)'
      PROVE  job[u] # job[v]
  BY Zenon, <1>2, <1>o, <1>s, <1>p
<1>3. ASSUME NEW k \in Notifs
      PROVE  TimeBound(k)'
  BY Zenon, <1>3 DEF OwnInv, TimeBound, IsSending, RowStays
<1> QED
  BY Zenon, <1>1, <1>2, <1>3 DEF OwnInv, SoleOwner, TimeBound

(* A worker that leaves its delivery, or has not picked the row yet, owns   *)
(* nothing; deadlines only get closer.                                      *)
LEMMA OwnApart ==
  ASSUME TypeInv, OwnInv, NEW w \in Workers, ~Owns(w)',
         UNCHANGED <<rowVars, lockTTL>>,
         \A v \in Workers \ {w} : /\ pc'[v] = pc[v] /\ job'[v] = job[v]
                                  /\ attempt'[v] = attempt[v] /\ left'[v] = left[v]
  PROVE  OwnInv'
<1>1. \A v \in Workers : Owns(v)' => v # w /\ Owns(v)
  BY Zenon DEF Owns
<1>2. ASSUME NEW v \in Workers, Owns(v)'
      PROVE  Held(job[v], v)'
  <2>1. v # w /\ Held(job[v], v)
    BY Zenon, <1>1, <1>2 DEF OwnInv
  <2>2. /\ pc'[v] = pc[v] /\ attempt'[v] = attempt[v] /\ left'[v] = left[v]
        /\ UNCHANGED <<status, attemptCount, sendingAge>>
    BY Zenon, <2>1 DEF rowVars
  <2> QED
    BY Zenon, <2>1, <2>2 DEF Held, IsSending
<1>3. \A n \in Notifs : TimeBound(n)'
  BY Zenon DEF OwnInv, TimeBound, IsSending
<1>4. \A v \in Workers : Owns(v)' => job'[v] = job[v]
  BY Zenon, <1>1
<1>5. SoleOwner'
  BY Zenon, <1>1, <1>4 DEF OwnInv, SoleOwner
<1> QED
  BY Zenon, <1>2, <1>3, <1>4, <1>5 DEF OwnInv, TimeBound

(* What an owner has in hand, once and for all the cases below. *)
LEMMA OwnerFacts ==
  ASSUME TypeInv, OwnInv, NEW w \in Workers, job[w] \in Notifs
  PROVE  /\ TimeBound(job[w])
         /\ Owns(w) => Held(job[w], w)
         /\ left[w] \in Nat /\ left[w] <= HandleTimeout
         /\ lockTTL[job[w]] \in Nat /\ lockTTL[job[w]] <= LockTTL
         /\ sendingAge[job[w]] \in Nat
<1>1. TimeBound(job[w]) /\ (Owns(w) => Held(job[w], w))
  BY Zenon DEF OwnInv, TimeBound
<1>2. /\ left[w] \in 0..HandleTimeout /\ lockTTL[job[w]] \in 0..LockTTL
      /\ sendingAge[job[w]] \in 0..AgeCap
  BY Zenon DEF TypeInv, TypeOK, StoreTypeOK, WorkerTypeOK
<1> QED
  BY Zenon, <1>1, <1>2, Timeouts, InInterval

-----------------------------------------------------------------------------
(* Layer 3: the ownership of a row, from which SoleOwner and SweepSafe      *)
(* follow.                                                                  *)

(* No call of a handler takes a row another handler owns. *)
LEMMA OwnHandler ==
  ASSUME TypeInv, OwnInv, NEW w \in Workers, HandlerStep(w)
  PROVE  OwnInv'
<1>s. CASE Settle(w)
  <2>1. pc'[w] = "idle" /\ \A v \in Workers \ {w} :
          pc'[v] = pc[v] /\ job'[v] = job[v] /\ attempt'[v] = attempt[v] /\ left'[v] = left[v]
    BY <1>s DEF Settle, Reset, TypeInv, TypeOK, WorkerTypeOK
  <2>2. UNCHANGED <<rowVars, lockTTL>>
    BY Zenon, <1>s DEF Settle
  <2>3. ~Owns(w)'
    BY Zenon, <2>1 DEF Owns, OwningLabels
  <2> QED
    BY Zenon, <2>1, <2>2, <2>3, OwnApart
<1> SUFFICES ASSUME ~Settle(w)
             PROVE  OwnInv'
  BY <1>s
<1>n. PICK n \in Notifs : n = job[w]
  BY Zenon, HandlerLocal
<1>t. /\ RowTypeOK /\ pc \in [Workers -> Labels] /\ attempt \in [Workers -> Nat]
      /\ lockTTL \in [Notifs -> 0..LockTTL]
  BY TypeParts DEF ControlOK, TypeInv, TypeOK, WorkerTypeOK
<1>l. /\ UNCHANGED <<job, left>> /\ job[w] = n
      /\ \A v \in Workers \ {w} : pc'[v] = pc[v]
      /\ UNCHANGED attempt \/ CASHit(w)
      /\ \A k \in Notifs \ {n} : RowStays(k)
  BY Zenon, <1>n, HandlerLocal
<1>f. TimeBound(n) /\ (Owns(w) => Held(n, w))
  BY Zenon, <1>n, OwnerFacts
<1>a. /\ left'[w] = left[w] /\ left[w] \in Nat /\ left[w] <= HandleTimeout
      /\ lockTTL[n] \in Nat /\ lockTTL[n] <= LockTTL
      /\ sendingAge[n] \in Nat
  BY Zenon, <1>n, <1>l, OwnerFacts
<1>q. ASSUME MarkSendingCAS(n) \/ MarkSent(n) \/ RevertToQueuedNoAttempt(n)
             \/ RevertToQueued(n) \/ MarkDeadLetter(n) \/ UNCHANGED rowVars
      PROVE  RowQuery(n)
  BY <1>q DEF RowQuery
<1>k. ASSUME UNCHANGED lockTTL
      PROVE  \A k \in Notifs \ {n} : lockTTL'[k] = lockTTL[k]
  BY <1>k
<1>1. CASE CASHit(w)
  <2>1. Pickable(n) /\ MarkSendingCAS(n) /\ UNCHANGED lockTTL
    BY Zenon, <1>n, <1>1 DEF CASHit, MarkSendingCAS
  <2>2. status'[n] = "sending" /\ sendingAge'[n] = 0 /\ attemptCount'[n] = attemptCount[n]
    BY Zenon, <1>t, <1>l, <1>q, <2>1, RowQueryLocal
  <2>3. attempt'[w] = attemptCount[n] + 1 /\ \A v \in Workers \ {w} : attempt'[v] = attempt[v]
    BY Zenon, <1>n, <1>t, <1>1 DEF CASHit
  <2>4. sendingAge'[n] + left'[w] <= HandleTimeout
    BY Zenon, <1>a, <2>2, Timeouts, FreshRow
  <2>5. Held(n, w)'
    BY Zenon, <2>2, <2>3, <2>4 DEF Held
  <2>6. lockTTL'[n] + sendingAge'[n] <= HandleTimeout + LockTTL
    BY Zenon, <1>a, <2>1, <2>2, Timeouts, FreshRowLock
  <2>7. TimeBound(n)'
    BY <2>6 DEF TimeBound
  <2> QED
    BY Zenon, <1>n, <1>l, <1>k, <2>1, <2>3, <2>5, <2>7, OwnHandover
<1> SUFFICES ASSUME UNCHANGED attempt
             PROVE  OwnInv'
  BY Zenon, <1>1, <1>l
<1>2. CASE CASError(w)
  <2>1. UNCHANGED lockTTL /\ (UNCHANGED rowVars \/ (Pickable(n) /\ MarkSendingCAS(n)))
    BY <1>n, <1>2 DEF CASError, MarkSendingCAS
  <2>2. RowStays(n) \/ (Pickable(n) /\ status'[n] = "sending" /\ sendingAge'[n] = 0)
    BY Zenon, <1>t, <1>l, <1>q, <2>1, RowQueryLocal
  <2>3. ~Owns(w)'
    BY <1>t, <1>2 DEF CASError, Goto, Owns, OwningLabels
  <2>4. TimeBound(n)'
    <3>1. CASE RowStays(n)
      BY Zenon, <1>f, <2>1, <3>1 DEF TimeBound, RowStays, IsSending
    <3>2. CASE sendingAge'[n] = 0
      <4>1. lockTTL'[n] + sendingAge'[n] <= HandleTimeout + LockTTL
        BY Zenon, <1>a, <2>1, <3>2, Timeouts, FreshRowLock
      <4> QED
        BY <4>1 DEF TimeBound
    <3> QED
      BY Zenon, <2>2, <3>1, <3>2
  <2> QED
    BY Zenon, <1>n, <1>l, <1>k, <2>1, <2>2, <2>3, <2>4, OwnHandover
<1>3. CASE AcquireLock(w) \/ SetNXError(w)
  <2>1. UNCHANGED rowVars /\ Owns(w) /\ pc'[w] # "undo" /\ pc[w] # "undo"
    BY <1>t, <1>3 DEF AcquireLock, SetNXError, Goto, Owns, OwningLabels
  <2>2. /\ \A k \in Notifs \ {n} : lockTTL'[k] = lockTTL[k]
        /\ lockTTL'[n] = lockTTL[n] \/ lockTTL'[n] = LockTTL
    BY Zenon, <1>n, <1>t, <1>l, <1>3 DEF AcquireLock, SetNXError, SetNX
  <2>3. Held(n, w) /\ Held(n, w)'
    BY Zenon, <1>l, <1>f, <2>1 DEF Held, IsSending
  <2>4. TimeBound(n)'
    <3>1. CASE lockTTL'[n] = lockTTL[n]
      BY Zenon, <1>f, <2>1, <3>1 DEF TimeBound, IsSending
    <3>2. CASE lockTTL'[n] = LockTTL
      <4>1. IsSending(n) => sendingAge[n] + left[w] <= HandleTimeout
        BY Zenon, <2>3 DEF Held
      <4>2. IsSending(n) => LockTTL + sendingAge[n] <= HandleTimeout + LockTTL
        BY Zenon, <1>a, <4>1, Timeouts, FreshLock
      <4> QED
        BY Zenon, <2>1, <3>2, <4>2 DEF TimeBound, IsSending
    <3> QED
      BY Zenon, <2>2, <3>1, <3>2
  <2> QED
    BY Zenon, <1>n, <1>l, <2>1, <2>2, <2>3, <2>4, OwnHandover
<1>4. ASSUME UNCHANGED rowVars, Owns(w)' => Owns(w), pc[w] # "undo",
             lockTTL' = lockTTL \/ lockTTL' = [lockTTL EXCEPT ![n] = 0]
      PROVE  OwnInv'
  <2>1. RowStays(n)
    BY Zenon, <1>4 DEF RowStays
  <2>2. /\ \A k \in Notifs \ {n} : lockTTL'[k] = lockTTL[k]
        /\ lockTTL'[n] = lockTTL[n] \/ lockTTL'[n] = 0
    BY Zenon, <1>t, <1>l, <1>4
  <2>3. Owns(w)' => Owns(w) /\ Held(n, w)'
    BY ZenonT(30), <1>l, <1>f, <1>4 DEF Held, IsSending
  <2>4. TimeBound(n)'
    <3>1. CASE lockTTL'[n] = lockTTL[n]
      BY Zenon, <1>f, <1>4, <3>1 DEF TimeBound, IsSending
    <3>2. CASE lockTTL'[n] = 0
      <4>1. ~(lockTTL'[n] > 0)
        BY SMT, <3>2
      <4> QED
        BY Zenon, <4>1 DEF TimeBound
    <3> QED
      BY <2>2, <3>1, <3>2
  <2> QED
    BY Zenon, <1>n, <1>l, <2>1, <2>2, <2>3, <2>4, OwnHandover
<1>5. CASE CASMiss(w) \/ routeToRetryTier(w) \/ TerminalInsert(w) \/ requeueViaWaitTier(w)
  BY Zenon, <1>t, <1>4, <1>5 DEF CASMiss, routeToRetryTier, TerminalInsert, requeueViaWaitTier, Goto,
     Owns, OwningLabels
<1>6. CASE Unlock(w)
  BY Zenon, <1>n, <1>t, <1>4, <1>6 DEF Unlock, Goto, Owns, OwningLabels
<1>7. CASE LockHeld(w) \/ TakeAllowed(w) \/ TakeThrottled(w) \/ TakeError(w) \/ StartCall(w)
           \/ BreakerOpen(w) \/ CallSucceeds(w)
  BY Zenon, <1>t, <1>4, <1>7 DEF LockHeld, TakeAllowed, TakeThrottled, TakeError, StartCall,
     BreakerOpen, CallSucceeds, Goto, Owns, OwningLabels
<1>8. CASE SendCancelled(w) \/ CallFailsRetryable(w) \/ CallFailsTerminal(w) \/ RecordAttempt(w)
  BY Zenon, <1>t, <1>4, <1>8 DEF SendCancelled, CallFailsRetryable, CallFailsTerminal, RecordAttempt,
     Goto, Owns, OwningLabels
<1>9. ASSUME Owns(w), ~Owns(w)', UNCHANGED lockTTL, RowStays(n) \/ status'[n] # "sending"
      PROVE  OwnInv'
  <2>1. TimeBound(n)'
    BY Zenon, <1>l, <1>f, <1>9 DEF TimeBound, RowStays, IsSending
  <2> QED
    BY Zenon, <1>n, <1>l, <1>k, <1>9, <2>1, OwnHandover
<1>10. CASE DeferToHolder(w) \/ RevertForRetry(w) \/ TerminalMark(w) \/ MarkSentOk(w)
            \/ UndoAfterMarkSent(w)
  <2>1. Owns(w) /\ ~Owns(w)' /\ UNCHANGED lockTTL
    BY Zenon, <1>t, <1>10 DEF DeferToHolder, RevertForRetry, TerminalMark, MarkSentOk,
       UndoAfterMarkSent, Goto, Owns, OwningLabels
  <2>2. RevertToQueuedNoAttempt(n) \/ RevertToQueued(n) \/ MarkDeadLetter(n) \/ MarkSent(n)
        \/ UNCHANGED rowVars
    BY Zenon, <1>n, <1>10 DEF DeferToHolder, RevertForRetry, TerminalMark, MarkSentOk, UndoAfterMarkSent
  <2>3. RowStays(n) \/ status'[n] # "sending"
    BY Zenon, <1>t, <1>l, <1>q, <2>2, RowQueryLocal
  <2> QED
    BY <1>9, <2>1, <2>3
<1>11. CASE MarkSentError(w)
  <2>1. Owns(w) /\ pc[w] # "undo" /\ pc'[w] = "undo" /\ UNCHANGED lockTTL
        /\ (MarkSent(n) \/ UNCHANGED rowVars)
    BY <1>n, <1>t, <1>11 DEF MarkSentError, Goto, Owns, OwningLabels
  <2>2. RowStays(n) \/ (status'[n] = "sent" /\ attemptCount'[n] = attemptCount[n])
    BY Zenon, <1>t, <1>l, <1>q, <2>1, RowQueryLocal
  <2>3. Held(n, w)' /\ TimeBound(n)'
    BY Zenon, <1>l, <1>f, <2>1, <2>2 DEF Held, RowStays, IsSending, TimeBound
  <2> QED
    BY Zenon, <1>n, <1>l, <1>k, <2>1, <2>3, OwnHandover
<1> QED
  BY Zenon, <1>1, <1>2, <1>3, <1>5, <1>6, <1>7, <1>8, <1>10, <1>11 DEF HandlerStep

(* Rows no worker owns change freely, as long as none becomes 'sending'. *)
LEMMA OwnOutside ==
  ASSUME TypeInv, OwnInv, UNCHANGED <<pc, job, left, attempt, lockTTL>>,
         \A k \in Notifs :
           \/ RowStays(k)
           \/ status'[k] # "sending" /\ \A w \in Workers : Owns(w) => job[w] # k
           \/ status'[k] = "dead_letter" /\ attemptCount'[k] = attemptCount[k]
  PROVE  OwnInv'
<1>1. \A w \in Workers : Owns(w)' = Owns(w)
  BY Zenon DEF Owns
<1>2. \A w \in Workers : Owns(w) => Held(job[w], w) /\ job[w] \in Notifs
  BY Zenon DEF OwnInv, TypeInv, HasJob, Busy, Owns, OwningLabels
<1>3. ASSUME NEW w \in Workers, Owns(w)
      PROVE  Held(job[w], w)'
  <2>1. Held(job[w], w) /\ job[w] \in Notifs
    BY Zenon, <1>2, <1>3
  <2>2. RowStays(job[w]) \/ (status'[job[w]] = "dead_letter"
                             /\ attemptCount'[job[w]] = attemptCount[job[w]])
    BY Zenon, <1>3, <2>1
  <2> QED
    BY Zenon, <2>1, <2>2 DEF Held, RowStays, IsSending
<1>4. \A n \in Notifs : TimeBound(n)'
  BY Zenon DEF OwnInv, TimeBound, RowStays, IsSending
<1>5. SoleOwner'
  BY Zenon, <1>1 DEF OwnInv, SoleOwner
<1> QED
  BY Zenon, <1>1, <1>3, <1>4, <1>5 DEF OwnInv, TimeBound

(* Time passes for the owner's deadline and its row alike. *)
LEMMA OwnTick ==
  ASSUME TypeInv, OwnInv, Tick
  PROVE  OwnInv'
<1>t. /\ RowTypeOK /\ ControlOK /\ lockTTL \in [Notifs -> 0..LockTTL]
      /\ left \in [Workers -> 0..HandleTimeout]
  BY TypeParts DEF TypeInv, TypeOK, WorkerTypeOK
<1>1. UNCHANGED <<pc, job, attempt, status, attemptCount>>
  BY Zenon DEF Tick
<1>2. \A w \in Workers : Owns(w) => left[w] \in Nat /\ left'[w] = left[w] - 1
  BY SMTT(30), <1>t, WorkerAssumption DEF Tick, Busy, Owns, OwningLabels
<1>3. \A n \in Notifs : /\ sendingAge[n] \in Nat /\ sendingAge'[n] \in Nat
                        /\ sendingAge'[n] <= sendingAge[n] + 1
  <2>1. \A n \in Notifs : sendingAge[n] \in 0..AgeCap /\ AgeCap \in Nat
    BY SMTT(30), <1>t, StoreAssumption DEF RowTypeOK, AgeCap
  <2> QED
    BY SMTT(30), <2>1 DEF Tick, AgeSendingRows
<1>4. \A n \in Notifs : /\ lockTTL[n] \in Nat /\ lockTTL'[n] \in Nat
                        /\ lockTTL'[n] > 0 => lockTTL'[n] = lockTTL[n] - 1
  BY SMTT(30), <1>t, WorkerAssumption DEF Tick, ExpireLocks
<1>5. \A w \in Workers : Owns(w)' = Owns(w)
  BY <1>1 DEF Owns
<1>6. ASSUME NEW w \in Workers, Owns(w)'
      PROVE  Held(job[w], w)'
  <2>1. Owns(w) /\ Held(job[w], w) /\ job[w] \in Notifs
    BY Zenon, <1>5, <1>6 DEF OwnInv, TypeInv, HasJob, Busy, Owns, OwningLabels
  <2>2. sendingAge[job[w]] + left[w] <= HandleTimeout
          => sendingAge'[job[w]] + left'[w] <= HandleTimeout
    <3> DEFINE a == sendingAge[job[w]]
               b == sendingAge'[job[w]]
    <3>1. a \in Nat /\ b \in Nat /\ b <= a + 1 /\ left[w] \in Nat /\ left'[w] = left[w] - 1
      BY Zenon, <1>2, <1>3, <2>1
    <3> HIDE DEF a, b
    <3>2. a + left[w] <= HandleTimeout => b + left'[w] <= HandleTimeout
      BY SMT, <3>1, Timeouts
    <3> QED
      BY Zenon, <3>2 DEF a, b
  <2> QED
    BY Zenon, <1>1, <2>1, <2>2 DEF Held, IsSending
<1>7. ASSUME NEW n \in Notifs, IsSending(n)', lockTTL'[n] > 0
      PROVE  lockTTL'[n] + sendingAge'[n] <= HandleTimeout + LockTTL
  <2>1. IsSending(n) /\ lockTTL[n] > 0
    BY <1>1, <1>4, <1>7 DEF IsSending
  <2>2. lockTTL[n] + sendingAge[n] <= HandleTimeout + LockTTL
    BY <2>1 DEF OwnInv
  <2> DEFINE k == lockTTL[n]
             m == lockTTL'[n]
             a == sendingAge[n]
             b == sendingAge'[n]
  <2>3. /\ k \in Nat /\ a \in Nat /\ b \in Nat /\ m = k - 1 /\ b <= a + 1
        /\ k + a <= HandleTimeout + LockTTL
    BY Zenon, <1>3, <1>4, <1>7, <2>2
  <2> HIDE DEF k, m, a, b
  <2>4. m + b <= HandleTimeout + LockTTL
    BY SMT, <2>3, Timeouts
  <2> QED
    BY Zenon, <2>4 DEF m, b
<1>8. SoleOwner'
  BY Zenon, <1>1, <1>5 DEF OwnInv, SoleOwner
<1> QED
  BY Zenon, <1>1, <1>6, <1>7, <1>8 DEF OwnInv

(* An owned row is younger than the sweeper's threshold. *)
LEMMA OwnedNotStuck ==
  ASSUME TypeInv, OwnInv, NEW w \in Workers, Owns(w)
  PROVE  job[w] \in Notifs /\ job[w] \notin StuckSending
<1>1. job[w] \in Notifs /\ Held(job[w], w)
  BY DEF OwnInv, TypeInv, HasJob, Busy, Owns, OwningLabels
<1>2. left[w] \in Nat /\ sendingAge[job[w]] \in Nat
  BY Zenon, <1>1, OwnerFacts
<1>3. job[w] \in StuckSending => IsSending(job[w]) /\ sendingAge[job[w]] > StuckAfter
  BY DEF StuckSending, SendingRows, IsSending
<1>4. IsSending(job[w]) => sendingAge[job[w]] + left[w] <= HandleTimeout
  BY Zenon, <1>1 DEF Held
<1> QED
  BY Zenon, <1>1, <1>2, <1>3, <1>4, YoungRow

(* The sweeper's UPDATE, row by row. *)
LEMMA SweepLocal ==
  ASSUME Sweep
  PROVE  /\ UNCHANGED <<pc, job, left, attempt, lockTTL, calls, deliveryAttempts>>
         /\ \A n \in Notifs \ StuckSending : RowStays(n)
         /\ \A n \in StuckSending : /\ n \in Notifs
                                    /\ status'[n] = "queued"
                                    /\ attemptCount'[n] = attemptCount[n] + 1
<1>1. UNCHANGED <<pc, job, left, attempt, lockTTL, calls, deliveryAttempts>>
  BY DEF Sweep, nonStoreVars
<1>2. SweepStuckSending
  BY DEF Sweep
<1>3. StuckSending \subseteq Notifs
  BY Zenon DEF StuckSending, SendingRows
<1>4. \A n \in Notifs \ StuckSending : RowStays(n)
  BY Zenon, <1>2 DEF SweepStuckSending, RowStays
<1>5. \A n \in StuckSending : status'[n] = "queued" /\ attemptCount'[n] = attemptCount[n] + 1
  BY <1>2, <1>3 DEF SweepStuckSending
<1> QED
  BY Zenon, <1>1, <1>3, <1>4, <1>5

(* Create and Cancel touch one row, which was absent or cancellable. *)
LEMMA ApiLocal ==
  ASSUME TypeInv, NEW n \in Notifs, Create(n) \/ Cancel(n)
  PROVE  /\ UNCHANGED <<pc, job, left, attempt, lockTTL, calls, deliveryAttempts>>
         /\ \A k \in Notifs \ {n} : RowStays(k)
         /\ attemptCount'[n] = attemptCount[n]
         /\ status[n] \in {"absent", "pending", "queued", "scheduled"}
         /\ \/ status[n] = "absent" /\ status'[n] = "pending"
            \/ status'[n] = "cancelled"
<1>t. RowTypeOK
  BY TypeParts
<1>1. CASE Create(n)
  <2>1. SetStatus(n, "pending") /\ UNCHANGED attemptCount /\ status[n] = "absent"
    BY Zenon, <1>1 DEF Create
  <2>2. UNCHANGED <<pc, job, left, attempt, lockTTL, calls, deliveryAttempts>>
    BY <1>1 DEF Create, nonStoreVars
  <2> QED
    BY Zenon, <1>t, <2>1, <2>2, SetStatusLocal
<1>2. CASE Cancel(n)
  <2>1. CancelPendingOrQueued(n) /\ status[n] \in {"pending", "queued", "scheduled"}
    BY Zenon, <1>2 DEF Cancel, CancelPendingOrQueued, Cancellable
  <2>2. UNCHANGED <<pc, job, left, attempt, lockTTL, calls, deliveryAttempts>>
    BY Zenon, <1>2 DEF Cancel, nonStoreVars
  <2> QED
    BY Zenon, <1>t, <2>1, <2>2, RowQueryLocal DEF RowQuery
<1> QED
  BY Zenon, <1>1, <1>2

(* Every step keeps layer 3; Sweep, because an owned row is not stuck. *)
LEMMA OwnStep ==
  ASSUME TypeInv, OwnInv, [Next]_vars
  PROVE  OwnInv'
<1>t. RowTypeOK /\ pc \in [Workers -> Labels]
  BY TypeParts DEF TypeInv, TypeOK, WorkerTypeOK
<1>h. \A w \in Workers : Owns(w) =>
        /\ status[job[w]] \in {"sending", "dead_letter", "sent"}
        /\ job[w] \in Notifs
  BY Zenon DEF OwnInv, Held, TypeInv, HasJob, Busy, Owns, OwningLabels
<1>0. ASSUME UNCHANGED <<pc, job, left, attempt, lockTTL, rowVars>>
      PROVE  OwnInv'
  BY Zenon, <1>0, OwnOutside DEF RowStays
<1>1. ASSUME NEW w \in Workers, Deliver(w)
      PROVE  OwnInv'
  <2>1. PICK m \in Message : Deliver(w)!(m)
    BY Zenon, <1>1 DEF Deliver
  <2>2. /\ pc' = [pc EXCEPT ![w] = "settle"] \/ pc' = [pc EXCEPT ![w] = "cas"]
        /\ \A v \in Workers \ {w} : job'[v] = job[v] /\ left'[v] = left[v]
        /\ UNCHANGED <<attempt, rowVars, lockTTL>>
    BY <2>1 DEF Goto, TypeInv, TypeOK, WorkerTypeOK
  <2>3. ~Owns(w)' /\ \A v \in Workers \ {w} : pc'[v] = pc[v]
    BY Zenon, <1>t, <2>2 DEF Owns, OwningLabels
  <2> QED
    BY Zenon, <2>2, <2>3, OwnApart
<1>2. ASSUME NEW w \in Workers, HandlerStep(w)
      PROVE  OwnInv'
  BY <1>2, OwnHandler
<1>3. ASSUME NEW w \in Workers, WorkerCrash(w)
      PROVE  OwnInv'
  <2>1. pc'[w] = "idle" /\ \A v \in Workers \ {w} :
          pc'[v] = pc[v] /\ job'[v] = job[v] /\ attempt'[v] = attempt[v] /\ left'[v] = left[v]
    BY <1>3 DEF WorkerCrash, Reset, TypeInv, TypeOK, WorkerTypeOK
  <2>2. UNCHANGED <<rowVars, lockTTL>>
    BY Zenon, <1>3 DEF WorkerCrash
  <2>3. ~Owns(w)'
    BY Zenon, <2>1 DEF Owns, OwningLabels
  <2> QED
    BY Zenon, <2>1, <2>2, <2>3, OwnApart
<1>4. ASSUME NEW w \in Workers, ConnectionLost(w)
      PROVE  OwnInv'
  BY Zenon, <1>0, <1>4 DEF ConnectionLost
<1>5. ASSUME NEW w \in Workers, Shutdown(w)
      PROVE  OwnInv'
  <2>1. UNCHANGED <<pc, job, attempt, rowVars, lockTTL>>
    BY Zenon, <1>5 DEF Shutdown
  <2>2. \A v \in Workers : left[v] \in Nat /\ left'[v] \in Nat /\ left'[v] <= left[v]
    BY SMTT(30), <1>5, WorkerAssumption DEF Shutdown, TypeInv, TypeOK, WorkerTypeOK
  <2>3. \A v \in Workers : Owns(v)' = Owns(v)
    BY <2>1 DEF Owns
  <2>4. ASSUME NEW v \in Workers, Owns(v)
        PROVE  Held(job[v], v)'
    <3>1. Held(job[v], v) /\ sendingAge[job[v]] \in Nat
      BY Zenon, <1>h, <2>4, OwnerFacts
    <3> QED
      BY SMTT(30), <2>1, <2>2, <3>1, WorkerAssumption DEF Held, IsSending
  <2>5. SoleOwner'
    BY Zenon, <2>1, <2>3 DEF OwnInv, SoleOwner
  <2> QED
    BY Zenon, <2>1, <2>3, <2>4, <2>5 DEF OwnInv, IsSending
<1>6. CASE Tick
  BY Zenon, <1>6, OwnTick
<1>7. CASE OutboxNext /\ UNCHANGED <<workerVars, lockTTL, observedVars>>
  <2>1. ASSUME NEW n \in Notifs, MarkQueued(n) \/ MarkDeadLetter(n)
        PROVE  OwnInv'
    <3>1. RowQuery(n)
      BY <2>1 DEF RowQuery
    <3>2. /\ \A k \in Notifs \ {n} : RowStays(k)
          /\ \/ RowStays(n)
             \/ status[n] = "pending" /\ status'[n] = "queued"
             \/ status'[n] = "dead_letter" /\ attemptCount'[n] = attemptCount[n]
      BY Zenon, <1>t, <2>1, <3>1, RowQueryLocal
    <3> QED
      BY Zenon, <1>7, <1>h, <3>2, OwnOutside
  <2> QED
    BY <1>0, <1>7, <2>1, OutboxTables
<1>8. ASSUME NEW n \in Notifs, Create(n) \/ Cancel(n)
      PROVE  OwnInv'
  BY Zenon, <1>h, <1>8, ApiLocal, OwnOutside
<1>9. CASE Sweep
  BY Zenon, <1>9, SweepLocal, OwnedNotStuck, OwnOutside
<1>10. ASSUME NEW m \in Message, WaitTierExpires(m)
       PROVE  OwnInv'
  BY Zenon, <1>0, <1>10 DEF WaitTierExpires
<1>11. CASE UNCHANGED vars
  BY Zenon, <1>0, <1>11 DEF vars
<1> QED
  BY ZenonT(30), <1>1, <1>2, <1>3, <1>4, <1>5, <1>6, <1>7, <1>8, <1>9, <1>10, <1>11 DEF Next, WorkerNext

(* An owned row has one owner and is out of the sweeper's reach. *)
LEMMA OwnInvariant == Spec => []OwnInv
<1>1. Init => OwnInv
  BY ZenonT(30) DEF Init, WorkerInit, StoreInit, OwnInv, SoleOwner, Owns, OwningLabels, IsSending
<1> QED
  BY <1>1, OwnStep, TypeCorrect, PTL DEF Spec

(* Two workers never hold the same row between MarkSendingCAS and the       *)
(* statement that gives the row up.                                         *)
THEOREM OwnersExclusive == Spec => []SoleOwner
<1>1. OwnInv => SoleOwner
  BY DEF OwnInv
<1> QED
  BY <1>1, OwnInvariant, PTL

(* The sweeper only reclaims rows no live worker owns and whose in-flight   *)
(* key is gone (sweeper/sending.go, the sizing rule of StuckAfter).         *)
THEOREM SweepIsSafe == Spec => []SweepSafe
<1>1. ASSUME TypeInv, OwnInv
      PROVE  SweepSafe
  <2>1. ASSUME NEW n \in StuckSending
        PROVE  lockTTL[n] = 0
    <3>1. n \in Notifs /\ IsSending(n) /\ sendingAge[n] > StuckAfter
      BY Zenon, <2>1 DEF StuckSending, SendingRows
    <3>2. lockTTL[n] \in 0..LockTTL /\ sendingAge[n] \in 0..AgeCap
      BY Zenon, <1>1, <3>1 DEF TypeInv, TypeOK, StoreTypeOK, WorkerTypeOK
    <3>3. lockTTL[n] > 0 => lockTTL[n] + sendingAge[n] <= HandleTimeout + LockTTL
      BY <1>1, <3>1 DEF OwnInv
    <3> QED
      BY SMTT(30), <3>1, <3>2, <3>3, WorkerAssumption, TimeoutAssumption, StoreAssumption DEF AgeCap
  <2>2. \A w \in Workers : Owns(w) => job[w] \notin StuckSending
    BY <1>1, OwnedNotStuck
  <2> QED
    BY Zenon, <2>1, <2>2 DEF SweepSafe
<1> QED
  BY <1>1, TypeCorrect, OwnInvariant, PTL

-----------------------------------------------------------------------------
(* Layer 4: provider requests and recorded attempts against attempt_count.  *)
(* An owner is alone with its row (layer 3), so a step concerns the counts  *)
(* of one row and one worker.                                               *)

(* Layer 4: what attempt_count accounts for *)

CountsOK(n) ==
  /\ calls[n] <= attemptCount[n] + 1
  /\ deliveryAttempts[n] \subseteq 1..(attemptCount[n] + 1)
  /\ status[n] \in {"absent", "pending", "queued"} =>
       /\ calls[n] <= attemptCount[n]
       /\ deliveryAttempts[n] \subseteq 1..attemptCount[n]

CarrierOK(w) ==
  /\ pc[w] \in UncalledLabels => calls[job[w]] <= attemptCount[job[w]]
  /\ pc[w] \in UnrecordedLabels => deliveryAttempts[job[w]] \subseteq 1..attemptCount[job[w]]

CountsStay(n) ==
  /\ attemptCount'[n] = attemptCount[n] /\ calls'[n] = calls[n]
  /\ deliveryAttempts'[n] = deliveryAttempts[n]

(* One request or record more than were accounted for is within the budget. *)
LEMMA OneMore ==
  ASSUME NEW c \in Nat, NEW k \in Nat
  PROVE  /\ c <= k => c + 1 <= k + 1
         /\ k + 1 \in 1..(k + 1)
         /\ c <= k => c <= k + 1
         /\ 1..k \subseteq 1..(k + 1)
  BY SMT

(* Whoever still has a request or a record to make owns the row. *)
LEMMA CarrierOwns ==
  ASSUME NEW w \in Workers, pc[w] \in UnrecordedLabels
  PROVE  Owns(w)
  BY Zenon DEF UnrecordedLabels, UncalledLabels, Owns, OwningLabels

(* Layer 4 concerns one row at a time, and one owner of it. *)
LEMMA BudgetHandover ==
  ASSUME OwnInv, BudgetInv, NEW w \in Workers, job[w] \in Notifs,
         UNCHANGED job,
         \A v \in Workers \ {w} : pc'[v] = pc[v],
         \A k \in Notifs \ {job[w]} : CountsStay(k) /\ status'[k] = status[k],
         \A v \in Workers \ {w} : Owns(v) => job[v] \in Notifs,
         Owns(w) \/ CountsStay(job[w]),
         CountsOK(job[w])', CarrierOK(w)'
  PROVE  BudgetInv'
<1>s. \A u, v \in Workers : u # v /\ Owns(u) /\ Owns(v) => job[u] # job[v]
  BY Zenon DEF OwnInv, SoleOwner
<1>1. ASSUME NEW n \in Notifs
      PROVE  CountsOK(n)'
  <2>1. CASE n = job[w]
    BY Zenon, <2>1
  <2>2. CASE n # job[w]
    BY Zenon, <2>2 DEF BudgetInv, CountsOK, CountsStay
  <2> QED
    BY Zenon, <2>1, <2>2
<1>2. ASSUME NEW v \in Workers
      PROVE  CarrierOK(v)'
  <2>1. CASE v = w
    BY Zenon, <2>1
  <2>2. CASE v # w /\ pc[v] \notin UnrecordedLabels
    BY Zenon, <2>2 DEF CarrierOK, UnrecordedLabels
  <2>3. CASE v # w /\ pc[v] \in UnrecordedLabels
    <3>1. Owns(v) /\ job[v] \in Notifs
      BY Zenon, <2>3, CarrierOwns
    <3>2. CountsStay(job[v])
      BY Zenon, <1>s, <2>3, <3>1
    <3> QED
      BY Zenon, <2>3, <3>2 DEF BudgetInv, CarrierOK, CountsStay
  <2> QED
    BY Zenon, <2>1, <2>2, <2>3
<1> QED
  BY Zenon, <1>1, <1>2 DEF BudgetInv, CountsOK, CarrierOK

(* Steps that make no request and record nothing: an attempt_count that     *)
(* goes up, on a row nobody owns, or a status that does not open the row.   *)
LEMMA BudgetOutside ==
  ASSUME TypeInv, BudgetInv, UNCHANGED <<calls, deliveryAttempts>>,
         \A v \in Workers : pc'[v] \in UnrecordedLabels => pc'[v] = pc[v] /\ job'[v] = job[v],
         \A k \in Notifs :
           \/ attemptCount'[k] = attemptCount[k] /\ status'[k] = status[k]
           \/ attemptCount'[k] = attemptCount[k] /\ status'[k] \in {"dead_letter", "cancelled"}
           \/ /\ attemptCount'[k] = attemptCount[k]
              /\ status[k] \in {"absent", "pending"}
              /\ status'[k] \in {"pending", "queued"}
           \/ attemptCount'[k] = attemptCount[k] + 1
  PROVE  BudgetInv'
<1>t. \A k \in Notifs : calls[k] \in Nat /\ attemptCount[k] \in Nat
  BY Zenon DEF TypeInv, TypeOK, StoreTypeOK, WorkerTypeOK
<1>j. \A v \in Workers : pc[v] \in UnrecordedLabels => job[v] \in Notifs
  BY Zenon, CarrierOwns DEF TypeInv, HasJob, Busy, Owns, OwningLabels
<1>1. ASSUME NEW n \in Notifs
      PROVE  CountsOK(n)'
  <2>1. CountsOK(n)
    BY Zenon DEF BudgetInv, CountsOK
  <2>2. CASE attemptCount'[n] = attemptCount[n]
    BY Zenon, <2>1, <2>2 DEF CountsOK
  <2>3. CASE attemptCount'[n] = attemptCount[n] + 1
    BY SMTT(30), <1>t, <2>1, <2>3 DEF CountsOK
  <2> QED
    BY Zenon, <2>2, <2>3
<1>2. ASSUME NEW v \in Workers
      PROVE  CarrierOK(v)'
  <2>1. CASE pc'[v] \notin UnrecordedLabels
    BY Zenon, <2>1 DEF CarrierOK, UnrecordedLabels
  <2>2. CASE pc'[v] \in UnrecordedLabels
    <3>1. pc'[v] = pc[v] /\ job'[v] = job[v] /\ job[v] \in Notifs /\ CarrierOK(v)
      BY Zenon, <1>j, <2>2 DEF BudgetInv, CarrierOK
    <3>2. \/ attemptCount'[job[v]] = attemptCount[job[v]]
          \/ attemptCount'[job[v]] = attemptCount[job[v]] + 1
      BY Zenon, <3>1
    <3> QED
      BY SMTT(30), <1>t, <3>1, <3>2 DEF CarrierOK
  <2> QED
    BY Zenon, <2>1, <2>2
<1> QED
  BY Zenon, <1>1, <1>2 DEF BudgetInv, CountsOK, CarrierOK

(* No call of a handler leaves a provider request uncounted. *)
LEMMA BudgetHandler ==
  ASSUME TypeInv, OwnInv, BudgetInv, NEW w \in Workers, HandlerStep(w)
  PROVE  BudgetInv'
<1>s. CASE Settle(w)
  <2>1. pc'[w] = "idle" /\ \A v \in Workers \ {w} : pc'[v] = pc[v] /\ job'[v] = job[v]
    BY Zenon, <1>s DEF Settle, Reset, TypeInv, TypeOK, WorkerTypeOK
  <2>2. UNCHANGED <<rowVars, calls, deliveryAttempts>>
    BY Zenon, <1>s DEF Settle
  <2>3. pc'[w] \notin UnrecordedLabels
    BY <2>1 DEF UnrecordedLabels, UncalledLabels
  <2> QED
    BY Zenon, <2>1, <2>2, <2>3, BudgetOutside
<1> SUFFICES ASSUME ~Settle(w)
             PROVE  BudgetInv'
  BY Zenon, <1>s
<1> DEFINE n == job[w]
<1>l. /\ UNCHANGED job /\ n \in Notifs /\ n' = n
      /\ \A v \in Workers \ {w} : pc'[v] = pc[v]
      /\ \A k \in Notifs \ {n} : RowStays(k)
      /\ \A v \in Workers \ {w} : Owns(v) => job[v] \in Notifs
  BY Zenon, HandlerLocal DEF TypeInv, HasJob, Busy, Owns, OwningLabels
<1>t. /\ RowTypeOK /\ pc \in [Workers -> Labels]
      /\ calls \in [Notifs -> Nat] /\ deliveryAttempts \in [Notifs -> SUBSET Nat]
      /\ calls[n] \in Nat /\ attemptCount[n] \in Nat
  BY Zenon, <1>l, TypeParts DEF TypeInv, TypeOK, StoreTypeOK, WorkerTypeOK
<1>f. /\ CountsOK(n) /\ CarrierOK(w)
      /\ Owns(w) => attempt[w] = attemptCount[n] + 1 /\ ~Pickable(n) /\ status[n] # "absent"
  BY Zenon, <1>l DEF BudgetInv, CountsOK, CarrierOK, OwnInv, Held, Pickable
<1>q. ASSUME MarkSendingCAS(n) \/ MarkSent(n) \/ RevertToQueuedNoAttempt(n)
             \/ RevertToQueued(n) \/ MarkDeadLetter(n) \/ UNCHANGED rowVars
      PROVE  RowQuery(n)
  BY Zenon, <1>q DEF RowQuery
<1>h. ASSUME \A k \in Notifs \ {n} : /\ calls'[k] = calls[k]
                                     /\ deliveryAttempts'[k] = deliveryAttempts[k],
             Owns(w) \/ CountsStay(n), CountsOK(n)', CarrierOK(w)'
      PROVE  BudgetInv'
  <2>1. \A k \in Notifs \ {n} : CountsStay(k) /\ status'[k] = status[k]
    BY Zenon, <1>l, <1>h DEF CountsStay, RowStays
  <2> QED
    BY Zenon, <1>l, <1>h, <2>1, BudgetHandover
<1>c. /\ CarrierOK(w) = /\ pc[w] \in UncalledLabels => calls[n] <= attemptCount[n]
                        /\ pc[w] \in UnrecordedLabels => deliveryAttempts[n] \subseteq 1..attemptCount[n]
      /\ CarrierOK(w)' = /\ pc'[w] \in UncalledLabels => calls'[n] <= attemptCount'[n]
                         /\ pc'[w] \in UnrecordedLabels =>
                              deliveryAttempts'[n] \subseteq 1..attemptCount'[n]
  BY Zenon, <1>l DEF CarrierOK
<1>d. CountsOK(n)' = /\ calls'[n] <= attemptCount'[n] + 1
                     /\ deliveryAttempts'[n] \subseteq 1..(attemptCount'[n] + 1)
                     /\ status'[n] \in {"absent", "pending", "queued"} =>
                          /\ calls'[n] <= attemptCount'[n]
                          /\ deliveryAttempts'[n] \subseteq 1..attemptCount'[n]
  BY Zenon, <1>l DEF CountsOK
<1> HIDE DEF n
<1>r. ASSUME UNCHANGED <<calls, deliveryAttempts>>,
             CountsOK(n)', CarrierOK(w)', Owns(w) \/ attemptCount'[n] = attemptCount[n]
      PROVE  BudgetInv'
  BY Zenon, <1>h, <1>r DEF CountsStay
<1>1. CASE CASHit(w) \/ CASError(w)
  <2>1. /\ UNCHANGED <<calls, deliveryAttempts>>
        /\ CASHit(w) => Pickable(n)
        /\ UNCHANGED rowVars \/ MarkSendingCAS(n)
    BY Zenon, <1>1 DEF CASHit, CASError, MarkSendingCAS, n
  <2>2. attemptCount'[n] = attemptCount[n] /\ (status'[n] = status[n] \/ status'[n] = "sending")
    BY Zenon, <1>l, <1>t, <1>q, <2>1, RowQueryLocal DEF RowStays
  <2>3. CASHit(w) \/ pc'[w] = "bounce"
    BY Zenon, <1>1, <1>t DEF CASError, Goto
  <2>4. CountsOK(n)'
    BY Zenon, <1>l, <1>f, <2>1, <2>2 DEF CountsOK
  <2>5. CarrierOK(w)'
    BY Zenon, <1>c, <1>f, <2>1, <2>2, <2>3 DEF CountsOK, Pickable, UnrecordedLabels, UncalledLabels
  <2> QED
    BY Zenon, <1>r, <2>1, <2>2, <2>4, <2>5
<1>2. ASSUME UNCHANGED <<calls, deliveryAttempts, rowVars>>,
             pc'[w] \in UncalledLabels => pc[w] \in UncalledLabels,
             pc'[w] \in UnrecordedLabels => pc[w] \in UnrecordedLabels
      PROVE  BudgetInv'
  <2>1. CountsOK(n)' /\ CarrierOK(w)'
    BY Zenon, <1>l, <1>c, <1>f, <1>2 DEF CountsOK
  <2> QED
    BY Zenon, <1>r, <1>2, <2>1
<1>3. CASE AcquireLock(w) \/ LockHeld(w) \/ SetNXError(w) \/ TakeAllowed(w)
           \/ TakeThrottled(w) \/ TakeError(w) \/ BreakerOpen(w)
  BY Zenon, <1>t, <1>2, <1>3 DEF AcquireLock, LockHeld, SetNXError, TakeAllowed, TakeThrottled,
     TakeError, BreakerOpen, Goto, UnrecordedLabels, UncalledLabels
<1>4. CASE SendCancelled(w) \/ CallSucceeds(w) \/ CallFailsRetryable(w) \/ CallFailsTerminal(w)
  BY Zenon, <1>t, <1>2, <1>4 DEF SendCancelled, CallSucceeds, CallFailsRetryable, CallFailsTerminal,
     AfterFailure, Goto, UnrecordedLabels, UncalledLabels
<1>5. CASE CASMiss(w) \/ routeToRetryTier(w) \/ TerminalInsert(w) \/ requeueViaWaitTier(w)
           \/ Unlock(w)
  BY Zenon, <1>t, <1>2, <1>5 DEF CASMiss, routeToRetryTier, TerminalInsert, requeueViaWaitTier,
     Unlock, Goto, UnrecordedLabels, UncalledLabels
<1>6. CASE StartCall(w)
  <2>1. /\ UNCHANGED <<rowVars, deliveryAttempts>> /\ calls' = [calls EXCEPT ![n] = @ + 1]
        /\ pc[w] = "send" /\ pc'[w] = "inCall"
    BY Zenon, <1>t, <1>6 DEF StartCall, Goto, n
  <2>2. Owns(w) /\ pc[w] \in UncalledLabels /\ pc[w] \in UnrecordedLabels
        /\ pc'[w] \notin UncalledLabels
    BY Zenon, <2>1 DEF UnrecordedLabels, UncalledLabels, Owns, OwningLabels
  <2>a. calls[n] <= attemptCount[n]
    BY Zenon, <1>c, <1>f, <2>2
  <2>b. calls'[n] = calls[n] + 1 /\ \A k \in Notifs \ {n} : calls'[k] = calls[k]
    BY Zenon, <1>l, <1>t, <2>1
  <2>3. calls'[n] = calls[n] + 1 /\ calls[n] <= attemptCount[n]
        /\ \A k \in Notifs \ {n} : calls'[k] = calls[k]
    BY Zenon, <2>a, <2>b
  <2>4. CountsOK(n)'
    <3>1. calls'[n] <= attemptCount'[n] + 1
      BY Zenon, <1>t, <2>1, <2>3, OneMore
    <3>2. deliveryAttempts'[n] \subseteq 1..(attemptCount'[n] + 1)
      BY Zenon, <1>f, <2>1 DEF CountsOK
    <3>3. status'[n] \notin {"absent", "pending", "queued"}
      BY Zenon, <1>f, <2>1, <2>2 DEF Pickable
    <3> QED
      BY Zenon, <1>d, <3>1, <3>2, <3>3
  <2>5. CarrierOK(w)'
    BY Zenon, <1>c, <1>f, <2>1, <2>2
  <2> QED
    BY Zenon, <1>h, <2>1, <2>2, <2>3, <2>4, <2>5
<1>7. CASE RecordAttempt(w)
  <2>1. /\ UNCHANGED <<rowVars, calls>>
        /\ \/ deliveryAttempts' = [deliveryAttempts EXCEPT ![n] = @ \cup {attempt[w]}]
           \/ UNCHANGED deliveryAttempts
        /\ pc[w] \in {"recordOk", "recordRetry", "recordDead"}
        /\ pc'[w] \in {"markSent", "revert", "markDead"}
    BY Zenon, <1>t, <1>7 DEF RecordAttempt, InsertDeliveryAttempt, Goto, n
  <2>2. Owns(w) /\ pc'[w] \notin UncalledLabels /\ pc'[w] \notin UnrecordedLabels
    BY Zenon, <2>1 DEF UnrecordedLabels, UncalledLabels, Owns, OwningLabels
  <2>3. /\ \A k \in Notifs \ {n} : deliveryAttempts'[k] = deliveryAttempts[k]
        /\ deliveryAttempts'[n] \subseteq deliveryAttempts[n] \cup {attempt[w]}
    BY Zenon, <1>l, <1>t, <2>1
  <2>4. attempt[w] \in 1..(attemptCount[n] + 1)
    BY Zenon, <1>t, <1>f, <2>2, OneMore
  <2>5. CountsOK(n)'
    <3>1. calls'[n] <= attemptCount'[n] + 1
      BY Zenon, <1>f, <2>1 DEF CountsOK
    <3>2. deliveryAttempts'[n] \subseteq 1..(attemptCount'[n] + 1)
      BY Zenon, <1>f, <2>1, <2>3, <2>4 DEF CountsOK
    <3>3. status'[n] \notin {"absent", "pending", "queued"}
      BY Zenon, <1>f, <2>1, <2>2 DEF Pickable
    <3> QED
      BY Zenon, <1>d, <3>1, <3>2, <3>3
  <2>6. CarrierOK(w)'
    BY Zenon, <1>c, <2>2
  <2> QED
    BY Zenon, <1>h, <2>1, <2>2, <2>3, <2>5, <2>6
<1>8. CASE DeferToHolder(w) \/ RevertForRetry(w) \/ TerminalMark(w) \/ MarkSentOk(w)
           \/ MarkSentError(w) \/ UndoAfterMarkSent(w)
  <2>1. /\ UNCHANGED <<calls, deliveryAttempts>>
        /\ \/ pc[w] \in {"defer", "revertNA"} /\ RevertToQueuedNoAttempt(n)
           \/ RevertToQueued(n) \/ MarkDeadLetter(n) \/ MarkSent(n) \/ UNCHANGED rowVars
    BY Zenon, <1>8 DEF DeferToHolder, RevertForRetry, TerminalMark, MarkSentOk, MarkSentError,
       UndoAfterMarkSent, Goto, n
  <2>2. /\ pc[w] \in {"defer", "revert", "revertNA", "markDead", "markSent", "undo"}
        /\ pc'[w] \in {"settle", "route", "insertDead", "unlock", "undo"}
    BY Zenon, <1>t, <1>8 DEF DeferToHolder, RevertForRetry, TerminalMark, MarkSentOk, MarkSentError,
       UndoAfterMarkSent, Goto
  <2>3. Owns(w) /\ pc'[w] \notin UncalledLabels /\ pc'[w] \notin UnrecordedLabels
    BY <2>2 DEF UnrecordedLabels, UncalledLabels, Owns, OwningLabels
  <2>4. pc[w] \in {"defer", "revertNA"} => pc[w] \in UncalledLabels /\ pc[w] \in UnrecordedLabels
    BY DEF UnrecordedLabels, UncalledLabels
  <2>5. \/ RowStays(n)
        \/ /\ pc[w] \in {"defer", "revertNA"}
           /\ status'[n] = "queued" /\ attemptCount'[n] = attemptCount[n]
        \/ attemptCount'[n] = attemptCount[n] + 1
        \/ status'[n] \in {"dead_letter", "sent"} /\ attemptCount'[n] = attemptCount[n]
    BY Zenon, <1>l, <1>t, <1>q, <2>1, RowQueryLocal
  <2>6. CountsOK(n)'
    <3>1. CASE RowStays(n) \/ (status'[n] \in {"dead_letter", "sent"}
                               /\ attemptCount'[n] = attemptCount[n])
      BY Zenon, <1>l, <1>f, <2>1, <3>1 DEF CountsOK, RowStays
    <3>2. CASE /\ pc[w] \in {"defer", "revertNA"}
               /\ status'[n] = "queued" /\ attemptCount'[n] = attemptCount[n]
      BY Zenon, <1>l, <1>c, <1>f, <2>1, <2>4, <3>2 DEF CountsOK
    <3>3. CASE attemptCount'[n] = attemptCount[n] + 1
      <4> DEFINE a == attemptCount[n]
      <4>1. a \in Nat /\ calls[n] \in Nat /\ calls[n] <= a + 1
            /\ deliveryAttempts[n] \subseteq 1..(a + 1)
        BY Zenon, <1>l, <1>t, <1>f DEF CountsOK
      <4>2. attemptCount'[n] = a + 1 /\ calls'[n] = calls[n]
            /\ deliveryAttempts'[n] = deliveryAttempts[n]
        BY Zenon, <2>1, <3>3
      <4> HIDE DEF a
      <4>3. 1..(a + 1) \subseteq 1..(a + 1 + 1) /\ calls[n] <= a + 1 + 1
        BY <4>1
      <4> QED
        BY Zenon, <1>l, <4>1, <4>2, <4>3 DEF CountsOK
    <3> QED
      BY Zenon, <2>5, <3>1, <3>2, <3>3
  <2>7. CarrierOK(w)'
    BY Zenon, <1>c, <2>3
  <2> QED
    BY Zenon, <1>r, <2>1, <2>3, <2>6, <2>7
<1> QED
  BY Zenon, <1>1, <1>3, <1>4, <1>5, <1>6, <1>7, <1>8 DEF HandlerStep

(* Every step keeps layer 4. *)
LEMMA BudgetStep ==
  ASSUME TypeInv, OwnInv, BudgetInv, [Next]_vars
  PROVE  BudgetInv'
<1>t. RowTypeOK
  BY Zenon, TypeParts
<1>0. ASSUME UNCHANGED <<pc, job, status, attemptCount, calls, deliveryAttempts>>
      PROVE  BudgetInv'
  BY Zenon, <1>0, BudgetOutside
<1>1. ASSUME NEW w \in Workers, Deliver(w) \/ WorkerCrash(w)
      PROVE  BudgetInv'
  <2>1. /\ pc'[w] \in {"settle", "cas", "idle"}
        /\ \A v \in Workers \ {w} : pc'[v] = pc[v] /\ job'[v] = job[v]
    <3>1. CASE Deliver(w)
      <4>1. PICK m \in Message : Deliver(w)!(m)
        BY Zenon, <3>1 DEF Deliver
      <4>2. /\ pc' = [pc EXCEPT ![w] = "settle"] \/ pc' = [pc EXCEPT ![w] = "cas"]
            /\ job' = [job EXCEPT ![w] = m[1]]
        BY Zenon, <4>1 DEF Goto
      <4> QED
        BY <4>2 DEF TypeInv, TypeOK, WorkerTypeOK
    <3>2. CASE WorkerCrash(w)
      BY Zenon, <3>2 DEF WorkerCrash, Reset, TypeInv, TypeOK, WorkerTypeOK
    <3> QED
      BY Zenon, <1>1, <3>1, <3>2
  <2>2. UNCHANGED <<rowVars, calls, deliveryAttempts>>
    BY ZenonT(30), <1>1 DEF Deliver, WorkerCrash
  <2>3. pc'[w] \notin UnrecordedLabels
    BY <2>1 DEF UnrecordedLabels, UncalledLabels
  <2> QED
    BY Zenon, <2>1, <2>2, <2>3, BudgetOutside
<1>2. ASSUME NEW w \in Workers, HandlerStep(w)
      PROVE  BudgetInv'
  BY Zenon, <1>2, BudgetHandler
<1>3. ASSUME NEW w \in Workers, ConnectionLost(w) \/ Shutdown(w)
      PROVE  BudgetInv'
  BY Zenon, <1>0, <1>3 DEF ConnectionLost, Shutdown
<1>4. CASE Tick
  BY Zenon, <1>0, <1>4 DEF Tick
<1>5. CASE OutboxNext /\ UNCHANGED <<workerVars, lockTTL, observedVars>>
  <2>1. ASSUME NEW n \in Notifs, MarkQueued(n) \/ MarkDeadLetter(n)
        PROVE  BudgetInv'
    <3>1. RowQuery(n)
      BY Zenon, <2>1 DEF RowQuery
    <3>2. /\ \A k \in Notifs \ {n} : RowStays(k)
          /\ \/ RowStays(n)
             \/ /\ status[n] = "pending" /\ status'[n] = "queued"
                /\ attemptCount'[n] = attemptCount[n]
             \/ status'[n] = "dead_letter" /\ attemptCount'[n] = attemptCount[n]
      BY Zenon, <1>t, <2>1, <3>1, RowQueryLocal
    <3> QED
      BY Zenon, <1>5, <3>2, BudgetOutside, OutboxTables DEF RowStays
  <2> QED
    BY Zenon, <1>0, <1>5, <2>1, OutboxTables
<1>6. ASSUME NEW n \in Notifs, Create(n) \/ Cancel(n)
      PROVE  BudgetInv'
  BY Zenon, <1>6, ApiLocal, BudgetOutside DEF RowStays
<1>7. CASE Sweep
  BY Zenon, <1>7, SweepLocal, BudgetOutside DEF RowStays
<1>8. ASSUME NEW m \in Message, WaitTierExpires(m)
      PROVE  BudgetInv'
  BY Zenon, <1>0, <1>8 DEF WaitTierExpires
<1>9. CASE UNCHANGED vars
  BY <1>0, <1>9 DEF vars
<1> QED
  BY Zenon, <1>1, <1>2, <1>3, <1>4, <1>5, <1>6, <1>7, <1>8, <1>9 DEF Next, WorkerNext

(* Requests and recorded attempts stay within attempt_count. *)
LEMMA BudgetInvariant == Spec => []BudgetInv
<1>1. Init => BudgetInv
  BY DEF Init, WorkerInit, StoreInit, BudgetInv, UncalledLabels, UnrecordedLabels
<1> QED
  BY <1>1, BudgetStep, TypeCorrect, OwnInvariant, PTL DEF Spec

(* Every provider request is charged to attempt_count by the time the row   *)
(* can be picked up again.                                                  *)
THEOREM CallsAreCounted == Spec => []CallsWithinBudget
<1>1. TypeInv /\ BudgetInv => CallsWithinBudget
  BY SMTT(30) DEF TypeInv, TypeOK, StoreTypeOK, WorkerTypeOK, BudgetInv, CallsWithinBudget
<1> QED
  BY <1>1, TypeCorrect, BudgetInvariant, PTL

(* A delivery_attempts row about to be inserted never collides with         *)
(* UNIQUE (notification_id, attempt_number).                                *)
THEOREM AttemptNumbersFresh == Spec => []AttemptsUnique
<1>1. ASSUME TypeInv, OwnInv, BudgetInv,
             NEW w \in Workers, pc[w] \in {"recordOk", "recordRetry", "recordDead"}
      PROVE  attempt[w] \notin deliveryAttempts[job[w]]
  <2>1. Owns(w) /\ job[w] \in Notifs
    BY Zenon, <1>1 DEF TypeInv, HasJob, Busy, Owns, OwningLabels
  <2>2. attemptCount[job[w]] \in Nat
    BY Zenon, <1>1, <2>1 DEF TypeInv, TypeOK, StoreTypeOK
  <2>3. attempt[w] = attemptCount[job[w]] + 1
    BY Zenon, <1>1, <2>1 DEF OwnInv, Held
  <2>4. deliveryAttempts[job[w]] \subseteq 1..attemptCount[job[w]]
    BY Zenon, <1>1 DEF BudgetInv, UnrecordedLabels
  <2> QED
    BY SMTT(30), <2>2, <2>3, <2>4
<1>2. TypeInv /\ OwnInv /\ BudgetInv => AttemptsUnique
  BY <1>1 DEF AttemptsUnique
<1> QED
  BY <1>2, TypeCorrect, OwnInvariant, BudgetInvariant, PTL

-----------------------------------------------------------------------------
(* Past the x-redeliveries test *)

(* A handler past the x-redeliveries test has a delivery under the cap, and *)
(* bounces only what failed.                                                *)
CanBounce(w) ==
  /\ pc[w] \notin {"idle", "settle"} => redel[w] < MaxRedeliveries
  /\ pc[w] = "bounce" => ret[w] = "err"

(* No step changes that. *)
LEMMA BounceStep ==
  ASSUME TypeInv, [Next]_vars, NEW v \in Workers, CanBounce(v)
  PROVE  CanBounce(v)'
<1>t. ControlOK
  BY Zenon, TypeParts
<1> USE DEF CanBounce
<1>0. ASSUME UNCHANGED <<pc, redel, ret>>
      PROVE  CanBounce(v)'
  BY <1>0
<1>1. ASSUME NEW w \in Workers, HandlerStep(w)
      PROVE  CanBounce(v)'
  <2>1. CASE Settle(w) \/ v # w
    <3>1. CASE Settle(w)
      BY Zenon, <1>t, <3>1 DEF Settle, Reset, ControlOK
    <3>2. CASE ~Settle(w) /\ v # w
      BY <1>t, <1>1, <3>2, HandlerControl DEF Control, ControlOK
    <3> QED
      BY Zenon, <2>1, <3>1, <3>2
  <2>2. CASE ~Settle(w) /\ v = w
    <3>1. Control(w)
      BY Zenon, <1>1, <2>2, HandlerControl
    <3>2. redel' = redel /\ pc[w] # "idle"
      BY Zenon, <1>t, <1>1, <2>2, <3>1 DEF Control, ControlOK, Busy
    <3>3. pc[w] # "settle"
      BY Zenon, <1>1, <2>2 DEF HandlerStep, CASHit, CASMiss, CASError, AcquireLock, LockHeld, SetNXError,
         DeferToHolder, TakeAllowed, TakeThrottled, TakeError, StartCall, BreakerOpen,
         SendCancelled, CallSucceeds, CallFailsRetryable, CallFailsTerminal, RecordAttempt,
         RevertForRetry, routeToRetryTier, TerminalMark, TerminalInsert, MarkSentOk,
         MarkSentError, UndoAfterMarkSent, Unlock, requeueViaWaitTier, Goto
    <3>4. pc'[w] = "bounce" => ret'[w] = "err"
      <4>1. CASE CASError(w) \/ SetNXError(w)
        BY Zenon, <1>t, <4>1 DEF CASError, SetNXError, Returns, ControlOK
      <4>2. CASE Unlock(w)
        BY Zenon, <1>t, <4>2 DEF Unlock, Goto, ControlOK
      <4>3. CASE ~(CASError(w) \/ SetNXError(w) \/ Unlock(w))
        <5>1. pc'[w] # "bounce"
          BY Zenon, <1>t, <1>1, <2>2, <4>3 DEF HandlerStep, CASHit, CASMiss, AcquireLock, LockHeld,
             DeferToHolder, TakeAllowed, TakeThrottled, TakeError, StartCall, BreakerOpen,
             SendCancelled, CallSucceeds, CallFailsRetryable, CallFailsTerminal, RecordAttempt,
             RevertForRetry, routeToRetryTier, TerminalMark, TerminalInsert, MarkSentOk,
             MarkSentError, UndoAfterMarkSent, requeueViaWaitTier, Goto, AfterFailure, ControlOK
        <5> QED
          BY Zenon, <5>1
      <4> QED
        BY Zenon, <4>1, <4>2, <4>3
    <3> QED
      BY Zenon, <2>2, <3>2, <3>3, <3>4
  <2> QED
    BY Zenon, <2>1, <2>2
<1>2. ASSUME NEW w \in Workers, Deliver(w)
      PROVE  CanBounce(v)'
  <2>1. PICK m \in Message : Deliver(w)!(m)
    BY Zenon, <1>2 DEF Deliver
  <2>2. CapReached(m) \/ m[2] < MaxRedeliveries
    BY BrokerAssumption DEF CapReached, Message
  <2> QED
    BY <1>t, <2>1, <2>2 DEF ControlOK, Goto, Returns
<1>3. ASSUME NEW w \in Workers, WorkerCrash(w)
      PROVE  CanBounce(v)'
  BY <1>t, <1>3 DEF WorkerCrash, Reset, ControlOK
<1>4. ASSUME NEW w \in Workers, ConnectionLost(w) \/ Shutdown(w)
      PROVE  CanBounce(v)'
  BY Zenon, <1>0, <1>4 DEF ConnectionLost, Shutdown
<1>5. CASE Tick
  BY Zenon, <1>0, <1>5 DEF Tick
<1>6. CASE \/ OutboxNext /\ UNCHANGED <<workerVars, lockTTL, observedVars>>
           \/ \E n \in Notifs : Create(n) \/ Cancel(n)
           \/ Sweep
           \/ \E m \in Message : WaitTierExpires(m)
           \/ UNCHANGED vars
  BY Zenon, <1>0, <1>6 DEF Create, Cancel, Sweep, WaitTierExpires, nonStoreVars, vars
<1> QED
  BY Zenon, <1>1, <1>2, <1>3, <1>4, <1>5, <1>6 DEF Next, WorkerNext

(* So every handler can bounce its delivery. *)
BounceInv == \A w \in Workers : CanBounce(w)

(* No delivery at the cap is handled. *)
LEMMA BounceInvariant == Spec => []BounceInv
<1>1. Init => BounceInv
  BY DEF Init, WorkerInit, BounceInv, CanBounce
<1>2. TypeInv /\ BounceInv /\ [Next]_vars => BounceInv'
  BY Zenon, BounceStep DEF BounceInv
<1> QED
  BY <1>1, <1>2, TypeCorrect, PTL DEF Spec

-----------------------------------------------------------------------------
(* Steps that are no handler's *)

(* A row is left alone, dead-lettered by a dispatcher that gives up,        *)
(* cancelled or marked queued while it waits, inserted, or swept.           *)
QuietRow(n) ==
  \/ status'[n] = status[n]
  \/ status'[n] = "dead_letter" /\ \E d \in Dispatchers : dpc[d] = "giveUp"
  \/ status[n] \in {"absent", "pending", "queued", "scheduled"}
     /\ status'[n] \in {"pending", "queued", "cancelled"}
  \/ n \in StuckSending /\ status'[n] = "queued"

(* A worker stays where it is, and an ended ctx stays ended, or it begins   *)
(* or ends a delivery.                                                      *)
QuietWorker(w) ==
  \/ /\ pc'[w] = pc[w] /\ job'[w] = job[w]
     /\ pc[w] # "idle" /\ CtxDone(w) => CtxDone(w)'
  \/ pc[w] \in {"idle", "settle"} /\ pc'[w] \in {"idle", "cas", "settle"}

Quiet ==
  /\ \A n \in Notifs : QuietRow(n)
  /\ \A w \in Workers : QuietWorker(w)
  /\ UNCHANGED <<calls, accepted>>

(* Dispatchers are quiet. *)
LEMMA OutboxQuiet ==
  ASSUME TypeInv, OutboxNext, UNCHANGED <<workerVars, lockTTL, observedVars>>
  PROVE  Quiet
<1>t. RowTypeOK
  BY Zenon, TypeParts
<1>1. ASSUME NEW d \in Dispatchers, dpc[d] # "ready"
      PROVE  CurNotif(d) \in Notifs
  BY Zenon, <1>1 DEF TypeInv, HasRow, InsertedRow, CurNotif
<1>2. ASSUME NEW n \in Notifs
      PROVE  QuietRow(n)
  <2>1. ASSUME UNCHANGED rowVars
        PROVE  QuietRow(n)
    BY <2>1 DEF QuietRow
  <2>2. ASSUME NEW d \in Dispatchers, MarkRowQueued(d)
        PROVE  QuietRow(n)
    <3>1. CurNotif(d) \in Notifs
      BY <1>1, <2>2 DEF MarkRowQueued, DDone, DGoto
    <3>2. CASE MarkQueued(CurNotif(d))
      <4>1. RowStays(n) \/ (status[n] = "pending" /\ status'[n] = "queued")
        BY Zenon, <1>t, <3>1, <3>2, RowQueryLocal DEF RowQuery
      <4> QED
        BY Zenon, <4>1 DEF QuietRow, RowStays
    <3> QED
      BY <2>1, <2>2, <3>2 DEF MarkRowQueued
  <2>3. ASSUME NEW d \in Dispatchers, GiveUp(d)
        PROVE  QuietRow(n)
    <3>1. CurNotif(d) \in Notifs /\ dpc[d] = "giveUp"
      BY Zenon, <1>1, <2>3 DEF GiveUp, DGoto
    <3>2. CASE MarkDeadLetter(CurNotif(d))
      <4>1. RowStays(n) \/ status'[n] = "dead_letter"
        BY Zenon, <1>t, <3>1, <3>2, RowQueryLocal DEF RowQuery
      <4> QED
        BY Zenon, <3>1, <4>1 DEF QuietRow, RowStays
    <3> QED
      BY Zenon, <2>1, <2>3, <3>2 DEF GiveUp
  <2> QED
    BY Zenon, <2>1, <2>2, <2>3 DEF OutboxNext, DispatcherStep, ClaimOutboxBatch, PublishRow,
       MarkPublished, MarkRowFailed, GiveUpInsert, GiveUpMark, DispatcherCrash, ClaimLapse
<1> QED
  BY Zenon, <1>2 DEF Quiet, QuietWorker, CtxDone, workerVars, observedVars

(* So are the API, the sweeper, the wait tiers and the clocks, and a worker *)
(* that takes or settles a delivery, loses its connection or is shut down.  *)
LEMMA StepKinds ==
  ASSUME TypeInv, [Next]_vars
  PROVE  \/ \E w \in Workers : HandlerStep(w) /\ ~Settle(w) /\ UNCHANGED outboxVars
         \/ \E w \in Workers : WorkerCrash(w) /\ UNCHANGED outboxVars
         \/ Quiet
<1>t. ControlOK /\ RowTypeOK
  BY TypeParts
<1>q. ASSUME UNCHANGED <<status, calls, accepted>>, \A w \in Workers : QuietWorker(w)
      PROVE  Quiet
  BY Zenon, <1>q DEF Quiet, QuietRow
<1>0. ASSUME UNCHANGED <<status, calls, accepted, pc, job, left>>
      PROVE  Quiet
  BY Zenon, <1>0, <1>q DEF QuietWorker, CtxDone
<1>1. ASSUME NEW w \in Workers, Deliver(w)
      PROVE  Quiet
  <2>1. PICK m \in Message : Deliver(w)!(m)
    BY Zenon, <1>1 DEF Deliver
  <2>2. \A v \in Workers : QuietWorker(v)
    BY <1>t, <2>1 DEF QuietWorker, CtxDone, ControlOK, Goto
  <2> QED
    BY Zenon, <1>q, <2>1, <2>2
<1>2. ASSUME NEW w \in Workers, Settle(w)
      PROVE  Quiet
  <2>1. \A v \in Workers : QuietWorker(v)
    BY Zenon, <1>t, <1>2 DEF QuietWorker, CtxDone, ControlOK, Settle, Reset
  <2> QED
    BY Zenon, <1>q, <1>2, <2>1 DEF Settle
<1>3. ASSUME NEW w \in Workers, ConnectionLost(w) \/ Shutdown(w)
      PROVE  Quiet
  <2>1. CASE ConnectionLost(w)
    BY Zenon, <1>0, <2>1 DEF ConnectionLost
  <2>2. CASE Shutdown(w)
    <3>1. UNCHANGED <<status, calls, accepted, pc, job>> /\ left' = [left EXCEPT ![w] = 0]
      BY Zenon, <2>2 DEF Shutdown
    <3>2. \A v \in Workers : QuietWorker(v)
      BY <1>t, <3>1 DEF QuietWorker, CtxDone, ControlOK
    <3> QED
      BY Zenon, <1>q, <3>1, <3>2
  <2> QED
    BY <1>3, <2>1, <2>2
<1>4. CASE Tick
  <2>1. UNCHANGED <<status, calls, accepted, pc, job>>
    BY Zenon, <1>4 DEF Tick, observedVars
  <2>2. \A v \in Workers : ~(pc[v] # "idle" /\ CtxDone(v))
    BY Zenon, <1>4 DEF Tick, Busy
  <2>3. \A v \in Workers : QuietWorker(v)
    BY Zenon, <2>1, <2>2 DEF QuietWorker
  <2> QED
    BY Zenon, <1>q, <2>1, <2>3
<1>5. ASSUME NEW n \in Notifs, Create(n) \/ Cancel(n)
      PROVE  Quiet
  <2>1. /\ \A k \in Notifs \ {n} : status'[k] = status[k]
        /\ status[n] \in {"absent", "pending", "queued", "scheduled"}
        /\ status'[n] \in {"pending", "cancelled"}
    BY Zenon, <1>5, ApiLocal DEF RowStays
  <2>2. UNCHANGED <<calls, accepted, pc, job, left>>
    BY Zenon, <1>5 DEF Create, Cancel, nonStoreVars
  <2> QED
    BY Zenon, <2>1, <2>2 DEF Quiet, QuietRow, QuietWorker, CtxDone
<1>6. CASE Sweep
  <2>1. UNCHANGED <<calls, accepted, pc, job, left>>
    BY Zenon, <1>6 DEF Sweep, nonStoreVars
  <2> QED
    BY Zenon, <1>6, <2>1, SweepLocal DEF Quiet, QuietRow, QuietWorker, CtxDone, RowStays
<1>7. CASE (\E m \in Message : WaitTierExpires(m)) \/ UNCHANGED vars
  BY Zenon, <1>0, <1>7 DEF WaitTierExpires, vars
<1> QED
  BY Zenon, <1>1, <1>2, <1>3, <1>4, <1>5, <1>6, <1>7, OutboxQuiet DEF Next, WorkerNext

(* Faults are only added. *)
LEMMA FaultsGrow ==
  ASSUME TypeInv, [Next]_vars
  PROVE  faults \in Nat /\ faults' \in Nat /\ faults <= faults' /\ faults' <= MaxFaults
<1>1. faults \in 0..MaxFaults /\ faults' \in 0..MaxFaults
  BY Zenon, TypeStep, TypeParts, TypePartsNext DEF FaultsTypeOK
<1>2. UNCHANGED faults \/ faults' = faults + 1
  <2>1. ASSUME NEW w \in Workers, HandlerStep(w)
        PROVE  UNCHANGED faults \/ faults' = faults + 1
    BY Zenon, <2>1, HandlerFaults DEF FaultsMove
  <2>2. CASE WorkerNext
    BY Zenon, <2>1, <2>2 DEF WorkerNext, Deliver, WorkerCrash, ConnectionLost, Shutdown, Tick, Fault,
       NoFault
  <2>3. CASE OutboxNext
    BY Zenon, <2>3 DEF OutboxNext, DispatcherStep, ClaimOutboxBatch, PublishRow, MarkPublished,
       MarkRowQueued, MarkRowFailed, GiveUp, GiveUpInsert, GiveUpMark, DispatcherCrash,
       ClaimLapse, Fault, NoFault
  <2> QED
    BY Zenon, <2>2, <2>3 DEF Next, Create, Cancel, Sweep, WaitTierExpires, NoFault, vars
<1> QED
  BY <1>1, <1>2, FaultsAssumption

(* Only dispatchers move dispatchers. *)
LEMMA DispatchersMove ==
  ASSUME [Next]_vars
  PROVE  \/ UNCHANGED outboxVars
         \/ \E d \in Dispatchers : DispatcherStep(d) \/ DispatcherCrash(d)
BY DEF Next, OutboxNext, ClaimLapse, Create, Cancel, Sweep, WaitTierExpires, nonStoreVars, vars
=============================================================================
