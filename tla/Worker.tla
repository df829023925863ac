------------------------------- MODULE Worker -------------------------------
(***************************************************************************)
(* The delivery worker: Pipeline.Handle / handle (internal/worker) run by  *)
(* Consumer.Run (internal/queue).  A worker is one consumer goroutine with *)
(* prefetch 1; workers of all replicas of one channel share the queue.     *)
(*                                                                         *)
(* Every call to Postgres, Redis, RabbitMQ or the provider is a step of    *)
(* its own, because another process can act between two of them.  pc[w]    *)
(* names the call the worker makes next:                                   *)
(*                                                                         *)
(*   idle -> cas -> setnx -> take -> send -> inCall -> record... -> ...    *)
(*        -> unlock (the deferred DEL) -> bounce (on error) -> settle      *)
(*                                                                         *)
(* Time.  left[w] is what remains of the 30 s handleTimeout, lockTTL[n]    *)
(* what remains of the in-flight key's 60 s.  Once left[w] is 0 the        *)
(* handler's context is done and every call made with it fails at once;    *)
(* a shutdown or a lost connection ends it the same way.  Only the         *)
(* deferred DEL (context.Background) and, with a connection, the ack or    *)
(* nack still go through.                                                  *)
(***************************************************************************)
EXTENDS Store, Broker, Faults

CONSTANTS Workers,
          MaxAttempts,     \* Pipeline.maxAttempts
          HandleTimeout,   \* handleTimeout, in ticks
          LockTTL          \* expiry of the in-flight key, in ticks

ASSUME WorkerAssumption == /\ MaxAttempts \in Nat \ {0}
                           /\ HandleTimeout \in Nat \ {0}
                           /\ LockTTL \in Nat \ {0}

(* The sizing rule written at sweeper.Config.StuckAfter, and the order of   *)
(* the two worker timeouts it rests on (30 s < 60 s, 30 s + 60 s < 5 min).  *)
ASSUME TimeoutAssumption == /\ HandleTimeout < LockTTL
                            /\ HandleTimeout + LockTTL <= StuckAfter

VARIABLES
  pc,         \* the call worker w makes next
  job,        \* the notification of the delivery w handles
  redel,      \* the delivery's x-redeliveries header
  attempt,    \* row.AttemptCount + 1, from the row the CAS returned
  left,       \* time left on handleCtx
  unacked,    \* the broker still counts the delivery as w's
  ret,        \* what handle returns: "nil", "err" or "terminal"
  lockTTL,    \* Redis: time to live of delivery_inflight:<n>, 0 if absent
  calls,      \* provider: requests made for n
  accepted,   \* provider: requests for n it accepted
  deferred,   \* history: notifications of which a delivery was acked
              \* because the in-flight key was held
  dropped     \* history: notifications a worker without a connection had
              \* still to hand on when its last publish failed or it died

deliveryVars == <<job, redel, left, unacked>>
workerVars   == <<pc, job, redel, attempt, left, unacked, ret>>
observedVars == <<calls, accepted, deferred, dropped>>

Labels == {"idle", "cas", "setnx", "defer", "take", "send", "inCall",
           "recordOk", "recordRetry", "recordDead", "revert", "revertNA",
           "route", "markDead", "insertDead", "markSent", "undo", "unlock",
           "bounce", "settle"}

WorkerTypeOK ==
  /\ pc \in [Workers -> Labels]
  /\ job \in [Workers -> Notifs \cup {None}]
  /\ redel \in [Workers -> 0..MaxRedeliveries]
  /\ attempt \in [Workers -> Nat]
  /\ left \in [Workers -> 0..HandleTimeout]
  /\ unacked \in [Workers -> BOOLEAN]
  /\ ret \in [Workers -> {"nil", "err", "terminal"}]
  /\ lockTTL \in [Notifs -> 0..LockTTL]
  /\ calls \in [Notifs -> Nat]
  /\ accepted \in [Notifs -> Nat]
  /\ deferred \subseteq Notifs
  /\ dropped \subseteq Notifs

WorkerInit ==
  /\ pc = [w \in Workers |-> "idle"]
  /\ job = [w \in Workers |-> None]
  /\ redel = [w \in Workers |-> 0]
  /\ attempt = [w \in Workers |-> 0]
  /\ left = [w \in Workers |-> 0]
  /\ unacked = [w \in Workers |-> FALSE]
  /\ ret = [w \in Workers |-> "nil"]
  /\ lockTTL = [n \in Notifs |-> 0]
  /\ calls = [n \in Notifs |-> 0]
  /\ accepted = [n \in Notifs |-> 0]
  /\ deferred = {}
  /\ dropped = {}

-----------------------------------------------------------------------------
(* Control flow *)

Goto(w, from, to) ==
  /\ pc[w] = from
  /\ pc' = [pc EXCEPT ![w] = to]

Returns(w, r) == ret' = [ret EXCEPT ![w] = r]

Busy(w) == pc[w] # "idle"

CtxDone(w) == left[w] = 0

(* A call with the handler's context succeeds; fails without effect; or     *)
(* takes effect at the server although the caller sees an error.            *)
CallOk(w)      == ~CtxDone(w) /\ NoFault
CallFails(w, k) == IF CtxDone(w) THEN NoFault ELSE Fault(k)
CallLost(w, k) == ~CtxDone(w) /\ Fault(k)

-----------------------------------------------------------------------------
(* Mutation of CapReached: a message without the header counts as capped. *)
CapReachedNoHeader(m) == m[2] >= MaxRedeliveries \/ m[2] = 0

(* x-redeliveries >= maxRedeliveries; a missing header is 0. *)
CapReached(m) == m[2] >= MaxRedeliveries

(* Consumer.Run hands a delivery to Handle; the x-redeliveries cap is       *)
(* tested before anything else and leaves the row alone.                    *)
Deliver(w) ==
  \E m \in Message :
    /\ Dequeue(m)
    /\ IF CapReached(m)
       THEN Goto(w, "idle", "settle") /\ Returns(w, "terminal")
       ELSE Goto(w, "idle", "cas") /\ Returns(w, "nil")
    /\ job' = [job EXCEPT ![w] = m[1]]
    /\ redel' = [redel EXCEPT ![w] = m[2]]
    /\ left' = [left EXCEPT ![w] = HandleTimeout]
    /\ unacked' = [unacked EXCEPT ![w] = TRUE]
    /\ NoFault
    /\ UNCHANGED <<attempt, waitQ, dlq, storeVars, lockTTL, observedVars>>

(* Step 2: MarkSendingCAS. *)
CASHit(w) ==
  /\ Goto(w, "cas", "setnx")
  /\ CallOk(w)
  /\ MarkSendingCAS(job[w])
  /\ attempt' = [attempt EXCEPT ![w] = attemptCount[job[w]] + 1]
  /\ UNCHANGED <<deliveryVars, ret, brokerVars, deliveryAttempts, deadLetters,
                 outbox, lockTTL, observedVars>>

(* pgx.ErrNoRows: ack and drop. *)
CASMiss(w) ==
  /\ Goto(w, "cas", "settle")
  /\ CallOk(w)
  /\ ~Pickable(job[w])
  /\ UNCHANGED <<deliveryVars, attempt, ret, brokerVars, storeVars, lockTTL, observedVars>>

CASError(w) ==
  /\ Goto(w, "cas", "bounce")
  /\ Returns(w, "err")
  /\ \/ CallFails(w, "db") /\ UNCHANGED rowVars
     \/ CallLost(w, "db") /\ MarkSendingCAS(job[w])
  /\ UNCHANGED <<deliveryVars, attempt, brokerVars, deliveryAttempts, deadLetters,
                 outbox, lockTTL, observedVars>>

(* Step 3: SETNX delivery_inflight:<n> with a TTL. *)
SetNX(n) == lockTTL[n] = 0 /\ lockTTL' = [lockTTL EXCEPT ![n] = LockTTL]

AcquireLock(w) ==
  /\ Goto(w, "setnx", "take")
  /\ CallOk(w)
  /\ SetNX(job[w])
  /\ UNCHANGED <<deliveryVars, attempt, ret, brokerVars, storeVars, observedVars>>

LockHeld(w) ==
  /\ Goto(w, "setnx", "defer")
  /\ CallOk(w)
  /\ lockTTL[job[w]] > 0
  /\ UNCHANGED <<deliveryVars, attempt, ret, brokerVars, storeVars, lockTTL, observedVars>>

(* The DEL is not deferred yet: the row stays 'sending'. *)
SetNXError(w) ==
  /\ Goto(w, "setnx", "bounce")
  /\ Returns(w, "err")
  /\ \/ CallFails(w, "redis") /\ UNCHANGED lockTTL
     \/ CallLost(w, "redis") /\ SetNX(job[w])
  /\ UNCHANGED <<deliveryVars, attempt, brokerVars, storeVars, observedVars>>

(* !gotLock: revert our CAS, best effort, and ack. *)
DeferToHolder(w) ==
  /\ Goto(w, "defer", "settle")
  /\ \/ CallOk(w) /\ RevertToQueuedNoAttempt(job[w])
     \/ CallFails(w, "db") /\ UNCHANGED rowVars
  /\ deferred' = deferred \cup {job[w]}
  /\ UNCHANGED <<deliveryVars, attempt, ret, brokerVars, deliveryAttempts, deadLetters,
                 outbox, lockTTL, calls, accepted, dropped>>

(* Step 4: reservoir.Take.  A local token needs no call, so it is granted   *)
(* even when the context is done.                                           *)
TakeAllowed(w) ==
  /\ Goto(w, "take", "send")
  /\ NoFault
  /\ UNCHANGED <<deliveryVars, attempt, ret, brokerVars, storeVars, lockTTL, observedVars>>

TakeThrottled(w) ==
  /\ Goto(w, "take", "revertNA")
  /\ CallOk(w)
  /\ UNCHANGED <<deliveryVars, attempt, ret, brokerVars, storeVars, lockTTL, observedVars>>

(* A Redis error, or ctx.Done while waiting for a token: the revert of the  *)
(* latter uses the context that is done, so both leave the row 'sending'.   *)
TakeError(w) ==
  /\ Goto(w, "take", "unlock")
  /\ Returns(w, "err")
  /\ CallFails(w, "redis")
  /\ UNCHANGED <<deliveryVars, attempt, brokerVars, storeVars, lockTTL, observedVars>>

(* Step 6: the breaker lets the call through or refuses it. *)
StartCall(w) ==
  /\ Goto(w, "send", "inCall")
  /\ CallOk(w)
  /\ calls' = [calls EXCEPT ![job[w]] = @ + 1]
  /\ UNCHANGED <<deliveryVars, attempt, ret, brokerVars, storeVars, lockTTL, accepted, deferred,
                 dropped>>

(* A failure is retried while attempt < maxAttempts if it is retryable.     *)
AfterFailure(w, retryable) ==
  IF retryable /\ attempt[w] < MaxAttempts THEN "recordRetry" ELSE "recordDead"

(* Mutation of BreakerOpen: the breaker's refusal is not told from a        *)
(* failure of the message.                                                  *)
BreakerOpenIsFailure(w) ==
  /\ Goto(w, "send", AfterFailure(w, FALSE))
  /\ NoFault
  /\ UNCHANGED <<deliveryVars, attempt, ret, brokerVars, storeVars, lockTTL, observedVars>>

BreakerOpen(w) ==
  /\ Goto(w, "send", "revertNA")
  /\ NoFault
  /\ UNCHANGED <<deliveryVars, attempt, ret, brokerVars, storeVars, lockTTL, observedVars>>

(* net/http refuses a request whose context is done: ErrTimeout, retryable. *)
SendCancelled(w) ==
  /\ Goto(w, "send", AfterFailure(w, TRUE))
  /\ CtxDone(w)
  /\ NoFault
  /\ UNCHANGED <<deliveryVars, attempt, ret, brokerVars, storeVars, lockTTL, observedVars>>

CallSucceeds(w) ==
  /\ Goto(w, "inCall", "recordOk")
  /\ CallOk(w)
  /\ accepted' = [accepted EXCEPT ![job[w]] = @ + 1]
  /\ UNCHANGED <<deliveryVars, attempt, ret, brokerVars, storeVars, lockTTL, calls, deferred,
                 dropped>>

(* Network error, timeout, 5xx, 408 or 429: retryable, and a request whose  *)
(* answer was lost may have been accepted.  Any other answer is not.        *)
CallFailsRetryable(w) ==
  /\ Goto(w, "inCall", AfterFailure(w, TRUE))
  /\ \/ NoFault /\ UNCHANGED accepted
     \/ Fault("provider") /\ accepted' = [accepted EXCEPT ![job[w]] = @ + 1]
  /\ UNCHANGED <<deliveryVars, attempt, ret, brokerVars, storeVars, lockTTL, calls, deferred,
                 dropped>>

CallFailsTerminal(w) ==
  /\ Goto(w, "inCall", AfterFailure(w, FALSE))
  /\ CallOk(w)
  /\ UNCHANGED <<deliveryVars, attempt, ret, brokerVars, storeVars, lockTTL, observedVars>>

(* Step 7: InsertDeliveryAttempt, best effort. *)
RecordAttempt(w) ==
  /\ \/ Goto(w, "recordOk", "markSent")
     \/ Goto(w, "recordRetry", "revert")
     \/ Goto(w, "recordDead", "markDead")
  /\ \/ CallOk(w) /\ InsertDeliveryAttempt(job[w], attempt[w])
     \/ CallFails(w, "db") /\ UNCHANGED deliveryAttempts
  /\ UNCHANGED <<deliveryVars, attempt, ret, brokerVars, rowVars, deadLetters,
                 outbox, lockTTL, observedVars>>

(* Step 8a: the retry path reverts the row, then publishes to a wait tier   *)
(* without the x-redeliveries header.                                       *)
RevertForRetry(w) ==
  /\ \/ /\ Goto(w, "revert", "route")
        /\ CallOk(w)
        /\ RevertToQueued(job[w])
     \/ /\ Goto(w, "revertNA", "route")
        /\ CallOk(w)
        /\ RevertToQueuedNoAttempt(job[w])
     \/ /\ Goto(w, "revert", "route") \/ Goto(w, "revertNA", "route")
        /\ CallFails(w, "db")
        /\ UNCHANGED rowVars
  /\ UNCHANGED <<deliveryVars, attempt, ret, brokerVars, deliveryAttempts, deadLetters,
                 outbox, lockTTL, observedVars>>

routeToRetryTier(w) ==
  /\ Goto(w, "route", "unlock")
  /\ \/ CallOk(w) /\ PublishToWait(<<job[w], 0>>) /\ UNCHANGED ret
     \/ CallLost(w, "publish") /\ PublishToWait(<<job[w], 0>>) /\ Returns(w, "err")
     \/ CallFails(w, "publish") /\ UNCHANGED waitQ /\ Returns(w, "err")
  /\ UNCHANGED <<deliveryVars, attempt, mainQ, dlq, storeVars, lockTTL, observedVars>>

(* Terminal failure: dead_letter, dead_letters row, nack to the DLQ.  Both  *)
(* writes are best effort.                                                  *)
TerminalMark(w) ==
  /\ Goto(w, "markDead", "insertDead")
  /\ \/ CallOk(w) /\ MarkDeadLetter(job[w])
     \/ CallFails(w, "db") /\ UNCHANGED rowVars
  /\ UNCHANGED <<deliveryVars, attempt, ret, brokerVars, deliveryAttempts, deadLetters,
                 outbox, lockTTL, observedVars>>

TerminalInsert(w) ==
  /\ Goto(w, "insertDead", "unlock")
  /\ Returns(w, "terminal")
  /\ \/ CallOk(w) /\ InsertDeadLetter(job[w])
     \/ CallFails(w, "db") /\ UNCHANGED deadLetters
  /\ UNCHANGED <<deliveryVars, attempt, brokerVars, rowVars, deliveryAttempts, outbox,
                 lockTTL, observedVars>>

(* Step 7b: MarkSent.  An error, or no row to update, reverts the row, best *)
(* effort, and returns the error.                                           *)
MarkSentOk(w) ==
  /\ Goto(w, "markSent", "unlock")
  /\ CallOk(w)
  /\ MarkSent(job[w])
  /\ UNCHANGED <<deliveryVars, attempt, ret, brokerVars, deliveryAttempts, deadLetters,
                 outbox, lockTTL, observedVars>>

MarkSentError(w) ==
  /\ Goto(w, "markSent", "undo")
  /\ \/ CallOk(w) /\ ~IsSending(job[w]) /\ UNCHANGED rowVars
     \/ CallFails(w, "db") /\ UNCHANGED rowVars
     \/ CallLost(w, "db") /\ MarkSent(job[w])
  /\ UNCHANGED <<deliveryVars, attempt, ret, brokerVars, deliveryAttempts, deadLetters,
                 outbox, lockTTL, observedVars>>

UndoAfterMarkSent(w) ==
  /\ Goto(w, "undo", "unlock")
  /\ Returns(w, "err")
  /\ \/ CallOk(w) /\ RevertToQueued(job[w])
     \/ CallFails(w, "db") /\ UNCHANGED rowVars
  /\ UNCHANGED <<deliveryVars, attempt, brokerVars, deliveryAttempts, deadLetters,
                 outbox, lockTTL, observedVars>>

(* The deferred DEL: context.Background, no check of who set the key. *)
Unlock(w) ==
  /\ Goto(w, "unlock", IF ret[w] = "err" THEN "bounce" ELSE "settle")
  /\ \/ NoFault /\ lockTTL' = [lockTTL EXCEPT ![job[w]] = 0]
     \/ Fault("unlock") /\ UNCHANGED lockTTL
  /\ UNCHANGED <<deliveryVars, attempt, ret, brokerVars, storeVars, observedVars>>

(* Worker w still has its notification to hand on: it will pick the row up, *)
(* publish to a wait tier, or nack.                                         *)
WillHandOn(w) ==
  \/ pc[w] \in {"cas", "route", "undo", "bounce"}
  \/ pc[w] = "unlock" /\ ret[w] = "err"
  \/ pc[w] = "settle" /\ unacked[w] /\ ret[w] \in {"err", "terminal"}

(* Without its connection w has nothing left to hand the notification on    *)
(* with.                                                                    *)
DropsIfCut(w) == dropped' = IF unacked[w] THEN dropped ELSE dropped \cup {job[w]}

(* Handle: a non-terminal error goes through wait.5s with x-redeliveries+1; *)
(* if that publish fails too the error makes the consumer nack-requeue.     *)
requeueViaWaitTier(w) ==
  /\ Goto(w, "bounce", "settle")
  /\ \/ CallOk(w) /\ PublishToWait(<<job[w], redel[w] + 1>>) /\ Returns(w, "nil")
        /\ UNCHANGED dropped
     \/ CallLost(w, "publish") /\ PublishToWait(<<job[w], redel[w] + 1>>)
        /\ UNCHANGED <<ret, dropped>>
     \/ CallFails(w, "publish") /\ DropsIfCut(w) /\ UNCHANGED <<waitQ, ret>>
  /\ UNCHANGED <<deliveryVars, attempt, mainQ, dlq, storeVars, lockTTL, calls, accepted,
                 deferred>>

(* The worker is ready for its next delivery. *)
Reset(w) ==
  /\ pc' = [pc EXCEPT ![w] = "idle"]
  /\ job' = [job EXCEPT ![w] = None]
  /\ redel' = [redel EXCEPT ![w] = 0]
  /\ attempt' = [attempt EXCEPT ![w] = 0]
  /\ left' = [left EXCEPT ![w] = 0]
  /\ unacked' = [unacked EXCEPT ![w] = FALSE]
  /\ ret' = [ret EXCEPT ![w] = "nil"]

(* Consumer.Run: nil acks, ErrTerminal nacks to the DLQ, any other error    *)
(* nacks with requeue.  Without its connection none of them reaches the     *)
(* broker.                                                                  *)
Settle(w) ==
  /\ pc[w] = "settle"
  /\ IF unacked[w] /\ ret[w] = "err" THEN Enqueue(<<job[w], redel[w]>>) ELSE UNCHANGED mainQ
  /\ dlq' = IF unacked[w] /\ ret[w] = "terminal" THEN dlq \cup {job[w]} ELSE dlq
  /\ Reset(w)
  /\ NoFault
  /\ UNCHANGED <<waitQ, storeVars, lockTTL, observedVars>>

-----------------------------------------------------------------------------
(* What happens to a worker *)

(* The process dies: the broker requeues what it had not acked, the row and *)
(* the in-flight key stay as they are.                                      *)
WorkerCrash(w) ==
  /\ Busy(w)
  /\ Fault("crash")
  /\ IF unacked[w] THEN Enqueue(<<job[w], redel[w]>>) ELSE UNCHANGED mainQ
  /\ IF WillHandOn(w) THEN DropsIfCut(w) ELSE UNCHANGED dropped
  /\ Reset(w)
  /\ UNCHANGED <<waitQ, dlq, storeVars, lockTTL, calls, accepted, deferred>>

(* The replica's connection drops: the broker requeues the delivery while   *)
(* the handler is still running.  The consumers of a replica share one      *)
(* connection, so a drop is this step for each of its busy workers.         *)
ConnectionLost(w) ==
  /\ Busy(w)
  /\ unacked[w]
  /\ Fault("conn")
  /\ Enqueue(<<job[w], redel[w]>>)
  /\ unacked' = [unacked EXCEPT ![w] = FALSE]
  /\ UNCHANGED <<pc, job, redel, attempt, left, ret, waitQ, dlq, storeVars, lockTTL,
                 observedVars>>

(* Manager.Run's context is cancelled while a delivery is in flight: the    *)
(* replica is stopped, or its connection is gone and the first consumer to  *)
(* see its deliveries closed returns an error, upon which the errgroup      *)
(* cancels every handler.  Until then the handler runs on.                  *)
Shutdown(w) ==
  /\ Busy(w)
  /\ ~CtxDone(w)
  /\ \/ Fault("shutdown")
     \/ ~unacked[w] /\ NoFault
  /\ left' = [left EXCEPT ![w] = 0]
  /\ UNCHANGED <<pc, job, redel, attempt, unacked, ret, brokerVars, storeVars, lockTTL,
                 observedVars>>

ExpireLocks ==
  lockTTL' = [n \in Notifs |-> IF lockTTL[n] > 0 THEN lockTTL[n] - 1 ELSE 0]

(* Mutation of Tick: handle runs without handleTimeout. *)
TickNoDeadline ==
  /\ NoFault
  /\ ExpireLocks
  /\ AgeSendingRows
  /\ UNCHANGED <<workerVars, brokerVars, status, attemptCount, deliveryAttempts,
                 deadLetters, outbox, observedVars>>

(* One tick of the clocks.  A handler whose context is done returns before  *)
(* the next tick: none of its remaining calls waits.  Running into the      *)
(* deadline (a wedged call) is a fault.                                     *)
Tick ==
  /\ \A w \in Workers : Busy(w) => ~CtxDone(w)
  /\ IF \E w \in Workers : Busy(w) /\ left[w] = 1 THEN Fault("slow") ELSE NoFault
  /\ left' = [w \in Workers |-> IF Busy(w) THEN left[w] - 1 ELSE left[w]]
  /\ ExpireLocks
  /\ AgeSendingRows
  /\ UNCHANGED <<pc, job, redel, attempt, unacked, ret, brokerVars, status, attemptCount,
                 deliveryAttempts, deadLetters, outbox, observedVars>>

HandlerStep(w) ==
  \/ CASHit(w) \/ CASMiss(w) \/ CASError(w)
  \/ AcquireLock(w) \/ LockHeld(w) \/ SetNXError(w) \/ DeferToHolder(w)
  \/ TakeAllowed(w) \/ TakeThrottled(w) \/ TakeError(w)
  \/ StartCall(w) \/ BreakerOpen(w) \/ SendCancelled(w)
  \/ CallSucceeds(w) \/ CallFailsRetryable(w) \/ CallFailsTerminal(w)
  \/ RecordAttempt(w) \/ RevertForRetry(w) \/ routeToRetryTier(w)
  \/ TerminalMark(w) \/ TerminalInsert(w)
  \/ MarkSentOk(w) \/ MarkSentError(w) \/ UndoAfterMarkSent(w)
  \/ Unlock(w) \/ requeueViaWaitTier(w) \/ Settle(w)

WorkerNext ==
  \/ \E w \in Workers : Deliver(w) \/ HandlerStep(w)
                        \/ WorkerCrash(w) \/ ConnectionLost(w) \/ Shutdown(w)
  \/ Tick
=============================================================================
