------------------------------ MODULE Delivery ------------------------------
(***************************************************************************)
(* The delivery path of notifyd, composed: the API inserts and cancels     *)
(* notifications, outbox dispatchers publish them, workers deliver them,   *)
(* the sweeper reclaims rows a worker left in 'sending'.  They share the   *)
(* Postgres tables (Store), RabbitMQ (Broker) and Redis's in-flight key.   *)
(***************************************************************************)
EXTENDS Worker, Outbox

vars == <<storeVars, brokerVars, workerVars, lockTTL, observedVars, outboxVars, faults>>

nonStoreVars == <<brokerVars, workerVars, lockTTL, observedVars, outboxVars>>

(* persist: the notification and its outbox row in one transaction. *)
Create(n) ==
  /\ status[n] = "absent"
  /\ SetStatus(n, "pending")
  /\ InsertOutbox(n)
  /\ NoFault
  /\ UNCHANGED <<attemptCount, deliveryAttempts, deadLetters, nonStoreVars>>

(* DELETE /v1/notifications/{id}: one CAS; no row means 409. *)
Cancel(n) ==
  /\ CancelPendingOrQueued(n)
  /\ NoFault
  /\ UNCHANGED <<deliveryAttempts, deadLetters, outbox, nonStoreVars>>

(* SendingSweeper.tick: reclaim every stuck row and insert an outbox row    *)
(* for each, in one transaction; an error rolls both back.                  *)
Sweep ==
  /\ StuckSending # {}
  /\ SweepStuckSending
  /\ InsertOutboxAll(StuckSending)
  /\ NoFault
  /\ UNCHANGED <<deliveryAttempts, deadLetters, nonStoreVars>>

(* A wait tier's TTL, 5 s at least: longer than a handler takes from its    *)
(* publish to its DEL of the in-flight key (a DEL that does take that long  *)
(* is the "unlock" fault).                                                  *)
WaitTierExpires(m) ==
  /\ WaitExpire(m)
  /\ \A w \in Workers : ~(pc[w] = "unlock" /\ job[w] = m[1])
  /\ NoFault
  /\ UNCHANGED <<storeVars, workerVars, lockTTL, observedVars, outboxVars>>

Init == StoreInit /\ BrokerInit /\ WorkerInit /\ OutboxInit /\ FaultsInit

Next ==
  \/ WorkerNext /\ UNCHANGED outboxVars
  \/ OutboxNext /\ UNCHANGED <<workerVars, lockTTL, observedVars>>
  \/ \E n \in Notifs : Create(n) \/ Cancel(n)
  \/ Sweep
  \/ \E m \in Message : WaitTierExpires(m)

Spec == Init /\ [][Next]_vars

(* Fairness.  Goroutines keep running, dispatcher and sweeper tickers keep  *)
(* firing, TTLs and clocks run out: weak fairness.  Strong fairness where   *)
(* the code retries around a refusal that does not last: the token bucket   *)
(* refills (TakeThrottled), the breaker half-opens after its timeout        *)
(* (BreakerOpen), and time passes although handlers come and go (Tick).     *)
Fairness ==
  /\ \A w \in Workers :
       /\ WF_vars(Deliver(w) /\ UNCHANGED outboxVars)
       /\ WF_vars(HandlerStep(w) /\ UNCHANGED outboxVars)
       /\ SF_vars(TakeAllowed(w) /\ UNCHANGED outboxVars)
       /\ SF_vars(StartCall(w) /\ UNCHANGED outboxVars)
  /\ SF_vars(Tick /\ UNCHANGED outboxVars)
  /\ \A d \in Dispatchers :
       WF_vars(DispatcherStep(d) /\ UNCHANGED <<workerVars, lockTTL, observedVars>>)
  /\ \A i \in OutboxIds :
       WF_vars(ClaimLapse(i) /\ UNCHANGED <<workerVars, lockTTL, observedVars>>)
  /\ WF_vars(Sweep)
  /\ \A m \in Message : WF_vars(WaitTierExpires(m))

FairSpec == Spec /\ Fairness

TypeOK ==
  StoreTypeOK /\ BrokerTypeOK /\ WorkerTypeOK /\ OutboxTypeOK /\ FaultsTypeOK

-----------------------------------------------------------------------------
(* The part of handle that runs with the in-flight key set. *)
LockedLabels == {"take", "send", "inCall", "recordOk", "recordRetry", "recordDead",
                 "revert", "revertNA", "route", "markDead", "insertDead",
                 "markSent", "undo", "unlock"}

(* From the CAS that made the row 'sending' to the statement that ends it.  *)
OwningLabels == {"setnx", "defer", "take", "send", "inCall", "recordOk",
                 "recordRetry", "recordDead", "revert", "revertNA", "markDead",
                 "markSent", "undo"}

Locked(w) == pc[w] \in LockedLabels
Owns(w)   == pc[w] \in OwningLabels

(* At most one provider request for a notification is in flight at a time,  *)
(* whatever the broker redelivers and whoever rewrites the row: the         *)
(* in-flight key (SETNX, 60 s) outlives the handler that set it (30 s).     *)
NoConcurrentSend ==
  \A v, w \in Workers :
    v # w /\ pc[v] = "inCall" /\ pc[w] = "inCall" => job[v] # job[w]

(* MarkSendingCAS alone gives the same: two workers never hold the same row *)
(* between pickup and the statement that gives it up.                       *)
SoleOwner ==
  \A v, w \in Workers : v # w /\ Owns(v) /\ Owns(w) => job[v] # job[w]

(* A row the sweeper is about to reclaim is nobody's: no live worker owns   *)
(* it and its in-flight key is gone, so the redelivery the sweep causes is  *)
(* not turned away by a stale key.  Rests on the sizing rule of             *)
(* sweeper.Config.StuckAfter.                                               *)
SweepSafe ==
  \A n \in StuckSending :
    /\ lockTTL[n] = 0
    /\ \A w \in Workers : Owns(w) => job[w] # n

(* Every provider request is charged to attempt_count by the time the row   *)
(* can be picked up again, whichever of the error, crash and sweep paths it *)
(* takes: the retry budget cannot be evaded.                                *)
CallsWithinBudget ==
  \A n \in Notifs :
    calls[n] <= attemptCount[n] + (IF status[n] \in {"pending", "queued"} THEN 0 ELSE 1)

(* The delivery_attempts row a worker is about to insert is not rejected by *)
(* UNIQUE (notification_id, attempt_number): attempt numbers are not reused *)
(* across retries, redeliveries and sweeps.                                 *)
AttemptsUnique ==
  \A w \in Workers :
    pc[w] \in {"recordOk", "recordRetry", "recordDead"}
      => attempt[w] \notin deliveryAttempts[job[w]]

(* Something will still bring notification n to a worker or an operator.    *)
Carried(n) ==
  \/ \E i \in Unpublished : outbox[i].notif = n
  \/ \E m \in Message : m[1] = n /\ mainQ[m] + waitQ[m] > 0
  \/ \E w \in Workers : job[w] = n /\ WillHandOn(w)
  \/ n \in dlq \cup deadLetters

(* No accepted notification is silently lost: while its row waits to be     *)
(* picked up there is an unpublished outbox row, a message, a worker about  *)
(* to republish it, or a dead-letter record.                                *)
NotLost == \A n \in Notifs : Pickable(n) => Carried(n)

(* There are three ways to lose a notification, whatever goes wrong and     *)
(* however often: a worker acks its delivery because it found the in-flight *)
(* key held; a worker whose connection was lost cannot republish either, or *)
(* dies; a dispatcher gives up and both its dead-letter writes fail, which  *)
(* takes three faults.                                                      *)
LossesExplained ==
  \A n \in Notifs :
    Pickable(n) => \/ Carried(n)
                   \/ n \in deferred \cup dropped
                   \/ n \in forgotten /\ faults >= 3

(* The provider accepts a notification at most once: whatever delivered it  *)
(* twice, MarkSendingCAS lets one delivery through to the request.          *)
AcceptedOnce == \A n \in Notifs : accepted[n] <= 1

(* Every acceptance beyond the first has cost a fault of its own, whatever  *)
(* the faults are and in whatever order they come: a crash, a cancelled     *)
(* context or a failed MarkSent repeats the request it interrupted, once.   *)
RepeatsCostFaults == \A n \in Notifs : accepted[n] <= 1 + faults

(* A message in the DLQ belongs to a notification that was dead-lettered:   *)
(* its row says so or it has a dead_letters row an operator can replay.     *)
DLQHasRecord == \A n \in dlq : status[n] = "dead_letter" \/ n \in deadLetters

(* A row is 'sending' only while a worker works on it: every exit of handle *)
(* reverts or settles the row.                                              *)
NoOrphanedSending ==
  \A n \in Notifs : IsSending(n) => \E w \in Workers : job[w] = n /\ Busy(w)

(* Only a failed delivery attempt dead-letters a notification; a breaker    *)
(* that refuses the request, throttling or a lost publish do not.           *)
DeadLetterNeedsAttempt == \A n \in Notifs : status[n] = "dead_letter" => calls[n] > 0

(* Every accepted notification is eventually sent, dead-lettered or         *)
(* cancelled.                                                               *)
EventuallySettled == \A n \in Notifs : Live(n) ~> ~Live(n)

L == INSTANCE Lifecycle

(* Workers, dispatchers, sweeper and cancel together implement the abstract *)
(* lifecycle of a notification: the status moves only along its edges.      *)
ImplementsLifecycle == L!LSpec
=============================================================================
