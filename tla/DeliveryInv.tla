---------------------------- MODULE DeliveryInv ----------------------------
(***************************************************************************)
(* The inductive invariant behind the safety properties of Delivery.  It   *)
(* comes in six layers; each is inductive given the ones before it.        *)
(* DeliveryProofs (layers 1 to 4) and InvariantProofs prove it, MCDelivery *)
(* checks it on small instances.                                           *)
(***************************************************************************)
EXTENDS Delivery

(* Layer 1: types, and that what a handler or a dispatcher has in hand      *)
(* exists.                                                                  *)
HasJob == \A w \in Workers : Busy(w) => job[w] \in Notifs

InsertedRow(i) == i \in OutboxIds /\ outbox[i].notif \in Notifs

HasRow ==
  \A d \in Dispatchers :
    /\ \A c \in batch[d] : InsertedRow(c[1])
    /\ dpc[d] # "ready" => InsertedRow(cur[d][1])

TypeInv == TypeOK /\ HasJob /\ HasRow

(* Layer 2: the in-flight key outlives the handler that set it, and one     *)
(* handler runs under it.                                                   *)
LockInv ==
  /\ \A w \in Workers : Locked(w) => lockTTL[job[w]] > left[w]
  /\ \A v, w \in Workers : v # w /\ Locked(v) /\ Locked(w) => job[v] # job[w]

(* Layer 3: an owned row is one nobody else can take, the owner knows its   *)
(* attempt number, and both the owner's deadline and the key's expiry come  *)
(* before the sweeper's threshold.                                          *)
Held(n, w) ==
  /\ \/ status[n] \in {"sending", "dead_letter"}
     \/ status[n] = "sent" /\ pc[w] = "undo"
  /\ attempt[w] = attemptCount[n] + 1
  /\ IsSending(n) => sendingAge[n] + left[w] <= HandleTimeout

OwnInv ==
  /\ \A w \in Workers : Owns(w) => Held(job[w], w)
  /\ SoleOwner
  /\ \A n \in Notifs :
       IsSending(n) /\ lockTTL[n] > 0 => lockTTL[n] + sendingAge[n] <= HandleTimeout + LockTTL

(* Layer 4: provider requests and delivery_attempts rows against            *)
(* attempt_count.                                                           *)
UncalledLabels == {"setnx", "defer", "take", "send", "revertNA"}

UnrecordedLabels == UncalledLabels \cup {"inCall", "recordOk", "recordRetry", "recordDead"}

BudgetInv ==
  /\ \A n \in Notifs :
       /\ calls[n] <= attemptCount[n] + 1
       /\ deliveryAttempts[n] \subseteq 1..(attemptCount[n] + 1)
       /\ status[n] \in {"absent", "pending", "queued"} =>
            /\ calls[n] <= attemptCount[n]
            /\ deliveryAttempts[n] \subseteq 1..attemptCount[n]
  /\ \A w \in Workers :
       /\ pc[w] \in UncalledLabels => calls[job[w]] <= attemptCount[job[w]]
       /\ pc[w] \in UnrecordedLabels =>
            deliveryAttempts[job[w]] \subseteq 1..attemptCount[job[w]]

(* Layer 5: an outbox row's notification exists (they are inserted in one   *)
(* transaction), and the delivery path uses no status but these.            *)
RowInv ==
  /\ \A n \in Notifs : status[n] \notin {"failed", "scheduled"}
  /\ \A i \in OutboxIds : outbox[i].notif \in Notifs => status[outbox[i].notif] # "absent"

(* Layer 6: what still carries a row that waits for pickup.  An outbox row  *)
(* that a dispatcher is about to mark published carries nothing any more,   *)
(* its message does; a worker that has a delivery under the cap can still   *)
(* bounce it.                                                               *)
HandedOver(i) == \E d \in Dispatchers : dpc[d] = "mark" /\ cur[d][1] = i

InOutbox(n) == \E i \in Unpublished : outbox[i].notif = n /\ ~HandedOver(i)
InQueue(n)  == \E m \in Message : m[1] = n /\ mainQ[m] + waitQ[m] > 0
InHand(n)   == \E w \in Workers : job[w] = n /\ WillHandOn(w)
OnRecord(n) == n \in dlq \cup deadLetters \cup deferred \cup dropped \cup forgotten

LossInv ==
  /\ \A n \in Notifs : Pickable(n) => InOutbox(n) \/ InQueue(n) \/ InHand(n) \/ OnRecord(n)
  /\ \A w \in Workers :
       /\ pc[w] \notin {"idle", "settle"} => redel[w] < MaxRedeliveries
       /\ pc[w] = "bounce" => ret[w] = "err"

(* Every layer at once: nothing a crash, an error, a lost connection or a   *)
(* timeout leaves behind lets two workers at one row, lets a key expire     *)
(* under its handler, lets a provider request go uncounted, or loses a row  *)
(* in a way that is not on record.                                          *)
IInv == TypeInv /\ LockInv /\ OwnInv /\ BudgetInv /\ RowInv /\ LossInv

-----------------------------------------------------------------------------
(* What costs faults, and what holds when some kinds of fault do not        *)
(* happen.  Each of these is inductive given IInv; the theorems of          *)
(* OutcomeProofs state which faults they exclude.                           *)

(* Without slow handlers and shutdowns the context of a worker that has its *)
(* connection is never done; without lost connections every worker has it.  *)
Timely    == \A w \in Workers : Busy(w) /\ unacked[w] => left[w] > 0
Connected == \A w \in Workers : Busy(w) => unacked[w]

(* From the pickup of a row to the provider's answer nothing was accepted;  *)
(* what was accepted is settled, or the worker that got the answer still    *)
(* has the row.                                                             *)
UnacceptedLabels == {"setnx", "defer", "take", "send", "inCall", "recordRetry", "recordDead",
                     "revert", "revertNA", "markDead"}

AnsweredLabels == {"recordOk", "markSent"}

AcceptInv ==
  /\ AcceptedOnce
  /\ \A n \in Notifs : accepted[n] > 0 =>
       \/ status[n] \in {"sent", "dead_letter"}
       \/ \E w \in Workers : pc[w] \in AnsweredLabels /\ job[w] = n
  /\ \A w \in Workers :
       /\ pc[w] \in UnacceptedLabels => accepted[job[w]] = 0
       /\ pc[w] = "undo" => ~IsSending(job[w])

(* A 'sending' row has its owner. *)
OwnedInv == \A n \in Notifs : IsSending(n) => \E w \in Workers : Owns(w) /\ job[w] = n

(* Each bounce of a delivery whose row is not a dead letter has cost a      *)
(* fault, and so has a lost connection; a delivery that goes to the DLQ     *)
(* belongs to a dead letter.                                                *)
Paid(n) ==
  /\ \A m \in Message : m[1] = n /\ mainQ[m] + waitQ[m] > 0 => m[2] <= faults
  /\ \A w \in Workers : Busy(w) /\ job[w] = n =>
       /\ redel[w] <= faults
       /\ ret[w] = "err" \/ ~unacked[w] => redel[w] < faults

DLQInv ==
  /\ \A n \in dlq : status[n] = "dead_letter"
  /\ \A n \in Notifs : status[n] # "dead_letter" => Paid(n)
  /\ \A w \in Workers :
       unacked[w] /\ (pc[w] \in {"insertDead", "undo"} \/ (Busy(w) /\ ret[w] = "terminal")) =>
         status[job[w]] = "dead_letter"

(* The counted ones and the ones in S have cost a fault each. *)
Charged(S, counted, cost) ==
  /\ counted <= cost
  /\ \E f \in [S -> (counted + 1)..cost] : \A d, e \in S : f[d] = f[e] => d = e

(* An acceptance is secured while the worker that got it has the row, or    *)
(* once the row is settled and no request can follow.  A worker is doomed   *)
(* when it has lost its connection or its context: it may leave an          *)
(* acceptance unrecorded and has paid for that.                             *)
Settled(n) == status[n] \in {"sent", "dead_letter"}

Secured(n) ==
  \/ \E w \in Workers : pc[w] \in AnsweredLabels /\ job[w] = n
  \/ /\ Settled(n)
     /\ \A w \in Workers : pc[w] \in UnacceptedLabels => job[w] # n

Doomed(n) ==
  {w \in Workers :
     /\ job[w] = n
     /\ \/ ~unacked[w] /\ pc[w] = "cas"
        \/ /\ ~unacked[w] \/ CtxDone(w)
           /\ pc[w] \in UnacceptedLabels \cup AnsweredLabels}

RepeatInv ==
  \A n \in Notifs :
    Charged(Doomed(n), accepted[n] + (IF Secured(n) THEN 0 ELSE 1), faults + 1)

(* Each failed publish of an outbox row, counted yet or not, has cost a     *)
(* fault of its own, so no dispatcher gives up.                             *)
Failing(i) == {d \in Dispatchers : dpc[d] = "markFailed" /\ cur[d][1] = i}

TriesInv ==
  /\ \A i \in OutboxIds : Charged(Failing(i), outbox[i].attempts, faults)
  /\ \A d \in Dispatchers :
       /\ \A c \in batch[d] : c[2] <= faults
       /\ dpc[d] \notin {"giveUp", "giveUpInsert", "giveUpMark"}

(* A worker dead-letters only what it has sent; one whose context is done   *)
(* takes the same path without a request, and changes no row.               *)
AttemptInv ==
  /\ DeadLetterNeedsAttempt
  /\ \A w \in Workers :
       /\ pc[w] = "inCall" => calls[job[w]] > 0
       /\ pc[w] \in {"recordDead", "markDead"} => calls[job[w]] > 0 \/ CtxDone(w)

(* Giving up on a row that waits for pickup takes a failed publish and two  *)
(* failed writes.                                                           *)
GivenUpInv ==
  /\ \A d \in Dispatchers :
       /\ dpc[d] = "giveUp" => faults >= 1
       /\ dpc[d] = "giveUpInsert" => Settled(CurNotif(d)) \/ faults >= 2
       /\ dpc[d] = "giveUpMark" =>
            Settled(CurNotif(d)) \/ CurNotif(d) \in deadLetters \/ faults >= 3
  /\ forgotten # {} => faults >= 3
=============================================================================
