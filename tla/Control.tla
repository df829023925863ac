------------------------------ MODULE Control -------------------------------
(***************************************************************************)
(* The parts of notifyd that move notifications from outside the delivery  *)
(* path: the scheduler (internal/scheduler), the cancel and create         *)
(* endpoints, and the admin endpoints that replay and purge dead letters   *)
(* and write the audit log (internal/api/admin.go).                        *)
(*                                                                         *)
(* The delivery path itself is represented by what Delivery implements,    *)
(* the edges of Lifecycle, taken at any time.  Transactions run at READ    *)
(* COMMITTED: a plain SELECT takes no lock; an UPDATE locks its row until  *)
(* the transaction ends and other writers of the row wait, so everything   *)
(* from a transaction's first UPDATE on takes effect at its commit.        *)
(***************************************************************************)
EXTENDS Store, Audit, Faults

CONSTANTS Schedulers,     \* scheduler replicas
          SchedBatch,     \* scheduler.Config.BatchSize
          MaxLife         \* bound on attempt_count

ASSUME ControlAssumption == None \notin Admins /\ SchedBatch \in Nat /\ MaxLife \in Nat

VARIABLES
  timer,      \* scheduled_notifications: "none", "waiting", "due" or "claimed"
  batch,      \* the claimed rows scheduler s has still to dispatch
  req,        \* admin request a: its next step, its target, and whether its
              \* DeleteDeadLetter found a row
  rowLock,    \* the request that has updated the row and not committed
  owed,       \* a worker has marked n dead_letter and not recorded it yet
  released,   \* history: how often the scheduler released n
  replayed,   \* history: notifications a replay has reset
  lateDead    \* history: dead_letters rows a worker inserted after a replay

historyVars == <<released, replayed, lateDead>>
controlVars == <<timer, batch, req, rowLock, owed>>
vars == <<storeVars, auditVars, controlVars, historyVars, faults>>

L == INSTANCE Lifecycle WITH calls <- [n \in Notifs |-> 0]

Idle == [step |-> "idle", on |-> None, deletes |-> FALSE]

(* The variables have their types: no path writes a status the column's     *)
(* CHECK lacks.                                                             *)
ControlTypeOK ==
  /\ StoreTypeOK /\ AuditTypeOK /\ FaultsTypeOK
  /\ timer \in [Notifs -> {"none", "waiting", "due", "claimed"}]
  /\ batch \in [Schedulers -> SUBSET Notifs]
  /\ req \in [Admins -> [step : {"idle", "reset", "auditId", "auditInsert", "commit"},
                         on : Notifs \cup {None}, deletes : BOOLEAN]]
  /\ rowLock \in [Notifs -> Admins \cup {None}]
  /\ released \in [Notifs -> Nat]
  /\ replayed \subseteq Notifs /\ lateDead \subseteq Notifs /\ owed \subseteq Notifs

Init ==
  /\ StoreInit /\ AuditInit /\ FaultsInit
  /\ timer = [n \in Notifs |-> "none"]
  /\ batch = [s \in Schedulers |-> {}]
  /\ req = [a \in Admins |-> Idle]
  /\ rowLock = [n \in Notifs |-> None]
  /\ released = [n \in Notifs |-> 0]
  /\ replayed = {} /\ lateDead = {} /\ owed = {}

Unlocked(n) == rowLock[n] = None

-----------------------------------------------------------------------------
(* API *)

(* persist with a scheduled_at in the future: the notification and its      *)
(* timer in one transaction, no outbox row.                                 *)
Schedule(n) ==
  /\ status[n] = "absent"
  /\ SetStatus(n, "scheduled")
  /\ timer' = [timer EXCEPT ![n] = "waiting"]
  /\ NoFault
  /\ UNCHANGED <<attemptCount, deliveryAttempts, deadLetters, outbox, auditVars,
                 batch, req, rowLock, owed, historyVars>>

(* A cancelled row keeps its timer; the scheduler drops it when it is due.  *)
Cancel(n) ==
  /\ Unlocked(n)
  /\ CancelPendingOrQueued(n)
  /\ NoFault
  /\ UNCHANGED <<deliveryAttempts, deadLetters, outbox, auditVars, controlVars, historyVars>>

-----------------------------------------------------------------------------
(* Scheduler *)

(* due_at passes. *)
BecomeDue(n) ==
  /\ timer[n] = "waiting"
  /\ timer' = [timer EXCEPT ![n] = "due"]
  /\ NoFault
  /\ UNCHANGED <<storeVars, auditVars, batch, req, rowLock, owed, historyVars>>

(* Mutation of Lapsed: claims do not age out. *)
NeverLapsed(n) == FALSE

(* claimed_at is older than ClaimTTL; its claimer may still be at work.     *)
Lapsed(n) == timer[n] = "claimed"

ClaimLapse(n) ==
  /\ Lapsed(n)
  /\ timer' = [timer EXCEPT ![n] = "due"]
  /\ NoFault
  /\ UNCHANGED <<storeVars, auditVars, batch, req, rowLock, owed, historyVars>>

(* tick: up to BatchSize due rows; SKIP LOCKED may leave some out.          *)
ClaimDueScheduled(s) ==
  /\ batch[s] = {}
  /\ \E S \in SUBSET {n \in Notifs : timer[n] = "due"} :
       /\ S # {} /\ Cardinality(S) <= SchedBatch
       /\ batch' = [batch EXCEPT ![s] = S]
       /\ timer' = [n \in Notifs |-> IF n \in S THEN "claimed" ELSE timer[n]]
  /\ NoFault
  /\ UNCHANGED <<storeVars, auditVars, req, rowLock, owed, historyVars>>

(* Mutation of MarkScheduledPending: no status guard. *)
MarkScheduledPendingAny(n) == SetStatus(n, "pending") /\ UNCHANGED attemptCount

(* Mutation of MarkScheduledPending: a status the column's CHECK lacks. *)
MarkScheduledReady(n) ==
  /\ status[n] = "scheduled"
  /\ SetStatus(n, "ready")
  /\ UNCHANGED attemptCount

(* CAS scheduled -> pending. *)
MarkScheduledPending(n) ==
  /\ status[n] = "scheduled"
  /\ SetStatus(n, "pending")
  /\ UNCHANGED attemptCount

DeleteScheduled(n) == timer' = [timer EXCEPT ![n] = "none"]

(* dispatchOne commits: status, outbox row and timer together.              *)
DispatchOne(s, n) ==
  /\ n \in batch[s]
  /\ MarkScheduledPending(n)
  /\ InsertOutbox(n)
  /\ DeleteScheduled(n)
  /\ batch' = [batch EXCEPT ![s] = @ \ {n}]
  /\ released' = [released EXCEPT ![n] = @ + 1]
  /\ NoFault
  /\ UNCHANGED <<deliveryAttempts, deadLetters, auditVars, req, rowLock, owed,
                 replayed, lateDead>>

(* Mutation of NoRows: every error of the CAS is taken for a lost race. *)
AnyError(n) == TRUE

(* The CAS returns pgx.ErrNoRows. *)
NoRows(n) == status[n] # "scheduled"

(* Cancelled meanwhile, or another replica was faster: drop the timer.      *)
DispatchLostRace(s, n) ==
  /\ n \in batch[s]
  /\ NoRows(n)
  /\ DeleteScheduled(n)
  /\ batch' = [batch EXCEPT ![s] = @ \ {n}]
  /\ NoFault
  /\ UNCHANGED <<storeVars, auditVars, req, rowLock, owed, historyVars>>

(* Any other error rolls back and the row waits for its claim to lapse.     *)
DispatchFails(s, n) ==
  /\ n \in batch[s]
  /\ batch' = [batch EXCEPT ![s] = @ \ {n}]
  /\ Fault("db")
  /\ UNCHANGED <<storeVars, auditVars, timer, req, rowLock, owed, historyVars>>

(* The process dies with claimed rows in hand. *)
SchedulerCrash(s) ==
  /\ batch[s] # {}
  /\ batch' = [batch EXCEPT ![s] = {}]
  /\ Fault("crash")
  /\ UNCHANGED <<storeVars, auditVars, timer, req, rowLock, owed, historyVars>>

-----------------------------------------------------------------------------
(* Admin API.  A request that fails, or whose client goes away, rolls its   *)
(* transaction back (AdminAbort).                                           *)

Step(a, r) == req' = [req EXCEPT ![a] = r]

(* Mutation of Replayable: the status is not tested. *)
ReplayableAny(n) == status[n] # "absent"

Replayable(n) == status[n] = "dead_letter"

(* replay: GetNotificationByID, no lock; any other status is a 409.         *)
ReplayCheck(a, n) ==
  /\ req[a] = Idle
  /\ Replayable(n)
  /\ Step(a, [step |-> "reset", on |-> n, deletes |-> FALSE])
  /\ NoFault
  /\ UNCHANGED <<storeVars, auditVars, timer, batch, rowLock, owed, historyVars>>

(* UPDATE notifications ... WHERE id = $1: locks the row whatever its       *)
(* status has become; DeleteDeadLetter deletes the row it can see.          *)
ReplayReset(a) ==
  LET n == req[a].on
  IN  /\ req[a].step = "reset" /\ Unlocked(n)
      /\ rowLock' = [rowLock EXCEPT ![n] = a]
      /\ Step(a, [step |-> "auditId", on |-> n, deletes |-> n \in deadLetters])
      /\ NoFault
      /\ UNCHANGED <<storeVars, auditVars, timer, batch, owed, historyVars>>

(* purge: DeleteDeadLetter commits on its own, then a best-effort entry.    *)
Purge(a, n) ==
  /\ req[a] = Idle
  /\ status[n] # "absent"
  /\ deadLetters' = deadLetters \ {n}
  /\ lateDead' = lateDead \ {n}
  /\ Step(a, [step |-> "auditId", on |-> n, deletes |-> FALSE])
  /\ NoFault
  /\ UNCHANGED <<rowVars, deliveryAttempts, outbox, auditVars, timer, batch, rowLock,
                 owed, released, replayed>>

(* revokeAPIKey, of which only the best-effort audit entry concerns the     *)
(* tables here; the key and the caches are the Auth module's.               *)
RevokeAPIKeyEntry(a) ==
  /\ req[a] = Idle
  /\ Step(a, [step |-> "auditId", on |-> None, deletes |-> FALSE])
  /\ NoFault
  /\ UNCHANGED <<storeVars, auditVars, timer, batch, rowLock, owed, historyVars>>

(* InsertAuditEntry, its id and then its trigger. *)
RequestAuditId(a) ==
  /\ req[a].step = "auditId"
  /\ AuditNextId(a)
  /\ Step(a, [req[a] EXCEPT !.step = "auditInsert"])
  /\ NoFault
  /\ UNCHANGED <<storeVars, timer, batch, rowLock, owed, historyVars>>

RequestAuditInsert(a) ==
  /\ req[a].step = "auditInsert"
  /\ AuditInsert(a)
  /\ Step(a, [req[a] EXCEPT !.step = "commit"])
  /\ NoFault
  /\ UNCHANGED <<storeVars, timer, batch, rowLock, owed, historyVars>>

HoldsRow(a) == req[a].on # None /\ rowLock[req[a].on] = a

PurgeCommit(a) ==
  /\ req[a].step = "commit" /\ ~HoldsRow(a)
  /\ AuditCommit(a)
  /\ Step(a, Idle)
  /\ NoFault
  /\ UNCHANGED <<storeVars, timer, batch, rowLock, owed, historyVars>>

(* Mutation of DeleteDeadLetter: the row is left behind. *)
KeepDeadLetter(a) == UNCHANGED <<deadLetters, lateDead>>

DeleteDeadLetter(a) ==
  IF req[a].deletes
  THEN deadLetters' = deadLetters \ {req[a].on} /\ lateDead' = lateDead \ {req[a].on}
  ELSE UNCHANGED <<deadLetters, lateDead>>

(* replay commits: row reset, dead letter gone, fresh outbox row, entry.    *)
ReplayCommit(a) ==
  LET n == req[a].on
  IN  /\ req[a].step = "commit" /\ HoldsRow(a)
      /\ SetStatus(n, "pending")
      /\ attemptCount' = [attemptCount EXCEPT ![n] = 0]
      /\ DeleteDeadLetter(a)
      /\ InsertOutbox(n)
      /\ AuditCommit(a)
      /\ rowLock' = [rowLock EXCEPT ![n] = None]
      /\ replayed' = replayed \cup {n}
      /\ Step(a, Idle)
      /\ NoFault
      /\ UNCHANGED <<deliveryAttempts, timer, batch, owed, released>>

AdminAbort(a) ==
  /\ req[a] # Idle
  /\ AuditRollback(a)
  /\ rowLock' = [n \in Notifs |-> IF rowLock[n] = a THEN None ELSE rowLock[n]]
  /\ Step(a, Idle)
  /\ NoFault
  /\ UNCHANGED <<storeVars, timer, batch, owed, historyVars>>

-----------------------------------------------------------------------------
(* The delivery path, by Lifecycle's edges. *)

DeliveryStep(n) ==
  /\ Unlocked(n) /\ status[n] # "absent"
  /\ \E s \in Statuses \ {"cancelled", "dead_letter"},
        k \in {attemptCount[n], attemptCount[n] + 1} :
       /\ k <= MaxLife
       /\ SetStatus(n, s)
       /\ attemptCount' = [attemptCount EXCEPT ![n] = k]
       /\ L!Moves(n) \/ L!CountsAttempt(n)
  /\ NoFault
  /\ UNCHANGED <<deliveryAttempts, deadLetters, outbox, auditVars, controlVars, historyVars>>

(* A worker gives up: MarkDeadLetter now, InsertDeadLetter next.            *)
DeliveryGivesUp(n) ==
  /\ Unlocked(n) /\ <<status[n], "dead_letter">> \in L!Edges
  /\ MarkDeadLetter(n)
  /\ owed' = owed \cup {n}
  /\ NoFault
  /\ UNCHANGED <<deliveryAttempts, deadLetters, outbox, auditVars, timer, batch, req,
                 rowLock, historyVars>>

(* The INSERT waits for a transaction that is deleting the row's twin.      *)
DeliveryRecordsDeadLetter(n) ==
  /\ n \in owed
  /\ \A a \in Admins : ~(HoldsRow(a) /\ req[a].on = n /\ req[a].deletes)
  /\ InsertDeadLetter(n)
  /\ owed' = owed \ {n}
  /\ lateDead' = IF status[n] = "dead_letter" /\ Unlocked(n)
                 THEN lateDead ELSE lateDead \cup {n}
  /\ NoFault
  /\ UNCHANGED <<rowVars, deliveryAttempts, outbox, auditVars, timer, batch, req,
                 rowLock, released, replayed>>

-----------------------------------------------------------------------------
SchedulerStep(s) ==
  \/ ClaimDueScheduled(s)
  \/ \E n \in Notifs : DispatchOne(s, n) \/ DispatchLostRace(s, n)

AdminStep(a) ==
  \/ ReplayReset(a) \/ RequestAuditId(a) \/ RequestAuditInsert(a)
  \/ PurgeCommit(a) \/ ReplayCommit(a)

Next ==
  \/ \E n \in Notifs : \/ Schedule(n) \/ Cancel(n) \/ BecomeDue(n) \/ ClaimLapse(n)
                       \/ DeliveryStep(n) \/ DeliveryGivesUp(n)
                       \/ DeliveryRecordsDeadLetter(n)
  \/ \E s \in Schedulers :
       \/ SchedulerStep(s) \/ SchedulerCrash(s)
       \/ \E n \in Notifs : DispatchFails(s, n)
  \/ \E a \in Admins :
       \/ AdminStep(a) \/ AdminAbort(a) \/ RevokeAPIKeyEntry(a)
       \/ \E n \in Notifs : ReplayCheck(a, n) \/ Purge(a, n)

Spec == Init /\ [][Next]_vars

(* The scheduler's ticker keeps firing and its claims age out. *)
FairSpec ==
  /\ Spec
  /\ \A s \in Schedulers : WF_vars(SchedulerStep(s))
  /\ \A n \in Notifs : WF_vars(BecomeDue(n)) /\ WF_vars(ClaimLapse(n))

-----------------------------------------------------------------------------
(* A scheduled notification always has its timer: no interleaving of        *)
(* replicas, lapsed claims, crashes and cancels strands a scheduled row.    *)
ScheduledHasTimer == \A n \in Notifs : status[n] = "scheduled" => timer[n] # "none"

(* dispatchOne releases a notification at most once, although a claim may   *)
(* lapse while its claimer is still working through its batch.              *)
ReleasedOnce == \A n \in Notifs : released[n] <= 1

(* A settled notification (sent or cancelled) comes back to life only by a  *)
(* replay that lost a race against an earlier replay: no scheduler, cancel  *)
(* or first replay ever revives one.                                        *)
RevivedOnlyByReplayRace ==
  [][\A n \in Notifs :
       status[n] \in {"sent", "cancelled"} /\ status'[n] = "pending" => n \in replayed]_vars

(* What the dead-letter list shows can be replayed: a dead_letters row      *)
(* belongs to a dead_letter notification unless its worker inserted it      *)
(* after the notification had been replayed.                                *)
ListedIsReplayable ==
  \A n \in deadLetters \ lateDead : status[n] = "dead_letter"

(* VerifyAuditChain reports a row only if an entry with a smaller id was    *)
(* committed after it; the advisory lock rules out every other fork.        *)
BrokenOnlyByLateCommit ==
  \A i \in VerifyAuditChain :
    \E p, q \in DOMAIN commitOrder :
      p < q /\ commitOrder[p] = i /\ commitOrder[q] < i

(* Every due timer is eventually worked off, its row released or dropped,   *)
(* whatever replica crashed or lost its transaction while holding it.       *)
DueIsWorkedOff == \A n \in Notifs : timer[n] = "due" ~> timer[n] = "none"

-----------------------------------------------------------------------------
(* Migration 0011: the trigger serialises inserts so that the chain cannot  *)
(* fork, so with no tampering VerifyAuditChain never reports a broken link. *)
ChainIntact == VerifyAuditChain = {}
=============================================================================
