--------------------------- MODULE ControlProofs ----------------------------
(***************************************************************************)
(* Scheduling, replay and the audit chain for any number of notifications, *)
(* schedulers, admin requests and faults.                                  *)
(*                                                                         *)
(* A row leaves 'scheduled' once, by the CAS or a cancel, and never comes  *)
(* back (TimerInv).  A replay that has read 'dead_letter' still finds it,  *)
(* unless another replay has committed meanwhile: delivery has no edge out *)
(* of 'dead_letter' (ReplayInv).  While a replay holds the row and deletes *)
(* no dead letter, any that is inserted is late (ListInv).                 *)
(***************************************************************************)
EXTENDS Control, TLAPS

RowType ==
  /\ status \in [Notifs -> Statuses]
  /\ timer \in [Notifs -> {"none", "waiting", "due", "claimed"}]
  /\ released \in [Notifs -> Nat]
  /\ req \in [Admins -> [step : {"idle", "reset", "auditId", "auditInsert", "commit"},
                         on : Notifs \cup {None}, deletes : BOOLEAN]]
  /\ rowLock \in [Notifs -> Admins \cup {None}]

(* A row that is still 'scheduled' has its timer and was not released. *)
TimerInv ==
  /\ ScheduledHasTimer
  /\ \A n \in Notifs : released[n] <= (IF status[n] \in {"absent", "scheduled"} THEN 0 ELSE 1)

(* Request a has read n as dead_letter and is going to reset it. *)
Resetting(a, n) == req[a].on = n /\ (req[a].step = "reset" \/ rowLock[n] = a)

ReplayInv ==
  /\ \A a \in Admins : req[a].step = "reset" => req[a].on \in Notifs
  /\ \A n \in Notifs, a \in Admins :
       /\ rowLock[n] = a => req[a].on = n /\ req[a].step \in {"auditId", "auditInsert", "commit"}
       /\ Resetting(a, n) => /\ status[n] \notin {"absent", "scheduled"}
                             /\ n \notin replayed => status[n] = "dead_letter"

ListInv ==
  /\ ListedIsReplayable
  /\ \A n \in Notifs, a \in Admins :
       rowLock[n] = a /\ ~req[a].deletes => n \notin deadLetters \ lateDead

CInv == RowType /\ TimerInv /\ ReplayInv /\ ListInv

LEMMA ControlInit == Init => CInv
BY NotificationAssumption, ControlAssumption DEF Init, StoreInit, CInv, RowType, TimerInv, ScheduledHasTimer, ReplayInv, Resetting, ListInv,
       ListedIsReplayable, Idle, Statuses

-----------------------------------------------------------------------------
(* What the steps leave alone *)

controlled == <<status, timer, released, req, rowLock, replayed, deadLetters, lateDead>>

LEMMA ControlFrame == CInv /\ UNCHANGED controlled => CInv'
BY DEF CInv, controlled, RowType, TimerInv, ScheduledHasTimer, ReplayInv, Resetting, ListInv,
       ListedIsReplayable

(* A step that moves only timers, and deletes none of a scheduled row. *)
LEMMA TimerStep ==
  ASSUME CInv, UNCHANGED <<status, released, req, rowLock, replayed, deadLetters, lateDead>>,
         timer' \in [Notifs -> {"none", "waiting", "due", "claimed"}],
         \A n \in Notifs : timer'[n] = "none" => timer[n] = "none" \/ status[n] # "scheduled"
  PROVE  CInv'
BY DEF CInv, RowType, TimerInv, ScheduledHasTimer, ReplayInv, Resetting, ListInv, ListedIsReplayable

(* A step that moves the status of one row along an edge that neither       *)
(* leaves dead_letter nor leads back to the scheduler.                      *)
LEMMA StatusStep ==
  ASSUME CInv, NEW n \in Notifs, NEW s \in Statuses \ {"absent", "scheduled"},
         status' = [status EXCEPT ![n] = s],
         status[n] = "dead_letter" => s = "dead_letter",
         UNCHANGED <<timer, released, req, rowLock, replayed, deadLetters, lateDead>>
  PROVE  CInv'
<1> USE DEF CInv
<1>1. RowType'
  BY DEF RowType
<1>2. TimerInv'
  BY DEF RowType, TimerInv, ScheduledHasTimer
<1>3. ReplayInv'
  BY DEF RowType, ReplayInv, Resetting
<1>4. ListInv'
  BY DEF RowType, ListInv, ListedIsReplayable
<1> QED
  BY <1>1, <1>2, <1>3, <1>4

(* A step of request a that moves its program counter between the audit     *)
(* steps and touches neither rows nor locks.                                *)
LEMMA AuditingStep ==
  ASSUME CInv, NEW a \in Admins, NEW s \in {"auditInsert", "commit"},
         req[a].step \in {"auditId", "auditInsert"}, Step(a, [req[a] EXCEPT !.step = s]),
         UNCHANGED <<status, timer, released, rowLock, replayed, deadLetters, lateDead>>
  PROVE  CInv'
<1> USE DEF CInv, Step
<1>1. RowType'
  BY DEF RowType
<1>2. TimerInv'
  BY DEF TimerInv, ScheduledHasTimer
<1>3. \A b \in Admins : /\ req'[b].on = req[b].on /\ req'[b].deletes = req[b].deletes
                        /\ b # a => req'[b] = req[b]
                        /\ req'[a].step = s /\ req[a].step \notin {"idle", "reset"}
  BY DEF RowType
<1>4. ReplayInv'
  BY <1>3 DEF RowType, ReplayInv, Resetting
<1>5. ListInv'
  BY <1>3 DEF ListInv, ListedIsReplayable
<1> QED
  BY <1>1, <1>2, <1>4, <1>5

-----------------------------------------------------------------------------
(* The actions *)

LEMMA ScheduleStep ==
  ASSUME CInv, NEW n \in Notifs, Schedule(n)
  PROVE  CInv'
<1> USE DEF CInv, Schedule, SetStatus, historyVars
<1>1. RowType'
  BY DEF RowType, Statuses
<1>2. TimerInv'
  BY DEF RowType, TimerInv, ScheduledHasTimer
<1>3. ReplayInv'
  BY DEF RowType, ReplayInv, Resetting
<1>4. ListInv'
  BY DEF RowType, ListInv, ListedIsReplayable
<1> QED
  BY <1>1, <1>2, <1>3, <1>4

LEMMA DeliverySteps ==
  ASSUME CInv, NEW n \in Notifs,
         Cancel(n) \/ DeliveryStep(n) \/ DeliveryGivesUp(n)
  PROVE  CInv'
<1> USE DEF historyVars, controlVars, SetStatus
<1>1. CASE Cancel(n)
  BY Zenon, <1>1, StatusStep DEF Cancel, CancelPendingOrQueued, Cancellable, Statuses
<1>2. CASE DeliveryStep(n)
  <2>1. PICK s \in Statuses \ {"cancelled", "dead_letter"} :
          /\ status' = [status EXCEPT ![n] = s]
          /\ L!Moves(n) \/ L!CountsAttempt(n)
    BY Zenon, <1>2 DEF DeliveryStep
  <2>2. status'[n] = s /\ status[n] # "dead_letter" /\ s \notin {"absent", "scheduled"}
    BY <2>1 DEF CInv, RowType, L!Moves, L!CountsAttempt, L!Edges
  <2> QED
    BY Zenon, <1>2, <2>1, <2>2, StatusStep DEF DeliveryStep
<1>3. CASE DeliveryGivesUp(n)
  <2>1. status' = [status EXCEPT ![n] = "dead_letter"]
    BY <1>3 DEF DeliveryGivesUp, MarkDeadLetter, L!Edges
  <2> QED
    BY Zenon, <1>3, <2>1, StatusStep DEF DeliveryGivesUp, Statuses
<1> QED
  BY <1>1, <1>2, <1>3

LEMMA RecordStep ==
  ASSUME CInv, NEW n \in Notifs, DeliveryRecordsDeadLetter(n)
  PROVE  CInv'
<1> USE DEF CInv, DeliveryRecordsDeadLetter, InsertDeadLetter, rowVars
<1>1. RowType' /\ TimerInv' /\ ReplayInv'
  BY DEF RowType, TimerInv, ScheduledHasTimer, ReplayInv, Resetting
<1>2. ListInv'
  BY NotificationAssumption, ControlAssumption DEF RowType, ListInv, ListedIsReplayable, Unlocked
<1> QED
  BY <1>1, <1>2

LEMMA SchedulerSteps ==
  ASSUME CInv, NEW s \in Schedulers,
         \/ ClaimDueScheduled(s) \/ SchedulerCrash(s)
         \/ \E n \in Notifs : DispatchLostRace(s, n) \/ DispatchFails(s, n)
  PROVE  CInv'
<1> USE DEF storeVars, historyVars
<1>1. CASE ClaimDueScheduled(s)
  BY <1>1, TimerStep DEF ClaimDueScheduled, CInv, RowType
<1>2. ASSUME NEW n \in Notifs, DispatchLostRace(s, n) PROVE CInv'
  BY <1>2, TimerStep DEF DispatchLostRace, NoRows, DeleteScheduled, CInv, RowType
<1>3. ASSUME NEW n \in Notifs, DispatchFails(s, n) PROVE CInv'
  BY <1>3, ControlFrame DEF DispatchFails, controlled
<1>4. CASE SchedulerCrash(s)
  BY <1>4, ControlFrame DEF SchedulerCrash, controlled
<1> QED
  BY <1>1, <1>2, <1>3, <1>4

LEMMA DispatchStep ==
  ASSUME CInv, NEW s \in Schedulers, NEW n \in Notifs, DispatchOne(s, n)
  PROVE  CInv'
<1> USE DEF CInv, DispatchOne, MarkScheduledPending, SetStatus, DeleteScheduled
<1>1. RowType'
  BY DEF RowType, Statuses
<1>2. TimerInv'
  BY DEF RowType, TimerInv, ScheduledHasTimer
<1>3. ReplayInv'
  BY DEF RowType, ReplayInv, Resetting
<1>4. ListInv'
  BY DEF RowType, ListInv, ListedIsReplayable
<1> QED
  BY <1>1, <1>2, <1>3, <1>4

(* What a request's record is after a step of request a, for all of them. *)
LEMMA OthersKept ==
  ASSUME RowType, NEW a \in Admins, NEW r, Step(a, r)
  PROVE  req'[a] = r /\ \A b \in Admins : b # a => req'[b] = req[b]
BY DEF RowType, Step

LEMMA AdminBegins ==
  ASSUME CInv, NEW a \in Admins, NEW n \in Notifs \cup {None},
         \/ n \in Notifs /\ (ReplayCheck(a, n) \/ Purge(a, n))
         \/ RevokeAPIKeyEntry(a)
  PROVE  CInv'
<1> USE DEF CInv, storeVars, rowVars, historyVars
<1>1. /\ UNCHANGED <<status, timer, released, rowLock, replayed>> /\ req[a] = Idle
      /\ deadLetters' \ lateDead' \subseteq deadLetters \ lateDead
  BY DEF ReplayCheck, Purge, RevokeAPIKeyEntry
<1>2. \A m \in Notifs : rowLock[m] # a
  BY <1>1 DEF ReplayInv, Idle
<1>3. TimerInv'
  BY <1>1 DEF TimerInv, ScheduledHasTimer
<1>4. CASE n \in Notifs /\ ReplayCheck(a, n)
  <2>1. req'[a] = [step |-> "reset", on |-> n, deletes |-> FALSE] /\ status[n] = "dead_letter"
    BY <1>4, OthersKept DEF ReplayCheck, Replayable
  <2>2. RowType'
    BY Zenon, <1>1, <1>4 DEF RowType, ReplayCheck, Step
  <2>3. \A b \in Admins : b # a => req'[b] = req[b]
    BY Zenon, <1>4, OthersKept DEF ReplayCheck
  <2>4. ReplayInv'
    BY <1>1, <1>2, <1>4, <2>1, <2>3 DEF ReplayInv, Resetting
  <2>5. ListInv'
    BY Zenon, <1>1, <1>2, <2>3 DEF ListInv, ListedIsReplayable
  <2> QED
    BY <1>3, <2>2, <2>4, <2>5
<1>5. CASE (n \in Notifs /\ Purge(a, n)) \/ RevokeAPIKeyEntry(a)
  <2>1. req'[a].step = "auditId" /\ req'[a].on \in Notifs \cup {None} /\ req'[a].deletes = FALSE
    BY <1>5, OthersKept DEF Purge, RevokeAPIKeyEntry
  <2>2. RowType'
    <3>1. CASE n \in Notifs /\ Purge(a, n)
      BY <1>1, <3>1 DEF RowType, Purge, Step
    <3>2. CASE RevokeAPIKeyEntry(a)
      BY Zenon, <1>1, <3>2 DEF RowType, RevokeAPIKeyEntry, Step
    <3> QED
      BY <1>5, <3>1, <3>2
  <2>3. \A b \in Admins : b # a => req'[b] = req[b]
    BY Zenon, <1>5, OthersKept DEF Purge, RevokeAPIKeyEntry
  <2>4. ReplayInv'
    BY <1>1, <1>2, <2>1, <2>3 DEF ReplayInv, Resetting
  <2>5. ListInv'
    BY <1>1, <1>2, <2>3 DEF ListInv, ListedIsReplayable
  <2> QED
    BY <1>3, <2>2, <2>4, <2>5
<1> QED
  BY <1>4, <1>5

LEMMA ResetStep ==
  ASSUME CInv, NEW a \in Admins, ReplayReset(a)
  PROVE  CInv'
<1> USE DEF CInv, storeVars, historyVars
<1> DEFINE n == req[a].on
           r == [step |-> "auditId", on |-> n, deletes |-> n \in deadLetters]
<1>1. n \in Notifs /\ rowLock[n] = None /\ req[a].step = "reset"
  BY Zenon DEF ReplayReset, Unlocked, ReplayInv
<1>2. /\ rowLock' = [rowLock EXCEPT ![n] = a] /\ Step(a, r)
      /\ UNCHANGED <<status, timer, released, replayed, deadLetters, lateDead>>
  BY DEF ReplayReset
<1>4. req'[a] = r /\ \A b \in Admins : b # a => req'[b] = req[b]
  BY <1>2, OthersKept
<1>5. r \in [step : {"idle", "reset", "auditId", "auditInsert", "commit"},
             on : Notifs \cup {None}, deletes : BOOLEAN]
  BY <1>1
<1>6. RowType'
  BY <1>1, <1>2, <1>5 DEF RowType, Step
<1>7. r.step = "auditId" /\ r.on = n /\ (r.deletes <=> n \in deadLetters)
  BY Zenon
<1>8. /\ rowLock'[n] = a
      /\ \A m \in Notifs : m # n => rowLock'[m] = rowLock[m] /\ rowLock[m] # a
  BY <1>1, <1>2 DEF RowType, ReplayInv
<1> HIDE DEF n, r
<1>9. TimerInv'
  BY <1>2 DEF TimerInv, ScheduledHasTimer
<1>10. Resetting(a, n)
  BY Zenon, <1>1 DEF Resetting, n
<1>11. ReplayInv'
  BY <1>1, <1>2, <1>4, <1>7, <1>8, <1>10 DEF ReplayInv, Resetting
<1>12. ListInv'
  BY <1>1, <1>2, <1>4, <1>7, <1>8 DEF ListInv, ListedIsReplayable
<1> QED
  BY Zenon, <1>6, <1>9, <1>11, <1>12

LEMMA AuditSteps ==
  ASSUME CInv, NEW a \in Admins, RequestAuditId(a) \/ RequestAuditInsert(a)
  PROVE  CInv'
BY Zenon, AuditingStep DEF RequestAuditId, RequestAuditInsert, storeVars, historyVars

(* The end of a transaction: the request is idle and holds no row. *)
LEMMA IdleAgain ==
  ASSUME CInv, NEW a \in Admins, Step(a, Idle), RowType',
         \A m \in Notifs : rowLock'[m] = (IF rowLock[m] = a THEN None ELSE rowLock[m]),
         UNCHANGED <<status, timer, released, replayed, deadLetters, lateDead>>
  PROVE  CInv'
<1> USE DEF CInv
<1>1. req'[a] = Idle /\ \A b \in Admins : b # a => req'[b] = req[b]
  BY OthersKept
<1>2. Idle.step = "idle" /\ Idle.on = None
  BY DEF Idle
<1>3. TimerInv'
  BY DEF TimerInv, ScheduledHasTimer
<1>4. ReplayInv'
  BY NotificationAssumption, ControlAssumption, <1>1, <1>2 DEF ReplayInv, Resetting
<1>5. ListInv'
  BY NotificationAssumption, ControlAssumption, <1>1 DEF ListInv, ListedIsReplayable
<1> QED
  BY Zenon, <1>3, <1>4, <1>5

LEMMA AdminEnds ==
  ASSUME CInv, NEW a \in Admins, PurgeCommit(a) \/ AdminAbort(a)
  PROVE  CInv'
<1> USE DEF storeVars, historyVars
<1>1. Idle \in [step : {"idle", "reset", "auditId", "auditInsert", "commit"},
                on : Notifs \cup {None}, deletes : BOOLEAN]
  BY DEF Idle
<1>2. CASE PurgeCommit(a)
  <2>1. \A m \in Notifs : rowLock[m] # a
    BY NotificationAssumption, ControlAssumption, <1>2 DEF PurgeCommit, HoldsRow, CInv, ReplayInv
  <2>2. RowType'
    BY Zenon, <1>1, <1>2 DEF PurgeCommit, Step, CInv, RowType
  <2> QED
    BY Zenon, <1>2, <2>1, <2>2, IdleAgain DEF PurgeCommit
<1>3. CASE AdminAbort(a)
  <2>1. RowType'
    BY <1>1, <1>3 DEF AdminAbort, Step, CInv, RowType
  <2> QED
    BY <1>3, <2>1, IdleAgain DEF AdminAbort
<1> QED
  BY <1>2, <1>3

LEMMA ReplayCommitStep ==
  ASSUME CInv, NEW a \in Admins, ReplayCommit(a)
  PROVE  CInv'
<1> USE DEF CInv
<1> DEFINE n == req[a].on
<1>1. n \in Notifs /\ rowLock[n] = a
  BY Zenon DEF ReplayCommit, HoldsRow, RowType
<1>2. /\ status' = [status EXCEPT ![n] = "pending"] /\ rowLock' = [rowLock EXCEPT ![n] = None]
      /\ replayed' = replayed \cup {n} /\ Step(a, Idle) /\ DeleteDeadLetter(a)
      /\ UNCHANGED <<timer, released>>
  BY Zenon DEF ReplayCommit, SetStatus
<1>3. /\ n \notin deadLetters' \ lateDead'
      /\ deadLetters' \ lateDead' \subseteq deadLetters \ lateDead
  BY <1>1, <1>2 DEF DeleteDeadLetter, ListInv
<1>4. status[n] \notin {"absent", "scheduled"}
  BY <1>1 DEF ReplayInv, Resetting
<1>5. req'[a] = Idle /\ \A b \in Admins : b # a => req'[b] = req[b]
  BY <1>2, OthersKept
<1>6. Idle.step = "idle" /\ Idle.on = None
      /\ Idle \in [step : {"idle", "reset", "auditId", "auditInsert", "commit"},
                   on : Notifs \cup {None}, deletes : BOOLEAN]
  BY DEF Idle
<1>7. \A m \in Notifs : m # n => rowLock[m] # a
  BY <1>1 DEF ReplayInv
<1> HIDE DEF n
<1>8. RowType'
  BY <1>1, <1>2, <1>6 DEF RowType, Step, Statuses
<1>9. TimerInv'
  BY Zenon, <1>1, <1>2, <1>4 DEF RowType, TimerInv, ScheduledHasTimer
<1>10. ReplayInv'
  BY NotificationAssumption, ControlAssumption, <1>1, <1>2, <1>5, <1>6, <1>7 DEF RowType, ReplayInv, Resetting
<1>11. ListInv'
  BY <1>1, <1>2, <1>3, <1>5, <1>7 DEF RowType, ListInv, ListedIsReplayable
<1> QED
  BY <1>8, <1>9, <1>10, <1>11

LEMMA ControlStep == CInv /\ [Next]_vars => CInv'
<1> SUFFICES ASSUME CInv, [Next]_vars PROVE CInv'
  OBVIOUS
<1>1. CASE UNCHANGED vars
  BY <1>1, ControlFrame DEF vars, controlled, storeVars, controlVars, historyVars
<1>2. ASSUME NEW n \in Notifs, Schedule(n) \/ Cancel(n) \/ DeliveryStep(n) \/ DeliveryGivesUp(n)
                               \/ DeliveryRecordsDeadLetter(n) \/ BecomeDue(n) \/ ClaimLapse(n)
      PROVE  CInv'
  <2>1. CASE BecomeDue(n) \/ ClaimLapse(n)
    BY <2>1, TimerStep DEF BecomeDue, ClaimLapse, storeVars, historyVars, CInv, RowType
  <2> QED
    BY Zenon, <1>2, <2>1, ScheduleStep, DeliverySteps, RecordStep
<1>3. ASSUME NEW s \in Schedulers, SchedulerCrash(s) \/ ClaimDueScheduled(s)
      PROVE  CInv'
  BY <1>3, SchedulerSteps
<1>4. ASSUME NEW s \in Schedulers, NEW n \in Notifs,
             DispatchOne(s, n) \/ DispatchLostRace(s, n) \/ DispatchFails(s, n)
      PROVE  CInv'
  BY <1>4, SchedulerSteps, DispatchStep
<1>5. ASSUME NEW a \in Admins, AdminStep(a) \/ AdminAbort(a)
      PROVE  CInv'
  BY <1>5, ResetStep, AuditSteps, AdminEnds, ReplayCommitStep DEF AdminStep
<1>6. ASSUME NEW a \in Admins, RevokeAPIKeyEntry(a)
      PROVE  CInv'
  BY <1>6, AdminBegins
<1>7. ASSUME NEW a \in Admins, NEW n \in Notifs, ReplayCheck(a, n) \/ Purge(a, n)
      PROVE  CInv'
  BY <1>7, AdminBegins
<1> QED
  BY <1>1, <1>2, <1>3, <1>4, <1>5, <1>6, <1>7 DEF Next, SchedulerStep

LEMMA ControlAlways == Spec => []CInv
BY ControlInit, ControlStep, PTL DEF Spec

(* No interleaving of schedulers, lapsed claims, crashes, cancels and       *)
(* replays leaves a scheduled row without its timer.                        *)
THEOREM TimersAreKept == Spec => []ScheduledHasTimer
<1>1. CInv => ScheduledHasTimer
  BY DEF CInv, TimerInv
<1> QED
  BY <1>1, ControlAlways, PTL

(* dispatchOne's CAS releases a notification at most once, however many     *)
(* replicas have claimed it.                                                *)
THEOREM ReleaseIsOnce == Spec => []ReleasedOnce
<1>1. CInv => ReleasedOnce
  BY DEF CInv, TimerInv, RowType, ReleasedOnce
<1> QED
  BY <1>1, ControlAlways, PTL

(* Only a row whose worker recorded it late is listed as a dead letter and  *)
(* cannot be replayed.                                                      *)
THEOREM ListIsReplayable == Spec => []ListedIsReplayable
<1>1. CInv => ListedIsReplayable
  BY DEF CInv, ListInv
<1> QED
  BY <1>1, ControlAlways, PTL

(* A sent or cancelled notification becomes pending only when a replay      *)
(* commits after another replay of it has.                                  *)
THEOREM RevivalNeedsReplay == Spec => RevivedOnlyByReplayRace
<1> DEFINE Revival == \A n \in Notifs :
             status[n] \in {"sent", "cancelled"} /\ status'[n] = "pending" => n \in replayed
<1>1. CInv /\ [Next]_vars => [Revival]_vars
  <2> SUFFICES ASSUME CInv, Next, NEW n \in Notifs,
                      status[n] \in {"sent", "cancelled"}, status'[n] = "pending"
               PROVE  n \in replayed
    OBVIOUS
  <2> USE DEF CInv, RowType, storeVars, rowVars
  <2>1. ASSUME NEW m \in Notifs,
               Schedule(m) \/ Cancel(m) \/ BecomeDue(m) \/ ClaimLapse(m) \/ DeliveryStep(m)
               \/ DeliveryGivesUp(m) \/ DeliveryRecordsDeadLetter(m)
        PROVE  FALSE
    <3>1. CASE DeliveryStep(m)
      <4>1. PICK s \in Statuses : status' = [status EXCEPT ![m] = s] /\ (L!Moves(m) \/ L!CountsAttempt(m))
        BY Zenon, <3>1 DEF DeliveryStep, SetStatus
      <4>2. m = n
        BY <4>1
      <4> QED
        BY <4>1, <4>2 DEF L!Moves, L!CountsAttempt, L!Edges
    <3>2. CASE Schedule(m) \/ Cancel(m)
      BY <3>2 DEF Schedule, Cancel, CancelPendingOrQueued, SetStatus
    <3>3. CASE DeliveryGivesUp(m)
      BY <3>3 DEF DeliveryGivesUp, MarkDeadLetter, SetStatus
    <3>4. CASE BecomeDue(m) \/ ClaimLapse(m) \/ DeliveryRecordsDeadLetter(m)
      BY Zenon, <3>4 DEF BecomeDue, ClaimLapse, DeliveryRecordsDeadLetter
    <3> QED
      BY Zenon, <2>1, <3>1, <3>2, <3>3, <3>4
  <2>2. ASSUME NEW s \in Schedulers, SchedulerStep(s) \/ SchedulerCrash(s)
                                     \/ \E m \in Notifs : DispatchFails(s, m)
        PROVE  FALSE
    BY <2>2 DEF SchedulerStep, SchedulerCrash, DispatchFails, ClaimDueScheduled, DispatchLostRace,
                DispatchOne, MarkScheduledPending, SetStatus
  <2>3. ASSUME NEW a \in Admins, ReplayCommit(a)
        PROVE  n \in replayed
    <3>1. req[a].on = n /\ rowLock[n] = a
      BY <2>3 DEF ReplayCommit, SetStatus, HoldsRow
    <3> QED
      BY <3>1 DEF ReplayInv, Resetting
  <2>4. ASSUME NEW a \in Admins,
               ReplayReset(a) \/ RequestAuditId(a) \/ RequestAuditInsert(a) \/ PurgeCommit(a)
               \/ AdminAbort(a) \/ RevokeAPIKeyEntry(a)
               \/ \E m \in Notifs : ReplayCheck(a, m) \/ Purge(a, m)
        PROVE  FALSE
    BY Zenon, <2>4 DEF ReplayReset, RequestAuditId, RequestAuditInsert, PurgeCommit, AdminAbort,
                RevokeAPIKeyEntry, ReplayCheck, Purge
  <2> QED
    BY Zenon, <2>1, <2>2, <2>3, <2>4 DEF Next, AdminStep
<1> QED
  BY <1>1, ControlAlways, PTL DEF Spec, RevivedOnlyByReplayRace

-----------------------------------------------------------------------------
(* The audit chain.  A row is chained to what was committed below it when   *)
(* its trigger ran, and the advisory lock keeps that so until it commits;   *)
(* after that only a later commit of a smaller id changes what is below it. *)

(* LastHash, as a function of the table. *)
HashOf(table, below) ==
  IF below = {} THEN Genesis ELSE table[CHOOSE i \in below : \A j \in below : j <= i].row_hash

HashBelow(table, id) == HashOf(table, {i \in DOMAIN table : i < id})

Late(i) == \E p, q \in DOMAIN commitOrder : p < q /\ commitOrder[p] = i /\ commitOrder[q] < i

AuditType ==
  /\ auditSeq \in Nat /\ auditId \in [Admins -> Nat] /\ DOMAIN auditRow = Admins
  /\ commitOrder \in Seq(Nat)
  /\ DOMAIN audit \subseteq 1..auditSeq

(* Ids are handed out once. *)
IdInv ==
  /\ \A a \in Admins : auditId[a] <= auditSeq /\ auditId[a] \notin DOMAIN audit
  /\ \A a, b \in Admins : auditId[a] = auditId[b] => a = b \/ auditId[a] = 0
  /\ \A i \in DOMAIN audit : \E p \in DOMAIN commitOrder : commitOrder[p] = i

(* A transaction that has inserted its entry holds the lock, and its entry  *)
(* is chained to what is committed.                                         *)
HolderInv ==
  \A a \in Admins : req[a].step = "commit" =>
    /\ lockedBy = {a} /\ auditId[a] # 0
    /\ auditRow[a].prev_hash = HashBelow(audit, auditId[a])
    /\ auditRow[a].row_hash = Append(auditRow[a].prev_hash, auditId[a])

ChainInv ==
  \A i \in DOMAIN audit :
    /\ audit[i].row_hash = Append(audit[i].prev_hash, i)
    /\ audit[i].prev_hash = HashBelow(audit, i) \/ Late(i)

AInv == AuditType /\ IdInv /\ HolderInv /\ ChainInv

LOCAL INSTANCE WellFoundedInduction

LEMMA LargestId ==
  ASSUME NEW N \in Nat, NEW S, S \subseteq 1..N, S # {}
  PROVE  \E i \in S : \A j \in S : j <= i
<1> DEFINE R == OpToRel(<, Nat)
           T == {N - i : i \in S}
<1>1. IsWellFoundedOn(R, Nat)
  BY Zenon, NatLessThanWellFounded
<1>2. T \subseteq Nat /\ T # {}
  <2>1. \A i \in S : i \in Nat /\ i <= N /\ N - i \in Nat
    OBVIOUS
  <2>2. T \subseteq Nat
    BY <2>1
  <2>3. T # {}
    BY Zenon
  <2> QED
    BY <2>2, <2>3
<1>3. \A x, y \in Nat : y < x => <<y, x>> \in R
  BY DEF OpToRel
<1> HIDE DEF R
<1>4. PICK x \in T : \A y \in T : ~(<<y, x>> \in R)
  <2> HIDE DEF T
  <2> QED BY Zenon, <1>1, <1>2, WFMin
<1>5. \A y \in T : x <= y
  <2> SUFFICES ASSUME NEW y \in T PROVE x <= y
    OBVIOUS
  <2>1. x \in Nat /\ y \in Nat /\ ~(y < x)
    <3> HIDE DEF T
    <3> QED
      BY Zenon, <1>2, <1>3, <1>4
  <2> QED
    BY <2>1
<1>6. PICK i \in S : x = N - i
  BY <1>4
<1>7. \A j \in S : N - i <= N - j
  BY Zenon, <1>5, <1>6
<1> QED
  BY <1>6, <1>7

(* What is below id stays the same when the rows below id do. *)
LEMMA SameBelow ==
  ASSUME NEW f, NEW g, NEW id, NEW N \in Nat, DOMAIN f \subseteq 1..N,
         \A i : i < id => (i \in DOMAIN f <=> i \in DOMAIN g),
         \A i \in DOMAIN f : i < id => g[i] = f[i]
  PROVE  HashBelow(g, id) = HashBelow(f, id)
<1> DEFINE S == {i \in DOMAIN f : i < id}
           m == CHOOSE i \in S : \A j \in S : j <= i
<1>1. S = {i \in DOMAIN g : i < id}
  OBVIOUS
<1>2. ASSUME S # {} PROVE g[m] = f[m]
  <2>1. \E i \in S : \A j \in S : j <= i
    <3>1. S \subseteq 1..N
      OBVIOUS
    <3> HIDE DEF S
    <3> QED
      BY Zenon, <1>2, <3>1, LargestId
  <2>2. m \in S
    <3> HIDE DEF S
    <3> QED
      BY <2>1
  <2> HIDE DEF m
  <2> QED
    BY <2>2
<1>3. HashBelow(f, id) = HashOf(f, S) /\ HashBelow(g, id) = HashOf(g, S)
  BY Zenon, <1>1 DEF HashBelow
<1> HIDE DEF S
<1>4. /\ HashOf(f, S) = IF S = {} THEN Genesis ELSE f[m].row_hash
      /\ HashOf(g, S) = IF S = {} THEN Genesis ELSE g[m].row_hash
  BY DEF HashOf
<1> HIDE DEF m
<1> QED
  BY Zenon, <1>2, <1>3, <1>4

LEMMA ChainInit == Init => AInv
BY DEF Init, AuditInit, AInv, AuditType, IdInv, HolderInv, ChainInv, Idle

(* Steps that do not write the log, and take no request to its commit. *)
LEMMA AuditFrame ==
  ASSUME AInv, UNCHANGED auditVars,
         \A a \in Admins : req'[a].step = "commit" => req[a].step = "commit"
  PROVE  AInv'
BY DEF auditVars, AInv, AuditType, IdInv, HolderInv, ChainInv, Late

LEMMA NextIdStep ==
  ASSUME AInv, RowType, NEW a \in Admins, RequestAuditId(a)
  PROVE  AInv'
<1> USE DEF AInv, RequestAuditId, AuditNextId
<1>1. /\ req'[a].step = "auditInsert"
      /\ \A b \in Admins : b # a => req'[b] = req[b]
  BY DEF RowType, Step
<1>2. AuditType'
  BY DEF AuditType
<1>3. IdInv'
  BY DEF AuditType, IdInv
<1>4. HolderInv'
  BY Zenon, <1>1 DEF AuditType, HolderInv
<1>5. ChainInv'
  BY DEF ChainInv, Late
<1> QED
  BY <1>2, <1>3, <1>4, <1>5

LEMMA InsertStep ==
  ASSUME AInv, RowType, NEW a \in Admins, RequestAuditInsert(a)
  PROVE  AInv'
<1> USE DEF AInv, RequestAuditInsert, AuditInsert
<1>1. \A b \in Admins : b # a => req'[b] = req[b]
  BY DEF RowType, Step
<1>2. AuditType' /\ IdInv' /\ ChainInv'
  BY DEF AuditType, IdInv, ChainInv, Late
<1>3. LastHash(auditId[a]) = HashBelow(audit, auditId[a])
  BY DEF LastHash, HashBelow, HashOf
<1>4. lockedBy = {} /\ lockedBy' = {a}
  BY DEF AdvisoryLock
<1>5. /\ auditRow'[a].prev_hash = HashBelow(audit, auditId[a])
      /\ auditRow'[a].row_hash = Append(auditRow'[a].prev_hash, auditId[a])
  BY Zenon, <1>3 DEF AuditType
<1>6. HolderInv'
  BY <1>1, <1>4, <1>5 DEF HolderInv
<1> QED
  BY <1>2, <1>6

LEMMA AbortStep ==
  ASSUME AInv, RowType, NEW a \in Admins, AdminAbort(a)
  PROVE  AInv'
<1> USE DEF AInv, AdminAbort, AuditRollback, EndAuditTx
<1>1. req'[a].step = "idle" /\ \A b \in Admins : b # a => req'[b] = req[b]
  BY DEF RowType, Step, Idle
<1>2. AuditType'
  BY Zenon DEF AuditType
<1>3. IdInv'
  <2>1. UNCHANGED <<audit, commitOrder, auditSeq>>
    BY Zenon
  <2>2. \A b \in Admins : auditId'[b] = IF b = a THEN 0 ELSE auditId[b]
    BY ZenonT(30) DEF AuditType
  <2>3. 0 <= auditSeq /\ 0 \notin DOMAIN audit
    BY DEF AuditType
  <2>4. IdInv
    BY Zenon
  <2> HIDE DEF AInv, AdminAbort, AuditRollback, EndAuditTx
  <2>5. \A b \in Admins : auditId'[b] <= auditSeq /\ auditId'[b] \notin DOMAIN audit
    BY Zenon, <2>2, <2>3, <2>4 DEF IdInv
  <2>6. \A b, c \in Admins : auditId'[b] = auditId'[c] => b = c \/ auditId'[b] = 0
    BY Zenon, <2>2, <2>4 DEF IdInv
  <2> QED
    BY Zenon, <2>1, <2>4, <2>5, <2>6 DEF IdInv
<1>4. HolderInv'
  BY ZenonT(30), <1>1 DEF AuditType, HolderInv
<1>5. ChainInv'
  BY DEF ChainInv, Late
<1> QED
  BY Zenon, <1>2, <1>3, <1>4, <1>5

(* The commit of a's entry: rows above it become late, the others keep what *)
(* is below them.                                                           *)
LEMMA CommitStep ==
  ASSUME AInv, RowType, NEW a \in Admins, req[a].step = "commit", AuditCommit(a), Step(a, Idle)
  PROVE  AInv'
<1> USE DEF AInv, AuditCommit, EndAuditTx
<1> DEFINE id == auditId[a]
<1>1. req'[a].step = "idle" /\ \A b \in Admins : b # a => req'[b] = req[b]
  BY DEF RowType, Step, Idle
<1>2. /\ id \in 1..auditSeq /\ id \notin DOMAIN audit /\ lockedBy = {a}
      /\ auditRow[a].prev_hash = HashBelow(audit, id)
      /\ auditRow[a].row_hash = Append(auditRow[a].prev_hash, id)
  BY DEF AuditType, IdInv, HolderInv
<1>3. /\ DOMAIN audit' = DOMAIN audit \cup {id} /\ audit'[id] = auditRow[a]
      /\ \A i \in DOMAIN audit : audit'[i] = audit[i]
  BY Zenon, <1>2
<1>4. /\ commitOrder \in Seq(Nat) /\ commitOrder' = Append(commitOrder, id) /\ id \in Nat
      /\ commitOrder' \in Seq(Nat) /\ Len(commitOrder') = Len(commitOrder) + 1
      /\ commitOrder'[Len(commitOrder) + 1] = id
      /\ \A p \in DOMAIN commitOrder : p \in DOMAIN commitOrder' /\ commitOrder'[p] = commitOrder[p]
  BY <1>2 DEF AuditType
<1>5. AuditType'
  BY Zenon, <1>2, <1>3, <1>4 DEF AuditType
<1>6. IdInv'
  <2>1. \A i \in DOMAIN audit' : \E p \in DOMAIN commitOrder' : commitOrder'[p] = i
    <3>1. Len(commitOrder) + 1 \in DOMAIN commitOrder'
      BY <1>4
    <3> QED
      BY <1>3, <1>4, <3>1 DEF IdInv
  <2>2. \A b \in Admins : auditId'[b] = IF b = a THEN 0 ELSE auditId[b]
    BY Zenon DEF AuditType
  <2>3. 0 \notin DOMAIN audit' /\ auditSeq' = auditSeq /\ auditSeq \in Nat
    BY <1>2, <1>3 DEF AuditType
  <2>4. \A b \in Admins : b # a => auditId[b] # id
    BY <1>2 DEF IdInv
  <2> HIDE DEF id
  <2> QED
    BY <1>3, <2>1, <2>2, <2>3, <2>4 DEF IdInv
<1>7. HolderInv'
  BY Zenon, <1>1, <1>2 DEF HolderInv
<1>8. ChainInv'
  <2> SUFFICES ASSUME NEW i \in DOMAIN audit'
               PROVE  /\ audit'[i].row_hash = Append(audit'[i].prev_hash, i)
                      /\ audit'[i].prev_hash = HashBelow(audit', i) \/ Late(i)'
    BY Zenon DEF ChainInv
  <2>1. CASE i > id
    <3>1. i \in DOMAIN audit
      BY <1>3, <2>1, <1>2
    <3>2. PICK p \in DOMAIN commitOrder : commitOrder[p] = i
      BY Zenon, <3>1 DEF IdInv
    <3>3. p < Len(commitOrder) + 1 /\ Len(commitOrder) + 1 \in DOMAIN commitOrder'
      BY <1>4, <3>2
    <3>4. Late(i)'
      BY <1>4, <2>1, <3>2, <3>3 DEF Late
    <3> QED
      BY Zenon, <1>3, <3>1, <3>4 DEF ChainInv
  <2>2. CASE ~(i > id)
    <3>1. i \in Nat /\ i <= id
      BY <1>2, <1>3, <2>2 DEF AuditType
    <3>2. HashBelow(audit', i) = HashBelow(audit, i)
      <4>1. DOMAIN audit \subseteq 1..auditSeq /\ auditSeq \in Nat
        BY Zenon DEF AuditType
      <4>2. \A j : j < i => (j \in DOMAIN audit <=> j \in DOMAIN audit')
        BY <1>2, <1>3, <3>1
      <4>3. \A j \in DOMAIN audit : j < i => audit'[j] = audit[j]
        BY Zenon, <1>3
      <4> QED
        BY <4>1, <4>2, <4>3, SameBelow
    <3>3. CASE i = id
      BY Zenon, <1>2, <1>3, <3>2, <3>3
    <3>4. CASE i # id
      <4>1. i \in DOMAIN audit /\ audit'[i] = audit[i]
        BY Zenon, <1>3, <3>4
      <4>2. Late(i) => Late(i)'
        BY Zenon, <1>4 DEF Late
      <4> QED
        BY Zenon, <3>2, <4>1, <4>2 DEF ChainInv
    <3> QED
      BY Zenon, <3>3, <3>4
  <2> QED
    BY Zenon, <2>1, <2>2
<1> QED
  BY <1>5, <1>6, <1>7, <1>8

LEMMA ChainStep == AInv /\ RowType /\ [Next]_vars => AInv'
<1> SUFFICES ASSUME AInv, RowType, [Next]_vars PROVE AInv'
  OBVIOUS
<1> USE DEF storeVars, controlVars, historyVars
<1>1. CASE UNCHANGED vars
  BY <1>1, AuditFrame DEF vars
<1>2. ASSUME NEW n \in Notifs, Schedule(n) \/ Cancel(n) \/ DeliveryStep(n) \/ DeliveryGivesUp(n)
                               \/ DeliveryRecordsDeadLetter(n) \/ BecomeDue(n) \/ ClaimLapse(n)
      PROVE  AInv'
  <2>1. UNCHANGED <<auditVars, req>>
    BY Zenon, <1>2 DEF Schedule, Cancel, DeliveryStep, DeliveryGivesUp, DeliveryRecordsDeadLetter,
                BecomeDue, ClaimLapse
  <2> QED
    BY <2>1, AuditFrame
<1>3. ASSUME NEW s \in Schedulers, SchedulerStep(s) \/ SchedulerCrash(s)
                                   \/ \E n \in Notifs : DispatchFails(s, n)
      PROVE  AInv'
  <2>1. UNCHANGED <<auditVars, req>>
    BY Zenon, <1>3 DEF SchedulerStep, SchedulerCrash, DispatchFails, ClaimDueScheduled, DispatchOne,
                DispatchLostRace
  <2> QED
    BY <2>1, AuditFrame
<1>4. ASSUME NEW a \in Admins, ReplayReset(a) \/ RevokeAPIKeyEntry(a)
                               \/ \E n \in Notifs : ReplayCheck(a, n) \/ Purge(a, n)
      PROVE  AInv'
  <2>1. UNCHANGED auditVars
    BY Zenon, <1>4 DEF ReplayReset, RevokeAPIKeyEntry, ReplayCheck, Purge
  <2>2. \E r : Step(a, r) /\ r.step # "commit"
    <3>1. CASE ReplayReset(a)
      <4> DEFINE r == [step |-> "auditId", on |-> req[a].on, deletes |-> req[a].on \in deadLetters]
      <4>1. Step(a, r)
        BY <3>1 DEF ReplayReset
      <4>2. r.step # "commit"
        BY Zenon
      <4> HIDE DEF r
      <4> QED
        BY Zenon, <4>1, <4>2
    <3>2. CASE RevokeAPIKeyEntry(a)
      BY <3>2 DEF RevokeAPIKeyEntry
    <3>3. ASSUME NEW n \in Notifs, ReplayCheck(a, n) PROVE \E r : Step(a, r) /\ r.step # "commit"
      BY <3>3 DEF ReplayCheck
    <3>4. ASSUME NEW n \in Notifs, Purge(a, n) PROVE \E r : Step(a, r) /\ r.step # "commit"
      BY <3>4 DEF Purge
    <3> QED
      BY Zenon, <1>4, <3>1, <3>2, <3>3, <3>4
  <2>3. req'[a].step # "commit" /\ \A b \in Admins : b # a => req'[b] = req[b]
    BY Zenon, <2>2, OthersKept
  <2> QED
    BY <2>1, <2>3, AuditFrame
<1>5. ASSUME NEW a \in Admins, PurgeCommit(a) \/ ReplayCommit(a)
      PROVE  AInv'
  BY <1>5, CommitStep DEF PurgeCommit, ReplayCommit
<1>6. ASSUME NEW a \in Admins, RequestAuditId(a) \/ RequestAuditInsert(a) \/ AdminAbort(a)
      PROVE  AInv'
  BY <1>6, NextIdStep, InsertStep, AbortStep
<1> QED
  BY <1>1, <1>2, <1>3, <1>4, <1>5, <1>6 DEF Next, AdminStep

(* Without tampering VerifyAuditChain reports a row only if an entry with a *)
(* smaller id was committed after it: the advisory lock rules out every     *)
(* other fork, for any number of concurrent writers.                        *)
THEOREM ForkNeedsLateCommit == Spec => []BrokenOnlyByLateCommit
<1>1. AInv => BrokenOnlyByLateCommit
  <2> SUFFICES ASSUME AInv, NEW i \in VerifyAuditChain PROVE Late(i)
    BY DEF BrokenOnlyByLateCommit, Late
  <2>1. i \in DOMAIN audit /\ (audit[i].prev_hash # LastHash(i)
                               \/ audit[i].row_hash # Append(audit[i].prev_hash, i))
    BY DEF VerifyAuditChain
  <2>2. LastHash(i) = HashBelow(audit, i)
    BY DEF LastHash, HashBelow, HashOf
  <2> QED
    BY <2>1, <2>2 DEF AInv, ChainInv
<1>2. CInv => RowType
  BY DEF CInv
<1>3. Spec => []AInv
  BY <1>2, ChainInit, ChainStep, ControlAlways, PTL DEF Spec
<1> QED
  BY <1>1, <1>3, PTL

-----------------------------------------------------------------------------
(* Types.  Those of the rows, timers and requests are part of CInv; the     *)
(* others are kept because every path writes what the tables allow, and    *)
(* the log because an entry is committed by a request that holds an id.    *)

AuditRowType == [prev_hash : Hash, row_hash : Hash]

TInv == ControlTypeOK /\ CInv /\ AInv

(* What an entry is chained to is a hash. *)
LEMMA LastHashType ==
  ASSUME AuditTypeOK, NEW id
  PROVE  LastHash(id) \in Hash
<1> DEFINE S == {i \in DOMAIN audit : i < id}
           m == CHOOSE i \in S : \A j \in S : j <= i
<1>1. LastHash(id) = IF S = {} THEN Genesis ELSE audit[m].row_hash
  BY DEF LastHash
<1>2. S \subseteq DOMAIN audit /\ S \subseteq 1..MaxAudit
  BY DEF AuditTypeOK
<1> HIDE DEF S
<1>3. ASSUME S # {} PROVE m \in S
  BY <1>2, <1>3, LargestId, AuditAssumption
<1> HIDE DEF m
<1>4. Genesis \in Hash
  BY DEF Genesis, Hash
<1>5. ASSUME S # {} PROVE audit[m].row_hash \in Hash
  <2>1. audit[m] \in [prev_hash : Hash, row_hash : Hash]
    BY Zenon, <1>2, <1>3, <1>5 DEF AuditTypeOK
  <2> QED
    BY <2>1
<1> QED
  BY <1>1, <1>4, <1>5

(* Rows of the log: the id drawn, the row built by the trigger, the commit *)
(* and the rollback.                                                       *)
LEMMA AuditTypes ==
  ASSUME AuditTypeOK, NEW a \in Admins, DOMAIN auditRow = Admins,
         \/ AuditNextId(a) \/ AuditInsert(a) \/ AuditRollback(a)
         \/ AuditCommit(a) /\ auditId[a] # 0
  PROVE  AuditTypeOK'
<1> USE AuditAssumption
<1>1. auditId[a] \in 0..MaxAudit
  BY Zenon DEF AuditTypeOK
<1>2. NoRow \in AuditRowType
  BY DEF NoRow, AuditRowType, Genesis, Hash
<1>3. CASE AuditNextId(a)
  BY <1>3 DEF AuditNextId, AuditTypeOK
<1>4. CASE AuditInsert(a)
  <2> DEFINE last == LastHash(auditId[a])
             r == [prev_hash |-> last, row_hash |-> Append(last, auditId[a])]
  <2>1. last \in Hash /\ auditId[a] \in 1..MaxAudit
    BY <1>1, <1>4, LastHashType DEF AuditInsert
  <2>2. auditRow' = [auditRow EXCEPT ![a] = r] /\ lockedBy' = {a}
        /\ UNCHANGED <<auditSeq, audit, auditId, commitOrder>>
    BY Zenon, <1>4 DEF AuditInsert, AdvisoryLock
  <2>3. r \in AuditRowType
    <3> HIDE DEF last
    <3>1. Append(last, auditId[a]) \in Hash
      BY <2>1 DEF Hash
    <3> QED
      BY Zenon, <2>1, <3>1 DEF AuditRowType
  <2> HIDE DEF r
  <2> QED
    BY Zenon, <2>2, <2>3 DEF AuditTypeOK, AuditRowType
<1>5. ASSUME EndAuditTx(a)
      PROVE  /\ auditId' \in [Admins -> 0..MaxAudit]
             /\ \A b \in Admins : auditRow'[b] \in AuditRowType
             /\ lockedBy' \subseteq Admins
  <2>1. \A b \in Admins : auditRow[b] \in AuditRowType
    BY Zenon DEF AuditTypeOK, AuditRowType
  <2> HIDE DEF NoRow, AuditRowType
  <2> QED
    BY <1>2, <1>5, <2>1 DEF EndAuditTx, AuditTypeOK
<1>6. CASE AuditRollback(a)
  BY Zenon, <1>5, <1>6 DEF AuditRollback, AuditTypeOK, AuditRowType
<1>7. CASE AuditCommit(a) /\ auditId[a] # 0
  <2>1. auditId[a] \in 1..MaxAudit
    BY <1>1, <1>7
  <2>2. commitOrder' \in Seq(1..MaxAudit)
    <3> DEFINE S == 1..MaxAudit
               x == auditId[a]
    <3>1. commitOrder \in Seq(S) /\ x \in S /\ commitOrder' = Append(commitOrder, x)
      BY Zenon, <1>7, <2>1 DEF AuditCommit, AuditTypeOK
    <3> HIDE DEF S, x
    <3>2. commitOrder' \in Seq(S)
      BY <3>1
    <3> QED
      BY Zenon, <3>2 DEF S
  <2>3. DOMAIN audit' = DOMAIN audit \cup {auditId[a]}
        /\ \A i \in DOMAIN audit' : audit'[i] = IF i = auditId[a] THEN auditRow[a] ELSE audit[i]
    BY <1>7 DEF AuditCommit
  <2>4. DOMAIN audit' \subseteq 1..MaxAudit
        /\ \A i \in DOMAIN audit' : audit'[i] \in AuditRowType
    BY <2>1, <2>3 DEF AuditTypeOK, AuditRowType
  <2> QED
    BY Zenon, <1>5, <1>7, <2>2, <2>4 DEF AuditCommit, AuditTypeOK, AuditRowType
<1> QED
  BY Zenon, <1>3, <1>4, <1>6, <1>7

(* One new row of the outbox. *)
LEMMA OutboxTypes ==
  ASSUME outbox \in [OutboxIds -> OutboxRow], NEW n \in Notifs, InsertOutbox(n)
  PROVE  outbox' \in [OutboxIds -> OutboxRow]
<1> DEFINE r == [FreeRow EXCEPT !.notif = n]
<1>1. r \in OutboxRow
  BY Zenon DEF FreeRow, OutboxRow
<1>2. PICK i \in OutboxIds : outbox' = [outbox EXCEPT ![i] = r]
  BY Zenon DEF InsertOutbox, FreeIds
<1> HIDE DEF r
<1> QED
  BY <1>1, <1>2

(* What CInv does not say of the types, the log excepted. *)
OtherTypes ==
  /\ attemptCount \in [Notifs -> Nat]
  /\ sendingAge \in [Notifs -> 0..AgeCap]
  /\ deliveryAttempts \in [Notifs -> SUBSET Nat]
  /\ deadLetters \subseteq Notifs
  /\ outbox \in [OutboxIds -> OutboxRow]
  /\ FaultsTypeOK
  /\ batch \in [Schedulers -> SUBSET Notifs]
  /\ replayed \subseteq Notifs /\ lateDead \subseteq Notifs /\ owed \subseteq Notifs

LEMMA TypeParts == ControlTypeOK <=> OtherTypes /\ RowType /\ AuditTypeOK
BY Zenon DEF ControlTypeOK, StoreTypeOK, OtherTypes, RowType

(* Delivery, cancelling and scheduling touch neither the log nor, but for   *)
(* one new outbox row, more than a row's status, age and counter.           *)
LEMMA RowTypes ==
  ASSUME OtherTypes, RowType, NEW n \in Notifs,
         Schedule(n) \/ Cancel(n) \/ BecomeDue(n) \/ ClaimLapse(n) \/ DeliveryStep(n)
         \/ DeliveryGivesUp(n) \/ DeliveryRecordsDeadLetter(n)
  PROVE  OtherTypes' /\ UNCHANGED auditVars
<1> USE StoreAssumption DEF OtherTypes, FaultsTypeOK, NoFault, storeVars, controlVars, historyVars
<1>0. 0 \in 0..AgeCap
  BY DEF AgeCap
<1>1. CASE Schedule(n) \/ Cancel(n)
  BY Zenon, <1>0, <1>1 DEF Schedule, Cancel, CancelPendingOrQueued, SetStatus
<1>2. CASE BecomeDue(n) \/ ClaimLapse(n)
  BY Zenon, <1>2 DEF BecomeDue, ClaimLapse
<1>3. CASE DeliveryStep(n)
  <2>1. PICK k \in {attemptCount[n], attemptCount[n] + 1} :
          attemptCount' = [attemptCount EXCEPT ![n] = k]
    <3> HIDE DEF OtherTypes, FaultsTypeOK, NoFault, controlVars, historyVars
    <3> QED
      BY Zenon, <1>3 DEF DeliveryStep
  <2>2. sendingAge' = [sendingAge EXCEPT ![n] = 0]
        /\ UNCHANGED <<deliveryAttempts, deadLetters, outbox, auditVars, batch, owed, replayed,
                       lateDead, faults>>
    BY Zenon, <1>3 DEF DeliveryStep, SetStatus
  <2>3. k \in Nat
    BY <2>1
  <2> QED
    BY <1>0, <2>1, <2>2, <2>3
<1>4. CASE DeliveryGivesUp(n)
  BY <1>0, <1>4 DEF DeliveryGivesUp, MarkDeadLetter, SetStatus, rowVars
<1>5. CASE DeliveryRecordsDeadLetter(n)
  BY Zenon, <1>5 DEF DeliveryRecordsDeadLetter, InsertDeadLetter, rowVars
<1> QED
  BY Zenon, <1>1, <1>2, <1>3, <1>4, <1>5

LEMMA SchedulerTypes ==
  ASSUME OtherTypes, RowType, NEW s \in Schedulers,
         SchedulerStep(s) \/ SchedulerCrash(s) \/ \E n \in Notifs : DispatchFails(s, n)
  PROVE  OtherTypes' /\ UNCHANGED auditVars
<1> USE StoreAssumption, FaultsAssumption
    DEF OtherTypes, FaultsTypeOK, NoFault, storeVars, historyVars
<1>1. ASSUME NEW n \in Notifs, DispatchOne(s, n) PROVE OtherTypes' /\ UNCHANGED auditVars
  <2>1. outbox' \in [OutboxIds -> OutboxRow]
    BY Zenon, <1>1, OutboxTypes DEF DispatchOne
  <2>2. 0 \in 0..AgeCap
    BY DEF AgeCap
  <2> QED
    BY Zenon, <1>1, <2>1, <2>2 DEF DispatchOne, MarkScheduledPending, SetStatus
<1>2. CASE ClaimDueScheduled(s)
  BY <1>2 DEF ClaimDueScheduled
<1>3. ASSUME NEW n \in Notifs, DispatchLostRace(s, n) PROVE OtherTypes' /\ UNCHANGED auditVars
  BY Zenon, <1>3 DEF DispatchLostRace
<1>4. ASSUME NEW n \in Notifs, DispatchFails(s, n) PROVE OtherTypes' /\ UNCHANGED auditVars
  BY <1>4 DEF DispatchFails, Fault
<1>5. CASE SchedulerCrash(s)
  BY <1>5 DEF SchedulerCrash, Fault
<1> QED
  BY Zenon, <1>1, <1>2, <1>3, <1>4, <1>5 DEF SchedulerStep

LEMMA AdminTypes ==
  ASSUME TInv, NEW a \in Admins,
         AdminStep(a) \/ AdminAbort(a) \/ RevokeAPIKeyEntry(a)
         \/ \E n \in Notifs : ReplayCheck(a, n) \/ Purge(a, n)
  PROVE  OtherTypes' /\ AuditTypeOK'
<1>1. OtherTypes /\ RowType /\ AuditTypeOK /\ DOMAIN auditRow = Admins
  BY TypeParts DEF TInv, AInv, AuditType
<1> USE StoreAssumption DEF FaultsTypeOK, NoFault, storeVars, historyVars
<1>2. CASE ReplayReset(a) \/ RevokeAPIKeyEntry(a) \/ \E n \in Notifs : ReplayCheck(a, n) \/ Purge(a, n)
  <2>1. UNCHANGED auditVars
    BY Zenon, <1>2 DEF ReplayReset, RevokeAPIKeyEntry, ReplayCheck, Purge
  <2>2. OtherTypes'
    BY Zenon, <1>1, <1>2 DEF OtherTypes, ReplayReset, RevokeAPIKeyEntry, ReplayCheck, Purge, rowVars
  <2> QED
    BY Zenon, <1>1, <2>1, <2>2 DEF AuditTypeOK, auditVars
<1>3. CASE RequestAuditId(a) \/ RequestAuditInsert(a) \/ AdminAbort(a)
  <2>1. AuditTypeOK'
    BY Zenon, <1>1, <1>3, AuditTypes DEF RequestAuditId, RequestAuditInsert, AdminAbort
  <2>2. OtherTypes'
    BY <1>1, <1>3 DEF OtherTypes, RequestAuditId, RequestAuditInsert, AdminAbort
  <2> QED
    BY Zenon, <2>1, <2>2
<1>4. ASSUME AuditCommit(a), req[a].step = "commit" PROVE AuditTypeOK'
  BY Zenon, <1>1, <1>4, AuditTypes DEF TInv, AInv, HolderInv
<1>5. CASE PurgeCommit(a)
  BY Zenon, <1>1, <1>4, <1>5 DEF OtherTypes, PurgeCommit
<1>6. CASE ReplayCommit(a)
  <2> DEFINE n == req[a].on
  <2>1. n \in Notifs
    BY <1>1, <1>6 DEF ReplayCommit, HoldsRow, RowType
  <2>2. /\ sendingAge' = [sendingAge EXCEPT ![n] = 0] /\ attemptCount' = [attemptCount EXCEPT ![n] = 0]
        /\ InsertOutbox(n) /\ replayed' = replayed \cup {n} /\ DeleteDeadLetter(a)
        /\ UNCHANGED <<deliveryAttempts, batch, owed, faults>>
    BY Zenon, <1>6 DEF ReplayCommit, SetStatus
  <2> HIDE DEF n
  <2>3. outbox' \in [OutboxIds -> OutboxRow]
    BY Zenon, <1>1, <2>1, <2>2, OutboxTypes DEF OtherTypes
  <2>4. 0 \in 0..AgeCap
    BY DEF AgeCap
  <2>5. deadLetters' \subseteq deadLetters /\ lateDead' \subseteq lateDead
    BY Zenon, <2>2 DEF DeleteDeadLetter
  <2>6. OtherTypes'
    BY Zenon, <1>1, <2>1, <2>2, <2>3, <2>4, <2>5 DEF OtherTypes
  <2> QED
    BY Zenon, <1>4, <1>6, <2>6 DEF ReplayCommit
<1> QED
  BY Zenon, <1>2, <1>3, <1>5, <1>6 DEF AdminStep

LEMMA TypeStep == TInv /\ [Next]_vars => ControlTypeOK'
<1> SUFFICES ASSUME TInv, [Next]_vars PROVE ControlTypeOK'
  OBVIOUS
<1>1. OtherTypes /\ RowType /\ AuditTypeOK
  BY TypeParts DEF TInv
<1>2. RowType'
  BY Zenon, ControlStep DEF TInv, CInv
<1>3. ASSUME UNCHANGED auditVars PROVE AuditTypeOK'
  BY Zenon, <1>1, <1>3 DEF AuditTypeOK, auditVars
<1>4. CASE UNCHANGED vars
  <2>1. OtherTypes'
    BY Zenon, <1>1, <1>4 DEF vars, storeVars, controlVars, historyVars, OtherTypes, FaultsTypeOK
  <2> QED
    BY Zenon, <1>2, <1>3, <1>4, <2>1, TypeParts DEF vars, ControlTypeOK, StoreTypeOK, OtherTypes, RowType
<1>5. CASE Next
  <2>1. OtherTypes' /\ AuditTypeOK'
    BY Zenon, <1>1, <1>3, <1>5, RowTypes, SchedulerTypes, AdminTypes DEF Next
  <2> QED
    BY Zenon, <1>2, <2>1 DEF ControlTypeOK, StoreTypeOK, OtherTypes, RowType
<1> QED
  BY <1>4, <1>5

(* No scheduler, cancel, replay, purge or audit transaction writes a        *)
(* status, row or hash its table does not allow (Control's ControlTypeOK).  *)
THEOREM ControlTypes == Spec => []ControlTypeOK
<1>1. Init => ControlTypeOK
  <2>1. CASE Init
    <3>1. RowType
      BY Zenon, <2>1, ControlInit DEF CInv
    <3>2. AuditTypeOK
      <4>1. 0 \in 0..MaxAudit /\ <<>> \in Seq(1..MaxAudit)
        BY AuditAssumption
      <4>2. NoRow \in [prev_hash : Hash, row_hash : Hash]
        BY Zenon, <4>1 DEF NoRow, Genesis, Hash
      <4>3. AuditInit
        BY Zenon, <2>1 DEF Init
      <4> QED
        BY Zenon, <4>1, <4>2, <4>3 DEF AuditInit, AuditTypeOK
    <3>3. FreeRow \in OutboxRow /\ 0 \in 0..AgeCap
      BY StoreAssumption DEF FreeRow, OutboxRow, AgeCap
    <3>4. OtherTypes
      BY <2>1, <3>3, FaultsAssumption DEF Init, StoreInit, OtherTypes, FaultsTypeOK, FaultsInit
    <3> QED
      BY <3>1, <3>2, <3>4, TypeParts
  <2> QED
    BY <2>1
<1>2. CInv => RowType
  BY DEF CInv
<1>3. Spec => []AInv
  BY <1>2, ChainInit, ChainStep, ControlAlways, PTL DEF Spec
<1>4. ControlTypeOK /\ CInv /\ AInv => TInv
  BY DEF TInv
<1> QED
  BY <1>1, <1>3, <1>4, TypeStep, ControlAlways, PTL DEF Spec
=============================================================================
