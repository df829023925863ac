-------------------------------- MODULE Store --------------------------------
(***************************************************************************)
(* The Postgres tables the delivery path shares, and the queries of        *)
(* internal/store/queries that change them.  Each query is one statement,  *)
(* so one atomic step.  A query with a WHERE status guard either matches   *)
(* the row or leaves the table alone; a :one query that matches nothing    *)
(* returns pgx.ErrNoRows, which its caller sees as the guard being false.  *)
(*                                                                         *)
(* Columns are kept as one function per column.  updated_at is abstracted  *)
(* to the time a row has spent in 'sending', the only way it is read       *)
(* (SweepStuckSending).  Content, recipient, channel and priority do not   *)
(* steer any of these queries and are left out.                            *)
(***************************************************************************)
EXTENDS Naturals, FiniteSets, Notification

CONSTANTS MaxOutbox,    \* bound on the number of outbox rows ever inserted
          StuckAfter    \* sweeper.Config.StuckAfter, in ticks

ASSUME StoreAssumption == /\ MaxOutbox \in Nat
                          /\ StuckAfter \in Nat

VARIABLES
  status,            \* notifications.status; "absent" before the INSERT
  attemptCount,      \* notifications.attempt_count
  sendingAge,        \* now() - updated_at of a 'sending' row, 0 for others
  deliveryAttempts,  \* delivery_attempts: the attempt numbers recorded
  deadLetters,       \* dead_letters: the notifications that have a row
  outbox             \* outbox rows by id

rowVars   == <<status, attemptCount, sendingAge>>
storeVars == <<status, attemptCount, sendingAge, deliveryAttempts, deadLetters, outbox>>

OutboxIds == 1..MaxOutbox

OutboxRow == [notif : Notifs \cup {None}, published : BOOLEAN,
              claimed : BOOLEAN, attempts : Nat]

FreeRow == [notif |-> None, published |-> FALSE, claimed |-> FALSE, attempts |-> 0]

(* Ages saturate one tick past the sweeper's threshold: older is the same. *)
AgeCap == StuckAfter + 1

StoreTypeOK ==
  /\ status \in [Notifs -> Statuses]
  /\ attemptCount \in [Notifs -> Nat]
  /\ sendingAge \in [Notifs -> 0..AgeCap]
  /\ deliveryAttempts \in [Notifs -> SUBSET Nat]
  /\ deadLetters \subseteq Notifs
  /\ outbox \in [OutboxIds -> OutboxRow]

StoreInit ==
  /\ status = [n \in Notifs |-> "absent"]
  /\ attemptCount = [n \in Notifs |-> 0]
  /\ sendingAge = [n \in Notifs |-> 0]
  /\ deliveryAttempts = [n \in Notifs |-> {}]
  /\ deadLetters = {}
  /\ outbox = [i \in OutboxIds |-> FreeRow]

-----------------------------------------------------------------------------
(* notifications *)

(* Every UPDATE of the status also sets updated_at = now(). *)
SetStatus(n, s) ==
  /\ status' = [status EXCEPT ![n] = s]
  /\ sendingAge' = [sendingAge EXCEPT ![n] = 0]

(* Accepted and not settled yet. *)
Live(n) == status[n] \in {"pending", "queued", "sending"}

(* The WHERE clauses. *)
Pickable(n)    == status[n] \in {"pending", "queued"}
Cancellable(n) == status[n] \in {"pending", "queued", "scheduled"}
IsSending(n)   == status[n] = "sending"

(* UPDATE ... RETURNING, enabled when a row matches. *)
MarkSendingCAS(n) ==
  /\ Pickable(n)
  /\ SetStatus(n, "sending")
  /\ UNCHANGED attemptCount

MarkSent(n) ==
  /\ IsSending(n)
  /\ SetStatus(n, "sent")
  /\ UNCHANGED attemptCount

CancelPendingOrQueued(n) ==
  /\ Cancellable(n)
  /\ SetStatus(n, "cancelled")
  /\ UNCHANGED attemptCount

(* :exec queries and best-effort calls: when no row matches nothing changes *)
(* and the caller does not notice.                                          *)
MarkQueued(n) ==
  IF status[n] = "pending"
  THEN SetStatus(n, "queued") /\ UNCHANGED attemptCount
  ELSE UNCHANGED rowVars

RevertToQueuedNoAttempt(n) ==
  IF IsSending(n)
  THEN SetStatus(n, "queued") /\ UNCHANGED attemptCount
  ELSE UNCHANGED rowVars

RevertToQueued(n) ==
  IF IsSending(n)
  THEN /\ SetStatus(n, "queued")
       /\ attemptCount' = [attemptCount EXCEPT ![n] = @ + 1]
  ELSE UNCHANGED rowVars

(* Mutation of MarkDeadLetter: the table without its CHECK on sent_at. *)
MarkDeadLetterUnchecked(n) == SetStatus(n, "dead_letter") /\ UNCHANGED attemptCount

(* No status guard.  On a 'sent' row the CHECK that sent_at is set exactly   *)
(* when the status is 'sent' rejects the UPDATE; every other row is taken.   *)
MarkDeadLetter(n) ==
  IF status[n] # "sent"
  THEN SetStatus(n, "dead_letter") /\ UNCHANGED attemptCount
  ELSE UNCHANGED rowVars

SendingRows  == {n \in Notifs : IsSending(n)}
StuckSending == {n \in SendingRows : sendingAge[n] > StuckAfter}

SweepStuckSending ==
  /\ status' = [n \in Notifs |-> IF n \in StuckSending THEN "queued" ELSE status[n]]
  /\ attemptCount' = [n \in Notifs |-> IF n \in StuckSending THEN attemptCount[n] + 1
                                                             ELSE attemptCount[n]]
  /\ sendingAge' = [n \in Notifs |-> IF n \in StuckSending THEN 0 ELSE sendingAge[n]]

(* One tick of Postgres's clock. *)
AgeSendingRows ==
  sendingAge' = [n \in Notifs |-> IF IsSending(n) /\ sendingAge[n] < AgeCap
                                  THEN sendingAge[n] + 1 ELSE sendingAge[n]]

-----------------------------------------------------------------------------
(* delivery_attempts: UNIQUE (notification_id, attempt_number) rejects a    *)
(* second row with the same number, and the caller only logs it.            *)
InsertDeliveryAttempt(n, k) ==
  deliveryAttempts' = [deliveryAttempts EXCEPT ![n] = @ \cup {k}]

(* dead_letters: ON CONFLICT (notification_id) DO NOTHING. *)
InsertDeadLetter(n) == deadLetters' = deadLetters \cup {n}

-----------------------------------------------------------------------------
(* outbox *)

FreeIds == {i \in OutboxIds : outbox[i].notif = None}

(* Ids are handed out in insertion order, which is created_at order. *)
InsertOutbox(n) ==
  \E i \in FreeIds :
    /\ \A j \in FreeIds : i <= j
    /\ outbox' = [outbox EXCEPT ![i] = [FreeRow EXCEPT !.notif = n]]

(* Mutation of InsertOutboxAll: the sweep forgets the outbox rows. *)
SweepWithoutOutbox(S) == UNCHANGED outbox

(* One new row for each notification in S (one INSERT each, same TX). *)
InsertOutboxAll(S) ==
  \E new \in [S -> FreeIds] :
    /\ \A m, n \in S : m # n => new[m] # new[n]
    /\ \A i \in FreeIds : i \notin {new[n] : n \in S} => \A n \in S : new[n] < i
    /\ outbox' = [i \in OutboxIds |->
                    IF \E n \in S : new[n] = i
                    THEN [FreeRow EXCEPT !.notif = CHOOSE n \in S : new[n] = i]
                    ELSE outbox[i]]

(* Claim and attempt count of a published row are never read again and are  *)
(* dropped.                                                                 *)
MarkOutboxPublished(i) ==
  outbox' = [outbox EXCEPT ![i] = [FreeRow EXCEPT !.notif = outbox[i].notif,
                                                  !.published = TRUE]]

(* attempt_count + 1, claim cleared. *)
MarkOutboxFailed(i) ==
  IF outbox[i].published
  THEN UNCHANGED outbox
  ELSE outbox' = [outbox EXCEPT ![i] = [FreeRow EXCEPT !.notif = outbox[i].notif,
                                                       !.attempts = outbox[i].attempts + 1]]

Unpublished == {i \in OutboxIds : outbox[i].notif # None /\ ~outbox[i].published}
=============================================================================
