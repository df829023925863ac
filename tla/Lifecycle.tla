------------------------------ MODULE Lifecycle ------------------------------
(***************************************************************************)
(* What the delivery path promises of one notification, with no worker,    *)
(* queue, lock or clock in sight: the edges its status may take, when its  *)
(* attempt counter moves, and when the provider may be contacted.  The     *)
(* detailed specification Delivery is shown to implement this one.         *)
(***************************************************************************)
EXTENDS Naturals, Notification

VARIABLES status, attemptCount, calls

lifecycleVars == <<status, attemptCount, calls>>

LInit ==
  /\ status = [n \in Notifs |-> "absent"]
  /\ attemptCount = [n \in Notifs |-> 0]
  /\ calls = [n \in Notifs |-> 0]

(* Edges that leave the attempt counter alone.  'sent' has no way out; a    *)
(* cancelled or dead-lettered notification never becomes live again.        *)
Edges ==
  {<<"absent", "pending">>, <<"pending", "queued">>,
   <<"pending", "sending">>, <<"queued", "sending">>,
   <<"sending", "queued">>, <<"sending", "sent">>,
   <<"pending", "cancelled">>, <<"queued", "cancelled">>,
   <<"pending", "dead_letter">>, <<"queued", "dead_letter">>,
   <<"sending", "dead_letter">>, <<"cancelled", "dead_letter">>}

Stays(n) == status'[n] = status[n] /\ attemptCount'[n] = attemptCount[n]

Moves(n) == <<status[n], status'[n]>> \in Edges /\ attemptCount'[n] = attemptCount[n]

(* A failed or abandoned attempt goes back to the queue and is counted. *)
CountsAttempt(n) ==
  /\ status[n] = "sending" /\ status'[n] = "queued"
  /\ attemptCount'[n] = attemptCount[n] + 1

(* Several rows may move at once (one sweep reclaims all stuck rows). *)
RowsMove ==
  /\ status' \in [Notifs -> Statuses]
  /\ attemptCount' \in [Notifs -> Nat]
  /\ \A n \in Notifs : Stays(n) \/ Moves(n) \/ CountsAttempt(n)
  /\ UNCHANGED calls

(* The provider is contacted for a row a worker has taken, never for one    *)
(* that was cancelled or sent, and every earlier contact has been counted.  *)
Contact(n) ==
  /\ status[n] \in {"sending", "dead_letter"}
  /\ calls[n] <= attemptCount[n]
  /\ calls' = [calls EXCEPT ![n] = @ + 1]
  /\ UNCHANGED <<status, attemptCount>>

LNext == RowsMove \/ \E n \in Notifs : Contact(n)

LSpec == LInit /\ [][LNext]_lifecycleVars
=============================================================================
