---------------------------- MODULE Notification ----------------------------
(***************************************************************************)
(* The domain type every component shares (internal/notification): the     *)
(* notification ids and the statuses of the lifecycle.                     *)
(***************************************************************************)
CONSTANTS Notifs,   \* notification ids
          None      \* "no notification"

ASSUME NotificationAssumption == None \notin Notifs

(* The CHECK of the status column, and "absent" for a row not inserted yet. *)
Statuses == {"absent", "pending", "queued", "sending", "sent", "failed",
             "cancelled", "dead_letter", "scheduled"}
=============================================================================
