--------------------------- MODULE MCNotification --------------------------
(* Small instance of Notification for TLC. *)
EXTENDS NotificationProps
============================================================================
