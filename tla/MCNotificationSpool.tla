------------------------ MODULE MCNotificationSpool ------------------------
(* Small instance of NotificationSpool for TLC. *)
EXTENDS NotificationSpool
============================================================================
