--------------------------- MODULE MCNotification ---------------------------
(* Instances of Notification for TLC; the event types are those of events.go. *)
EXTENDS Notification
=============================================================================
