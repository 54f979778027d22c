--------------------------- MODULE MCNotifications ---------------------------
(* Instances of Notifications for TLC. *)
EXTENDS Notifications

TwoItems == 1..2
OneDelay == <<1>>
=============================================================================
