-------------------------- MODULE MCNotifications --------------------------
(* Two processes that deliver notifications.                                 *)
EXTENDS Notifications
CONSTANTS p1, p2

ProcSet == {p1, p2}
=============================================================================
