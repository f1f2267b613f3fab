--------------------------- MODULE MCCoordinator ---------------------------
(* Instance of Coordinator for TLC.                                          *)
EXTENDS Coordinator

CONSTANTS p1, p2
=============================================================================
