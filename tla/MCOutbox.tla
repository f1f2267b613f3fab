------------------------------ MODULE MCOutbox ------------------------------
(* Two processes, each with a handler and a relay.                           *)
EXTENDS Outbox
CONSTANTS p1, p2

ProcSet == {p1, p2}
=============================================================================
