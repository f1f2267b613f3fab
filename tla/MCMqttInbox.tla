---------------------------- MODULE MCMqttInbox ----------------------------
(* Instances of MqttInbox for TLC. *)
EXTENDS MqttInbox

CONSTANTS a, b, c, x

\* b is a device of a capacity test: a cleanup may discard it, a and c are real ones.
MCFixtures == {b}

\* x is a publication the receiver does not take.
MCRefused == {x}

=============================================================================
