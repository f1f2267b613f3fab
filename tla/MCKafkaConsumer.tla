-------------------------- MODULE MCKafkaConsumer --------------------------
(* Instances of KafkaConsumer for TLC. *)
EXTENDS KafkaConsumer

CONSTANTS p1, k1, k2, l1, l2

\* Messages 0 and 2 share the key k1; message 1 has the key k2 and its own lane.
MCKeyOf == [m \in Messages |-> IF m[2] = 1 THEN k2 ELSE k1]
MCLaneOfKey == [k \in Keys |-> IF k = k1 THEN l1 ELSE l2]
=============================================================================
