------------------------------ MODULE MCReplay ------------------------------
(* One replay, which has to page through a moving archive.                     *)
EXTENDS Replay
CONSTANTS r1, tenant

RequestSet == {r1}
SameTenant == [r \in RequestSet |-> tenant]
=============================================================================
