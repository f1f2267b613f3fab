-------------------------- MODULE ExclusiveSession --------------------------
(***************************************************************************)
(* What an execution coordinator promises: sessions of one resource follow  *)
(* each other and never overlap, and a session of another process than the  *)
(* last one runs under a larger epoch, so that whatever a late session      *)
(* still does can be told from its successor's work.                        *)
(***************************************************************************)
EXTENDS Integers

CONSTANTS Procs, NoProc

VARIABLES
    active,   \* the processes whose session is running
    holder,   \* the process of the last session
    epoch     \* its epoch

Init == active = {} /\ holder = NoProc /\ epoch = 0

Start(p) ==
    /\ active = {}
    /\ active' = {p}
    /\ holder' = p
    /\ epoch' \in Nat
    /\ epoch' >= epoch
    /\ (p # holder) => (epoch' > epoch)

Stop(p) ==
    /\ active = {p}
    /\ active' = {}
    /\ UNCHANGED <<holder, epoch>>

Next == \E p \in Procs : Start(p) \/ Stop(p)

Spec == Init /\ [][Next]_<<active, holder, epoch>>
=============================================================================
