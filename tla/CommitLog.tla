----------------------------- MODULE CommitLog -----------------------------
(***************************************************************************)
(* What a consumer group promises about one topic, whatever it does inside: *)
(* messages become settled (handled, or moved to the dead-letter topic) in  *)
(* any order, and a partition's committed offset lies behind messages that  *)
(* are all settled.  Everything from the committed offset on is fetched     *)
(* again after a crash, so nothing is ever skipped.  The offset only moves  *)
(* forward while one member reads the partition; once a second one has read *)
(* it, a late commit may also move it back, which delivers settled messages *)
(* again and skips none.                                                    *)
(***************************************************************************)
EXTENDS Integers

CONSTANTS Partitions,  \* the partitions of the topic
          LogLen       \* messages 0 .. LogLen-1 exist in each partition

VARIABLES settled,     \* the messages <<partition, offset>> settled so far
          group,       \* group[p]: first offset the broker would deliver again
          shared       \* the partitions a second member has read

Messages == Partitions \X (0 .. LogLen - 1)

Init ==
    /\ settled = {}
    /\ group = [p \in Partitions |-> 0]
    /\ shared = {}

\* A message that was settled before may be settled again: it was redelivered.
Settle(m) ==
    /\ settled' = settled \cup {m}
    /\ UNCHANGED <<group, shared>>

\* One commit request moves any number of partitions.
Commit ==
    /\ group' \in [Partitions -> 0 .. LogLen]
    /\ \A p \in Partitions :
          /\ p \in shared \/ group[p] <= group'[p]
          /\ \A o \in 0 .. LogLen - 1 : o < group'[p] => <<p, o>> \in settled
    /\ UNCHANGED <<settled, shared>>

\* A second member begins to read the partition.
Share(p) ==
    /\ shared' = shared \cup {p}
    /\ UNCHANGED <<settled, group>>

Next ==
    \/ Commit
    \/ \E m \in Messages : Settle(m)
    \/ \E p \in Partitions : Share(p)

Spec == Init /\ [][Next]_<<settled, group, shared>>
=============================================================================
