----------------------------- MODULE OutboxTable -----------------------------
(***************************************************************************)
(* The table of alarm events and the bus (insertOutbox and DrainOutbox of       *)
(* postgres/repository.go), and what the outbox promises about them.  Module     *)
(* Outbox has the steps.                                                    *)
(***************************************************************************)
EXTENDS Integers

VARIABLES
    rows,       \* number of events committed so far
    outbox,     \* event_outbox: events not deleted
    bus         \* history: events published

(* An event that was committed with its alarm is on the bus or still in the     *)
(* outbox, whatever relays run side by side, fail to publish, fail to commit or  *)
(* exit: none is deleted unpublished.                                        *)
EventNeverLost == 1..rows \subseteq outbox \cup bus

=============================================================================
