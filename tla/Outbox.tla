------------------------------- MODULE Outbox -------------------------------
(***************************************************************************)
(* The transactional outbox of alarm events (core/outbox.go, insertOutbox     *)
(* and DrainOutbox of postgres/repository.go).  A message handler commits an   *)
(* alarm together with its event and flushes the outbox; a relay in every      *)
(* process flushes it on a ticker and when it is woken.  One flush runs at a    *)
(* time in a process; the transactions of different processes skip each        *)
(* other's rows.                                                            *)
(***************************************************************************)
EXTENDS OutboxTable, FiniteSets, FiniteSetsExt

CONSTANTS
    Procs,       \* processes
    BatchSize,   \* outboxBatch
    MaxRows,     \* bound on events
    MaxFaults    \* bound on failed publications and commits and process exits

ASSUME OutboxAssumption ==
    BatchSize \in Nat \ {0} /\ MaxRows \in Nat /\ MaxFaults \in Nat

Flushers == {"relay", "handler"}

VARIABLES
    at,         \* at[p][f]: "idle", "flush" (about to TryLock) or "drain"
    holder,     \* who holds outboxMu
    wake,       \* whether outboxWake holds a wake-up
    locked,     \* rows locked by the process's transaction
    sent,       \* rows published in it
    faults

process == <<at, holder, wake, locked, sent>>
vars == <<rows, outbox, bus, process, faults>>

Init ==
    /\ rows = 0 /\ outbox = {} /\ bus = {}
    /\ at = [p \in Procs |-> [f \in Flushers |-> IF f = "relay" THEN "flush" ELSE "idle"]]
    /\ holder = [p \in Procs |-> "none"]
    /\ wake = [p \in Procs |-> FALSE]
    /\ locked = [p \in Procs |-> {}]
    /\ sent = [p \in Procs |-> {}]
    /\ faults = 0

Fault == faults < MaxFaults /\ faults' = faults + 1

(* UpsertAlarm commits the alarm and insertOutbox its event; flushOutbox        *)
(* follows.                                                                 *)
Report(p) ==
    /\ at[p]["handler"] = "idle" /\ rows < MaxRows
    /\ rows' = rows + 1
    /\ outbox' = outbox \cup {rows + 1}
    /\ at' = [at EXCEPT ![p]["handler"] = "flush"]
    /\ UNCHANGED <<bus, holder, wake, locked, sent, faults>>

(***************************************************************************)
(* flushOutbox.                                                             *)
(***************************************************************************)
Enter_NoWake(p, f) ==
    /\ at[p][f] = "flush"
    /\ \/ /\ holder[p] = "none"
          /\ holder' = [holder EXCEPT ![p] = f]
          /\ at' = [at EXCEPT ![p][f] = "drain"]
       \/ /\ holder[p] # "none"
          /\ at' = [at EXCEPT ![p][f] = "idle"]
          /\ UNCHANGED holder
    /\ UNCHANGED <<rows, outbox, bus, wake, locked, sent, faults>>

(* TryLock, or leave a wake-up for the relay.                                 *)
Enter(p, f) ==
    /\ at[p][f] = "flush"
    /\ \/ /\ holder[p] = "none"
          /\ holder' = [holder EXCEPT ![p] = f]
          /\ at' = [at EXCEPT ![p][f] = "drain"]
          /\ UNCHANGED wake
       \/ /\ holder[p] # "none"
          /\ wake' = [wake EXCEPT ![p] = TRUE]
          /\ at' = [at EXCEPT ![p][f] = "idle"]
          /\ UNCHANGED holder
    /\ UNCHANGED <<rows, outbox, bus, locked, sent, faults>>

Leave(p) ==
    /\ at' = [at EXCEPT ![p][holder[p]] = "idle"]
    /\ holder' = [holder EXCEPT ![p] = "none"]

(***************************************************************************)
(* DrainOutbox: ORDER BY seq LIMIT ... FOR UPDATE SKIP LOCKED; publish row by   *)
(* row up to the first failure; delete what was published and commit.         *)
(***************************************************************************)
Free == outbox \ UNION {locked[p] : p \in Procs}

First(S, n) == {r \in S : Cardinality({q \in S : q < r}) < n}

Select(p) ==
    /\ holder[p] # "none" /\ at[p][holder[p]] = "drain" /\ locked[p] = {}
    /\ \/ /\ Free # {}
          /\ locked' = [locked EXCEPT ![p] = First(Free, BatchSize)]
          /\ UNCHANGED <<at, holder>>
       \/ /\ Free = {}
          /\ Leave(p) /\ UNCHANGED locked
    /\ UNCHANGED <<rows, outbox, bus, wake, sent, faults>>

Unsent(p) == locked[p] \ sent[p]

Publish(p) ==
    /\ Unsent(p) # {}
    /\ bus' = bus \cup {Min(Unsent(p))}
    /\ sent' = [sent EXCEPT ![p] = @ \cup {Min(Unsent(p))}]
    /\ UNCHANGED <<rows, outbox, at, holder, wake, locked, faults>>

EndTransaction(p) ==
    /\ locked' = [locked EXCEPT ![p] = {}]
    /\ sent' = [sent EXCEPT ![p] = {}]

(* A full batch makes flushOutbox drain again.                               *)
Commit(p) ==
    /\ locked[p] # {} /\ Unsent(p) = {}
    /\ outbox' = outbox \ sent[p]
    /\ EndTransaction(p)
    /\ IF Cardinality(sent[p]) < BatchSize THEN Leave(p) ELSE UNCHANGED <<at, holder>>
    /\ UNCHANGED <<rows, bus, wake, faults>>

PublishFails_AllDeleted(p) ==
    /\ Unsent(p) # {} /\ Fault
    /\ outbox' = outbox \ locked[p]
    /\ EndTransaction(p)
    /\ Leave(p)
    /\ UNCHANGED <<rows, bus, wake>>

(* A publication fails: what was published before it is deleted.  The event     *)
(* may have reached the broker all the same.                                 *)
PublishFails(p) ==
    /\ Unsent(p) # {} /\ Fault
    /\ outbox' = outbox \ sent[p]
    /\ EndTransaction(p)
    /\ Leave(p)
    /\ bus' \in {bus, bus \cup {Min(Unsent(p))}}
    /\ UNCHANGED <<rows, wake>>

(* The transaction fails: nothing is deleted.                                *)
CommitFails(p) ==
    /\ locked[p] # {} /\ Unsent(p) = {} /\ Fault
    /\ EndTransaction(p)
    /\ Leave(p)
    /\ UNCHANGED <<rows, outbox, bus, wake>>

(***************************************************************************)
(* relayOutbox waits for its ticker or a wake-up.                             *)
(***************************************************************************)
Tick(p) ==
    /\ at[p]["relay"] = "idle"
    /\ at' = [at EXCEPT ![p]["relay"] = "flush"]
    /\ UNCHANGED <<rows, outbox, bus, holder, wake, locked, sent, faults>>

Woken(p) ==
    /\ at[p]["relay"] = "idle" /\ wake[p]
    /\ wake' = [wake EXCEPT ![p] = FALSE]
    /\ at' = [at EXCEPT ![p]["relay"] = "flush"]
    /\ UNCHANGED <<rows, outbox, bus, holder, locked, sent, faults>>

(* The process exits, its transaction is rolled back, and it starts again.      *)
Crash(p) ==
    /\ Fault
    /\ at' = [at EXCEPT ![p] = [f \in Flushers |-> IF f = "relay" THEN "flush" ELSE "idle"]]
    /\ holder' = [holder EXCEPT ![p] = "none"]
    /\ wake' = [wake EXCEPT ![p] = FALSE]
    /\ EndTransaction(p)
    /\ UNCHANGED <<rows, outbox, bus>>

Drain(p) == Select(p) \/ Publish(p) \/ Commit(p)

Next ==
    \E p \in Procs :
        \/ Report(p) \/ Drain(p)
        \/ \E f \in Flushers : Enter(p, f)
        \/ PublishFails(p) \/ CommitFails(p)
        \/ Tick(p) \/ Woken(p) \/ Crash(p)

Spec == Init /\ [][Next]_vars

(* Goroutines run on; the ticker is not among the assumptions.                 *)
FairSpec ==
    /\ Spec
    /\ \A p \in Procs :
        /\ WF_vars(Drain(p)) /\ WF_vars(Woken(p))
        /\ \A f \in Flushers : WF_vars(Enter(p, f))

(***************************************************************************)
(* Properties.                                                              *)
(***************************************************************************)
(* Every variable has its type; the flusher that drains is the one that holds    *)
(* the lock, a transaction is open only under the lock, and the transactions     *)
(* of two processes lock disjoint rows, which the outbox still has.            *)
OutboxTypeOK ==
    /\ rows \in 0..MaxRows /\ outbox \subseteq 1..rows /\ bus \subseteq 1..rows
    /\ at \in [Procs -> [Flushers -> {"idle", "flush", "drain"}]]
    /\ holder \in [Procs -> Flushers \cup {"none"}]
    /\ wake \in [Procs -> BOOLEAN]
    /\ faults \in 0..MaxFaults
    /\ \A p \in Procs : /\ \A f \in Flushers : at[p][f] = "drain" <=> holder[p] = f
                        /\ holder[p] = "none" => locked[p] = {}
                        /\ sent[p] \subseteq locked[p] /\ locked[p] \subseteq outbox
                        /\ \A q \in Procs \ {p} : locked[p] \cap locked[q] = {}

(* "When a drain is already running, the wake-up makes the relay run again       *)
(* after it" (outbox.go): as long as nothing fails, every event is published     *)
(* although the ticker may never fire, also one that is committed after the      *)
(* running drain has read the outbox.                                        *)
WakeUpSuffices ==
    [](faults = 0) => \A r \in 1..MaxRows : (r \in outbox) ~> (r \in bus)

=============================================================================
