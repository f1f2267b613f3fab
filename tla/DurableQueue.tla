---------------------------- MODULE DurableQueue ----------------------------
(***************************************************************************)
(* internal/durablequeue: a directory of files used as a durable queue.     *)
(* An entry is one file, named by the digest of its identity: <id>.json     *)
(* while it waits, renamed to .rejected or .corrupt when it is set aside.   *)
(* Every operation runs under q.mu, so each is one action; what can come    *)
(* between its parts is a failing directory flush (argument ok) or a crash. *)
(*                                                                          *)
(* A rename or a removal is visible at once but survives a power loss only  *)
(* after the directory was flushed: maybe[i] holds every state entry i may  *)
(* be found in after a crash; changes of one entry reach the disk in their  *)
(* order.  All entries have size one, so the byte limit and the item limit  *)
(* are the same bound MaxItems.                                             *)
(***************************************************************************)
EXTENDS Integers, Sequences, SequencesExt, FiniteSets, FiniteSetsExt

CONSTANTS Ids,       \* identities: content digests, equal ids are equal bytes
          MaxItems,  \* capacity of the queue
          MaxErrors  \* bound on failing flushes, writes, lost acks, crashes, decay

ASSUME QueueAssumption ==
    /\ IsFiniteSet(Ids)
    /\ MaxItems \in Nat \ {0}
    /\ MaxErrors \in Nat

VARIABLES
    open,     \* the queue is open (the process runs and holds the lock)
    dir,      \* dir[i]: the suffixes under which a file of i exists
    maybe,    \* maybe[i]: the values of dir[i] a crash may leave
    bad,      \* ids whose file content became unreadable
    written,  \* <<i, j>>: the file of i was last written before that of j
    order,    \* q.order: reception order, with settled names dropped lazily
    active,   \* q.active
    items,    \* q.items
    errors

disk   == <<dir, maybe, bad, written>>
memory == <<order, active, items>>
qvars  == <<open, disk, memory, errors>>

Kinds == {"json", "rejected", "corrupt"}

QueueInit ==
    /\ open = FALSE
    /\ dir = [i \in Ids |-> {}]
    /\ maybe = [i \in Ids |-> {{}}]
    /\ bad = {}
    /\ written = {}
    /\ order = <<>>
    /\ active = {}
    /\ items = 0
    /\ errors = 0

Err == errors < MaxErrors /\ errors' = errors + 1

\* Counted: nothing fails when ok, and one error of the budget is used when not.
Outcome(ok) == IF ok THEN UNCHANGED errors ELSE Err

(***************************************************************************)
(* The directory becomes d and is flushed; syncDirectory fails when not ok. *)
(***************************************************************************)
Flush(d, ok) ==
    /\ dir' = d
    /\ maybe' = [i \in Ids |-> IF ok THEN {d[i]} ELSE maybe[i] \cup {d[i]}]
    /\ Outcome(ok)

\* enqueue appends a name only if it is not active already.
enqueue(i) ==
    /\ active' = active \cup {i}
    /\ order' = IF i \in active THEN order ELSE Append(order, i)

\* The file of i becomes the one that was written last.
writeFile(i) ==
    written' = {e \in written : i \notin {e[1], e[2]}} \cup {<<j, i>> : j \in Ids \ {i}}

Entries(d) == {e \in Ids \X Kinds : e[2] \in d[e[1]]}

----------------------------------------------------------------------------
(* put *)

\* The corrupt quarantine is not looked at.
Quarantined_RejectedOnly(i) == "rejected" \in dir[i]

\* A file set aside, or one whose bytes cannot be read, refuses its identity.
Quarantined(i) == dir[i] \cap {"rejected", "corrupt"} # {} \/ i \in bad

\* "Retrying the receipt must complete that flush before success."
PutSame(i, ok) ==
    /\ open /\ ~Quarantined(i) /\ "json" \in dir[i]
    /\ Flush(dir, ok)
    /\ UNCHANGED <<open, bad, written, memory>>

\* A write whose flush failed is forgotten, though its file exists.
PutNew_NotAccounted(i, ok) ==
    /\ open /\ ~Quarantined(i) /\ "json" \notin dir[i] /\ items < MaxItems
    /\ Flush([dir EXCEPT ![i] = @ \cup {"json"}], ok)
    /\ writeFile(i)
    /\ IF ok THEN items' = items + 1 /\ enqueue(i) ELSE UNCHANGED memory
    /\ UNCHANGED <<open, bad>>

\* The file is renamed into place: it counts and is served even if the flush
\* failed, although put then returns the error.
PutNew(i, ok) ==
    /\ open /\ ~Quarantined(i) /\ "json" \notin dir[i] /\ items < MaxItems
    /\ Flush([dir EXCEPT ![i] = @ \cup {"json"}], ok)
    /\ writeFile(i)
    /\ items' = items + 1
    /\ enqueue(i)
    /\ UNCHANGED <<open, bad>>

\* put returns an error and changes nothing: quarantined, full, or the temporary
\* file could not be written.
PutRefused(i) ==
    /\ open
    /\ \/ Quarantined(i) /\ UNCHANGED errors
       \/ /\ ~Quarantined(i) /\ "json" \notin dir[i]
          /\ IF items >= MaxItems THEN UNCHANGED errors ELSE Err
    /\ UNCHANGED <<open, disk, memory>>

----------------------------------------------------------------------------
(* Next, Ack, Reject *)

\* k is the position of the first active name: head drops those before it.
HeadAt(k) == /\ k \in DOMAIN order
             /\ order[k] \in active
             /\ \A j \in 1 .. k - 1 : order[j] \notin active

\* Next returns the entry at position k.
NextServe(k) ==
    /\ open /\ HeadAt(k) /\ order[k] \notin bad
    /\ order' = SubSeq(order, k, Len(order))
    /\ UNCHANGED <<open, disk, active, items, errors>>

\* Next finds the head unreadable: it is kept under .corrupt.
NextCorrupt(k, ok) ==
    /\ open /\ HeadAt(k) /\ order[k] \in bad
    /\ Flush([dir EXCEPT ![order[k]] = (@ \ {"json"}) \cup {"corrupt"}], ok)
    /\ active' = active \ {order[k]}
    /\ order' = SubSeq(order, k, Len(order))
    /\ UNCHANGED <<open, bad, written, items>>

NextEmpty ==
    /\ open /\ order # <<>> /\ \A k \in DOMAIN order : order[k] \notin active
    /\ order' = <<>>
    /\ UNCHANGED <<open, disk, active, items, errors>>

Ack(i, ok) ==
    /\ open
    /\ \/ /\ "json" \in dir[i]
          /\ Flush([dir EXCEPT ![i] = @ \ {"json"}], ok)
          /\ active' = active \ {i}
          /\ items' = items - 1
          /\ bad' = bad \ {i}
          /\ UNCHANGED <<open, written, order>>
       \/ "json" \notin dir[i] /\ ok /\ UNCHANGED qvars

\* The file keeps its capacity; a rename that finds no file is an error.
Reject(i, ok) ==
    /\ open
    /\ \/ /\ "json" \in dir[i]
          /\ Flush([dir EXCEPT ![i] = (@ \ {"json"}) \cup {"rejected"}], ok)
          /\ active' = active \ {i}
          /\ UNCHANGED <<open, bad, written, order, items>>
       \/ "json" \notin dir[i] /\ ~ok /\ UNCHANGED qvars

----------------------------------------------------------------------------
(* Operator actions *)

\* The directory after the rejected files of R are renamed back.
Moved(R) == [i \in Ids |-> IF i \in R THEN (dir[i] \ {"rejected"}) \cup {"json"}
                                       ELSE dir[i]]

\* Requeued files are not put back in the reception order.
RetryRejected_NoEnqueue(R, ok) ==
    LET rejected == {i \in Ids : "rejected" \in dir[i]}
    IN  /\ open /\ R \subseteq rejected /\ R # {} /\ (ok => R = rejected)
        /\ \A i \in R : "json" \notin dir[i]
        /\ Flush(Moved(R), ok)
        /\ UNCHANGED <<open, bad, written, items, active, order>>

\* Every rejected file becomes active again, at the end of the reception order
\* (in directory order, which follows the digests); its write time is kept.  A
\* failing rename stops the loop after some of them, and nothing is flushed.
RetryRejected(R, ok) ==
    LET rejected == {i \in Ids : "rejected" \in dir[i]}
    IN  /\ open /\ R \subseteq rejected /\ R # {} /\ (ok => R = rejected)
        /\ \A i \in R : "json" \notin dir[i]
        /\ Flush(Moved(R), ok)
        /\ active' = active \cup R
        /\ \E s \in SetToSeqs(R) : order' = order \o s
        /\ UNCHANGED <<open, bad, written, items>>

\* Files of the matching ids are removed one by one, each removal flushed before
\* the next.  An error leaves a part of them (D) removed, of which only the last
\* one may not be flushed.  Unreadable files are kept.
DiscardMatching(match, D, last, ok) ==
    LET gone  == {i \in match : dir[i] # {} /\ i \notin bad}
        d     == [i \in Ids |-> IF i \in D THEN {} ELSE dir[i]]
        prior == [i \in Ids |-> IF i = last THEN dir[i] ELSE d[i]]
    IN  /\ open /\ D \subseteq gone /\ last \in D /\ (ok => D = gone)
        /\ dir' = d
        /\ maybe' = [i \in Ids |-> IF ok THEN {d[i]}
                                ELSE IF D = {last} THEN maybe[i] \cup {d[i]}
                                ELSE {prior[i], d[i]}]
        /\ Outcome(ok)
        /\ active' = active \ D
        /\ items' = items - Cardinality({e \in Entries(dir) : e[1] \in D})
        /\ UNCHANGED <<open, bad, written, order>>

----------------------------------------------------------------------------
(* Faults and recovery *)

\* The content of a waiting file becomes unreadable.
Decay(i) ==
    /\ "json" \in dir[i] /\ i \notin bad
    /\ Err
    /\ bad' = bad \cup {i}
    /\ UNCHANGED <<open, dir, maybe, written, memory>>

\* Every entry is found in one of the states it may have reached the disk in; a
\* process exit without power loss is the case in which all are found as they were.
QueueCrash ==
    /\ open /\ Err
    /\ open' = FALSE
    /\ dir' \in [Ids -> UNION {maybe[i] : i \in Ids}]
    /\ \A i \in Ids : dir'[i] \in maybe[i]
    /\ maybe' = [i \in Ids |-> {dir'[i]}]
    /\ bad' = {i \in bad : dir'[i] # {}}
    /\ order' = <<>> /\ active' = {} /\ items' = 0
    /\ UNCHANGED written

\* Files are ordered by their write time; every kind uses capacity.
OpenQueue ==
    /\ ~open
    /\ open' = TRUE
    /\ \E s \in SetToSeqs({i \in Ids : "json" \in dir[i]}) :
          /\ \A j, k \in DOMAIN s : j < k => <<s[j], s[k]>> \in written
          /\ order' = s
    /\ active' = {i \in Ids : "json" \in dir[i]}
    /\ items' = Cardinality(Entries(dir))
    /\ UNCHANGED <<disk, errors>>

----------------------------------------------------------------------------
(* Properties *)

\* Type invariant of the directory and the queue's memory.
QueueTypeOK ==
    /\ open \in BOOLEAN
    /\ dir \in [Ids -> SUBSET Kinds]
    /\ maybe \in [Ids -> SUBSET SUBSET Kinds]
    /\ bad \subseteq Ids
    /\ written \subseteq Ids \X Ids /\ order \in Seq(Ids)
    /\ active \subseteq Ids
    /\ items \in Nat
    /\ errors \in 0 .. MaxErrors

\* The capacity counter equals the files that use capacity, after failed flushes,
\* quarantines, cleanups and restarts: a drift would refuse or over-accept receipts
\* until the next restart.
CapacityExact == open => items = Cardinality(Entries(dir))

\* An identity has at most one file, whatever part of the renames survives a crash:
\* with two, RetryRejected fails for good and a retry would be served twice.
OneFilePerId == \A i \in Ids : \A s \in maybe[i] : Cardinality(s) <= 1

\* Every waiting file is reachable from the reception order, so that it is served
\* without a restart, and nothing else is active.
NothingStranded ==
    open => /\ active = {i \in Ids : "json" \in dir[i]}
            /\ \A i \in active : \E k \in DOMAIN order : order[k] = i

=============================================================================
