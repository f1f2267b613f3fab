--------------------------- MODULE ExternalRecords ---------------------------
(***************************************************************************)
(* Delivery of the records of one external event (externaldata/runtime.go,  *)
(* processRecord): records received over several interfaces carry versions of *)
(* the event; workers claim them, reserve the event in its ledger row, hand    *)
(* the version to raw ingest and commit it once its business result is there. *)
(*                                                                          *)
(* A content stands for one version of the event (its hash).  Rows are written *)
(* under the revision that was read: `copies` is the set of workers whose copy *)
(* of the event row is current.  A claim lasts 180 s, the work on it at most  *)
(* 150 s and the ledger's lease 160 s, so leases run out only after their       *)
(* worker has stopped.                                                      *)
(***************************************************************************)
EXTENDS Naturals, FiniteSets

CONSTANTS
    Workers,
    NoWorker,
    Records,
    NoRecord,
    Contents,      \* versions of the event
    NoContent,
    Received,      \* the content each record was received with
    Variants,      \* what its mapping, or a changed one, may make of a record
    Order,         \* version or timestamp of each content
    Immediate,     \* contents delivered without a raw message: recoveries
    Malformed,     \* contents Deliver refuses before it sends anything
    Devices,
    NoDevice,
    FirstDevice,   \* the device the number is bound to at first
    MaxAttempts,   \* Endpoint.MaxAttempts
    MaxFaults,     \* bound on failures and exits
    MaxRetries,    \* bound on operators' retries
    MaxRebinds     \* bound on changes of the binding

ASSUME ExternalAssumption ==
    /\ NoContent \notin Contents /\ NoRecord \notin Records /\ NoWorker \notin Workers /\ NoDevice \notin Devices
    /\ FirstDevice \in Devices
    /\ Received \in [Records -> Contents] /\ Variants \in [Records -> SUBSET Contents]
    /\ Order \in [Contents -> Nat]
    /\ Immediate \subseteq Contents /\ Malformed \subseteq Contents
    /\ MaxAttempts \in Nat \ {0} /\ MaxFaults \in Nat /\ MaxRetries \in Nat /\ MaxRebinds \in Nat

VARIABLES
    content,    \* what the record's mapping makes of it
    status,     \* status of each record row
    attempts,   \* Record.Attempts
    holder,     \* the worker whose claim of the record is current
    ledger,     \* the event row: status, hash, pending, device, lease
    copies,     \* workers that mean to write the event row and have it current
    pc,         \* step of the worker
    cur,        \* its record
    target,     \* the device of the binding it read
    verdict,    \* what it will write to the record
    sent,       \* <<content, device>>: messages handed to raw ingest
    done,       \* those with a business result ("delivery" entries)
    bound,      \* the device the external number is bound to
    faults, retries, rebinds

work  == <<pc, cur, target, verdict>>
rows  == <<content, status, attempts, holder>>
event == <<ledger, copies>>
world == <<sent, done>>
limits == <<faults, retries, rebinds>>
vars  == <<rows, event, work, world, bound, limits>>

Init ==
    /\ content = Received
    /\ status = [r \in Records |-> "PENDING"]
    /\ attempts = [r \in Records |-> 0]
    /\ holder = [r \in Records |-> NoWorker]
    /\ ledger = [status |-> "none", hash |-> NoContent, pending |-> NoContent,
                 device |-> NoDevice, lease |-> FALSE]
    /\ copies = {}
    /\ pc = [w \in Workers |-> "idle"]
    /\ cur = [w \in Workers |-> NoRecord]
    /\ target = [w \in Workers |-> NoDevice]
    /\ verdict = [w \in Workers |-> "none"]
    /\ sent = {} /\ done = {}
    /\ bound = FirstDevice
    /\ faults = 0 /\ retries = 0 /\ rebinds = 0

Goto(w, l) == pc' = [pc EXCEPT ![w] = l]

(* The worker knows what to write to its record.                             *)
Decide(w, v) ==
    /\ verdict' = [verdict EXCEPT ![w] = v]
    /\ target' = [target EXCEPT ![w] = NoDevice]
    /\ Goto(w, "finish")

(* The worker goes back for another record.                                  *)
Leave(w) ==
    /\ holder' = [holder EXCEPT ![cur[w]] = NoWorker]
    /\ cur' = [cur EXCEPT ![w] = NoRecord]
    /\ target' = [target EXCEPT ![w] = NoDevice]
    /\ verdict' = [verdict EXCEPT ![w] = "none"]
    /\ Goto(w, "idle")

Mine(w) == content[cur[w]]

(* The identity of the message names the device as well.                     *)
Message(w) == <<Mine(w), target[w]>>

(***************************************************************************)
(* Claim: a record that is due, or whose worker's lease ran out.             *)
(***************************************************************************)
Due_OnlyWaiting(r) == status[r] \in {"PENDING", "RETRY"}

Due(r) ==
    \/ status[r] \in {"PENDING", "RETRY"}
    \/ status[r] = "RUNNING" /\ holder[r] = NoWorker

Claim(w, r) ==
    /\ pc[w] = "idle" /\ Due(r)
    /\ status' = [status EXCEPT ![r] = "RUNNING"]
    /\ holder' = [holder EXCEPT ![r] = w]
    /\ cur' = [cur EXCEPT ![w] = r]
    /\ Goto(w, "check")
    /\ UNCHANGED <<content, attempts, event, target, verdict, world, bound, limits>>

(* The interface is switched off, the record cannot be transformed, is         *)
(* filtered, or its external number is not bound.                            *)
Unusable(w) ==
    /\ pc[w] = "check" /\ faults < MaxFaults
    /\ faults' = faults + 1
    /\ \E v \in {"off", "FAILED", "FILTERED", "WAITING_BINDING"} : Decide(w, v)
    /\ UNCHANGED <<rows, event, cur, world, bound, retries, rebinds>>

(* The binding is read, then the event row, which decides.                   *)
Older(c) == ledger.hash # NoContent /\ Order[c] < Order[ledger.hash]
Same(c)  == ledger.hash # NoContent /\ Order[c] = Order[ledger.hash]
Busy     == ledger.status = "LOCKED" /\ ledger.lease

(* Another version is on its way.                                            *)
Blocked_Never(c) == FALSE

Blocked(c) == ledger.pending \notin {c, NoContent}

Reserving(w) ==
    /\ target' = [target EXCEPT ![w] = bound]
    /\ copies' = copies \cup {w}
    /\ Goto(w, "lock") /\ UNCHANGED verdict

Check(w) ==
    /\ pc[w] = "check"
    /\ LET c == Mine(w) IN
       \/ Busy /\ Decide(w, "failed") /\ UNCHANGED copies
       \/ ~Busy /\ ledger.hash = c /\ Decide(w, "DUPLICATE") /\ UNCHANGED copies
       \/ ~Busy /\ ledger.hash # c /\ Older(c) /\ Decide(w, "IGNORED") /\ UNCHANGED copies
       \/ ~Busy /\ ledger.hash # c /\ Same(c) /\ Decide(w, "CONFLICT") /\ UNCHANGED copies
       \/ /\ ~Busy /\ ledger.hash # c /\ ~Older(c) /\ ~Same(c)
          /\ \/ Blocked(c) /\ Decide(w, "wait") /\ UNCHANGED copies
             \/ ~Blocked(c) /\ Reserving(w)
    /\ UNCHANGED <<rows, ledger, cur, world, bound, limits>>

(* The event row under another reservation.                                  *)
Reservation(st, pending, lease) ==
    [status |-> st, hash |-> ledger.hash, pending |-> pending, device |-> ledger.device, lease |-> lease]

(***************************************************************************)
(* The event is reserved; a row that changed since it was read is refused.   *)
(***************************************************************************)
Current_Always(w) == TRUE

Current(w) == w \in copies

Lock(w) ==
    /\ pc[w] = "lock"
    /\ \/ /\ Current(w)
          /\ ledger' = Reservation("LOCKED", Mine(w), TRUE)
          /\ copies' = {w} /\ Goto(w, "deliver") /\ UNCHANGED <<target, verdict>>
       \/ /\ ~Current(w)
          /\ Decide(w, "failed") /\ UNCHANGED event
    /\ UNCHANGED <<rows, cur, world, bound, limits>>

(***************************************************************************)
(* Deliver: refused, sent and waiting for its result, or done.               *)
(***************************************************************************)
Refused(w) ==
    \/ Mine(w) \in Malformed
    \/ ledger.device # NoDevice /\ ledger.device # target[w]

Unlock_Frees(w, pending) ==
    /\ ledger' = Reservation("RETRY", NoContent, FALSE)
    /\ copies' = {}
    /\ Decide(w, "failed")

Unlock(w, pending) ==
    /\ ledger' = Reservation("RETRY", pending, FALSE)
    /\ copies' = {}
    /\ Decide(w, "failed")

Refuse(w) ==
    /\ pc[w] = "deliver" /\ Refused(w)
    /\ Unlock(w, NoContent)
    /\ UNCHANGED <<rows, cur, world, bound, limits>>

(* The device or its product is not enabled, or ingest fails, perhaps after it  *)
(* archived the message.  A failure to release the lock as well is ignored.    *)
Undelivered(w) ==
    /\ pc[w] = "deliver" /\ faults < MaxFaults
    /\ faults' = faults + 1
    /\ \/ UNCHANGED sent
       \/ ~Refused(w) /\ Mine(w) \notin Immediate /\ sent' = sent \cup {Message(w)}
    /\ \/ Unlock(w, ledger.pending)
       \/ Decide(w, "failed") /\ UNCHANGED event
    /\ UNCHANGED <<rows, cur, done, bound, retries, rebinds>>

Send(w) ==
    /\ pc[w] = "deliver" /\ ~Refused(w)
    /\ sent' = sent \cup {Message(w)}
    /\ \/ Mine(w) \in Immediate /\ done' = done \cup {Message(w)}
       \/ Mine(w) \notin Immediate /\ UNCHANGED done
    /\ Goto(w, "await")
    /\ UNCHANGED <<rows, event, cur, target, verdict, bound, limits>>

(* The "delivery" entry that processing writes for the message.              *)
HasResult(m) == m \in done

Await(w) ==
    /\ pc[w] = "await"
    /\ \/ HasResult(Message(w)) /\ Goto(w, "commit") /\ UNCHANGED <<event, target, verdict>>
       \/ ~HasResult(Message(w)) /\ Unlock(w, ledger.pending)
    /\ UNCHANGED <<rows, cur, world, bound, limits>>

Commit(w) ==
    /\ pc[w] = "commit"
    /\ ledger' = [status |-> "PROCESSED", hash |-> Mine(w), pending |-> NoContent,
                  device |-> target[w], lease |-> FALSE]
    /\ copies' = {}
    /\ Decide(w, "PROCESSED")
    /\ UNCHANGED <<rows, cur, world, bound, limits>>

(***************************************************************************)
(* finish and recordFailure.                                                *)
(***************************************************************************)
Failures == {"failed", "FAILED", "CONFLICT", "WAITING_BINDING"}

Finish(w) ==
    LET r == cur[w] IN
    /\ pc[w] = "finish"
    /\ \/ /\ verdict[w] \in {"off", "wait"}
          /\ status' = [status EXCEPT ![r] = "RETRY"] /\ UNCHANGED attempts
       \/ /\ verdict[w] \in Failures
          /\ attempts' = [attempts EXCEPT ![r] = @ + 1]
          /\ \/ /\ verdict[w] = "failed" /\ attempts'[r] < MaxAttempts
                /\ status' = [status EXCEPT ![r] = "RETRY"]
             \/ /\ verdict[w] = "failed" /\ attempts'[r] >= MaxAttempts
                /\ status' = [status EXCEPT ![r] = "FAILED"]
             \/ /\ verdict[w] # "failed"
                /\ status' = [status EXCEPT ![r] = verdict[w]]
       \/ /\ verdict[w] \notin {"off", "wait"} \cup Failures
          /\ status' = [status EXCEPT ![r] = verdict[w]] /\ UNCHANGED attempts
    /\ Leave(w)
    /\ UNCHANGED <<content, event, world, bound, limits>>

(* A store call fails, the 150 s are over, or the process exits: the record    *)
(* stays RUNNING until its lease runs out.                                   *)
Stop(w) ==
    /\ pc[w] # "idle" /\ faults < MaxFaults
    /\ faults' = faults + 1
    /\ copies' = copies \ {w}
    /\ Leave(w)
    /\ UNCHANGED <<content, status, attempts, ledger, world, bound, retries, rebinds>>

Locking(w) == pc[w] \in {"deliver", "await", "commit"}

LockExpires ==
    /\ ledger.lease /\ \A w \in Workers : ~Locking(w)
    /\ ledger' = [ledger EXCEPT !.lease = FALSE]
    /\ UNCHANGED <<rows, copies, work, world, bound, limits>>

(***************************************************************************)
(* Around the workers: the platform processes what was ingested, an operator   *)
(* retries a record or changes the binding.                                  *)
(***************************************************************************)
Process(m) ==
    /\ m \in sent \ done
    /\ done' = done \cup {m}
    /\ UNCHANGED <<rows, event, work, sent, bound, limits>>

Settled(r) == status[r] \notin {"PENDING", "RETRY", "RUNNING"}

(* Retry: under the mapping of the record, or under the present one, which may *)
(* make another version of it.                                              *)
Retry(r, c) ==
    /\ Settled(r) /\ retries < MaxRetries
    /\ retries' = retries + 1
    /\ content' = [content EXCEPT ![r] = c]
    /\ status' = [status EXCEPT ![r] = "PENDING"]
    /\ attempts' = [attempts EXCEPT ![r] = 0]
    /\ UNCHANGED <<holder, event, work, world, bound, faults, rebinds>>

SaveBinding(d) ==
    /\ d # bound /\ rebinds < MaxRebinds
    /\ rebinds' = rebinds + 1
    /\ bound' = d
    /\ UNCHANGED <<rows, event, work, world, faults, retries>>

Step(w) == \/ Check(w) \/ Lock(w) \/ Refuse(w) \/ Send(w) \/ Await(w) \/ Commit(w) \/ Finish(w)

Next ==
    \/ \E w \in Workers :
        \/ \E r \in Records : Claim(w, r)
        \/ Step(w) \/ Unusable(w) \/ Undelivered(w) \/ Stop(w)
    \/ LockExpires
    \/ \E m \in sent : Process(m)
    \/ \E r \in Records : \E c \in Variants[r] : Retry(r, c)
    \/ \E d \in Devices : SaveBinding(d)

Spec == Init /\ [][Next]_vars

(* Workers run, records are claimed in the order they are due, leases run out, *)
(* and what was ingested is processed.                                      *)
FairSpec ==
    /\ Spec
    /\ \A w \in Workers : WF_vars(Step(w))
    /\ \A r \in Records : SF_vars(\E w \in Workers : Claim(w, r))
    /\ WF_vars(LockExpires) /\ WF_vars(\E m \in sent : Process(m))

(***************************************************************************)
(* Properties.                                                              *)
(***************************************************************************)

(* Two interfaces deliver the same event: the worker that sends has the event   *)
(* row to itself, under its own reservation, until it has written the outcome. *)
OneSender ==
    \A w \in Workers : Locking(w) =>
        /\ ledger.status = "LOCKED" /\ ledger.lease /\ ledger.pending = Mine(w)
        /\ \A v \in Workers \ {w} : ~Locking(v)

(* "an enqueued raw message keeps its reservation until its business result    *)
(* has been observed" (processRecord): a version that was handed to ingest      *)
(* holds the event until it, or a newer version, is committed.               *)
ReservationHeld ==
    \A m \in sent : ledger.pending = m[1] \/ ledger.hash = m[1] \/ Older(m[1])

(* As long as nobody binds the external number to another device, that is so:   *)
(* retries, exits between two writes and other interfaces do not free an event  *)
(* whose version is on its way.                                             *)
ReservationHeldUnlessRebound == rebinds = 0 => ReservationHeld

(* Versions reach the platform in the order the source gave them, however the   *)
(* records were received, claimed and retried: unless the number was bound to   *)
(* another device, nothing is handed to ingest after a newer version.         *)
SentInOrderUnlessRebound ==
    [][rebinds = 0 => \A m \in sent' \ sent, n \in sent : Order[n[1]] < Order[m[1]]]_vars

(* Every record is settled, or stands behind a version that no record at work   *)
(* carries any more: a worker that exits, a claim or a lock that nobody        *)
(* releases, and interfaces that compete for the event delay it only.         *)
Held(r) ==
    /\ ledger.pending \notin {NoContent, content[r]}
    /\ \A q \in Records : content[q] = ledger.pending => Settled(q)

RecordsSettle ==
    \A r \in Records : status[r] = "PENDING" ~> (Settled(r) \/ Held(r))

=============================================================================
