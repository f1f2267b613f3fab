------------------------ MODULE ExternalRecordsProofs ------------------------
(***************************************************************************)
(* Proofs about the delivery of external records, for any workers, records,   *)
(* versions, devices and limits: the worker that sends has the event to        *)
(* itself, and while the number keeps its device, a version that was sent      *)
(* keeps the event reserved and versions are sent in their order.             *)
(***************************************************************************)
EXTENDS ExternalRecords, TLAPS

----------------------------------------------------------------------------
(* The inductive invariant.                                                 *)

Steps    == {"idle", "check", "lock", "deliver", "await", "commit", "finish"}
Verdicts == {"off", "wait", "FILTERED", "DUPLICATE", "IGNORED", "PROCESSED"} \cup Failures
Statuses == {"PENDING", "RETRY", "RUNNING", "FAILED", "CONFLICT", "WAITING_BINDING",
             "FILTERED", "DUPLICATE", "IGNORED", "PROCESSED"}
EventRow == [status: {"none", "LOCKED", "RETRY", "PROCESSED"},
             hash: Contents \cup {NoContent}, pending: Contents \cup {NoContent},
             device: Devices \cup {NoDevice}, lease: BOOLEAN]

\* The record rows.
RowsTyped ==
    /\ content \in [Records -> Contents] /\ status \in [Records -> Statuses]
    /\ attempts \in [Records -> Nat] /\ holder \in [Records -> Workers \cup {NoWorker}]

\* The workers: one that is done with its record knows what to write to it.
WorkersTyped ==
    /\ pc \in [Workers -> Steps] /\ cur \in [Workers -> Records \cup {NoRecord}]
    /\ target \in [Workers -> Devices \cup {NoDevice}]
    /\ verdict \in [Workers -> Verdicts \cup {"none"}]
    /\ \A w \in Workers : pc[w] = "finish" => verdict[w] \in Verdicts

\* The event row, and what was sent.
EventTyped ==
    /\ ledger \in EventRow /\ copies \subseteq Workers
    /\ sent \subseteq Contents \X (Devices \cup {NoDevice}) /\ done \subseteq sent
    /\ bound \in Devices
    /\ faults \in Nat /\ retries \in Nat /\ rebinds \in Nat

\* A worker that is not idle holds the claim of its record.
ClaimHeld ==
    \A w \in Workers : pc[w] # "idle" =>
        cur[w] \in Records /\ status[cur[w]] = "RUNNING" /\ holder[cur[w]] = w

\* The version a worker may deliver is newer than the one that was committed.
Newer(w) == ledger.hash # NoContent => Order[ledger.hash] < Order[Mine(w)]

\* A worker about to reserve, whose copy of the event row is current, finds it free.
CopyFree ==
    \A w \in Workers : pc[w] = "lock" /\ w \in copies =>
        /\ \A v \in Workers : ~Locking(v)
        /\ ledger.pending \in {Mine(w), NoContent}
        /\ Newer(w)

LockedNewer == \A w \in Workers : Locking(w) => Newer(w)

\* While nobody has bound the number anew, everything names its first device.
OneDevice ==
    rebinds = 0 =>
        /\ bound = FirstDevice
        /\ ledger.device \in {FirstDevice, NoDevice}
        /\ \A w \in Workers : pc[w] \in {"lock", "deliver", "await", "commit"} => target[w] = FirstDevice
        /\ \A m \in sent : m[2] = FirstDevice

\* What Deliver refuses is never sent.
NoneMalformed == \A m \in sent : m[1] \notin Malformed

TypeInv == RowsTyped /\ WorkersTyped /\ EventTyped
LockInv == CopyFree /\ OneSender /\ LockedNewer
SentInv == OneDevice /\ NoneMalformed /\ ReservationHeldUnlessRebound
ExternalInv == TypeInv /\ ClaimHeld /\ LockInv /\ SentInv

----------------------------------------------------------------------------
(* Types.                                                                   *)

\* A worker that has decided knows what it writes to its record.
LEMMA DecideTyped ==
  ASSUME WorkersTyped, NEW w \in Workers, NEW v \in Verdicts, Decide(w, v), UNCHANGED cur
  PROVE  WorkersTyped'
BY DEF WorkersTyped, Decide, Goto, Steps

\* A worker that takes one step to another and decides nothing.
LEMMA GotoTyped ==
  ASSUME WorkersTyped, NEW w \in Workers, NEW l \in Steps \ {"finish"}, Goto(w, l), UNCHANGED <<cur, verdict>>,
         UNCHANGED target \/ target' = [target EXCEPT ![w] = bound], bound \in Devices
  PROVE  WorkersTyped'
BY DEF WorkersTyped, Goto

\* A worker that leaves its record.
LEMMA LeaveTyped ==
  ASSUME RowsTyped, WorkersTyped, NEW w \in Workers, Leave(w)
  PROVE  WorkersTyped' /\ holder' \in [Records -> Workers \cup {NoWorker}]
BY DEF RowsTyped, WorkersTyped, Leave, Goto, Steps

\* The event row under another reservation.
LEMMA ReservationTyped ==
  ASSUME ledger \in EventRow, NEW st \in {"LOCKED", "RETRY"}, NEW p \in Contents \cup {NoContent},
         NEW l \in BOOLEAN, ledger' = Reservation(st, p, l)
  PROVE  /\ ledger' \in EventRow
         /\ ledger'.status = st /\ ledger'.pending = p /\ ledger'.lease = l
         /\ ledger'.hash = ledger.hash /\ ledger'.device = ledger.device
BY DEF EventRow, Reservation

\* Releasing the lock.
LEMMA UnlockTyped ==
  ASSUME WorkersTyped, ledger \in EventRow, NEW w \in Workers, NEW p \in Contents \cup {NoContent},
         Unlock(w, p), UNCHANGED cur
  PROVE  /\ WorkersTyped' /\ ledger' \in EventRow /\ copies' = {}
         /\ ledger'.status = "RETRY" /\ ledger'.pending = p /\ ledger'.lease = FALSE
         /\ ledger'.hash = ledger.hash /\ ledger'.device = ledger.device
<1>1. FALSE \in BOOLEAN
  BY Zenon
<1>2. ledger' = Reservation("RETRY", p, FALSE) /\ copies' = {} /\ Decide(w, "failed")
  BY DEF Unlock
<1>3. "failed" \in Verdicts
  BY DEF Verdicts, Failures
<1> QED BY <1>1, <1>2, <1>3, ReservationTyped, DecideTyped

LEMMA TypeInit == Init => TypeInv
<1> SUFFICES ASSUME Init PROVE TypeInv
  OBVIOUS
<1>1. FALSE \in BOOLEAN
  BY Zenon
<1>2. ledger \in EventRow
  BY <1>1 DEF Init, EventRow
<1> QED BY <1>2, ExternalAssumption DEF Init, TypeInv, RowsTyped, WorkersTyped, EventTyped, Steps, Verdicts, Statuses

LEMMA TypeNext ==
  ASSUME TypeInv, ClaimHeld, [Next]_vars
  PROVE  TypeInv'
<1> USE DEF TypeInv
<1>1. ASSUME NEW w \in Workers, NEW r \in Records, Claim(w, r) PROVE TypeInv'
  BY <1>1 DEF RowsTyped, WorkersTyped, EventTyped, Claim, Goto, Steps, Statuses, event, world, limits
<1>2. ASSUME NEW w \in Workers, Unusable(w) PROVE TypeInv'
  <2>1. WorkersTyped'
    <3>1. PICK v \in {"off", "FAILED", "FILTERED", "WAITING_BINDING"} : Decide(w, v)
      BY <1>2 DEF Unusable
    <3>2. v \in Verdicts /\ UNCHANGED cur
      BY <1>2 DEF Unusable, Verdicts, Failures
    <3> QED BY <3>1, <3>2, DecideTyped
  <2> QED BY <1>2, <2>1 DEF Unusable, RowsTyped, EventTyped, rows, event, world
<1>3. ASSUME NEW w \in Workers, Check(w) PROVE TypeInv'
  <2>1. UNCHANGED <<rows, ledger, cur, world, bound, limits>>
    BY <1>3 DEF Check
  <2>2. \/ UNCHANGED copies /\ \E v \in {"failed", "DUPLICATE", "IGNORED", "CONFLICT", "wait"} : Decide(w, v)
        \/ Reserving(w)
    BY <1>3 DEF Check
  <2>3. CASE UNCHANGED copies /\ \E v \in {"failed", "DUPLICATE", "IGNORED", "CONFLICT", "wait"} : Decide(w, v)
    <3>1. PICK v \in {"failed", "DUPLICATE", "IGNORED", "CONFLICT", "wait"} : Decide(w, v)
      BY <2>3
    <3>2. v \in Verdicts
      BY DEF Verdicts, Failures
    <3>3. WorkersTyped'
      BY <2>1, <3>1, <3>2, DecideTyped
    <3> QED BY <2>1, <2>3, <3>3 DEF RowsTyped, EventTyped, rows, world, limits
  <2>4. CASE Reserving(w)
    <3>1. WorkersTyped' /\ copies' \subseteq Workers
      BY <2>1, <2>4, GotoTyped DEF Reserving, EventTyped, Steps
    <3> QED BY <2>1, <3>1 DEF RowsTyped, EventTyped, rows, world, limits
  <2> QED BY <2>2, <2>3, <2>4
<1>4. ASSUME NEW w \in Workers, Lock(w) PROVE TypeInv'
  <2>1. UNCHANGED <<rows, cur, world, bound, limits>> /\ pc[w] = "lock"
    BY <1>4 DEF Lock
  <2>2. CASE /\ Current(w)
             /\ ledger' = Reservation("LOCKED", Mine(w), TRUE)
             /\ copies' = {w} /\ Goto(w, "deliver") /\ UNCHANGED <<target, verdict>>
    <3>1. TRUE \in BOOLEAN
      BY Zenon
    <3>2. Mine(w) \in Contents
      BY <2>1 DEF ClaimHeld, Mine, RowsTyped
    <3>3. ledger' \in EventRow
      BY <2>2, <3>1, <3>2, ReservationTyped DEF EventTyped
    <3>4. WorkersTyped'
      BY <2>1, <2>2, GotoTyped DEF EventTyped, Steps
    <3> QED BY <2>1, <2>2, <3>3, <3>4 DEF RowsTyped, EventTyped, rows, world, limits
  <2>3. CASE ~Current(w) /\ Decide(w, "failed") /\ UNCHANGED event
    <3>1. "failed" \in Verdicts
      BY DEF Verdicts, Failures
    <3>2. WorkersTyped'
      BY <2>1, <2>3, <3>1, DecideTyped
    <3> QED BY <2>1, <2>3, <3>2 DEF RowsTyped, EventTyped, rows, event, world, limits
  <2> QED BY <1>4, <2>2, <2>3 DEF Lock
<1>5. ASSUME NEW w \in Workers, Refuse(w) PROVE TypeInv'
  <2>1. UNCHANGED <<rows, cur, world, bound, limits>> /\ Unlock(w, NoContent)
    BY <1>5 DEF Refuse
  <2>2. WorkersTyped' /\ ledger' \in EventRow /\ copies' = {}
    BY <2>1, UnlockTyped DEF EventTyped
  <2> QED BY <2>1, <2>2 DEF RowsTyped, EventTyped, rows, world, limits
<1>6. ASSUME NEW w \in Workers, Undelivered(w) PROVE TypeInv'
  <2>1. /\ UNCHANGED <<rows, cur, done, bound, retries, rebinds>> /\ faults' = faults + 1 /\ pc[w] = "deliver"
        /\ UNCHANGED sent \/ sent' = sent \cup {Message(w)}
        /\ Unlock(w, ledger.pending) \/ (Decide(w, "failed") /\ UNCHANGED event)
    BY <1>6 DEF Undelivered
  <2>2. WorkersTyped' /\ ledger' \in EventRow /\ copies' \subseteq Workers
    <3>1. ledger.pending \in Contents \cup {NoContent}
      BY DEF EventTyped, EventRow
    <3>2. "failed" \in Verdicts
      BY DEF Verdicts, Failures
    <3>3. CASE Unlock(w, ledger.pending)
      BY <2>1, <3>1, <3>3, UnlockTyped DEF EventTyped
    <3>4. CASE Decide(w, "failed") /\ UNCHANGED event
      BY <2>1, <3>2, <3>4, DecideTyped DEF EventTyped, event
    <3> QED BY <2>1, <3>3, <3>4
  <2>3. Message(w) \in Contents \X (Devices \cup {NoDevice})
    BY <2>1 DEF ClaimHeld, Message, Mine, RowsTyped, WorkersTyped
  <2> QED BY <2>1, <2>2, <2>3 DEF RowsTyped, EventTyped, rows
<1>7. ASSUME NEW w \in Workers, Send(w) PROVE TypeInv'
  <2>1. /\ UNCHANGED <<rows, event, cur, target, verdict, bound, limits>> /\ pc[w] = "deliver"
        /\ Goto(w, "await") /\ sent' = sent \cup {Message(w)}
        /\ UNCHANGED done \/ done' = done \cup {Message(w)}
    BY <1>7 DEF Send
  <2>2. Message(w) \in Contents \X (Devices \cup {NoDevice})
    BY <2>1 DEF ClaimHeld, Message, Mine, RowsTyped, WorkersTyped
  <2>3. WorkersTyped'
    BY <2>1, GotoTyped DEF EventTyped, Steps
  <2> QED BY <2>1, <2>2, <2>3 DEF RowsTyped, EventTyped, rows, event, limits
<1>8. ASSUME NEW w \in Workers, Await(w) PROVE TypeInv'
  <2>1. UNCHANGED <<rows, cur, world, bound, limits>>
    BY <1>8 DEF Await
  <2>2. WorkersTyped' /\ ledger' \in EventRow /\ copies' \subseteq Workers
    <3>1. CASE Goto(w, "commit") /\ UNCHANGED <<event, target, verdict>>
      BY <2>1, <3>1, GotoTyped DEF EventTyped, Steps, event
    <3>2. CASE Unlock(w, ledger.pending)
      BY <2>1, <3>2, UnlockTyped DEF EventTyped, EventRow
    <3> QED BY <1>8, <3>1, <3>2 DEF Await
  <2> QED BY <2>1, <2>2 DEF RowsTyped, EventTyped, rows, world, limits
<1>9. ASSUME NEW w \in Workers, Commit(w) PROVE TypeInv'
  <2>1. /\ UNCHANGED <<rows, cur, world, bound, limits>> /\ pc[w] = "commit"
        /\ ledger' = [status |-> "PROCESSED", hash |-> Mine(w), pending |-> NoContent,
                      device |-> target[w], lease |-> FALSE]
        /\ copies' = {} /\ Decide(w, "PROCESSED")
    BY <1>9 DEF Commit
  <2>2. FALSE \in BOOLEAN
    BY Zenon
  <2>3. Mine(w) \in Contents /\ target[w] \in Devices \cup {NoDevice}
    BY <2>1 DEF ClaimHeld, Mine, RowsTyped, WorkersTyped
  <2>4. ledger' \in EventRow
    BY <2>1, <2>2, <2>3 DEF EventRow
  <2>5. WorkersTyped'
    BY <2>1, DecideTyped DEF Verdicts
  <2> QED BY <2>1, <2>4, <2>5 DEF RowsTyped, EventTyped, rows, world, limits
<1>10. ASSUME NEW w \in Workers, Finish(w) PROVE TypeInv'
  <2>1. UNCHANGED <<content, event, world, bound, limits>> /\ Leave(w) /\ pc[w] = "finish"
    BY <1>10 DEF Finish
  <2>2. WorkersTyped' /\ holder' \in [Records -> Workers \cup {NoWorker}]
    BY <2>1, LeaveTyped
  <2>3. verdict[w] \in Verdicts /\ cur[w] \in Records
    BY <2>1 DEF WorkersTyped, ClaimHeld
  <2>4. status' \in [Records -> Statuses] /\ attempts' \in [Records -> Nat]
    BY <1>10, <2>3 DEF Finish, RowsTyped, Verdicts, Failures, Statuses
  <2> QED BY <2>1, <2>2, <2>4 DEF RowsTyped, EventTyped, event, world, limits
<1>11. ASSUME NEW w \in Workers, Stop(w) PROVE TypeInv'
  <2>1. UNCHANGED <<content, status, attempts, ledger, world, bound, retries, rebinds>> /\ Leave(w)
    BY <1>11 DEF Stop
  <2>2. WorkersTyped' /\ holder' \in [Records -> Workers \cup {NoWorker}]
    BY <2>1, LeaveTyped
  <2> QED BY <1>11, <2>1, <2>2 DEF Stop, RowsTyped, EventTyped, world
<1>12. ASSUME LockExpires PROVE TypeInv'
  <2>1. FALSE \in BOOLEAN
    BY Zenon
  <2>2. ledger' \in EventRow
    BY <1>12, <2>1 DEF LockExpires, EventTyped, EventRow
  <2> QED BY <1>12, <2>2 DEF LockExpires, RowsTyped, WorkersTyped, EventTyped, rows, work, world, limits
<1>13. ASSUME NEW m \in sent, Process(m) PROVE TypeInv'
  BY <1>13 DEF Process, RowsTyped, WorkersTyped, EventTyped, rows, work, event, limits
<1>14. ASSUME NEW r \in Records, NEW c \in Variants[r], Retry(r, c) PROVE TypeInv'
  <2>1. c \in Contents
    BY ExternalAssumption
  <2> QED BY <1>14, <2>1 DEF Retry, RowsTyped, WorkersTyped, EventTyped, work, event, world, Statuses
<1>15. ASSUME NEW d \in Devices, SaveBinding(d) PROVE TypeInv'
  BY <1>15 DEF SaveBinding, RowsTyped, WorkersTyped, EventTyped, rows, work, event, world
<1>16. CASE UNCHANGED vars
  BY <1>16 DEF RowsTyped, WorkersTyped, EventTyped, vars, rows, work, event, world, limits
<1> QED
  BY <1>1, <1>2, <1>3, <1>4, <1>5, <1>6, <1>7, <1>8, <1>9, <1>10, <1>11, <1>12, <1>13, <1>14, <1>15, <1>16
  DEF Next, Step

----------------------------------------------------------------------------
(* Claims: a record has one worker, and keeps its content while it has one.    *)

\* A worker goes on with its record and leaves the record rows alone.
GoesOn(w) ==
    pc[w] # "idle" /\ UNCHANGED <<rows, cur>> /\ \E l \in Steps \ {"idle"} : Goto(w, l)

\* Workers that stay at a record stay at the same content.
MineKept ==
    \A v \in Workers : pc[v] # "idle" /\ pc'[v] # "idle" => cur'[v] = cur[v] /\ Mine(v)' = Mine(v)

\* What a step of a worker between claim and finish does to its record: nothing.
LEMMA WorkerGoesOn ==
  ASSUME TypeInv, NEW w \in Workers,
         Unusable(w) \/ Check(w) \/ Lock(w) \/ Refuse(w) \/ Undelivered(w) \/ Send(w) \/ Await(w) \/ Commit(w)
  PROVE  GoesOn(w)
<1>1. CASE Unusable(w)
  BY <1>1 DEF Unusable, GoesOn, Decide, Steps
<1>2. CASE Check(w)
  BY <1>2 DEF Check, Reserving, GoesOn, Decide, Steps
<1>3. CASE Lock(w)
  BY <1>3 DEF Lock, GoesOn, Decide, Steps
<1>4. CASE Refuse(w)
  BY <1>4 DEF Refuse, Unlock, GoesOn, Decide, Steps
<1>5. CASE Undelivered(w)
  BY <1>5 DEF Undelivered, Unlock, GoesOn, Decide, Steps
<1>6. CASE Send(w)
  BY <1>6 DEF Send, GoesOn, Steps
<1>7. CASE Await(w)
  BY <1>7 DEF Await, Unlock, GoesOn, Decide, Steps
<1>8. CASE Commit(w)
  BY <1>8 DEF Commit, GoesOn, Decide, Steps
<1> QED BY <1>1, <1>2, <1>3, <1>4, <1>5, <1>6, <1>7, <1>8

LEMMA ClaimNext ==
  ASSUME TypeInv, ClaimHeld, [Next]_vars
  PROVE  ClaimHeld' /\ MineKept
<1> USE DEF TypeInv, Mine
<1>1. ASSUME NEW w \in Workers, NEW r \in Records, Claim(w, r) PROVE ClaimHeld' /\ MineKept
  <2>1. \A v \in Workers : pc[v] # "idle" => cur[v] # r
    BY <1>1, ExternalAssumption DEF ClaimHeld, Claim, Due
  <2> QED BY <1>1, <2>1 DEF ClaimHeld, MineKept, Claim, Goto, RowsTyped, WorkersTyped
<1>2. ASSUME NEW w \in Workers, GoesOn(w) PROVE ClaimHeld' /\ MineKept
  BY <1>2 DEF GoesOn, ClaimHeld, MineKept, Goto, RowsTyped, WorkersTyped, rows
<1>3. ASSUME NEW w \in Workers, pc[w] # "idle", Leave(w), UNCHANGED content,
             \A r \in Records : r # cur[w] => status'[r] = status[r]
      PROVE  ClaimHeld' /\ MineKept
  BY <1>3 DEF Leave, ClaimHeld, MineKept, Goto, RowsTyped, WorkersTyped
<1>4. ASSUME NEW w \in Workers, Finish(w) PROVE ClaimHeld' /\ MineKept
  <2>1. pc[w] # "idle" /\ Leave(w) /\ UNCHANGED content
    BY <1>4 DEF Finish
  <2>2. \A r \in Records : r # cur[w] => status'[r] = status[r]
    BY <1>4 DEF Finish, RowsTyped
  <2> QED BY <1>3, <2>1, <2>2
<1>5. ASSUME NEW w \in Workers, Stop(w) PROVE ClaimHeld' /\ MineKept
  BY <1>3, <1>5 DEF Stop
<1>6. ASSUME NEW r \in Records, NEW c \in Variants[r], Retry(r, c) PROVE ClaimHeld' /\ MineKept
  <2>1. \A v \in Workers : pc[v] # "idle" => cur[v] # r
    BY <1>6 DEF ClaimHeld, Retry, Settled
  <2> QED BY <1>6, <2>1 DEF ClaimHeld, MineKept, Retry, RowsTyped, WorkersTyped, work
<1>7. ASSUME UNCHANGED <<rows, pc, cur>> PROVE ClaimHeld' /\ MineKept
  BY <1>7 DEF ClaimHeld, MineKept, rows
<1>8. ASSUME LockExpires \/ (\E m \in sent : Process(m)) \/ (\E d \in Devices : SaveBinding(d)) \/ UNCHANGED vars
      PROVE  UNCHANGED <<rows, pc, cur>>
  BY <1>8 DEF LockExpires, Process, SaveBinding, vars, rows, work
<1> QED
  BY <1>1, <1>2, <1>4, <1>5, <1>6, <1>7, <1>8, WorkerGoesOn DEF Next, Step

----------------------------------------------------------------------------
(* The lock: a worker that reserves the event has the row to itself.          *)

LEMMA LockNext ==
  ASSUME TypeInv, ClaimHeld, LockInv, [Next]_vars
  PROVE  LockInv'
<1> USE DEF TypeInv, LockInv
<1>0. MineKept /\ TypeInv' /\ ClaimHeld'
  BY ClaimNext, TypeNext
<1>1. ASSUME NEW w \in Workers, Lock(w), Current(w) PROVE LockInv'
  <2>0. /\ pc[w] = "lock" /\ ledger' = Reservation("LOCKED", Mine(w), TRUE)
        /\ copies' = {w} /\ pc' = [pc EXCEPT ![w] = "deliver"]
    BY <1>1 DEF Lock, Goto
  <2>1. /\ ledger'.status = "LOCKED" /\ ledger'.pending = Mine(w) /\ ledger'.lease = TRUE
        /\ ledger'.hash = ledger.hash
    BY <2>0 DEF Reservation
  <2>2. (\A v \in Workers : ~Locking(v)) /\ Newer(w)
    BY <1>1, <2>0 DEF CopyFree, Current
  <2>3. pc'[w] = "deliver" /\ \A v \in Workers : v # w => pc'[v] = pc[v]
    BY <2>0 DEF WorkersTyped
  <2>4. Mine(w)' = Mine(w)
    BY <1>0, <2>0, <2>3 DEF MineKept
  <2>5. \A v \in Workers : Locking(v)' => v = w
    BY <2>2, <2>3 DEF Locking
  <2>6. CopyFree'
    BY <2>0, <2>3 DEF CopyFree
  <2>7. OneSender'
    BY <2>1, <2>4, <2>5 DEF OneSender
  <2>8. LockedNewer'
    BY <2>1, <2>2, <2>4, <2>5 DEF LockedNewer, Newer
  <2> QED BY <2>6, <2>7, <2>8
\* A step that leaves the hash and the reservation as they are and locks nothing.
<1>2. ASSUME ledger'.status = ledger.status, ledger'.hash = ledger.hash, ledger'.pending = ledger.pending,
             ledger'.lease = ledger.lease \/ (\A v \in Workers : ~Locking(v)),
             \A v \in Workers : Locking(v)' => Locking(v),
             \A v \in Workers : pc'[v] = "lock" /\ v \in copies' => pc[v] = "lock" /\ v \in copies
      PROVE  LockInv'
  <2>1. \A v \in Workers : Locking(v)' => Mine(v)' = Mine(v)
    BY <1>0, <1>2 DEF MineKept, Locking
  <2>2. \A v \in Workers : pc'[v] = "lock" /\ v \in copies' => Mine(v)' = Mine(v)
    BY <1>0, <1>2 DEF MineKept
  <2>3. CopyFree'
    BY <1>2, <2>2 DEF CopyFree, Newer
  <2>4. OneSender'
    BY <1>2, <2>1 DEF OneSender
  <2>5. LockedNewer'
    BY <1>2, <2>1 DEF LockedNewer, Newer
  <2> QED BY <2>3, <2>4, <2>5
\* The one that holds the lock writes its outcome.
<1>3. ASSUME NEW w \in Workers, Locking(w), copies' = {}, pc' = [pc EXCEPT ![w] = "finish"]
      PROVE  LockInv'
  <2>1. \A v \in Workers : ~Locking(v)'
    BY <1>3 DEF OneSender, Locking, WorkersTyped
  <2> QED BY <1>3, <2>1 DEF CopyFree, OneSender, LockedNewer
<1>4. ASSUME NEW w \in Workers, Check(w), Reserving(w), ~Busy, ~Blocked(Mine(w)), ledger.hash # Mine(w),
             ~Older(Mine(w)), ~Same(Mine(w))
      PROVE  LockInv'
  <2>1. pc[w] = "check" /\ pc' = [pc EXCEPT ![w] = "lock"] /\ copies' = copies \cup {w} /\ UNCHANGED ledger
    BY <1>4 DEF Check, Reserving, Goto
  <2>2. \A v \in Workers : ~Locking(v)
    BY <1>4 DEF OneSender, Busy
  <2>3. pc'[w] = "lock" /\ \A v \in Workers : v # w => pc'[v] = pc[v]
    BY <2>1 DEF WorkersTyped
  <2>4. \A v \in Workers : ~Locking(v)'
    BY <2>2, <2>3 DEF Locking
  <2>5. Mine(w)' = Mine(w) /\ Mine(w) \in Contents
    BY <1>0, <2>1, <2>3 DEF MineKept, ClaimHeld, Mine, RowsTyped
  <2>6. ledger.pending \in {Mine(w), NoContent} /\ Newer(w)
    <3>1. ledger.hash # NoContent => Order[ledger.hash] \in Nat /\ Order[Mine(w)] \in Nat
      BY <2>5, ExternalAssumption DEF EventTyped, EventRow
    <3> QED BY <1>4, <3>1 DEF Blocked, Older, Same, Newer
  <2>7. CopyFree'
    <3> SUFFICES ASSUME NEW v \in Workers, pc'[v] = "lock", v \in copies'
                 PROVE  ledger'.pending \in {Mine(v)', NoContent} /\ Newer(v)'
      BY <2>4 DEF CopyFree
    <3>1. CASE v = w
      BY <2>1, <2>5, <2>6, <3>1 DEF Newer
    <3>2. CASE v # w
      <4>1. pc[v] = "lock" /\ v \in copies
        BY <2>1, <2>3, <3>2
      <4>2. Mine(v)' = Mine(v)
        BY <1>0, <4>1 DEF MineKept
      <4> QED BY <2>1, <4>1, <4>2 DEF CopyFree, Newer
    <3> QED BY <3>1, <3>2
  <2> QED BY <2>4, <2>7 DEF OneSender, LockedNewer
<1>5. ASSUME NEW w \in Workers, NEW r \in Records, Claim(w, r) PROVE LockInv'
  <2>1. UNCHANGED <<ledger, copies>> /\ pc' = [pc EXCEPT ![w] = "check"]
    BY <1>5 DEF Claim, Goto, event
  <2> QED BY <1>2, <2>1 DEF Locking, WorkersTyped
<1>6. ASSUME NEW w \in Workers, NEW v \in Verdicts, Decide(w, v), UNCHANGED event PROVE LockInv'
  <2>1. UNCHANGED <<ledger, copies>> /\ pc' = [pc EXCEPT ![w] = "finish"]
    BY <1>6 DEF Decide, Goto, event
  <2> QED BY <1>2, <2>1 DEF Locking, WorkersTyped
<1>7. ASSUME NEW w \in Workers, Unusable(w) PROVE LockInv'
  <2>1. PICK v \in {"off", "FAILED", "FILTERED", "WAITING_BINDING"} : Decide(w, v)
    BY <1>7 DEF Unusable
  <2>2. v \in Verdicts /\ UNCHANGED event
    BY <1>7 DEF Unusable, Verdicts, Failures
  <2> QED BY <1>6, <2>1, <2>2
<1>8. ASSUME NEW w \in Workers, Check(w) PROVE LockInv'
  <2>1. \/ /\ \E v \in {"failed", "DUPLICATE", "IGNORED", "CONFLICT", "wait"} : Decide(w, v)
           /\ UNCHANGED event
        \/ /\ Reserving(w) /\ ~Busy /\ ~Blocked(Mine(w)) /\ ledger.hash # Mine(w)
           /\ ~Older(Mine(w)) /\ ~Same(Mine(w))
    BY <1>8 DEF Check, event
  <2>2. {"failed", "DUPLICATE", "IGNORED", "CONFLICT", "wait"} \subseteq Verdicts
    BY DEF Verdicts, Failures
  <2> QED BY <1>4, <1>6, <1>8, <2>1, <2>2
<1>9. ASSUME NEW w \in Workers, Lock(w), ~Current(w) PROVE LockInv'
  <2>1. Decide(w, "failed") /\ UNCHANGED event /\ "failed" \in Verdicts
    BY <1>9 DEF Lock, Verdicts, Failures
  <2> QED BY <1>6, <2>1
<1>10. ASSUME NEW w \in Workers, Refuse(w) PROVE LockInv'
  BY <1>3, <1>10 DEF Refuse, Unlock, Decide, Goto, Locking
<1>11. ASSUME NEW w \in Workers, Undelivered(w) PROVE LockInv'
  <2>1. CASE Unlock(w, ledger.pending)
    BY <1>3, <1>11, <2>1 DEF Undelivered, Unlock, Decide, Goto, Locking
  <2>2. CASE Decide(w, "failed") /\ UNCHANGED event
    <3>1. "failed" \in Verdicts
      BY DEF Verdicts, Failures
    <3> QED BY <1>6, <2>2, <3>1
  <2> QED BY <1>11, <2>1, <2>2 DEF Undelivered
<1>12. ASSUME NEW w \in Workers, Send(w) PROVE LockInv'
  <2>1. UNCHANGED <<ledger, copies>> /\ pc[w] = "deliver" /\ pc' = [pc EXCEPT ![w] = "await"]
    BY <1>12 DEF Send, Goto, event
  <2> QED BY <1>2, <2>1 DEF Locking, WorkersTyped
<1>13. ASSUME NEW w \in Workers, Await(w) PROVE LockInv'
  <2>1. CASE Goto(w, "commit") /\ UNCHANGED event
    <3>1. UNCHANGED <<ledger, copies>> /\ pc[w] = "await" /\ pc' = [pc EXCEPT ![w] = "commit"]
      BY <1>13, <2>1 DEF Await, Goto, event
    <3> QED BY <1>2, <3>1 DEF Locking, WorkersTyped
  <2>2. CASE Unlock(w, ledger.pending)
    BY <1>3, <1>13, <2>2 DEF Await, Unlock, Decide, Goto, Locking
  <2> QED BY <1>13, <2>1, <2>2 DEF Await
<1>14. ASSUME NEW w \in Workers, Commit(w) PROVE LockInv'
  BY <1>3, <1>14 DEF Commit, Decide, Goto, Locking
<1>15. ASSUME NEW w \in Workers, Finish(w) \/ Stop(w) PROVE LockInv'
  <2>1. UNCHANGED ledger /\ copies' \subseteq copies /\ pc' = [pc EXCEPT ![w] = "idle"]
    BY <1>15 DEF Finish, Stop, Leave, Goto, event
  <2> QED BY <1>2, <2>1 DEF Locking, WorkersTyped
<1>16. ASSUME LockExpires PROVE LockInv'
  <2>1. ledger \in EventRow /\ ledger' = [ledger EXCEPT !.lease = FALSE] /\ UNCHANGED <<copies, pc>>
    BY <1>16 DEF LockExpires, EventTyped, work
  <2>2. ledger'.status = ledger.status /\ ledger'.hash = ledger.hash /\ ledger'.pending = ledger.pending
    BY <2>1 DEF EventRow
  <2>3. \A v \in Workers : ~Locking(v)
    BY <1>16 DEF LockExpires
  <2> QED BY <1>2, <2>1, <2>2, <2>3 DEF Locking
<1>17. ASSUME UNCHANGED <<event, pc>> PROVE LockInv'
  BY <1>2, <1>17 DEF Locking, event
<1>18. ASSUME \/ \E m \in sent : Process(m)
              \/ \E r \in Records : \E c \in Variants[r] : Retry(r, c)
              \/ \E d \in Devices : SaveBinding(d)
              \/ UNCHANGED vars
       PROVE  UNCHANGED <<event, pc>>
  BY <1>18 DEF Process, Retry, SaveBinding, vars, work, event
<1> QED
  BY <1>1, <1>5, <1>7, <1>8, <1>9, <1>10, <1>11, <1>12, <1>13, <1>14, <1>15, <1>16, <1>17, <1>18 DEF Next, Step

----------------------------------------------------------------------------
(* What was sent.                                                           *)

\* A version that was sent and may still come is the reserved one; with one device,
\* all that was sent before another message is of older versions.
LEMMA SentBefore ==
  ASSUME TypeInv, ClaimHeld, LockInv, SentInv, rebinds = 0, NEW w \in Workers, pc[w] = "deliver",
         Message(w) \notin sent
  PROVE  \A n \in sent : Order[n[1]] < Order[Mine(w)]
<1> SUFFICES ASSUME NEW n \in sent PROVE Order[n[1]] < Order[Mine(w)]
  OBVIOUS
<1> DEFINE c == n[1]
<1>1. c \in Contents /\ n = <<c, n[2]>> /\ Mine(w) \in Contents
  BY DEF TypeInv, EventTyped, ClaimHeld, RowsTyped, Mine
<1>2. n[2] = FirstDevice /\ target[w] = FirstDevice
  BY DEF SentInv, OneDevice
<1>3. ledger.pending = Mine(w) /\ Newer(w)
  BY DEF LockInv, OneSender, LockedNewer, Locking
<1>4. c # Mine(w)
  BY <1>1, <1>2 DEF Message
<1>5. ledger.hash = c \/ Older(c)
  BY <1>3, <1>4 DEF SentInv, ReservationHeldUnlessRebound, ReservationHeld
<1>6. CASE ledger.hash = c
  BY <1>1, <1>3, <1>6, ExternalAssumption DEF Newer
<1>7. CASE Older(c)
  <2>1. Order[c] \in Nat /\ Order[ledger.hash] \in Nat /\ Order[Mine(w)] \in Nat
    BY <1>1, <1>7, ExternalAssumption DEF Older, TypeInv, EventTyped, EventRow
  <2>2. Order[c] < Order[ledger.hash] /\ Order[ledger.hash] < Order[Mine(w)]
    BY <1>3, <1>7 DEF Older, Newer
  <2> HIDE DEF c
  <2>3. Order[c] < Order[Mine(w)]
    BY <2>1, <2>2
  <2> QED BY <2>3 DEF c
<1> QED BY <1>5, <1>6, <1>7

\* The device part: without a new binding every worker, message and commit names the first one.
LEMMA DeviceNext ==
  ASSUME TypeInv, ClaimHeld, OneDevice, [Next]_vars
  PROVE  OneDevice'
<1> USE DEF TypeInv
<1>0. SUFFICES ASSUME rebinds' = 0 PROVE OneDevice'
  BY DEF OneDevice
<1>1. ASSUME NEW w \in Workers, NEW r \in Records, Claim(w, r) PROVE OneDevice'
  BY <1>1 DEF OneDevice, Claim, Goto, WorkersTyped, event, world, limits
<1>2. ASSUME NEW w \in Workers, NEW v, Decide(w, v), UNCHANGED <<bound, rebinds, sent>>,
             ledger'.device = ledger.device
      PROVE  OneDevice'
  BY <1>2 DEF OneDevice, Decide, Goto, WorkersTyped
<1>3. ASSUME NEW w \in Workers, Unusable(w) PROVE OneDevice'
  BY <1>2, <1>3 DEF Unusable, event, world
<1>4. ASSUME NEW w \in Workers, Check(w) PROVE OneDevice'
  <2>1. UNCHANGED <<ledger, bound, rebinds, sent>>
    BY <1>4 DEF Check, world, limits
  <2>2. CASE \E v : Decide(w, v)
    BY <1>2, <2>1, <2>2
  <2>3. CASE Reserving(w)
    BY <2>1, <2>3 DEF OneDevice, Reserving, Goto, WorkersTyped
  <2> QED BY <1>4, <2>2, <2>3 DEF Check
<1>5. ASSUME NEW w \in Workers, Lock(w) PROVE OneDevice'
  <2>1. UNCHANGED <<bound, rebinds, sent>> /\ pc[w] = "lock"
    BY <1>5 DEF Lock, world, limits
  <2>2. CASE ledger' = Reservation("LOCKED", Mine(w), TRUE) /\ Goto(w, "deliver") /\ UNCHANGED target
    BY <2>1, <2>2 DEF OneDevice, Reservation, Goto, WorkersTyped
  <2>3. CASE Decide(w, "failed") /\ UNCHANGED event
    BY <1>2, <2>1, <2>3 DEF event
  <2> QED BY <1>5, <2>2, <2>3 DEF Lock
<1>6. ASSUME NEW w \in Workers, Refuse(w) PROVE OneDevice'
  BY <1>2, <1>6 DEF Refuse, Unlock, Reservation, world, limits
<1>7. ASSUME NEW w \in Workers, Undelivered(w) PROVE OneDevice'
  <2>1. /\ pc' = [pc EXCEPT ![w] = "finish"] /\ target' = [target EXCEPT ![w] = NoDevice]
        /\ ledger'.device = ledger.device /\ UNCHANGED <<bound, rebinds>>
        /\ UNCHANGED sent \/ sent' = sent \cup {Message(w)}
        /\ pc[w] = "deliver"
    BY <1>7 DEF Undelivered, Unlock, Decide, Goto, Reservation, event
  <2> QED BY <2>1 DEF OneDevice, Message, WorkersTyped
<1>8. ASSUME NEW w \in Workers, Send(w) PROVE OneDevice'
  <2>1. /\ pc' = [pc EXCEPT ![w] = "await"] /\ UNCHANGED <<target, ledger, bound, rebinds>>
        /\ sent' = sent \cup {Message(w)} /\ pc[w] = "deliver"
    BY <1>8 DEF Send, Goto, event, limits
  <2> QED BY <2>1 DEF OneDevice, Message, WorkersTyped
<1>9. ASSUME NEW w \in Workers, Await(w) PROVE OneDevice'
  <2>1. UNCHANGED <<bound, rebinds, sent>> /\ pc[w] = "await"
    BY <1>9 DEF Await, world, limits
  <2>2. CASE Goto(w, "commit") /\ UNCHANGED <<event, target, verdict>>
    BY <2>1, <2>2 DEF OneDevice, Goto, WorkersTyped, event
  <2>3. CASE Unlock(w, ledger.pending)
    BY <1>2, <2>1, <2>3 DEF Unlock, Reservation
  <2> QED BY <1>9, <2>2, <2>3 DEF Await
<1>10. ASSUME NEW w \in Workers, Commit(w) PROVE OneDevice'
  <2>1. /\ UNCHANGED <<bound, rebinds, sent>> /\ pc[w] = "commit" /\ ledger'.device = target[w]
        /\ pc' = [pc EXCEPT ![w] = "finish"] /\ target' = [target EXCEPT ![w] = NoDevice]
    BY <1>10 DEF Commit, Decide, Goto, world, limits
  <2> QED BY <2>1 DEF OneDevice, WorkersTyped
<1>11. ASSUME NEW w \in Workers, Finish(w) \/ Stop(w) PROVE OneDevice'
  <2>1. /\ UNCHANGED <<bound, rebinds, sent, ledger>>
        /\ pc' = [pc EXCEPT ![w] = "idle"] /\ target' = [target EXCEPT ![w] = NoDevice]
    BY <1>11 DEF Finish, Stop, Leave, Goto, event, world, limits
  <2> QED BY <2>1 DEF OneDevice, WorkersTyped
<1>12. ASSUME LockExpires PROVE OneDevice'
  <2>1. /\ ledger \in EventRow /\ ledger' = [ledger EXCEPT !.lease = FALSE]
        /\ UNCHANGED <<pc, target, bound, rebinds, sent>>
    BY <1>12 DEF LockExpires, EventTyped, work, world, limits
  <2>2. ledger'.device = ledger.device
    BY <2>1 DEF EventRow
  <2> QED BY <2>1, <2>2 DEF OneDevice
<1>13. ASSUME NEW d \in Devices, SaveBinding(d) PROVE OneDevice'
  BY <1>0, <1>13 DEF SaveBinding, EventTyped
<1>14. ASSUME \/ \E m \in sent : Process(m)
              \/ \E r \in Records : \E c \in Variants[r] : Retry(r, c)
              \/ UNCHANGED vars
       PROVE  OneDevice'
  <2>1. UNCHANGED <<ledger, pc, target, bound, rebinds, sent>>
    BY <1>14 DEF Process, Retry, vars, work, event, world, limits
  <2> QED BY <2>1 DEF OneDevice
<1> QED
  BY <1>1, <1>3, <1>4, <1>5, <1>6, <1>7, <1>8, <1>9, <1>10, <1>11, <1>12, <1>13, <1>14 DEF Next, Step

\* The ledger part: a step that sends the reserved version, or frees or replaces a reservation.
LEMMA SentNext ==
  ASSUME TypeInv, ClaimHeld, LockInv, SentInv, [Next]_vars
  PROVE  NoneMalformed' /\ ReservationHeldUnlessRebound'
<1> USE DEF TypeInv, SentInv
<1> DEFINE Goal == NoneMalformed' /\ ReservationHeldUnlessRebound'
<1>1. \A m \in sent : m[1] \in Contents /\ m[1] # NoContent
  BY ExternalAssumption DEF EventTyped
\* The event row keeps its version and its reservation.
<1>2. ASSUME ledger'.hash = ledger.hash, ledger'.pending = ledger.pending, UNCHANGED sent,
             rebinds' = 0 => rebinds = 0
      PROVE  Goal
  BY <1>2 DEF NoneMalformed, ReservationHeldUnlessRebound, ReservationHeld, Older
\* A message is sent under the reservation of its version.
<1>3. ASSUME NEW w \in Workers, pc[w] = "deliver", ~Refused(w), sent' = sent \cup {Message(w)},
             ledger'.hash = ledger.hash, ledger'.pending = ledger.pending, UNCHANGED rebinds
      PROVE  Goal
  <2>1. ledger.pending = Mine(w)
    BY <1>3 DEF LockInv, OneSender, Locking
  <2>2. Mine(w) \notin Malformed /\ Message(w)[1] = Mine(w)
    BY <1>3 DEF Refused, Message
  <2> QED BY <1>3, <2>1, <2>2 DEF NoneMalformed, ReservationHeldUnlessRebound, ReservationHeld, Older
<1>4. ASSUME NEW w \in Workers, Lock(w), Current(w) PROVE Goal
  <2>1. /\ UNCHANGED <<sent, rebinds>> /\ pc[w] = "lock"
        /\ ledger'.hash = ledger.hash /\ ledger'.pending = Mine(w)
    BY <1>4 DEF Lock, Reservation, world, limits
  <2>2. ledger.pending \in {Mine(w), NoContent}
    BY <1>4, <2>1 DEF LockInv, CopyFree, Current
  <2> QED BY <1>1, <2>1, <2>2 DEF NoneMalformed, ReservationHeldUnlessRebound, ReservationHeld, Older
<1>5. ASSUME NEW w \in Workers, Refuse(w) PROVE Goal
  <2>1. /\ UNCHANGED <<sent, rebinds>> /\ pc[w] = "deliver" /\ Refused(w)
        /\ ledger'.hash = ledger.hash /\ ledger'.pending = NoContent
    BY <1>5 DEF Refuse, Unlock, Reservation, world, limits
  <2>2. ledger.pending = Mine(w)
    BY <2>1 DEF LockInv, OneSender, Locking
  <2>3. rebinds = 0 => Mine(w) \in Malformed
    BY <2>1 DEF Refused, OneDevice
  <2>4. rebinds = 0 => \A m \in sent : ledger.pending # m[1]
    BY <2>2, <2>3 DEF NoneMalformed
  <2> QED BY <2>1, <2>4 DEF NoneMalformed, ReservationHeldUnlessRebound, ReservationHeld, Older
<1>6. ASSUME NEW w \in Workers, Undelivered(w) PROVE Goal
  <2>1. /\ ledger'.hash = ledger.hash /\ ledger'.pending = ledger.pending
        /\ UNCHANGED rebinds /\ pc[w] = "deliver"
        /\ UNCHANGED sent \/ (~Refused(w) /\ sent' = sent \cup {Message(w)})
    BY <1>6 DEF Undelivered, Unlock, Reservation, event
  <2> QED BY <1>2, <1>3, <2>1
<1>7. ASSUME NEW w \in Workers, Send(w) PROVE Goal
  BY <1>3, <1>7 DEF Send, event, limits
<1>8. ASSUME NEW w \in Workers, Commit(w) PROVE Goal
  <2>1. /\ UNCHANGED <<sent, rebinds>> /\ pc[w] = "commit"
        /\ ledger'.hash = Mine(w) /\ ledger'.pending = NoContent
    BY <1>8 DEF Commit, world, limits
  <2>2. ledger.pending = Mine(w) /\ Newer(w)
    BY <2>1 DEF LockInv, OneSender, LockedNewer, Locking
  <2>3. Mine(w) \in Contents /\ Mine(w) # NoContent
    BY <2>1, ExternalAssumption DEF ClaimHeld, RowsTyped, Mine
  <2>4. ASSUME NEW m \in sent, rebinds = 0 PROVE ledger'.hash = m[1] \/ Older(m[1])'
    <3>1. ledger.pending = m[1] \/ ledger.hash = m[1] \/ Older(m[1])
      BY <2>4 DEF ReservationHeldUnlessRebound, ReservationHeld
    <3>2. CASE ledger.pending = m[1]
      BY <2>1, <2>2, <3>2
    <3>3. CASE ledger.hash = m[1]
      BY <1>1, <2>1, <2>2, <2>3, <3>3 DEF Newer, Older
    <3>4. CASE Older(m[1])
      <4> DEFINE c == m[1]
      <4>1. Order[c] \in Nat /\ Order[ledger.hash] \in Nat /\ Order[Mine(w)] \in Nat
        BY <1>1, <2>3, <3>4, ExternalAssumption DEF Older, EventTyped, EventRow
      <4>2. Order[c] < Order[ledger.hash] /\ Order[ledger.hash] < Order[Mine(w)]
        BY <2>2, <3>4 DEF Older, Newer
      <4> HIDE DEF c
      <4>3. Order[c] < Order[Mine(w)]
        BY <4>1, <4>2
      <4> QED BY <2>1, <2>3, <4>3 DEF Older, c
    <3> QED BY <3>1, <3>2, <3>3, <3>4
  <2> QED BY <2>1, <2>4 DEF NoneMalformed, ReservationHeldUnlessRebound, ReservationHeld
<1>9. ASSUME NEW w \in Workers,
             \/ \E r \in Records : Claim(w, r)
             \/ Unusable(w) \/ Check(w) \/ (Lock(w) /\ ~Current(w)) \/ Await(w) \/ Finish(w) \/ Stop(w)
      PROVE  Goal
  <2>1. ledger'.hash = ledger.hash /\ ledger'.pending = ledger.pending /\ UNCHANGED <<sent, rebinds>>
    BY <1>9 DEF Claim, Unusable, Check, Lock, Await, Unlock, Reservation, Finish, Stop, event, world, limits
  <2> QED BY <1>2, <2>1
<1>10. ASSUME LockExpires PROVE Goal
  <2>1. ledger \in EventRow /\ ledger' = [ledger EXCEPT !.lease = FALSE] /\ UNCHANGED <<sent, rebinds>>
    BY <1>10 DEF LockExpires, EventTyped, world, limits
  <2>2. ledger'.hash = ledger.hash /\ ledger'.pending = ledger.pending
    BY <2>1 DEF EventRow
  <2> QED BY <1>2, <2>1, <2>2
<1>11. ASSUME \/ \E m \in sent : Process(m)
              \/ \E r \in Records : \E c \in Variants[r] : Retry(r, c)
              \/ \E d \in Devices : SaveBinding(d)
              \/ UNCHANGED vars
       PROVE  Goal
  <2>1. UNCHANGED <<ledger, sent>> /\ (UNCHANGED rebinds \/ rebinds' = rebinds + 1)
    BY <1>11 DEF Process, Retry, SaveBinding, vars, event, world, limits
  <2>2. rebinds' = 0 => rebinds = 0
    BY <2>1 DEF EventTyped
  <2> QED BY <1>2, <2>1, <2>2
<1> HIDE DEF Goal
<1>12. Goal
  BY <1>4, <1>5, <1>6, <1>7, <1>8, <1>9, <1>10, <1>11 DEF Next, Step
<1> QED BY <1>12 DEF Goal

----------------------------------------------------------------------------
(* The theorems.                                                            *)

LEMMA ExternalInvariant == Spec => []ExternalInv
<1>1. Init => ExternalInv
  <2> SUFFICES ASSUME Init PROVE ExternalInv
    OBVIOUS
  <2>1. TypeInv
    BY TypeInit
  <2>2. ClaimHeld /\ LockInv
    BY DEF Init, ClaimHeld, LockInv, CopyFree, OneSender, LockedNewer, Locking
  <2>3. SentInv
    BY DEF Init, SentInv, OneDevice, NoneMalformed, ReservationHeldUnlessRebound, ReservationHeld
  <2> QED BY <2>1, <2>2, <2>3 DEF ExternalInv
<1>2. ExternalInv /\ [Next]_vars => ExternalInv'
  <2> SUFFICES ASSUME ExternalInv, [Next]_vars PROVE ExternalInv'
    OBVIOUS
  <2>1. TypeInv' /\ ClaimHeld' /\ LockInv'
    BY TypeNext, ClaimNext, LockNext DEF ExternalInv
  <2>2. OneDevice' /\ NoneMalformed' /\ ReservationHeldUnlessRebound'
    BY DeviceNext, SentNext DEF ExternalInv, SentInv
  <2> QED BY <2>1, <2>2 DEF ExternalInv, SentInv
<1> QED BY <1>1, <1>2, PTL DEF Spec

(* Two interfaces deliver the same event: the worker that sends has the event   *)
(* row to itself, under its own reservation, until it has written the outcome,  *)
(* with any number of workers, records and bindings (processRecord).          *)
THEOREM EventHasOneSender == Spec => []OneSender
<1>1. ExternalInv => OneSender
  BY DEF ExternalInv, LockInv
<1> QED BY <1>1, ExternalInvariant, PTL

(* A version that was handed to ingest keeps the event reserved until it or a  *)
(* newer version is committed, as long as the number keeps its device: no exit, *)
(* failed release, retry or refused delivery frees it (processRecord).        *)
THEOREM SentKeepsReservation == Spec => []ReservationHeldUnlessRebound
<1>1. ExternalInv => ReservationHeldUnlessRebound
  BY DEF ExternalInv, SentInv
<1> QED BY <1>1, ExternalInvariant, PTL

(* As long as the number keeps its device, nothing is handed to ingest after a  *)
(* newer version of the event, however its records are received, claimed and    *)
(* retried (processRecord, Deliver).                                        *)
THEOREM VersionsSentInOrder == Spec => SentInOrderUnlessRebound
<1>1. ExternalInv /\ [Next]_vars =>
        [rebinds = 0 => \A m \in sent' \ sent, n \in sent : Order[n[1]] < Order[m[1]]]_vars
  <2> SUFFICES ASSUME ExternalInv, [Next]_vars, rebinds = 0, NEW m \in sent' \ sent
               PROVE  \A n \in sent : Order[n[1]] < Order[m[1]]
    OBVIOUS
  <2>1. PICK w \in Workers : Undelivered(w) \/ Send(w)
    <3>1. ASSUME NEW w \in Workers, NEW r \in Records, Claim(w, r) PROVE FALSE
      BY <3>1 DEF Claim, world
    <3>2. ASSUME NEW w \in Workers,
                 \/ Unusable(w) \/ Check(w) \/ Lock(w) \/ Refuse(w) \/ Await(w) \/ Commit(w)
                 \/ Finish(w) \/ Stop(w)
          PROVE  FALSE
      BY <3>2 DEF Unusable, Check, Lock, Refuse, Await, Commit, Finish, Stop, world
    <3>3. ASSUME \/ LockExpires
                 \/ \E k \in sent : Process(k)
                 \/ \E r \in Records : \E c \in Variants[r] : Retry(r, c)
                 \/ \E d \in Devices : SaveBinding(d)
                 \/ UNCHANGED vars
          PROVE  FALSE
      BY <3>3 DEF LockExpires, Process, Retry, SaveBinding, vars, world
    <3> QED BY <3>1, <3>2, <3>3 DEF Next, Step
  <2>2. pc[w] = "deliver" /\ m = Message(w) /\ Message(w) \notin sent
    BY <2>1 DEF Undelivered, Send
  <2>3. m[1] = Mine(w)
    BY <2>2 DEF Message
  <2> QED BY <2>2, <2>3, SentBefore DEF ExternalInv
<1> QED BY <1>1, ExternalInvariant, PTL DEF Spec, SentInOrderUnlessRebound

=============================================================================
