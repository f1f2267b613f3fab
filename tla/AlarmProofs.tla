---------------------------- MODULE AlarmProofs ----------------------------
(***************************************************************************)
(* Proofs about alarm notifications, for any delivery loops, limit of         *)
(* attempts and number of failures (a lease that runs out under a loop still    *)
(* working on its batch is one): a task reaches its channel once more at most   *)
(* for every failure, and a final result stays unless a lease ran out so.      *)
(*                                                                          *)
(* Proofs about the outbox that carries the alarms' events, for any processes,  *)
(* batch size, number of events and number of failures: an event that was      *)
(* committed with its alarm is never deleted unpublished.                     *)
(*                                                                          *)
(* Proofs about the deletion of an alarm rule, for any processes, workers,     *)
(* alarms, page size and number of requests: no alarm of the rule stays open.  *)
(***************************************************************************)
EXTENDS Notifications, OutboxTable, RuleAlarms, FiniteSetTheorems, WellFoundedInduction, TLAPS

----------------------------------------------------------------------------
(* Types.                                                                   *)

\* A batch maps some tasks to attempts below the limit.
Batches == UNION {[S -> 0..MaxAttempts - 1] : S \in SUBSET Tasks}

\* The rows of notification_task; one that may be claimed has attempts left.
RowsTyped ==
    /\ task \in [Tasks -> TaskRow]
    /\ \A t \in Tasks : /\ task[t].leased => task[t].status = "SENDING"
                        /\ task[t].status \notin Final => task[t].attempts < MaxAttempts

\* The delivery loops: each delivers a task of its batch and has a result for it.
LoopsTyped ==
    /\ batch \in [Procs -> Batches]
    /\ cur \in [Procs -> Tasks \cup {NoTask}]
    /\ outcome \in [Procs -> {"none", "retry", "SENT"}]
    /\ \A p \in Procs : cur[p] # NoTask => cur[p] \in DOMAIN batch[p] /\ outcome[p] # "none"

\* The alarm, the policy and the counters.
AlarmTyped ==
    /\ status \in {"NONE", "ACTIVE", "ACKED", "RECOVERED"}
    /\ recovered \in BOOLEAN /\ policy \in BOOLEAN
    /\ sends \in [Tasks -> Nat] /\ overran \in BOOLEAN
    /\ faults \in 0..MaxFaults

TypeInv == AlarmTyped /\ RowsTyped /\ LoopsTyped

\* What is read from a batch.
LEMMA BatchParts ==
  ASSUME NEW f \in Batches
  PROVE  DOMAIN f \subseteq Tasks /\ \A t \in DOMAIN f : f[t] \in 0..MaxAttempts - 1
BY DEF Batches

\* A batch without one of its tasks is a batch.
LEMMA DropIsBatch ==
  ASSUME NEW f \in Batches, NEW t
  PROVE  Drop(f, t) \in Batches /\ DOMAIN Drop(f, t) = DOMAIN f \ {t}
<1> DEFINE S == DOMAIN f \ {t}
<1>1. S \in SUBSET Tasks /\ \A u \in S : f[u] \in 0..MaxAttempts - 1
  BY BatchParts
<1>2. Drop(f, t) \in [S -> 0..MaxAttempts - 1]
  BY <1>1 DEF Drop
<1> QED BY <1>1, <1>2 DEF Batches, Drop

\* So is the empty batch.
LEMMA NoBatchIsBatch == NoBatch \in Batches /\ DOMAIN NoBatch = {}
<1>1. NoBatch \in [{} -> 0..MaxAttempts - 1]
  BY DEF NoBatch
<1> QED BY <1>1 DEF Batches, NoBatch

\* What FinishTask writes: the result, or one more attempt until the limit.
LEMMA ResultRow ==
  ASSUME NEW r \in {"retry"} \cup Final, NEW n \in 0..MaxAttempts - 1
  PROVE  /\ Result(r, n) \in TaskRow
         /\ Result(r, n).leased = FALSE
         /\ Result(r, n).status \in {"PENDING"} \cup Final
         /\ Result(r, n).status \notin Final => Result(r, n).attempts < MaxAttempts
         /\ Result(r, n).status = "SENT" <=> r = "SENT"
BY NotificationAssumption DEF Result, Ended, TaskRow, Final

\* Queueing tasks keeps every row that exists.
LEMMA EnqueueRows ==
  ASSUME RowsTyped, NEW ts, Enqueue(ts)
  PROVE  /\ RowsTyped'
         /\ \A t \in Tasks : task[t].status # "NONE" => task'[t] = task[t]
         /\ \A t \in Tasks : task[t].status = "NONE" => task'[t].status \in {"NONE", "PENDING"}
BY NotificationAssumption DEF RowsTyped, Enqueue, NewTask, TaskRow, Final

\* Writing a result into one row.
LEMMA FinishRows ==
  ASSUME RowsTyped, NEW t \in Tasks, NEW r \in {"retry"} \cup Final, NEW n \in 0..MaxAttempts - 1,
         task' = [task EXCEPT ![t] = Result(r, n)]
  PROVE  /\ RowsTyped'
         /\ \A u \in Tasks \ {t} : task'[u] = task[u]
         /\ task'[t].status = "SENT" <=> r = "SENT"
<1> DEFINE row == Result(r, n)
<1>1. /\ row \in TaskRow /\ row.leased = FALSE
      /\ row.status \notin Final => row.attempts < MaxAttempts
      /\ row.status = "SENT" <=> r = "SENT"
  BY ResultRow
<1>2. task' = [task EXCEPT ![t] = row]
  OBVIOUS
<1> HIDE DEF row
<1> QED BY <1>1, <1>2 DEF RowsTyped

\* The delay of a task, or its lease, is over.
LEMMA PassingRows ==
  ASSUME RowsTyped, NEW t \in Tasks, Passing(t)
  PROVE  /\ RowsTyped'
         /\ \A u \in Tasks : task'[u].status = task[u].status
         /\ \A u \in Tasks : u # t => task'[u] = task[u]
         /\ BecomesDue(t) => task'[t].leased = task[t].leased
<1> DEFINE row == task'[t]
<1>0. task[t] \in TaskRow
  BY DEF RowsTyped
<1>1. /\ row.status = task[t].status /\ row.attempts = task[t].attempts
      /\ BecomesDue(t) => row.leased = task[t].leased
      /\ row.leased => task[t].leased
      /\ row \in TaskRow
  <2>1. CASE BecomesDue(t)
    <3>1. row = [task[t] EXCEPT !.due = TRUE]
      BY <2>1 DEF BecomesDue, RowsTyped
    <3> QED BY <1>0, <3>1 DEF TaskRow
  <2>2. CASE LeaseExpires(t)
    <3>1. row = [task[t] EXCEPT !.leased = FALSE]
      BY <2>2 DEF LeaseExpires, RowsTyped
    <3>2. BecomesDue(t) => row.leased = task[t].leased
      BY <2>2 DEF LeaseExpires, BecomesDue, RowsTyped
    <3> QED BY <1>0, <3>1, <3>2 DEF TaskRow
  <2> QED BY <2>1, <2>2 DEF Passing
<1>2. task' = [task EXCEPT ![t] = row]
  BY DEF Passing, BecomesDue, LeaseExpires, RowsTyped
<1> HIDE DEF row
<1> QED BY <1>1, <1>2 DEF RowsTyped

\* A loop that gives its batch up.
LEMMA GiveUpLoops ==
  ASSUME LoopsTyped, NEW p \in Procs, GiveUp(p)
  PROVE  /\ LoopsTyped'
         /\ DOMAIN batch'[p] = {} /\ cur'[p] = NoTask
         /\ \A q \in Procs \ {p} : UNCHANGED <<batch[q], cur[q], outcome[q]>>
BY NoBatchIsBatch DEF LoopsTyped, GiveUp

\* A loop that has ended one of its tasks.
LEMMA DropLoops ==
  ASSUME LoopsTyped, NEW p \in Procs, NEW t \in DOMAIN batch[p], cur[p] \in {t, NoTask},
         batch' = [batch EXCEPT ![p] = Drop(@, t)],
         cur' = [cur EXCEPT ![p] = NoTask],
         outcome' \in [Procs -> {"none", "retry", "SENT"}],
         \A q \in Procs \ {p} : outcome'[q] = outcome[q]
  PROVE  /\ LoopsTyped'
         /\ DOMAIN batch'[p] = DOMAIN batch[p] \ {t} /\ cur'[p] = NoTask
         /\ \A q \in Procs \ {p} : UNCHANGED <<batch[q], cur[q], outcome[q]>>
<1>1. Drop(batch[p], t) \in Batches /\ DOMAIN Drop(batch[p], t) = DOMAIN batch[p] \ {t}
  BY DropIsBatch DEF LoopsTyped
<1> QED BY <1>1 DEF LoopsTyped

\* A loop that has tried to send one of its tasks.
LEMMA SendLoops ==
  ASSUME LoopsTyped, NEW p \in Procs, NEW t \in DOMAIN batch[p], NEW r \in {"retry", "SENT"},
         cur' = [cur EXCEPT ![p] = t], outcome' = [outcome EXCEPT ![p] = r], UNCHANGED batch
  PROVE  LoopsTyped' /\ t \in Tasks
<1>1. t \in Tasks
  BY BatchParts DEF LoopsTyped
<1> QED BY <1>1 DEF LoopsTyped

\* A claim leases what it takes.
LEMMA ClaimEffect ==
  ASSUME TypeInv, NEW p \in Procs, ClaimDueTasks(p)
  PROVE  /\ RowsTyped' /\ LoopsTyped'
         /\ DOMAIN batch[p] = {}
         /\ DOMAIN batch'[p] = {t \in Tasks : Claimable(t)}
         /\ \A q \in Procs \ {p} : batch'[q] = batch[q]
         /\ \A t \in Tasks : IF Claimable(t) THEN task'[t].status = "SENDING" /\ task'[t].leased
                                             ELSE task'[t] = task[t]
<1> DEFINE ts == {t \in Tasks : Claimable(t)}
           b == [t \in ts |-> task[t].attempts]
<1>1. /\ DOMAIN batch[p] = {}
      /\ task' = [t \in Tasks |-> IF t \in ts THEN Claimed(task[t]) ELSE task[t]]
      /\ batch' = [batch EXCEPT ![p] = b]
      /\ UNCHANGED <<cur, outcome>>
  BY DEF ClaimDueTasks
<1>2. \A t \in ts : task[t].attempts \in 0..MaxAttempts - 1
  BY NotificationAssumption DEF TypeInv, RowsTyped, TaskRow, Claimable, Final
<1>3. b \in Batches /\ DOMAIN b = ts
  <2>1. b \in [ts -> 0..MaxAttempts - 1] /\ ts \in SUBSET Tasks
    BY <1>2
  <2> HIDE DEF b, ts
  <2> QED BY <2>1 DEF Batches
<1>4. RowsTyped'
  BY <1>1, <1>2, NotificationAssumption DEF TypeInv, RowsTyped, TaskRow, Claimed, Final
<1>5. ts \subseteq Tasks
  OBVIOUS
<1>6. \A t \in Tasks : IF t \in ts THEN task'[t].status = "SENDING" /\ task'[t].leased
                                   ELSE task'[t] = task[t]
  BY <1>1 DEF TypeInv, RowsTyped, TaskRow, Claimed
<1> HIDE DEF b
<1>7. LoopsTyped' /\ DOMAIN batch'[p] = ts /\ \A q \in Procs \ {p} : batch'[q] = batch[q]
  BY <1>1, <1>3 DEF TypeInv, LoopsTyped
<1> QED BY <1>1, <1>4, <1>6, <1>7

\* Types hold initially.
LEMMA TypeInit == Init => TypeInv
<1> SUFFICES ASSUME Init PROVE TypeInv
  OBVIOUS
<1> USE NotificationAssumption DEF Init
<1>1. AlarmTyped
  <2>1. recovered \in BOOLEAN /\ policy \in BOOLEAN /\ overran \in BOOLEAN
    BY Zenon
  <2>2. sends \in [Tasks -> Nat] /\ faults \in 0..MaxFaults
    OBVIOUS
  <2> QED BY <2>1, <2>2 DEF AlarmTyped
<1>2. RowsTyped
  BY DEF RowsTyped, NoRow, TaskRow, Final
<1>3. LoopsTyped
  BY NoBatchIsBatch DEF LoopsTyped
<1> QED BY <1>1, <1>2, <1>3 DEF TypeInv

\* One failure more.
LEMMA FaultTyped ==
  ASSUME faults \in 0..MaxFaults, Fault
  PROVE  faults' \in 0..MaxFaults /\ faults' = faults + 1
BY NotificationAssumption DEF Fault

\* Every step keeps the types.
LEMMA TypeStep ==
  ASSUME TypeInv, [Next]_vars
  PROVE  TypeInv'
<1> USE NotificationAssumption
<1>0. AlarmTyped /\ RowsTyped /\ LoopsTyped
  BY DEF TypeInv
<1>1. CASE UNCHANGED vars
  BY <1>0, <1>1 DEF vars, alarm, delivery, counts, TypeInv, AlarmTyped, RowsTyped, LoopsTyped
<1>2. ASSUME UNCHANGED <<task, batch, cur, outcome>> PROVE RowsTyped' /\ LoopsTyped'
  BY <1>0, <1>2 DEF RowsTyped, LoopsTyped
<1>3. CASE Raise \/ Acknowledge \/ Recover \/ DisablePolicy
  <2>1. AlarmTyped'
    BY <1>0, <1>3, FaultTyped DEF AlarmTyped, Raise, Acknowledge, Recover, DisablePolicy, alarm, counts
  <2>2. UNCHANGED <<task, batch, cur, outcome>>
    BY <1>3 DEF Raise, Acknowledge, Recover, DisablePolicy, delivery
  <2> QED BY <1>2, <2>1, <2>2 DEF TypeInv
<1>4. CASE HandleReported \/ HandleRecovered
  <2>1. AlarmTyped' /\ LoopsTyped'
    BY <1>0, <1>4 DEF AlarmTyped, LoopsTyped, HandleReported, HandleRecovered, alarm, delivery, counts
  <2>2. RowsTyped'
    BY <1>0, <1>4, EnqueueRows DEF HandleReported, HandleRecovered
  <2> QED BY <2>1, <2>2 DEF TypeInv
<1>5. ASSUME NEW t \in Tasks, Passing(t) PROVE TypeInv'
  <2>1. AlarmTyped' /\ LoopsTyped'
    BY <1>0, <1>5, FaultTyped DEF AlarmTyped, LoopsTyped, Passing, BecomesDue, LeaseExpires, alarm, delivery, counts
  <2>2. RowsTyped'
    BY <1>0, <1>5, PassingRows
  <2> QED BY <2>1, <2>2 DEF TypeInv
<1>6. ASSUME NEW p \in Procs, ClaimDueTasks(p) PROVE TypeInv'
  <2>1. AlarmTyped'
    BY <1>0, <1>6 DEF AlarmTyped, ClaimDueTasks, alarm, counts
  <2> QED BY <1>6, <2>1, ClaimEffect DEF TypeInv
<1>7. ASSUME NEW p \in Procs, NEW t \in Tasks, Send(p, t) \/ SendFails(p, t) PROVE TypeInv'
  <2>1. /\ t \in DOMAIN batch[p] /\ UNCHANGED <<task, batch>>
        /\ \E r \in {"retry", "SENT"} : cur' = [cur EXCEPT ![p] = t] /\ outcome' = [outcome EXCEPT ![p] = r]
    BY <1>7 DEF Send, SendFails
  <2>2. LoopsTyped'
    BY <1>0, <2>1, SendLoops
  <2>3. RowsTyped'
    BY <1>0, <2>1 DEF RowsTyped
  <2>4. AlarmTyped'
    BY <1>0, <1>7, FaultTyped DEF AlarmTyped, Send, SendFails, alarm, counts
  <2> QED BY <2>2, <2>3, <2>4 DEF TypeInv
<1>8. ASSUME NEW p \in Procs, NEW t \in Tasks, Cancel(p, t) \/ Reject(p, t) PROVE TypeInv'
  <2>1. /\ t \in DOMAIN batch[p] /\ cur[p] = NoTask
        /\ batch' = [batch EXCEPT ![p] = Drop(@, t)] /\ UNCHANGED <<cur, outcome>>
        /\ \E r \in Final : task' = [task EXCEPT ![t] = Result(r, batch[p][t])]
    BY <1>8 DEF Cancel, Reject, Final
  <2>2. LoopsTyped'
    <3>1. cur' = [cur EXCEPT ![p] = NoTask]
      BY <1>0, <2>1 DEF LoopsTyped
    <3> QED BY <1>0, <2>1, <3>1, DropLoops DEF LoopsTyped
  <2>3. batch[p][t] \in 0..MaxAttempts - 1
    BY <1>0, <2>1, BatchParts DEF LoopsTyped
  <2>4. RowsTyped'
    BY <1>0, <2>1, <2>3, FinishRows
  <2>5. AlarmTyped'
    BY <1>0, <1>8 DEF AlarmTyped, Cancel, Reject, alarm, counts
  <2> QED BY <2>2, <2>4, <2>5 DEF TypeInv
<1>9. ASSUME NEW p \in Procs, FinishTask(p) PROVE TypeInv'
  <2> DEFINE t == cur[p]
  <2>1. t \in DOMAIN batch[p] /\ t \in Tasks /\ outcome[p] \in {"retry", "SENT"}
    BY <1>0, <1>9, BatchParts DEF FinishTask, LoopsTyped
  <2>2. batch[p][t] \in 0..MaxAttempts - 1
    BY <1>0, <2>1, BatchParts DEF LoopsTyped
  <2>3. RowsTyped'
    BY <1>0, <1>9, <2>1, <2>2, FinishRows DEF FinishTask, Final
  <2>4. LoopsTyped'
    BY <1>0, <1>9, <2>1, DropLoops DEF FinishTask, LoopsTyped
  <2>5. AlarmTyped'
    BY <1>0, <1>9 DEF AlarmTyped, FinishTask, alarm, counts
  <2> QED BY <2>3, <2>4, <2>5 DEF TypeInv
<1>10. ASSUME NEW p \in Procs, FinishFails(p) \/ Crash(p) PROVE TypeInv'
  <2>1. LoopsTyped'
    BY <1>0, <1>10, GiveUpLoops DEF FinishFails, Crash
  <2>2. RowsTyped' /\ AlarmTyped'
    BY <1>0, <1>10, FaultTyped DEF RowsTyped, AlarmTyped, FinishFails, Crash, alarm, counts
  <2> QED BY <2>1, <2>2 DEF TypeInv
<1> QED BY <1>1, <1>3, <1>4, <1>5, <1>6, <1>7, <1>8, <1>9, <1>10 DEF Next, Deliver

\* The extended types hold in every reachable state.
LEMMA TypeInvHolds == Spec => []TypeInv
BY TypeInit, TypeStep, PTL DEF Spec

\* Every variable has its type.
THEOREM NotificationTypeCorrect == Spec => []NotificationTypeOK
<1>1. TypeInv => NotificationTypeOK
  BY DEF TypeInv, AlarmTyped, RowsTyped, LoopsTyped, NotificationTypeOK
<1> QED BY <1>1, TypeInvHolds, PTL

----------------------------------------------------------------------------
(* The lease: what makes a task reach its channel once.                     *)

\* As long as no lease ran out under its holder, a task in a batch is leased, so
\* nobody claims it,
HeldLeased ==
    ~overran => \A p \in Procs : \A t \in DOMAIN batch[p] : task[t].status = "SENDING" /\ task[t].leased

\* and no task is in two batches.
HeldOnce ==
    ~overran => \A p, q \in Procs : \A t \in DOMAIN batch[p] \cap DOMAIN batch[q] : p = q

\* The loops that may still send a task,
Unsent(t) == {p \in Procs : t \in DOMAIN batch[p] /\ ~(cur[p] = t /\ outcome[p] = "SENT")}

\* and whether one more may come to hold it without another failure.
Open(t) == IF task[t].status \in Final \/ (task[t].leased /\ Held(t)) THEN 0 ELSE 1

\* Every message that was sent, may be sent, or may come to be sent is the first
\* one or has a failure of its own.
Counted(t) == sends[t] + Cardinality(Unsent(t)) + Open(t) <= 1 + faults

NotifyInv == TypeInv /\ HeldLeased /\ HeldOnce /\ \A t \in Tasks : Counted(t)

\* What is counted are natural numbers.
LEMMA CountFacts ==
  ASSUME TypeInv, NEW t \in Tasks
  PROVE  /\ IsFiniteSet(Unsent(t)) /\ Cardinality(Unsent(t)) \in Nat
         /\ Open(t) \in {0, 1} /\ sends[t] \in Nat /\ faults \in Nat
<1>1. IsFiniteSet(Unsent(t))
  BY NotificationAssumption, FS_Subset DEF Unsent
<1> QED BY <1>1, FS_CardinalityType, NotificationAssumption DEF TypeInv, AlarmTyped, Open

\* The same, of the next state.
LEMMA CountFactsNext ==
  ASSUME TypeInv', NEW t \in Tasks
  PROVE  /\ IsFiniteSet(Unsent(t)') /\ Cardinality(Unsent(t)') \in Nat
         /\ Open(t)' \in {0, 1} /\ sends'[t] \in Nat /\ faults' \in Nat
<1>1. Unsent(t)' \subseteq Procs
  BY DEF Unsent
<1>2. IsFiniteSet(Unsent(t)')
  BY <1>1, NotificationAssumption, FS_Subset
<1> QED BY <1>2, FS_CardinalityType, NotificationAssumption DEF TypeInv, AlarmTyped, Open

\* No loop takes a task: what was sent and may be taken is paid for by failures.
LEMMA CountMoves ==
  ASSUME TypeInv, TypeInv', NEW t \in Tasks, Counted(t), Unsent(t)' \subseteq Unsent(t),
         sends'[t] + Open(t)' + faults <= sends[t] + Open(t) + faults'
  PROVE  Counted(t)'
<1>1. Cardinality(Unsent(t)') <= Cardinality(Unsent(t))
  BY CountFacts, FS_Subset
<1> QED BY <1>1, CountFacts, CountFactsNext DEF Counted

\* A loop has sent a task or ended it.
LEMMA CountRemoves ==
  ASSUME TypeInv, TypeInv', NEW t \in Tasks, Counted(t), NEW p \in Unsent(t),
         Unsent(t)' \subseteq Unsent(t) \ {p},
         sends'[t] + Open(t)' + faults <= sends[t] + Open(t) + 1 + faults'
  PROVE  Counted(t)'
<1>1. /\ IsFiniteSet(Unsent(t) \ {p})
      /\ Cardinality(Unsent(t) \ {p}) = Cardinality(Unsent(t)) - 1
  BY CountFacts, FS_RemoveElement
<1>2. Cardinality(Unsent(t)') <= Cardinality(Unsent(t) \ {p})
  BY <1>1, FS_Subset
<1> QED BY <1>1, <1>2, CountFacts, CountFactsNext DEF Counted

\* A loop claims a task that was open.
LEMMA CountClaims ==
  ASSUME TypeInv, TypeInv', NEW t \in Tasks, Counted(t), NEW p \in Procs,
         Unsent(t)' \subseteq Unsent(t) \cup {p}, Open(t) = 1, Open(t)' = 0,
         sends'[t] = sends[t], faults' = faults
  PROVE  Counted(t)'
<1>0. IsFiniteSet(Unsent(t)) /\ Cardinality(Unsent(t)) \in Nat
  BY CountFacts
<1> DEFINE S == Unsent(t)
<1>1. /\ IsFiniteSet(S \cup {p})
      /\ Cardinality(S \cup {p}) = Cardinality(S) \/ Cardinality(S \cup {p}) = Cardinality(S) + 1
  <2> HIDE DEF S
  <2>1. IsFiniteSet(S)
    BY <1>0 DEF S
  <2> QED BY <2>1, FS_AddElement
<1>2. Cardinality(Unsent(t)') <= Cardinality(Unsent(t) \cup {p})
  BY <1>1, FS_Subset
<1>3. Cardinality(Unsent(t) \cup {p}) \in Nat
  BY <1>1, FS_CardinalityType
<1> QED BY <1>1, <1>2, <1>3, CountFacts, CountFactsNext DEF Counted

\* The invariant holds initially.
LEMMA NotifyInit == Init => NotifyInv
<1> SUFFICES ASSUME Init PROVE NotifyInv
  OBVIOUS
<1>1. TypeInv
  BY TypeInit
<1>2. \A p \in Procs : DOMAIN batch[p] = {}
  BY NoBatchIsBatch DEF Init
<1>3. ASSUME NEW t \in Tasks PROVE Counted(t)
  <2>1. Unsent(t) = {}
    BY <1>2 DEF Unsent
  <2> QED BY <1>1, <1>3, <2>1, CountFacts, FS_EmptySet DEF Counted, Init
<1> QED BY <1>1, <1>2, <1>3 DEF NotifyInv, HeldLeased, HeldOnce

\* Batches that only shrink, over rows that stay, keep the leases.
LEMMA ShrinkKeepsLeases ==
  ASSUME HeldLeased, HeldOnce, overran => overran',
         ~overran => \A p \in Procs : DOMAIN batch'[p] \subseteq DOMAIN batch[p],
         ~overran => \A p \in Procs : \A t \in DOMAIN batch'[p] :
             task'[t].status = task[t].status /\ task'[t].leased = task[t].leased
  PROVE  HeldLeased' /\ HeldOnce'
BY DEF HeldLeased, HeldOnce

\* Every step keeps the invariant, also when leases run out under a loop that
\* still works on its batch.
LEMMA NotifyStep ==
  ASSUME NotifyInv, [Next]_vars
  PROVE  NotifyInv'
<1> USE NotificationAssumption
<1>0. TypeInv /\ HeldLeased /\ HeldOnce /\ TypeInv' /\ \A t \in Tasks : Counted(t)
  BY TypeStep DEF NotifyInv
<1>a. sends \in [Tasks -> Nat] /\ faults \in Nat /\ LoopsTyped /\ RowsTyped
  BY <1>0 DEF TypeInv, AlarmTyped
<1>b. \A p \in Procs : DOMAIN batch[p] \subseteq Tasks
  BY <1>a, BatchParts DEF LoopsTyped
\* A task that the step does not touch keeps its count.
<1>c. ASSUME NEW t \in Tasks, sends'[t] = sends[t], faults' \in {faults, faults + 1},
             Unsent(t)' \subseteq Unsent(t), Open(t)' <= Open(t) \/ faults' = faults + 1
      PROVE  Counted(t)'
  <2>1. /\ Open(t) \in {0, 1} /\ Open(t)' \in {0, 1}
        /\ sends'[t] + Open(t)' + faults <= sends[t] + Open(t) + faults'
    BY <1>0, <1>a, <1>c, CountFacts, CountFactsNext
  <2> QED BY <1>0, <1>c, <2>1, CountMoves
\* So does one whose row and holders stay, as far as its count can tell.
<1>d. ASSUME NEW t \in Tasks, sends'[t] = sends[t], faults' \in {faults, faults + 1},
             task'[t].status = task[t].status, task'[t].leased = task[t].leased,
             \A p \in Procs : /\ t \in DOMAIN batch'[p] <=> t \in DOMAIN batch[p]
                              /\ cur'[p] = t /\ outcome'[p] = "SENT" <=> cur[p] = t /\ outcome[p] = "SENT"
      PROVE  Counted(t)'
  <2>1. Unsent(t)' = Unsent(t) /\ Open(t)' = Open(t)
    BY <1>d DEF Unsent, Open, Held
  <2>2. Open(t)' <= Open(t)
    BY <1>0, <2>1, CountFacts
  <2> QED BY <1>c, <1>d, <2>1, <2>2
<1>1. CASE UNCHANGED vars
  <2>1. UNCHANGED <<task, batch, cur, outcome, sends, overran, faults>>
    BY <1>1 DEF vars, alarm, delivery, counts
  <2>2. \A t \in Tasks : Counted(t)'
    BY <1>d, <2>1
  <2> QED BY <1>0, <2>1, <2>2 DEF NotifyInv, HeldLeased, HeldOnce
<1>2. CASE Raise \/ Acknowledge \/ Recover \/ DisablePolicy
  <2>1. UNCHANGED <<task, batch, cur, outcome, sends, overran>> /\ faults' \in {faults, faults + 1}
    BY <1>2 DEF Raise, Acknowledge, Recover, DisablePolicy, delivery, counts, Fault
  <2>2. HeldLeased' /\ HeldOnce'
    BY <1>0, <2>1 DEF HeldLeased, HeldOnce
  <2>3. \A t \in Tasks : Counted(t)'
    BY <1>d, <2>1
  <2> QED BY <1>0, <2>2, <2>3 DEF NotifyInv
<1>3. CASE HandleReported \/ HandleRecovered
  <2>1. UNCHANGED <<batch, cur, outcome, sends, overran, faults>>
    BY <1>3 DEF HandleReported, HandleRecovered, delivery, counts
  <2>2. \A t \in Tasks : task[t].status # "NONE" => task'[t] = task[t]
    BY <1>a, <1>3, EnqueueRows DEF HandleReported, HandleRecovered
  <2>3. HeldLeased' /\ HeldOnce'
    BY <1>0, <1>b, <2>1, <2>2 DEF HeldLeased, HeldOnce
  <2>4. ASSUME NEW t \in Tasks PROVE Counted(t)'
    <3>1. CASE task[t].status # "NONE"
      BY <1>d, <2>1, <2>2, <3>1
    <3>2. CASE task[t].status = "NONE"
      <4>1. Open(t) = 1
        BY <1>a, <3>2 DEF Open, Final, RowsTyped
      <4>2. Open(t)' <= Open(t)
        BY <1>0, <4>1, CountFactsNext
      <4>3. Unsent(t)' = Unsent(t)
        BY <2>1 DEF Unsent
      <4> QED BY <1>c, <2>1, <4>2, <4>3
    <3> QED BY <3>1, <3>2
  <2> QED BY <1>0, <2>3, <2>4 DEF NotifyInv
<1>4. ASSUME NEW t \in Tasks, Passing(t) PROVE NotifyInv'
  <2>1. /\ UNCHANGED <<batch, cur, outcome, sends>>
        /\ faults' \in {faults, faults + 1}
        /\ LeaseExpires(t) /\ Held(t) => overran' /\ faults' = faults + 1
        /\ overran => overran'
    BY <1>4 DEF Passing, BecomesDue, LeaseExpires, delivery, counts, Fault
  <2>2. /\ \A u \in Tasks : task'[u].status = task[u].status
        /\ \A u \in Tasks : u # t => task'[u] = task[u]
        /\ BecomesDue(t) => task'[t].leased = task[t].leased
    BY <1>a, <1>4, PassingRows
  <2>3. ASSUME ~overran', NEW p \in Procs, NEW u \in DOMAIN batch[p]
        PROVE  task'[u].leased = task[u].leased
    <3>1. CASE u = t
      <4>1. ~LeaseExpires(t)
        BY <2>1, <2>3, <3>1 DEF Held
      <4> QED BY <1>4, <2>2, <3>1, <4>1 DEF Passing
    <3> QED BY <1>b, <2>2, <3>1
  <2>4. HeldLeased' /\ HeldOnce'
    BY <1>0, <1>b, <2>1, <2>2, <2>3 DEF HeldLeased, HeldOnce
  <2>5. ASSUME NEW u \in Tasks PROVE Counted(u)'
    <3>1. CASE u # t \/ BecomesDue(t)
      BY <1>d, <2>1, <2>2, <3>1
    <3>2. CASE u = t /\ LeaseExpires(t)
      <4>1. Unsent(t)' = Unsent(t)
        BY <2>1 DEF Unsent
      <4>2. CASE Held(t)
        BY <1>c, <2>1, <3>2, <4>1, <4>2
      <4>3. CASE ~Held(t)
        <5>1. Open(t) = 1
          BY <1>a, <3>2, <4>3 DEF Open, LeaseExpires, RowsTyped, Final
        <5>2. Open(t)' <= Open(t)
          BY <1>0, <5>1, CountFactsNext
        <5> QED BY <1>c, <2>1, <3>2, <4>1, <5>2
      <4> QED BY <4>2, <4>3
    <3> QED BY <1>4, <3>1, <3>2 DEF Passing
  <2> QED BY <1>0, <2>4, <2>5 DEF NotifyInv
<1>5. ASSUME NEW p \in Procs, ClaimDueTasks(p) PROVE NotifyInv'
  <2>1. UNCHANGED <<cur, outcome, sends, overran, faults>>
    BY <1>5 DEF ClaimDueTasks, counts
  <2>2. /\ DOMAIN batch[p] = {}
        /\ DOMAIN batch'[p] = {t \in Tasks : Claimable(t)}
        /\ \A q \in Procs \ {p} : batch'[q] = batch[q]
        /\ \A t \in Tasks : IF Claimable(t) THEN task'[t].status = "SENDING" /\ task'[t].leased
                                            ELSE task'[t] = task[t]
    BY <1>0, <1>5, ClaimEffect
  <2>3. ~overran => \A q \in Procs : \A t \in DOMAIN batch[q] : ~Claimable(t)
    BY <1>0 DEF HeldLeased, Claimable
  <2>4. HeldLeased'
    BY <1>0, <1>b, <2>1, <2>2, <2>3 DEF HeldLeased
  <2>5. HeldOnce'
    BY <1>0, <2>1, <2>2, <2>3 DEF HeldOnce
  <2>6. ASSUME NEW t \in Tasks PROVE Counted(t)'
    <3>1. CASE Claimable(t)
      <4>1. Open(t) = 1
        BY <1>a, <3>1 DEF Open, Claimable, RowsTyped, Final
      <4>2. t \in DOMAIN batch'[p]
        BY <2>2, <3>1
      <4>3. Open(t)' = 0
        BY <2>2, <3>1, <4>2 DEF Open, Held
      <4>4. Unsent(t)' \subseteq Unsent(t) \cup {p}
        BY <2>1, <2>2 DEF Unsent
      <4> QED BY <1>0, <2>1, <4>1, <4>3, <4>4, CountClaims
    <3>2. CASE ~Claimable(t)
      <4>1. \A q \in Procs : t \in DOMAIN batch'[q] <=> t \in DOMAIN batch[q]
        BY <2>2, <3>2
      <4> QED BY <1>d, <2>1, <2>2, <3>2, <4>1
    <3> QED BY <3>1, <3>2
  <2> QED BY <1>0, <2>4, <2>5, <2>6 DEF NotifyInv
<1>6. ASSUME NEW p \in Procs, NEW t \in Tasks, Send(p, t) PROVE NotifyInv'
  <2>1. /\ cur[p] = NoTask /\ t \in DOMAIN batch[p]
        /\ cur' = [cur EXCEPT ![p] = t] /\ outcome' = [outcome EXCEPT ![p] = "SENT"]
        /\ sends' = [sends EXCEPT ![t] = @ + 1]
        /\ UNCHANGED <<task, batch, overran, faults>>
    BY <1>6 DEF Send
  <2>2. HeldLeased' /\ HeldOnce'
    BY <1>0, <2>1 DEF HeldLeased, HeldOnce
  <2>3. Counted(t)'
    <3>1. p \in Unsent(t)
      BY <2>1 DEF Unsent
    <3>2. Unsent(t)' \subseteq Unsent(t) \ {p}
      BY <1>a, <2>1 DEF Unsent, LoopsTyped
    <3>3. Open(t)' = Open(t) /\ Open(t) \in {0, 1}
      BY <1>0, <2>1, CountFacts DEF Open, Held
    <3>4. sends'[t] + Open(t)' + faults <= sends[t] + Open(t) + 1 + faults'
      BY <1>a, <2>1, <3>3
    <3> QED BY <1>0, <3>1, <3>2, <3>4, CountRemoves
  <2>4. ASSUME NEW u \in Tasks \ {t} PROVE Counted(u)'
    BY <1>a, <1>d, <2>1 DEF LoopsTyped
  <2> QED BY <1>0, <2>2, <2>3, <2>4 DEF NotifyInv
<1>7. ASSUME NEW p \in Procs, NEW t \in Tasks, SendFails(p, t) PROVE NotifyInv'
  <2>1. /\ cur[p] = NoTask /\ t \in DOMAIN batch[p]
        /\ cur' = [cur EXCEPT ![p] = t] /\ outcome' = [outcome EXCEPT ![p] = "retry"]
        /\ UNCHANGED <<task, batch, overran>>
    BY <1>7 DEF SendFails
  <2>2. \/ faults' = faults + 1 /\ sends' = [sends EXCEPT ![t] = @ + 1]
        \/ UNCHANGED <<sends, faults>>
    BY <1>7 DEF SendFails, Fault
  <2>3. HeldLeased' /\ HeldOnce'
    BY <1>0, <2>1 DEF HeldLeased, HeldOnce
  <2>4. Counted(t)'
    <3>1. Unsent(t)' \subseteq Unsent(t)
      BY <1>a, <2>1 DEF Unsent, LoopsTyped
    <3>2. Open(t)' = Open(t) /\ Open(t) \in {0, 1}
      BY <1>0, <2>1, CountFacts DEF Open, Held
    <3>3. sends'[t] + Open(t)' + faults <= sends[t] + Open(t) + faults'
      BY <1>a, <2>2, <3>2
    <3> QED BY <1>0, <3>1, <3>3, CountMoves
  <2>5. ASSUME NEW u \in Tasks \ {t} PROVE Counted(u)'
    <3>1. sends'[u] = sends[u] /\ faults' \in {faults, faults + 1}
      BY <1>a, <2>2
    <3> QED BY <1>a, <1>d, <2>1, <3>1 DEF LoopsTyped
  <2> QED BY <1>0, <2>3, <2>4, <2>5 DEF NotifyInv
\* A loop that has written the result of one of its tasks.
<1>e. ASSUME NEW p \in Procs, NEW t \in DOMAIN batch[p], cur[p] \in {t, NoTask},
             DOMAIN batch'[p] = DOMAIN batch[p] \ {t}, cur'[p] = NoTask,
             \A q \in Procs \ {p} : UNCHANGED <<batch[q], cur[q], outcome[q]>>,
             \A u \in Tasks \ {t} : task'[u] = task[u],
             cur[p] = t /\ outcome[p] = "SENT" => task'[t].status \in Final,
             UNCHANGED <<sends, overran, faults>>
      PROVE  NotifyInv'
  <2>0. t \in Tasks
    BY <1>b, <1>e
  <2>1. ~overran => \A q \in Procs : DOMAIN batch'[q] \subseteq DOMAIN batch[q] \ {t}
    BY <1>0, <1>e DEF HeldOnce
  <2>2. HeldLeased' /\ HeldOnce'
    BY <1>0, <1>b, <1>e, <2>1, ShrinkKeepsLeases
  <2>3. Counted(t)'
    <3>0. Open(t) \in {0, 1} /\ Open(t)' \in {0, 1}
      BY <1>0, <2>0, CountFacts, CountFactsNext
    <3>1. CASE cur[p] = t /\ outcome[p] = "SENT"
      <4>1. Open(t)' = 0
        BY <1>e, <3>1 DEF Open
      <4>2. Unsent(t)' \subseteq Unsent(t)
        BY <1>e DEF Unsent
      <4> QED BY <1>c, <1>e, <2>0, <3>0, <4>1, <4>2
    <3>2. CASE ~(cur[p] = t /\ outcome[p] = "SENT")
      <4>1. p \in Unsent(t)
        BY <1>e, <3>2 DEF Unsent
      <4>2. Unsent(t)' \subseteq Unsent(t) \ {p}
        BY <1>e DEF Unsent
      <4>3. sends'[t] + Open(t)' + faults <= sends[t] + Open(t) + 1 + faults'
        BY <1>a, <1>e, <2>0, <3>0
      <4> QED BY <1>0, <2>0, <4>1, <4>2, <4>3, CountRemoves
    <3> QED BY <3>1, <3>2
  <2>4. ASSUME NEW u \in Tasks \ {t} PROVE Counted(u)'
    <3>1. \A q \in Procs : /\ u \in DOMAIN batch'[q] <=> u \in DOMAIN batch[q]
                           /\ cur'[q] = u /\ outcome'[q] = "SENT" <=> cur[q] = u /\ outcome[q] = "SENT"
      BY <1>e, <2>4
    <3> QED BY <1>d, <1>e, <2>4, <3>1
  <2> QED BY <1>0, <2>0, <2>2, <2>3, <2>4 DEF NotifyInv
<1>8. ASSUME NEW p \in Procs, NEW t \in Tasks, Cancel(p, t) \/ Reject(p, t) PROVE NotifyInv'
  <2>1. /\ t \in DOMAIN batch[p] /\ cur[p] = NoTask
        /\ batch' = [batch EXCEPT ![p] = Drop(@, t)] /\ UNCHANGED <<cur, outcome, sends, overran, faults>>
        /\ \A u \in Tasks \ {t} : task'[u] = task[u]
    BY <1>a, <1>8 DEF Cancel, Reject, RowsTyped, counts
  <2>2. /\ DOMAIN batch'[p] = DOMAIN batch[p] \ {t}
        /\ \A q \in Procs \ {p} : batch'[q] = batch[q]
    BY <1>a, <2>1, DropIsBatch DEF LoopsTyped
  <2> QED BY <1>e, <2>1, <2>2
<1>9. ASSUME NEW p \in Procs, FinishTask(p) PROVE NotifyInv'
  <2> DEFINE t == cur[p]
  <2>1. t \in DOMAIN batch[p] /\ t \in Tasks /\ outcome[p] \in {"retry", "SENT"}
    BY <1>a, <1>b, <1>9 DEF FinishTask, LoopsTyped
  <2>2. batch[p][t] \in 0..MaxAttempts - 1
    BY <1>a, <2>1, BatchParts DEF LoopsTyped
  <2>3. /\ \A u \in Tasks \ {t} : task'[u] = task[u]
        /\ task'[t].status = "SENT" <=> outcome[p] = "SENT"
    BY <1>a, <1>9, <2>1, <2>2, FinishRows DEF FinishTask, Final
  <2>4. /\ DOMAIN batch'[p] = DOMAIN batch[p] \ {t} /\ cur'[p] = NoTask
        /\ \A q \in Procs \ {p} : batch'[q] = batch[q] /\ cur'[q] = cur[q] /\ outcome'[q] = outcome[q]
        /\ UNCHANGED <<sends, overran, faults>>
    BY <1>a, <1>9, <2>1, DropIsBatch DEF FinishTask, LoopsTyped, counts
  <2>5. outcome[p] = "SENT" => task'[t].status \in Final
    BY <2>3 DEF Final
  <2> QED BY <1>e, <2>1, <2>3, <2>4, <2>5
<1>10. ASSUME NEW p \in Procs, FinishFails(p) \/ Crash(p) PROVE NotifyInv'
  <2>1. GiveUp(p) /\ UNCHANGED <<task, sends, overran>> /\ faults' = faults + 1
    BY <1>10 DEF FinishFails, Crash, Fault, counts
  <2>2. /\ DOMAIN batch'[p] = {} /\ cur'[p] = NoTask
        /\ \A q \in Procs \ {p} : UNCHANGED <<batch[q], cur[q], outcome[q]>>
    BY <1>a, <2>1, GiveUpLoops
  <2>3. HeldLeased' /\ HeldOnce'
    BY <1>0, <2>1, <2>2, ShrinkKeepsLeases
  <2>4. ASSUME NEW t \in Tasks PROVE Counted(t)'
    <3>1. Unsent(t)' \subseteq Unsent(t)
      BY <2>2 DEF Unsent
    <3> QED BY <1>c, <2>1, <3>1
  <2> QED BY <1>0, <2>3, <2>4 DEF NotifyInv
<1> QED BY <1>1, <1>2, <1>3, <1>4, <1>5, <1>6, <1>7, <1>8, <1>9, <1>10 DEF Next, Deliver

\* The invariant holds in every reachable state.
LEMMA NotifyInvHolds == Spec => []NotifyInv
BY NotifyInit, NotifyStep, PTL DEF Spec

----------------------------------------------------------------------------
(* The theorems about the lease.                                            *)

\* A task reaches its channel once, and once more at most for every failure: an
\* answer that was lost, a process that exited, a lease that ran out while its
\* holder was still working on the batch.
THEOREM TasksSentOnce == Spec => []SentOnce
<1>1. ASSUME NotifyInv PROVE SentOnce
  <2>1. TypeInv /\ \A t \in Tasks : Counted(t)
    BY <1>1 DEF NotifyInv
  <2> QED BY <2>1, CountFacts DEF Counted, SentOnce
<1> QED BY <1>1, NotifyInvHolds, PTL

\* A task that was sent, given up or cancelled comes back only when a lease has
\* run out under its holder and a loop writes over the final result.
THEOREM FinalStaysFinal == Spec => FinalIsFinal
<1> DEFINE Back(t) == overran /\ \E p \in Procs : t \in DOMAIN batch[p] \ DOMAIN batch'[p]
<1>1. NotifyInv /\ [Next]_vars =>
        [\A t \in Tasks : task[t].status \in Final /\ task'[t].status # task[t].status => Back(t)]_vars
  <2> SUFFICES ASSUME NotifyInv, Next, NEW t \in Tasks, task[t].status \in Final
               PROVE  task'[t].status = task[t].status \/ Back(t)
    BY DEF vars
  <2>0. TypeInv /\ RowsTyped /\ LoopsTyped
    BY DEF NotifyInv, TypeInv
  <2>1. (\E p \in Procs : t \in DOMAIN batch[p]) => overran
    BY DEF NotifyInv, HeldLeased, Final
  <2>2. CASE Raise \/ Acknowledge \/ Recover \/ DisablePolicy
    BY <2>2 DEF Raise, Acknowledge, Recover, DisablePolicy
  <2>3. CASE HandleReported \/ HandleRecovered
    BY <2>0, <2>3, EnqueueRows DEF HandleReported, HandleRecovered, Final
  <2>4. ASSUME NEW u \in Tasks, Passing(u) PROVE task'[t].status = task[t].status
    BY <2>0, <2>4, PassingRows
  <2>5. ASSUME NEW p \in Procs, ClaimDueTasks(p) PROVE task'[t].status = task[t].status
    BY <2>0, <2>5, ClaimEffect DEF Claimable, Final
  <2>6. ASSUME NEW p \in Procs, NEW u \in Tasks, Send(p, u) \/ SendFails(p, u) \/ FinishFails(p) \/ Crash(p)
        PROVE  task'[t].status = task[t].status
    BY <2>6 DEF Send, SendFails, FinishFails, Crash
  \* Writing a row by its id: the loop held it, and lets it go.
  <2>a. ASSUME NEW p \in Procs, NEW u \in DOMAIN batch[p], \A v \in Tasks \ {u} : task'[v] = task[v],
               batch' = [batch EXCEPT ![p] = Drop(@, u)]
        PROVE  task'[t].status = task[t].status \/ Back(t)
    <3>1. CASE t # u
      BY <2>a, <3>1
    <3>2. CASE t = u
      <4>1. batch'[p] = Drop(batch[p], u) /\ batch[p] \in Batches
        BY <2>0, <2>a DEF LoopsTyped
      <4>2. DOMAIN batch'[p] = DOMAIN batch[p] \ {u}
        BY <4>1, DropIsBatch
      <4> QED BY <2>1, <2>a, <3>2, <4>2
    <3> QED BY <3>1, <3>2
  <2>7. ASSUME NEW p \in Procs, NEW u \in Tasks, Cancel(p, u) \/ Reject(p, u)
        PROVE  task'[t].status = task[t].status \/ Back(t)
    BY <2>0, <2>7, <2>a DEF Cancel, Reject, RowsTyped
  <2>8. ASSUME NEW p \in Procs, FinishTask(p) PROVE task'[t].status = task[t].status \/ Back(t)
    BY <2>0, <2>8, <2>a DEF FinishTask, RowsTyped, LoopsTyped
  <2>9. Tasks # {}
    BY DEF Tasks
  <2> QED BY <2>2, <2>3, <2>4, <2>5, <2>6, <2>7, <2>8, <2>9 DEF Next, Deliver
<1> QED BY <1>1, NotifyInvHolds, PTL DEF Spec, FinalIsFinal

----------------------------------------------------------------------------
(* The outbox.  Module Outbox is instantiated with its own constants and        *)
(* variables; Procs, faults and MaxFaults are here those of the outbox.  What   *)
(* its OutboxAssumption says of the constants is a hypothesis of the theorems.  *)

CONSTANTS BatchSize, MaxRows
VARIABLES at, holder, wake, locked, sent

Events == INSTANCE Outbox

----------------------------------------------------------------------------
(* The outbox's inductive invariant.                                        *)

\* The events, the wake-ups and the bound on failures.
CountersTyped ==
    /\ rows \in 0..MaxRows /\ outbox \subseteq 1..rows /\ bus \subseteq 1..rows
    /\ wake \in [Procs -> BOOLEAN]
    /\ faults \in 0..MaxFaults

\* outboxMu, and where the flushers of each process are.
LockTyped ==
    /\ at \in [Procs -> [Events!Flushers -> {"idle", "flush", "drain"}]]
    /\ holder \in [Procs -> Events!Flushers \cup {"none"}]
    /\ \A p \in Procs, f \in Events!Flushers : at[p][f] = "drain" <=> holder[p] = f

\* The transactions: what they publish and lock, and that they skip each
\* other's rows.
TransactionTyped ==
    \A p \in Procs : /\ holder[p] = "none" => locked[p] = {}
                     /\ sent[p] \subseteq locked[p] /\ locked[p] \subseteq outbox
                     /\ \A q \in Procs \ {p} : locked[p] \cap locked[q] = {}

\* The rows a transaction has locked and published.
LocksTyped ==
    /\ locked \in [Procs -> SUBSET Nat]
    /\ sent \in [Procs -> SUBSET Nat]

\* What a transaction counts as published, and will delete, is on the bus.
SentPublished == \A p \in Procs : sent[p] \subseteq bus

OutboxInv ==
    /\ CountersTyped
    /\ LockTyped
    /\ TransactionTyped
    /\ LocksTyped
    /\ SentPublished
    /\ EventNeverLost

\* The first three are the type invariant.
LEMMA TypeParts == Events!OutboxTypeOK <=> CountersTyped /\ LockTyped /\ TransactionTyped
BY DEF Events!OutboxTypeOK, CountersTyped, LockTyped, TransactionTyped

----------------------------------------------------------------------------
(* The model's operators.                                                   *)

\* A set of numbers has a least one.
LEMMA LeastOf ==
  ASSUME NEW S \in SUBSET Nat, S # {}
  PROVE  \E m \in S : \A n \in S : m <= n
<1> DEFINE R == OpToRel(<, Nat)
<1>1. \E m \in S : \A n \in S : ~(<<n, m>> \in R)
  BY NatLessThanWellFounded, WFMin DEF R
<1>2. \A m, n \in S : ~(<<n, m>> \in R) => m <= n
  BY DEF OpToRel
<1> QED BY <1>1, <1>2

\* Publish takes one of the rows that are not yet published.
LEMMA MinIsIn ==
  ASSUME NEW S \in SUBSET Nat, S # {}
  PROVE  Events!Min(S) \in S
BY LeastOf DEF Events!Min

\* A batch is a part of the rows it is taken from.
LEMMA FirstIsPart == \A S, n : Events!First(S, n) \subseteq S
BY DEF Events!First

----------------------------------------------------------------------------
(* The invariant holds initially and is preserved.                          *)

\* Init establishes the invariant.
LEMMA OutboxInit ==
  ASSUME BatchSize \in Nat \ {0}, MaxRows \in Nat, MaxFaults \in Nat, Events!Init
  PROVE  OutboxInv
<1> USE DEF Events!Init
<1>1. CountersTyped /\ LockTyped /\ TransactionTyped
  BY DEF CountersTyped, LockTyped, TransactionTyped, Events!Flushers
<1>2. LocksTyped /\ SentPublished /\ EventNeverLost
  BY DEF LocksTyped, SentPublished, EventNeverLost
<1> QED BY <1>1, <1>2 DEF OutboxInv

\* The flusher that leaves is the one that held the lock.
LEMMA LeaveTyped ==
  ASSUME LockTyped, NEW p \in Procs, holder[p] # "none", Events!Leave(p)
  PROVE  /\ LockTyped'
         /\ holder'[p] = "none"
         /\ \A q \in Procs \ {p} : holder'[q] = holder[q]
BY DEF LockTyped, Events!Leave, Events!Flushers

\* A transaction that ends lets go of its rows.
LEMMA EndTransactionEffect ==
  ASSUME LocksTyped, NEW p \in Procs, Events!EndTransaction(p)
  PROVE  /\ LocksTyped'
         /\ locked'[p] = {} /\ sent'[p] = {}
         /\ \A q \in Procs \ {p} : locked'[q] = locked[q] /\ sent'[q] = sent[q]
BY DEF LocksTyped, Events!EndTransaction

\* A row that is not yet published is an event of the outbox.
LEMMA UnsentRow ==
  ASSUME OutboxInv, NEW p \in Procs, Events!Unsent(p) # {}
  PROVE  /\ Events!Min(Events!Unsent(p)) \in Events!Unsent(p)
         /\ Events!Min(Events!Unsent(p)) \in 1..rows
         /\ holder[p] # "none"
<1>1. Events!Unsent(p) \in SUBSET Nat
  BY DEF OutboxInv, LocksTyped, Events!Unsent
<1>2. Events!Min(Events!Unsent(p)) \in Events!Unsent(p)
  BY <1>1, MinIsIn
<1> QED BY <1>2 DEF OutboxInv, CountersTyped, TransactionTyped, Events!Unsent

\* Every step preserves the invariant.
LEMMA OutboxStep ==
  ASSUME BatchSize \in Nat \ {0}, MaxRows \in Nat, MaxFaults \in Nat, OutboxInv, [Events!Next]_Events!vars
  PROVE  OutboxInv'
<1>0. CountersTyped /\ LockTyped /\ TransactionTyped /\ LocksTyped /\ SentPublished /\ EventNeverLost
  BY DEF OutboxInv
<1>1. CASE UNCHANGED Events!vars
  BY <1>0, <1>1 DEF Events!vars, Events!process, OutboxInv, CountersTyped, LockTyped,
                    TransactionTyped, LocksTyped, SentPublished, EventNeverLost
<1>2. ASSUME NEW p \in Procs, Events!Report(p)
      PROVE  OutboxInv'
  <2> USE <1>0, <1>2 DEF Events!Report
  <2>1. CountersTyped' /\ EventNeverLost'
    BY DEF CountersTyped, EventNeverLost
  <2>2. LockTyped'
    BY DEF LockTyped, Events!Flushers
  <2>3. TransactionTyped' /\ LocksTyped' /\ SentPublished'
    BY DEF TransactionTyped, LocksTyped, SentPublished
  <2> QED BY <2>1, <2>2, <2>3 DEF OutboxInv
<1>3. ASSUME NEW p \in Procs, NEW f \in Events!Flushers, Events!Enter(p, f)
      PROVE  OutboxInv'
  <2> USE <1>0, <1>3 DEF Events!Enter
  <2>1. CountersTyped' /\ EventNeverLost' /\ LocksTyped' /\ SentPublished'
    BY DEF CountersTyped, EventNeverLost, LocksTyped, SentPublished
  <2>2. LockTyped'
    BY DEF LockTyped, Events!Flushers
  <2>3. TransactionTyped'
    BY DEF TransactionTyped, LockTyped, Events!Flushers
  <2> QED BY <2>1, <2>2, <2>3 DEF OutboxInv
<1>4. ASSUME NEW p \in Procs, Events!Select(p)
      PROVE  OutboxInv'
  <2> USE <1>0, <1>4 DEF Events!Select
  <2>1. CountersTyped' /\ SentPublished' /\ EventNeverLost'
    BY DEF CountersTyped, SentPublished, EventNeverLost
  <2>2. CASE Events!Free = {}
    <3>1. Events!Leave(p) /\ UNCHANGED <<locked, sent>> /\ UNCHANGED outbox
      BY <2>2
    <3>2. LockTyped' /\ \A q \in Procs : q = p \/ holder'[q] = holder[q]
      BY <3>1, LeaveTyped
    <3>3. TransactionTyped' /\ LocksTyped'
      BY <3>1, <3>2 DEF TransactionTyped, LocksTyped
    <3> QED BY <2>1, <3>2, <3>3 DEF OutboxInv
  <2>3. CASE Events!Free # {}
    <3> DEFINE B == Events!First(Events!Free, BatchSize)
    <3>1. /\ B \subseteq outbox /\ \A q \in Procs : B \cap locked[q] = {}
          /\ locked' = [locked EXCEPT ![p] = B]
          /\ UNCHANGED <<at, holder, sent, outbox>>
      BY <2>3, FirstIsPart DEF Events!Free
    <3> HIDE DEF B
    <3>2. LockTyped'
      BY <3>1 DEF LockTyped
    <3>3. LocksTyped'
      BY <3>1 DEF LocksTyped, CountersTyped
    <3>4. sent[p] = {}
      BY DEF TransactionTyped
    <3>5. TransactionTyped'
      BY <3>1, <3>4 DEF TransactionTyped, LocksTyped
    <3> QED BY <2>1, <3>2, <3>3, <3>5 DEF OutboxInv
  <2> QED BY <2>2, <2>3
<1>5. ASSUME NEW p \in Procs, Events!Publish(p)
      PROVE  OutboxInv'
  <2> DEFINE m == Events!Min(Events!Unsent(p))
  <2>1. m \in locked[p] /\ m \in 1..rows
    BY <1>5, UnsentRow DEF Events!Publish, Events!Unsent
  <2>2. /\ bus' = bus \cup {m} /\ sent' = [sent EXCEPT ![p] = @ \cup {m}]
        /\ UNCHANGED <<rows, outbox, at, holder, wake, locked, faults>>
    BY <1>5 DEF Events!Publish
  <2> HIDE DEF m
  <2>3. CountersTyped' /\ LockTyped' /\ EventNeverLost'
    BY <1>0, <2>1, <2>2 DEF CountersTyped, LockTyped, EventNeverLost
  <2>4. LocksTyped' /\ SentPublished'
    BY <1>0, <2>1, <2>2 DEF LocksTyped, SentPublished
  <2>5. TransactionTyped'
    BY <1>0, <2>1, <2>2 DEF TransactionTyped, LocksTyped
  <2> QED BY <2>3, <2>4, <2>5 DEF OutboxInv
<1>6. ASSUME NEW p \in Procs, Events!EndTransaction(p), holder[p] # "none",
             Events!Leave(p) \/ UNCHANGED <<at, holder>>,
             outbox' \in {outbox, outbox \ sent[p]}, bus \subseteq bus', bus' \subseteq 1..rows,
             faults' \in 0..MaxFaults, UNCHANGED <<rows, wake>>
      PROVE  OutboxInv'
  <2>1. /\ LocksTyped' /\ locked'[p] = {} /\ sent'[p] = {}
        /\ \A q \in Procs \ {p} : locked'[q] = locked[q] /\ sent'[q] = sent[q]
    BY <1>0, <1>6, EndTransactionEffect
  <2>2. /\ LockTyped'
        /\ \A q \in Procs \ {p} : holder'[q] = holder[q]
    BY <1>0, <1>6, LeaveTyped DEF LockTyped
  <2>3. CountersTyped'
    BY <1>0, <1>6 DEF CountersTyped
  <2>4. SentPublished'
    BY <1>0, <1>6, <2>1 DEF SentPublished
  <2>5. EventNeverLost'
    BY <1>0, <1>6 DEF EventNeverLost, SentPublished
  <2>6. ASSUME NEW q \in Procs \ {p} PROVE locked'[q] \subseteq outbox'
    BY <1>0, <1>6, <2>1, <2>6 DEF TransactionTyped
  <2>7. TransactionTyped'
    BY <1>0, <2>1, <2>2, <2>6 DEF TransactionTyped
  <2> QED BY <2>1, <2>2, <2>3, <2>4, <2>5, <2>7 DEF OutboxInv
<1>7. ASSUME NEW p \in Procs, Events!Commit(p)
      PROVE  OutboxInv'
  <2>1. /\ Events!EndTransaction(p) /\ holder[p] # "none" /\ (Events!Leave(p) \/ UNCHANGED <<at, holder>>)
        /\ outbox' = outbox \ sent[p] /\ UNCHANGED <<bus, faults, rows, wake>>
    BY <1>0, <1>7 DEF Events!Commit, TransactionTyped
  <2> QED BY <1>0, <1>6, <2>1 DEF CountersTyped
<1>8. ASSUME NEW p \in Procs, Events!PublishFails(p)
      PROVE  OutboxInv'
  <2>1. holder[p] # "none" /\ Events!Min(Events!Unsent(p)) \in 1..rows
    BY <1>8, UnsentRow DEF Events!PublishFails
  <2>2. bus \subseteq bus' /\ bus' \subseteq 1..rows
    BY <1>0, <1>8, <2>1 DEF Events!PublishFails, CountersTyped
  <2>3. faults' \in 0..MaxFaults
    BY <1>0, <1>8 DEF Events!PublishFails, Events!Fault, CountersTyped
  <2>4. /\ Events!EndTransaction(p) /\ Events!Leave(p) /\ outbox' = outbox \ sent[p] /\ UNCHANGED <<rows, wake>>
    BY <1>8 DEF Events!PublishFails
  <2> QED BY <1>6, <2>1, <2>2, <2>3, <2>4
<1>9. ASSUME NEW p \in Procs, Events!CommitFails(p)
      PROVE  OutboxInv'
  <2>1. holder[p] # "none" /\ faults' \in 0..MaxFaults
    BY <1>0, <1>9 DEF Events!CommitFails, Events!Fault, CountersTyped, TransactionTyped
  <2>2. /\ Events!EndTransaction(p) /\ Events!Leave(p) /\ UNCHANGED <<outbox, bus, rows, wake>>
    BY <1>9 DEF Events!CommitFails
  <2> QED BY <1>0, <1>6, <2>1, <2>2 DEF CountersTyped
<1>10. ASSUME NEW p \in Procs, Events!Tick(p) \/ Events!Woken(p)
       PROVE  OutboxInv'
  <2> USE <1>0, <1>10 DEF Events!Tick, Events!Woken
  <2>1. CountersTyped' /\ TransactionTyped' /\ LocksTyped' /\ SentPublished' /\ EventNeverLost'
    BY DEF CountersTyped, TransactionTyped, LocksTyped, SentPublished, EventNeverLost
  <2>2. LockTyped'
    BY DEF LockTyped, Events!Flushers
  <2> QED BY <2>1, <2>2 DEF OutboxInv
<1>11. ASSUME NEW p \in Procs, Events!Crash(p)
       PROVE  OutboxInv'
  <2> USE <1>0, <1>11
  <2>1. /\ LocksTyped' /\ locked'[p] = {} /\ sent'[p] = {}
        /\ \A q \in Procs \ {p} : locked'[q] = locked[q] /\ sent'[q] = sent[q]
    BY EndTransactionEffect DEF Events!Crash
  <2>2. CountersTyped' /\ EventNeverLost'
    BY DEF Events!Crash, Events!Fault, CountersTyped, EventNeverLost
  <2>3. LockTyped'
    BY DEF Events!Crash, LockTyped, Events!Flushers
  <2>4. SentPublished'
    BY <2>1 DEF Events!Crash, SentPublished
  <2>5. UNCHANGED outbox /\ \A q \in Procs \ {p} : holder'[q] = holder[q]
    BY DEF Events!Crash, LockTyped
  <2>6. ASSUME NEW q \in Procs \ {p} PROVE locked'[q] \subseteq outbox'
    BY <2>1, <2>5, <2>6 DEF TransactionTyped
  <2>7. TransactionTyped'
    BY <2>1, <2>5, <2>6 DEF TransactionTyped
  <2> QED BY <2>1, <2>2, <2>3, <2>4, <2>7 DEF OutboxInv
<1> QED BY <1>1, <1>2, <1>3, <1>4, <1>5, <1>7, <1>8, <1>9, <1>10, <1>11 DEF Events!Next, Events!Drain

----------------------------------------------------------------------------
(* The theorems.                                                            *)

\* Types, the lock discipline of flushOutbox and the disjointness of the rows
\* that the transactions of different processes have locked.
THEOREM OutboxTypeCorrect ==
  ASSUME BatchSize \in Nat \ {0}, MaxRows \in Nat, MaxFaults \in Nat
  PROVE  Events!Spec => []Events!OutboxTypeOK
<1>1. OutboxInv => Events!OutboxTypeOK
  BY TypeParts DEF OutboxInv
<1> QED BY <1>1, OutboxInit, OutboxStep, PTL DEF Events!Spec

\* No event that was committed with its alarm is lost, whatever relays run
\* side by side, fail to publish, fail to commit or exit.
THEOREM OutboxKeepsEvents ==
  ASSUME BatchSize \in Nat \ {0}, MaxRows \in Nat, MaxFaults \in Nat
  PROVE  Events!Spec => []EventNeverLost
<1>1. OutboxInv => EventNeverLost
  BY DEF OutboxInv
<1> QED BY <1>1, OutboxInit, OutboxStep, PTL DEF Events!Spec

----------------------------------------------------------------------------
(* Deletion of an alarm rule.  Module RuleChanges is instantiated in the same   *)
(* way; Procs, BatchSize, status and MaxFaults are here those of the rule's     *)
(* changes.                                                                 *)

CONSTANTS Workers, AdminProc, Others, MaxChanges
VARIABLES cache, wpc, got, host, acked, later, wanted, apc, offset, listed, page, changed,
          affected, changes

Rules == INSTANCE RuleChanges

----------------------------------------------------------------------------
(* Places in a list: W is a set of alarms and R their order, the later first.    *)

IsOrder(R, W) ==
    /\ \A x \in W : <<x, x>> \notin R
    /\ \A x, y \in W : x = y \/ <<x, y>> \in R \/ <<y, x>> \in R
    /\ \A x, y, z \in W : <<x, y>> \in R /\ <<y, z>> \in R => <<x, z>> \in R

Before(x, W, R) == {y \in W : <<y, x>> \in R}
PlaceIn(x, W, R) == Cardinality(Before(x, W, R))
FirstOf(k, W, R) == {x \in W : PlaceIn(x, W, R) \in 0 .. 0 + k - 1}

\* A place is a number.
LEMMA PlaceTyped ==
  ASSUME NEW W, IsFiniteSet(W), NEW R, NEW x
  PROVE  IsFiniteSet(Before(x, W, R)) /\ PlaceIn(x, W, R) \in Nat
<1>1. Before(x, W, R) \in SUBSET W
  BY DEF Before
<1> QED BY <1>1, FS_Subset, FS_CardinalityType DEF PlaceIn

\* Who comes before has the smaller place.
LEMMA PlaceGrows ==
  ASSUME NEW W, IsFiniteSet(W), NEW R, IsOrder(R, W),
         NEW x \in W, NEW y \in W, <<x, y>> \in R
  PROVE  PlaceIn(x, W, R) < PlaceIn(y, W, R)
<1>1. /\ IsFiniteSet(Before(x, W, R)) /\ IsFiniteSet(Before(y, W, R))
      /\ PlaceIn(x, W, R) \in Nat /\ PlaceIn(y, W, R) \in Nat
  BY PlaceTyped
<1>2. x \notin Before(x, W, R) /\ Before(x, W, R) \cup {x} \in SUBSET Before(y, W, R)
  BY DEF IsOrder, Before
<1>3. Cardinality(Before(x, W, R) \cup {x}) = PlaceIn(x, W, R) + 1
  BY <1>1, <1>2, FS_AddElement DEF PlaceIn
<1>4. Cardinality(Before(x, W, R) \cup {x}) <= PlaceIn(y, W, R)
  BY <1>1, <1>2, FS_Subset DEF PlaceIn
<1> QED BY <1>1, <1>3, <1>4

\* No two have the same place.
LEMMA PlacesDiffer ==
  ASSUME NEW W, IsFiniteSet(W), NEW R, IsOrder(R, W),
         NEW x \in W, NEW y \in W, PlaceIn(x, W, R) = PlaceIn(y, W, R)
  PROVE  x = y
<1>1. PlaceIn(x, W, R) \in Nat /\ PlaceIn(y, W, R) \in Nat
  BY PlaceTyped
<1>2. ~(<<x, y>> \in R) /\ ~(<<y, x>> \in R)
  BY <1>1, PlaceGrows
<1> QED BY <1>2 DEF IsOrder

\* A range of places holds as many alarms at most.
LEMMA PlacesBound ==
  ASSUME NEW W, IsFiniteSet(W), NEW R, IsOrder(R, W), NEW i \in Nat, NEW n \in Nat,
         NEW S \in SUBSET W, \A x \in S : PlaceIn(x, W, R) \in i .. i + n - 1
  PROVE  IsFiniteSet(S) /\ Cardinality(S) \in 0 .. n
<1> DEFINE f == [x \in S |-> PlaceIn(x, W, R)]
<1>1. f \in [S -> i .. i + n - 1]
  OBVIOUS
<1>2. \A x, y \in S : f[x] = f[y] => x = y
  BY PlacesDiffer
<1>3. f \in Injection(S, i .. i + n - 1)
  <2> HIDE DEF f
  <2> QED BY <1>1, <1>2 DEF Injection, IsInjective
<1>4. IsFiniteSet(i .. i + n - 1) /\ Cardinality(i .. i + n - 1) = n
  BY FS_Interval
<1>5. IsFiniteSet(S) /\ Cardinality(S) <= n
  BY <1>3, <1>4, FS_Injection
<1> QED BY <1>5, FS_CardinalityType

\* If nobody has place k, nobody has a later one: places have no gaps.
LEMMA NoGap ==
  ASSUME NEW W, IsFiniteSet(W), NEW R, IsOrder(R, W), NEW k \in Nat,
         \A x \in W : PlaceIn(x, W, R) # k
  PROVE  W \subseteq FirstOf(k, W, R)
<1> DEFINE late == {PlaceIn(x, W, R) : x \in {y \in W : PlaceIn(y, W, R) > k}}
<1>1. CASE late = {}
  <2>1. \A x \in W : PlaceIn(x, W, R) \in Nat /\ ~(PlaceIn(x, W, R) > k)
    BY <1>1, PlaceTyped
  <2> QED BY <2>1 DEF FirstOf
<1>2. CASE late # {}
  <2>1. late \in SUBSET Nat
    BY PlaceTyped
  <2>2. PICK m \in late : \A n \in late : m <= n
    BY <1>2, <2>1, LeastOf
  <2>3. PICK x \in W : PlaceIn(x, W, R) = m /\ m > k
    BY <2>2
  <2>4. \A y \in Before(x, W, R) : PlaceIn(y, W, R) \in 0 .. 0 + k - 1
    <3> SUFFICES ASSUME NEW y \in Before(x, W, R) PROVE PlaceIn(y, W, R) \in 0 .. 0 + k - 1
      OBVIOUS
    <3>1. y \in W /\ <<y, x>> \in R
      BY DEF Before
    <3>2. PlaceIn(y, W, R) < m /\ PlaceIn(y, W, R) \in Nat /\ m \in Nat
      BY <2>3, <3>1, PlaceGrows, PlaceTyped
    <3>3. PlaceIn(y, W, R) \notin late
      BY <2>2, <3>2
    <3> QED BY <3>1, <3>2, <3>3
  <2>5. Before(x, W, R) \in SUBSET W
    BY DEF Before
  <2>6. PlaceIn(x, W, R) <= k
    BY <2>4, <2>5, PlacesBound DEF PlaceIn
  <2> QED BY <2>1, <2>3, <2>6
<1> QED BY <1>1, <1>2

\* Whoever leaves the list from behind its first k lets nobody in among them.
LEMMA LeavesBehind ==
  ASSUME NEW W, IsFiniteSet(W), NEW R, IsOrder(R, W), NEW k \in Nat, NEW x, x \notin FirstOf(k, W, R)
  PROVE  FirstOf(k, W \ {x}, R) \subseteq FirstOf(k, W, R)
<1> SUFFICES ASSUME NEW y \in FirstOf(k, W \ {x}, R) PROVE y \in FirstOf(k, W, R)
  OBVIOUS
<1>1. y \in W /\ y # x /\ PlaceIn(y, W \ {x}, R) < k
  BY DEF FirstOf
<1>2. Before(y, W \ {x}, R) = Before(y, W, R) \ {x}
  BY DEF Before
<1>3. IsFiniteSet(Before(y, W, R)) /\ PlaceIn(y, W, R) \in Nat
  BY PlaceTyped
<1>4. CASE x \in Before(y, W, R)
  <2>1. x \in W /\ <<x, y>> \in R
    BY <1>4 DEF Before
  <2>2. PlaceIn(x, W, R) < PlaceIn(y, W, R) /\ PlaceIn(x, W, R) \in Nat
    BY <1>1, <2>1, PlaceGrows, PlaceTyped
  <2>3. PlaceIn(x, W, R) >= k
    BY <2>1, <2>2 DEF FirstOf
  <2>4. PlaceIn(y, W \ {x}, R) = PlaceIn(y, W, R) - 1
    BY <1>2, <1>3, <1>4, FS_RemoveElement DEF PlaceIn
  <2> QED BY <1>1, <1>3, <2>2, <2>3, <2>4
<1>5. CASE x \notin Before(y, W, R)
  <2>1. Before(y, W \ {x}, R) = Before(y, W, R)
    BY <1>2, <1>5
  <2> QED BY <1>1, <1>3, <2>1 DEF FirstOf, PlaceIn
<1> QED BY <1>4, <1>5

\* Whoever keeps those before him, and may get more, does not come among the first k.
LEMMA MovesBack ==
  ASSUME NEW W, NEW V, IsFiniteSet(V), NEW R, NEW Q, NEW k \in Nat,
         NEW y \in W, Before(y, W, R) \subseteq Before(y, V, Q),
         y \in FirstOf(k, V, Q)
  PROVE  y \in FirstOf(k, W, R)
<1>1. IsFiniteSet(Before(y, V, Q)) /\ PlaceIn(y, V, Q) \in Nat /\ PlaceIn(y, V, Q) < k
  BY PlaceTyped DEF FirstOf
<1>2. PlaceIn(y, W, R) <= PlaceIn(y, V, Q) /\ PlaceIn(y, W, R) \in Nat
  BY <1>1, FS_Subset, FS_CardinalityType DEF PlaceIn
<1> QED BY <1>1, <1>2 DEF FirstOf

\* A report puts its alarm in front, so that the others move back or stay.
LEMMA FirstAfterUpsert ==
  ASSUME NEW O, NEW R, NEW x, NEW W \in SUBSET O, NEW V, IsFiniteSet(V),
         W \subseteq V, V \subseteq W \cup {x}, NEW k \in Nat
  PROVE  FirstOf(k, V, {p \in R : x \notin {p[1], p[2]}} \cup ({x} \X (O \ {x})))
            \subseteq FirstOf(k, W, R) \cup {x}
<1> DEFINE Q == {p \in R : x \notin {p[1], p[2]}} \cup ({x} \X (O \ {x}))
<1> SUFFICES ASSUME NEW y \in FirstOf(k, V, Q), y # x PROVE y \in FirstOf(k, W, R)
  OBVIOUS
<1>1. y \in W
  BY DEF FirstOf
<1>2. Before(y, W, R) \subseteq Before(y, V, Q)
  BY <1>1 DEF Before
<1> HIDE DEF Q
<1> QED BY <1>1, <1>2, MovesBack

\* A recovery behind the first k leaves them as they are.
LEMMA FirstAfterRecovery ==
  ASSUME NEW W, IsFiniteSet(W), NEW R, IsOrder(R, W), NEW k \in Nat,
         NEW x, x \notin FirstOf(k, W, R)
  PROVE  FirstOf(k, W \ {x}, {p \in R : x \notin {p[1], p[2]}}) \subseteq FirstOf(k, W, R)
<1> DEFINE Q == {p \in R : x \notin {p[1], p[2]}}
<1>1. IsFiniteSet(W \ {x})
  BY FS_RemoveElement
<1>2. \A y \in W \ {x} : Before(y, W \ {x}, R) \subseteq Before(y, W \ {x}, Q)
  BY DEF Before
<1>3. FirstOf(k, W \ {x}, Q) \subseteq W \ {x}
  BY DEF FirstOf
<1> HIDE DEF Q
<1>4. FirstOf(k, W \ {x}, Q) \subseteq FirstOf(k, W \ {x}, R)
  BY <1>1, <1>2, <1>3, MovesBack
<1> QED BY <1>4, LeavesBehind DEF Q

\* A new alarm of the list only moves the others back.
LEMMA FirstAfterEntry ==
  ASSUME NEW W, IsFiniteSet(W), NEW R, NEW k \in Nat, NEW x
  PROVE  FirstOf(k, W \cup {x}, R) \subseteq FirstOf(k, W, R) \cup {x}
<1> SUFFICES ASSUME NEW y \in FirstOf(k, W \cup {x}, R), y # x PROVE y \in FirstOf(k, W, R)
  OBVIOUS
<1>1. y \in W /\ IsFiniteSet(W \cup {x})
  BY FS_AddElement DEF FirstOf
<1>2. Before(y, W, R) \subseteq Before(y, W \cup {x}, R)
  BY DEF Before
<1> QED BY <1>1, <1>2, MovesBack

\* Nobody is among the first zero.
LEMMA FirstOfNone == \A W, R : FirstOf(0, W, R) = {}
BY DEF FirstOf

----------------------------------------------------------------------------
(* The inductive invariant of the deletion.                                   *)

RuleConstants ==
    /\ AdminProc \in Procs /\ Devices \cap Others = {}
    /\ BatchSize \in Nat \ {0} /\ MaxChanges \in Nat /\ MaxFaults \in Nat

\* The alarm table: a finite list without ties.
ListTyped ==
    /\ IsFiniteSet(open) /\ open \subseteq Devices \cup Others /\ acked \subseteq open
    /\ later \subseteq open \X open /\ IsOrder(later, open)

\* Everything else.
CopiesTyped ==
    /\ rule \in Rules!Rule
    /\ cache \in [Procs -> Rules!Rule \cup {"none"}] /\ host \in [Workers -> Procs]
    /\ wpc \in [Workers -> {"idle", "store", "eval"}] /\ got \in [Workers -> Rules!Rule]
RequestTyped ==
    /\ wanted \in {"none", "delete", "disable", "enable"}
    /\ apc \in {"idle", "list", "close", "sync", "save"} /\ (apc # "idle" => wanted # "none")
    /\ quiet \in BOOLEAN /\ changes \in 0..MaxChanges /\ failures \in 0..MaxFaults
ClosingTyped ==
    /\ alarmed \subseteq Devices
    /\ status \in {"ACTIVE", "ACKED"} /\ offset \in Nat /\ listed \in 0..BatchSize
    /\ page \subseteq Devices /\ changed \in BOOLEAN /\ affected \subseteq Devices

RuleTyped == ListTyped /\ CopiesTyped /\ RequestTyped /\ ClosingTyped

\* While the deletion is undisturbed, no process can evaluate the enabled rule ...
NoneEnabled ==
    quiet => /\ \A p \in Procs : cache[p] # "on"
             /\ \A w \in Workers : wpc[w] # "idle" => got[w] # "on"

\* ... and no other request is served.
Deleting ==
    /\ quiet => rule \in {"off", "gone"} /\ (rule = "off" => wanted = "delete")
    /\ rule = "gone" => apc = "idle" /\ wanted \in {"none", "delete"}
    /\ apc # "idle" => wanted \in {"delete", "disable"}
    /\ apc = "save" => wanted = "disable"

\* closeRuleAlarms starts with the first page of the active alarms.
Resting ==
    /\ apc \in {"idle", "sync", "save"} => status = "ACTIVE" /\ offset = 0
    /\ apc \in {"idle", "save"} => affected = {}

\* What the paging has passed holds no alarm of the rule, but for those of the page that
\* are still to be closed; a page that closed one starts anew.
Listed == Rules!WithStatus(status)
PassedClear ==
    /\ apc = "list" => Devices \cap FirstOf(offset, Listed, later) = {}
    /\ apc = "close" /\ ~changed => Devices \cap FirstOf(offset + listed, Listed, later) \subseteq page
ActiveClear ==
    apc \in {"list", "close"} /\ status = "ACKED" => Devices \cap (open \ acked) = {}
AllClear == apc = "sync" \/ rule = "gone" => Devices \cap open = {}
Cleared == quiet => PassedClear /\ ActiveClear /\ AllClear

\* A device in status ALARM has an open alarm or is about to be synchronised.
AlarmKnown == failures = 0 => alarmed \subseteq open \cup affected

RuleInv == RuleTyped /\ NoneEnabled /\ Deleting /\ Resting /\ Cleared /\ AlarmKnown

----------------------------------------------------------------------------
(* Types.                                                                   *)

\* The list of a status is part of the table, and ordered.
LEMMA ListedTyped ==
  ASSUME ListTyped
  PROVE  Listed \subseteq open /\ IsFiniteSet(Listed) /\ IsOrder(later, Listed)
<1>1. Listed \in SUBSET open
  BY DEF Listed, Rules!WithStatus, ListTyped
<1>2. IsFiniteSet(Listed)
  BY <1>1, FS_Subset DEF ListTyped
<1>3. IsOrder(later, Listed)
  BY <1>1 DEF IsOrder, ListTyped
<1> QED BY <1>1, <1>2, <1>3

\* A report and a recovery keep the list an order.
LEMMA UpsertTyped ==
  ASSUME ListTyped, NEW x \in Devices \cup Others, Rules!Upsert(x)
  PROVE  ListTyped'
<1>1. /\ open' = open \cup {x} /\ acked' = acked
      /\ later' = {p \in later : x \notin {p[1], p[2]}} \cup ({x} \X (open \ {x}))
  BY DEF Rules!Upsert, Rules!Without
<1>2. IsFiniteSet(open') /\ open' \subseteq Devices \cup Others /\ acked' \subseteq open'
  BY <1>1, FS_AddElement DEF ListTyped
<1>3. later' \subseteq open' \X open'
  BY <1>1 DEF ListTyped
<1>4. \A y, z : <<y, z>> \in later' <=> \/ <<y, z>> \in later /\ y # x /\ z # x
                                        \/ y = x /\ z \in open /\ z # x
  BY <1>1
<1>5. IsOrder(later', open')
  <2>1. \A y \in open' : <<y, y>> \notin later'
    BY <1>1, <1>4 DEF ListTyped, IsOrder
  <2>2. \A y, z \in open' : y = z \/ <<y, z>> \in later' \/ <<z, y>> \in later'
    BY <1>1, <1>4 DEF ListTyped, IsOrder
  <2>3. \A u, y, z \in open' : <<u, y>> \in later' /\ <<y, z>> \in later' => <<u, z>> \in later'
    BY <1>1, <1>4 DEF ListTyped, IsOrder
  <2> QED BY <2>1, <2>2, <2>3 DEF IsOrder
<1> QED BY <1>2, <1>3, <1>5 DEF ListTyped

LEMMA RecoveredTyped ==
  ASSUME ListTyped, NEW x, Rules!Recovered(x)
  PROVE  ListTyped'
<1>1. /\ open' = open \ {x} /\ acked' = acked \ {x}
      /\ later' = {p \in later : x \notin {p[1], p[2]}}
  BY DEF Rules!Recovered, Rules!Without
<1>2. IsFiniteSet(open') /\ open' \subseteq Devices \cup Others /\ acked' \subseteq open'
  BY <1>1, FS_RemoveElement DEF ListTyped
<1>3. later' \subseteq open' \X open'
  BY <1>1 DEF ListTyped
<1>4. \A y, z : <<y, z>> \in later' <=> <<y, z>> \in later /\ y # x /\ z # x
  BY <1>1
<1>5. IsOrder(later', open')
  BY <1>1, <1>4 DEF ListTyped, IsOrder
<1> QED BY <1>2, <1>3, <1>5 DEF ListTyped

\* How a step changes the alarm table.
LEMMA TableFrame ==
  ASSUME [Rules!Next]_Rules!vars
  PROVE  \/ UNCHANGED <<open, acked, later>>
         \/ \E x \in Devices \cup Others : Rules!Upsert(x) \/ Rules!Recovered(x) \/ Rules!Acknowledge(x)
<1>1. ASSUME NEW w \in Workers, NEW d \in Devices, Rules!Raise(w, d) \/ Rules!Recover(w, d)
      PROVE  Rules!Upsert(d) \/ Rules!Recovered(d)
  BY <1>1 DEF Rules!Raise, Rules!Recover
<1>2. ASSUME NEW x \in Others, Rules!RaiseOther(x) \/ Rules!RecoverOther(x)
      PROVE  Rules!Upsert(x) \/ Rules!Recovered(x)
  BY <1>2 DEF Rules!RaiseOther, Rules!RecoverOther
<1>3. ASSUME NEW d \in Devices, Rules!CloseAlarm(d)
      PROVE  Rules!Recovered(d) \/ UNCHANGED <<open, acked, later>>
  BY <1>3 DEF Rules!CloseAlarm, Rules!alarms
<1>4. ASSUME NEW w \in Workers, NEW d \in Devices, Rules!NoMatch(w, d)
      PROVE  UNCHANGED <<open, acked, later>>
  BY <1>4 DEF Rules!NoMatch, Rules!alarms
<1>5. ASSUME NEW w, NEW p, Rules!Hit(w, p) \/ Rules!Load(w, p) \/ Rules!Store(w)
      PROVE  UNCHANGED <<open, acked, later>>
  BY <1>5 DEF Rules!Hit, Rules!Load, Rules!Store, Rules!alarms
<1>6. ASSUME NEW p \in Procs, Rules!Ages(p) PROVE UNCHANGED <<open, acked, later>>
  BY <1>6 DEF Rules!Ages, Rules!alarms
<1>7. ASSUME NEW op \in {"delete", "disable", "enable"}, Rules!Request(op)
      PROVE  UNCHANGED <<open, acked, later>>
  BY <1>7 DEF Rules!Request, Rules!alarms
<1>8. ASSUME NEW d \in Devices, Rules!SyncDevice(d) PROVE UNCHANGED <<open, acked, later>>
  BY <1>8 DEF Rules!SyncDevice, Rules!alarms
<1>9. ASSUME \/ Rules!Enable \/ Rules!BeginDisable \/ Rules!DisableDone \/ Rules!SaveDisabled
             \/ Rules!BeginDelete \/ Rules!RemoveRule \/ Rules!NotFound
             \/ Rules!ListAlarms \/ Rules!PageDone \/ Rules!RequestFails \/ UNCHANGED Rules!vars
      PROVE  UNCHANGED <<open, acked, later>>
  BY <1>9 DEF Rules!Enable, Rules!BeginDisable, Rules!DisableDone, Rules!SaveDisabled,
              Rules!BeginDelete, Rules!RemoveRule, Rules!NotFound, Rules!ListAlarms, Rules!PageDone,
              Rules!RequestFails, Rules!vars, Rules!alarms
<1> QED BY <1>1, <1>2, <1>3, <1>4, <1>5, <1>6, <1>7, <1>8, <1>9
        DEF Rules!Next, Rules!Evaluates, Rules!Administers

LEMMA ListStep ==
  ASSUME ListTyped, [Rules!Next]_Rules!vars
  PROVE  ListTyped'
<1>1. CASE UNCHANGED <<open, acked, later>>
  BY <1>1 DEF ListTyped
<1>2. ASSUME NEW x \in Devices \cup Others, Rules!Acknowledge(x) PROVE ListTyped'
  BY <1>2 DEF Rules!Acknowledge, Rules!IsOpen, ListTyped
<1> QED BY <1>1, <1>2, TableFrame, UpsertTyped, RecoveredTyped

\* An evaluation can only disturb the deletion.
LEMMA QuietEvaluation ==
  ASSUME quiet \in BOOLEAN, NEW w, NEW d,
         Rules!Raise(w, d) \/ Rules!Recover(w, d) \/ Rules!NoMatch(w, d)
  PROVE  quiet' \in BOOLEAN /\ (quiet' => quiet)
<1>1. CASE Rules!Raise(w, d) \/ Rules!NoMatch(w, d)
  BY <1>1 DEF Rules!Raise, Rules!NoMatch
<1>2. CASE Rules!Recover(w, d)
  BY <1>2 DEF Rules!Recover, Rules!Passed
<1> QED BY <1>1, <1>2

\* The instance counts as this module does.
LEMMA SameCount ==
  ASSUME NEW S
  PROVE  Rules!Cardinality(S) = Cardinality(S)
BY DEF Rules!Cardinality, Cardinality, Rules!IsFiniteSet, IsFiniteSet

\* The rule's row, its copies and the workers.
LEMMA CopiesStep ==
  ASSUME RuleConstants, CopiesTyped, RequestTyped, NoneEnabled, Deleting, [Rules!Next]_Rules!vars
  PROVE  CopiesTyped' /\ NoneEnabled'
<1> USE DEF RuleConstants, CopiesTyped, NoneEnabled, Rules!Rule, Rules!workers
<1>1. ASSUME NEW w \in Workers, NEW p \in Procs, Rules!Hit(w, p) PROVE CopiesTyped' /\ NoneEnabled'
  BY <1>1 DEF Rules!Hit
<1>2. ASSUME NEW w \in Workers, NEW p \in Procs, Rules!Load(w, p) PROVE CopiesTyped' /\ NoneEnabled'
  BY <1>2 DEF Rules!Load, Deleting
<1>3. ASSUME NEW w \in Workers, Rules!Store(w) PROVE CopiesTyped' /\ NoneEnabled'
  BY <1>3 DEF Rules!Store
<1>4. ASSUME NEW w \in Workers, Rules!Evaluated(w), quiet' => quiet PROVE CopiesTyped' /\ NoneEnabled'
  BY <1>4 DEF Rules!Evaluated
<1>5. ASSUME NEW w \in Workers, NEW d \in Devices,
             Rules!Raise(w, d) \/ Rules!Recover(w, d) \/ Rules!NoMatch(w, d)
      PROVE  CopiesTyped' /\ NoneEnabled'
  <2>1. Rules!Evaluated(w)
    BY <1>5 DEF Rules!Raise, Rules!Recover, Rules!NoMatch
  <2>2. quiet' => quiet
    BY <1>5, QuietEvaluation DEF RequestTyped
  <2> QED BY <1>4, <2>1, <2>2
<1>6. ASSUME NEW p \in Procs, Rules!Ages(p) PROVE CopiesTyped' /\ NoneEnabled'
  BY <1>6 DEF Rules!Ages
<1>7. ASSUME rule' \in Rules!Rule, Rules!RulesChanged(AdminProc) \/ UNCHANGED cache,
             UNCHANGED <<wpc, got, host>>, quiet' => quiet
      PROVE  CopiesTyped' /\ NoneEnabled'
  BY <1>7 DEF Rules!RulesChanged
<1>8. CASE Rules!Enable \/ Rules!DisableDone \/ Rules!SaveDisabled
  BY <1>7, <1>8 DEF Rules!Enable, Rules!DisableDone, Rules!SaveDisabled
<1>9. CASE Rules!RemoveRule \/ Rules!RequestFails
  BY <1>7, <1>9 DEF Rules!RemoveRule, Rules!RequestFails
<1>10. CASE Rules!BeginDelete
  <2>1. CopiesTyped'
    BY <1>10 DEF Rules!BeginDelete, Rules!RulesChanged
  <2>2. UNCHANGED <<wpc, got, host>> /\ quiet' = ~Rules!EnabledCopy
    BY <1>10 DEF Rules!BeginDelete
  <2> QED BY <2>1, <2>2 DEF Rules!EnabledCopy
<1>11. ASSUME UNCHANGED <<rule, cache, wpc, got, host>>, quiet' => quiet
       PROVE  CopiesTyped' /\ NoneEnabled'
  BY <1>11
<1>12. ASSUME NEW x, Rules!RaiseOther(x) \/ Rules!RecoverOther(x) \/ Rules!Acknowledge(x)
       PROVE  CopiesTyped' /\ NoneEnabled'
  BY <1>11, <1>12 DEF Rules!RaiseOther, Rules!RecoverOther, Rules!Acknowledge
<1>13. ASSUME NEW d, Rules!CloseAlarm(d) \/ Rules!SyncDevice(d) PROVE CopiesTyped' /\ NoneEnabled'
  BY <1>11, <1>13 DEF Rules!CloseAlarm, Rules!SyncDevice
<1>14. ASSUME NEW op, Rules!Request(op) PROVE CopiesTyped' /\ NoneEnabled'
  BY <1>11, <1>14 DEF Rules!Request
<1>15. CASE \/ Rules!BeginDisable \/ Rules!NotFound \/ Rules!ListAlarms \/ Rules!PageDone
            \/ UNCHANGED Rules!vars
  BY <1>11, <1>15 DEF Rules!BeginDisable, Rules!NotFound, Rules!ListAlarms, Rules!PageDone, Rules!vars
<1> QED BY <1>1, <1>2, <1>3, <1>5, <1>6, <1>8, <1>9, <1>10, <1>12, <1>13, <1>14, <1>15
        DEF Rules!Next, Rules!Evaluates, Rules!Administers

\* The request.
LEMMA RequestStep ==
  ASSUME RuleConstants, CopiesTyped, RequestTyped, Deleting, [Rules!Next]_Rules!vars
  PROVE  RequestTyped' /\ Deleting'
<1> USE DEF RuleConstants, RequestTyped, Deleting
<1>0. ASSUME UNCHANGED <<rule, wanted, apc, changes, failures>>, quiet' \in BOOLEAN, quiet' => quiet
      PROVE  RequestTyped' /\ Deleting'
  BY <1>0
<1>1. ASSUME NEW w, NEW p, Rules!Hit(w, p) \/ Rules!Load(w, p) \/ Rules!Store(w) PROVE RequestTyped' /\ Deleting'
  BY <1>0, <1>1 DEF Rules!Hit, Rules!Load, Rules!Store
<1>2. ASSUME NEW w, NEW d, Rules!Raise(w, d) \/ Rules!Recover(w, d) \/ Rules!NoMatch(w, d)
      PROVE  RequestTyped' /\ Deleting'
  <2>1. UNCHANGED <<rule, wanted, apc, changes, failures>>
    BY <1>2 DEF Rules!Raise, Rules!Recover, Rules!NoMatch, Rules!Evaluated
  <2>2. quiet' \in BOOLEAN /\ (quiet' => quiet)
    BY <1>2, QuietEvaluation
  <2> QED BY <1>0, <2>1, <2>2
<1>3. ASSUME NEW p, Rules!Ages(p) PROVE RequestTyped' /\ Deleting'
  BY <1>0, <1>3 DEF Rules!Ages
<1>4. ASSUME NEW x, Rules!RaiseOther(x) \/ Rules!RecoverOther(x) \/ Rules!Acknowledge(x)
      PROVE  RequestTyped' /\ Deleting'
  BY <1>0, <1>4 DEF Rules!RaiseOther, Rules!RecoverOther, Rules!Acknowledge
<1>5. ASSUME NEW d, Rules!CloseAlarm(d) \/ Rules!SyncDevice(d) PROVE RequestTyped' /\ Deleting'
  BY <1>0, <1>5 DEF Rules!CloseAlarm, Rules!SyncDevice
<1>6. ASSUME NEW op \in {"delete", "disable", "enable"}, Rules!Request(op) PROVE RequestTyped' /\ Deleting'
  BY <1>6 DEF Rules!Request
<1>7. CASE Rules!Enable
  BY <1>7 DEF Rules!Enable, Rules!Served
<1>8. CASE Rules!BeginDisable
  BY <1>8 DEF Rules!BeginDisable, Rules!BeginClosing
<1>9. CASE Rules!DisableDone
  BY <1>9 DEF Rules!DisableDone
<1>10. CASE Rules!SaveDisabled
  BY <1>10 DEF Rules!SaveDisabled, Rules!Served
<1>11. CASE Rules!BeginDelete
  BY <1>11 DEF Rules!BeginDelete, Rules!BeginClosing
<1>12. CASE Rules!RemoveRule
  BY <1>12 DEF Rules!RemoveRule
<1>13. CASE Rules!NotFound
  BY <1>13 DEF Rules!NotFound, Rules!Served
<1>14. CASE Rules!ListAlarms
  BY <1>14 DEF Rules!ListAlarms, Rules!NextStatus
<1>15. CASE Rules!PageDone
  BY <1>15 DEF Rules!PageDone
<1>16. CASE Rules!RequestFails
  BY <1>16 DEF Rules!RequestFails
<1>17. CASE UNCHANGED Rules!vars
  BY <1>0, <1>17 DEF Rules!vars
<1> QED BY <1>1, <1>2, <1>3, <1>4, <1>5, <1>6, <1>7, <1>8, <1>9, <1>10, <1>11, <1>12, <1>13, <1>14,
           <1>15, <1>16, <1>17 DEF Rules!Next, Rules!Evaluates, Rules!Administers

\* A page has at most batchSize alarms.
LEMMA PageTyped ==
  ASSUME RuleConstants, ListTyped, ClosingTyped
  PROVE  /\ Rules!Slice(status, offset, BatchSize)
              = {x \in Listed : PlaceIn(x, Listed, later) \in offset .. offset + BatchSize - 1}
         /\ Rules!Cardinality(Rules!Slice(status, offset, BatchSize))
              = Cardinality(Rules!Slice(status, offset, BatchSize))
         /\ Cardinality(Rules!Slice(status, offset, BatchSize)) \in 0 .. BatchSize
<1>0. \A x : Rules!Place(x, status) = PlaceIn(x, Listed, later)
  BY SameCount DEF Rules!Place, Listed, PlaceIn, Before
<1>1. Rules!Slice(status, offset, BatchSize)
        = {x \in Listed : PlaceIn(x, Listed, later) \in offset .. offset + BatchSize - 1}
  BY <1>0 DEF Rules!Slice, Listed
<1>2. offset \in Nat /\ BatchSize \in Nat
  BY DEF ClosingTyped, RuleConstants
<1> QED BY <1>1, <1>2, SameCount, ListedTyped, PlacesBound

\* closeRuleAlarms' locals, and the statuses of the devices.
LEMMA ClosingStep ==
  ASSUME RuleConstants, RuleTyped, Deleting, Resting, [Rules!Next]_Rules!vars
  PROVE  ClosingTyped' /\ Resting'
<1> USE DEF ClosingTyped, Resting
<1>a. ClosingTyped /\ ListTyped /\ RequestTyped
  BY DEF RuleTyped
<1> DEFINE Locals == <<status, offset, listed, page, changed, affected>>
<1>0. ASSUME UNCHANGED Locals, alarmed' \subseteq Devices,
             apc' \in {"idle", "list", "close", "sync", "save"},
             apc' = apc \/ apc' = "list" \/ (apc = "sync" /\ affected = {})
      PROVE  ClosingTyped' /\ Resting'
  BY <1>0, <1>a
<1>1. ASSUME NEW w, NEW p, Rules!Hit(w, p) \/ Rules!Load(w, p) \/ Rules!Store(w) PROVE ClosingTyped' /\ Resting'
  BY <1>0, <1>1, <1>a DEF Rules!Hit, Rules!Load, Rules!Store, Rules!closing, RequestTyped
<1>2. ASSUME NEW w, NEW d \in Devices, Rules!Raise(w, d) \/ Rules!Recover(w, d) \/ Rules!NoMatch(w, d)
      PROVE  ClosingTyped' /\ Resting'
  <2>1. UNCHANGED Locals /\ UNCHANGED apc
    BY <1>2 DEF Rules!Raise, Rules!Recover, Rules!NoMatch, Rules!Evaluated, Rules!closing
  <2>2. alarmed' \subseteq Devices
    BY <1>2, <1>a DEF Rules!Raise, Rules!Recover, Rules!NoMatch
  <2> QED BY <1>0, <2>1, <2>2, <1>a DEF RequestTyped
<1>3. ASSUME NEW p, Rules!Ages(p) PROVE ClosingTyped' /\ Resting'
  BY <1>0, <1>3, <1>a DEF Rules!Ages, Rules!closing, RequestTyped
<1>4. ASSUME NEW x, Rules!RaiseOther(x) \/ Rules!RecoverOther(x) \/ Rules!Acknowledge(x)
      PROVE  ClosingTyped' /\ Resting'
  BY <1>0, <1>4, <1>a DEF Rules!RaiseOther, Rules!RecoverOther, Rules!Acknowledge, Rules!closing, RequestTyped
<1>5. ASSUME NEW d \in Devices, Rules!CloseAlarm(d) PROVE ClosingTyped' /\ Resting'
  BY <1>5, <1>a DEF Rules!CloseAlarm, Rules!alarms
<1>6. ASSUME NEW d \in Devices, Rules!SyncDevice(d) PROVE ClosingTyped' /\ Resting'
  BY <1>6, <1>a DEF Rules!SyncDevice
<1>7. ASSUME NEW op, Rules!Request(op) PROVE ClosingTyped' /\ Resting'
  BY <1>0, <1>7, <1>a DEF Rules!Request, Rules!closing, RequestTyped
<1>8. CASE Rules!Enable
  <2>1. apc' = apc /\ UNCHANGED Locals /\ UNCHANGED alarmed
    BY <1>8, <1>a DEF Rules!Enable, Rules!Served, Rules!closing, Deleting
  <2> QED BY <1>0, <1>a, <2>1 DEF RequestTyped
<1>9. CASE Rules!BeginDisable \/ Rules!DisableDone \/ Rules!BeginDelete
  BY <1>0, <1>9, <1>a DEF Rules!BeginDisable, Rules!DisableDone, Rules!BeginDelete,
         Rules!BeginClosing, Rules!closing
<1>10. CASE Rules!SaveDisabled \/ Rules!RemoveRule \/ Rules!NotFound
  BY <1>10, <1>a DEF Rules!SaveDisabled, Rules!RemoveRule, Rules!NotFound, Rules!Served, Rules!closing
<1>11. CASE Rules!ListAlarms
  <2> DEFINE taken == Rules!Slice(status, offset, BatchSize)
  <2>1. Cardinality(taken) \in 0..BatchSize
    BY <1>a, PageTyped
  <2>2. UNCHANGED <<alarmed, affected>> /\ apc = "list"
    BY <1>11 DEF Rules!ListAlarms
  <2>3. CASE taken = {}
    BY <1>11, <1>a, <2>2, <2>3 DEF Rules!ListAlarms, Rules!NextStatus
  <2>4. CASE taken # {}
    <3>1. /\ apc' = "close" /\ listed' = Cardinality(taken) /\ page' = taken \cap Devices
          /\ changed' = FALSE /\ UNCHANGED <<status, offset>>
      BY <1>11, <1>a, <2>4, PageTyped DEF Rules!ListAlarms
    <3> HIDE DEF taken
    <3> QED BY <1>a, <2>1, <2>2, <3>1
  <2> QED BY <2>3, <2>4
<1>12. CASE Rules!PageDone
  <2>1. /\ apc' = "list" /\ listed' = 0 /\ changed' = FALSE
        /\ offset' = IF changed THEN 0 ELSE offset + listed
        /\ UNCHANGED <<alarmed, status, page, affected>>
    BY <1>12 DEF Rules!PageDone
  <2>2. offset' \in Nat /\ listed' \in 0..BatchSize
    BY <1>a, <2>1 DEF RuleConstants
  <2>3. ClosingTyped'
    BY <1>a, <2>1, <2>2
  <2> QED BY <2>1, <2>3
<1>13. CASE Rules!RequestFails
  <2>1. /\ apc' = "idle" /\ status' = "ACTIVE" /\ offset' = 0 /\ listed' = 0
        /\ page' = {} /\ changed' = FALSE /\ affected' = {} /\ UNCHANGED alarmed
    BY <1>13 DEF Rules!RequestFails
  <2>2. listed' \in 0..BatchSize
    BY <2>1 DEF RuleConstants
  <2>3. ClosingTyped'
    BY <1>a, <2>1, <2>2
  <2> QED BY <2>1, <2>3
<1>14. CASE UNCHANGED Rules!vars
  BY <1>0, <1>14, <1>a DEF Rules!vars, Rules!closing, RequestTyped
<1> QED BY <1>1, <1>2, <1>3, <1>4, <1>5, <1>6, <1>7, <1>8, <1>9, <1>10, <1>11, <1>12, <1>13, <1>14
        DEF Rules!Next, Rules!Evaluates, Rules!Administers

----------------------------------------------------------------------------
(* The paging.                                                              *)

\* closeRuleAlarms has passed the first alarms of its list.
LEMMA PassedIsFirst ==
  ASSUME ClosingTyped, NEW x
  PROVE  /\ apc = "list" => (Rules!Passed(x) <=> x \in FirstOf(offset, Listed, later))
         /\ apc = "close" => (Rules!Passed(x) <=> x \in FirstOf(offset + listed, Listed, later))
<1>0. \A y : Rules!Place(y, status) = PlaceIn(y, Listed, later)
  BY SameCount DEF Rules!Place, Listed, PlaceIn, Before
<1>1. \A k : Rules!Slice(status, 0, k) = FirstOf(k, Listed, later)
  BY <1>0 DEF Rules!Slice, Listed, FirstOf
<1> QED BY <1>1 DEF Rules!Passed

\* Steps that leave the table and the paging alone.
LEMMA ClearedAside ==
  ASSUME Cleared, quiet' => quiet,
         UNCHANGED <<open, acked, later, status, offset, listed, page, changed, apc, rule>>
  PROVE  Cleared'
<1>1. Listed' = Listed
  BY DEF Listed, Rules!WithStatus
<1> QED BY <1>1 DEF Cleared, PassedClear, ActiveClear, AllClear

\* Nothing among the first k of the list that was not there before, but for alarms of
\* other rules.
FirstKept == \A k \in Nat : Devices \cap FirstOf(k, Listed', later') \subseteq FirstOf(k, Listed, later)

\* A report of an alarm of another rule.
LEMMA ClearedReport ==
  ASSUME RuleConstants, RuleTyped, Cleared, NEW x \in Others, Rules!Upsert(x), quiet' => quiet,
         UNCHANGED <<status, offset, listed, page, changed, apc, rule>>
  PROVE  Cleared'
<1>1. /\ open' = open \cup {x} /\ acked' = acked
      /\ later' = {p \in later : x \notin {p[1], p[2]}} \cup ({x} \X (open \ {x}))
  BY DEF Rules!Upsert, Rules!Without
<1>2. x \notin Devices
  BY DEF RuleConstants
<1>3. ListTyped /\ ListTyped' /\ offset \in Nat /\ offset + listed \in Nat
  BY UpsertTyped DEF RuleTyped, ClosingTyped, RuleConstants
<1>4. Listed \in SUBSET open /\ Listed \subseteq Listed' /\ Listed' \subseteq Listed \cup {x}
  BY <1>1, <1>3 DEF Listed, Rules!WithStatus, ListTyped
<1>5. IsFiniteSet(Listed')
  <2>1. Listed' \in SUBSET open'
    BY <1>3 DEF Listed, Rules!WithStatus, ListTyped
  <2> QED BY <1>3, <2>1, FS_Subset DEF ListTyped
<1>6. \A k \in Nat : FirstOf(k, Listed', later') \subseteq FirstOf(k, Listed, later) \cup {x}
  BY <1>1, <1>4, <1>5, FirstAfterUpsert
<1>7. FirstKept
  BY <1>2, <1>6 DEF FirstKept
<1>8. PassedClear => PassedClear'
  BY <1>3, <1>7 DEF PassedClear, FirstKept
<1>9. (ActiveClear => ActiveClear') /\ (AllClear => AllClear')
  BY <1>1, <1>2 DEF ActiveClear, AllClear
<1> QED BY <1>8, <1>9 DEF Cleared

\* A recovery or an acknowledgement that the paging has not passed.
LEMMA ClearedLeaving ==
  ASSUME RuleConstants, RuleTyped, Cleared, NEW x, Rules!Recovered(x), ~Rules!Passed(x), quiet' => quiet,
         UNCHANGED <<status, offset, listed, page, changed, apc, rule>>
  PROVE  Cleared'
<1>1. /\ open' = open \ {x} /\ acked' = acked \ {x}
      /\ later' = {p \in later : x \notin {p[1], p[2]}}
  BY DEF Rules!Recovered, Rules!Without
<1>2. ListTyped /\ ClosingTyped /\ offset \in Nat /\ offset + listed \in Nat
  BY DEF RuleTyped, ClosingTyped, RuleConstants
<1>3. Listed' = Listed \ {x}
  BY <1>1, <1>2 DEF Listed, Rules!WithStatus, ListTyped
<1>4. \A k \in Nat : x \notin FirstOf(k, Listed, later)
                        => FirstOf(k, Listed', later') \subseteq FirstOf(k, Listed, later)
  BY <1>1, <1>2, <1>3, ListedTyped, FirstAfterRecovery
<1>5. PassedClear => PassedClear'
  BY <1>2, <1>4, PassedIsFirst DEF PassedClear
<1>6. (ActiveClear => ActiveClear') /\ (AllClear => AllClear')
  BY <1>1 DEF ActiveClear, AllClear
<1> QED BY <1>5, <1>6 DEF Cleared

LEMMA ClearedAcknowledge ==
  ASSUME RuleConstants, RuleTyped, Cleared, NEW x, Rules!Acknowledge(x)
  PROVE  Cleared'
<1>1. /\ acked' = acked \cup {x} /\ x \in open /\ x \notin acked
      /\ UNCHANGED <<open, later, status, offset, listed, page, changed, apc, rule>>
  BY DEF Rules!Acknowledge, Rules!IsOpen, Rules!closing
<1>2. quiet' => quiet /\ ~Rules!Passed(x)
  BY DEF Rules!Acknowledge, Rules!Passed, RuleTyped, RequestTyped
<1> SUFFICES ASSUME quiet, ~Rules!Passed(x), PassedClear, ActiveClear, AllClear
             PROVE  PassedClear' /\ ActiveClear' /\ AllClear'
  BY <1>2 DEF Cleared
<1>3. ListTyped /\ ClosingTyped /\ offset \in Nat /\ offset + listed \in Nat
      /\ status \in {"ACTIVE", "ACKED"}
  BY DEF RuleTyped, ClosingTyped, RuleConstants
<1>4. ActiveClear' /\ AllClear'
  BY <1>1 DEF ActiveClear, AllClear
<1>5. CASE status = "ACTIVE"
  <2>1. Listed' = Listed \ {x}
    BY <1>1, <1>5 DEF Listed, Rules!WithStatus
  <2>2. \A k \in Nat : x \notin FirstOf(k, Listed, later)
                          => FirstOf(k, Listed', later') \subseteq FirstOf(k, Listed, later)
    BY <1>1, <1>3, <2>1, ListedTyped, LeavesBehind
  <2> QED BY <1>1, <1>3, <1>4, <2>2, PassedIsFirst DEF PassedClear
<1>6. CASE status = "ACKED"
  <2>1. Listed' = Listed \cup {x}
    BY <1>1, <1>6 DEF Listed, Rules!WithStatus
  <2>2. \A k \in Nat : FirstOf(k, Listed', later') \subseteq FirstOf(k, Listed, later) \cup {x}
    BY <1>1, <1>3, <2>1, ListedTyped, FirstAfterEntry
  <2>3. apc \in {"list", "close"} => x \notin Devices
    BY <1>1, <1>6 DEF ActiveClear
  <2> QED BY <1>1, <1>3, <1>4, <2>2, <2>3 DEF PassedClear
<1> QED BY <1>3, <1>5, <1>6

\* An empty page ends the list of a status: no place is skipped.
LEMMA ClearedPage ==
  ASSUME RuleConstants, RuleTyped, Cleared, Rules!ListAlarms
  PROVE  Cleared'
<1> DEFINE taken == Rules!Slice(status, offset, BatchSize)
<1>1. apc = "list" /\ UNCHANGED <<rule, open, acked, later, quiet>>
  BY DEF Rules!ListAlarms, Rules!alarms
<1> SUFFICES ASSUME quiet, PassedClear, ActiveClear, AllClear
             PROVE  PassedClear' /\ ActiveClear' /\ AllClear'
  BY <1>1 DEF Cleared
<1>2. /\ ListTyped /\ ClosingTyped /\ offset \in Nat /\ status \in {"ACTIVE", "ACKED"}
      /\ BatchSize \in Nat \ {0}
  BY DEF RuleTyped, ClosingTyped, RuleConstants
<1>3. /\ taken = {x \in Listed : PlaceIn(x, Listed, later) \in offset .. offset + BatchSize - 1}
      /\ Rules!Cardinality(taken) = Cardinality(taken) /\ Cardinality(taken) \in 0 .. BatchSize
  BY <1>2, PageTyped
<1>4. Devices \cap FirstOf(offset, Listed, later) = {}
  BY <1>1 DEF PassedClear
<1>6. CASE taken = {}
  <2>1. \A x \in Listed : PlaceIn(x, Listed, later) # offset
    BY <1>2, <1>3, <1>6
  <2>2. Devices \cap Listed = {}
    BY <1>2, <1>4, <2>1, ListedTyped, NoGap
  <2>3. Rules!NextStatus
    BY <1>6 DEF Rules!ListAlarms
  <2>4. CASE status = "ACTIVE"
    <3>1. status' = "ACKED" /\ offset' = 0 /\ apc' = "list"
      BY <1>1, <2>3, <2>4 DEF Rules!NextStatus
    <3>2. Devices \cap (open \ acked) = {}
      BY <2>2, <2>4 DEF Listed, Rules!WithStatus
    <3> QED BY <1>1, <3>1, <3>2, FirstOfNone DEF PassedClear, ActiveClear, AllClear
  <2>5. CASE status = "ACKED"
    <3>1. apc' = "sync"
      BY <2>3, <2>5 DEF Rules!NextStatus
    <3>2. Devices \cap open = {}
      BY <1>1, <2>2, <2>5 DEF Listed, Rules!WithStatus, ActiveClear
    <3> QED BY <1>1, <3>1, <3>2 DEF PassedClear, ActiveClear, AllClear
  <2> QED BY <1>2, <2>4, <2>5
<1>7. CASE taken # {}
  <2>1. /\ apc' = "close" /\ listed' = Cardinality(taken) /\ page' = taken \cap Devices
        /\ changed' = FALSE /\ UNCHANGED <<status, offset>>
    BY <1>3, <1>7 DEF Rules!ListAlarms
  <2>2. Listed' = Listed
    BY <1>1, <2>1 DEF Listed, Rules!WithStatus
  <2>3. Devices \cap FirstOf(offset + Cardinality(taken), Listed, later) \subseteq taken
    <3> SUFFICES ASSUME NEW x \in Devices, x \in FirstOf(offset + Cardinality(taken), Listed, later)
                 PROVE  x \in taken
      OBVIOUS
    <3>1. /\ x \in Listed /\ PlaceIn(x, Listed, later) \in Nat
          /\ PlaceIn(x, Listed, later) < offset + Cardinality(taken)
      <4> HIDE DEF taken
      <4> QED BY <1>2, <1>3 DEF FirstOf
    <3>2. ~(PlaceIn(x, Listed, later) < offset)
      BY <1>2, <1>4, <3>1 DEF FirstOf
    <3>3. PlaceIn(x, Listed, later) \in offset .. offset + BatchSize - 1
      <4> HIDE DEF taken
      <4> QED BY <1>2, <1>3, <3>1, <3>2
    <3> QED BY <1>3, <3>1, <3>3
  <2> HIDE DEF taken
  <2>4. PassedClear'
    BY <1>1, <2>1, <2>2, <2>3 DEF PassedClear
  <2> QED BY <1>1, <2>1, <2>4 DEF ActiveClear, AllClear
<1> QED BY <1>6, <1>7

\* An alarm of the page is closed, or is found closed.
LEMMA ClearedClose ==
  ASSUME RuleConstants, RuleTyped, Cleared, NEW d \in Devices, Rules!CloseAlarm(d)
  PROVE  Cleared'
<1>1. /\ apc = "close" /\ page' = page \ {d}
      /\ UNCHANGED <<rule, apc, status, offset, listed, quiet>>
  BY DEF Rules!CloseAlarm
<1>2. CASE d \in open
  <2>1. open' = open \ {d} /\ acked' = acked \ {d} /\ changed' = TRUE
    BY <1>2 DEF Rules!CloseAlarm, Rules!IsOpen, Rules!Recovered
  <2> QED BY <1>1, <2>1 DEF Cleared, PassedClear, ActiveClear, AllClear
<1>3. CASE d \notin open
  <2>1. UNCHANGED <<open, acked, later, changed>>
    BY <1>3 DEF Rules!CloseAlarm, Rules!IsOpen, Rules!alarms
  <2>2. Listed' = Listed
    BY <1>1, <2>1 DEF Listed, Rules!WithStatus
  <2>3. \A k : d \notin FirstOf(k, Listed, later)
    BY <1>3, ListedTyped DEF RuleTyped, FirstOf
  <2> QED BY <1>1, <2>1, <2>2, <2>3 DEF Cleared, PassedClear, ActiveClear, AllClear
<1> QED BY <1>2, <1>3

\* A page that closed nothing is passed; otherwise the paging starts anew.
LEMMA ClearedPageDone ==
  ASSUME RuleConstants, RuleTyped, Cleared, Rules!PageDone
  PROVE  Cleared'
<1>1. /\ apc = "close" /\ page = {} /\ apc' = "list"
      /\ offset' = IF changed THEN 0 ELSE offset + listed
      /\ UNCHANGED <<rule, open, acked, later, status, quiet>>
  BY DEF Rules!PageDone, Rules!alarms
<1>2. Listed' = Listed
  BY <1>1 DEF Listed, Rules!WithStatus
<1>3. CASE changed
  BY <1>1, <1>2, <1>3, FirstOfNone DEF Cleared, PassedClear, ActiveClear, AllClear
<1>4. CASE ~changed
  BY <1>1, <1>2, <1>4 DEF Cleared, PassedClear, ActiveClear, AllClear
<1> QED BY <1>3, <1>4

\* Every step of the system.
LEMMA ClearedStep ==
  ASSUME RuleConstants, RuleInv, [Rules!Next]_Rules!vars
  PROVE  Cleared'
<1>0. RuleTyped /\ RequestTyped /\ quiet \in BOOLEAN /\ NoneEnabled /\ Deleting /\ Resting /\ Cleared
  BY DEF RuleInv, RuleTyped, RequestTyped
<1>1. ASSUME NEW w, NEW p, Rules!Hit(w, p) \/ Rules!Load(w, p) \/ Rules!Store(w) PROVE Cleared'
  BY <1>0, <1>1, ClearedAside DEF Rules!Hit, Rules!Load, Rules!Store, Rules!alarms, Rules!closing
<1>2. ASSUME NEW w, NEW d, Rules!NoMatch(w, d) PROVE Cleared'
  BY <1>0, <1>2, ClearedAside DEF Rules!NoMatch, Rules!Evaluated, Rules!alarms, Rules!closing
<1>3. ASSUME NEW w \in Workers, NEW d, Rules!Raise(w, d) PROVE Cleared'
  <2>1. ~quiet
    BY <1>0, <1>3 DEF Rules!Raise, Rules!Evaluated, NoneEnabled
  <2> QED BY <1>3, <2>1 DEF Rules!Raise, Cleared
<1>4. ASSUME NEW w, NEW d, Rules!Recover(w, d) PROVE Cleared'
  <2>1. /\ Rules!Recovered(d) /\ UNCHANGED <<status, offset, listed, page, changed, apc, rule>>
        /\ quiet' = (quiet /\ ~Rules!Passed(d))
    BY <1>4 DEF Rules!Recover, Rules!Evaluated, Rules!closing
  <2>2. quiet' => quiet /\ ~Rules!Passed(d)
    BY <2>1 DEF Rules!Passed
  <2>3. CASE Rules!Passed(d)
    BY <2>2, <2>3 DEF Cleared
  <2>4. CASE ~Rules!Passed(d)
    BY <1>0, <2>1, <2>2, <2>4, ClearedLeaving
  <2> QED BY <2>3, <2>4
<1>5. ASSUME NEW p, Rules!Ages(p) PROVE Cleared'
  BY <1>0, <1>5, ClearedAside DEF Rules!Ages, Rules!alarms, Rules!closing
<1>6. ASSUME NEW x \in Others, Rules!RaiseOther(x) PROVE Cleared'
  BY <1>0, <1>6, ClearedReport DEF Rules!RaiseOther, Rules!closing
<1>7. ASSUME NEW x, Rules!RecoverOther(x) PROVE Cleared'
  <2>1. /\ Rules!Recovered(x) /\ UNCHANGED <<status, offset, listed, page, changed, apc, rule>>
        /\ quiet' = (quiet /\ ~Rules!Passed(x))
    BY <1>7 DEF Rules!RecoverOther, Rules!closing
  <2>2. quiet' => quiet /\ ~Rules!Passed(x)
    BY <2>1 DEF Rules!Passed
  <2>3. CASE Rules!Passed(x)
    BY <2>2, <2>3 DEF Cleared
  <2>4. CASE ~Rules!Passed(x)
    BY <1>0, <2>1, <2>2, <2>4, ClearedLeaving
  <2> QED BY <2>3, <2>4
<1>8. ASSUME NEW x, Rules!Acknowledge(x) PROVE Cleared'
  BY <1>0, <1>8, ClearedAcknowledge
<1>9. ASSUME NEW op, Rules!Request(op) PROVE Cleared'
  BY <1>0, <1>9, ClearedAside DEF Rules!Request, Rules!alarms, Rules!closing
<1>10. CASE Rules!Enable \/ Rules!DisableDone \/ Rules!SaveDisabled
  <2>1. ~quiet
    BY <1>0, <1>10 DEF Rules!Enable, Rules!DisableDone, Rules!SaveDisabled, Deleting
  <2> QED BY <1>10, <2>1 DEF Rules!Enable, Rules!DisableDone, Rules!SaveDisabled, Cleared
<1>11. CASE Rules!BeginDisable
  BY <1>11 DEF Rules!BeginDisable, Cleared
<1>12. CASE Rules!BeginDelete
  <2>1. apc' = "list" /\ offset' = 0 /\ status' = "ACTIVE" /\ rule' = "off"
    BY <1>0, <1>12 DEF Rules!BeginDelete, Rules!BeginClosing, Rules!closing, Resting
  <2> QED BY <2>1, FirstOfNone DEF Cleared, PassedClear, ActiveClear, AllClear
<1>13. CASE Rules!RemoveRule
  <2>1. apc = "sync" /\ apc' = "idle" /\ UNCHANGED <<open, acked, later, quiet>>
    BY <1>13 DEF Rules!RemoveRule, Rules!alarms
  <2> QED BY <1>0, <2>1 DEF Cleared, PassedClear, ActiveClear, AllClear
<1>14. CASE Rules!NotFound
  BY <1>0, <1>14, ClearedAside DEF Rules!NotFound, Rules!Served, Rules!alarms, Rules!closing
<1>15. ASSUME NEW d, Rules!SyncDevice(d) PROVE Cleared'
  BY <1>0, <1>15, ClearedAside DEF Rules!SyncDevice, Rules!alarms
<1>16. CASE Rules!RequestFails
  <2>1. apc' = "idle" /\ rule' # "gone"
    BY <1>0, <1>16 DEF Rules!RequestFails, Deleting
  <2> QED BY <2>1 DEF Cleared, PassedClear, ActiveClear, AllClear
<1>17. CASE UNCHANGED Rules!vars
  BY <1>0, <1>17, ClearedAside DEF Rules!vars, Rules!alarms, Rules!closing
<1> QED BY <1>0, <1>1, <1>2, <1>3, <1>4, <1>5, <1>6, <1>7, <1>8, <1>9, <1>10, <1>11, <1>12, <1>13, <1>14,
           <1>15, <1>16, <1>17, ClearedPage, ClearedClose, ClearedPageDone
        DEF Rules!Next, Rules!Evaluates, Rules!Administers

\* A device whose alarm is closed is synchronised before the request ends.
LEMMA KnownStep ==
  ASSUME RuleConstants, RuleInv, [Rules!Next]_Rules!vars
  PROVE  AlarmKnown'
<1>0. /\ AlarmKnown /\ alarmed \subseteq Devices /\ failures \in Nat
      /\ Devices \cap Others = {}
  BY DEF RuleInv, RuleTyped, ClosingTyped, RequestTyped, RuleConstants
<1>1. ASSUME NEW w, NEW d, Rules!Raise(w, d) \/ Rules!Recover(w, d) \/ Rules!NoMatch(w, d)
      PROVE  AlarmKnown'
  <2>1. UNCHANGED <<affected, failures>>
    BY <1>1 DEF Rules!Raise, Rules!Recover, Rules!NoMatch, Rules!Evaluated, Rules!closing
  <2>2. CASE Rules!Raise(w, d)
    BY <1>0, <2>1, <2>2 DEF Rules!Raise, Rules!Upsert, AlarmKnown
  <2>3. CASE Rules!Recover(w, d)
    BY <1>0, <2>1, <2>3 DEF Rules!Recover, Rules!Recovered, AlarmKnown
  <2>4. CASE Rules!NoMatch(w, d)
    BY <1>0, <2>1, <2>4 DEF Rules!NoMatch, Rules!IsOpen, Rules!alarms, AlarmKnown
  <2> QED BY <1>1, <2>2, <2>3, <2>4
<1>2. ASSUME NEW x \in Others, Rules!RaiseOther(x) \/ Rules!RecoverOther(x) PROVE AlarmKnown'
  BY <1>0, <1>2 DEF Rules!RaiseOther, Rules!RecoverOther, Rules!Upsert, Rules!Recovered,
         Rules!closing, AlarmKnown
<1>3. ASSUME NEW d \in Devices, Rules!CloseAlarm(d) PROVE AlarmKnown'
  BY <1>0, <1>3 DEF Rules!CloseAlarm, Rules!Recovered, Rules!alarms, AlarmKnown
<1>4. ASSUME NEW d \in Devices, Rules!SyncDevice(d) PROVE AlarmKnown'
  BY <1>0, <1>4 DEF Rules!SyncDevice, Rules!IsOpen, Rules!alarms, AlarmKnown
<1>5. CASE Rules!RequestFails
  BY <1>0, <1>5 DEF Rules!RequestFails, AlarmKnown
<1>6. ASSUME UNCHANGED <<open, alarmed, affected>>, failures' = 0 => failures = 0 PROVE AlarmKnown'
  BY <1>0, <1>6 DEF AlarmKnown
<1>7. CASE Rules!RemoveRule
  BY <1>0, <1>6, <1>7 DEF Rules!RemoveRule, Rules!alarms, Rules!closing
<1>8. ASSUME NEW w, NEW p, Rules!Hit(w, p) \/ Rules!Load(w, p) \/ Rules!Store(w) PROVE AlarmKnown'
  BY <1>6, <1>8 DEF Rules!Hit, Rules!Load, Rules!Store, Rules!alarms, Rules!closing
<1>9. ASSUME NEW x, Rules!Ages(x) \/ Rules!Acknowledge(x) \/ Rules!Request(x) PROVE AlarmKnown'
  BY <1>6, <1>9 DEF Rules!Ages, Rules!Acknowledge, Rules!Request, Rules!alarms, Rules!closing
<1>10. CASE \/ Rules!Enable \/ Rules!BeginDisable \/ Rules!DisableDone \/ Rules!SaveDisabled
            \/ Rules!BeginDelete \/ Rules!NotFound \/ Rules!ListAlarms \/ Rules!PageDone
            \/ UNCHANGED Rules!vars
  BY <1>6, <1>10 DEF Rules!Enable, Rules!BeginDisable, Rules!DisableDone, Rules!SaveDisabled,
         Rules!BeginDelete, Rules!BeginClosing, Rules!NotFound, Rules!ListAlarms, Rules!PageDone,
         Rules!vars, Rules!alarms, Rules!closing
<1> QED BY <1>1, <1>2, <1>3, <1>4, <1>5, <1>7, <1>8, <1>9, <1>10
        DEF Rules!Next, Rules!Evaluates, Rules!Administers

\* The invariant holds in every reachable state.
LEMMA RuleStart ==
  ASSUME RuleConstants, Rules!Init
  PROVE  RuleInv
<1> USE DEF Rules!Init, RuleConstants
<1>1. ListTyped
  BY FS_EmptySet DEF ListTyped, IsOrder
<1>2. CopiesTyped
  BY DEF CopiesTyped, Rules!Rule
<1>a. 0 \in 0 .. MaxChanges /\ 0 \in 0 .. MaxFaults /\ 0 \in 0 .. BatchSize /\ 0 \in Nat
  OBVIOUS
<1>b. quiet \in BOOLEAN /\ changed \in BOOLEAN
  BY Zenon
<1>3. RequestTyped
  BY <1>a, <1>b DEF RequestTyped
<1>4. ClosingTyped
  BY <1>a, <1>b DEF ClosingTyped
<1>5. NoneEnabled /\ Deleting /\ Resting /\ Cleared /\ AlarmKnown
  BY DEF NoneEnabled, Deleting, Resting, Cleared, AlarmKnown
<1> QED BY <1>1, <1>2, <1>3, <1>4, <1>5 DEF RuleInv, RuleTyped

LEMMA RuleStep ==
  ASSUME RuleConstants, RuleInv, [Rules!Next]_Rules!vars
  PROVE  RuleInv'
<1>1. RuleTyped /\ ListTyped /\ CopiesTyped /\ RequestTyped /\ NoneEnabled /\ Deleting /\ Resting
  BY DEF RuleInv, RuleTyped
<1> QED BY <1>1, ListStep, CopiesStep, RequestStep, ClosingStep, ClearedStep, KnownStep
        DEF RuleInv, RuleTyped

\* The rule, its copies, the table of alarms and the requests keep their types, and of two
\* open alarms one was triggered later, so that pages list each alarm once.
THEOREM RuleTypesHold ==
  ASSUME RuleConstants
  PROVE  Rules!Spec => []Rules!RulesTypeOK
<1>1. Rules!Init => RuleInv
  BY RuleStart
<1>2. RuleInv /\ [Rules!Next]_Rules!vars => RuleInv'
  BY RuleStep
<1>3. ASSUME RuleInv PROVE Rules!RulesTypeOK
  <2>1. \A x, y \in open : x # y => (<<x, y>> \in later <=> <<y, x>> \notin later)
    <3> SUFFICES ASSUME NEW x \in open, NEW y \in open, x # y
                 PROVE  (<<x, y>> \in later <=> <<y, x>> \notin later)
      OBVIOUS
    <3>1. IsOrder(later, open)
      BY <1>3 DEF RuleInv, RuleTyped, ListTyped
    <3>2. <<x, y>> \in later \/ <<y, x>> \in later
      BY <3>1 DEF IsOrder
    <3>3. ~(<<x, y>> \in later /\ <<y, x>> \in later)
      BY <3>1 DEF IsOrder
    <3> QED BY <3>2, <3>3
  <2> QED BY <1>3, <2>1 DEF RuleInv, RuleTyped, ListTyped, CopiesTyped, RequestTyped, ClosingTyped,
                            Rules!RulesTypeOK
<1> QED BY <1>1, <1>2, <1>3, PTL DEF Rules!Spec

\* DeleteRule leaves no open alarm of its rule, and without failures no device in status
\* ALARM, for any page size and number of alarms, processes and workers, if no process could
\* evaluate the enabled rule as it began and no alarm left the pages it had passed.
THEOREM DeletionCloses ==
  ASSUME RuleConstants
  PROVE  Rules!Spec => []DeletedQuietly
<1>1. Rules!Init => RuleInv
  BY RuleStart
<1>2. RuleInv /\ [Rules!Next]_Rules!vars => RuleInv'
  BY RuleStep
<1>3. ASSUME RuleInv PROVE DeletedQuietly
  <2> SUFFICES ASSUME rule = "gone", quiet
               PROVE  Devices \cap open = {} /\ (failures = 0 => alarmed = {})
    BY DEF DeletedQuietly
  <2>1. Devices \cap open = {}
    BY <1>3 DEF RuleInv, Cleared, AllClear
  <2>2. affected = {} /\ alarmed \subseteq Devices
    BY <1>3 DEF RuleInv, Deleting, Resting, RuleTyped, ClosingTyped
  <2> QED BY <1>3, <2>1, <2>2 DEF RuleInv, AlarmKnown
<1> QED BY <1>1, <1>2, <1>3, PTL DEF Rules!Spec

=============================================================================
