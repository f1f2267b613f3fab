---------------------------- MODULE Notifications ----------------------------
(***************************************************************************)
(* Notifications of an alarm (notify/service.go, postgres/notifications.go):   *)
(* the consumers of the alarm topics queue tasks, workers claim due tasks      *)
(* under a lease, read the alarm and the policy again, send and record the     *)
(* result.                                                                  *)
(*                                                                          *)
(* One alarm, whose first report reaches its topic through the outbox         *)
(* (module Outbox).  One policy with two stages, one channel and recovery      *)
(* notices: the tasks are "first" and "escalation" of kind TRIGGER and         *)
(* "recovery" of kind RECOVERY.  Time is abstract: delays and leases run out    *)
(* at any moment.                                                           *)
(***************************************************************************)
EXTENDS Integers, FiniteSets

CONSTANTS
    Procs,         \* processes that run a delivery loop
    NoTask,
    MaxAttempts,   \* Service.maxAttempts
    MaxFaults      \* bound on lost events, answers and updates, process exits and
                   \* leases that run out under their holder

Tasks == {"first", "escalation", "recovery"}

ASSUME NotificationAssumption ==
    /\ NoTask \notin Tasks
    /\ MaxAttempts \in Nat \ {0}
    /\ IsFiniteSet(Procs)
    /\ MaxFaults \in Nat

VARIABLES
    status,      \* alarm_record: "NONE", "ACTIVE", "ACKED", "RECOVERED"
    recovered,   \* whether its recovery event is on the topic
    policy,      \* whether the policy is enabled
    task,        \* notification_task: status, attempts, due, leased
    batch,       \* tasks claimed by each delivery loop, with the attempts it read
    cur,         \* the one it is delivering
    outcome,     \* the result to be written by FinishTask
    sends,       \* history: how often the task reached the channel
    overran,     \* history: whether a lease ran out while a loop held its task
    faults

alarm    == <<status, recovered>>
delivery == <<batch, cur, outcome>>
counts   == <<sends, overran>>
vars == <<alarm, policy, task, delivery, counts, faults>>

NoRow == [status |-> "NONE", attempts |-> 0, due |-> FALSE, leased |-> FALSE]
NoBatch == [t \in {} |-> 0]

Init ==
    /\ status = "NONE" /\ recovered = FALSE
    /\ policy = TRUE
    /\ task = [t \in Tasks |-> NoRow]
    /\ batch = [p \in Procs |-> NoBatch]
    /\ cur = [p \in Procs |-> NoTask]
    /\ outcome = [p \in Procs |-> "none"]
    /\ sends = [t \in Tasks |-> 0] /\ overran = FALSE
    /\ faults = 0

Fault == faults < MaxFaults /\ faults' = faults + 1

(***************************************************************************)
(* The alarm.                                                               *)
(***************************************************************************)
(* UpsertAlarm; the event is committed with the alarm.                        *)
Raise ==
    /\ status = "NONE"
    /\ status' = "ACTIVE"
    /\ UNCHANGED <<recovered, policy, task, delivery, counts, faults>>

(* SetAlarmStatus.                                                           *)
Acknowledge ==
    /\ status = "ACTIVE"
    /\ status' = "ACKED"
    /\ UNCHANGED <<recovered, policy, task, delivery, counts, faults>>

(* recoverRuleAlarm: the recovery event is published after the update and      *)
(* not through the outbox; a failure is only logged.                         *)
Recover ==
    /\ status \in {"ACTIVE", "ACKED"}
    /\ status' = "RECOVERED"
    /\ \/ recovered' = TRUE /\ UNCHANGED faults
       \/ Fault /\ UNCHANGED recovered
    /\ UNCHANGED <<policy, task, delivery, counts>>

DisablePolicy ==
    /\ policy
    /\ policy' = FALSE
    /\ UNCHANGED <<alarm, task, delivery, counts, faults>>

(***************************************************************************)
(* HandleReported, HandleRecovered: a topic delivers an event at least once;   *)
(* EnqueueTasks inserts the tasks that do not exist (ON CONFLICT DO NOTHING).   *)
(***************************************************************************)
NewTask(t) == [status |-> "PENDING", attempts |-> 0, due |-> t # "escalation", leased |-> FALSE]

Enqueue_Upsert(ts) == task' = [t \in Tasks |-> IF t \in ts THEN NewTask(t) ELSE task[t]]

Enqueue(ts) ==
    task' = [t \in Tasks |-> IF t \in ts /\ task[t].status = "NONE" THEN NewTask(t) ELSE task[t]]

HandleReported ==
    /\ status # "NONE" /\ policy
    /\ Enqueue({"first", "escalation"})
    /\ UNCHANGED <<alarm, policy, delivery, counts, faults>>

HandleRecovered ==
    /\ recovered /\ policy
    /\ Enqueue({"recovery"})
    /\ UNCHANGED <<alarm, policy, delivery, counts, faults>>

(***************************************************************************)
(* DeliverDue.                                                              *)
(***************************************************************************)
(* The delay of an escalation or of a retry is over.                         *)
BecomesDue(t) ==
    /\ task[t].status = "PENDING" /\ ~task[t].due
    /\ task' = [task EXCEPT ![t].due = TRUE]
    /\ UNCHANGED <<alarm, policy, delivery, counts, faults>>

Held(t) == \E p \in Procs : t \in DOMAIN batch[p]

(* The lease of a task runs out: its process is gone or gave the batch up, or   *)
(* it is still working through the batch (20 tasks of up to 20 seconds each     *)
(* under a lease of 60), which is an overrun.                                *)
LeaseExpires(t) ==
    /\ task[t].leased
    /\ task' = [task EXCEPT ![t].leased = FALSE]
    /\ \/ Held(t) /\ Fault /\ overran' = TRUE
       \/ ~Held(t) /\ UNCHANGED <<overran, faults>>
    /\ UNCHANGED <<alarm, policy, delivery, sends>>

Claimable_LeaseIgnored(t) ==
    task[t].status = "SENDING" \/ (task[t].status = "PENDING" /\ task[t].due)

Claimable(t) ==
    \/ task[t].status = "PENDING" /\ task[t].due
    \/ task[t].status = "SENDING" /\ ~task[t].leased

Claimed(row) == [status |-> "SENDING", attempts |-> row.attempts, due |-> row.due, leased |-> TRUE]

ClaimDueTasks(p) ==
    LET ts == {t \in Tasks : Claimable(t)} IN
    /\ DOMAIN batch[p] = {} /\ ts # {}
    /\ task' = [t \in Tasks |-> IF t \in ts THEN Claimed(task[t]) ELSE task[t]]
    /\ batch' = [batch EXCEPT ![p] = [t \in ts |-> task[t].attempts]]
    /\ UNCHANGED <<alarm, policy, cur, outcome, counts, faults>>

(* deliver: the alarm and the policy are read again, and may have changed      *)
(* since the task was queued; then the message goes to the channel.           *)
Cancels(t) == ~policy \/ (t = "escalation" /\ status # "ACTIVE")

Send(p, t) ==
    /\ cur[p] = NoTask /\ t \in DOMAIN batch[p] /\ ~Cancels(t)
    /\ cur' = [cur EXCEPT ![p] = t]
    /\ outcome' = [outcome EXCEPT ![p] = "SENT"]
    /\ sends' = [sends EXCEPT ![t] = @ + 1]
    /\ UNCHANGED <<alarm, policy, task, batch, overran, faults>>

(* A read or the sending fails; a message that timed out may have arrived.     *)
SendFails(p, t) ==
    /\ cur[p] = NoTask /\ t \in DOMAIN batch[p]
    /\ cur' = [cur EXCEPT ![p] = t]
    /\ outcome' = [outcome EXCEPT ![p] = "retry"]
    /\ \/ ~Cancels(t) /\ Fault /\ sends' = [sends EXCEPT ![t] = @ + 1]
       \/ UNCHANGED <<sends, faults>>
    /\ UNCHANGED <<alarm, policy, task, batch, overran>>

(* FinishTask writes the row by its id, whoever holds its lease.  retry counts  *)
(* the attempt and gives up at the limit.                                    *)
Ended(result, n) == [status |-> result, attempts |-> n, due |-> FALSE, leased |-> FALSE]

Result_NoLimit(result, n) == IF result = "retry" THEN Ended("PENDING", n) ELSE Ended(result, n)

Result(result, n) ==
    IF result # "retry" THEN Ended(result, n)
    ELSE Ended(IF n + 1 >= MaxAttempts THEN "FAILED" ELSE "PENDING", n + 1)

Drop(f, t) == [u \in DOMAIN f \ {t} |-> f[u]]

Cancel(p, t) ==
    /\ cur[p] = NoTask /\ t \in DOMAIN batch[p] /\ Cancels(t)
    /\ task' = [task EXCEPT ![t] = Result("CANCELLED", batch[p][t])]
    /\ batch' = [batch EXCEPT ![p] = Drop(@, t)]
    /\ UNCHANGED <<alarm, policy, cur, outcome, counts, faults>>

(* The channel's secret cannot be opened, or there is no recipient.            *)
Reject(p, t) ==
    /\ cur[p] = NoTask /\ t \in DOMAIN batch[p] /\ ~Cancels(t)
    /\ task' = [task EXCEPT ![t] = Result("FAILED", batch[p][t])]
    /\ batch' = [batch EXCEPT ![p] = Drop(@, t)]
    /\ UNCHANGED <<alarm, policy, cur, outcome, counts, faults>>

FinishTask(p) ==
    /\ cur[p] # NoTask
    /\ task' = [task EXCEPT ![cur[p]] = Result(outcome[p], batch[p][cur[p]])]
    /\ batch' = [batch EXCEPT ![p] = Drop(@, cur[p])]
    /\ cur' = [cur EXCEPT ![p] = NoTask]
    /\ outcome' = [outcome EXCEPT ![p] = "none"]
    /\ UNCHANGED <<alarm, policy, counts, faults>>

GiveUp(p) ==
    /\ batch' = [batch EXCEPT ![p] = NoBatch]
    /\ cur' = [cur EXCEPT ![p] = NoTask]
    /\ outcome' = [outcome EXCEPT ![p] = "none"]

(* An error of FinishTask ends DeliverDue: the rest of the batch waits for its  *)
(* leases.                                                                  *)
FinishFails(p) ==
    /\ DOMAIN batch[p] # {} /\ Fault
    /\ GiveUp(p)
    /\ UNCHANGED <<alarm, policy, task, counts>>

(* The process exits: its batch is forgotten.                                *)
Crash(p) ==
    /\ Fault
    /\ GiveUp(p)
    /\ UNCHANGED <<alarm, policy, task, counts>>

Deliver(p) == ClaimDueTasks(p) \/ FinishTask(p) \/ \E t \in Tasks : Send(p, t) \/ Cancel(p, t)
Passing(t) == BecomesDue(t) \/ LeaseExpires(t)

Next ==
    \/ Raise \/ Acknowledge \/ Recover \/ DisablePolicy
    \/ \E p \in Procs : \/ Deliver(p) \/ FinishFails(p)
                        \/ \E t \in Tasks : SendFails(p, t) \/ Reject(p, t)
                        \/ Crash(p)
    \/ HandleReported \/ HandleRecovered
    \/ \E t \in Tasks : Passing(t)

Spec == Init /\ [][Next]_vars

(* Every process runs its delivery loop on a ticker, the topics have            *)
(* consumers, and delays and leases run out.                                 *)
FairSpec ==
    /\ Spec
    /\ \A p \in Procs : WF_vars(Deliver(p))
    /\ WF_vars(HandleRecovered) /\ WF_vars(HandleReported)
    /\ \A t \in Tasks : WF_vars(Passing(t))

(***************************************************************************)
(* Properties.                                                              *)
(***************************************************************************)
Final == {"SENT", "FAILED", "CANCELLED"}

TaskRow == [status : {"NONE", "PENDING", "SENDING"} \cup Final, attempts : 0..MaxAttempts,
            due : BOOLEAN, leased : BOOLEAN]

(* Every variable has its type; a loop delivers a task of its batch; only a     *)
(* task being sent is leased.                                                *)
NotificationTypeOK ==
    /\ status \in {"NONE", "ACTIVE", "ACKED", "RECOVERED"}
    /\ recovered \in BOOLEAN /\ policy \in BOOLEAN
    /\ task \in [Tasks -> TaskRow]
    /\ \A t \in Tasks : task[t].leased => task[t].status = "SENDING"
    /\ \A p \in Procs : cur[p] # NoTask => cur[p] \in DOMAIN batch[p]
    /\ outcome \in [Procs -> {"none", "retry", "SENT"}]
    /\ faults \in 0..MaxFaults /\ overran \in BOOLEAN

(* "tasks are leased, so each is sent by one of them" (service.go) holds as      *)
(* far as the lease does: a task reaches its channel once, and once more at      *)
(* most for every answer that was lost, process that exited and lease that ran   *)
(* out while a loop was still working on its batch.                           *)
SentOnce == \A t \in Tasks : sends[t] <= 1 + faults

(* A task that was sent, given up or cancelled comes back in one way only: a     *)
(* lease ran out under its holder, and a loop that still holds the task writes    *)
(* its own result over the final one (FinishTask writes by id).  No redelivered   *)
(* event, claim, expiry or exit brings it back.                               *)
FinalIsFinal ==
    [][\A t \in Tasks :
          task[t].status \in Final /\ task'[t].status # task[t].status
             => overran /\ \E p \in Procs : t \in DOMAIN batch[p] \ DOMAIN batch'[p]]_vars

(* The first report of an alarm leads to a first notification that is sent or   *)
(* given up, unless the policy is switched off: failed sends, an exit between    *)
(* two steps and a batch given up only delay it.                             *)
ReportIsNotified ==
    (status # "NONE") ~> (task["first"].status \in Final \/ ~policy)

=============================================================================
