-------------------------- MODULE StandardProcessing --------------------------
(***************************************************************************)
(* Processing of one device's standard messages by several platform         *)
(* processes (core.handleStandard), against the rows they share in          *)
(* PostgreSQL: the claim of each message (lease and fencing token), the      *)
(* alarm of one rule, and the versioned device state.  Beside the workers,   *)
(* an operator changes the alarm (SetAlarmStatus, which ends by              *)
(* synchronising the device state), the offline scan and the connection      *)
(* reports write the device state.                                           *)
(*                                                                          *)
(* All messages of a device are in one partition, whose owner handles them   *)
(* in order; a process that lost the partition may still be handling one.    *)
(* A read-modify-write of a single row under its version (mutateAlarm, the   *)
(* offline scan) takes effect at its successful write and is one action; a   *)
(* device state write also depends on the alarm, so its read and its write   *)
(* are actions of their own.                                                 *)
(***************************************************************************)
EXTENDS Integers, Sequences

CONSTANTS Workers,       \* processes with the processor role
          N,             \* the messages of the device are 1 .. N, in partition order
          Kind,          \* Kind[m]: what the rule makes of m: raise, recover, none
          Ts,            \* Ts[m]: the timestamp in m, at least 1
          CasAttempts,   \* attempts of one version-checked write
          MaxRebalances, \* bound on changes of the partition's owner
          MaxFaults,     \* bound on crashes and failing database calls
          MaxOps,        \* bound on operator actions, offline scans, connection reports
          MaxEchoes,     \* bound on state publications that are followed to their return
          None           \* no process

Msgs == 1 .. N

ASSUME StandardAssumption ==
    /\ N \in Nat
    /\ Kind \in [Msgs -> {"raise", "recover", "none"}]
    /\ Ts \in [Msgs -> Nat \ {0}]
    /\ CasAttempts \in Nat \ {0}
    /\ MaxRebalances \in Nat /\ MaxFaults \in Nat /\ MaxOps \in Nat
    /\ MaxEchoes \in Nat
    /\ None \notin Workers /\ Workers # {}

VARIABLES
    owner, next,                    \* partition owner and the next message it handles
    token, holder, leased, processed,  \* standard_message: claim and processed mark
    alarm, trigger, alarms,         \* latest alarm: status, trigger id; alarms created
    applied,                        \* history: reports of m counted by an alarm
    version, status, seen, connected,  \* device_state (version 0: no row)
    echoes, published,              \* state publications not received back; their number
    pc, msg, tok, target, snap, tries, \* per worker: its handleStandard call
    opc, osnap, otries,             \* the operator's call
    missed,                         \* history: a call ended without writing the state, or an
                                    \* outdated state came back, and none was written from the
                                    \* current alarms since
    rebalances, faults, ops

bus    == <<owner, next>>
claims == <<token, holder, leased, processed>>
alert  == <<alarm, trigger, alarms, applied>>
state  == <<version, status, seen, connected, echoes, published>>
call   == <<pc, msg, tok, target, snap, tries>>
opcall == <<opc, osnap, otries, missed>>
bounds == <<rebalances, faults, ops>>
vars   == <<bus, claims, alert, state, call, opcall, bounds>>

\* A published device state.
Statuses == {"UNKNOWN", "ONLINE", "ALARM", "OFFLINE", "SUSPECTED_OFFLINE"}
Echoes == [status : Statuses, seen : Nat, connected : BOOLEAN]

\* A snapshot of the device state and of whether an alarm is open.
Snaps == [version : Nat, status : Statuses, seen : Nat, open : BOOLEAN]
NoSnap == [version |-> 0, status |-> "UNKNOWN", seen |-> 0, open |-> FALSE]

Init ==
    /\ owner \in Workers /\ next = 1
    /\ token = [m \in Msgs |-> 0] /\ holder = [m \in Msgs |-> None]
    /\ leased = [m \in Msgs |-> FALSE] /\ processed = [m \in Msgs |-> FALSE]
    /\ alarm = "none" /\ trigger = 0 /\ alarms = 0
    /\ applied = [m \in Msgs |-> 0]
    /\ version = 0 /\ status = "UNKNOWN" /\ seen = 0 /\ connected = FALSE
    /\ echoes = <<>> /\ published = 0
    /\ pc = [w \in Workers |-> "idle"] /\ msg = [w \in Workers |-> 1]
    /\ tok = [w \in Workers |-> 0] /\ target = [w \in Workers |-> 0]
    /\ snap = [w \in Workers |-> NoSnap] /\ tries = [w \in Workers |-> 0]
    /\ opc = "idle" /\ osnap = NoSnap /\ otries = 0 /\ missed = FALSE
    /\ rebalances = 0 /\ faults = 0 /\ ops = 0

open == alarm \in {"ACTIVE", "ACKED"}

(***************************************************************************)
(* publishStateChange: a changed business or connection status is published *)
(* on the device's state topic; a publication that fails is not tried       *)
(* again.  The access process subscribes to that topic, so the broker       *)
(* delivers the publication back; q holds those that are under way.         *)
(* External: the broker keeps their order.                                  *)
(***************************************************************************)
publishStateChange(q) ==
    \/ /\ published < MaxEchoes
       /\ version = 0 \/ status' # status \/ connected' # connected
       /\ echoes' = Append(q, [status |-> status', seen |-> seen', connected |-> connected'])
       /\ published' = published + 1
    \/ /\ echoes' = q
       /\ UNCHANGED published

Goto(w, label) == pc' = [pc EXCEPT ![w] = label]

\* handleStandard returned nil: the offset advances if w still owns the partition.
Return(w) ==
    /\ Goto(w, "idle")
    /\ next' = IF w = owner /\ msg[w] = next THEN next + 1 ELSE next
    /\ UNCHANGED owner

----------------------------------------------------------------------------
(* claimStandard *)

Take(w) ==
    /\ pc[w] = "idle" /\ w = owner /\ next \in Msgs
    /\ Goto(w, "claim")
    /\ msg' = [msg EXCEPT ![w] = next]
    /\ UNCHANGED <<bus, claims, alert, state, tok, target, snap, tries, opcall, bounds>>

\* A claim is taken over only when its owner asks again.
Claimable_NoTakeover(w, m) == token[m] = 0 \/ (~processed[m] /\ holder[m] = w)

\* A new row, or an unprocessed one whose lease expired or that w itself holds.
Claimable(w, m) == token[m] = 0 \/ (~processed[m] /\ (~leased[m] \/ holder[m] = w))

Claim(w) ==
    /\ pc[w] = "claim" /\ Claimable(w, msg[w])
    /\ token' = [token EXCEPT ![msg[w]] = @ + 1]
    /\ holder' = [holder EXCEPT ![msg[w]] = w]
    /\ leased' = [leased EXCEPT ![msg[w]] = TRUE]
    /\ tok' = [tok EXCEPT ![w] = token[msg[w]] + 1]
    /\ Goto(w, "apply")
    /\ UNCHANGED <<bus, processed, alert, state, msg, target, snap, tries, opcall, bounds>>

\* Every claim that is not ours counts as done, busy or not.
ClaimDone_BusyToo(w) ==
    /\ pc[w] = "claim" /\ ~Claimable(w, msg[w])
    /\ Return(w)
    /\ UNCHANGED <<claims, alert, state, msg, tok, target, snap, tries, opcall, bounds>>

\* Processed before: a duplicate needs nothing.  A busy claim is waited for; an
\* error at the deadline only makes the lane ask again.
ClaimDone(w) ==
    /\ pc[w] = "claim" /\ processed[msg[w]]
    /\ Return(w)
    /\ UNCHANGED <<claims, alert, state, msg, tok, target, snap, tries, opcall, bounds>>

----------------------------------------------------------------------------
(* The alarm of the rule *)

\* UpsertAlarm ignores a report only if the open alarm was raised by the same message.
Counts(m) == ~(open /\ trigger = m)

\* raiseRuleAlarm: one transaction, which the unique index on open alarms orders.
Raise(w) ==
    /\ pc[w] = "apply" /\ Kind[msg[w]] = "raise"
    /\ IF open THEN UNCHANGED <<alarm, trigger, alarms>>
               ELSE alarm' = "ACTIVE" /\ trigger' = msg[w] /\ alarms' = alarms + 1
    /\ applied' = [applied EXCEPT ![msg[w]] = IF Counts(msg[w]) THEN @ + 1 ELSE @]
    /\ Goto(w, "load")
    /\ tries' = [tries EXCEPT ![w] = 0]
    /\ UNCHANGED <<bus, claims, state, msg, tok, target, snap, opcall, bounds>>

\* recoverRuleAlarm looks for active alarms of the device first, then, in a second
\* pass, for acknowledged ones.
Recovering == {"recover", "relist", "recoverAcked"}

\* It lists the open alarms of the pass ...
List(w) ==
    /\ \/ pc[w] = "apply" /\ Kind[msg[w]] = "recover"
       \/ pc[w] = "relist"
    /\ LET wanted == IF pc[w] = "apply" THEN "ACTIVE" ELSE "ACKED"
       IN  target' = [target EXCEPT ![w] = IF alarm = wanted THEN alarms ELSE 0]
    /\ Goto(w, IF pc[w] = "apply" THEN "recover" ELSE "recoverAcked")
    /\ UNCHANGED <<bus, claims, alert, state, msg, tok, snap, tries, opcall, bounds>>

\* ... and recovers the listed one, if it is still open.
Recover(w) ==
    /\ pc[w] \in {"recover", "recoverAcked"}
    /\ alarm' = IF target[w] = alarms /\ open THEN "over" ELSE alarm
    /\ Goto(w, IF pc[w] = "recover" THEN "relist" ELSE "load")
    /\ tries' = [tries EXCEPT ![w] = 0]
    /\ target' = [target EXCEPT ![w] = 0]
    /\ UNCHANGED <<bus, claims, trigger, alarms, applied, state, msg, tok, snap,
                   opcall, bounds>>

NoRule(w) ==
    /\ pc[w] = "apply" /\ Kind[msg[w]] = "none"
    /\ Goto(w, "load")
    /\ tries' = [tries EXCEPT ![w] = 0]
    /\ UNCHANGED <<bus, claims, alert, state, msg, tok, target, snap, opcall, bounds>>

----------------------------------------------------------------------------
(* completeStandard *)

\* LoadDeviceStateWithAlarms: one statement reads both.
Load(w) ==
    /\ pc[w] = "load"
    /\ snap' = [snap EXCEPT ![w] = [version |-> version, status |-> status,
                                    seen |-> seen, open |-> open]]
    /\ Goto(w, "write")
    /\ UNCHANGED <<bus, claims, alert, state, msg, tok, target, tries, opcall, bounds>>

\* nextMessageState: "Late retransmissions ... must not roll back current state".
NextSeen(s, m) == IF Ts[m] < s.seen THEN s.seen ELSE Ts[m]
NextStatus(s, m) ==
    IF s.open THEN "ALARM"
    ELSE IF Ts[m] >= s.seen \/ s.status = "ALARM" THEN "ONLINE" ELSE s.status

\* The state is written over whatever another process wrote since the read.
Current_Unchecked(s) == s.version > 0 \/ version = 0

\* The version check of UPDATE ... WHERE version, or INSERT ... ON CONFLICT DO NOTHING.
Current(s) == s.version = version

\* CompleteStandardMessage: state and processed mark in one statement.  The mark
\* needs the last token; without it the state is written all the same and the call
\* ends with ErrStaleClaim, which completeStandard turns into success.
Complete(w) ==
    LET m == msg[w] IN
    /\ pc[w] = "write" /\ Current(snap[w])
    /\ version' = version + 1
    /\ status' = NextStatus(snap[w], m)
    /\ seen' = NextSeen(snap[w], m)
    /\ IF tok[w] = token[m] /\ ~processed[m]
       THEN /\ processed' = [processed EXCEPT ![m] = TRUE]
            /\ leased' = [leased EXCEPT ![m] = FALSE]
       ELSE UNCHANGED <<processed, leased>>
    /\ UNCHANGED connected /\ publishStateChange(echoes)
    /\ Return(w)
    /\ missed' = (missed /\ snap[w].open # open)
    /\ snap' = [snap EXCEPT ![w] = NoSnap]
    /\ UNCHANGED <<token, holder, alert, msg, tok, target, tries, opc, osnap, otries, bounds>>

\* Another process wrote the state in between: read again, or fail.
Conflict(w) ==
    /\ pc[w] = "write" /\ ~Current(snap[w])
    /\ tries' = [tries EXCEPT ![w] = @ + 1]
    /\ Goto(w, IF tries[w] + 1 < CasAttempts THEN "load" ELSE "claim")
    /\ missed' = (missed \/ tries[w] + 1 >= CasAttempts)
    /\ snap' = [snap EXCEPT ![w] = NoSnap]
    /\ UNCHANGED <<bus, claims, alert, state, msg, tok, target, opc, osnap, otries, bounds>>

----------------------------------------------------------------------------
(* Other writers *)

Op == ops < MaxOps /\ ops' = ops + 1 /\ UNCHANGED <<rebalances, faults>>

\* SetAlarmStatus: acknowledge an active alarm, or end it (recovered, suppressed,
\* closed); then syncDeviceBusinessStatus.
SetAlarmStatus(to) ==
    /\ opc = "idle"
    /\ \/ to = "ACKED" /\ alarm = "ACTIVE"
       \/ to = "over" /\ alarm # "none"
    /\ Op
    /\ alarm' = to
    /\ opc' = "read" /\ otries' = 0
    /\ UNCHANGED <<bus, claims, trigger, alarms, applied, state, call, osnap, missed>>

\* syncDeviceBusinessStatus reads the state; without one there is nothing to write.
SyncRead ==
    /\ opc = "read"
    /\ osnap' = [version |-> version, status |-> status, seen |-> seen, open |-> FALSE]
    /\ opc' = IF version = 0 THEN "idle" ELSE "probe"
    /\ missed' = (missed \/ version = 0)
    /\ UNCHANGED <<bus, claims, alert, state, call, otries, bounds>>

\* The alarms are asked for by a second statement.
SyncProbe ==
    /\ opc = "probe"
    /\ osnap' = [version |-> osnap.version, status |-> osnap.status,
                 seen |-> osnap.seen, open |-> open]
    /\ opc' = "write"
    /\ UNCHANGED <<bus, claims, alert, state, call, otries, missed, bounds>>

SyncWrite ==
    /\ opc = "write" /\ Current(osnap)
    /\ version' = version + 1
    /\ status' = IF osnap.open THEN "ALARM" ELSE "ONLINE"
    /\ seen' = osnap.seen
    /\ UNCHANGED connected /\ publishStateChange(echoes)
    /\ opc' = "idle" /\ osnap' = NoSnap
    /\ missed' = (missed /\ osnap.open # open)
    /\ UNCHANGED <<bus, claims, alert, call, otries, bounds>>

SyncConflict ==
    /\ opc = "write" /\ ~Current(osnap)
    /\ otries' = otries + 1 /\ osnap' = NoSnap
    /\ IF otries + 1 < CasAttempts THEN opc' = "read" /\ UNCHANGED missed
                                   ELSE opc' = "idle" /\ missed' = TRUE
    /\ UNCHANGED <<bus, claims, alert, state, call, bounds>>

\* A silent device that is still connected is only suspected to be offline.
OfflineStatus == IF connected THEN "SUSPECTED_OFFLINE" ELSE "OFFLINE"

\* ScanOffline: the deadline of a reported state passed and it is not marked yet.
ScanOffline ==
    /\ version > 0 /\ seen > 0 /\ status # OfflineStatus
    /\ Op
    /\ version' = version + 1 /\ status' = OfflineStatus
    /\ UNCHANGED <<seen, connected>> /\ publishStateChange(echoes)
    /\ UNCHANGED <<bus, claims, alert, call, opcall>>

\* ReportConnection: creates an unknown state, or only changes the connection.
ReportConnection(up) ==
    /\ Op
    /\ version' = version + 1 /\ connected' = up
    /\ UNCHANGED <<status, seen>> /\ publishStateChange(echoes)
    /\ UNCHANGED <<bus, claims, alert, call, opcall>>

\* UpdateDeviceState: a state received on the state topic replaces the stored one; a
\* report without a reception time keeps the stored time.
UpdateDeviceState ==
    /\ echoes # <<>>
    /\ version' = version + 1
    /\ status' = Head(echoes).status
    /\ seen' = IF Head(echoes).seen = 0 THEN seen ELSE Head(echoes).seen
    /\ connected' = Head(echoes).connected
    /\ publishStateChange(Tail(echoes))
    /\ missed' = (missed \/ status' # status)
    /\ UNCHANGED <<bus, claims, alert, call, opc, osnap, otries, bounds>>

----------------------------------------------------------------------------
(* Time, faults, the consumer group *)

\* The lease of a claim runs out, whether its holder is dead or only slow.
Expire(m) ==
    /\ leased[m]
    /\ leased' = [leased EXCEPT ![m] = FALSE]
    /\ UNCHANGED <<bus, token, holder, processed, alert, state, call, opcall, bounds>>

Fault == faults < MaxFaults /\ faults' = faults + 1 /\ UNCHANGED <<rebalances, ops>>

\* A database call fails: the handler returns an error and the lane tries again.
Fail(w) ==
    /\ pc[w] \notin {"idle", "claim"}
    /\ Fault
    /\ Goto(w, "claim")
    /\ missed' = (missed \/ pc[w] # "apply")
    /\ target' = [target EXCEPT ![w] = 0] /\ snap' = [snap EXCEPT ![w] = NoSnap]
    /\ UNCHANGED <<bus, claims, alert, state, msg, tok, tries, opc, osnap, otries>>

\* The process dies; restarted, it has a new identity and holds no claim.
Crash(w) ==
    /\ pc[w] # "idle"
    /\ Fault
    /\ Goto(w, "idle")
    /\ missed' = (missed \/ pc[w] \notin {"claim", "apply"})
    /\ target' = [target EXCEPT ![w] = 0] /\ snap' = [snap EXCEPT ![w] = NoSnap]
    /\ holder' = [m \in Msgs |-> IF holder[m] = w THEN None ELSE holder[m]]
    /\ UNCHANGED <<bus, token, leased, processed, alert, state, msg, tok, tries,
                   opc, osnap, otries>>

\* External: the group gives the partition to w, which starts at the committed
\* offset, at or before the one the previous owner reached.
Rebalance(w, n) ==
    /\ w # owner /\ n <= next
    /\ rebalances < MaxRebalances /\ rebalances' = rebalances + 1
    /\ owner' = w /\ next' = n
    /\ UNCHANGED <<claims, alert, state, call, opcall, faults, ops>>

----------------------------------------------------------------------------
Worker(w) ==
    \/ Take(w) \/ Claim(w) \/ ClaimDone(w)
    \/ Raise(w) \/ List(w) \/ Recover(w) \/ NoRule(w)
    \/ Load(w) \/ Complete(w) \/ Conflict(w)

Sync == SyncRead \/ SyncProbe \/ SyncWrite \/ SyncConflict

Next ==
    \/ \E w \in Workers : Worker(w) \/ Fail(w) \/ Crash(w)
    \/ \E w \in Workers, n \in Msgs : Rebalance(w, n)
    \/ \E m \in Msgs : Expire(m)
    \/ SetAlarmStatus("ACKED") \/ SetAlarmStatus("over") \/ Sync
    \/ ScanOffline \/ \E up \in BOOLEAN : ReportConnection(up)
    \/ UpdateDeviceState

Spec == Init /\ [][Next]_vars

\* The workers run, and leases of holders that do not finish run out.
Fairness ==
    /\ \A w \in Workers : WF_vars(Worker(w))
    /\ \A m \in Msgs : WF_vars(Expire(m))

FairSpec == Spec /\ Fairness

----------------------------------------------------------------------------
(* Properties *)

BusTypes   == owner \in Workers /\ next \in 1 .. N + 1
ClaimTypes == /\ token \in [Msgs -> Nat] /\ holder \in [Msgs -> Workers \cup {None}]
              /\ leased \in [Msgs -> BOOLEAN] /\ processed \in [Msgs -> BOOLEAN]
AlarmTypes == /\ alarm \in {"none", "ACTIVE", "ACKED", "over"}
              /\ trigger \in 0 .. N /\ alarms \in Nat /\ applied \in [Msgs -> Nat]
StateTypes == /\ version \in Nat /\ seen \in Nat
              /\ status \in Statuses /\ connected \in BOOLEAN
EchoTypes  == echoes \in Seq(Echoes) /\ published \in 0 .. MaxEchoes
CallTypes  == /\ pc \in [Workers -> {"idle", "claim", "apply", "load", "write"} \cup Recovering]
              /\ msg \in [Workers -> Nat]
              /\ \A w \in Workers : pc[w] # "idle" => msg[w] \in Msgs
              /\ tok \in [Workers -> Nat] /\ target \in [Workers -> Nat]
              /\ tries \in [Workers -> 0 .. CasAttempts]
              /\ \A w \in Workers : pc[w] \in {"load", "write"} => tries[w] < CasAttempts
SnapTypes  == snap \in [Workers -> Snaps] /\ osnap \in Snaps
OpTypes    == /\ opc \in {"idle", "read", "probe", "write"}
              /\ otries \in 0 .. CasAttempts /\ missed \in BOOLEAN
              /\ opc # "idle" => otries < CasAttempts
BoundTypes == rebalances \in 0 .. MaxRebalances /\ faults \in 0 .. MaxFaults /\ ops \in 0 .. MaxOps

\* Type invariant of the rows and of the calls in flight.
StandardTypeOK == /\ BusTypes /\ ClaimTypes /\ AlarmTypes /\ StateTypes /\ EchoTypes
                  /\ CallTypes /\ SnapTypes /\ OpTypes /\ BoundTypes

\* No report is lost: a message whose offset was passed or that is marked processed
\* has been counted by an alarm, in whichever process and attempt, although
\* completions are fenced, claims taken over and processes crash in between.
PassedIsApplied ==
    \A m \in Msgs : (m < next \/ processed[m]) /\ Kind[m] = "raise" => applied[m] > 0

\* The last reception time never goes back: neither a late retransmission nor a
\* stale snapshot of another process rolls the device state back; only a state that
\* was reported on the state topic replaces it.
SeenNeverRegresses == [][seen' >= seen \/ UpdateDeviceState]_seen

\* The business status follows the alarms once every call has finished, whatever
\* the order in which workers and the operator read and wrote the two rows and
\* although each changed status comes back on the state topic.  A call that failed,
\* died, gave up or found no state to synchronise may leave the status behind, and so
\* may a publication that comes back after the status has changed again, until a
\* write, such as the one of a retry, starts from the current alarms.
Quiet == next = N + 1 /\ opc = "idle" /\ \A w \in Workers : pc[w] = "idle"
StatusFollowsAlarms ==
    Quiet /\ ~missed =>
        /\ status = "ALARM" => open
        /\ status = "ONLINE" => ~open

\* Every message is marked processed in the end, through failing calls, crashes (the
\* claim of a dead process is waited for and taken over) and conflicts, unless the
\* partition changes its owner.
ProcessedUnlessReassigned == <>(rebalances > 0 \/ \A m \in Msgs : processed[m])

=============================================================================
