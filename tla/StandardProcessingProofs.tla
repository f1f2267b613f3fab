----------------------- MODULE StandardProcessingProofs -----------------------
(***************************************************************************)
(* Proofs about StandardProcessing, for any number of processes, messages,   *)
(* attempts, faults and rebalances.                                          *)
(***************************************************************************)
EXTENDS StandardProcessing, TLAPS

----------------------------------------------------------------------------
(* Type correctness *)

\* A group of variables that a step leaves alone keeps its types.
LEMMA Untouched ==
    ASSUME StandardTypeOK
    PROVE  /\ UNCHANGED bus => BusTypes'
           /\ UNCHANGED claims => ClaimTypes'
           /\ UNCHANGED alert => AlarmTypes'
           /\ UNCHANGED state => StateTypes' /\ EchoTypes'
           /\ UNCHANGED <<pc, msg, tok, target, tries>> => CallTypes'
           /\ UNCHANGED <<snap, osnap>> => SnapTypes'
           /\ UNCHANGED <<opc, otries, missed>> => OpTypes'
           /\ UNCHANGED bounds => BoundTypes'
  BY DEF StandardTypeOK, BusTypes, ClaimTypes, AlarmTypes, StateTypes, EchoTypes,
         CallTypes, SnapTypes, OpTypes, BoundTypes, bus, claims, alert, state, bounds

\* A publication has the type of a device state.
LEMMA PublishTypes ==
    ASSUME StandardTypeOK, StateTypes', NEW q \in Seq(Echoes), publishStateChange(q)
    PROVE  EchoTypes'
<1>1. [status |-> status', seen |-> seen', connected |-> connected'] \in Echoes
  BY DEF StateTypes, Echoes
<1>2. echoes' \in Seq(Echoes)
  BY <1>1 DEF publishStateChange
<1>3. published' \in 0 .. MaxEchoes
  BY StandardAssumption DEF StandardTypeOK, EchoTypes, publishStateChange
<1>4. QED
  BY <1>2, <1>3 DEF EchoTypes

\* The snapshots that are stored have the type of a snapshot.
LEMMA SnapFacts ==
    ASSUME StandardTypeOK
    PROVE  /\ NoSnap \in Snaps
           /\ [version |-> version, status |-> status, seen |-> seen, open |-> open] \in Snaps
           /\ [version |-> version, status |-> status, seen |-> seen, open |-> FALSE] \in Snaps
           /\ [version |-> osnap.version, status |-> osnap.status,
               seen |-> osnap.seen, open |-> open] \in Snaps
  BY DEF StandardTypeOK, StateTypes, SnapTypes, Snaps, Statuses, NoSnap, open

\* A call that moves to a label keeps its types.
LEMMA CallMoves ==
    ASSUME CallTypes, NEW w \in Workers, NEW n \in 0 .. CasAttempts,
           NEW label \in {"idle", "claim", "apply", "load", "write"} \cup Recovering,
           label # "idle" => msg[w] \in Msgs,
           label \in {"load", "write"} => n < CasAttempts,
           Goto(w, label), UNCHANGED <<msg, tok>>,
           tries' = [tries EXCEPT ![w] = n],
           target' \in [Workers -> Nat]
    PROVE  CallTypes'
<1>1. /\ pc' = [pc EXCEPT ![w] = label]
      /\ pc' \in [Workers -> {"idle", "claim", "apply", "load", "write"} \cup Recovering]
  BY DEF CallTypes, Goto
<1>2. tries' \in [Workers -> 0 .. CasAttempts]
  BY DEF CallTypes
<1>3. /\ msg' \in [Workers -> Nat] /\ tok' \in [Workers -> Nat]
      /\ \A v \in Workers : pc'[v] # "idle" => msg'[v] \in Msgs
  BY <1>1 DEF CallTypes
<1>4. \A v \in Workers : pc'[v] \in {"load", "write"} => tries'[v] < CasAttempts
  BY <1>1 DEF CallTypes
<1>5. QED
  BY <1>1, <1>2, <1>3, <1>4 DEF CallTypes

\* A worker's step preserves the types.
LEMMA WorkerTypes ==
    ASSUME StandardTypeOK, NEW w \in Workers, Worker(w)
    PROVE  StandardTypeOK'
<1> USE StandardAssumption
<1>0. /\ BusTypes /\ ClaimTypes /\ AlarmTypes /\ StateTypes
      /\ EchoTypes /\ CallTypes /\ SnapTypes /\ OpTypes /\ BoundTypes
  BY DEF StandardTypeOK
<1>1. CASE Take(w)
  <2>1. CallTypes'
    BY <1>0, <1>1 DEF Take, CallTypes, Goto, Msgs
  <2>2. UNCHANGED <<bus, claims, alert, state, snap, osnap, opc, otries, missed, bounds>>
    BY <1>1 DEF Take, opcall
  <2>3. QED
    BY <2>1, <2>2, Untouched DEF StandardTypeOK
<1>2. CASE Claim(w)
  <2>0. msg[w] \in Msgs /\ token[msg[w]] + 1 \in Nat
    BY <1>0, <1>2 DEF Claim, CallTypes, ClaimTypes
  <2>1. CallTypes'
    BY <1>0, <1>2, <2>0 DEF Claim, CallTypes, Goto
  <2>2. ClaimTypes'
    BY <1>0, <1>2, <2>0 DEF Claim, ClaimTypes
  <2>3. UNCHANGED <<bus, alert, state, snap, osnap, opc, otries, missed, bounds>>
    BY <1>2 DEF Claim, opcall
  <2>4. QED
    BY <2>1, <2>2, <2>3, Untouched DEF StandardTypeOK
<1>3. CASE ClaimDone(w)
  <2>0. msg[w] \in Msgs
    BY <1>0, <1>3 DEF ClaimDone, CallTypes
  <2>1. CallTypes' /\ BusTypes'
    <3>1. CallTypes'
      BY <1>0, <1>3, <2>0 DEF ClaimDone, CallTypes, Goto, Return
    <3>2. BusTypes'
      BY <1>0, <1>3, <2>0 DEF ClaimDone, BusTypes, Return, Msgs
    <3>3. QED
      BY <3>1, <3>2
  <2>2. UNCHANGED <<claims, alert, state, snap, osnap, opc, otries, missed, bounds>>
    BY <1>3 DEF ClaimDone, opcall
  <2>3. QED
    BY <2>1, <2>2, Untouched DEF StandardTypeOK
<1>4. CASE Raise(w)
  <2>1. CallTypes'
    <3>1. msg[w] \in Msgs /\ target' \in [Workers -> Nat]
      BY <1>0, <1>4 DEF Raise, CallTypes
    <3>2. /\ Goto(w, "load") /\ UNCHANGED <<msg, tok>>
          /\ tries' = [tries EXCEPT ![w] = 0]
      BY <1>4 DEF Raise
    <3>3. 0 \in 0 .. CasAttempts /\ 0 < CasAttempts
      OBVIOUS
    <3>4. QED
      BY <1>0, <3>1, <3>2, <3>3, CallMoves
  <2>2. AlarmTypes'
    <3>1. msg[w] \in Msgs /\ msg[w] \in 0 .. N
      BY <1>0, <1>4 DEF Raise, CallTypes, Msgs
    <3>2. applied' \in [Msgs -> Nat]
      BY <1>0, <1>4, <3>1 DEF Raise, AlarmTypes
    <3>3. QED
      BY <1>0, <1>4, <3>1, <3>2 DEF Raise, AlarmTypes
  <2>3. UNCHANGED <<bus, claims, state, snap, osnap, opc, otries, missed, bounds>>
    BY <1>4 DEF Raise, opcall
  <2>4. QED
    BY <2>1, <2>2, <2>3, Untouched DEF StandardTypeOK
<1>5. CASE List(w)
  <2>1. CallTypes'
    BY <1>0, <1>5 DEF List, Recovering, CallTypes, AlarmTypes, Goto, Msgs
  <2>2. UNCHANGED <<bus, claims, alert, state, snap, osnap, opc, otries, missed, bounds>>
    BY <1>5 DEF List, opcall
  <2>3. QED
    BY <2>1, <2>2, Untouched DEF StandardTypeOK
<1>6. CASE Recover(w)
  <2>1. CallTypes'
    <3>1. msg[w] \in Msgs /\ target' \in [Workers -> Nat]
      BY <1>0, <1>6 DEF Recover, CallTypes
    <3>2. /\ Goto(w, "relist") \/ Goto(w, "load")
          /\ UNCHANGED <<msg, tok>>
          /\ tries' = [tries EXCEPT ![w] = 0]
      BY <1>6 DEF Recover
    <3>3. 0 \in 0 .. CasAttempts /\ 0 < CasAttempts
      OBVIOUS
    <3>4. CASE Goto(w, "relist")
      BY <1>0, <3>1, <3>2, <3>3, <3>4, CallMoves DEF Recovering
    <3>5. CASE Goto(w, "load")
      BY <1>0, <3>1, <3>2, <3>3, <3>5, CallMoves
    <3>6. QED
      BY <3>2, <3>4, <3>5
  <2>2. AlarmTypes'
    BY <1>0, <1>6 DEF Recover, AlarmTypes
  <2>3. UNCHANGED <<bus, claims, state, snap, osnap, opc, otries, missed, bounds>>
    BY <1>6 DEF Recover, opcall
  <2>4. QED
    BY <2>1, <2>2, <2>3, Untouched DEF StandardTypeOK
<1>7. CASE NoRule(w)
  <2>1. CallTypes'
    <3>1. msg[w] \in Msgs /\ target' \in [Workers -> Nat]
      BY <1>0, <1>7 DEF NoRule, CallTypes
    <3>2. /\ Goto(w, "load") /\ UNCHANGED <<msg, tok>>
          /\ tries' = [tries EXCEPT ![w] = 0]
      BY <1>7 DEF NoRule
    <3>3. 0 \in 0 .. CasAttempts /\ 0 < CasAttempts
      OBVIOUS
    <3>4. QED
      BY <1>0, <3>1, <3>2, <3>3, CallMoves
  <2>2. UNCHANGED <<bus, claims, alert, state, snap, osnap, opc, otries, missed, bounds>>
    BY <1>7 DEF NoRule, opcall
  <2>3. QED
    BY <2>1, <2>2, Untouched DEF StandardTypeOK
<1>8. CASE Load(w)
  <2>1. CallTypes'
    BY <1>0, <1>8 DEF Load, CallTypes, Goto, Msgs
  <2>2. SnapTypes'
    BY <1>0, <1>8, SnapFacts DEF Load, SnapTypes, opcall
  <2>3. UNCHANGED <<bus, claims, alert, state, opc, otries, missed, bounds>>
    BY <1>8 DEF Load, opcall
  <2>4. QED
    BY <2>1, <2>2, <2>3, Untouched DEF StandardTypeOK
<1>9. CASE Complete(w)
  <2>0. msg[w] \in Msgs
    BY <1>0, <1>9 DEF Complete, CallTypes
  <2>1. CallTypes' /\ BusTypes'
    <3>1. CallTypes'
      BY <1>0, <1>9, <2>0 DEF Complete, CallTypes, Goto, Return
    <3>2. BusTypes'
      BY <1>0, <1>9, <2>0 DEF Complete, BusTypes, Return, Msgs
    <3>3. QED
      BY <3>1, <3>2
  <2>2. ClaimTypes'
    BY <1>0, <1>9 DEF Complete, CallTypes, ClaimTypes
  <2>3. /\ snap[w].seen \in Nat /\ Ts[msg[w]] \in Nat
        /\ snap[w].status \in Statuses
    BY <1>0, <1>9 DEF Complete, SnapTypes, Snaps, CallTypes
  <2>4. StateTypes'
    BY <1>0, <1>9, <2>3 DEF Complete, StateTypes, Statuses, NextSeen, NextStatus
  <2>5. SnapTypes'
    BY <1>0, <1>9, SnapFacts DEF Complete, SnapTypes, opcall
  <2>6. UNCHANGED <<alert, bounds>> /\ OpTypes'
    BY <1>0, <1>9 DEF Complete, OpTypes
  <2>7. EchoTypes'
    BY <1>0, <1>9, <2>4, PublishTypes DEF Complete, EchoTypes
  <2>8. QED
    BY <2>1, <2>2, <2>4, <2>5, <2>6, <2>7, Untouched DEF StandardTypeOK
<1>10. CASE Conflict(w)
  <2>1. tries[w] + 1 \in 0 .. CasAttempts
    BY <1>0, <1>10 DEF Conflict, CallTypes
  <2>2. CallTypes'
    <3>1. msg[w] \in Msgs /\ target' \in [Workers -> Nat]
      BY <1>0, <1>10 DEF Conflict, CallTypes
    <3>2. tries' = [tries EXCEPT ![w] = tries[w] + 1]
      BY <1>10 DEF Conflict
    <3>3. CASE tries[w] + 1 < CasAttempts
      BY <1>0, <1>10, <2>1, <3>1, <3>2, <3>3, CallMoves DEF Conflict
    <3>4. CASE ~(tries[w] + 1 < CasAttempts)
      BY <1>0, <1>10, <2>1, <3>1, <3>2, <3>4, CallMoves DEF Conflict
    <3>5. QED
      BY <3>3, <3>4
  <2>3. SnapTypes'
    BY <1>0, <1>10, SnapFacts DEF Conflict, SnapTypes, opcall
  <2>4. UNCHANGED <<bus, claims, alert, state, bounds>> /\ OpTypes'
    BY <1>0, <1>10 DEF Conflict, OpTypes
  <2>5. QED
    BY <2>2, <2>3, <2>4, Untouched DEF StandardTypeOK
<1>11. QED
  BY <1>1, <1>2, <1>3, <1>4, <1>5, <1>6, <1>7, <1>8, <1>9, <1>10 DEF Worker

\* Every other step preserves the types.
LEMMA OtherTypes ==
    ASSUME StandardTypeOK,
           \/ \E w \in Workers : Fail(w) \/ Crash(w)
           \/ \E w \in Workers, n \in Msgs : Rebalance(w, n)
           \/ \E m \in Msgs : Expire(m)
           \/ SetAlarmStatus("ACKED") \/ SetAlarmStatus("over") \/ Sync
           \/ ScanOffline \/ \E up \in BOOLEAN : ReportConnection(up)
           \/ UpdateDeviceState
    PROVE  StandardTypeOK'
<1> USE StandardAssumption
<1>0. /\ BusTypes /\ ClaimTypes /\ AlarmTypes /\ StateTypes
      /\ EchoTypes /\ CallTypes /\ SnapTypes /\ OpTypes /\ BoundTypes
  BY DEF StandardTypeOK
<1>1. ASSUME NEW w \in Workers, Fail(w) PROVE StandardTypeOK'
  <2>1. CallTypes'
    BY <1>0, <1>1 DEF Fail, CallTypes, Goto
  <2>2. SnapTypes'
    BY <1>0, <1>1, SnapFacts DEF Fail, SnapTypes, opcall
  <2>3. BoundTypes'
    BY <1>0, <1>1 DEF Fail, Fault, BoundTypes
  <2>4. UNCHANGED <<bus, claims, alert, state>> /\ OpTypes'
    BY <1>0, <1>1 DEF Fail, OpTypes
  <2>5. QED
    BY <2>1, <2>2, <2>3, <2>4, Untouched DEF StandardTypeOK
<1>2. ASSUME NEW w \in Workers, Crash(w) PROVE StandardTypeOK'
  <2>1. CallTypes'
    BY <1>0, <1>2 DEF Crash, CallTypes, Goto
  <2>2. SnapTypes'
    BY <1>0, <1>2, SnapFacts DEF Crash, SnapTypes, opcall
  <2>3. BoundTypes'
    BY <1>0, <1>2 DEF Crash, Fault, BoundTypes
  <2>4. ClaimTypes'
    BY <1>0, <1>2 DEF Crash, ClaimTypes
  <2>5. UNCHANGED <<bus, alert, state>> /\ OpTypes'
    BY <1>0, <1>2 DEF Crash, OpTypes
  <2>6. QED
    BY <2>1, <2>2, <2>3, <2>4, <2>5, Untouched DEF StandardTypeOK
<1>3. ASSUME NEW w \in Workers, NEW n \in Msgs, Rebalance(w, n) PROVE StandardTypeOK'
  <2>1. BusTypes' /\ BoundTypes'
    BY <1>0, <1>3 DEF Rebalance, BusTypes, BoundTypes, Msgs
  <2>2. UNCHANGED <<claims, alert, state, call, opcall>>
    BY <1>3 DEF Rebalance
  <2>3. QED
    BY <2>1, <2>2, Untouched DEF StandardTypeOK, call, opcall
<1>4. ASSUME NEW m \in Msgs, Expire(m) PROVE StandardTypeOK'
  <2>1. ClaimTypes'
    BY <1>0, <1>4 DEF Expire, ClaimTypes
  <2>2. UNCHANGED <<bus, alert, state, call, opcall, bounds>>
    BY <1>4 DEF Expire
  <2>3. QED
    BY <2>1, <2>2, Untouched DEF StandardTypeOK, call, opcall
<1>5. ASSUME NEW to \in {"ACKED", "over"}, SetAlarmStatus(to) PROVE StandardTypeOK'
  <2>1. AlarmTypes' /\ OpTypes' /\ BoundTypes'
    BY <1>0, <1>5 DEF SetAlarmStatus, Op, AlarmTypes, OpTypes, BoundTypes
  <2>2. UNCHANGED <<bus, claims, state, call, snap, osnap>>
    BY <1>5 DEF SetAlarmStatus, call
  <2>3. QED
    BY <2>1, <2>2, Untouched DEF StandardTypeOK, call
<1>6. CASE Sync
  <2>1. SnapTypes'
    BY <1>0, <1>6, SnapFacts DEF Sync, SyncRead, SyncProbe, SyncWrite, SyncConflict,
                               SnapTypes, call
  <2>2. OpTypes'
    <3>1. CASE SyncRead
      BY <1>0, <3>1 DEF SyncRead, OpTypes
    <3>2. CASE SyncProbe
      BY <1>0, <3>2 DEF SyncProbe, OpTypes
    <3>3. CASE SyncWrite
      BY <1>0, <3>3 DEF SyncWrite, OpTypes
    <3>4. CASE SyncConflict
      <4>1. otries' \in 0 .. CasAttempts /\ (opc' # "idle" => otries' < CasAttempts)
        BY <1>0, <3>4 DEF SyncConflict, OpTypes
      <4>2. opc' \in {"idle", "read", "probe", "write"}
        BY <3>4 DEF SyncConflict
      <4>3. missed' \in BOOLEAN
        BY <1>0, <3>4, Zenon DEF SyncConflict, OpTypes
      <4>4. QED
        BY <4>1, <4>2, <4>3 DEF OpTypes
    <3>5. QED
      BY <1>6, <3>1, <3>2, <3>3, <3>4 DEF Sync
  <2>3. osnap.seen \in Nat
    BY <1>0 DEF SnapTypes, Snaps
  <2>4. StateTypes'
    BY <1>0, <1>6, <2>3 DEF Sync, SyncRead, SyncProbe, SyncWrite, SyncConflict, StateTypes,
                            Statuses, state
  <2>5. UNCHANGED <<bus, claims, alert, call, bounds>>
    BY <1>6 DEF Sync, SyncRead, SyncProbe, SyncWrite, SyncConflict
  <2>6. EchoTypes'
    <3>1. CASE SyncWrite
      BY <1>0, <2>4, <3>1, PublishTypes DEF SyncWrite, EchoTypes
    <3>2. CASE UNCHANGED state
      BY <3>2, Untouched
    <3>3. QED
      BY <1>6, <3>1, <3>2 DEF Sync, SyncRead, SyncProbe, SyncConflict
  <2>7. QED
    BY <2>1, <2>2, <2>4, <2>5, <2>6, Untouched DEF StandardTypeOK, call
<1>7. CASE ScanOffline \/ \E up \in BOOLEAN : ReportConnection(up)
  <2>1. StateTypes' /\ BoundTypes'
    BY <1>0, <1>7 DEF ScanOffline, OfflineStatus, ReportConnection, Op, StateTypes, Statuses, BoundTypes
  <2>2. UNCHANGED <<bus, claims, alert, call, opcall>>
    BY <1>7 DEF ScanOffline, ReportConnection
  <2>3. EchoTypes'
    BY <1>0, <1>7, <2>1, PublishTypes DEF ScanOffline, ReportConnection, EchoTypes
  <2>4. QED
    BY <2>1, <2>2, <2>3, Untouched DEF StandardTypeOK, call, opcall
<1>8. CASE UpdateDeviceState
  <2>1. Head(echoes) \in Echoes /\ Tail(echoes) \in Seq(Echoes)
    BY <1>0, <1>8 DEF UpdateDeviceState, EchoTypes
  <2>2. StateTypes'
    BY <1>0, <1>8, <2>1 DEF UpdateDeviceState, StateTypes, Echoes
  <2>3. EchoTypes'
    BY <1>8, <2>1, <2>2, PublishTypes DEF UpdateDeviceState
  <2>4. UNCHANGED <<bus, claims, alert, call, opc, osnap, otries, bounds>>
    BY <1>8 DEF UpdateDeviceState
  <2>5. missed' \in BOOLEAN
    BY <1>8 DEF UpdateDeviceState
  <2>6. OpTypes'
    BY <1>0, <2>4, <2>5 DEF OpTypes
  <2>7. QED
    BY <2>2, <2>3, <2>4, <2>6, Untouched DEF StandardTypeOK, call
<1>9. QED
  BY <1>1, <1>2, <1>3, <1>4, <1>5, <1>6, <1>7, <1>8

\* The types hold initially.
LEMMA InitTypes == Init => StandardTypeOK
<1> SUFFICES ASSUME Init PROVE StandardTypeOK
  OBVIOUS
<1>1. NoSnap \in Snaps
  BY DEF NoSnap, Snaps, Statuses
<1>2. BusTypes /\ AlarmTypes /\ StateTypes /\ EchoTypes
  <2>1. BusTypes
    BY StandardAssumption DEF Init, BusTypes
  <2>2. AlarmTypes
    BY StandardAssumption DEF Init, AlarmTypes
  <2>3. StateTypes
    BY DEF Init, StateTypes, Statuses
  <2>4. EchoTypes
    BY StandardAssumption DEF Init, EchoTypes
  <2>5. QED
    BY <2>1, <2>2, <2>3, <2>4
<1>3. ClaimTypes /\ CallTypes
  <2>1. ClaimTypes
    BY StandardAssumption DEF Init, ClaimTypes
  <2>2. CallTypes
    BY StandardAssumption DEF Init, CallTypes
  <2>3. QED
    BY <2>1, <2>2
<1>4. SnapTypes /\ OpTypes /\ BoundTypes
  <2>1. SnapTypes
    BY <1>1 DEF Init, SnapTypes
  <2>2. OpTypes
    <3>1. opc = "idle" /\ otries \in 0 .. CasAttempts
      BY StandardAssumption DEF Init
    <3>2. missed \in BOOLEAN
      BY Zenon DEF Init
    <3>3. QED
      BY <3>1, <3>2, Zenon DEF OpTypes
  <2>3. BoundTypes
    BY StandardAssumption DEF Init, BoundTypes
  <2>4. QED
    BY <2>1, <2>2, <2>3
<1>5. QED
  BY <1>2, <1>3, <1>4 DEF StandardTypeOK

\* Every step preserves the types.
LEMMA NextTypes == StandardTypeOK /\ [Next]_vars => StandardTypeOK'
<1> SUFFICES ASSUME StandardTypeOK, [Next]_vars PROVE StandardTypeOK'
  OBVIOUS
<1>1. CASE Next
  BY <1>1, WorkerTypes, OtherTypes DEF Next
<1>2. CASE UNCHANGED vars
  BY <1>2, Untouched DEF StandardTypeOK, vars, call, opcall
<1>3. QED
  BY <1>1, <1>2

\* The type invariant holds in every reachable state, for any constants.
THEOREM StandardTypeCorrect == Spec => []StandardTypeOK
  BY InitTypes, NextTypes, PTL DEF Spec

----------------------------------------------------------------------------
(* No report is lost, and the last reception time never goes back *)

\* The trigger of the latest alarm, and the message of every call that is past the
\* rules, have been counted.
TriggerCounted == trigger # 0 => applied[trigger] > 0
CallCounted ==
    \A w \in Workers :
        /\ pc[w] \in Recovering => Kind[msg[w]] = "recover"
        /\ pc[w] \in {"load", "write"} /\ Kind[msg[w]] = "raise" => applied[msg[w]] > 0

\* A snapshot is not newer than the row, and agrees with it when the versions agree:
\* every write of the row raises its version.
Agrees(s) == s.version <= version /\ (s.version = version => s.seen = seen)
SnapsAgree ==
    /\ \A w \in Workers : pc[w] = "write" => Agrees(snap[w])
    /\ opc \in {"probe", "write"} => Agrees(osnap)

StandardInv == StandardTypeOK /\ TriggerCounted /\ CallCounted /\ PassedIsApplied /\ SnapsAgree

\* The inductive invariant holds initially.
LEMMA InitInv == Init => StandardInv
<1> SUFFICES ASSUME Init PROVE StandardInv
  OBVIOUS
<1>1. StandardTypeOK
  BY InitTypes
<1>2. TriggerCounted /\ CallCounted
  BY DEF Init, TriggerCounted, CallCounted, Recovering
<1>3. PassedIsApplied
  BY StandardAssumption DEF Init, PassedIsApplied, Msgs
<1>4. SnapsAgree
  BY DEF Init, SnapsAgree
<1>5. QED
  BY <1>1, <1>2, <1>3, <1>4 DEF StandardInv

\* Reports are only ever added, never taken back.
LEMMA AppliedGrows ==
    ASSUME StandardTypeOK, [Next]_vars
    PROVE  \A m \in Msgs : applied[m] > 0 => applied'[m] > 0
<1>1. ASSUME NEW w \in Workers, Raise(w) PROVE \A m \in Msgs : applied[m] > 0 => applied'[m] > 0
  BY <1>1 DEF Raise, StandardTypeOK, AlarmTypes
<1>2. CASE UNCHANGED applied
  BY <1>2
<1>3. ASSUME NEW w \in Workers, Worker(w), ~Raise(w) PROVE UNCHANGED applied
  BY <1>3 DEF Worker, Take, Claim, ClaimDone, List, Recover, NoRule, Load, Complete, Conflict, alert
<1>4. ASSUME NEW w \in Workers, Fail(w) \/ Crash(w) PROVE UNCHANGED applied
  BY <1>4 DEF Fail, Crash, alert
<1>5. ASSUME NEW w \in Workers, NEW n \in Msgs, Rebalance(w, n) PROVE UNCHANGED applied
  BY <1>5 DEF Rebalance, alert
<1>6. ASSUME NEW m \in Msgs, Expire(m) PROVE UNCHANGED applied
  BY <1>6 DEF Expire, alert
<1>7. ASSUME \/ SetAlarmStatus("ACKED") \/ SetAlarmStatus("over") \/ Sync
             \/ ScanOffline \/ \E up \in BOOLEAN : ReportConnection(up)
             \/ UpdateDeviceState
      PROVE  UNCHANGED applied
  BY <1>7 DEF SetAlarmStatus, Sync, SyncRead, SyncProbe, SyncWrite, SyncConflict, ScanOffline,
              ReportConnection, UpdateDeviceState, alert
<1>8. CASE UNCHANGED vars
  BY <1>8, <1>2 DEF vars, alert
<1>9. QED
  BY <1>1, <1>2, <1>3, <1>4, <1>5, <1>6, <1>7, <1>8 DEF Next

\* TriggerCounted is preserved: a new trigger is the message just counted.
LEMMA TriggerStep ==
    ASSUME StandardInv, [Next]_vars
    PROVE  TriggerCounted'
<1> USE DEF StandardInv
<1>0. trigger # 0 => trigger \in Msgs /\ applied[trigger] > 0
  BY StandardAssumption DEF StandardTypeOK, AlarmTypes, TriggerCounted, Msgs
<1>1. ASSUME NEW w \in Workers, Raise(w), ~UNCHANGED trigger PROVE TriggerCounted'
  <2>1. msg[w] \in Msgs /\ applied[msg[w]] \in Nat
    BY <1>1 DEF Raise, StandardTypeOK, CallTypes, AlarmTypes
  <2>2. ~open /\ trigger' = msg[w] /\ applied'[msg[w]] = applied[msg[w]] + 1
    BY <1>1, <2>1 DEF Raise, Counts, StandardTypeOK, AlarmTypes
  <2>3. QED
    BY <2>1, <2>2 DEF TriggerCounted
<1>2. ASSUME UNCHANGED trigger PROVE TriggerCounted'
  BY <1>0, <1>2, AppliedGrows DEF TriggerCounted
<1>3. (\E w \in Workers : Raise(w)) \/ UNCHANGED trigger
  BY DEF Next, Worker, Take, Claim, ClaimDone, List, Recover, NoRule, Load, Complete, Conflict,
         Fail, Crash, Rebalance, Expire, SetAlarmStatus, Sync, SyncRead, SyncProbe, SyncWrite,
         SyncConflict, ScanOffline, ReportConnection, UpdateDeviceState, alert, vars
<1>4. QED
  BY <1>1, <1>2, <1>3

\* How a step can bring a call past the rules.
LEMMA CallFrame ==
    ASSUME StandardTypeOK, [Next]_vars, NEW w \in Workers
    PROVE  /\ pc'[w] \in Recovering => /\ msg'[w] = msg[w]
                                       /\ pc[w] \in Recovering \/ Kind[msg[w]] = "recover"
           /\ pc'[w] \in {"load", "write"} =>
                 /\ msg'[w] = msg[w]
                 /\ \/ pc[w] \in {"load", "write"} \cup Recovering
                    \/ Kind[msg[w]] = "none"
                    \/ Raise(w)
<1> USE DEF StandardTypeOK, CallTypes, Recovering
<1>1. ASSUME NEW u \in Workers, u # w, Worker(u) \/ Fail(u) \/ Crash(u)
      PROVE  pc'[w] = pc[w] /\ msg'[w] = msg[w]
  BY <1>1 DEF Worker, Take, Claim, ClaimDone, Raise, List, Recover, NoRule, Load, Complete,
              Conflict, Fail, Crash, Goto, Return
<1>2. CASE Worker(w) \/ Fail(w) \/ Crash(w)
  BY <1>2 DEF Worker, Take, Claim, ClaimDone, Raise, List, Recover, NoRule, Load, Complete,
              Conflict, Fail, Crash, Goto, Return
<1>3. CASE UNCHANGED call
  BY <1>3 DEF call
<1>4. \/ \E u \in Workers : Worker(u) \/ Fail(u) \/ Crash(u)
      \/ UNCHANGED call
  BY DEF Next, Rebalance, Expire, SetAlarmStatus, Sync, SyncRead, SyncProbe, SyncWrite,
         SyncConflict, ScanOffline, ReportConnection, UpdateDeviceState, vars
<1>5. QED
  BY <1>1, <1>2, <1>3, <1>4

\* CallCounted is preserved: a report is counted before its call goes on.
LEMMA CallStep ==
    ASSUME StandardInv, [Next]_vars
    PROVE  CallCounted'
<1> USE DEF StandardInv
<1> SUFFICES ASSUME NEW w \in Workers
             PROVE  /\ pc'[w] \in Recovering => Kind[msg'[w]] = "recover"
                    /\ pc'[w] \in {"load", "write"} /\ Kind[msg'[w]] = "raise"
                          => applied'[msg'[w]] > 0
  BY DEF CallCounted, Recovering
<1>1. ASSUME pc'[w] \in Recovering PROVE Kind[msg'[w]] = "recover"
  <2>1. msg'[w] = msg[w] /\ (pc[w] \in Recovering \/ Kind[msg[w]] = "recover")
    BY <1>1, CallFrame
  <2>2. QED
    BY <2>1 DEF CallCounted
<1>2. ASSUME pc'[w] \in {"load", "write"}, Kind[msg'[w]] = "raise" PROVE applied'[msg'[w]] > 0
  <2>1. msg'[w] = msg[w]
    BY <1>2, CallFrame
  <2>2. CASE pc[w] \in {"load", "write"} \cup Recovering
    <3>1. msg[w] \in Msgs /\ applied[msg[w]] > 0
      BY <1>2, <2>1, <2>2 DEF CallCounted, StandardTypeOK, CallTypes
    <3>2. QED
      BY <2>1, <3>1, AppliedGrows
  <2>3. CASE Raise(w)
    <3>1. msg[w] \in Msgs /\ applied[msg[w]] \in Nat
      BY <2>3 DEF Raise, StandardTypeOK, CallTypes, AlarmTypes
    <3>2. CASE Counts(msg[w])
      BY <2>1, <2>3, <3>1, <3>2 DEF Raise, StandardTypeOK, AlarmTypes
    <3>3. CASE ~Counts(msg[w])
      <4>1. msg[w] # 0
        BY <3>1 DEF Msgs
      <4>2. applied[msg[w]] > 0
        BY <3>3, <4>1 DEF Counts, TriggerCounted
      <4>3. QED
        BY <2>1, <3>1, <4>2, AppliedGrows
    <3>4. QED
      BY <3>2, <3>3
  <2>4. CASE Kind[msg[w]] = "none"
    BY <1>2, <2>1, <2>4
  <2>5. QED
    BY <1>2, <2>2, <2>3, <2>4, CallFrame
<1>3. QED
  BY <1>1, <1>2

\* How a step can pass an offset or set a processed mark.
LEMMA PassFrame ==
    ASSUME StandardTypeOK, [Next]_vars, NEW m \in Msgs, m < next' \/ processed'[m]
    PROVE  \/ m < next \/ processed[m]
           \/ \E w \in Workers : pc[w] = "write" /\ msg[w] = m
<1> USE DEF StandardTypeOK, BusTypes, ClaimTypes, CallTypes, Msgs
<1>1. ASSUME NEW w \in Workers, ClaimDone(w)
      PROVE  m < next \/ processed[m]
  BY <1>1 DEF ClaimDone, Return, claims
<1>2. ASSUME NEW w \in Workers, Complete(w)
      PROVE  m < next \/ processed[m] \/ (pc[w] = "write" /\ msg[w] = m)
  <2>1. pc[w] = "write" /\ msg[w] \in Msgs /\ next \in Nat /\ m \in Nat
    BY <1>2 DEF Complete
  <2>2. m < next' => m < next \/ msg[w] = m
    BY <1>2, <2>1 DEF Complete, Return
  <2>3. processed' = processed \/ processed' = [processed EXCEPT ![msg[w]] = TRUE]
    BY <1>2 DEF Complete
  <2>4. processed'[m] => processed[m] \/ msg[w] = m
    BY <2>1, <2>3, Zenon
  <2>5. QED
    BY <2>1, <2>2, <2>4
<1>3. ASSUME NEW w \in Workers, NEW n \in Msgs, Rebalance(w, n)
      PROVE  m < next \/ processed[m]
  BY <1>3 DEF Rebalance, claims
<1>4. CASE UNCHANGED <<next, processed>>
  BY <1>4
<1>5. \/ \E w \in Workers : ClaimDone(w) \/ Complete(w)
      \/ \E w \in Workers, n \in Msgs : Rebalance(w, n)
      \/ UNCHANGED <<next, processed>>
  BY SMTT(30) DEF Next, Worker, Take, Claim, Raise, List, Recover, NoRule, Load, Conflict, Fail, Crash,
         Expire, SetAlarmStatus, Sync, SyncRead, SyncProbe, SyncWrite, SyncConflict,
         ScanOffline, ReportConnection, UpdateDeviceState, vars, bus, claims
<1>6. QED
  BY <1>1, <1>2, <1>3, <1>4, <1>5

\* PassedIsApplied is preserved: only a call past the rules passes its message.
LEMMA PassedStep ==
    ASSUME StandardInv, [Next]_vars
    PROVE  PassedIsApplied'
<1> USE DEF StandardInv
<1> SUFFICES ASSUME NEW m \in Msgs, m < next' \/ processed'[m], Kind[m] = "raise"
             PROVE  applied'[m] > 0
  BY DEF PassedIsApplied, Msgs
<1>1. applied[m] > 0
  BY PassFrame DEF PassedIsApplied, CallCounted
<1>2. QED
  BY <1>1, AppliedGrows

\* Every write of the device state raises its version.
LEMMA VersionGrows ==
    ASSUME StandardTypeOK, [Next]_vars
    PROVE  UNCHANGED state \/ version' = version + 1
  BY SMTT(30) DEF Next, Worker, Take, Claim, ClaimDone, Raise, List, Recover, NoRule, Load, Complete,
         Conflict, Fail, Crash, Rebalance, Expire, SetAlarmStatus, Sync, SyncRead, SyncProbe,
         SyncWrite, SyncConflict, ScanOffline, ReportConnection, UpdateDeviceState, vars, state

\* How a call gets the snapshot it writes from.
LEMMA SnapFrame ==
    ASSUME StandardTypeOK, [Next]_vars, NEW w \in Workers, pc'[w] = "write"
    PROVE  \/ pc[w] = "write" /\ snap'[w] = snap[w]
           \/ UNCHANGED state /\ snap'[w].version = version /\ snap'[w].seen = seen
<1> USE DEF StandardTypeOK, CallTypes, SnapTypes
<1>1. ASSUME NEW u \in Workers, u # w, Worker(u) \/ Fail(u) \/ Crash(u)
      PROVE  pc'[w] = pc[w] /\ snap'[w] = snap[w]
  BY <1>1 DEF Worker, Take, Claim, ClaimDone, Raise, List, Recover, NoRule, Load, Complete,
              Conflict, Fail, Crash, Goto, Return
<1>2. CASE Load(w)
  BY <1>2 DEF Load
<1>3. ASSUME Worker(w) \/ Fail(w) \/ Crash(w), ~Load(w) PROVE FALSE
  BY <1>3 DEF Worker, Take, Claim, ClaimDone, Raise, List, Recover, NoRule, Complete,
              Conflict, Fail, Crash, Goto, Return
<1>4. CASE UNCHANGED call
  BY <1>4 DEF call
<1>5. \/ \E u \in Workers : Worker(u) \/ Fail(u) \/ Crash(u)
      \/ UNCHANGED call
  BY DEF Next, Rebalance, Expire, SetAlarmStatus, Sync, SyncRead, SyncProbe, SyncWrite,
         SyncConflict, ScanOffline, ReportConnection, UpdateDeviceState, vars
<1>6. QED
  BY <1>1, <1>2, <1>3, <1>4, <1>5

\* How the operator's call gets its snapshot.
LEMMA OpSnapFrame ==
    ASSUME StandardTypeOK, [Next]_vars, opc' \in {"probe", "write"}
    PROVE  \/ /\ opc \in {"probe", "write"}
              /\ osnap'.version = osnap.version /\ osnap'.seen = osnap.seen
           \/ UNCHANGED state /\ osnap'.version = version /\ osnap'.seen = seen
<1>1. CASE SyncRead
  BY <1>1 DEF SyncRead
<1>2. CASE SyncProbe
  BY <1>2 DEF SyncProbe
<1>3. ASSUME SyncWrite \/ SyncConflict \/ SetAlarmStatus("ACKED") \/ SetAlarmStatus("over")
      PROVE  FALSE
  BY <1>3 DEF SyncWrite, SyncConflict, SetAlarmStatus
<1>4. CASE UNCHANGED <<opc, osnap>>
  BY <1>4
<1>5. \/ SyncRead \/ SyncProbe \/ SyncWrite \/ SyncConflict
      \/ SetAlarmStatus("ACKED") \/ SetAlarmStatus("over")
      \/ UNCHANGED <<opc, osnap>>
  BY DEF Next, opcall, Sync, Worker, Take, Claim, ClaimDone, Raise, List, Recover, NoRule, Load,
         Complete, Conflict, Fail, Crash, Rebalance, Expire, ScanOffline, ReportConnection, UpdateDeviceState, vars
<1>6. QED
  BY <1>1, <1>2, <1>3, <1>4, <1>5

\* SnapsAgree is preserved: an older snapshot has an older version.
LEMMA SnapStep ==
    ASSUME StandardInv, [Next]_vars
    PROVE  SnapsAgree'
<1> USE DEF StandardInv
<1>0. version \in Nat /\ osnap.version \in Nat /\ \A w \in Workers : snap[w].version \in Nat
  BY DEF StandardTypeOK, StateTypes, SnapTypes, Snaps
<1>1. ASSUME NEW w \in Workers, pc'[w] = "write" PROVE Agrees(snap[w])'
  BY <1>0, <1>1, VersionGrows, SnapFrame DEF SnapsAgree, Agrees, state
<1>2. ASSUME opc' \in {"probe", "write"} PROVE Agrees(osnap)'
  BY <1>0, <1>2, VersionGrows, OpSnapFrame DEF SnapsAgree, Agrees, state
<1>3. QED
  BY <1>1, <1>2 DEF SnapsAgree

\* The inductive invariant holds in every reachable state.
LEMMA InvHolds == Spec => []StandardInv
<1>1. StandardInv /\ [Next]_vars => StandardInv'
  BY NextTypes, TriggerStep, CallStep, PassedStep, SnapStep DEF StandardInv
<1>2. QED
  BY InitInv, <1>1, PTL DEF Spec

\* A message that was passed or marked has been counted by an alarm: fencing,
\* takeover of claims, crashes and rebalances lose no report, for any number of
\* processes and messages.
THEOREM NoReportLost == Spec => []PassedIsApplied
<1>1. StandardInv => PassedIsApplied
  BY DEF StandardInv
<1>2. QED
  BY <1>1, InvHolds, PTL

\* Messages, operators, scans and connection reports never take the last reception
\* time of the device back, for any number of processes writing its state.
THEOREM SeenMovesForward == Spec => SeenNeverRegresses
<1>1. StandardInv /\ [Next]_vars => [seen' >= seen \/ UpdateDeviceState]_seen
  <2> SUFFICES ASSUME StandardInv, [Next]_vars, ~UNCHANGED seen, ~UpdateDeviceState
               PROVE  seen' >= seen
    OBVIOUS
  <2>0. seen \in Nat
    BY DEF StandardInv, StandardTypeOK, StateTypes
  <2>1. ASSUME NEW w \in Workers, Complete(w) PROVE seen' >= seen
    <3>1. snap[w].seen = seen
      BY <2>1 DEF Complete, Current, StandardInv, SnapsAgree, Agrees
    <3>2. Ts[msg[w]] \in Nat
      BY <2>1, StandardAssumption DEF Complete, StandardInv, StandardTypeOK, CallTypes
    <3>3. QED
      BY <2>0, <2>1, <3>1, <3>2 DEF Complete, NextSeen
  <2>2. CASE SyncWrite
    BY <2>0, <2>2 DEF SyncWrite, Current, StandardInv, SnapsAgree, Agrees
  <2>3. (\E w \in Workers : Complete(w)) \/ SyncWrite
    BY DEF Next, Sync, Worker, Take, Claim, ClaimDone, Raise, List, Recover, NoRule, Load,
           Conflict, Fail, Crash, Rebalance, Expire, SetAlarmStatus, SyncRead, SyncProbe,
           SyncConflict, ScanOffline, ReportConnection, vars, state
  <2>4. QED
    BY <2>1, <2>2, <2>3
<1>2. QED
  BY <1>1, InvHolds, PTL DEF Spec, SeenNeverRegresses

----------------------------------------------------------------------------
(* The business status *)

\* The status says something else than the alarms.
Behind == ~((status = "ALARM" => open) /\ (status = "ONLINE" => ~open))

\* A snapshot whose write succeeds although the alarms changed since it was read.
Stale(s) == Current(s) /\ s.open # open

\* The status is behind the alarms, or a write that is about to succeed puts it behind.
Lagging ==
    \/ Behind
    \/ \E w \in Workers : pc[w] = "write" /\ Stale(snap[w])
    \/ opc = "write" /\ Stale(osnap)

\* Some call has yet to read the alarms or to find out that its snapshot is old, or
\* holds the current ones.
WorkerComing(w) == \/ pc[w] \in Recovering \cup {"load"}
                   \/ pc[w] = "write" /\ ~Stale(snap[w])
OpComing == opc \in {"read", "probe"} \/ (opc = "write" /\ ~Stale(osnap))
Coming == (\E w \in Workers : WorkerComing(w)) \/ OpComing

\* Whoever changed the alarms under a snapshot, or since the status was written, is still
\* on the way to write it.
ChangeIsComing == ~missed /\ Lagging => Coming

StatusInv == StandardInv /\ ChangeIsComing

\* A snapshot is not newer than the state.
LEMMA SnapsBehind ==
    ASSUME StandardInv
    PROVE  /\ version \in Nat
           /\ \A w \in Workers : pc[w] = "write" => snap[w].version \in Nat /\ snap[w].version <= version
           /\ opc = "write" => osnap.version \in Nat /\ osnap.version <= version
  BY DEF StandardInv, StandardTypeOK, StateTypes, SnapTypes, Snaps, SnapsAgree, Agrees

\* A write of the state leaves no snapshot whose write succeeds.
LEMMA NoneStale ==
    ASSUME StandardInv, [Next]_vars, version' = version + 1
    PROVE  /\ \A w \in Workers : pc'[w] = "write" => ~Stale(snap[w])'
           /\ opc' = "write" => ~Stale(osnap)'
<1>0. StandardTypeOK /\ version \in Nat /\ ~UNCHANGED state
  BY DEF StandardInv, StandardTypeOK, StateTypes, state
<1>1. ASSUME NEW w \in Workers, pc'[w] = "write" PROVE ~Stale(snap[w])'
  <2>1. pc[w] = "write" /\ snap'[w] = snap[w]
    BY <1>0, <1>1, SnapFrame
  <2> QED BY <2>1, SnapsBehind DEF Stale, Current
<1>2. ASSUME opc' = "write" PROVE ~Stale(osnap)'
  <2>1. opc \in {"probe", "write"} /\ osnap'.version = osnap.version
    BY <1>0, <1>2, OpSnapFrame
  <2>2. osnap.version \in Nat /\ osnap.version <= version
    BY <2>1 DEF StandardInv, StandardTypeOK, SnapTypes, Snaps, SnapsAgree, Agrees
  <2> QED BY <1>0, <2>1, <2>2 DEF Stale, Current
<1> QED BY <1>1, <1>2

\* Steps that neither write the rows nor move a call between the rules and the write.
LEMMA StatusAside ==
    ASSUME ChangeIsComing, UNCHANGED <<alarm, version, status, opc, osnap, missed>>,
           \A w \in Workers :
               \/ pc'[w] = pc[w] /\ snap'[w] = snap[w]
               \/ pc[w] \in {"idle", "claim", "apply"} /\ pc'[w] \in {"idle", "claim", "apply"}
    PROVE  ChangeIsComing'
<1>1. \A w \in Workers : pc'[w] = "write" => pc[w] = "write" /\ snap'[w] = snap[w]
  OBVIOUS
<1>2. \A w \in Workers : WorkerComing(w) => WorkerComing(w)'
  BY DEF WorkerComing, Recovering, Stale, Current, open
<1>3. OpComing => OpComing'
  BY DEF OpComing, Stale, Current, open
<1>4. Lagging' => Lagging
  BY <1>1 DEF Lagging, Behind, Stale, Current, open
<1> QED BY <1>2, <1>3, <1>4 DEF ChangeIsComing, Coming

\* A completion from the current alarms catches up with them; after any other, whoever
\* changed the alarms since they were read is still on the way.
LEMMA CompleteStep ==
    ASSUME StatusInv, NEW w \in Workers, Complete(w)
    PROVE  ChangeIsComing'
<1>0. [Next]_vars /\ StandardInv /\ StandardTypeOK /\ version \in Nat
  BY DEF Next, Worker, StatusInv, StandardInv, StandardTypeOK, StateTypes
<1>1. /\ version' = version + 1 /\ UNCHANGED <<alarm, opc, osnap>>
      /\ pc[w] = "write" /\ Current(snap[w])
      /\ missed' = (missed /\ snap[w].open # open)
      /\ status' = NextStatus(snap[w], msg[w])
  BY DEF Complete, alert
<1>2. \A u \in Workers \ {w} : pc'[u] = pc[u] /\ snap'[u] = snap[u]
  BY <1>0 DEF Complete, Return, Goto, StandardTypeOK, CallTypes, SnapTypes
<1>3. open' = open
  BY <1>1 DEF open
<1>4. CASE snap[w].open = open
  <2>1. ~Behind'
    BY <1>1, <1>3, <1>4 DEF Behind, NextStatus
  <2> QED BY <1>0, <1>1, <2>1, NoneStale DEF ChangeIsComing, Lagging
<1>5. CASE snap[w].open # open
  <2>1. Stale(snap[w]) /\ Lagging /\ ~WorkerComing(w)
    BY <1>1, <1>5 DEF Stale, Lagging, WorkerComing, Recovering
  <2>2. \A u \in Workers : WorkerComing(u) => WorkerComing(u)'
    BY <1>0, <1>1, <1>2, <2>1, NoneStale DEF WorkerComing
  <2>3. OpComing => OpComing'
    BY <1>0, <1>1, NoneStale DEF OpComing
  <2> QED BY <1>1, <1>5, <2>1, <2>2, <2>3 DEF StatusInv, ChangeIsComing, Coming
<1> QED BY <1>4, <1>5

\* So does the operator's write.
LEMMA SyncWriteStep ==
    ASSUME StatusInv, SyncWrite
    PROVE  ChangeIsComing'
<1>0. [Next]_vars /\ StandardInv /\ version \in Nat
  BY DEF Next, Sync, StatusInv, StandardInv, StandardTypeOK, StateTypes
<1>1. /\ version' = version + 1 /\ UNCHANGED <<alarm, pc, snap>>
      /\ opc = "write" /\ Current(osnap)
      /\ missed' = (missed /\ osnap.open # open)
      /\ status' = IF osnap.open THEN "ALARM" ELSE "ONLINE"
  BY DEF SyncWrite, alert, call
<1>2. open' = open
  BY <1>1 DEF open
<1>3. CASE osnap.open = open
  <2>1. ~Behind'
    BY <1>1, <1>2, <1>3 DEF Behind
  <2> QED BY <1>0, <1>1, <2>1, NoneStale DEF ChangeIsComing, Lagging
<1>4. CASE osnap.open # open
  <2>1. Stale(osnap) /\ Lagging /\ ~OpComing
    BY <1>1, <1>4 DEF Stale, Lagging, OpComing
  <2>2. \A u \in Workers : WorkerComing(u) => WorkerComing(u)'
    BY <1>0, <1>1, NoneStale DEF WorkerComing
  <2> QED BY <1>1, <1>4, <2>1, <2>2 DEF StatusInv, ChangeIsComing, Coming
<1> QED BY <1>3, <1>4

\* Scans, connection reports and received states: a received state that changes the
\* status is outdated.
LEMMA OthersWriteStep ==
    ASSUME StatusInv,
           ScanOffline \/ (\E up \in BOOLEAN : ReportConnection(up)) \/ UpdateDeviceState
    PROVE  ChangeIsComing'
<1>0. [Next]_vars /\ StandardInv /\ version \in Nat
  BY DEF Next, StatusInv, StandardInv, StandardTypeOK, StateTypes
<1>1. version' = version + 1 /\ UNCHANGED <<alarm, pc, snap, opc, osnap>> /\ (missed => missed')
  <2>1. CASE ScanOffline
    BY <2>1 DEF ScanOffline, alert, call, opcall
  <2>2. CASE \E up \in BOOLEAN : ReportConnection(up)
    BY <2>2 DEF ReportConnection, alert, call, opcall
  <2>3. CASE UpdateDeviceState
    <3>1. version' = version + 1 /\ UNCHANGED <<alarm, pc, snap, opc, osnap>>
      BY <2>3 DEF UpdateDeviceState, alert, call
    <3>2. missed => missed'
      BY <2>3, Zenon DEF UpdateDeviceState
    <3> QED BY <3>1, <3>2
  <2> QED BY <2>1, <2>2, <2>3
<1>2. CASE Coming
  <2>1. \A u \in Workers : WorkerComing(u) => WorkerComing(u)'
    BY <1>0, <1>1, NoneStale DEF WorkerComing
  <2>2. OpComing => OpComing'
    BY <1>0, <1>1, NoneStale DEF OpComing
  <2> QED BY <1>2, <2>1, <2>2 DEF ChangeIsComing, Coming
<1>3. CASE missed'
  BY <1>3 DEF ChangeIsComing
<1>4. CASE ~missed' /\ ~Coming
  <2>1. ~Behind
    BY <1>1, <1>4 DEF StatusInv, ChangeIsComing, Lagging
  <2>2. open' = open
    BY <1>1 DEF open
  <2>3. CASE ScanOffline
    <3>1. ~Behind'
      BY <2>3 DEF ScanOffline, OfflineStatus, Behind
    <3> QED BY <1>0, <1>1, <3>1, NoneStale DEF ChangeIsComing, Lagging
  <2>4. CASE (\E up \in BOOLEAN : ReportConnection(up)) \/ UpdateDeviceState
    <3>1. status' = status
      BY <1>4, <2>4 DEF ReportConnection, UpdateDeviceState
    <3>2. ~Behind'
      BY <2>1, <2>2, <3>1 DEF Behind
    <3> QED BY <1>0, <1>1, <3>2, NoneStale DEF ChangeIsComing, Lagging
  <2> QED BY <2>3, <2>4
<1> QED BY <1>2, <1>3, <1>4

\* Every step keeps ChangeIsComing: a call that changes the alarms, or reads them, is on
\* the way to the write.
LEMMA ChangeStep ==
    ASSUME StatusInv, [Next]_vars
    PROVE  ChangeIsComing'
<1>0. StandardTypeOK /\ ChangeIsComing
  BY DEF StatusInv, StandardInv
<1>1. ASSUME NEW w \in Workers, Raise(w) \/ List(w) \/ Recover(w) \/ NoRule(w) PROVE ChangeIsComing'
  <2>1. pc'[w] \in Recovering \cup {"load"}
    BY <1>0, <1>1 DEF Raise, List, Recover, NoRule, Goto, Recovering, StandardTypeOK, CallTypes
  <2> QED BY <2>1 DEF ChangeIsComing, Coming, WorkerComing
<1>2. ASSUME NEW w \in Workers, Load(w) PROVE ChangeIsComing'
  <2>1. pc'[w] = "write" /\ snap'[w].open = open /\ UNCHANGED alarm
    BY <1>0, <1>2 DEF Load, Goto, alert, StandardTypeOK, CallTypes, SnapTypes
  <2>2. open' = open
    BY <2>1 DEF open
  <2> QED BY <2>1, <2>2 DEF ChangeIsComing, Coming, WorkerComing, Stale
<1>3. ASSUME NEW w \in Workers, Conflict(w) PROVE ChangeIsComing'
  <2>1. missed' \/ pc'[w] = "load"
    <3>1. tries[w] + 1 < CasAttempts \/ tries[w] + 1 >= CasAttempts
      BY <1>0, StandardAssumption DEF StandardTypeOK, CallTypes
    <3>2. CASE tries[w] + 1 >= CasAttempts
      BY <1>3, <3>2 DEF Conflict
    <3>3. CASE tries[w] + 1 < CasAttempts
      BY <1>0, <1>3, <3>3 DEF Conflict, Goto, StandardTypeOK, CallTypes
    <3> QED BY <3>1, <3>2, <3>3
  <2> QED BY <2>1 DEF ChangeIsComing, Coming, WorkerComing
<1>4. ASSUME NEW w \in Workers, Take(w) \/ Claim(w) \/ ClaimDone(w) PROVE ChangeIsComing'
  <2>1. UNCHANGED <<alarm, version, status, opc, osnap, missed>>
    BY <1>4 DEF Take, Claim, ClaimDone, alert, state, opcall
  <2>2. /\ pc[w] \in {"idle", "claim", "apply"} /\ pc'[w] \in {"idle", "claim", "apply"}
        /\ \A u \in Workers \ {w} : pc'[u] = pc[u] /\ snap'[u] = snap[u]
    BY <1>0, <1>4 DEF Take, Claim, ClaimDone, Return, Goto, StandardTypeOK, CallTypes
  <2> QED BY <1>0, <2>1, <2>2, StatusAside
<1>5. ASSUME NEW w \in Workers, Fail(w) \/ Crash(w) PROVE ChangeIsComing'
  <2>1. CASE missed'
    BY <2>1 DEF ChangeIsComing
  <2>2. CASE ~missed'
    <3>1. UNCHANGED <<alarm, version, status, opc, osnap>>
      BY <1>5 DEF Fail, Crash, alert, state
    <3>2. ~missed /\ pc[w] \in {"idle", "claim", "apply"}
      BY <1>5, <2>2 DEF Fail, Crash
    <3>3. missed' = missed
      BY <1>0, <1>5, <2>2, <3>2 DEF Fail, Crash, StandardTypeOK, OpTypes
    <3>4. /\ pc'[w] \in {"idle", "claim", "apply"}
          /\ \A u \in Workers \ {w} : pc'[u] = pc[u] /\ snap'[u] = snap[u]
      BY <1>0, <1>5 DEF Fail, Crash, Goto, StandardTypeOK, CallTypes, SnapTypes
    <3> QED BY <1>0, <3>1, <3>2, <3>3, <3>4, StatusAside
  <2> QED BY <2>1, <2>2
<1>6. CASE SetAlarmStatus("ACKED") \/ SetAlarmStatus("over") \/ SyncRead \/ SyncConflict
  <2>1. missed' \/ opc' \in {"read", "probe"}
    BY <1>6 DEF SetAlarmStatus, SyncRead, SyncConflict
  <2> QED BY <2>1 DEF ChangeIsComing, Coming, OpComing
<1>7. CASE SyncProbe
  <2>1. opc' = "write" /\ osnap'.open = open /\ UNCHANGED alarm
    BY <1>7 DEF SyncProbe, alert
  <2>2. open' = open
    BY <2>1 DEF open
  <2> QED BY <2>1, <2>2 DEF ChangeIsComing, Coming, OpComing, Stale
<1>8. CASE \/ \E w \in Workers, n \in Msgs : Rebalance(w, n)
           \/ \E m \in Msgs : Expire(m)
           \/ UNCHANGED vars
  BY <1>0, <1>8, StatusAside DEF Rebalance, Expire, vars, alert, state, call, opcall
<1> QED
  BY <1>1, <1>2, <1>3, <1>4, <1>5, <1>6, <1>7, <1>8, CompleteStep, SyncWriteStep,
     OthersWriteStep DEF Next, Worker, Sync

\* Once all calls have finished, the business status follows the alarms, for any number
\* of processes, messages, attempts, faults and publications that come back, unless a
\* call ended without writing the state, or a publication came back after the status had
\* changed again, and no state was written from the current alarms since
\* (completeStandard, syncDeviceBusinessStatus, updateDeviceState).
THEOREM StatusIsCurrent == Spec => []StatusFollowsAlarms
<1>1. Init => ChangeIsComing
  BY DEF Init, ChangeIsComing, Lagging, Behind
<1>2. StatusInv /\ [Next]_vars => ChangeIsComing'
  BY ChangeStep
<1>3. StatusInv => StatusFollowsAlarms
  <2> SUFFICES ASSUME StatusInv, Quiet, ~missed
               PROVE  ~Behind
    BY DEF StatusFollowsAlarms, Behind
  <2>1. ~Coming
    BY DEF Quiet, Coming, WorkerComing, OpComing, Recovering
  <2> QED BY <2>1 DEF StatusInv, ChangeIsComing, Lagging
<1> QED BY <1>1, <1>2, <1>3, InvHolds, PTL DEF Spec, StatusInv

=============================================================================
