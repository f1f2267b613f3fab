-------------------------- MODULE CoordinatorProofs --------------------------
(***************************************************************************)
(* Proofs about the execution coordinator, for any number of processes and  *)
(* any timing in which a call is shorter than the session's timer, and the   *)
(* timer, however late it runs, ends before the lease does.                  *)
(***************************************************************************)
EXTENDS Coordinator, TLAPS

Timing ==
    /\ ClaimLimit <= Deadline
    /\ RenewLimit <= Deadline
    /\ Deadline + Late < TTL

----------------------------------------------------------------------------
(* The inductive invariant.                                                 *)

\* Where a process is in the code tells what its session and its call can be.
Control ==
    \A p \in Procs :
        /\ pc[p] \in {"claiming", "releasing", "stopping", "down"} => ~Live(p)
        /\ reply[p].kind = "held" => InCall(p)
        /\ age[p] <= Deadline

\* The answer on its way back is still true when it arrives.
AnswerHolds ==
    \A p \in Procs : reply[p].kind = "held" =>
        /\ row.owner = p
        /\ row.token = reply[p].token
        /\ row.left >= TTL - age[p]

\* Tokens of earlier sessions are smaller, or belong to the row's owner.
LastBehind ==
    /\ last.token <= row.token
    /\ last.token = row.token => last.proc = row.owner

CoordinatorInv ==
    /\ CoordinatorTypeOK
    /\ Control
    /\ AnswerHolds
    /\ LeaseOutlastsSession
    /\ LastBehind

----------------------------------------------------------------------------
(* Each part holds initially and is kept by every step.                     *)

\* Init establishes the invariant: no session, no call, an absent row.
LEMMA CoordinatorInit == ASSUME Timing PROVE Init => CoordinatorInv
<1> USE LeaseAssumption, CoordinatorAssumption DEF Init, RowInit, NoSession, NoReply
<1>1. Init => CoordinatorTypeOK
  BY DEF CoordinatorTypeOK, Rows, Sessions, Replies
<1>2. Init => Control /\ AnswerHolds /\ LeaseOutlastsSession /\ LastBehind
  BY DEF Control, AnswerHolds, LeaseOutlastsSession, LastBehind, Live, InCall
<1> QED BY <1>1, <1>2 DEF CoordinatorInv

\* What the statements on the row return.
LEMMA RowFacts ==
  ASSUME row \in Rows, NEW p \in Procs, NEW t
  PROVE  /\ Acquired(p) \in Rows
         /\ Acquired(p).owner = p /\ Acquired(p).left = TTL
         /\ Released(p, t) \in Rows
         /\ Released(p, t).owner = row.owner /\ Released(p, t).token = row.token
         /\ row.owner # p => Released(p, t) = row
<1> USE LeaseAssumption
<1>1. row.owner \in Procs \cup {NoProc} /\ row.token \in Nat /\ row.left \in 0 .. TTL
  BY DEF Rows
<1>2. Acquired(p) \in Rows /\ Acquired(p).owner = p /\ Acquired(p).left = TTL
  BY <1>1 DEF Acquired, Rows
<1>3. [row EXCEPT !.left = 0] \in Rows
  BY <1>1 DEF Rows
<1>4. [row EXCEPT !.left = 0].owner = row.owner /\ [row EXCEPT !.left = 0].token = row.token
  BY DEF Rows
<1> QED BY <1>2, <1>3, <1>4 DEF Released

\* What a tick does to the row.
LEMMA TickRow ==
  ASSUME row \in Rows, RowTick
  PROVE  /\ row' \in Rows
         /\ row'.owner = row.owner /\ row'.token = row.token
         /\ row'.left = Passed(row.left)
<1> USE LeaseAssumption
<1>1. row.left \in 0 .. TTL /\ TTL \in Nat
  BY DEF Rows
<1>2. Passed(row.left) \in 0 .. TTL
  BY <1>1 DEF Passed
<1>3. row' = [row EXCEPT !.left = Passed(row.left)]
  BY DEF RowTick
<1> HIDE DEF Passed
<1> QED BY <1>2, <1>3 DEF Rows

\* What a tick does to one process.
LEMMA TickOne ==
  ASSUME CoordinatorTypeOK, Tick, NEW p \in Procs
  PROVE  /\ session'[p].state = session[p].state
         /\ session'[p].token = session[p].token
         /\ session'[p].left = IF Live(p) THEN session[p].left - 1 ELSE session[p].left
         /\ Live(p) => session'[p].left \in -Late .. Deadline
         /\ session'[p] \in Sessions
         /\ age'[p] = IF InCall(p) THEN age[p] + 1 ELSE age[p]
<1> DEFINE l == IF Live(p) THEN session[p].left - 1 ELSE session[p].left
           i == IF Live(p) /\ session[p].idle <= Idle
                THEN session[p].idle + 1 ELSE session[p].idle
<1>1. session[p] \in Sessions
  BY DEF CoordinatorTypeOK
<1>2. session'[p] = [session[p] EXCEPT !.left = l, !.idle = i]
  BY DEF Tick
<1>3. l \in -Late .. Deadline
  <2>1. session[p].left \in -Late .. Deadline /\ Late \in Nat /\ Deadline \in Nat
    BY <1>1, CoordinatorAssumption DEF Sessions
  <2>2. Live(p) => session[p].left > -Late
    BY DEF Tick
  <2> QED BY <2>1, <2>2
<1>4. i \in Nat
  BY <1>1, CoordinatorAssumption DEF Sessions
<1>5. age'[p] = IF InCall(p) THEN age[p] + 1 ELSE age[p]
  BY DEF Tick
<1> HIDE DEF l, i
<1>6. session'[p] \in Sessions /\ session'[p].state = session[p].state
      /\ session'[p].token = session[p].token /\ session'[p].left = l
  BY <1>1, <1>2, <1>3, <1>4 DEF Sessions
<1> QED BY <1>3, <1>5, <1>6 DEF l

\* Every step keeps the types; the timers stay in their range.
LEMMA CoordinatorType ==
  ASSUME Timing, CoordinatorInv, [Next]_vars
  PROVE  CoordinatorTypeOK'
<1> USE LeaseAssumption, CoordinatorAssumption DEF Timing, CoordinatorInv, CoordinatorTypeOK, Rows, Sessions, Replies, Control
<1>1. ASSUME NEW p \in Procs, Touch(p) PROVE CoordinatorTypeOK'
  BY <1>1 DEF Touch, Live, InCall
<1>2. ASSUME NEW p \in Procs, Claim(p) PROVE CoordinatorTypeOK'
  BY <1>2 DEF Claim, StartCall, NoReply, Live, InCall
<1>3. ASSUME NEW p \in Procs, Acquire(p) PROVE CoordinatorTypeOK'
  <2>1. Acquired(p) \in Rows /\ Acquired(p).token \in Nat
    BY RowFacts
  <2>2. row' \in Rows
    BY <1>3, <2>1 DEF Acquire
  <2>3. UNCHANGED <<pc, session, age, check, last, errors>>
    BY <1>3 DEF Acquire
  <2>4. \E r \in Replies : reply' = [reply EXCEPT ![p] = r]
    BY <1>3, <2>1 DEF Acquire
  <2> QED BY <2>2, <2>3, <2>4
<1>4. ASSUME NEW p \in Procs, CallFails(p) PROVE CoordinatorTypeOK'
  BY <1>4 DEF CallFails, Live, InCall
<1>5. ASSUME NEW p \in Procs, ClaimReturns(p) PROVE CoordinatorTypeOK'
  BY <1>5 DEF ClaimReturns, EndCall, NoReply, Rearmed, Live, InCall
<1>6. ASSUME NEW p \in Procs, TimerFires(p) PROVE CoordinatorTypeOK'
  BY <1>6 DEF TimerFires, Cancelled, Live, InCall
<1>7. ASSUME NEW p \in Procs, GiveUp(p) PROVE CoordinatorTypeOK'
  BY <1>7 DEF GiveUp, Cancelled, GivenUp, Live, InCall
<1>8. ASSUME NEW p \in Procs, Release(p) PROVE CoordinatorTypeOK'
  <2>1. Released(p, session[p].token) \in Rows
    BY RowFacts
  <2>2. row' \in Rows
    BY <1>8, <2>1 DEF Release
  <2>3. errors' \in Nat /\ UNCHANGED <<pc, session, age, check, last>>
    BY <1>8 DEF Release
  <2>4. \E r \in Replies : reply' = [reply EXCEPT ![p] = r]
    BY <1>8 DEF Release
  <2> QED BY <2>2, <2>3, <2>4
<1>9. ASSUME NEW p \in Procs, ReleaseReturns(p) PROVE CoordinatorTypeOK'
  BY <1>9 DEF ReleaseReturns, NoSession, NoReply, Live, InCall
<1>10. ASSUME NEW p \in Procs, Renew(p) PROVE CoordinatorTypeOK'
  BY <1>10 DEF Renew, StartCall, NoReply, GivenUp, Live, InCall
<1>11. ASSUME NEW p \in Procs, RenewReturns(p) PROVE CoordinatorTypeOK'
  BY <1>11 DEF RenewReturns, EndCall, NoReply, NoSession, Rearmed, Live, InCall
<1>12. ASSUME NEW p \in Procs, ReadToken(p) PROVE CoordinatorTypeOK'
  BY <1>12 DEF ReadToken, Live, InCall
<1>13. ASSUME NEW p \in Procs, Validate(p) PROVE CoordinatorTypeOK'
  BY <1>13 DEF Validate, Live, InCall
<1>14. ASSUME NEW p \in Procs, Stop(p) PROVE CoordinatorTypeOK'
  <2>1. Cancelled(session[p]) \in Sessions /\ NoSession \in Sessions
    BY DEF Cancelled, NoSession
  <2>2. session' \in [Procs -> Sessions]
    BY <1>14, <2>1 DEF Stop
  <2>3. pc' \in [Procs -> {"idle", "claiming", "renewing", "releasing", "stopping", "down"}]
    BY <1>14 DEF Stop
  <2> QED BY <1>14, <2>2, <2>3 DEF Stop, NoReply
<1>15. ASSUME NEW p \in Procs, Crash(p) PROVE CoordinatorTypeOK'
  BY <1>15 DEF Crash, NoSession, NoReply, Live, InCall
<1>16. CASE Tick
  <2>1. row' \in Rows
    BY <1>16, TickRow DEF Tick
  <2>2. session' \in [Procs -> Sessions]
    BY <1>16, TickOne DEF Tick
  <2>3. age' \in [Procs -> Nat]
    <3>1. \A q \in Procs : (IF InCall(q) THEN age[q] + 1 ELSE age[q]) \in Nat
      OBVIOUS
    <3> HIDE DEF InCall
    <3> QED BY <1>16, <3>1 DEF Tick
  <2> QED BY <1>16, <2>1, <2>2, <2>3 DEF Tick
<1>17. CASE UNCHANGED vars
  BY <1>17 DEF vars, Live, InCall
<1> QED
  BY <1>1, <1>2, <1>3, <1>4, <1>5, <1>6, <1>7, <1>8, <1>9, <1>10, <1>11, <1>12, <1>13, <1>14, <1>15, <1>16, <1>17 DEF Next, Step

\* Every step keeps sessions, calls and answers in step with the code.
LEMMA CoordinatorControl ==
  ASSUME Timing, CoordinatorInv, [Next]_vars
  PROVE  Control'
<1> USE LeaseAssumption, CoordinatorAssumption DEF Timing, CoordinatorInv, CoordinatorTypeOK, Rows, Sessions, Replies, Control, Live, InCall
<1>1. ASSUME NEW p \in Procs, Touch(p) PROVE Control'
  BY <1>1 DEF Touch, CallLimit
<1>2. ASSUME NEW p \in Procs, Claim(p) PROVE Control'
  BY <1>2 DEF Claim, StartCall, NoReply, CallLimit
<1>3. ASSUME NEW p \in Procs, Acquire(p) PROVE Control'
  BY <1>3 DEF Acquire, Acquired, CanAcquire, Expired, CallLimit
<1>4. ASSUME NEW p \in Procs, CallFails(p) PROVE Control'
  BY <1>4 DEF CallFails, CallLimit
<1>5. ASSUME NEW p \in Procs, ClaimReturns(p) PROVE Control'
  BY <1>5 DEF ClaimReturns, EndCall, NoReply, Rearmed, CallLimit
<1>6. ASSUME NEW p \in Procs, TimerFires(p) PROVE Control'
  BY <1>6 DEF TimerFires, Cancelled, CallLimit
<1>7. ASSUME NEW p \in Procs, GiveUp(p) PROVE Control'
  BY <1>7 DEF GiveUp, Cancelled, GivenUp, CallLimit
<1>8. ASSUME NEW p \in Procs, Release(p) PROVE Control'
  BY <1>8 DEF Release, Released, CallLimit
<1>9. ASSUME NEW p \in Procs, ReleaseReturns(p) PROVE Control'
  BY <1>9 DEF ReleaseReturns, NoSession, NoReply, CallLimit
<1>10. ASSUME NEW p \in Procs, Renew(p) PROVE Control'
  BY <1>10 DEF Renew, StartCall, NoReply, GivenUp, CallLimit
<1>11. ASSUME NEW p \in Procs, RenewReturns(p) PROVE Control'
  BY <1>11 DEF RenewReturns, EndCall, NoReply, NoSession, Rearmed, CallLimit
<1>12. ASSUME NEW p \in Procs, ReadToken(p) PROVE Control'
  BY <1>12 DEF ReadToken, CallLimit
<1>13. ASSUME NEW p \in Procs, Validate(p) PROVE Control'
  BY <1>13 DEF Validate, CallLimit
<1>14. ASSUME NEW p \in Procs, Stop(p) PROVE Control'
  BY <1>14 DEF Stop, Cancelled, NoSession, NoReply, CallLimit
<1>15. ASSUME NEW p \in Procs, Crash(p) PROVE Control'
  BY <1>15 DEF Crash, NoSession, NoReply, CallLimit
<1>16. CASE Tick
  <2> SUFFICES ASSUME NEW q \in Procs
               PROVE  /\ Live(q)' => Live(q)
                      /\ age'[q] <= Deadline
    BY <1>16 DEF Tick
  <2>1. Live(q)' => Live(q)
    BY <1>16, TickOne
  <2>2. InCall(q) => age[q] < CallLimit(q)
    BY <1>16 DEF Tick
  <2>3. age'[q] = IF InCall(q) THEN age[q] + 1 ELSE age[q]
    BY <1>16, TickOne
  <2> QED BY <2>1, <2>2, <2>3 DEF CallLimit
<1>17. CASE UNCHANGED vars
  BY <1>17 DEF vars, CallLimit
<1> QED
  BY <1>1, <1>2, <1>3, <1>4, <1>5, <1>6, <1>7, <1>8, <1>9, <1>10, <1>11, <1>12, <1>13, <1>14, <1>15, <1>16, <1>17 DEF Next, Step

\* No other process takes the row while an answer is on its way.
LEMMA CoordinatorAnswer ==
  ASSUME Timing, CoordinatorInv, [Next]_vars
  PROVE  AnswerHolds'
<1> USE LeaseAssumption, CoordinatorAssumption DEF Timing, CoordinatorInv, CoordinatorTypeOK, Rows, Sessions, Replies, Control, AnswerHolds, Live, InCall
<1>1. ASSUME NEW p \in Procs, Touch(p) PROVE AnswerHolds'
  BY <1>1 DEF Touch
<1>2. ASSUME NEW p \in Procs, Claim(p) PROVE AnswerHolds'
  BY <1>2 DEF Claim, StartCall, NoReply
<1>3. ASSUME NEW p \in Procs, Acquire(p) PROVE AnswerHolds'
  <2>1. CASE ~CanAcquire(p)
    <3>1. /\ row' = row /\ age' = age
          /\ reply' = [reply EXCEPT ![p] = [kind |-> "refused", token |-> 0]]
      BY <1>3, <2>1 DEF Acquire
    <3>2. ASSUME NEW q \in Procs, reply'[q].kind = "held" PROVE reply'[q] = reply[q]
      BY <3>1, <3>2
    <3> QED BY <3>1, <3>2
  <2>2. CASE CanAcquire(p)
    <3>1. /\ row' = Acquired(p) /\ age' = age
          /\ reply' = [reply EXCEPT ![p] = [kind |-> "held", token |-> Acquired(p).token]]
      BY <1>3, <2>2 DEF Acquire
    <3>2. row'.owner = p /\ row'.token = reply'[p].token /\ row'.left >= TTL - age'[p]
      BY <3>1 DEF Acquired
    <3>3. ASSUME NEW q \in Procs, q # p PROVE reply'[q].kind # "held"
      <4>1. reply'[q] = reply[q]
        BY <3>1, <3>3
      <4>2. SUFFICES ASSUME reply[q].kind = "held" PROVE FALSE
        BY <4>1
      <4>3. row.owner = q /\ row.left >= TTL - age[q] /\ age[q] <= Deadline
        BY <4>2
      <4>4. row.left > 0
        BY <4>3
      <4> QED BY <2>2, <3>3, <4>3, <4>4 DEF CanAcquire, Expired
    <3> QED BY <3>2, <3>3
  <2> QED BY <2>1, <2>2
<1>4. ASSUME NEW p \in Procs, CallFails(p) PROVE AnswerHolds'
  BY <1>4 DEF CallFails
<1>5. ASSUME NEW p \in Procs, ClaimReturns(p) PROVE AnswerHolds'
  BY <1>5 DEF ClaimReturns, EndCall, NoReply, Rearmed
<1>6. ASSUME NEW p \in Procs, TimerFires(p) PROVE AnswerHolds'
  BY <1>6 DEF TimerFires, Cancelled
<1>7. ASSUME NEW p \in Procs, GiveUp(p) PROVE AnswerHolds'
  BY <1>7 DEF GiveUp, Cancelled, GivenUp
<1>8. ASSUME NEW p \in Procs, Release(p) PROVE AnswerHolds'
  <2> SUFFICES ASSUME NEW q \in Procs, reply'[q].kind = "held"
               PROVE  row' = row /\ reply'[q] = reply[q] /\ age'[q] = age[q]
    BY <1>8 DEF Release
  <2>1. q # p /\ reply'[q] = reply[q]
    BY <1>8 DEF Release
  <2>2. row' = row
    <3>1. row.owner # p
      BY <2>1
    <3>2. Released(p, session[p].token) = row
      BY <3>1, RowFacts
    <3> QED BY <1>8, <3>2 DEF Release
  <2> QED BY <1>8, <2>1, <2>2 DEF Release
<1>9. ASSUME NEW p \in Procs, ReleaseReturns(p) PROVE AnswerHolds'
  BY <1>9 DEF ReleaseReturns, NoSession, NoReply
<1>10. ASSUME NEW p \in Procs, Renew(p) PROVE AnswerHolds'
  BY <1>10 DEF Renew, StartCall, NoReply, GivenUp
<1>11. ASSUME NEW p \in Procs, RenewReturns(p) PROVE AnswerHolds'
  BY <1>11 DEF RenewReturns, EndCall, NoReply, NoSession, Rearmed
<1>12. ASSUME NEW p \in Procs, ReadToken(p) PROVE AnswerHolds'
  BY <1>12 DEF ReadToken
<1>13. ASSUME NEW p \in Procs, Validate(p) PROVE AnswerHolds'
  BY <1>13 DEF Validate
<1>14. ASSUME NEW p \in Procs, Stop(p) PROVE AnswerHolds'
  BY <1>14 DEF Stop, Cancelled, NoSession, NoReply
<1>15. ASSUME NEW p \in Procs, Crash(p) PROVE AnswerHolds'
  BY <1>15 DEF Crash, NoSession, NoReply
<1>16. CASE Tick
  <2> SUFFICES ASSUME NEW q \in Procs, reply'[q].kind = "held"
               PROVE  row'.owner = q /\ row'.token = reply'[q].token /\ row'.left >= TTL - age'[q]
    OBVIOUS
  <2>1. reply' = reply /\ InCall(q) /\ age'[q] = age[q] + 1
    BY <1>16, TickOne DEF Tick
  <2>2. row'.owner = row.owner /\ row'.token = row.token /\ row'.left = Passed(row.left)
    BY <1>16, TickRow DEF Tick
  <2>3. row.left >= TTL - age[q] /\ row.owner = q /\ row.token = reply[q].token
    BY <2>1
  <2> QED BY <2>1, <2>2, <2>3 DEF Passed
<1>17. CASE UNCHANGED vars
  BY <1>17 DEF vars
<1> QED
  BY <1>1, <1>2, <1>3, <1>4, <1>5, <1>6, <1>7, <1>8, <1>9, <1>10, <1>11, <1>12, <1>13, <1>14, <1>15, <1>16, <1>17 DEF Next, Step

\* No other process takes the row while a session is live.
LEMMA CoordinatorLease ==
  ASSUME Timing, CoordinatorInv, [Next]_vars
  PROVE  LeaseOutlastsSession'
<1> USE LeaseAssumption, CoordinatorAssumption DEF Timing, CoordinatorInv, CoordinatorTypeOK, Rows, Sessions, Replies, Control, AnswerHolds, LeaseOutlastsSession, Live, InCall
<1>1. ASSUME NEW p \in Procs, Touch(p) PROVE LeaseOutlastsSession'
  BY <1>1 DEF Touch
<1>2. ASSUME NEW p \in Procs, Claim(p) PROVE LeaseOutlastsSession'
  BY <1>2 DEF Claim, StartCall, NoReply
<1>3. ASSUME NEW p \in Procs, Acquire(p) PROVE LeaseOutlastsSession'
  BY <1>3 DEF Acquire, Acquired, CanAcquire, Expired
<1>4. ASSUME NEW p \in Procs, CallFails(p) PROVE LeaseOutlastsSession'
  BY <1>4 DEF CallFails
<1>5. ASSUME NEW p \in Procs, ClaimReturns(p) PROVE LeaseOutlastsSession'
  BY <1>5 DEF ClaimReturns, EndCall, NoReply, Rearmed
<1>6. ASSUME NEW p \in Procs, TimerFires(p) PROVE LeaseOutlastsSession'
  BY <1>6 DEF TimerFires, Cancelled
<1>7. ASSUME NEW p \in Procs, GiveUp(p) PROVE LeaseOutlastsSession'
  BY <1>7 DEF GiveUp, Cancelled, GivenUp
<1>8. ASSUME NEW p \in Procs, Release(p) PROVE LeaseOutlastsSession'
  BY <1>8 DEF Release, Released
<1>9. ASSUME NEW p \in Procs, ReleaseReturns(p) PROVE LeaseOutlastsSession'
  BY <1>9 DEF ReleaseReturns, NoSession, NoReply
<1>10. ASSUME NEW p \in Procs, Renew(p) PROVE LeaseOutlastsSession'
  BY <1>10 DEF Renew, StartCall, NoReply, GivenUp
<1>11. ASSUME NEW p \in Procs, RenewReturns(p) PROVE LeaseOutlastsSession'
  BY <1>11 DEF RenewReturns, EndCall, NoReply, NoSession, Rearmed
<1>12. ASSUME NEW p \in Procs, ReadToken(p) PROVE LeaseOutlastsSession'
  BY <1>12 DEF ReadToken
<1>13. ASSUME NEW p \in Procs, Validate(p) PROVE LeaseOutlastsSession'
  BY <1>13 DEF Validate
<1>14. ASSUME NEW p \in Procs, Stop(p) PROVE LeaseOutlastsSession'
  <2> SUFFICES ASSUME NEW q \in Procs, session'[q].state = "live"
               PROVE  row' = row /\ session'[q] = session[q]
    BY <1>14 DEF Stop
  <2>1. q # p
    BY <1>14 DEF Stop, Cancelled, NoSession
  <2> QED BY <1>14, <2>1 DEF Stop
<1>15. ASSUME NEW p \in Procs, Crash(p) PROVE LeaseOutlastsSession'
  BY <1>15 DEF Crash, NoSession, NoReply
<1>16. CASE Tick
  <2> SUFFICES ASSUME NEW q \in Procs, session'[q].state = "live"
               PROVE  /\ row'.owner = q /\ row'.token = session'[q].token
                      /\ row'.left >= session'[q].left + (TTL - Deadline)
    OBVIOUS
  <2>1. Live(q) /\ session'[q].left = session[q].left - 1 /\ session'[q].token = session[q].token
    BY <1>16, TickOne
  <2>2. row'.owner = row.owner /\ row'.token = row.token /\ row'.left = Passed(row.left)
    BY <1>16, TickRow DEF Tick
  <2>3. /\ row.left >= session[q].left + (TTL - Deadline)
        /\ row.owner = q /\ row.token = session[q].token
        /\ session[q].left > -Late
    BY <1>16, <2>1 DEF Tick
  <2> QED BY <2>1, <2>2, <2>3 DEF Passed
<1>17. CASE UNCHANGED vars
  BY <1>17 DEF vars
<1> QED
  BY <1>1, <1>2, <1>3, <1>4, <1>5, <1>6, <1>7, <1>8, <1>9, <1>10, <1>11, <1>12, <1>13, <1>14, <1>15, <1>16, <1>17 DEF Next, Step

\* The row's token moves past the last session's before its owner changes.
LEMMA CoordinatorLast ==
  ASSUME Timing, CoordinatorInv, [Next]_vars
  PROVE  LastBehind'
<1> USE LeaseAssumption, CoordinatorAssumption DEF Timing, CoordinatorInv, CoordinatorTypeOK, Rows, Sessions, Replies, Control, AnswerHolds, LastBehind, Live, InCall
<1>1. ASSUME NEW p \in Procs, Touch(p) PROVE LastBehind'
  BY <1>1 DEF Touch
<1>2. ASSUME NEW p \in Procs, Claim(p) PROVE LastBehind'
  BY <1>2 DEF Claim, StartCall, NoReply
<1>3. ASSUME NEW p \in Procs, Acquire(p) PROVE LastBehind'
  BY <1>3 DEF Acquire, Acquired, CanAcquire, Expired
<1>4. ASSUME NEW p \in Procs, CallFails(p) PROVE LastBehind'
  BY <1>4 DEF CallFails
<1>5. ASSUME NEW p \in Procs, ClaimReturns(p) PROVE LastBehind'
  BY <1>5 DEF ClaimReturns, EndCall, NoReply, Rearmed
<1>6. ASSUME NEW p \in Procs, TimerFires(p) PROVE LastBehind'
  BY <1>6 DEF TimerFires, Cancelled
<1>7. ASSUME NEW p \in Procs, GiveUp(p) PROVE LastBehind'
  BY <1>7 DEF GiveUp, Cancelled, GivenUp
<1>8. ASSUME NEW p \in Procs, Release(p) PROVE LastBehind'
  BY <1>8 DEF Release, Released
<1>9. ASSUME NEW p \in Procs, ReleaseReturns(p) PROVE LastBehind'
  BY <1>9 DEF ReleaseReturns, NoSession, NoReply
<1>10. ASSUME NEW p \in Procs, Renew(p) PROVE LastBehind'
  BY <1>10 DEF Renew, StartCall, NoReply, GivenUp
<1>11. ASSUME NEW p \in Procs, RenewReturns(p) PROVE LastBehind'
  BY <1>11 DEF RenewReturns, EndCall, NoReply, NoSession, Rearmed
<1>12. ASSUME NEW p \in Procs, ReadToken(p) PROVE LastBehind'
  BY <1>12 DEF ReadToken
<1>13. ASSUME NEW p \in Procs, Validate(p) PROVE LastBehind'
  BY <1>13 DEF Validate
<1>14. ASSUME NEW p \in Procs, Stop(p) PROVE LastBehind'
  BY <1>14 DEF Stop, Cancelled, NoSession, NoReply
<1>15. ASSUME NEW p \in Procs, Crash(p) PROVE LastBehind'
  BY <1>15 DEF Crash, NoSession, NoReply
<1>16. CASE Tick
  BY <1>16 DEF Tick, RowTick, Passed
<1>17. CASE UNCHANGED vars
  BY <1>17 DEF vars
<1> QED
  BY <1>1, <1>2, <1>3, <1>4, <1>5, <1>6, <1>7, <1>8, <1>9, <1>10, <1>11, <1>12, <1>13, <1>14, <1>15, <1>16, <1>17 DEF Next, Step

----------------------------------------------------------------------------
(* The theorems.                                                            *)

\* The inductive invariant of the coordinator under its timing.
LEMMA CoordinatorInvariant == ASSUME Timing PROVE Spec => []CoordinatorInv
<1>1. Init => CoordinatorInv
  BY CoordinatorInit
<1>2. CoordinatorInv /\ [Next]_vars => CoordinatorInv'
  BY CoordinatorType, CoordinatorControl, CoordinatorAnswer, CoordinatorLease, CoordinatorLast
     DEF CoordinatorInv
<1> QED BY <1>1, <1>2, PTL DEF Spec

\* Every variable keeps its type and no timer of a live session is overdue.
THEOREM CoordinatorTypeCorrect == ASSUME Timing PROVE Spec => []CoordinatorTypeOK
<1>1. CoordinatorInv => CoordinatorTypeOK
  BY DEF CoordinatorInv
<1> QED BY <1>1, CoordinatorInvariant, PTL

\* A live session's lease is its own and outlasts its timer.
THEOREM LeaseOutlasts == ASSUME Timing PROVE Spec => []LeaseOutlastsSession
<1>1. CoordinatorInv => LeaseOutlastsSession
  BY DEF CoordinatorInv
<1> QED BY <1>1, CoordinatorInvariant, PTL

\* A validation that succeeds finds no live session of another process.
THEOREM ValidationIsFenced == ASSUME Timing PROVE Spec => ValidationFences
<1>1. CoordinatorInv => [\A p \in Procs : Validate(p) /\ Validated(p) =>
                            \A q \in Procs : Live(q) => q = p]_vars
  <2> SUFFICES ASSUME CoordinatorInv, NEW p \in Procs, Validated(p), NEW q \in Procs, Live(q)
               PROVE  q = p
    OBVIOUS
  <2> QED BY DEF CoordinatorInv, LeaseOutlastsSession, Validated, Owns
<1> QED BY <1>1, CoordinatorInvariant, PTL DEF ValidationFences

\* A process that opens a session starts a session of the promise.
LEMMA SessionStarts ==
  ASSUME Timing, CoordinatorInv, NEW p \in Procs, ClaimReturns(p), reply[p].kind = "held"
  PROVE  Promise!Start(p)
<1> USE LeaseAssumption, CoordinatorAssumption
<1>1. row.owner = p /\ row.token = reply[p].token /\ last.token <= row.token
      /\ (last.token = row.token => last.proc = p)
  BY DEF CoordinatorInv, AnswerHolds, LastBehind
<1>2. \A q \in Procs : ~Live(q)
  BY <1>1 DEF CoordinatorInv, LeaseOutlastsSession, Control, ClaimReturns
<1>3. session' = [session EXCEPT ![p] = [state |-> "live", token |-> reply[p].token,
                                         left  |-> Rearmed(p), idle |-> age[p]]]
      /\ last' = [proc |-> p, token |-> reply[p].token]
  BY DEF ClaimReturns
<1>4. \A q \in Procs : session'[q].state = IF q = p THEN "live" ELSE session[q].state
  BY <1>3 DEF CoordinatorInv, CoordinatorTypeOK
<1>5. Active = {} /\ Active' = {p}
  BY <1>2, <1>4 DEF Live, Active
<1>6. last.token \in Nat /\ row.token \in Nat /\ last'.token = row.token /\ last'.proc = p
  BY <1>1, <1>3 DEF CoordinatorInv, CoordinatorTypeOK, Rows
<1> QED BY <1>1, <1>5, <1>6 DEF Promise!Start

\* When nothing but the session of p changes, and only by ending, the promise stops or stutters.
LEMMA SessionEnds ==
  ASSUME CoordinatorInv, NEW p \in Procs, last' = last,
         \A q \in Procs : q # p => session'[q].state = session[q].state,
         session'[p].state = "live" => session[p].state = "live"
  PROVE  [Promise!Next]_<<Active, last.proc, last.token>>
<1>1. CASE Live(p) <=> Live(p)'
  <2>1. \A q \in Procs : Live(q)' <=> Live(q)
    BY <1>1 DEF Live
  <2>2. Active' = Active
    BY <2>1 DEF Active
  <2> QED BY <2>2
<1>2. CASE Live(p) /\ ~Live(p)'
  <2>1. \A q \in Procs : Live(q) => q = p
    BY <1>2 DEF CoordinatorInv, LeaseOutlastsSession
  <2>2. Active = {p}
    BY <1>2, <2>1 DEF Active
  <2>3. \A q \in Procs : ~Live(q)'
    BY <1>2, <2>1 DEF Live
  <2>4. Active' = {}
    BY <2>3 DEF Active
  <2>5. Promise!Stop(p)
    BY <2>2, <2>4 DEF Promise!Stop
  <2> QED BY <2>5 DEF Promise!Next
<1> QED BY <1>1, <1>2 DEF Live

\* Every step of the coordinator is a step or a stutter of the promise.
LEMMA PromiseStep ==
  ASSUME Timing, CoordinatorInv, [Next]_vars
  PROVE  [Promise!Next]_<<Active, last.proc, last.token>>
<1> USE DEF CoordinatorInv, CoordinatorTypeOK
<1>1. ASSUME NEW p \in Procs, ClaimReturns(p)
      PROVE  [Promise!Next]_<<Active, last.proc, last.token>>
  <2>1. CASE reply[p].kind = "held"
    BY <1>1, <2>1, SessionStarts DEF Promise!Next
  <2>2. CASE reply[p].kind # "held"
    BY <1>1, <2>2 DEF ClaimReturns, Live, Active
  <2> QED BY <2>1, <2>2
<1>2. ASSUME NEW p \in Procs,
             \/ Touch(p) \/ Claim(p) \/ Acquire(p) \/ CallFails(p) \/ Release(p)
             \/ Renew(p) \/ ReadToken(p) \/ Validate(p)
      PROVE  \A q \in Procs : session'[q].state = session[q].state /\ last' = last
  BY <1>2 DEF Touch, Claim, Acquire, CallFails, Release, Renew, ReadToken, Validate, Sessions
<1>3. ASSUME NEW p \in Procs,
             \/ TimerFires(p) \/ GiveUp(p) \/ ReleaseReturns(p) \/ RenewReturns(p)
             \/ Stop(p) \/ Crash(p)
      PROVE  /\ \A q \in Procs : q # p => session'[q].state = session[q].state
             /\ session'[p].state = "live" => session[p].state = "live"
             /\ last' = last
  BY <1>3 DEF TimerFires, GiveUp, ReleaseReturns, RenewReturns, Stop, Crash, Cancelled,
              NoSession, Sessions, Live
<1>4. CASE Tick
  <2>1. \A q \in Procs : session'[q].state = session[q].state
    BY <1>4, TickOne
  <2> QED BY <1>4, <2>1 DEF Tick, Live, Active
<1>5. CASE UNCHANGED vars
  BY <1>5 DEF vars, Live, Active
<1> QED
  BY <1>1, <1>2, <1>3, <1>4, <1>5, SessionEnds DEF Next, Step

\* Sessions never overlap and a new process has a larger token: the coordinator
\* keeps the promise of ExclusiveSession.
THEOREM CoordinatorExclusive == ASSUME Timing PROVE Spec => ImplementsExclusiveSession
<1>1. Init => Promise!Init
  BY DEF Init, Promise!Init, NoSession, Live, Active
<1>2. CoordinatorInv /\ [Next]_vars =>
        [Promise!Next]_<<Active, last.proc, last.token>>
  BY PromiseStep
<1> QED
  BY <1>1, <1>2, CoordinatorInvariant, PTL DEF Spec, ImplementsExclusiveSession, Promise!Spec
=============================================================================
