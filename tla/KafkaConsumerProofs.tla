------------------------ MODULE KafkaConsumerProofs ------------------------
(***************************************************************************)
(* For every number of partitions, lanes, messages, crashes and rebalances, *)
(* and whatever the other members of the group do: the consumer commits     *)
(* only over settled messages, the offset of a partition that it alone has  *)
(* read only moves forward, and it implements CommitLog.                    *)
(***************************************************************************)
EXTENDS KafkaConsumer, TLAPS

\* Every offset below n of partition p is settled.
SettledBelow(p, n) == \A o \in Offsets : o < n => <<p, o>> \in settled

\* What the tracker has recorded as finished was settled first.
DoneSettled ==
    /\ \A p \in Partitions : \A o \in done[p] : <<p, o>> \in settled
    /\ \A l \in Lanes : stage[l] = "finished" => cur[l] \in settled

\* Every offset the reader has passed is settled or still pending, and it is
\* pending in front of every larger pending offset that depends on it.
PendingCovers ==
    \A p \in Partitions : \A o \in Offsets : <<p, o>> \in settled \/
        /\ o < position[p] => \E i \in 1 .. Len(pending[p]) : pending[p][i] = o
        /\ \A k \in 1 .. Len(pending[p]) :
              o < pending[p][k] => \E i \in 1 .. k - 1 : pending[p][i] = o

\* The three places a commit point passes through on its way to the broker.
CommitPoints ==
    \A p \in Partitions : /\ SettledBelow(p, lastDone[p] + 1)
                          /\ SettledBelow(p, batch[p] + 1)
                          /\ SettledBelow(p, group[p])

\* The inductive invariant behind CommitNeverSkips.
CommitInv == DoneSettled /\ PendingCovers /\ CommitPoints

\* Of a partition nobody else has read: a reader that has committed nothing has
\* fetched nothing below the group's offset; one that has committed knows exactly
\* where the group stands.
ReaderAhead ==
    \A p \in Partitions \ shared :
        /\ committed[p] = -1 =>
              /\ position[p] >= group[p]
              /\ \A i \in 1 .. Len(pending[p]) : pending[p][i] >= group[p]
              /\ lastDone[p] # -1 => lastDone[p] >= group[p]
        /\ committed[p] # -1 => group[p] = committed[p] + 1
        /\ batch[p] # -1 => batch[p] > committed[p] /\ batch[p] >= group[p]
----------------------------------------------------------------------------
\* The initial state is well typed.
LEMMA InitType == Init => TypeOK
  BY ConsumerAssumption DEF Init, TypeOK, Offsets, NoBatch

\* finish keeps the tracker well typed.
LEMMA FinishType ==
  ASSUME TypeOK, NEW p \in Partitions, NEW o \in Offsets, finish(p, o)
  PROVE  /\ pending' \in [Partitions -> Seq(Offsets)]
         /\ done' \in [Partitions -> SUBSET Offsets]
         /\ lastDone' \in [Partitions -> Offsets \cup {-1}]
         /\ committed' = committed
<1> DEFINE pend == pending[p]
           dn   == done[p] \cup {o}
<1>1. pend \in Seq(Offsets) /\ Len(pend) \in Nat
  BY DEF TypeOK
<1>2. PICK n \in 0 .. Len(pend) :
          /\ pending' = [pending EXCEPT ![p] = SubSeq(pend, n + 1, Len(pend))]
          /\ done' = [done EXCEPT ![p] = dn \ {pend[i] : i \in 1 .. n}]
          /\ lastDone' = IF n = 0 THEN lastDone ELSE [lastDone EXCEPT ![p] = pend[n]]
          /\ UNCHANGED committed
  BY DEF finish
<1>3. SubSeq(pend, n + 1, Len(pend)) \in Seq(Offsets)
  BY <1>1
<1>4. n # 0 => pend[n] \in Offsets
  BY <1>1
<1> QED BY <1>2, <1>3, <1>4 DEF TypeOK

\* A commit keeps the tracker and the group offsets well typed.
LEMMA CommitType ==
  ASSUME TypeOK, CommitMessages
  PROVE  group' \in [Partitions -> 0 .. LogLen]
<1>1. ASSUME NEW p \in Partitions
      PROVE  (IF batch[p] > -1 THEN batch[p] + 1 ELSE group[p]) \in 0 .. LogLen
  <2>1. batch[p] \in Offsets \cup {-1} /\ group[p] \in 0 .. LogLen /\ LogLen \in Nat
    BY ConsumerAssumption DEF TypeOK
  <2> QED BY <2>1 DEF Offsets
<1> QED BY <1>1 DEF CommitMessages

\* Every step of the consumer keeps the type invariant.
LEMMA NextType == TypeOK /\ [Next]_vars => TypeOK'
<1> SUFFICES ASSUME TypeOK, [Next]_vars PROVE TypeOK'
  OBVIOUS
<1> USE ConsumerAssumption DEF TypeOK, lanes, worker, tracker, broker, bounds, members
<1>1. ASSUME NEW p \in Partitions, Fetch(p) PROVE TypeOK'
  <2>1. position[p] \in Offsets /\ position[p] + 1 \in 0 .. LogLen
    BY <1>1 DEF Fetch, Offsets
  <2>2. <<p, position[p]>> \in Messages
    BY <2>1 DEF Messages
  <2>3. pending' \in [Partitions -> Seq(Offsets)]
    BY <1>1, <2>1 DEF Fetch, start
  <2> QED BY <1>1, <2>1, <2>2, <2>3 DEF Fetch, start
<1>2. ASSUME NEW p \in Partitions, Rebalance(p) PROVE TypeOK'
  BY <1>2 DEF Rebalance
<1>22. ASSUME NEW p \in Partitions, Taken(p) PROVE TypeOK'
  BY <1>22 DEF Taken
<1>23. ASSUME NEW p \in Partitions, Returned(p) PROVE TypeOK'
  BY <1>23 DEF Returned
<1>21. ASSUME NEW p \in Partitions, NEW o \in Offsets, OtherSettles(p, o) \/ OtherCommits(p, o)
      PROVE  TypeOK'
  <2>1. o + 1 \in 0 .. LogLen
    BY DEF Offsets
  <2>2. <<p, o>> \in Messages
    BY DEF Messages
  <2> QED BY <1>21, <2>1, <2>2 DEF OtherSettles, OtherCommits
<1>3. CASE Enqueue
  <2>1. handoff \in Messages /\ laneFor(handoff) \in Lanes
    BY <1>3 DEF Enqueue, laneFor
  <2> QED BY <1>3, <2>1 DEF Enqueue
<1>4. CASE FetchError
  BY <1>4 DEF FetchError, Fault
<1>5. CASE Shutdown
  BY <1>5 DEF Shutdown, Fault
<1>6. ASSUME NEW l \in Lanes, Take(l) PROVE TypeOK'
  <2>1. Head(queues[l]) \in Messages /\ Tail(queues[l]) \in Seq(Messages)
    BY <1>6 DEF Take
  <2> QED BY <1>6, <2>1, SMTT(30) DEF Take, Become
<1>7. ASSUME NEW l \in Lanes, HandleOk(l) PROVE TypeOK'
  BY <1>7 DEF HandleOk
<1>8. ASSUME NEW l \in Lanes, HandlePermanent(l) PROVE TypeOK'
  BY <1>8 DEF HandlePermanent
<1>9. ASSUME NEW l \in Lanes, HandleTransient(l) PROVE TypeOK'
  <2>1. ~GivesUp(l) => attempt[l] + 1 \in 0 .. BlockAttempts
    BY DEF GivesUp
  <2> QED BY <1>9, <2>1, ZenonT(60) DEF HandleTransient
<1>10. ASSUME NEW l \in Lanes, DeadLetter(l) PROVE TypeOK'
  BY <1>10 DEF DeadLetter
<1>11. ASSUME NEW l \in Lanes, Unsettled(l) PROVE TypeOK'
  BY <1>11 DEF Unsettled, Become
<1>12. ASSUME NEW l \in Lanes, Finish(l) PROVE TypeOK'
  <2>1. cur[l][1] \in Partitions /\ cur[l][2] \in Offsets
    BY <1>12 DEF Finish, Messages
  <2>2. /\ pending' \in [Partitions -> Seq(Offsets)]
        /\ done' \in [Partitions -> SUBSET Offsets]
        /\ lastDone' \in [Partitions -> Offsets \cup {-1}]
        /\ committed' = committed
    BY <1>12, <2>1, FinishType DEF Finish
  <2> QED BY <1>12, <2>2 DEF Finish, Become
<1>13. CASE CommitTick
  BY <1>13 DEF CommitTick, ready
<1>14. CASE CommitReady
  <2>1. group' \in [Partitions -> 0 .. LogLen]
    BY <1>14, CommitType DEF CommitReady
  <2>2. committed' \in [Partitions -> Offsets \cup {-1}]
    BY <1>14 DEF CommitReady
  <2> QED BY <1>14, <2>1, <2>2 DEF CommitReady, NoBatch
<1>15. CASE StartFinal
  BY <1>15 DEF StartFinal, ready
<1>16. CASE FinalCommit
  <2>1. group' \in [Partitions -> 0 .. LogLen]
    BY <1>16, CommitType DEF FinalCommit
  <2> QED BY <1>16, <2>1 DEF FinalCommit, ResetMemory, NoBatch
<1>17. CASE FinalTimeout
  BY <1>17 DEF FinalTimeout, ResetMemory, NoBatch
<1>18. CASE NewReader
  BY <1>18 DEF NewReader
<1>19. CASE Crash
  BY <1>19 DEF Crash, ResetMemory, Fault, NoBatch
<1>20. CASE UNCHANGED vars
  BY <1>20 DEF vars
<1> QED
  BY <1>1, <1>2, <1>3, <1>4, <1>5, <1>6, <1>7, <1>8, <1>9, <1>10, <1>11, <1>12,
     <1>13, <1>14, <1>15, <1>16, <1>17, <1>18, <1>19, <1>20, <1>21, <1>22, <1>23
  DEF Next, Group, Lane, Handle, Commits

\* Every variable of the consumer keeps its type in every reachable state.
THEOREM ConsumerTypeCorrect == Spec => []TypeOK
<1>1. Init => TypeOK
  BY InitType
<1>2. TypeOK /\ [Next]_vars => TypeOK'
  BY NextType
<1> QED BY <1>1, <1>2, PTL DEF Spec
----------------------------------------------------------------------------
(* The offset tracker: what finish does to the popped prefix. *)

\* finish pops a prefix of pending whose offsets are all finished.
LEMMA FinishPops ==
  ASSUME TypeOK, NEW p \in Partitions, NEW o \in Offsets, finish(p, o)
  PROVE  \E n \in 0 .. Len(pending[p]) :
            /\ \A i \in 1 .. n : pending[p][i] \in done[p] \cup {o}
            /\ Len(pending'[p]) = Len(pending[p]) - n
            /\ \A i \in 1 .. Len(pending[p]) - n : pending'[p][i] = pending[p][i + n]
            /\ done'[p] \subseteq done[p] \cup {o}
            /\ lastDone'[p] = IF n = 0 THEN lastDone[p] ELSE pending[p][n]
            /\ \A q \in Partitions \ {p} : /\ pending'[q] = pending[q]
                                           /\ done'[q] = done[q]
                                           /\ lastDone'[q] = lastDone[q]
<1> DEFINE pend == pending[p]
           dn   == done[p] \cup {o}
<1>1. pend \in Seq(Offsets) /\ Len(pend) \in Nat
  BY DEF TypeOK
<1>2. PICK n \in 0 .. Len(pend) :
          /\ Poppable(pend, dn, n)
          /\ pending' = [pending EXCEPT ![p] = SubSeq(pend, n + 1, Len(pend))]
          /\ done' = [done EXCEPT ![p] = dn \ {pend[i] : i \in 1 .. n}]
          /\ lastDone' = IF n = 0 THEN lastDone ELSE [lastDone EXCEPT ![p] = pend[n]]
  BY DEF finish
<1>3. \A i \in 1 .. n : pend[i] \in dn
  BY <1>2 DEF Poppable
<1> DEFINE rest == SubSeq(pend, n + 1, Len(pend))
<1>4. /\ Len(rest) = Len(pend) - n
      /\ \A i \in 1 .. Len(pend) - n : rest[i] = pend[i + n]
  BY <1>1, <1>2, SMTT(30)
<1>5. /\ pending'[p] = rest
      /\ done'[p] \subseteq dn
      /\ lastDone'[p] = IF n = 0 THEN lastDone[p] ELSE pend[n]
      /\ \A q \in Partitions \ {p} : /\ pending'[q] = pending[q]
                                     /\ done'[q] = done[q]
                                     /\ lastDone'[q] = lastDone[q]
  BY <1>2 DEF TypeOK
<1> QED BY <1>2, <1>3, <1>4, <1>5, ZenonT(60)

\* Finishing a settled message keeps the tracker's part of the invariant.
LEMMA FinishKeeps ==
  ASSUME TypeOK, TypeOK', CommitInv, NEW p \in Partitions, NEW o \in Offsets,
         <<p, o>> \in settled, finish(p, o), UNCHANGED <<position, settled>>
  PROVE  /\ \A q \in Partitions : \A x \in done'[q] : <<q, x>> \in settled
         /\ PendingCovers'
         /\ \A q \in Partitions : SettledBelow(q, lastDone'[q] + 1)
<1>1. PICK n \in 0 .. Len(pending[p]) :
            /\ \A i \in 1 .. n : pending[p][i] \in done[p] \cup {o}
            /\ Len(pending'[p]) = Len(pending[p]) - n
            /\ \A i \in 1 .. Len(pending[p]) - n : pending'[p][i] = pending[p][i + n]
            /\ done'[p] \subseteq done[p] \cup {o}
            /\ lastDone'[p] = IF n = 0 THEN lastDone[p] ELSE pending[p][n]
            /\ \A q \in Partitions \ {p} : /\ pending'[q] = pending[q]
                                           /\ done'[q] = done[q]
                                           /\ lastDone'[q] = lastDone[q]
  BY FinishPops
<1> DEFINE pend == pending[p]
<1>2. Len(pend) \in Nat /\ \A i \in 1 .. Len(pend) : pend[i] \in Offsets
  BY DEF TypeOK
<1>3. \A i \in 1 .. n : <<p, pend[i]>> \in settled
  BY <1>1 DEF CommitInv, DoneSettled
<1>4. \A q \in Partitions : \A x \in done'[q] : <<q, x>> \in settled
  BY <1>1 DEF CommitInv, DoneSettled
<1>5. ASSUME NEW x \in Offsets, <<p, x>> \notin settled
      PROVE  /\ x < position[p] => \E i \in 1 .. Len(pending'[p]) : pending'[p][i] = x
             /\ \A k \in 1 .. Len(pending'[p]) :
                   x < pending'[p][k] => \E i \in 1 .. k - 1 : pending'[p][i] = x
  <2>1. \A i \in 1 .. n : pend[i] # x
    BY <1>3, <1>5
  <2>2. ASSUME x < position[p]
        PROVE  \E i \in 1 .. Len(pending'[p]) : pending'[p][i] = x
    <3>1. PICK i \in 1 .. Len(pend) : pend[i] = x
      BY <1>5, <2>2 DEF CommitInv, PendingCovers
    <3>2. i > n
      BY <2>1, <3>1
    <3>3. i - n \in 1 .. Len(pend) - n /\ pending'[p][i - n] = x
      BY <1>1, <1>2, <3>1, <3>2
    <3> QED BY <1>1, <3>3
  <2>3. ASSUME NEW k \in 1 .. Len(pending'[p]), x < pending'[p][k]
        PROVE  \E i \in 1 .. k - 1 : pending'[p][i] = x
    <3>1. k + n \in 1 .. Len(pend) /\ x < pend[k + n]
      BY <1>1, <1>2, <2>3
    <3>0. \A j \in 1 .. Len(pend) : x < pend[j] => \E i \in 1 .. j - 1 : pend[i] = x
      BY <1>5 DEF CommitInv, PendingCovers
    <3>2. PICK i \in 1 .. k + n - 1 : pend[i] = x
      BY <3>0, <3>1
    <3>3. i > n
      BY <2>1, <3>2, <1>1, SMTT(30)
    <3>4. i - n \in 1 .. k - 1 /\ pending'[p][i - n] = x
      BY <1>1, <1>2, <3>1, <3>2, <3>3, SMTT(30)
    <3> QED BY <3>4
  <2> QED BY <2>2, <2>3
<1>6. PendingCovers'
  <2> SUFFICES ASSUME NEW q \in Partitions, NEW x \in Offsets, <<q, x>> \notin settled
               PROVE  /\ x < position[q] =>
                            \E i \in 1 .. Len(pending'[q]) : pending'[q][i] = x
                      /\ \A k \in 1 .. Len(pending'[q]) :
                            x < pending'[q][k] => \E i \in 1 .. k - 1 : pending'[q][i] = x
    BY DEF PendingCovers
  <2>1. CASE q = p
    BY <1>5, <2>1
  <2>2. CASE q # p
    <3>1. pending'[q] = pending[q]
      BY <1>1, <2>2
    <3> QED BY <3>1 DEF CommitInv, PendingCovers
  <2> QED BY <2>1, <2>2
<1>7. ASSUME n # 0
      PROVE  SettledBelow(p, pend[n] + 1)
  <2> SUFFICES ASSUME NEW x \in Offsets, x < pend[n] + 1, <<p, x>> \notin settled
               PROVE  FALSE
    BY DEF SettledBelow
  <2>1. n \in 1 .. Len(pend) /\ pend[n] \in Offsets
    BY <1>1, <1>2, <1>7
  <2>2. x < pend[n]
    BY <1>3, <2>1, ConsumerAssumption DEF Offsets
  <2>3. PICK i \in 1 .. n - 1 : pend[i] = x
    BY <2>1, <2>2 DEF CommitInv, PendingCovers
  <2> QED BY <1>3, <2>3
<1>8. \A q \in Partitions : SettledBelow(q, lastDone'[q] + 1)
  BY <1>1, <1>7 DEF CommitInv, CommitPoints
<1> QED BY <1>4, <1>6, <1>8
----------------------------------------------------------------------------
(* CommitInv is inductive. *)

\* The commit invariant holds initially.
LEMMA CommitInit == Init => CommitInv
  BY ConsumerAssumption DEF Init, CommitInv, DoneSettled, PendingCovers, CommitPoints,
     SettledBelow, Offsets, NoBatch

\* A restart of the reader: nothing is in memory, and the group's offset holds.
LEMMA ResetKeeps ==
  ASSUME TypeOK, TypeOK', ResetMemory(group'), UNCHANGED settled,
         \A p \in Partitions : SettledBelow(p, group'[p])
  PROVE  CommitInv'
<1>1. DoneSettled'
  BY DEF ResetMemory, DoneSettled
<1>2. PendingCovers'
  <2> SUFFICES ASSUME NEW q \in Partitions, NEW x \in Offsets, <<q, x>> \notin settled'
               PROVE  /\ x < position'[q] =>
                            \E i \in 1 .. Len(pending'[q]) : pending'[q][i] = x
                      /\ \A k \in 1 .. Len(pending'[q]) :
                            x < pending'[q][k] => \E i \in 1 .. k - 1 : pending'[q][i] = x
    BY DEF PendingCovers
  <2>1. pending'[q] = <<>> /\ position'[q] = group'[q]
    BY DEF ResetMemory
  <2>2. ~(x < group'[q])
    BY DEF SettledBelow
  <2> QED BY <2>1, <2>2
<1>3. CommitPoints'
  <2>1. \A p \in Partitions : \A o \in Offsets : ~(o < 0)
    BY ConsumerAssumption DEF Offsets
  <2> QED BY <2>1 DEF ResetMemory, CommitPoints, SettledBelow, NoBatch
<1> QED BY <1>1, <1>2, <1>3 DEF CommitInv

\* Settling one more message keeps everything but the lane's own stage.
LEMMA SettleKeeps ==
  ASSUME TypeOK, CommitInv, settled \subseteq settled',
         UNCHANGED <<position, pending, done, lastDone, batch, group>>
  PROVE  /\ \A p \in Partitions : \A o \in done'[p] : <<p, o>> \in settled'
         /\ PendingCovers' /\ CommitPoints'
<1>1. PendingCovers'
  <2> SUFFICES ASSUME NEW q \in Partitions, NEW x \in Offsets, <<q, x>> \notin settled'
               PROVE  /\ x < position'[q] =>
                            \E i \in 1 .. Len(pending'[q]) : pending'[q][i] = x
                      /\ \A k \in 1 .. Len(pending'[q]) :
                            x < pending'[q][k] => \E i \in 1 .. k - 1 : pending'[q][i] = x
    BY DEF PendingCovers
  <2>1. <<q, x>> \notin settled
    OBVIOUS
  <2> QED BY <2>1 DEF CommitInv, PendingCovers
<1>2. CommitPoints'
  BY DEF CommitInv, CommitPoints, SettledBelow
<1> QED BY <1>1, <1>2 DEF CommitInv, DoneSettled

\* A fetch, which records the offset before handing it over, keeps the commit invariant.
LEMMA FetchKeeps ==
  ASSUME TypeOK, CommitInv, NEW p \in Partitions, Fetch(p)
  PROVE  PendingCovers'
<1> DEFINE at   == position[p]
           pend == pending[p]
<1>1. /\ pend \in Seq(Offsets) /\ Len(pend) \in Nat /\ at \in Offsets
      /\ pending' = [pending EXCEPT ![p] = Append(pend, at)]
      /\ position' = [position EXCEPT ![p] = at + 1]
      /\ settled' = settled
  BY ConsumerAssumption DEF TypeOK, Fetch, start, broker, Offsets
<1> DEFINE new == Append(pend, at)
<1>2. /\ Len(new) = Len(pend) + 1 /\ new[Len(pend) + 1] = at
      /\ \A i \in 1 .. Len(pend) : new[i] = pend[i]
  BY <1>1
<1>3. ASSUME NEW x \in Offsets, <<p, x>> \notin settled
      PROVE  /\ x < at + 1 => \E i \in 1 .. Len(new) : new[i] = x
             /\ \A k \in 1 .. Len(new) :
                   x < new[k] => \E i \in 1 .. k - 1 : new[i] = x
  <2>1. x < at => \E i \in 1 .. Len(pend) : pend[i] = x
    BY <1>3 DEF CommitInv, PendingCovers
  <2>2. \A k \in 1 .. Len(pend) : x < pend[k] => \E i \in 1 .. k - 1 : pend[i] = x
    BY <1>3 DEF CommitInv, PendingCovers
  <2>3. x \in Int /\ at \in Int
    BY <1>1, ConsumerAssumption DEF Offsets
  <2>4. x < at + 1 => \E i \in 1 .. Len(new) : new[i] = x
    BY <1>1, <1>2, <2>1, <2>3
  <2>5. ASSUME NEW k \in 1 .. Len(new), x < new[k]
        PROVE  \E i \in 1 .. k - 1 : new[i] = x
    <3>1. CASE k \in 1 .. Len(pend)
      BY <1>1, <1>2, <2>2, <2>5, <3>1
    <3>2. CASE k = Len(pend) + 1
      BY <1>1, <1>2, <2>1, <2>5, <3>2
    <3> QED BY <1>1, <1>2, <3>1, <3>2
  <2> QED BY <2>4, <2>5
<1> SUFFICES ASSUME NEW q \in Partitions, NEW x \in Offsets, <<q, x>> \notin settled
             PROVE  /\ x < position'[q] =>
                          \E i \in 1 .. Len(pending'[q]) : pending'[q][i] = x
                    /\ \A k \in 1 .. Len(pending'[q]) :
                          x < pending'[q][k] => \E i \in 1 .. k - 1 : pending'[q][i] = x
  BY <1>1 DEF PendingCovers
<1>4. CASE q = p
  <2>1. pending'[q] = new /\ position'[q] = at + 1
    BY <1>1, <1>4 DEF TypeOK
  <2> QED BY <1>3, <1>4, <2>1
<1>5. CASE q # p
  <2>1. pending'[q] = pending[q] /\ position'[q] = position[q]
    BY <1>1, <1>5 DEF TypeOK
  <2> QED BY <2>1 DEF CommitInv, PendingCovers
<1> QED BY <1>4, <1>5

\* What CommitMessages tells the broker is covered by the batch.
LEMMA CommitCovers ==
  ASSUME TypeOK, CommitInv, CommitMessages
  PROVE  \A p \in Partitions : SettledBelow(p, group'[p])
<1> SUFFICES ASSUME NEW p \in Partitions
             PROVE  SettledBelow(p, group'[p])
  OBVIOUS
<1>1. group'[p] = IF batch[p] > -1 THEN batch[p] + 1 ELSE group[p]
  BY DEF CommitMessages
<1> QED BY <1>1 DEF CommitInv, CommitPoints

\* Every step keeps the commit invariant.
LEMMA CommitStep == TypeOK /\ TypeOK' /\ CommitInv /\ [Next]_vars => CommitInv'
<1> SUFFICES ASSUME TypeOK, TypeOK', CommitInv, [Next]_vars PROVE CommitInv'
  OBVIOUS
<1> USE DEF lanes, worker, tracker, broker, bounds, members
<1>1. ASSUME NEW p \in Partitions, Fetch(p) PROVE CommitInv'
  <2>1. DoneSettled' /\ CommitPoints'
    BY <1>1 DEF Fetch, start, CommitInv, DoneSettled, CommitPoints, SettledBelow
  <2> QED BY <1>1, <2>1, FetchKeeps DEF CommitInv
<1>2. CASE NewReader \/ \E p \in Partitions : Rebalance(p) \/ Returned(p)
  <2>1. DoneSettled' /\ CommitPoints'
    BY <1>2 DEF NewReader, Rebalance, Returned, CommitInv, DoneSettled, CommitPoints, SettledBelow
  <2>2. \A q \in Partitions : position'[q] \in {position[q], group[q]}
    BY <1>2 DEF NewReader, Rebalance, Returned, TypeOK
  <2>3. PendingCovers'
    <3> SUFFICES ASSUME NEW q \in Partitions, NEW x \in Offsets, <<q, x>> \notin settled'
                 PROVE  /\ x < position'[q] =>
                              \E i \in 1 .. Len(pending'[q]) : pending'[q][i] = x
                        /\ \A k \in 1 .. Len(pending'[q]) :
                              x < pending'[q][k] => \E i \in 1 .. k - 1 : pending'[q][i] = x
      BY DEF PendingCovers
    <3>1. <<q, x>> \notin settled /\ pending' = pending
      BY <1>2 DEF NewReader, Rebalance, Returned
    <3>2. ~(x < group[q])
      BY <3>1 DEF CommitInv, CommitPoints, SettledBelow
    <3> QED BY <2>2, <3>1, <3>2 DEF CommitInv, PendingCovers
  <2> QED BY <2>1, <2>3 DEF CommitInv
<1>3. CASE Enqueue \/ FetchError \/ Shutdown
  <2>1. UNCHANGED <<settled, position, pending, done, lastDone, batch, group, stage, cur>>
    BY <1>3 DEF Enqueue, FetchError, Shutdown
  <2> QED BY <2>1 DEF CommitInv, DoneSettled, PendingCovers, CommitPoints, SettledBelow
<1>4. ASSUME NEW l \in Lanes,
             Take(l) \/ HandlePermanent(l) \/ HandleTransient(l) \/ Unsettled(l)
      PROVE  CommitInv'
  <2>1. /\ UNCHANGED <<settled, position, pending, done, lastDone, batch, group>>
        /\ \A k \in Lanes : stage'[k] = "finished" => stage[k] = "finished" /\ cur'[k] = cur[k]
    BY <1>4 DEF Take, HandlePermanent, HandleTransient, Unsettled, Become, TypeOK
  <2> QED BY <2>1, SettleKeeps DEF CommitInv, DoneSettled
<1>5. ASSUME NEW l \in Lanes, HandleOk(l) \/ DeadLetter(l) PROVE CommitInv'
  <2>1. /\ UNCHANGED <<position, pending, done, lastDone, batch, group, cur>>
        /\ settled' = settled \cup {cur[l]}
        /\ \A k \in Lanes : stage'[k] = "finished" => stage[k] = "finished" \/ k = l
    BY <1>5 DEF HandleOk, DeadLetter, TypeOK
  <2> QED BY <2>1, SettleKeeps DEF CommitInv, DoneSettled
<1>6. ASSUME NEW l \in Lanes, Finish(l) PROVE CommitInv'
  <2>1. /\ cur[l][1] \in Partitions /\ cur[l][2] \in Offsets
        /\ <<cur[l][1], cur[l][2]>> \in settled
    <3>1. cur[l] \in Messages /\ cur[l] \in settled
      BY <1>6 DEF Finish, TypeOK, CommitInv, DoneSettled
    <3> QED BY <3>1 DEF Messages
  <2>2. /\ UNCHANGED <<settled, position, batch, group>>
        /\ \A k \in Lanes : stage'[k] = "finished" => stage[k] = "finished" /\ cur'[k] = cur[k]
    BY <1>6 DEF Finish, Become, TypeOK
  <2>3. /\ \A q \in Partitions : \A x \in done'[q] : <<q, x>> \in settled
        /\ PendingCovers'
        /\ \A q \in Partitions : SettledBelow(q, lastDone'[q] + 1)
    BY <1>6, <2>1, <2>2, FinishKeeps DEF Finish
  <2>4. DoneSettled'
    BY <2>2, <2>3 DEF CommitInv, DoneSettled
  <2>5. CommitPoints'
    BY <2>2, <2>3 DEF CommitInv, CommitPoints, SettledBelow
  <2> QED BY <2>3, <2>4, <2>5 DEF CommitInv
<1>7. CASE CommitTick \/ StartFinal
  <2>1. UNCHANGED <<settled, position, pending, done, lastDone, group, stage, cur>>
    BY <1>7 DEF CommitTick, StartFinal
  <2>2. \A p \in Partitions : batch'[p] \in {lastDone[p], -1}
    BY <1>7 DEF CommitTick, StartFinal, ready
  <2>3. \A p \in Partitions : SettledBelow(p, -1 + 1)
    BY ConsumerAssumption DEF SettledBelow, Offsets
  <2>4. CommitPoints'
    BY <2>1, <2>2, <2>3 DEF CommitInv, CommitPoints, SettledBelow
  <2> QED BY <2>1, <2>4 DEF CommitInv, DoneSettled, PendingCovers
<1>8. CASE CommitReady
  <2>1. /\ UNCHANGED <<settled, position, pending, done, lastDone, stage, cur>>
        /\ batch' = NoBatch
    BY <1>8 DEF CommitReady
  <2>2. \A p \in Partitions : SettledBelow(p, -1 + 1)
    BY ConsumerAssumption DEF SettledBelow, Offsets
  <2>3. CommitPoints'
    BY <1>8, <2>1, <2>2, CommitCovers
    DEF CommitReady, CommitInv, CommitPoints, SettledBelow, NoBatch
  <2> QED BY <2>1, <2>3 DEF CommitInv, DoneSettled, PendingCovers
<1>9. CASE FinalCommit
  BY <1>9, CommitCovers, ResetKeeps DEF FinalCommit
<1>10. CASE FinalTimeout \/ Crash
  <2>1. ResetMemory(group') /\ UNCHANGED <<settled, group>>
    BY <1>10 DEF FinalTimeout, Crash
  <2> QED BY <2>1, ResetKeeps DEF CommitInv, CommitPoints
<1>11. CASE UNCHANGED vars \/ \E p \in Partitions : Taken(p)
  <2>1. UNCHANGED <<settled, position, pending, done, lastDone, batch, group, stage, cur>>
    BY <1>11 DEF Taken, vars
  <2> QED BY <2>1 DEF CommitInv, DoneSettled, PendingCovers, CommitPoints, SettledBelow
<1>12. ASSUME NEW p \in Partitions, NEW o \in Offsets, OtherSettles(p, o) PROVE CommitInv'
  <2>1. /\ UNCHANGED <<position, pending, done, lastDone, batch, group, stage, cur>>
        /\ settled \subseteq settled'
    BY <1>12 DEF OtherSettles
  <2> QED BY <2>1, SettleKeeps DEF CommitInv, DoneSettled
<1>13. ASSUME NEW p \in Partitions, NEW o \in Offsets, OtherCommits(p, o) PROVE CommitInv'
  <2>1. UNCHANGED <<settled, position, pending, done, lastDone, batch, stage, cur>>
    BY <1>13 DEF OtherCommits
  <2>2. SettledBelow(p, o + 1)
    BY <1>13 DEF OtherCommits, SettledBelow, Offsets
  <2>3. \A q \in Partitions : group'[q] = group[q] \/ (q = p /\ group'[q] = o + 1)
    BY <1>13 DEF OtherCommits, TypeOK
  <2>4. CommitPoints'
    BY <2>1, <2>2, <2>3 DEF CommitInv, CommitPoints, SettledBelow
  <2> QED BY <2>1, <2>4 DEF CommitInv, DoneSettled, PendingCovers
<1> QED
  BY <1>1, <1>2, <1>3, <1>4, <1>5, <1>6, <1>7, <1>8, <1>9, <1>10, <1>11, <1>12, <1>13
  DEF Next, Group, Lane, Handle, Commits

\* "a crash can redeliver but never skip a message": the broker's offset never
\* passes a message that was neither handled nor dead-lettered.
THEOREM CommitSafety == Spec => []CommitNeverSkips
<1>1. Init => TypeOK /\ CommitInv
  BY InitType, CommitInit
<1>2. TypeOK /\ CommitInv /\ [Next]_vars => (TypeOK /\ CommitInv)'
  BY NextType, CommitStep
<1>3. CommitInv => CommitNeverSkips
  BY DEF CommitInv, CommitPoints, SettledBelow, CommitNeverSkips
<1> QED BY <1>1, <1>2, <1>3, PTL DEF Spec
----------------------------------------------------------------------------
(* Commits only move forward. *)

AheadVars == <<committed, position, pending, lastDone, batch, group, shared>>

\* The reader starts no earlier than the group offset.
LEMMA AheadInit == Init => ReaderAhead
  BY ConsumerAssumption DEF Init, ReaderAhead, Offsets, NoBatch

\* A new reader starts at the group offset.
LEMMA AheadReset ==
  ASSUME TypeOK', ResetMemory(group')
  PROVE  ReaderAhead'
<1> SUFFICES ASSUME NEW p \in Partitions
             PROVE  /\ committed'[p] = -1
                    /\ position'[p] >= group'[p]
                    /\ pending'[p] = <<>>
                    /\ lastDone'[p] = -1
                    /\ batch'[p] = -1
  BY DEF ReaderAhead
<1>1. group'[p] \in Int
  BY ConsumerAssumption DEF TypeOK
<1> QED BY <1>1 DEF ResetMemory, NoBatch

\* Every step keeps the reader at or after the committed offset.
LEMMA AheadStep == TypeOK /\ TypeOK' /\ ReaderAhead /\ [Next]_vars => ReaderAhead'
<1> SUFFICES ASSUME TypeOK, TypeOK', ReaderAhead, [Next]_vars PROVE ReaderAhead'
  OBVIOUS
<1> USE DEF lanes, worker, tracker, broker, bounds, members
<1>0. ASSUME NEW p \in Partitions
      PROVE  /\ position[p] \in Int /\ group[p] \in Int
             /\ committed[p] \in Int /\ lastDone[p] \in Int /\ batch[p] \in Int
             /\ batch[p] >= -1 /\ committed[p] >= -1
             /\ pending[p] \in Seq(Offsets) /\ Len(pending[p]) \in Nat
             /\ \A i \in 1 .. Len(pending[p]) : pending[p][i] \in Int
  <2>1. /\ position[p] \in 0 .. LogLen /\ group[p] \in 0 .. LogLen
        /\ committed[p] \in Offsets \cup {-1} /\ lastDone[p] \in Offsets \cup {-1}
        /\ batch[p] \in Offsets \cup {-1}
        /\ pending[p] \in Seq(Offsets) /\ LogLen \in Nat
    BY ConsumerAssumption DEF TypeOK
  <2>2. \A i \in 1 .. Len(pending[p]) : pending[p][i] \in Offsets
    BY <2>1
  <2>3. Len(pending[p]) \in Nat
    BY <2>1
  <2> QED BY <2>1, <2>2, <2>3, SMTT(30) DEF Offsets
<1>1. ASSUME NEW p \in Partitions, Fetch(p) PROVE ReaderAhead'
  <2>1. /\ UNCHANGED <<committed, lastDone, batch, group, shared>>
        /\ pending' = [pending EXCEPT ![p] = Append(@, position[p])]
        /\ position' = [position EXCEPT ![p] = @ + 1]
    BY <1>1 DEF Fetch, start
  <2>2. ASSUME NEW q \in Partitions \ shared, committed[q] = -1
        PROVE  /\ position'[q] >= group[q]
               /\ \A i \in 1 .. Len(pending'[q]) : pending'[q][i] >= group[q]
    <3>1. CASE q = p
      <4>1. pending'[q] = Append(pending[q], position[q]) /\ position'[q] = position[q] + 1
        BY <2>1, <3>1 DEF TypeOK
      <4> QED BY <1>0, <2>2, <4>1 DEF ReaderAhead
    <3>2. CASE q # p
      BY <2>1, <2>2, <3>2 DEF ReaderAhead, TypeOK
    <3> QED BY <3>1, <3>2
  <2> QED BY <2>1, <2>2 DEF ReaderAhead
<1>2. CASE NewReader \/ \E p \in Partitions : Rebalance(p) \/ Returned(p)
  <2>1. /\ UNCHANGED <<committed, pending, lastDone, batch, group, shared>>
        /\ \A q \in Partitions : position'[q] \in {position[q], group[q]}
    BY <1>2 DEF NewReader, Rebalance, Returned, TypeOK
  <2> QED BY <1>0, <2>1 DEF ReaderAhead
<1>3. ASSUME NEW l \in Lanes, Finish(l) PROVE ReaderAhead'
  <2> DEFINE p == cur[l][1]
             o == cur[l][2]
  <2>1. p \in Partitions /\ o \in Offsets
    BY <1>3 DEF Finish, TypeOK, Messages
  <2>2. UNCHANGED <<committed, position, batch, group, shared>> /\ finish(p, o)
    BY <1>3 DEF Finish, finish
  <2> HIDE DEF p, o
  <2>3. PICK n \in 0 .. Len(pending[p]) :
            /\ Len(pending'[p]) = Len(pending[p]) - n
            /\ \A i \in 1 .. Len(pending[p]) - n : pending'[p][i] = pending[p][i + n]
            /\ lastDone'[p] = IF n = 0 THEN lastDone[p] ELSE pending[p][n]
            /\ \A q \in Partitions \ {p} : /\ pending'[q] = pending[q]
                                           /\ done'[q] = done[q]
                                           /\ lastDone'[q] = lastDone[q]
    BY <2>1, <2>2, FinishPops
  <2>4. ASSUME NEW q \in Partitions \ shared, committed[q] = -1
        PROVE  /\ \A i \in 1 .. Len(pending'[q]) : pending'[q][i] >= group[q]
               /\ lastDone'[q] # -1 => lastDone'[q] >= group[q]
    <3>1. CASE q = p
      <4>1. \A i \in 1 .. Len(pending[q]) : pending[q][i] >= group[q]
        BY <2>4 DEF ReaderAhead
      <4>2. lastDone[q] # -1 => lastDone[q] >= group[q]
        BY <2>4 DEF ReaderAhead
      <4>3. Len(pending[q]) \in Nat
        BY <1>0
      <4>4. ASSUME NEW i \in 1 .. Len(pending'[p])
            PROVE  pending'[p][i] >= group[p]
        <5>1. i + n \in 1 .. Len(pending[p]) /\ pending'[p][i] = pending[p][i + n]
          BY <2>3, <3>1, <4>3
        <5> QED BY <3>1, <4>1, <5>1
      <4>5. lastDone'[p] # -1 => lastDone'[p] >= group[p]
        <5>1. n # 0 => n \in 1 .. Len(pending[p])
          BY <3>1, <4>3
        <5> QED BY <2>3, <3>1, <4>1, <4>2, <5>1
      <4> QED BY <3>1, <4>4, <4>5
    <3>2. CASE q # p
      BY <2>3, <2>4, <3>2 DEF ReaderAhead
    <3> QED BY <3>1, <3>2
  <2> QED BY <2>2, <2>4 DEF ReaderAhead
<1>4. CASE CommitTick \/ StartFinal
  <2>1. UNCHANGED <<committed, position, pending, lastDone, group, shared>> /\ batch' = ready
    BY <1>4 DEF CommitTick, StartFinal
  <2>2. ASSUME NEW p \in Partitions \ shared, batch'[p] # -1
        PROVE  batch'[p] > committed[p] /\ batch'[p] >= group[p]
    <3>1. batch'[p] = lastDone[p] /\ lastDone[p] > committed[p]
      BY <2>1, <2>2 DEF ready
    <3> QED BY <1>0, <2>2, <3>1 DEF ReaderAhead
  <2> QED BY <2>1, <2>2 DEF ReaderAhead
<1>5. CASE CommitReady
  <2> SUFFICES ASSUME NEW p \in Partitions \ shared
               PROVE  /\ batch'[p] = -1
                      /\ \/ committed'[p] # -1 /\ group'[p] = committed'[p] + 1
                         \/ committed'[p] = committed[p] /\ group'[p] = group[p]
    BY <1>5 DEF CommitReady, ReaderAhead
  <2>1. /\ batch'[p] = -1
        /\ group'[p] = IF batch[p] > -1 THEN batch[p] + 1 ELSE group[p]
        /\ committed'[p] = IF batch[p] > committed[p] THEN batch[p] ELSE committed[p]
    BY <1>5 DEF CommitReady, CommitMessages, NoBatch
  <2> QED BY <1>0, <2>1 DEF ReaderAhead
<1>6. CASE FinalCommit \/ FinalTimeout \/ Crash
  <2>1. ResetMemory(group')
    BY <1>6 DEF FinalCommit, FinalTimeout, Crash
  <2> QED BY <2>1, AheadReset
<1>7. CASE Enqueue \/ FetchError \/ Shutdown \/ UNCHANGED vars
  <2>1. UNCHANGED AheadVars
    BY <1>7 DEF Enqueue, FetchError, Shutdown, Fault, vars, AheadVars
  <2> QED BY <2>1 DEF ReaderAhead, AheadVars
<1>8. ASSUME NEW l \in Lanes,
             \/ Take(l) \/ HandleOk(l) \/ HandlePermanent(l) \/ HandleTransient(l)
             \/ DeadLetter(l) \/ Unsettled(l)
      PROVE  ReaderAhead'
  <2>1. UNCHANGED AheadVars
    BY <1>8 DEF Take, HandleOk, HandlePermanent, HandleTransient, DeadLetter, Unsettled,
                AheadVars
  <2> QED BY <2>1 DEF ReaderAhead, AheadVars
<1>9. ASSUME NEW p \in Partitions, NEW o \in Offsets,
             OtherSettles(p, o) \/ OtherCommits(p, o)
      PROVE  ReaderAhead'
  <2>1. /\ UNCHANGED <<committed, position, pending, lastDone, batch>>
        /\ shared \subseteq shared'
        /\ \A q \in Partitions \ shared' : group'[q] = group[q]
    BY <1>9 DEF OtherSettles, OtherCommits, TypeOK
  <2> QED BY <2>1 DEF ReaderAhead
<1>10. ASSUME NEW p \in Partitions, Taken(p) PROVE ReaderAhead'
  <2>1. UNCHANGED <<committed, position, pending, lastDone, batch, group>> /\ shared \subseteq shared'
    BY <1>10 DEF Taken
  <2> QED BY <2>1 DEF ReaderAhead
<1> QED
  BY <1>1, <1>2, <1>3, <1>4, <1>5, <1>6, <1>7, <1>8, <1>9, <1>10 DEF Next, Group, Lane, Handle, Commits

\* A commit never moves back the offset of a partition this member alone has read.
LEMMA CommitForward ==
  ASSUME TypeOK, ReaderAhead, CommitMessages
  PROVE  \A p \in Partitions \ shared : group[p] <= group'[p]
<1> SUFFICES ASSUME NEW p \in Partitions \ shared PROVE group[p] <= group'[p]
  OBVIOUS
<1>1. group'[p] = IF batch[p] > -1 THEN batch[p] + 1 ELSE group[p]
  BY DEF CommitMessages
<1>2. batch[p] \in Int /\ group[p] \in Int
  BY ConsumerAssumption DEF TypeOK, Offsets
<1> QED BY <1>1, <1>2 DEF ReaderAhead

----------------------------------------------------------------------------
(* The consumer implements the abstract commit log. *)

ConsumerInv == TypeOK /\ CommitInv /\ ReaderAhead

\* The inductive invariant of the consumer: types, the tracker against the settled messages, the reader ahead of the group.
LEMMA ConsumerInvariant == Spec => []ConsumerInv
<1>1. Init => ConsumerInv
  BY InitType, CommitInit, AheadInit DEF ConsumerInv
<1>2. ConsumerInv /\ [Next]_vars => ConsumerInv'
  BY NextType, CommitStep, AheadStep DEF ConsumerInv
<1> QED BY <1>1, <1>2, PTL DEF Spec

\* A commit request of the consumer is a Commit of the abstract log.
LEMMA LogCommit ==
  ASSUME ConsumerInv, ConsumerInv', CommitMessages, UNCHANGED <<settled, shared>>
  PROVE  Log!Commit
<1>1. group' \in [Partitions -> 0 .. LogLen]
  BY DEF ConsumerInv, TypeOK
<1>2. \A p \in Partitions \ shared : group[p] <= group'[p]
  BY CommitForward DEF ConsumerInv
<1>3. \A p \in Partitions : \A o \in 0 .. LogLen - 1 : o < group'[p] => <<p, o>> \in settled
  BY CommitCovers DEF ConsumerInv, SettledBelow, Offsets
<1> QED BY <1>1, <1>2, <1>3 DEF Log!Commit

\* Every step of the consumer is a step or a stutter of the abstract log.
LEMMA LogStep ==
  ASSUME ConsumerInv, ConsumerInv', [Next]_vars
  PROVE  [Log!Next]_<<settled, group, shared>>
<1> USE DEF lanes, worker, tracker, broker, bounds, members
<1>1. ASSUME NEW l \in Lanes, HandleOk(l) \/ DeadLetter(l)
      PROVE  Log!Next
  <2>1. cur[l] \in Log!Messages
    BY <1>1 DEF HandleOk, DeadLetter, ConsumerInv, TypeOK, Log!Messages, Messages, Offsets
  <2>2. Log!Settle(cur[l])
    BY <1>1 DEF HandleOk, DeadLetter, Log!Settle
  <2> QED BY <2>1, <2>2 DEF Log!Next
<1>2. CASE CommitReady \/ FinalCommit
  BY <1>2, LogCommit DEF CommitReady, FinalCommit, Log!Next
<1>3. ASSUME NEW l \in Lanes,
             Take(l) \/ HandlePermanent(l) \/ HandleTransient(l) \/ Unsettled(l) \/ Finish(l)
      PROVE  UNCHANGED <<settled, group, shared>>
  BY <1>3 DEF Take, HandlePermanent, HandleTransient, Unsettled, Finish
<1>4. ASSUME NEW p \in Partitions, Fetch(p) \/ Rebalance(p) \/ Returned(p)
      PROVE  UNCHANGED <<settled, group, shared>>
  BY <1>4 DEF Fetch, Rebalance, Returned
<1>5. CASE \/ Enqueue \/ FetchError \/ Shutdown \/ NewReader \/ Crash
           \/ CommitTick \/ StartFinal \/ FinalTimeout \/ UNCHANGED vars
  <2>1. UNCHANGED <<settled, group, shared>>
    BY <1>5 DEF Enqueue, FetchError, Shutdown, NewReader, Crash, CommitTick, StartFinal,
                FinalTimeout, Fault, vars
  <2> QED BY <2>1
<1>6. ASSUME NEW p \in Partitions, NEW o \in Offsets, OtherSettles(p, o) PROVE Log!Next
  <2>1. <<p, o>> \in Log!Messages
    BY DEF Log!Messages, Offsets
  <2>2. Log!Settle(<<p, o>>)
    BY <1>6 DEF OtherSettles, Log!Settle
  <2> QED BY <2>1, <2>2 DEF Log!Next
<1>7. ASSUME NEW p \in Partitions, NEW o \in Offsets, OtherCommits(p, o) PROVE Log!Next
  <2>1. group' \in [Partitions -> 0 .. LogLen] /\ group \in [Partitions -> 0 .. LogLen]
    BY DEF ConsumerInv, TypeOK
  <2>2. \A q \in Partitions \ shared : group'[q] = group[q] /\ group[q] <= group'[q]
    BY <1>7, <2>1, ConsumerAssumption DEF OtherCommits
  <2>3. \A q \in Partitions : \A x \in 0 .. LogLen - 1 : x < group'[q] => <<q, x>> \in settled
    BY <1>7 DEF ConsumerInv, CommitInv, CommitPoints, SettledBelow, Offsets, OtherCommits
  <2>4. UNCHANGED <<settled, shared>>
    BY <1>7 DEF OtherCommits
  <2> QED BY <2>1, <2>2, <2>3, <2>4 DEF Log!Commit, Log!Next
<1>8. ASSUME NEW p \in Partitions, Taken(p) PROVE Log!Next
  BY <1>8 DEF Taken, Log!Share, Log!Next
<1> QED
  BY <1>1, <1>2, <1>3, <1>4, <1>5, <1>6, <1>7, <1>8 DEF Next, Group, Lane, Handle, Commits

\* Lanes, retries, dead letters, crashes, rebalances and the other members included,
\* the group is a commit log: messages settle, and the offset lies behind settled ones
\* and goes back only where a second member has read.
THEOREM ConsumerImplementsLog == Spec => ImplementsLog
<1>1. Init => Log!Init
  BY DEF Init, Log!Init
<1>2. ConsumerInv /\ ConsumerInv' /\ [Next]_vars => [Log!Next]_<<settled, group, shared>>
  BY LogStep
<1> QED BY <1>1, <1>2, ConsumerInvariant, PTL DEF Spec, ImplementsLog, Log!Spec

\* The committed offset of a partition that no other member has read never goes back,
\* also when offsets fetched again after a rebalance finish late.
THEOREM CommitsMoveForward == Spec => CommitsNeverRegress
<1>1. ConsumerInv /\ ConsumerInv' /\ [Next]_vars =>
          [\A p \in Partitions \ shared : group'[p] >= group[p]]_<<group, shared>>
  <2> SUFFICES ASSUME ConsumerInv, ConsumerInv', [Next]_vars, NEW p \in Partitions \ shared
               PROVE  group'[p] >= group[p]
    OBVIOUS
  <2>1. \A q \in Partitions : group[q] \in Int /\ group'[q] \in Int
    BY ConsumerAssumption DEF ConsumerInv, TypeOK
  <2>2. CASE group' = group
    BY <2>1, <2>2
  <2>3. CASE group' # group
    <3>1. Log!Commit
      BY <2>3, LogStep DEF Log!Next, Log!Settle, Log!Share
    <3> QED BY <2>1, <3>1 DEF Log!Commit
  <2> QED BY <2>2, <2>3
<1> QED BY <1>1, ConsumerInvariant, PTL DEF Spec, CommitsNeverRegress
----------------------------------------------------------------------------
(* Messages of one key settle in log order.                                  *)

\* m comes before n in the log and has its key.
Earlier(m, n) == m[1] = n[1] /\ m[2] < n[2] /\ KeyOf[m] = KeyOf[n]

\* Lane l is at m, or has it in one of the k places at the front of its channel.
InFront(m, l, k) ==
    (stage[l] # "idle" /\ cur[l] = m) \/ \E i \in 1 .. k : queues[l][i] = m

Waits(m) == InFront(m, laneFor(m), Len(queues[laneFor(m)]))

\* A message that is not settled waits, once fetched, in its lane or at its entrance, ...
FetchedWaits(m) == mode \in {"consuming", "down"} /\ m[2] < position[m[1]] => handoff = m \/ Waits(m)

\* ... and stands in front of each later message of its key, ...
FrontOfEntrance(m) == handoff # None /\ Earlier(m, handoff) => Waits(m)
FrontOfQueued(m) ==
    \A l \in Lanes : \A k \in 1 .. Len(queues[l]) : Earlier(m, queues[l][k]) => InFront(m, l, k - 1)

\* ... none of which is being handled.
FrontOfHandled(m) == \A l \in Lanes : stage[l] # "idle" => ~Earlier(m, cur[l])

LaneOrder ==
    \A m \in Messages \ settled :
        FetchedWaits(m) /\ FrontOfEntrance(m) /\ FrontOfQueued(m) /\ FrontOfHandled(m)

\* Nobody waits at the entrance of a lane unless messages are fetched.
EntranceClosed == mode # "consuming" => handoff = None

\* The inductive invariant behind KeyOrder.
OrderInv == LaneOrder /\ EntranceClosed /\ KeyOrder

\* A message as the pair of its partition and offset.
LEMMA MessageParts ==
  ASSUME NEW m \in Messages
  PROVE  m[1] \in Partitions /\ m[2] \in Offsets /\ m = <<m[1], m[2]>> /\ m # None
BY DEF Messages, None

\* The lanes hold what they held, and perhaps more is settled.
LEMMA LanesKeep ==
  ASSUME LaneOrder, settled \subseteq settled', UNCHANGED <<position, handoff, queues, cur>>,
         \A l \in Lanes : stage'[l] # "idle" <=> stage[l] # "idle",
         mode' \in {"consuming", "down"} => mode \in {"consuming", "down"},
         TypeOK
  PROVE  LaneOrder'
<1> SUFFICES ASSUME NEW m \in Messages, m \notin settled'
             PROVE  (FetchedWaits(m) /\ FrontOfEntrance(m) /\ FrontOfQueued(m) /\ FrontOfHandled(m))'
  BY DEF LaneOrder
<1>1. FetchedWaits(m) /\ FrontOfEntrance(m) /\ FrontOfQueued(m) /\ FrontOfHandled(m)
  BY DEF LaneOrder
<1>2. laneFor(m) \in Lanes
  BY ConsumerAssumption DEF laneFor
<1>3. \A l \in Lanes : \A k : InFront(m, l, k)' <=> InFront(m, l, k)
  BY DEF InFront
<1>4. Waits(m)' <=> Waits(m)
  BY <1>2, <1>3 DEF Waits, laneFor
<1>5. FetchedWaits(m)' /\ FrontOfEntrance(m)'
  BY <1>1, <1>4 DEF FetchedWaits, FrontOfEntrance, Earlier
<1>6. FrontOfQueued(m)'
  BY <1>1, <1>3 DEF FrontOfQueued, Earlier
<1>7. FrontOfHandled(m)'
  BY <1>1 DEF FrontOfHandled, Earlier
<1> QED BY <1>5, <1>6, <1>7

\* A new reader has nothing in its lanes, and starts behind settled messages only.
LEMMA LanesReset ==
  ASSUME TypeOK, CommitInv', ResetMemory(group'), UNCHANGED settled
  PROVE  LaneOrder'
<1> SUFFICES ASSUME NEW m \in Messages, m \notin settled'
             PROVE  (FetchedWaits(m) /\ FrontOfEntrance(m) /\ FrontOfQueued(m) /\ FrontOfHandled(m))'
  BY DEF LaneOrder
<1>1. FrontOfEntrance(m)' /\ FrontOfQueued(m)' /\ FrontOfHandled(m)'
  BY DEF ResetMemory, FrontOfEntrance, FrontOfQueued, FrontOfHandled
<1>2. ~(m[2] < position'[m[1]])
  <2>1. SettledBelow(m[1], group[m[1]])'
    BY MessageParts DEF CommitInv, CommitPoints
  <2>2. position'[m[1]] = group'[m[1]]
    BY DEF ResetMemory
  <2> QED BY <2>1, <2>2, MessageParts DEF SettledBelow
<1> QED BY <1>1, <1>2 DEF FetchedWaits

\* A lane takes the head of its channel, in front of which nobody stands.
LEMMA TakeOrders ==
  ASSUME TypeOK, LaneOrder, NEW l \in Lanes, Take(l)
  PROVE  LaneOrder'
<1>q. PICK q \in Seq(Messages) : q = queues[l]
  BY DEF TypeOK
<1>0. /\ stage[l] = "idle" /\ q # <<>>
      /\ stage' = [stage EXCEPT ![l] = "handling"] /\ cur' = [cur EXCEPT ![l] = Head(q)]
      /\ queues' = [queues EXCEPT ![l] = Tail(q)]
      /\ UNCHANGED <<mode, position, handoff, settled>>
  BY <1>q DEF Take, Become, TypeOK, broker
<1>1. /\ Len(q) \in Nat \ {0} /\ Head(q) = q[1]
      /\ Len(Tail(q)) = Len(q) - 1
      /\ \A i \in 1 .. Len(q) - 1 : Tail(q)[i] = q[i + 1]
  BY <1>0
<1>2. /\ stage'[l] = "handling" /\ cur'[l] = q[1] /\ queues'[l] = Tail(q)
      /\ \A k \in Lanes : k # l => stage'[k] = stage[k] /\ cur'[k] = cur[k] /\ queues'[k] = queues[k]
  BY <1>0, <1>1 DEF TypeOK
<1> SUFFICES ASSUME NEW m \in Messages, m \notin settled
             PROVE  (FetchedWaits(m) /\ FrontOfEntrance(m) /\ FrontOfQueued(m) /\ FrontOfHandled(m))'
  BY <1>0 DEF LaneOrder
<1>3. FetchedWaits(m) /\ FrontOfEntrance(m) /\ FrontOfQueued(m) /\ FrontOfHandled(m)
  BY DEF LaneOrder
<1>4. laneFor(m) \in Lanes
  BY ConsumerAssumption DEF laneFor
<1>5. ASSUME NEW k \in 0 .. Len(q) - 1, InFront(m, l, k + 1) PROVE InFront(m, l, k)'
  <2>1. PICK i \in 1 .. k + 1 : q[i] = m
    BY <1>q, <1>0, <1>5 DEF InFront
  <2>2. CASE i = 1
    BY <1>2, <2>1, <2>2 DEF InFront
  <2>3. CASE i # 1
    <3>1. i - 1 \in 1 .. k /\ i - 1 \in 1 .. Len(q) - 1 /\ i = (i - 1) + 1
      BY <1>1, <2>3
    <3>2. queues'[l][i - 1] = m
      BY <1>1, <1>2, <2>1, <3>1
    <3> QED BY <3>1, <3>2 DEF InFront
  <2> QED BY <2>2, <2>3
<1>6. \A j \in Lanes : j # l => \A k : InFront(m, j, k)' <=> InFront(m, j, k)
  BY <1>2 DEF InFront
<1>7. Waits(m) => Waits(m)'
  <2>1. CASE laneFor(m) = l
    <3>1. Len(q) - 1 \in 0 .. Len(q) - 1 /\ (Len(q) - 1) + 1 = Len(q) /\ Len(queues'[l]) = Len(q) - 1
      BY <1>1, <1>2
    <3>2. InFront(m, l, Len(q)) => InFront(m, l, Len(q) - 1)'
      BY <1>5, <3>1
    <3> QED BY <1>q, <2>1, <3>1, <3>2 DEF Waits, laneFor
  <2>2. CASE laneFor(m) # l
    BY <1>2, <1>4, <1>6, <2>2 DEF Waits, laneFor
  <2> QED BY <2>1, <2>2
<1>8. FetchedWaits(m)' /\ FrontOfEntrance(m)'
  BY <1>0, <1>3, <1>7 DEF FetchedWaits, FrontOfEntrance, Earlier
<1>9. FrontOfQueued(m)'
  <2> SUFFICES ASSUME NEW j \in Lanes, NEW k \in 1 .. Len(queues'[j]), Earlier(m, queues'[j][k])
               PROVE  InFront(m, j, k - 1)'
    BY DEF FrontOfQueued, Earlier
  <2>1. CASE j = l
    <3>1. k \in 1 .. Len(q) - 1 /\ k + 1 \in 1 .. Len(q) /\ k - 1 \in 0 .. Len(q) - 1 /\ (k - 1) + 1 = (k + 1) - 1
      BY <1>1, <1>2, <2>1
    <3>2. Earlier(m, q[k + 1])
      BY <1>1, <1>2, <2>1, <3>1
    <3>3. InFront(m, l, (k - 1) + 1)
      BY <1>q, <1>3, <3>1, <3>2 DEF FrontOfQueued
    <3> QED BY <1>5, <2>1, <3>1, <3>3
  <2>2. CASE j # l
    BY <1>2, <1>3, <1>6, <2>2 DEF FrontOfQueued
  <2> QED BY <2>1, <2>2
<1>10. FrontOfHandled(m)'
  <2>1. ~Earlier(m, q[1])
    <3>1. 1 \in 1 .. Len(q) /\ 1 .. 1 - 1 = {}
      BY <1>1
    <3> QED BY <1>q, <1>0, <1>3, <3>1 DEF FrontOfQueued, InFront
  <2> QED BY <1>2, <1>3, <2>1 DEF FrontOfHandled, Earlier
<1> QED BY <1>8, <1>9, <1>10

\* The fetched message joins its lane, behind those that stand in front of it.
LEMMA EnqueueOrders ==
  ASSUME TypeOK, LaneOrder, Enqueue
  PROVE  LaneOrder'
<1>h. handoff \in Messages /\ handoff # None
  BY DEF Enqueue, TypeOK
<1>l. PICK l \in Lanes : l = laneFor(handoff)
  BY <1>h, ConsumerAssumption DEF laneFor
<1>q. PICK q \in Seq(Messages) : q = queues[l]
  BY DEF TypeOK
<1>0. /\ queues' = [queues EXCEPT ![l] = Append(q, handoff)] /\ handoff' = None
      /\ UNCHANGED <<mode, position, stage, cur, settled>>
  BY <1>l, <1>q DEF Enqueue, worker, broker
<1>2. /\ Len(q) \in Nat /\ Len(Append(q, handoff)) = Len(q) + 1
      /\ \A i \in 1 .. Len(q) : Append(q, handoff)[i] = q[i]
      /\ Append(q, handoff)[Len(q) + 1] = handoff
  BY <1>h
<1>3. /\ queues'[l] = Append(q, handoff)
      /\ \A k \in Lanes : k # l => queues'[k] = queues[k]
  BY <1>0 DEF TypeOK
<1> SUFFICES ASSUME NEW m \in Messages, m \notin settled
             PROVE  (FetchedWaits(m) /\ FrontOfEntrance(m) /\ FrontOfQueued(m) /\ FrontOfHandled(m))'
  BY <1>0 DEF LaneOrder
<1>4. FetchedWaits(m) /\ FrontOfEntrance(m) /\ FrontOfQueued(m) /\ FrontOfHandled(m)
  BY DEF LaneOrder
<1>5. laneFor(m) \in Lanes
  BY ConsumerAssumption DEF laneFor
<1>6. \A k \in 0 .. Len(q) : InFront(m, l, k) => InFront(m, l, k)'
  <2> SUFFICES ASSUME NEW k \in 0 .. Len(q), InFront(m, l, k) PROVE InFront(m, l, k)'
    OBVIOUS
  <2>1. CASE stage[l] # "idle" /\ cur[l] = m
    BY <1>0, <2>1 DEF InFront
  <2>2. CASE \E i \in 1 .. k : q[i] = m
    <3>1. PICK i \in 1 .. k : q[i] = m
      BY <2>2
    <3>2. queues'[l][i] = m
      BY <1>2, <1>3, <3>1
    <3> QED BY <3>2 DEF InFront
  <2> QED BY <1>q, <2>1, <2>2 DEF InFront
<1>7. \A j \in Lanes : j # l => \A k : InFront(m, j, k)' <=> InFront(m, j, k)
  BY <1>0, <1>3 DEF InFront
<1>8. handoff = m \/ Waits(m) => Waits(m)'
  <2>1. CASE handoff = m
    <3>1. laneFor(m) = l /\ Len(queues'[l]) = Len(q) + 1 /\ Len(q) + 1 \in 1 .. Len(q) + 1
      BY <1>l, <1>2, <1>3, <2>1
    <3> QED BY <1>2, <1>3, <2>1, <3>1 DEF Waits, InFront, laneFor
  <2>2. CASE Waits(m) /\ laneFor(m) = l
    <3>1. InFront(m, l, Len(q))'
      BY <1>q, <1>2, <1>6, <2>2 DEF Waits
    <3>2. 1 .. Len(q) \subseteq 1 .. Len(queues'[l])
      BY <1>2, <1>3
    <3> QED BY <2>2, <3>1, <3>2 DEF Waits, InFront, laneFor
  <2>3. CASE Waits(m) /\ laneFor(m) # l
    BY <1>3, <1>5, <1>7, <2>3 DEF Waits, laneFor
  <2> QED BY <2>1, <2>2, <2>3
<1>9. FetchedWaits(m)' /\ FrontOfEntrance(m)'
  BY <1>0, <1>4, <1>8 DEF FetchedWaits, FrontOfEntrance
<1>10. FrontOfQueued(m)'
  <2> SUFFICES ASSUME NEW j \in Lanes, NEW k \in 1 .. Len(queues'[j]), Earlier(m, queues'[j][k])
               PROVE  InFront(m, j, k - 1)'
    BY DEF FrontOfQueued, Earlier
  <2>1. CASE j = l /\ k = Len(q) + 1
    <3>1. Earlier(m, handoff)
      BY <1>2, <1>3, <2>1
    <3>2. laneFor(m) = l /\ Waits(m)
      BY <1>h, <1>l, <1>4, <3>1 DEF FrontOfEntrance, laneFor, Earlier
    <3>3. k - 1 = Len(q) /\ Len(q) \in 0 .. Len(q)
      BY <1>2, <2>1
    <3> QED BY <1>q, <1>6, <2>1, <3>2, <3>3 DEF Waits
  <2>2. CASE j = l /\ k # Len(q) + 1
    <3>1. k \in 1 .. Len(q) /\ k - 1 \in 0 .. Len(q)
      BY <1>2, <1>3, <2>2
    <3>2. Earlier(m, q[k])
      BY <1>2, <1>3, <2>2, <3>1
    <3> QED BY <1>q, <1>4, <1>6, <2>2, <3>1, <3>2 DEF FrontOfQueued
  <2>3. CASE j # l
    BY <1>3, <1>4, <1>7, <2>3 DEF FrontOfQueued
  <2> QED BY <2>1, <2>2, <2>3
<1>11. FrontOfHandled(m)'
  BY <1>0, <1>4 DEF FrontOfHandled, Earlier
<1> QED BY <1>9, <1>10, <1>11

\* A message is fetched after every message of its key that is not settled has found its lane.
LEMMA FetchOrders ==
  ASSUME TypeOK, LaneOrder, NEW p \in Partitions, Fetch(p)
  PROVE  LaneOrder'
<1>0. /\ mode = "consuming" /\ handoff = None /\ handoff' = <<p, position[p]>>
      /\ position' = [position EXCEPT ![p] = @ + 1]
      /\ UNCHANGED <<mode, queues, stage, cur, settled>>
  BY DEF Fetch, worker, broker
<1> SUFFICES ASSUME NEW m \in Messages, m \notin settled
             PROVE  (FetchedWaits(m) /\ FrontOfEntrance(m) /\ FrontOfQueued(m) /\ FrontOfHandled(m))'
  BY <1>0 DEF LaneOrder
<1>1. FetchedWaits(m) /\ FrontOfQueued(m) /\ FrontOfHandled(m)
  BY DEF LaneOrder
<1>2. Waits(m)' <=> Waits(m)
  BY <1>0 DEF Waits, InFront, laneFor
<1>3. m[1] \in Partitions /\ m[2] \in Offsets /\ m = <<m[1], m[2]>> /\ m # None
  BY MessageParts
<1>4. m[2] \in Int /\ position[m[1]] \in Int
  BY <1>3, ConsumerAssumption DEF Offsets, TypeOK
<1>5. m[2] < position[m[1]] => Waits(m)
  BY <1>0, <1>1, <1>3 DEF FetchedWaits
<1>6. FetchedWaits(m)'
  <2> SUFFICES ASSUME m[2] < position'[m[1]] PROVE handoff' = m \/ Waits(m)
    BY <1>2 DEF FetchedWaits
  <2>1. CASE m[1] = p
    <3>1. position'[p] = position[p] + 1
      BY <1>0 DEF TypeOK
    <3>2. m[2] < position[p] \/ m[2] = position[p]
      BY <1>4, <2>1, <3>1
    <3> QED BY <1>0, <1>3, <1>5, <2>1, <3>2
  <2>2. CASE m[1] # p
    <3>1. position'[m[1]] = position[m[1]]
      BY <1>0, <1>3, <2>2 DEF TypeOK
    <3> QED BY <1>5, <3>1
  <2> QED BY <2>1, <2>2
<1>7. FrontOfEntrance(m)'
  <2> SUFFICES ASSUME Earlier(m, <<p, position[p]>>) PROVE Waits(m)
    BY <1>0, <1>2 DEF FrontOfEntrance, Earlier
  <2>1. m[1] = p /\ m[2] < position[p]
    BY DEF Earlier
  <2> QED BY <1>5, <2>1
<1>8. FrontOfQueued(m)' /\ FrontOfHandled(m)'
  BY <1>0, <1>1 DEF FrontOfQueued, FrontOfHandled, InFront, Earlier
<1> QED BY <1>6, <1>7, <1>8

\* A lane that gives up or has finished a message stands empty; the message it had is settled,
\* or it loses its channel as well.
LEMMA LaneLeaves ==
  ASSUME TypeOK, LaneOrder, EntranceClosed, DoneSettled, NEW l \in Lanes, Unsettled(l) \/ Finish(l)
  PROVE  LaneOrder'
<1>0. /\ stage'[l] = "idle" /\ \A k \in Lanes : k # l => stage'[k] = stage[k] /\ cur'[k] = cur[k]
      /\ UNCHANGED <<mode, position, handoff, settled>>
  BY DEF Unsettled, Finish, Become, TypeOK, broker
<1>1. \A k \in Lanes : k # l => queues'[k] = queues[k]
  BY DEF Unsettled, Finish, TypeOK
<1>2. Unsettled(l) => mode \notin {"consuming", "down"} /\ queues'[l] = <<>>
  BY DEF Unsettled, TypeOK
<1>3. Finish(l) => queues'[l] = queues[l] /\ cur[l] \in settled
  BY DEF Finish, DoneSettled
<1> SUFFICES ASSUME NEW m \in Messages, m \notin settled
             PROVE  (FetchedWaits(m) /\ FrontOfEntrance(m) /\ FrontOfQueued(m) /\ FrontOfHandled(m))'
  BY <1>0 DEF LaneOrder
<1>4. FetchedWaits(m) /\ FrontOfEntrance(m) /\ FrontOfQueued(m) /\ FrontOfHandled(m)
  BY DEF LaneOrder
<1>5. laneFor(m) \in Lanes
  BY ConsumerAssumption DEF laneFor
<1>6. \A k \in Lanes : k # l \/ Finish(l) => \A n : InFront(m, k, n) => InFront(m, k, n)'
  BY <1>0, <1>1, <1>3 DEF InFront
<1>7. Finish(l) => (Waits(m) => Waits(m)')
  <2>1. Finish(l) => \A k \in Lanes : queues'[k] = queues[k]
    BY <1>1, <1>3
  <2> QED BY <1>5, <1>6, <2>1 DEF Waits, laneFor
<1>8. FetchedWaits(m)' /\ FrontOfEntrance(m)'
  <2>1. CASE Finish(l)
    BY <1>0, <1>4, <1>7, <2>1 DEF FetchedWaits, FrontOfEntrance, Earlier
  <2>2. CASE Unsettled(l)
    BY <1>0, <1>2, <2>2 DEF FetchedWaits, FrontOfEntrance, EntranceClosed
  <2> QED BY <2>1, <2>2
<1>9. FrontOfQueued(m)'
  <2> SUFFICES ASSUME NEW j \in Lanes, NEW k \in 1 .. Len(queues'[j]), Earlier(m, queues'[j][k])
               PROVE  InFront(m, j, k - 1)'
    BY DEF FrontOfQueued, Earlier
  <2>1. j # l \/ Finish(l)
    BY <1>2
  <2>2. queues'[j] = queues[j]
    BY <1>1, <1>3, <2>1
  <2> QED BY <1>4, <1>6, <2>1, <2>2 DEF FrontOfQueued
<1>10. FrontOfHandled(m)'
  BY <1>0, <1>4 DEF FrontOfHandled, Earlier
<1> QED BY <1>8, <1>9, <1>10

\* Every step keeps the order within the lanes.
LEMMA LaneOrderStep ==
  ASSUME TypeOK, CommitInv, CommitInv', LaneOrder, EntranceClosed, [Next]_vars
  PROVE  LaneOrder' /\ EntranceClosed'
<1> USE DEF lanes, worker, tracker, broker, bounds, members
<1>1. ASSUME NEW p \in Partitions, Fetch(p) PROVE LaneOrder' /\ EntranceClosed'
  BY <1>1, FetchOrders DEF Fetch, EntranceClosed
<1>2. CASE NewReader \/ \E p \in Partitions : Rebalance(p) \/ Returned(p)
  <2>0. /\ \A q \in Partitions : position'[q] \in {position[q], group[q]}
        /\ mode \in {"consuming", "down"} /\ EntranceClosed'
        /\ UNCHANGED <<handoff, queues, stage, cur, settled>>
    BY <1>2 DEF NewReader, Rebalance, Returned, TypeOK, EntranceClosed
  <2> SUFFICES ASSUME NEW m \in Messages, m \notin settled
               PROVE  (FetchedWaits(m) /\ FrontOfEntrance(m) /\ FrontOfQueued(m) /\ FrontOfHandled(m))'
    BY <2>0 DEF LaneOrder
  <2>1. FetchedWaits(m) /\ FrontOfEntrance(m) /\ FrontOfQueued(m) /\ FrontOfHandled(m)
    BY DEF LaneOrder
  <2>2. Waits(m)' <=> Waits(m)
    BY <2>0 DEF Waits, InFront, laneFor
  <2>3. ~(m[2] < group[m[1]])
    BY MessageParts DEF CommitInv, CommitPoints, SettledBelow
  <2>4. position'[m[1]] \in {position[m[1]], group[m[1]]}
    BY <2>0, MessageParts
  <2>5. FetchedWaits(m)' /\ FrontOfEntrance(m)'
    BY <2>0, <2>1, <2>2, <2>3, <2>4 DEF FetchedWaits, FrontOfEntrance, Earlier
  <2>6. FrontOfQueued(m)' /\ FrontOfHandled(m)'
    BY <2>0, <2>1 DEF FrontOfQueued, FrontOfHandled, InFront, Earlier
  <2> QED BY <2>5, <2>6
<1>3. CASE Enqueue
  BY <1>3, EnqueueOrders DEF Enqueue, EntranceClosed
<1>4. CASE Shutdown
  <2>0. /\ mode' = "stopping" /\ handoff' = None
        /\ UNCHANGED <<position, queues, stage, cur, settled>>
    BY <1>4 DEF Shutdown
  <2>1. ASSUME NEW m \in Messages, m \notin settled
        PROVE  (FetchedWaits(m) /\ FrontOfEntrance(m) /\ FrontOfQueued(m) /\ FrontOfHandled(m))'
    <3>1. FrontOfQueued(m) /\ FrontOfHandled(m)
      BY <2>1 DEF LaneOrder
    <3> QED BY <2>0, <3>1 DEF FetchedWaits, FrontOfEntrance, FrontOfQueued, FrontOfHandled, InFront, Earlier
  <2> QED BY <2>0, <2>1 DEF LaneOrder, EntranceClosed
<1>5. ASSUME NEW l \in Lanes, Take(l) PROVE LaneOrder' /\ EntranceClosed'
  BY <1>5, TakeOrders DEF Take, EntranceClosed
<1>6. ASSUME NEW l \in Lanes, HandleOk(l) \/ HandlePermanent(l) \/ HandleTransient(l) \/ DeadLetter(l)
      PROVE  LaneOrder' /\ EntranceClosed'
  <2>1. /\ settled \subseteq settled' /\ UNCHANGED <<mode, position, handoff, queues, cur>>
        /\ \A k \in Lanes : stage'[k] # "idle" <=> stage[k] # "idle"
    BY <1>6 DEF HandleOk, HandlePermanent, HandleTransient, DeadLetter, TypeOK
  <2> QED BY <2>1, LanesKeep DEF EntranceClosed
<1>7. ASSUME NEW l \in Lanes, Unsettled(l) \/ Finish(l) PROVE LaneOrder' /\ EntranceClosed'
  BY <1>7, LaneLeaves DEF Unsettled, Finish, EntranceClosed, CommitInv
<1>8. CASE FetchError \/ CommitTick \/ CommitReady \/ StartFinal \/ UNCHANGED vars
           \/ \E p \in Partitions : Taken(p) \/ \E o \in Offsets : OtherSettles(p, o) \/ OtherCommits(p, o)
  <2>1. /\ UNCHANGED <<position, handoff, queues, stage, cur>> /\ settled \subseteq settled'
        /\ mode' \in {"consuming", "down"} => mode \in {"consuming", "down"}
        /\ EntranceClosed'
    BY <1>8 DEF FetchError, CommitTick, CommitReady, StartFinal, Taken, OtherSettles, OtherCommits, vars, EntranceClosed
  <2> QED BY <2>1, LanesKeep
<1>9. CASE FinalCommit \/ FinalTimeout \/ Crash
  <2>1. ResetMemory(group') /\ UNCHANGED settled
    BY <1>9 DEF FinalCommit, FinalTimeout, Crash
  <2> QED BY <2>1, LanesReset DEF ResetMemory, EntranceClosed
<1> QED
  BY <1>1, <1>2, <1>3, <1>4, <1>5, <1>6, <1>7, <1>8, <1>9 DEF Next, Group, Lane, Handle, Commits

\* A message is settled by its lane, in front of which no earlier message of its key is left.
LEMMA KeyOrderStep ==
  ASSUME TypeOK, LaneOrder, KeyOrder, [Next]_vars
  PROVE  KeyOrder'
<1> USE DEF lanes, worker, tracker, broker, bounds, members
<1>1. ASSUME NEW l \in Lanes, HandleOk(l) \/ DeadLetter(l) PROVE KeyOrder'
  <2>0. settled' = settled \cup {cur[l]} /\ stage[l] # "idle"
    BY <1>1 DEF HandleOk, DeadLetter
  <2> SUFFICES ASSUME NEW p \in Partitions, NEW a \in Offsets, NEW b \in Offsets,
                      a < b, KeyOf[<<p, a>>] = KeyOf[<<p, b>>], <<p, b>> \in settled', <<p, a>> \notin settled
               PROVE  FALSE
    BY <2>0 DEF KeyOrder
  <2> DEFINE m == <<p, a>>
  <2>1. <<p, b>> = cur[l]
    BY <2>0 DEF KeyOrder
  <2>2. m \in Messages
    BY DEF Messages
  <2>3. Earlier(m, <<p, b>>)
    BY DEF Earlier
  <2>4. FrontOfHandled(m)
    BY <2>2 DEF LaneOrder
  <2> HIDE DEF m
  <2> QED BY <2>0, <2>1, <2>3, <2>4 DEF FrontOfHandled
<1>2. ASSUME UNCHANGED settled PROVE KeyOrder'
  BY <1>2 DEF KeyOrder
<1>3. ASSUME NEW l \in Lanes,
             Take(l) \/ HandlePermanent(l) \/ HandleTransient(l) \/ Unsettled(l) \/ Finish(l)
      PROVE  UNCHANGED settled
  BY <1>3 DEF Take, HandlePermanent, HandleTransient, Unsettled, Finish
<1>4. ASSUME NEW p \in Partitions,
             \/ Fetch(p) \/ Rebalance(p) \/ Taken(p) \/ Returned(p)
             \/ \E o \in Offsets : OtherCommits(p, o)
      PROVE  UNCHANGED settled
  BY <1>4 DEF Fetch, Rebalance, Taken, Returned, OtherCommits
<1>6. ASSUME NEW p \in Partitions, NEW o \in Offsets, OtherSettles(p, o) PROVE KeyOrder'
  BY <1>6, ConsumerAssumption DEF OtherSettles, KeyOrder, Offsets
<1>5. ASSUME \/ Enqueue \/ FetchError \/ Shutdown \/ NewReader \/ Crash
             \/ CommitTick \/ CommitReady \/ StartFinal \/ FinalCommit \/ FinalTimeout \/ UNCHANGED vars
      PROVE  UNCHANGED settled
  BY <1>5 DEF Enqueue, FetchError, Shutdown, NewReader, Crash, CommitTick, CommitReady, StartFinal,
              FinalCommit, FinalTimeout, vars
<1> QED
  BY <1>1, <1>2, <1>3, <1>4, <1>5, <1>6 DEF Next, Group, Lane, Handle, Commits

\* Messages with the same key settle in log order, with any number of lanes and any hash, through
\* crashes, shutdowns, reader failures and rebalances, also to other members and back: laneFor keeps them in one lane, and a message
\* fetched again stands in front of what was fetched after it.
THEOREM KeysSettleInOrder == Spec => []KeyOrder
<1>1. Init => OrderInv
  BY DEF Init, OrderInv, LaneOrder, EntranceClosed, KeyOrder, FetchedWaits, FrontOfEntrance, FrontOfQueued,
         FrontOfHandled, Messages, Offsets
<1>2. ConsumerInv /\ ConsumerInv' /\ OrderInv /\ [Next]_vars => OrderInv'
  BY LaneOrderStep, KeyOrderStep DEF ConsumerInv, OrderInv
<1>3. OrderInv => KeyOrder
  BY DEF OrderInv
<1> QED BY <1>1, <1>2, <1>3, ConsumerInvariant, PTL DEF Spec

=============================================================================
