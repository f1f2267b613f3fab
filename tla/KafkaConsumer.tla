--------------------------- MODULE KafkaConsumer ---------------------------
(***************************************************************************)
(* One subscription of the Kafka adapter (internal/adapters/kafka): the     *)
(* fetch loop, the parallel lanes, the retry / dead-letter decision of      *)
(* handle, the offsetTracker, the periodic commit and the supervisor that   *)
(* replaces a failed reader.                                                *)
(*                                                                          *)
(* Time is counted in attempts: the delay between two attempts is capped    *)
(* (backoff), so "blocked for maxBlock" is "failed BlockAttempts times".    *)
(***************************************************************************)
EXTENDS Integers, Sequences, FiniteSets

CONSTANTS
    Partitions,       \* partitions of the topic
    LogLen,           \* messages 0 .. LogLen-1 exist in each partition
    Lanes,            \* the worker lanes
    Keys,             \* message keys; a message without a key has its partition as key
    KeyOf,            \* KeyOf[m]: the key of message m
    LaneOfKey,        \* the hash of laneFor: key -> lane
    LaneCap,          \* capacity of a lane's channel (16 in the code)
    InitialAttempts,  \* attempts before a failure is judged (3 in the code)
    BlockAttempts,    \* the attempt at which maxBlock has passed
    MaxFaults,        \* bound on crashes, shutdowns and fetch errors
    MaxRebalances     \* bound on partitions assigned again, here or to another member

Offsets  == 0 .. LogLen - 1
Messages == Partitions \X Offsets

ASSUME ConsumerAssumption ==
    /\ LogLen \in Nat
    /\ KeyOf \in [Messages -> Keys]
    /\ LaneOfKey \in [Keys -> Lanes]
    /\ LaneCap \in Nat \ {0}
    /\ InitialAttempts \in Nat \ {0}
    /\ BlockAttempts \in Nat /\ BlockAttempts >= InitialAttempts
    /\ MaxFaults \in Nat
    /\ MaxRebalances \in Nat

VARIABLES
    mode,       \* consuming, draining (fetch failed), stopping (ctx ended), final, down
    position,   \* position[p]: the offset the reader fetches next
    handoff,    \* the fetched message waiting for room in its lane, or None
    queues,     \* queues[l]: the lane's channel
    stage,      \* stage[l] of the lane's goroutine: idle, handling, dlq, finished
    cur,        \* cur[l]: the message it works on
    attempt,    \* attempt[l]: the attempt it is at
    since,      \* since[l]: the group succeeded after the message's first failure
    pending,    \* offsetTracker: fetched offsets in fetch order
    done,       \* offsetTracker: finished offsets not yet popped
    lastDone,   \* offsetTracker: end of the contiguous finished prefix, -1 if none
    committed,  \* offsetTracker: last committed offset, -1 if none
    batch,      \* the commit in progress: offset per partition, -1 if it has none
    group,      \* broker: the group's committed offset (next to deliver)
    settled,    \* history: messages handled or dead-lettered at least once
    away,       \* partitions that another member of the group reads now
    shared,     \* history: partitions that another member has read
    faults, rebalances

tracker == <<pending, done, lastDone, committed>>
worker  == <<stage, cur, attempt, since>>
lanes   == <<handoff, queues, worker>>
broker  == <<group, settled>>
bounds  == <<faults, rebalances>>
members == <<away, shared>>
vars    == <<mode, position, lanes, tracker, batch, broker, bounds, members>>

None == <<>>
NoBatch == [p \in Partitions |-> -1]

laneFor(m) == LaneOfKey[KeyOf[m]]

\* The lane goroutines run until their channel is closed and empty.
Running == mode \in {"consuming", "draining", "stopping"}

Fault == faults < MaxFaults /\ faults' = faults + 1 /\ UNCHANGED <<rebalances, members>>

(***************************************************************************)
(* A new reader starts at the group's committed offset with an empty        *)
(* tracker; everything in memory is gone.                                   *)
(***************************************************************************)
ResetMemory(at) ==
    /\ position' = at
    /\ handoff' = None
    /\ queues' = [l \in Lanes |-> <<>>]
    /\ stage' = [l \in Lanes |-> "idle"]
    /\ cur' = [l \in Lanes |-> None]
    /\ attempt' = [l \in Lanes |-> 0]
    /\ since' = [l \in Lanes |-> FALSE]
    /\ pending' = [p \in Partitions |-> <<>>]
    /\ done' = [p \in Partitions |-> {}]
    /\ lastDone' = [p \in Partitions |-> -1]
    /\ committed' = [p \in Partitions |-> -1]
    /\ batch' = NoBatch

Init ==
    /\ mode = "down"
    /\ position = [p \in Partitions |-> 0]
    /\ handoff = None
    /\ queues = [l \in Lanes |-> <<>>]
    /\ stage = [l \in Lanes |-> "idle"]
    /\ cur = [l \in Lanes |-> None]
    /\ attempt = [l \in Lanes |-> 0]
    /\ since = [l \in Lanes |-> FALSE]
    /\ pending = [p \in Partitions |-> <<>>]
    /\ done = [p \in Partitions |-> {}]
    /\ lastDone = [p \in Partitions |-> -1]
    /\ committed = [p \in Partitions |-> -1]
    /\ batch = NoBatch
    /\ group = [p \in Partitions |-> 0]
    /\ settled = {}
    /\ away = {}
    /\ shared = {}
    /\ faults = 0
    /\ rebalances = 0

----------------------------------------------------------------------------
(* The offset tracker *)

start(p, o) ==
    /\ pending' = [pending EXCEPT ![p] = Append(@, o)]
    /\ UNCHANGED <<done, lastDone, committed>>

(***************************************************************************)
(* The loop of finish pops the head while it is done, deleting it from done *)
(* as it goes: the first n offsets can be popped when they are all done and *)
(* no offset occurs twice among them.                                       *)
(***************************************************************************)
Poppable(pend, dn, n) ==
    \A i \in 1 .. n : pend[i] \in dn /\ \A j \in 1 .. i - 1 : pend[j] # pend[i]

\* A finished offset alone moves the commit point, gaps or not.
finish_IgnoresGap(p, o) ==
    /\ done' = done
    /\ pending' = [pending EXCEPT ![p] = SelectSeq(@, LAMBDA x : x # o)]
    /\ lastDone' = [lastDone EXCEPT ![p] = o]
    /\ UNCHANGED committed

\* Only the head of pending is popped, whatever was finished behind it.
finish_PopsOne(p, o) ==
    LET pend == pending[p]
        dn   == done[p] \cup {o}
        hit  == pend # <<>> /\ Head(pend) \in dn
    IN  /\ pending' = IF hit THEN [pending EXCEPT ![p] = Tail(@)] ELSE pending
        /\ done' = [done EXCEPT ![p] = IF hit THEN dn \ {Head(pend)} ELSE dn]
        /\ lastDone' = IF hit THEN [lastDone EXCEPT ![p] = Head(pend)] ELSE lastDone
        /\ UNCHANGED committed

finish(p, o) ==
    LET pend == pending[p]
        dn   == done[p] \cup {o}
    IN  \E n \in 0 .. Len(pend) :
          /\ Poppable(pend, dn, n)
          /\ \A k \in n + 1 .. Len(pend) : ~Poppable(pend, dn, k)
          /\ pending' = [pending EXCEPT ![p] = SubSeq(pend, n + 1, Len(pend))]
          /\ done' = [done EXCEPT ![p] = dn \ {pend[i] : i \in 1 .. n}]
          /\ lastDone' = IF n = 0 THEN lastDone
                                  ELSE [lastDone EXCEPT ![p] = pend[n]]
          /\ UNCHANGED committed

\* Per partition, the end of the finished prefix that is not committed yet.
ready == [p \in Partitions |-> IF lastDone[p] > committed[p] THEN lastDone[p] ELSE -1]

\* CommitMessages tells the broker the offset after each message of the batch.
CommitMessages ==
    group' = [p \in Partitions |-> IF batch[p] > -1 THEN batch[p] + 1 ELSE group[p]]

----------------------------------------------------------------------------
(* The fetch loop *)

\* FetchMessage returned m: it is recorded before it is handed to its lane.
Fetch(p) ==
    /\ mode = "consuming" /\ handoff = None
    /\ p \notin away /\ position[p] < LogLen
    /\ start(p, position[p])
    /\ handoff' = <<p, position[p]>>
    /\ position' = [position EXCEPT ![p] = @ + 1]
    /\ UNCHANGED <<mode, queues, worker, batch, broker, bounds, members>>

\* A full lane blocks the fetch loop, and so every other lane's supply.
Enqueue ==
    /\ mode = "consuming" /\ handoff # None
    /\ Len(queues[laneFor(handoff)]) < LaneCap
    /\ queues' = [queues EXCEPT ![laneFor(handoff)] = Append(@, handoff)]
    /\ handoff' = None
    /\ UNCHANGED <<mode, position, worker, tracker, batch, broker, bounds, members>>

\* FetchMessage failed: no more fetches, but what was fetched is handled.
FetchError ==
    /\ mode = "consuming" /\ handoff = None
    /\ Fault
    /\ mode' = "draining"
    /\ UNCHANGED <<position, lanes, tracker, batch, broker>>

\* ctx ended: a message waiting for its lane is dropped.
Shutdown ==
    /\ mode \in {"consuming", "draining"}
    /\ Fault
    /\ mode' = "stopping"
    /\ handoff' = None
    /\ UNCHANGED <<position, queues, worker, tracker, batch, broker>>

----------------------------------------------------------------------------
(* A lane: for m := range queue { handle; tracker.finish } *)

Become(l, st, m, n, ok) ==
    /\ stage' = [stage EXCEPT ![l] = st]
    /\ cur' = [cur EXCEPT ![l] = m]
    /\ attempt' = [attempt EXCEPT ![l] = n]
    /\ since' = [since EXCEPT ![l] = ok]

Take(l) ==
    /\ Running
    /\ stage[l] = "idle" /\ queues[l] # <<>>
    /\ Become(l, "handling", Head(queues[l]), 1, FALSE)
    /\ queues' = [queues EXCEPT ![l] = Tail(@)]
    /\ UNCHANGED <<mode, position, handoff, tracker, batch, broker, bounds, members>>

\* succeeded: a lane whose message has failed before sees a later success.
HandleOk(l) ==
    /\ Running /\ stage[l] = "handling"
    /\ settled' = settled \cup {cur[l]}
    /\ stage' = [stage EXCEPT ![l] = "finished"]
    /\ since' = [k \in Lanes |-> since[k] \/ attempt[k] > 1]
    /\ UNCHANGED <<mode, position, handoff, queues, cur, attempt, tracker, batch,
                   group, bounds, members>>

HandlePermanent(l) ==
    /\ Running /\ mode # "stopping" /\ stage[l] = "handling"
    /\ stage' = [stage EXCEPT ![l] = "dlq"]
    /\ UNCHANGED <<mode, position, handoff, queues, cur, attempt, since, tracker,
                   batch, broker, bounds, members>>

\* Judged after the initial attempts: others succeed, or maxBlock passed.
GivesUp(l) == /\ attempt[l] >= InitialAttempts
              /\ since[l] \/ attempt[l] >= BlockAttempts

HandleTransient(l) ==
    /\ Running /\ mode # "stopping" /\ stage[l] = "handling"
    /\ \/ /\ GivesUp(l)
          /\ stage' = [stage EXCEPT ![l] = "dlq"]
          /\ UNCHANGED attempt
       \/ /\ ~GivesUp(l)
          /\ attempt' = [attempt EXCEPT ![l] = @ + 1]
          /\ UNCHANGED stage
    /\ UNCHANGED <<mode, position, handoff, queues, cur, since, tracker, batch,
                   broker, bounds, members>>

\* publishDLQ is retried until it succeeds; only then is the message settled.
DeadLetter(l) ==
    /\ Running /\ stage[l] = "dlq"
    /\ settled' = settled \cup {cur[l]}
    /\ stage' = [stage EXCEPT ![l] = "finished"]
    /\ UNCHANGED <<mode, position, handoff, queues, cur, attempt, since, tracker,
                   batch, group, bounds, members>>

\* The goroutine goes on with its channel after an unsettled message.
Unsettled_KeepsLane(l) ==
    /\ mode = "stopping" /\ stage[l] \in {"handling", "dlq"}
    /\ Become(l, "idle", None, 0, FALSE)
    /\ UNCHANGED <<mode, position, handoff, queues, tracker, batch, broker, bounds, members>>

\* ctx ended before the message was settled: the goroutine returns and what is
\* left in its channel is never read.
Unsettled(l) ==
    /\ mode = "stopping" /\ stage[l] \in {"handling", "dlq"}
    /\ Become(l, "idle", None, 0, FALSE)
    /\ queues' = [queues EXCEPT ![l] = <<>>]
    /\ UNCHANGED <<mode, position, handoff, tracker, batch, broker, bounds, members>>

Finish(l) ==
    /\ Running /\ stage[l] = "finished"
    /\ finish(cur[l][1], cur[l][2])
    /\ Become(l, "idle", None, 0, FALSE)
    /\ UNCHANGED <<mode, position, handoff, queues, batch, broker, bounds, members>>

----------------------------------------------------------------------------
(* The commit goroutine, the end of consume, and supervise *)

CommitTick ==
    /\ mode \in {"consuming", "draining"} /\ batch = NoBatch
    /\ ready # NoBatch
    /\ batch' = ready
    /\ UNCHANGED <<mode, position, lanes, tracker, broker, bounds, members>>

\* The broker accepted the commit, and tracker.committed records it: nobody else
\* reads what lies between the two.
CommitReady ==
    /\ Running /\ batch # NoBatch
    /\ CommitMessages
    /\ committed' = [p \in Partitions |->
                       IF batch[p] > committed[p] THEN batch[p] ELSE committed[p]]
    /\ batch' = NoBatch
    /\ UNCHANGED <<mode, position, lanes, pending, done, lastDone, settled, bounds, members>>

\* Every lane's channel is closed, empty, and its goroutine has returned.
WorkersDone == /\ handoff = None
               /\ \A l \in Lanes : stage[l] = "idle" /\ queues[l] = <<>>

\* workers.Wait() returned: a periodic commit that has not reached the broker is
\* abandoned (stopLoop) and the final one starts with a context of its own.
StartFinal ==
    /\ mode \in {"draining", "stopping"} /\ WorkersDone
    /\ mode' = "final"
    /\ batch' = ready
    /\ UNCHANGED <<position, lanes, tracker, broker, bounds, members>>

FinalCommit ==
    /\ mode = "final"
    /\ mode' = "down"
    /\ CommitMessages
    /\ ResetMemory(group')
    /\ UNCHANGED <<settled, bounds, members>>

\* The five seconds passed without the broker accepting the commit.
FinalTimeout ==
    /\ mode = "final" /\ batch # NoBatch
    /\ mode' = "down"
    /\ ResetMemory(group)
    /\ UNCHANGED <<broker, bounds, members>>

\* The supervisor gives up after the first failure of a reader.
NewReader_OnlyOnce ==
    /\ mode = "down" /\ faults = 0
    /\ mode' = "consuming"
    /\ position' = group
    /\ UNCHANGED <<lanes, tracker, batch, broker, bounds, members>>

\* supervise opens the next reader, or the process is started again; it begins
\* where the group stands by then.
NewReader ==
    /\ mode = "down"
    /\ mode' = "consuming"
    /\ position' = group
    /\ UNCHANGED <<lanes, tracker, batch, broker, bounds, members>>

\* The process dies: only the broker's state survives.
Crash ==
    /\ mode # "down"
    /\ Fault
    /\ mode' = "down"
    /\ ResetMemory(group)
    /\ UNCHANGED broker

(***************************************************************************)
(* External (kafka-go and the other members): everyone consumes in one      *)
(* group, and each new generation of it may move partitions.  The other     *)
(* members run this same code, so of what they do only what is shown here   *)
(* of one member is assumed: a key settles in log order, and a commit lies  *)
(* behind settled messages.  Their commits may lie below the group's        *)
(* offset, as this member's may: a tracker knows its own commits only, and  *)
(* the broker takes an offset from any member of the generation.            *)
(***************************************************************************)

\* The partition is assigned to the same reader again: it goes on from the
\* committed offset, and the tracker is not told.
Rebalance(p) ==
    /\ mode = "consuming" /\ p \notin away
    /\ rebalances < MaxRebalances
    /\ position[p] # group[p]
    /\ position' = [position EXCEPT ![p] = group[p]]
    /\ rebalances' = rebalances + 1
    /\ UNCHANGED <<mode, lanes, tracker, batch, broker, faults, members>>

\* The partition goes to another member.  What was fetched of it stays in the
\* lanes and in the tracker, and is handled and committed all the same.
Taken(p) ==
    /\ p \notin away /\ rebalances < MaxRebalances
    /\ away' = away \cup {p}
    /\ shared' = shared \cup {p}
    /\ rebalances' = rebalances + 1
    /\ UNCHANGED <<mode, position, lanes, tracker, batch, broker, faults>>

\* It comes back, to a tracker that still has what it had before.
Returned(p) ==
    /\ mode = "consuming" /\ p \in away
    /\ away' = away \ {p}
    /\ position' = [position EXCEPT ![p] = group[p]]
    /\ UNCHANGED <<mode, lanes, tracker, batch, broker, shared, bounds>>

\* Another member settles a message, perhaps after the partition left it; to settle
\* one again changes nothing.
OtherSettles(p, o) ==
    /\ p \in shared /\ <<p, o>> \notin settled
    /\ \A x \in Offsets : x < o /\ KeyOf[<<p, x>>] = KeyOf[<<p, o>>] => <<p, x>> \in settled
    /\ settled' = settled \cup {<<p, o>>}
    /\ UNCHANGED <<mode, position, lanes, tracker, batch, group, bounds, members>>

\* Another member's commit reaches the broker and moves the offset, forward or back.
OtherCommits(p, o) ==
    /\ p \in shared /\ group[p] # o + 1
    /\ \A x \in Offsets : x <= o => <<p, x>> \in settled
    /\ group' = [group EXCEPT ![p] = o + 1]
    /\ UNCHANGED <<mode, position, lanes, tracker, batch, settled, bounds, members>>

----------------------------------------------------------------------------
Handle(l) == HandleOk(l) \/ HandlePermanent(l) \/ HandleTransient(l)

Lane(l) == Take(l) \/ Handle(l) \/ DeadLetter(l) \/ Unsettled(l) \/ Finish(l)

Commits == CommitTick \/ CommitReady \/ StartFinal \/ FinalCommit
           \/ FinalTimeout

Group(p) == \/ Rebalance(p) \/ Taken(p) \/ Returned(p)
            \/ \E o \in Offsets : OtherSettles(p, o) \/ OtherCommits(p, o)

Next ==
    \/ \E p \in Partitions : Fetch(p) \/ Group(p)
    \/ Enqueue \/ FetchError \/ Shutdown
    \/ \E l \in Lanes : Lane(l)
    \/ Commits
    \/ NewReader \/ Crash

Spec == Init /\ [][Next]_vars

(***************************************************************************)
(* The goroutines (fetch loop, lanes, commit loop, supervisor) keep running: *)
(* a handler always returns, the dead-letter topic and the commit are       *)
(* retried until the broker accepts them.  Faults, rebalances and the other *)
(* members are not fair, and a handler may fail every time.                 *)
(***************************************************************************)
\* The goroutine of consume, with its supervisor.
Loop == Enqueue \/ StartFinal \/ FinalCommit \/ NewReader \/ \E p \in Partitions : Fetch(p)

Fairness ==
    /\ WF_<<mode, handoff>>(Loop)
    /\ \A l \in Lanes : WF_worker(Lane(l))
    /\ WF_batch(CommitTick \/ CommitReady)

FairSpec == Spec /\ Fairness

----------------------------------------------------------------------------
(* Properties *)

\* Type invariant of the consumer's memory, the broker's state and the bounds.
TypeOK ==
    /\ mode \in {"consuming", "draining", "stopping", "final", "down"}
    /\ position \in [Partitions -> 0 .. LogLen]
    /\ handoff \in Messages \cup {None}
    /\ queues \in [Lanes -> Seq(Messages)]
    /\ stage \in [Lanes -> {"idle", "handling", "dlq", "finished"}]
    /\ cur \in [Lanes -> Messages \cup {None}]
    /\ \A l \in Lanes : stage[l] # "idle" => cur[l] \in Messages
    /\ attempt \in [Lanes -> 0 .. BlockAttempts]
    /\ since \in [Lanes -> BOOLEAN]
    /\ pending \in [Partitions -> Seq(Offsets)]
    /\ done \in [Partitions -> SUBSET Offsets]
    /\ lastDone \in [Partitions -> Offsets \cup {-1}]
    /\ committed \in [Partitions -> Offsets \cup {-1}]
    /\ batch \in [Partitions -> Offsets \cup {-1}]
    /\ group \in [Partitions -> 0 .. LogLen]
    /\ settled \subseteq Messages
    /\ away \subseteq Partitions
    /\ shared \subseteq Partitions
    /\ faults \in 0 .. MaxFaults
    /\ rebalances \in 0 .. MaxRebalances

\* "a crash can redeliver but never skip a message": whatever the lanes, crashes,
\* reader failures and rebalances do, every message below the committed offset
\* has been handled or dead-lettered.
CommitNeverSkips ==
    \A p \in Partitions : \A o \in Offsets : o < group[p] => <<p, o>> \in settled

\* Messages with the same key settle in log order even though different keys
\* run in parallel: none is settled while an earlier one of its key is not.
KeyOrder ==
    \A p \in Partitions : \A a, b \in Offsets :
        (a < b /\ KeyOf[<<p, a>>] = KeyOf[<<p, b>>] /\ <<p, b>> \in settled)
            => <<p, a>> \in settled

\* A partition's committed offset goes back only once another member of the group
\* has read it; as long as this one alone reads it, no refetched offset that
\* finishes late, no failed commit and no new reader moves it back.
CommitsNeverRegress == [][\A p \in Partitions \ shared : group'[p] >= group[p]]_<<group, shared>>

\* Once everything is settled the committed offset reaches the end of the log
\* ("Offsets are committed only up to the highest contiguous finished message"),
\* through reader failures, shutdowns and crashes, as long as no partition was
\* assigned again, to the reader that was reading it or to another member.
CommitCatchesUpUnlessReassigned ==
    [](settled = Messages => <>(rebalances > 0 \/ \A p \in Partitions : group[p] = LogLen))

\* Every message is eventually handled or dead-lettered, also one whose handler
\* fails every time: a lane is never blocked for longer than maxBlock.  Only a
\* partition that another member keeps from some time on is left to that member.
EverySettled ==
    \A p \in Partitions : []<>(p \notin away) => <>({p} \X Offsets \subseteq settled)

\* The consumer implements the abstract commit log.
Log == INSTANCE CommitLog
ImplementsLog == Log!Spec
=============================================================================
