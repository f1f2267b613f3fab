# TLA+ specifications of TorchLink

TorchLink is an IoT platform written in Go: devices report over MQTT and other
protocols, messages travel through Kafka, PostgreSQL holds devices, alarms and
device states, and several processes with roles (access, processor, API) share the
work.  The specifications here model the path of a report from the broker's delivery
to the device state and its notifications, and the platform's other shared work (external
data sources, batch registration, replay, leases), at the places where processes,
goroutines, crashes and retries meet, and prove what matters most about it.

## Inventory

```
device -> MQTT broker -> [receive inbox: durable queue -> drain loop]
       -> raw ingest (archive, index) -> Kafka raw topic -> parser
       -> Kafka standard topic -> [consumer lanes] -> [standard processing]
       -> alarm rows + outbox -> Kafka alarm topics -> notifications
       -> device state row    -> MQTT state topic (retained) -> subscribers
```

| Component | State | Operations | What makes it hard | Correct when |
|---|---|---|---|---|
| Kafka consumer, `internal/adapters/kafka/consumer.go` | lanes, offset tracker, commit in flight; the group's offset at the broker | fetch, lane handling with retries and dead letters, periodic and final commit, supervision | lanes finish out of order, rebalances refetch, other members of the group commit too, crashes, shutdown | commits never skip, go back only where two members read a partition, key order, everything settles, commits catch up |
| Durable queue, `internal/durablequeue/queue.go` | files, reception order, capacity counters | put, Next, Ack, Reject, RetryRejected, DiscardMatching, OpenQueue | failing directory flushes, power loss between rename and flush, unreadable files, lazily dropped names | nothing stored is lost, capacity exact, nothing stranded |
| MQTT receive inbox, `internal/adapters/mqtt/{inbox,ingress,capacity}.go` | in-flight deliveries, the entry being handled, failing heads | receive/persist/ack, reconnect, drain loop, cleanup | redelivery, lost acknowledgements, a head that always fails, cleanup beside the handler | an acknowledged receipt is safe, no head starves, first-reception order |
| Standard processing, `internal/core/{engine,consistency,device_state,alarm_rules,...}.go`, `adapters/postgres/repository.go` | claim rows (lease, token), alarm row, versioned device state | claim, raise or recover the alarm, complete; operator, offline scan, connection and state reports | two processes on one message, lease expiry, crashes between steps, two rows read one after the other | no report lost, state not rolled back, status agrees with alarms, every message completed |
| Raw ingest, `engine.go` IngestRaw and handleRaw, `postgres/raw_marks.go`, `raw_reservation.go`, `rawstore/store.go` | reservations, two message databases, index, marks in memory, raw topic | ingest, publish, flush of marks, retry of pending, parse and forward | several stores without a common transaction, two processes on one identity, marks lost with the process | acknowledged means durable and processed, one content per identity |
| Outbox, `core/outbox.go`, `DrainOutbox` | event rows, row locks, the flush lock, the wake-up | insert, flush, drain, relay | two relays, failing publish or commit, a flush that finds the lock taken | no event lost, all published without waiting for a ticker |
| Leases and coordinator, `postgres/execution.go`, `protocolruntime/coordinator.go` | lease row, held sessions with local timers | claim, renew, give up, validate, shut down | slow calls, late timers, lost answers, crashes | sessions never overlap, tokens fence, the profile is served again |
| Notifications, `notify/service.go`, `postgres/notifications.go` | tasks with leases and attempts | enqueue, claim, deliver, retry, cancel | slow deliveries finish after a take-over, events delivered again | a task sent once, and once more at most per failure or overrun lease; results final but for an overrun; nothing stuck |
| Replay, `core/replay.go` | task row with heartbeat, registry, page position | start, cancel, page, reingest, report interrupted | the archive moves while it is paged, pauses, exit of the process | completed means covered, every replay ends, cancel stops it |
| Rule cache and changes, `core/rule_cache.go`, `alarm_rules.go`, `httpapi/rules.go` | cached rules, open alarms, paged closing | load, invalidate, enable, disable, delete | load racing invalidation, rows leaving the list that is paged, failing requests | a deleted rule leaves no alarm, changes reach every process, at once in the one that served them but for a load that raced |
| External data, `externaldata/{runtime,service}.go`, `postgres/external_data.go`, `httpapi/external_data.go` | records, event rows with reservations and locks; schedules and pull jobs | claim, deliver, await the result, retry, bind | versions of one event in several workers, exits between the reservation and the outcome, results that come late | one sender at a time, versions in order, every record settles |
| Onboarding batches, `onboarding/{task_runner,tasks,enroll}.go` | batch and row records with revisions, sealed secrets, erasure jobs, a lease | run, recover, retry, collect secrets, erase | separate commits of device, row and summary; a worker overtaken after its lease; templates, devices and secrets changed meanwhile; secrets that exist once | counts agree with rows, a secret is handed out once, accounted for, erased |
| Others: parsers, protocol runtime, rule evaluation, video, AI, API, backup, ops, capacity tests | | | mostly I/O or pure data | not modelled, see below |

Components interact by calls (the drain loop calls the business handler), by messages
(Kafka and MQTT topics) and by shared rows in PostgreSQL (claims, alarms, states).
`PROJECT.json` lists every component, every hazard with its line, and the source lines
of every definition.

## Modules

| Module | Models | Notes |
|---|---|---|
| `CommitLog` | what a consumer group promises | abstract: messages settle, a committed offset has only settled ones behind it, and moves forward while one member reads the partition |
| `KafkaConsumer` | one subscription, and what other members of its group do to the broker's offsets | implements `CommitLog` (`ImplementsLog`) |
| `DurableQueue` | the queue's operations on disk and memory | no `Next` of its own; composed by `MqttInbox` |
| `MqttInbox` | one shard of the receive inbox over a `DurableQueue` | broker deliveries, drain loop, operators, faults |
| `RawIngest` | `IngestRaw`, marks, retry job and `handleRaw` of several processes | two databases, index, raw topic, business stream |
| `StandardProcessing` | `handleStandard` of several processes on shared rows | one device, one rule |
| `RuleAlarms` | a rule, its alarms, its devices' statuses, and what a deletion promises | extended by `RuleChanges` |
| `RuleChanges` | rule cache, evaluation and rule requests | one rule, several devices and processes |
| `OutboxTable` | event table and bus, and what the outbox promises | extended by `Outbox` |
| `Outbox` | insertion, flushes and relays | |
| `Notifications` | tasks of one alarm | composed of alarm, queueing and delivery |
| `ExecutionLease` | one lease row | no `Next` of its own; extended by `Coordinator` |
| `ExclusiveSession` | what a coordinator promises | abstract: sessions never overlap, epochs grow |
| `Coordinator` | the processes that share one profile | implements `ExclusiveSession` (`ImplementsExclusiveSession`) |
| `ReplayTasks` | replays and the archive, and what a completed replay promises | extended by `Replay` |
| `Replay` | replay requests of one process and their readers | |
| `ExternalRecords` | the versions of one external event | |
| `OnboardingBatch` | one batch, its workers, its owner's requests, the erasure | |
| `...Proofs` | | proofs about the module they extend |
| `AlarmProofs` | | proofs about `Notifications`, and about `Outbox` (as `Events`) and `RuleChanges` (as `Rules`), which it instantiates |
| `TaskProofs` | | proofs about `OnboardingBatch`, and about `Replay`, which it instantiates (as `Replays`) |
| `MC...` | instances for TLC | constants only |

The modules meet at the topics: the inbox's handler is `IngestRaw`, `RawIngest` forwards to
the topic that `KafkaConsumer` reads for `StandardProcessing`, whose alarms enter the
`Outbox`, whose events `Notifications` consumes.  Each module assumes of its neighbour
what that one is checked for: at-least-once delivery of what was acknowledged.

### KafkaConsumer

The variables are the consumer's own: `pending`, `done`, `lastDone`, `committed` are
the fields of `offsetTracker`; `queues`, `handoff`, `stage`, `cur`, `attempt`, `since`
the channels and the locals of the lanes; `batch` the commit in flight; `group` is the
broker's offset and `settled` a history variable.  `mode` is where `consume` is:
consuming, draining after a fetch error, stopping after the context ended, in the final
commit, or down.  Durations are counted in attempts: `handle` gives up after the initial
attempts once the group succeeded elsewhere (`since`) or `maxBlock` passed
(`BlockAttempts`).  The loop in `finish` is written as the longest poppable prefix,
which must not contain an offset twice, because the loop deletes an offset from `done`
when it pops it.  A message without a key is modelled as having its partition as key.

The group is shared with other processes (`bus.go:187`).  `Taken` gives a partition to
another member (`away`), `Returned` brings it back; in between and afterwards the other
members settle messages and commit (`OtherSettles`, `OtherCommits`), while this one goes on
handling and committing what it had fetched: a tracker knows only its own commits
(`consumer.go:311`).  `shared` remembers the partitions another member has read.  The other
members run the same code, so they commit only behind settled messages and settle a message
only after the earlier ones of its key, which is assumed of them and checked of this one.

### DurableQueue and MqttInbox

An entry is a set of suffixes under which its file exists (`dir`); `maybe` holds what a
power loss may leave of it: a rename counts at once and is durable after a successful
directory flush.  Every operation runs under the queue's mutex and is one action, its
argument `ok` telling whether the flush succeeded.  Equal identities are equal bytes
(the identity is a digest), all entries have size one, so the byte and item limits are
one bound.  `MqttInbox` adds the broker session (`inflight`, `tried`), the drain loop
(`stage`, `cur`, under `drainMu`) and `headFailures` (`fail`, `aged`).  Publications the
inbox does not want, of an unknown topic, too large, retained, or an empty payload that
clears a state (`Refused`), are acknowledged and dropped (`Drop`).  A shard shares nothing
with the other shards.  `RetryRejected` is part of the queue's interface and is
modelled as an operator's action although no production code calls it at present.  With
`maxPendingAge` at zero or below the code never gives up on a head; the model is of the
default, a positive age.

### RawIngest

A message is an identity and a content.  The steps of `IngestRaw` are `Reserve`,
`Lookup` (identity seen before), `Put` (into either database: the choice depends on
the observed frequency, which a repetition may see differently), `SaveIndex` and
`PublishArchived`; each may fail, and a process may exit between any two.  The
"published" marks wait in `publishing`, a buffer per process, until `Flush` writes them.
The retry job lists what is indexed and not marked and publishes it again; it is not
assumed to be alone, since it works on a list that may be old.  `handleRaw` parses
(`Reject` or `Forward`); after an error, which may come after the business stream was
written, the message is delivered again.  The "parsed" mark is left out: nothing in
the program decides by it.

### StandardProcessing

Each process runs `claim -> apply -> load -> write`: the claim row has a token that
fences completion, a holder and a lease; the alarm of the rule is raised in one
transaction or recovered in two passes (active, then acknowledged alarms); the state and
the open alarms are read by one statement, and written together with the processed mark
by another, under the version read.  Beside the workers run an operator
(`SetAlarmStatus`, then `syncDeviceBusinessStatus` with its two separate reads), the
offline scan, connection reports, and the return of the platform's own state
publications.  A read-modify-write of a single row under its version is one action, at
its successful write; the retries before it have no effect.  `seen` is `LastSeenAt`;
the rule's verdict on a message is the constant `Kind`.  The history variable `missed` tells
whether a call ended, by a failure, an exit, its last conflict or for want of a state row,
after it may have changed the alarms and without writing the status, or a state the platform
had published came back (`UpdateDeviceState`) after the status had changed again; a write that
starts from the current alarms makes up for it.

### RuleChanges

`cache[p]` is the entry of `ruleCache` in process `p`, `none` when there is none younger than
`ruleCacheTTL`; a worker evaluates a message in a process (`host`), takes the rule cached there
(`Hit`) or loads and then stores it (`Load`, `Store`), so that an invalidation may fall
between.  Requests are served by one process, whose cache they invalidate; the others learn of
a change when their entry ages.  `open` are
the open alarms and `later` their order by `last_triggered_at`; `Place` counts what
`ListAlarms` returns before an alarm, and `Slice` is a page.  `closeRuleAlarms` is modelled with
its paging: list a batch, close the rule's alarms in it, restart at zero when something
changed, go on otherwise.  A request that fails is repeated by the administrator.
`quiet` records whether during a deletion no copy of the enabled rule was left and no
alarm left the part of the list already passed: `DeletedQuietly` is about those
deletions only.

### Outbox

A row is a sequence number.  `flushOutbox` tries a lock of its process (`Enter`); if it
is taken the relay's wake-up is set and the call returns.  A drain selects the first
rows no other transaction has locked, publishes them in order, and deletes in the same
transaction what was published (`Commit`, also after a failure in the middle).

### Notifications

The tasks of one alarm under a policy with two stages and a recovery notice.  `batch[p]`
holds the tasks a process claimed, with the attempts it read; `FinishTask` writes the
row by its id whoever holds the lease now.  A lease may run out while its holder still works on
the batch, twenty tasks of up to twenty seconds under a lease of sixty (`LeaseExpires`,
recorded in `overran` and counted as a fault), so that a task is claimed by two processes and
a late result is written over a final one.

### ExecutionLease and Coordinator

Time is relative: `row.left` until the lease expires, `session[p].left` until the
local timer fires, `age[p]` since the database call in progress was started.  A call is
three steps: its start, its effect in the database, its return; `Coordinator.mu` is held
throughout.  The timer of a session counts from the start of the call that acquired or
renewed the lease.  `Late` is how late a timer's callback may run.

### Replay

The archive is an interval `lo..hi` of messages in the order of their reception; pages
are read newest first, by offset, so messages that arrive push the pages back (some are
taken twice) and messages that expire leave at the far end.  `silent` is a heartbeat
older than `replayStale`; any reader of the task may then write `INTERRUPTED`, on the
row it read before (`stale`).

### ExternalRecords

A record is a version of one event.  `ExternalRecords` follows a worker through
`processRecord`: check of the event row and the binding, reservation (`PendingHash`) and
lock in one write under the row's revision, delivery into raw ingest, the wait for the
business result, the commit of the event row, and the release of the record.  `sent` and
`done` are the messages handed over and processed, each with the device the number was
bound to; `Process` is the rest of the platform, which may take any time.  Operators
retry settled records, under a changed mapping perhaps, and bind the number to another
device.  A claim's lease runs out when its worker is gone; revisions make late writes
fail.

### OnboardingBatch

`known` and `fresh` replace the revisions: who holds a current copy of the batch record
and of which row; a save by anyone makes all other copies stale.  `pc` is the position in
`RunBatch`, `b` its copy of the batch.  The secrets of a row are numbered by registration,
so that a row registered anew after its device was deleted has another secret; `device` is the
number of the secret the device has now, `Replaced` after an administrator rotated or revoked it
(`ChangeCredential`).  `template` is the template as the batch knew it, changed, or not ready:
`ApplyTemplate` saves it, which also takes its verification away, and `VerifyTemplate` gives it
back; a fingerprint that cannot be read counts as a difference (`Differs`).  A request
that collects secrets reads the row and compares the sealed secret with the device's.  A lease of
thirty seconds is renewed before each row, and a row has twenty seconds; `LeaseOverrun`
is a worker that is held up all the same (a long garbage collection, a stopped machine, or
the reset of many rows, which renews nothing).  Renewal every 25 rows is modelled as
renewal at the first.

## Runs

| Run | Checks | Bounds | Result |
|---|---|---|---|
| `consumer` | `CommitNeverSkips`, `KeyOrder`, `ImplementsLog`, `EverySettled`, `CommitCatchesUpUnlessReassigned` | 1 partition, 3 messages, 2 keys on 2 lanes, lane capacity 1, 1 fault, 1 rebalance or change of member | holds, 593,577 states |
| `inbox` | `CapacityExact`, `OneFilePerId`, `NothingStranded`, `AckedIsSafe`, `HandledEntryWaits`, `HeadNeverStarves` | 4 identities of which 1 is refused, capacity 2, 1 error, 3 publications, 1 operator retry, 1 fixture device | holds, 369,452 states |
| `raw_ingest` | `AckedIsDurable`, `OneContentPerId`, `MarkedWasPublished`, `AckedIsProcessed` | 2 processes, 1 identity with 2 contents, 2 databases, 2 attempts, 2 faults | holds, 243,171 states |
| `standard_delivery` | `PassedIsApplied`, `ProcessedUnlessReassigned` | 2 processes, report and recovery, 1 rebalance, 2 faults, 1 echo | holds, 363,868 states |
| `standard_status` | `StatusFollowsAlarms`, `SeenNeverRegresses` | 2 processes, report, recovery and a late retransmission, 2 attempts per write, 1 rebalance, 1 other writer, 1 echo, no failing call | holds, 1,257,188 states |
| `rules` | `DeletedQuietly`, `ChangeReachesAll` | 2 processes, 1 worker, 2 devices, 1 other alarm, batches of 1, 1 request, 1 fault | holds, 1,055,501 states |
| `outbox` | `EventNeverLost`, `WakeUpSuffices` | 2 processes, 3 events, batches of 2, 1 fault | holds, 47,424 states |
| `notifications` | `SentOnce`, `FinalIsFinal`, `ReportIsNotified` | 2 processes, 3 tasks, 2 attempts, 1 fault, a lease that runs out under its holder among them | holds, 438,726 states |
| `coordinator` | `LeaseOutlastsSession`, `ImplementsExclusiveSession`, `ValidationFences`, `ServedAgain` | 2 processes, lease 4, deadline 2, lateness 1, 3 tokens, 1 error | holds, 326,842 states |
| `replay` | `CompletedCovers`, `ReplayEnds` | 4 archived messages, pages of 2, 2 arrivals, 1 expiry, 2 pauses, 2 faults | holds, 168,239 states |
| `external_records` | `OneSender`, `ReservationHeldUnlessRebound`, `SentInOrderUnlessRebound`, `RecordsSettle` | 2 workers, 2 records of one event, 2 devices, 2 attempts, 1 fault, 1 retry, 1 rebinding | holds, 276,473 states |
| `batch` | `SettledUnlessOverrun`, `SecretOnce`, `SecretAccounted`, `ErasureWaits` | 2 workers, 2 requests, 2 rows, 1 fault, 1 overrun, 1 retry, 1 deletion, changes of the template and of secrets | holds, 1,462,269 states |

Why the bounds are enough to be interesting: three messages with the first and last on
one lane give a gap, a message behind the gap and a key order; capacity 1 makes a full
lane block the fetch loop; one change of member lets this reader's late commit and the other
member's fall in any order.  Three wanted identities at capacity 2 fill the queue and keep a
third waiting, and the fourth is refused.  One identity with two contents in two processes gives the race for the
reservation and for the index row, the conflict and the repetition; two faults give a
failed publication followed by a crash, and two attempts let a message stall.  Two
processes and one rebalance give two concurrent calls for one message; two faults suffice
for a crash with a claim and a failure after the alarm was written; lease expiry is not
bounded.  Two devices and another alarm at batches of one make closing page twice and
restart; the second process has a cache that no request invalidates.  Three events at batches of two make a drain with a rest.  A lease of four
ticks with a deadline of two and calls of up to two ticks keeps the ratios of the code
(10 s, 8 s, calls of 1 s) while every order of expiry, timer and answer occurs.  Four
messages on pages of two give a full last page and an empty one.  Two records
mapped to one of several contents each give older, equal and newer versions of an event
behind one another.  Two rows give a batch with a finished and an open row when a worker
stops, and a retry of one of them.

Deadlock is not checked where the bounded faults, requests or messages run out and the
system then rests; `outbox` and `raw_ingest` never rest (the relay's ticker, the senders)
and check it.

A version-checked write has eight attempts in the code and two in the runs of
`StandardProcessing`, so that giving up happens; the theorems hold for any number.  In
`standard_status` a call ends early only in that way: with a failing call beside the echo the
states are about twelve million, without an error but beyond the time of a run, and
`StatusIsCurrent` is proved for any number of failures.

Each property has a mutant in `PROJECT.json`, a plausible slip in the code
(`finish_IgnoresGap`, `Rearmed_FromReturn`, `Reserve_IdentityOnly`, ...), defined beside
the original.

### Fairness

Weak fairness of the goroutines that run for as long as the process does: fetch loop,
lanes, commit ticker, supervisor, drain loop, workers, mark flusher, retry job, relay,
delivery loop, replay runner, coordinator loop, the workers of external data, which look
for due work every few seconds.  A handler returns in bounded
time (ten seconds in the inbox), but its result is arbitrary: fairness is on the
disjunction of the outcomes, and it may fail every time.  The dead-letter publication
and the commit are retried by the code until the broker accepts them.  A process is
restarted (`NewReader`, `Restart`).  Leases run out, caches age and `maxPendingAge` passes
because time does.  Faults, rebalances, publications and operators are not fair, except
that an administrator repeats a failed request.  The outbox's ticker is not among the
assumptions: `WakeUpSuffices` holds without it.
`ReplayEnds` assumes that ingest does not stay paused for ever, `EverySettled` that a partition
comes back to this reader again and again (the other member need not do anything).

### Known limits

Behaviours the runs contain and the properties except by a condition.  Each was seen as a
counterexample when the condition was dropped:

- Twenty notification tasks of up to twenty seconds each share a lease of sixty
  (`notify/service.go:178,243`): when it runs out under its holder a task is sent by two
  processes, although "tasks are leased, so each is sent by one of them" (`service.go:158`).
  `SentOnce` allows one more send per overrun.  `FinishTask` writes by id, without looking at
  status or lease (`postgres/notifications.go:216`), so the late result of the first process
  brings a task back that the second has sent; `FinalIsFinal` says that this is the only way.
- A partition that another member has read: whoever commits last sets the group's offset, and a
  tracker compares with its own commits only (`consumer.go:311,322`), so that a late commit of
  either member moves the offset back.  Settled messages are delivered again, none is skipped
  (`CommitNeverSkips` has no condition); `ImplementsLog` and `CommitsNeverRegress` let the
  offset go back on such partitions only.
- "Changes made through this process take effect immediately" (`core/rule_cache.go:11-13`) does
  not hold of a worker that loaded the rules before the change was saved and stores them after
  `RulesChanged` emptied the cache: the process evaluates the old rules until the entry is older
  than `ruleCacheTTL`.  `ChangeReachesAll` says that no other step leaves an outdated entry
  there, and that in the end every process evaluates the stored rule.
- Each first or changed device state is published (`consistency.go:124`) and comes back on the
  state topic (`platformapp/app.go:680`).  One that comes back after the status has changed again
  overwrites the newer status (`device_state.go:143`), and is published in turn, so that two
  publications on their way can replace each other repeatedly; the status then stays wrong until
  a write starts from the current alarms.  `StatusFollowsAlarms` excepts it (`missed`).
- A worker that already holds the enabled rule, or another process's cache, raises an alarm
  after `DeleteRule` closed the rule's alarms (`alarm_rules.go:115`); the alarm stays
  without its rule, although "the rule is switched off first so it raises nothing new"
  (`alarm_rules.go:97`).  `DeletedQuietly` is about deletions without such a worker.
- After an external number was bound to another device, the next attempt of a version that
  was already enqueued is refused as invalid and frees the event for another version
  (`externaldata/runtime.go:421`), although "an enqueued raw message keeps its reservation"
  (`runtime.go:418`): the condition `UnlessRebound`.
- Each look for a business result counts as an attempt; after the last one nobody looks
  again, the reservation stays, and newer versions of the event are put off for ever
  (`runtime.go:390`).  `RecordsSettle` excepts records behind a version that was given up.
- A batch worker whose lease ran out while it resets rows for a retry, a loop that renews no
  lease (`task_runner.go:111`), sets a row back to PENDING that its successor has settled; the
  batch is then PARTIAL_FAILED with a row that cannot be retried.  `SettledUnlessOverrun`
  excepts it.  One that is overtaken within a row leaves the successor with a pending count
  that is too large, and the batch is PAUSED for rows that do not exist
  (`task_runner.go:268`).
- An overtaken batch worker may register a device once more after an administrator deleted it;
  its save of the row fails, and the device has a secret that no row holds, while the row offers
  the earlier one.  `SecretAccounted` says that the sealed secret is the device's, or the device
  was deleted or its secret replaced, where not both an overrun and a deletion happened.
- A row has one erasure job (`task_runner.go:329`): when its device was deleted and the row
  registers it anew after a crash, the second secret is not covered by it.  `ErasureWaits` is
  about rows registered once.

Further limits that no property is about:

- A partition that is assigned again to the reader that was reading it may occur twice in
  the tracker; commits of it can then stall until the reader is replaced
  (`consumer.go:297`), which is why `CommitCatchesUpUnlessReassigned` has its condition.
- An entry received again after it was settled behind the head takes over its old place
  in the reception order (`queue.go:98`).
- A second report that adds to an open alarm is counted again when it is retried
  (`external_data.go:63`).
- A fenced-out process passes the offset; if the process that took over dies, nobody marks
  the message processed (`engine.go:575`): the condition in `ProcessedUnlessReassigned`.
- An operator's call that ends an alarm before the device has a state row finds nothing to
  synchronise (`device_state.go:98`); a completion that read the alarm before then writes
  the status ALARM, which stays until the next message: part of `missed`.
- A replay that is cancelled while it lists a page is saved as FAILED, and one that waits
  for paused ingest sends no heartbeat and is reported INTERRUPTED while it runs.
- Two administrators who save and delete one rule at the same time may bring it back, as
  `SaveRule` inserts; a repeated deletion does not set the status of devices whose alarms
  the failed attempt closed; a list of more than one batch of open alarms from which other
  alarms leave may hide one of the rule's.
- `ClaimCredentials` drops its whole answer when the check of a later row fails; the
  secrets of the earlier rows are saved as DELIVERED and have to be issued anew
  (`tasks.go:553`).
- `ClaimCredentials` compares a sealed secret with the device before it saves the row
  (`tasks.go:581-601`): one that is rotated or revoked in between is handed out although it no
  longer works.

## Proofs

For every value of the constants that satisfies the named assumption of the module
(`ConsumerAssumption`, `StandardAssumption`, `RawAssumption`, `NotificationAssumption`,
`BatchAssumption`, `ExternalAssumption`, `QueueAssumption` with `InboxAssumption`,
`LeaseAssumption` with `CoordinatorAssumption`), all of which only give the constants their
types, keep "no such thing" values apart from real ones and make the identities of the
queue a finite set.  The property of an instantiated
module is stated in the small module of its promise, which the proof module and the
component both extend.  A theorem about an instantiated module has what it needs of that
module's assumption as a hypothesis: positive batch and page sizes and natural numbers as
bounds for `Outbox` and `Replay`, `RuleConstants` (the whole of `RuleAssumption`) for
`RuleChanges`.  Where a theorem needs more, its statement says so (`Timing`):

| Theorem | Statement |
|---|---|
| `ConsumerTypeCorrect` | `Spec => []TypeOK` |
| `CommitSafety` | `Spec => []CommitNeverSkips` |
| `CommitsMoveForward` | `Spec => CommitsNeverRegress` |
| `ConsumerImplementsLog` | `Spec => ImplementsLog` |
| `KeysSettleInOrder` | `Spec => []KeyOrder` |
| `StandardTypeCorrect` | `Spec => []StandardTypeOK` |
| `NoReportLost` | `Spec => []PassedIsApplied` |
| `SeenMovesForward` | `Spec => SeenNeverRegresses` |
| `StatusIsCurrent` | `Spec => []StatusFollowsAlarms` |
| `RawTypeCorrect` | `Spec => []RawTypeOK` |
| `AckedDurable` | `Spec => []AckedIsDurable` |
| `OneContent` | `Spec => []OneContentPerId` |
| `MarkedPublished` | `Spec => []MarkedWasPublished` |
| `IndexSticky` | `Spec => IndexIsSticky` |
| `CoordinatorTypeCorrect` | `ASSUME Timing PROVE Spec => []CoordinatorTypeOK` |
| `LeaseOutlasts` | `ASSUME Timing PROVE Spec => []LeaseOutlastsSession` |
| `ValidationIsFenced` | `ASSUME Timing PROVE Spec => ValidationFences` |
| `CoordinatorExclusive` | `ASSUME Timing PROVE Spec => ImplementsExclusiveSession` |
| `OutboxTypeCorrect` | `Events!Spec => []Events!OutboxTypeOK` |
| `OutboxKeepsEvents` | `Events!Spec => []EventNeverLost` |
| `RuleTypesHold` | `ASSUME RuleConstants PROVE Rules!Spec => []Rules!RulesTypeOK` |
| `DeletionCloses` | `ASSUME RuleConstants PROVE Rules!Spec => []DeletedQuietly` |
| `NotificationTypeCorrect` | `Spec => []NotificationTypeOK` |
| `TasksSentOnce` | `Spec => []SentOnce` |
| `FinalStaysFinal` | `Spec => FinalIsFinal` |
| `QueueTypeCorrect` | `Spec => []QueueTypeOK` |
| `AckedIsDurable` | `Spec => []AckedIsSafe` |
| `HandledEntryStays` | `Spec => []HandledEntryWaits` |
| `QueueServesAll` | `Spec => []NothingStranded` |
| `CapacityIsExact` | `Spec => []CapacityExact` |
| `OneFileEach` | `Spec => []OneFilePerId` |
| `EventHasOneSender` | `Spec => []OneSender` |
| `SentKeepsReservation` | `Spec => []ReservationHeldUnlessRebound` |
| `VersionsSentInOrder` | `Spec => SentInOrderUnlessRebound` |
| `BatchTypesHold` | `Spec => []BatchTyped` |
| `SecretHandedOnce` | `Spec => []SecretOnce` |
| `SecretIsAccounted` | `Spec => []SecretAccounted` |
| `ErasureIsWaiting` | `Spec => []ErasureWaits` |
| `SettledCountsRows` | `Spec => []SettledUnlessOverrun` |
| `ReplayCovers` | `Replays!Spec => []CompletedCovers` |
| `ReplaysLimited` | `Replays!Spec => []Limited` |

**Consumer.**  `CommitNeverSkips` is not inductive: that a batch may be committed depends
on what the tracker believes.  `ConsumerInv` adds three things.  `DoneSettled`: what the
tracker recorded as finished was settled first.  `PendingCovers`: an unsettled offset
that the reader has passed is pending, and in front of every larger pending offset, so
that popping the finished prefix never jumps over it; a rebalance, which sets the
position back and records offsets twice, keeps this form where a sorted `pending` would
not survive.  `CommitPoints`: everything below the finished prefix, the batch in flight
and the group's offset is settled.  They hold whatever other members commit, because what is
settled stays settled.  For `CommitsMoveForward`, `ReaderAhead` relates the
reader to the group on a partition that no other member has read: before its first commit it
has fetched nothing below the group's
offset, afterwards `committed` is exactly the group's offset, and a batch is ahead of it.
The refinement maps `settled`, `group` and `shared` to themselves: handling, dead letters and
`OtherSettles` are `Settle` steps, the two commits and `OtherCommits` are `Commit` steps,
`Taken` is a `Share` step, all others stutter.

`KeyOrder` says nothing of messages that are on their way; `OrderInv` adds `LaneOrder`.
A message that is not settled and that the reader has passed waits in its lane or at the
lane's entrance (`FetchedWaits`); it stands in front of each later message of its key
there (`FrontOfEntrance`, `FrontOfQueued`), none of which is being handled
(`FrontOfHandled`).  The invariant speaks of unsettled messages only, because a rebalance
puts settled ones into the lanes again in any position.  `EntranceClosed`, that nothing
waits at the entrance of a lane when no reader fetches, makes the next reader start from
the lanes alone.

**Standard processing.**  `PassedIsApplied` needs to know what a call in flight has done:
a worker past its `apply` step has counted its report (`CallCounted`), and the open alarm
of a trigger was counted for it (`TriggerCounted`), which is why a report that
`UpsertAlarm` ignores is not lost.  `SeenNeverRegresses` needs `SnapsAgree`: a snapshot
whose version equals the row's version has the row's reception time, so a write that
passes the version check starts from the current value.

`StatusFollowsAlarms` says something only when nothing runs.  `ChangeIsComing` says what
makes it true: while the status is behind the alarms, or a snapshot that would pass the
version check has missed a change of the alarms, some call is on its way that will read the
alarms, holds the current ones, or will fail its version check and read again.  The alarms
themselves have no version that a write could check, so a stale snapshot is written; but
whoever changed the alarms writes the status afterwards (a worker completes, an operator
synchronises), and that write makes every older snapshot fail (`NoneStale`).  When a call
ends without having written, or an outdated state that was published earlier is written,
`missed` is set; a state that comes back while the row still has that status changes nothing
the invariant speaks of.  The property was first stated with a
condition on the operator alone and on `CasAttempts`, and the attempt to prove it for all
values showed the other ways to leave the status behind.

**Raw ingest.**  `RawInv` follows a message through the stores.  A running call holds the
content that won the reservation (`CallReserved`), so both databases hold only winning
contents (`StoreReserved`), and an index row names the winning content and a database
that holds it (`IndexStored`).  `CallStored` ties the step of a call to what it made
durable: before `SaveIndex` its message is in the database it remembers, before the
publication the identity is indexed; `TodoIndexed` says the same of the retry job's list.
With them, what was sent or acknowledged is indexed with its own content
(`KnownIndexed`), and a mark is never ahead of its publication.  `Kept` collects what no
step takes back, from which `IndexSticky` follows.

**Coordinator.**  `Timing` says that a call is not longer than the session's deadline and
that deadline and lateness together are less than the lease; the code's figures (8 s, 10 s,
calls of `Run` limited to 1 s) satisfy it for timers less than two seconds late, but `Claim`
has no limit of its own and relies on its caller's context.  The inductive invariant
`CoordinatorInv` is about answers on their way back: between the effect of a call and its
return the row still names the process, under the token of the answer, with at least the
lease minus the call's age left (`AnswerHolds`), so a session that starts or is renewed
from the answer satisfies `LeaseOutlastsSession`.  `Control` says where a session can be
live, and `LastBehind` that the last session's token is not larger than the row's and, if
equal, was its owner's.  The refinement maps the live processes to `active` and the last
started session to `holder` and `epoch`; the return of a claim is a `Start` step, the
timer, giving up, a lost renewal, shutdown and crash are `Stop` steps, all others
stutter.

**Outbox.**  `EventNeverLost` follows from `SentPublished`: what a draining transaction
counts as published, and will delete when it commits, is on the bus.  The type invariant
already says that the rows of two transactions are disjoint (`SKIP LOCKED`) and that
exactly the flusher at `drain` holds `outboxMu` of its process.

**Deletion of a rule.**  `closeRuleAlarms` pages by offset through a list that changes.  The
proof is about places in a total order: a place is the number of alarms before it, places
have no gaps (`NoGap`, so an empty page is the end of the list), an alarm that leaves behind
the passed part does not change it (`LeavesBehind`), and a report moves its alarm to the
front and the others back at most (`MovesBack`).  While the deletion is undisturbed
(`quiet`), no copy can evaluate the enabled rule (`NoneEnabled`) and the rule stays off or
gone (`Deleting`); the passed part of the list holds no alarm of the rule but those of the
page in hand (`PassedClear`), when the acknowledged ones are paged no active one is left
(`ActiveClear`), and none at all when the devices are synchronised (`AllClear`).  An alarm of
the rule does not come back to the active ones, because only the enabled rule raises it.
`AlarmKnown`, a device in status ALARM has an open alarm or is about to be synchronised,
gives the second half, without failures.

**Notifications.**  `Counted` is one inequality per task: its sends, plus the batches that hold it
and have not sent it (`Unsent`), plus one if it may be claimed without another failure, being
neither final nor held under its lease (`Open`), are at most one more than the faults.  A claim
turns the last part into the second, a send the second into the first, and a send that failed
the second back into the last; a lost answer, an exit and a lease that runs out under its holder
raise the faults where they raise the other side.  While no lease has run out under its holder (`~overran`), a
task in a batch is `SENDING` and leased (`HeldLeased`) and in no second batch (`HeldOnce`), which
gives `FinalIsFinal`: only `FinishTask` of a loop that holds the task can then change it, and the
task is not final.

**Queue and inbox.**  `QueueInv` relates the directory the process sees to the set of
directories a crash may leave: it is one of them (`DirFound`), and each has one file at most
per identity (`OneKind`).  Then files are counted by identities, and `CountExact` says that
`items` is their number; the lemmas on counting carry this through `put`, the renames and
the removals, and through a restart that counts the files anew.  `NothingStranded` is kept
because every operation that makes a file wait also appends its identity, and `head` drops
only names that no longer wait.  For the inbox, `DrainTyped` and `AckSettled` (an entry is
about to be removed only after it was handled) are added, and `AckedIsSafe` then holds
because only a flushed file is acknowledged and later operations never take the last
certain file of an unhandled entry.

**External records.**  `ClaimHeld`: a worker that is not idle holds the claim of a
`RUNNING` record, so that neither a retry nor another claim changes the content under it.
`CopyFree` is the heart of `OneSender`: a worker that is about to reserve, and whose copy of
the event row is still the current one, finds the event free, reserved for nobody else
and committed with an older version, so the revision check of `Put` is enough.
`LockedNewer` keeps the last part while the worker sends.  `SentInv` follows what was sent:
while no number has been bound anew everything names the first device (`OneDevice`),
nothing malformed was sent (`NoneMalformed`, a refused version frees the event), and
the reservation is held.  `VersionsSentInOrder` combines `LockedNewer` with the
reservation: what was sent is committed, older than the committed version, or the
reserved one, and only the holder of the lock sends.

**Batches.**  Secrets are numbered by registrations (`Numbered`), so that old and new ones of
a row are told apart; a device has none, the latest of its row, or one that replaced it.  `OnItsWay` follows a secret from the registration to the row: only the
worker that registered has it, nobody received it, and once the worker is past the job's
creation the erasure is queued for it; `Sealed` says the same of a secret in its row.
`CopiesCurrent` is what makes revisions enough: a request whose copy of a row is current
opened the secret that is still in it, so of several requests one saves the row as delivered.
`RowsTell` relates credential, delivery and status of a row.  `Latest` is for the last part of
`SecretAccounted`: without an overrun a row in a worker's hand is that worker's alone, so a
sealed secret is that of the latest registration.  For the counts, `Alone` says
what the lease excludes, and `CountsAdd` that the counts of a worker add up to the rows it
went through and never count a row as finished that is not; then a pending count of zero
leaves no room but for the true counts.  An overtaken worker may only leave a count too
small, and its save of the batch fails, unless it resets rows for a retry: hence the
condition of `SettledUnlessOverrun`.

**Replay.**  `Covers` relates the offset to the archive: what was archived at the start, still
is, and is newer than the message at the offset, has been taken or is in the page in hand.
Arrivals raise `hi` and only make pages overlap, expiries take the oldest messages, which
are not due any more; a page that is not full is the last (`size < PageSize`).

**Only model-checked:** liveness (`EverySettled`, `CommitCatchesUpUnlessReassigned`,
`HeadNeverStarves`, `ProcessedUnlessReassigned`, `AckedIsProcessed`, `WakeUpSuffices`,
`ReportIsNotified`, `ReplayEnds`, `ChangeReachesAll`, `ServedAgain`, `RecordsSettle`), which
needs fairness and `ENABLED`, neither of which the prover supports.  `ChangeReachesAll` has a
second conjunct that is a safety property, checked only as well.  Every other safety property
and both refinements that the runs check are also proved.

## Not modelled

- Byte sizes, payloads, topics, logging, metrics and wording.
- Of standard processing: duration rules, component, direct and external alarms,
  verification and attachments, states reported with arbitrary content, the
  process-local device lock (it only orders calls of one process, which the model lets
  interleave at most once per process and the operator).
- Of the inbox: subscriptions, the identity file and locks of the directory.
- Of raw ingest: the parsed marks, creation of gateway children, the protocol cache, and
  the lock per identity within one process (two processes are not ordered by it).
- Of notifications: rendering, channels, several policies (they share nothing but the
  tasks' table); of replay: DRY_RUN and DIFF, which change nothing but the report.
- Of the coordinator: the comparison of the profile's configuration.  Singleton jobs use
  the same lease without a local deadline (`singleton.go:82`): a job may overlap its
  successor, and the jobs are written to tolerate it.
- Of external data: schedules and pull jobs, HTTP and its authentication, the mapping of fields, throttling.
- Of onboarding: drafts, preflight, planning of a registration and its transaction's
  tables; a key of sealed secrets that was changed (the row then stays until it is erased).
- Rule evaluation, parsers, protocol listeners (pure data or socket I/O); video, AI, ops
  center, backup, capacity load, API handlers (I/O around the core's operations); the
  in-memory repository, which is a test double of the PostgreSQL one.

Most of the repository's lines are of these kinds, request handlers, renderers, parsers,
registries and clients of other services, so the share of lines the models translate is
small although the part where processes, failures and orders meet is covered.

## Plan

1. Component and direct alarms in `StandardProcessing`.
2. Schedules and pull jobs of external data; that a batch settles (liveness).
3. The resident parser workers, the capacity agent's leases, the insert batcher of the
   message store.

## Running

```
tlc -config consumer.cfg MCKafkaConsumer
tlapm KafkaConsumerProofs.tla
```
