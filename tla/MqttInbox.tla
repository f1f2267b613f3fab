----------------------------- MODULE MqttInbox -----------------------------
(***************************************************************************)
(* One shard of the MQTT receive inbox (internal/adapters/mqtt): deliveries *)
(* of the broker are persisted in a DurableQueue before they are            *)
(* acknowledged, and a drain loop hands them to the business handler.       *)
(* Shards share nothing but the connection.                                 *)
(*                                                                          *)
(* Time is the action Aged: maxPendingAge has passed since the first of the *)
(* head's failures.                                                         *)
(***************************************************************************)
EXTENDS DurableQueue

CONSTANTS MaxPublish,  \* bound on publications and lost acknowledgements
          Refused,     \* unknown topic, too large, retained, or an empty state that clears one
          Fixtures,    \* the ids a capacity cleanup may discard
          MaxRetries   \* bound on operator retries of rejected entries

ASSUME InboxAssumption ==
    /\ MaxPublish \in Nat
    /\ Refused \subseteq Ids /\ Fixtures \subseteq Ids
    /\ MaxRetries \in Nat

VARIABLES
    published,  \* number of publications and lost acknowledgements
    inflight,   \* broker: published ids without an acknowledgement
    tried,      \* ids delivered on this connection and not acknowledged
    stage,      \* drain loop: idle, handling, ack, reject (drainMu held if not idle)
    cur,        \* drain loop: the entry Next returned
    fail,       \* headFailures: the failing head, none if the map has no entry
    aged,       \* maxPendingAge passed since fail was recorded
    acked,      \* history: ids whose last receipt was acknowledged to the broker
    settled,    \* history: ids whose last receipt was handled or discarded
    retries

conn  == <<published, inflight, tried>>
drain == <<stage, cur, fail, aged>>
past  == <<acked, settled>>
vars  == <<qvars, conn, drain, past, retries>>

None == <<>>

Init ==
    /\ QueueInit
    /\ published = 0
    /\ inflight = {} /\ tried = {}
    /\ stage = "idle" /\ cur = None /\ fail = None /\ aged = FALSE
    /\ acked = {} /\ settled = {} /\ retries = 0

----------------------------------------------------------------------------
(* receive and persist *)

\* External: a device publishes with QoS 1, the session keeps it until it is acked.
Publish(i) ==
    /\ published < MaxPublish /\ i \notin inflight
    /\ published' = published + 1
    /\ inflight' = inflight \cup {i}
    /\ UNCHANGED <<qvars, tried, drain, past, retries>>

Arrived(i) == open /\ i \in inflight \ tried

\* receive acknowledges what it does not take, and drops it.
Drop(i) ==
    /\ Arrived(i) /\ i \in Refused
    /\ inflight' = inflight \ {i}
    /\ UNCHANGED <<qvars, published, tried, drain, past, retries>>

Delivered(i) == Arrived(i) /\ i \notin Refused

\* put returned nil: the delivery is acknowledged inside the callback.
Persist(i) ==
    /\ Delivered(i)
    /\ \/ PutNew(i, TRUE) /\ settled' = settled \ {i}
       \/ PutSame(i, TRUE) /\ UNCHANGED settled
    /\ acked' = acked \cup {i}
    /\ inflight' = inflight \ {i}
    /\ UNCHANGED <<published, tried, drain, retries>>

\* put returned nil, but the connection is lost before the broker has the
\* acknowledgement, and the broker delivers again.
AckLost(i) ==
    /\ Delivered(i)
    /\ \/ PutNew(i, TRUE) /\ settled' = settled \ {i} /\ acked' = acked \ {i}
       \/ PutSame(i, TRUE) /\ UNCHANGED past
    /\ published < MaxPublish /\ published' = published + 1
    /\ tried' = tried \cup {i}
    /\ UNCHANGED <<inflight, drain, retries>>

\* A delivery whose directory flush failed is acknowledged all the same.
PersistFailed_Acks(i) ==
    /\ Delivered(i)
    /\ \/ PutNew(i, FALSE) /\ settled' = settled \ {i} /\ acked' = acked \cup {i}
       \/ PutSame(i, FALSE) /\ UNCHANGED past
       \/ PutRefused(i) /\ UNCHANGED past
    /\ tried' = tried \cup {i}
    /\ UNCHANGED <<published, inflight, drain, retries>>

\* put failed: no acknowledgement, and retryConnection asks for a redelivery.
PersistFailed(i) ==
    /\ Delivered(i)
    /\ \/ PutNew(i, FALSE) /\ settled' = settled \ {i} /\ acked' = acked \ {i}
       \/ PutSame(i, FALSE) /\ UNCHANGED past
       \/ PutRefused(i) /\ UNCHANGED past
    /\ tried' = tried \cup {i}
    /\ UNCHANGED <<published, inflight, drain, retries>>

\* The read deadline expired: a new connection redelivers what is not acked.
Reconnect ==
    /\ open /\ tried # {}
    /\ tried' = {}
    /\ UNCHANGED <<qvars, published, inflight, drain, past, retries>>

----------------------------------------------------------------------------
(* The drain loop: Next, the business handler, Ack or Reject *)

DrainNext ==
    /\ stage = "idle"
    /\ \E k \in DOMAIN order : NextServe(k) /\ cur' = order[k]
    /\ stage' = "handling"
    /\ UNCHANGED <<conn, fail, aged, past, retries>>

DrainCorrupt ==
    /\ stage = "idle"
    /\ \E k \in DOMAIN order, ok \in BOOLEAN : NextCorrupt(k, ok)
    /\ UNCHANGED <<conn, drain, past, retries>>

DrainEmpty ==
    /\ stage = "idle"
    /\ NextEmpty
    /\ UNCHANGED <<conn, drain, past, retries>>

Handled(to) ==
    /\ open /\ stage = "handling"
    /\ stage' = to
    /\ cur' = IF to = "idle" THEN None ELSE cur
    /\ UNCHANGED <<open, disk, memory, conn, acked, retries>>

HandlerOk ==
    /\ Handled("ack")
    /\ settled' = settled \cup {cur}
    /\ UNCHANGED <<fail, aged, errors>>

\* A permanent error, or an envelope that fails its integrity check.
HandlerPermanent == Handled("reject") /\ UNCHANGED <<fail, aged, settled, errors>>

\* Every failure of the head starts the time again.
HandlerTransient_Restarts ==
    /\ Handled("idle")
    /\ fail' = cur /\ aged' = FALSE
    /\ UNCHANGED <<settled, errors>>

\* stuck: a head that was not failing starts its own time, and later failures do
\* not restart it; the entry stays while the failure is younger than maxPendingAge.
HandlerTransient ==
    /\ Handled("idle")
    /\ \/ fail # cur /\ fail' = cur /\ aged' = FALSE
       \/ fail = cur /\ ~aged /\ UNCHANGED <<fail, aged>>
    /\ UNCHANGED <<settled, errors>>

HandlerStuck ==
    /\ fail = cur /\ aged
    /\ Handled("reject")
    /\ UNCHANGED <<fail, aged, settled, errors>>

\* ErrBackpressure never quarantines, and does not touch headFailures.
Backpressure == Handled("idle") /\ Err /\ UNCHANGED <<fail, aged, settled>>

Aged ==
    /\ open /\ fail # None /\ ~aged
    /\ aged' = TRUE
    /\ UNCHANGED <<qvars, conn, stage, cur, fail, past, retries>>

\* Ack or Reject returned: headFailures is cleared only when it succeeded.
Settle(ok) ==
    /\ stage' = "idle" /\ cur' = None
    /\ IF ok THEN fail' = None /\ aged' = FALSE ELSE UNCHANGED <<fail, aged>>
    /\ UNCHANGED <<conn, past, retries>>

DrainAck(ok) == stage = "ack" /\ Ack(cur, ok) /\ Settle(ok)

DrainReject(ok) == stage = "reject" /\ Reject(cur, ok) /\ Settle(ok)

----------------------------------------------------------------------------
(* Operators, faults *)

\* An operator requeues rejected entries; the drain lock is not taken.
RetryAll ==
    /\ retries < MaxRetries
    /\ retries' = retries + 1
    /\ \E R \in SUBSET Ids, ok \in BOOLEAN : RetryRejected(R, ok)
    /\ UNCHANGED <<conn, drain, past>>

\* The cleanup does not wait for the entry that is being handled.
DiscardCapacityInbox_NoLock ==
    /\ \E D \in SUBSET Fixtures : \E last \in D, ok \in BOOLEAN :
          /\ DiscardMatching(Fixtures, D, last, ok)
          /\ settled' = settled \cup D
    /\ UNCHANGED <<conn, drain, acked, retries>>

\* A capacity cleanup removes the fixture devices' receipts, under drainMu.
DiscardCapacityInbox ==
    /\ stage = "idle"
    /\ \E D \in SUBSET Fixtures : \E last \in D, ok \in BOOLEAN :
          /\ DiscardMatching(Fixtures, D, last, ok)
          /\ settled' = settled \cup D
    /\ UNCHANGED <<conn, drain, acked, retries>>

Rot(i) == Decay(i) /\ UNCHANGED <<conn, drain, past, retries>>

Crash ==
    /\ QueueCrash
    /\ tried' = {} /\ stage' = "idle" /\ cur' = None /\ fail' = None /\ aged' = FALSE
    /\ UNCHANGED <<published, inflight, past, retries>>

Restart == OpenQueue /\ UNCHANGED <<conn, drain, past, retries>>

Handler == HandlerOk \/ HandlerPermanent \/ HandlerTransient \/ HandlerStuck

Next ==
    \/ \E i \in Ids : Publish(i) \/ Drop(i) \/ Persist(i) \/ AckLost(i) \/ PersistFailed(i) \/ Rot(i)
    \/ Reconnect
    \/ DrainNext \/ DrainCorrupt \/ DrainEmpty
    \/ Handler \/ Backpressure \/ Aged
    \/ \E ok \in BOOLEAN : DrainAck(ok) \/ DrainReject(ok)
    \/ RetryAll \/ DiscardCapacityInbox
    \/ Crash \/ Restart

Spec == Init /\ [][Next]_vars

\* The process is restarted, the drain goroutine keeps running, every handler
\* returns (ten second timeout), and time passes.
Fairness ==
    /\ WF_vars(Restart)
    /\ WF_vars(DrainNext) /\ WF_vars(DrainCorrupt)
    /\ WF_vars(Handler)
    /\ WF_vars(\E ok \in BOOLEAN : DrainAck(ok) \/ DrainReject(ok))
    /\ WF_vars(Aged)

FairSpec == Spec /\ Fairness

----------------------------------------------------------------------------
(* Properties *)

\* An acknowledged receipt cannot be lost: until it was handled or discarded, a
\* crash at any moment, after any failed flushes, finds a file of it.
AckedIsSafe == \A i \in acked \ settled : {} \notin maybe[i]

\* While an entry is handled its file is still waiting, even though put, an
\* operator's retry and failed flushes interleave: Ack and Reject find it.
HandledEntryWaits == open /\ stage # "idle" => "json" \in dir[cur]

\* Every waiting entry leaves the head eventually: handled, rejected, quarantined
\* as corrupt or as stuck, or discarded, so that it does not block the shard.
HeadNeverStarves == \A i \in Ids : "json" \in dir[i] ~> "json" \notin dir[i]

=============================================================================
