------------------------------ MODULE RawIngest ------------------------------
(***************************************************************************)
(* The way of a raw message into the platform (core/engine.go): IngestRaw   *)
(* reserves its identity, stores it in one of two databases, indexes it and  *)
(* publishes it to the raw topic; the "published" mark is buffered in memory *)
(* (postgres/raw_marks.go); the retry job publishes what is indexed and not   *)
(* marked; handleRaw parses what is published and forwards it.               *)
(*                                                                          *)
(* A message is an identity and a content (payload, device and product: what *)
(* decides whether a reused identity is a conflict).  Every call to the      *)
(* database, the stores or the bus is a step; each may fail.  The "parsed"    *)
(* mark is left out: nothing in the program decides by it.                   *)
(***************************************************************************)
EXTENDS Integers, FiniteSets

CONSTANTS
    Procs,         \* processes, each with an ingest call and a mark buffer
    Ids,           \* message identities
    Contents,      \* what may be sent under an identity
    NoContent,
    Buckets,       \* the databases of rawstore: postgres, clickhouse
    NoBucket,
    MaxAttempts,   \* model.MaxRawPublishAttempts
    MaxFaults      \* bound on failed calls and process exits

ASSUME RawAssumption ==
    /\ NoContent \notin Contents /\ NoBucket \notin Buckets
    /\ MaxAttempts \in Nat \ {0}
    /\ MaxFaults \in Nat

Messages == Ids \X Contents

VARIABLES
    reserved,    \* raw_ingest_reservation: content per identity
    store,       \* store[b]: messages in database b
    index,       \* raw_archive_index: content, bucket, published, attempts
    publishing,  \* rawMarks.publish of each process
    pc,          \* step of the process's IngestRaw call
    cur,         \* its message
    bucket,      \* the database it stored the message in
    todo,        \* identities left in the batch of the retry job
    queue,       \* raw topic: published messages not yet settled
    forwarded,   \* messages on the business stream
    acked,       \* history: messages IngestRaw answered without an error
    rejected,    \* history: messages that did not parse
    faults

ingest   == <<pc, cur, bucket>>
database == <<reserved, store, index>>
vars == <<database, publishing, ingest, todo, queue, forwarded, acked, rejected, faults>>

NoMessage == <<NoContent, NoContent>>
NoIndex   == [content |-> NoContent, bucket |-> NoBucket, published |-> FALSE, attempts |-> 0]

Init ==
    /\ reserved = [i \in Ids |-> NoContent]
    /\ store = [b \in Buckets |-> {}]
    /\ index = [i \in Ids |-> NoIndex]
    /\ publishing = [p \in Procs |-> {}]
    /\ pc = [p \in Procs |-> "idle"]
    /\ cur = [p \in Procs |-> NoMessage]
    /\ bucket = [p \in Procs |-> NoBucket]
    /\ todo = {}
    /\ queue = {}
    /\ forwarded = {} /\ acked = {} /\ rejected = {}
    /\ faults = 0

Indexed(i) == index[i].content # NoContent

(* GetRaw reads the database the index names.                                *)
Readable(i) == <<i, index[i].content>> \in store[index[i].bucket]

Fault == faults < MaxFaults /\ faults' = faults + 1

(***************************************************************************)
(* IngestRaw.                                                               *)
(***************************************************************************)
Goto(p, label) == pc' = [pc EXCEPT ![p] = label]

(* The call ends: acknowledged, or with an error the sender sees.            *)
End(p) ==
    /\ Goto(p, "idle")
    /\ cur' = [cur EXCEPT ![p] = NoMessage]
    /\ bucket' = [bucket EXCEPT ![p] = NoBucket]

Answer(p) == End(p) /\ acked' = acked \cup {cur[p]}

(* A call starts with ReserveRawMessage: the first content of an identity     *)
(* wins, and another content is refused.                                     *)
Reserve_IdentityOnly(p, i, c) ==
    /\ pc[p] = "idle"
    /\ cur' = [cur EXCEPT ![p] = <<i, c>>]
    /\ \/ /\ reserved[i] = NoContent
          /\ reserved' = [reserved EXCEPT ![i] = c]
          /\ Goto(p, "put")
       \/ /\ reserved[i] # NoContent
          /\ Goto(p, "lookup") /\ UNCHANGED reserved
    /\ UNCHANGED <<store, index, publishing, bucket, todo, queue, forwarded, acked, rejected, faults>>

Reserve(p, i, c) ==
    /\ pc[p] = "idle"
    /\ reserved[i] \in {c, NoContent}
    /\ cur' = [cur EXCEPT ![p] = <<i, c>>]
    /\ \/ /\ reserved[i] = NoContent
          /\ reserved' = [reserved EXCEPT ![i] = c]
          /\ Goto(p, "put")
       \/ /\ reserved[i] = c
          /\ Goto(p, "lookup") /\ UNCHANGED reserved
    /\ UNCHANGED <<store, index, publishing, bucket, todo, queue, forwarded, acked, rejected, faults>>

(* The identity was seen before: what its index says decides.                *)
Lookup(p) ==
    /\ pc[p] = "lookup"
    /\ LET i == cur[p][1] IN
       \/ /\ ~Indexed(i)
          /\ Goto(p, "put") /\ UNCHANGED <<cur, bucket, acked>>
       \/ /\ Indexed(i) /\ index[i].content # cur[p][2]
          /\ End(p) /\ UNCHANGED acked
       \/ /\ index[i].content = cur[p][2] /\ index[i].published
          /\ Answer(p)
       \/ /\ index[i].content = cur[p][2] /\ ~index[i].published
          /\ Readable(i)
          /\ Goto(p, "publish") /\ UNCHANGED <<cur, bucket, acked>>
    /\ UNCHANGED <<database, publishing, todo, queue, forwarded, rejected, faults>>

(* PutRaw: the device's observed frequency, which a repetition may see       *)
(* differently, decides which database the message goes to.                  *)
Put_ErrorIgnored(p) ==
    /\ pc[p] = "put"
    /\ \E b \in Buckets : /\ \/ store' = [store EXCEPT ![b] = @ \cup {cur[p]}]
                             \/ UNCHANGED store
                          /\ bucket' = [bucket EXCEPT ![p] = b]
    /\ Goto(p, "index")
    /\ UNCHANGED <<reserved, index, publishing, cur, todo, queue, forwarded, acked, rejected, faults>>

Put(p) ==
    /\ pc[p] = "put"
    /\ \E b \in Buckets : /\ store' = [store EXCEPT ![b] = @ \cup {cur[p]}]
                          /\ bucket' = [bucket EXCEPT ![p] = b]
    /\ Goto(p, "index")
    /\ UNCHANGED <<reserved, index, publishing, cur, todo, queue, forwarded, acked, rejected, faults>>

(* SaveRawIndex: another process may have inserted the row meanwhile; then    *)
(* this call acknowledges and leaves the publication to that process.        *)
SaveIndex(p) ==
    /\ pc[p] = "index"
    /\ LET i == cur[p][1] IN
       \/ /\ ~Indexed(i)
          /\ index' = [index EXCEPT ![i] = [content |-> cur[p][2], bucket |-> bucket[p],
                                            published |-> FALSE, attempts |-> 0]]
          /\ Goto(p, "publish")
          /\ UNCHANGED <<cur, bucket, acked>>
       \/ /\ index[i].content = cur[p][2]
          /\ Answer(p) /\ UNCHANGED index
       \/ /\ Indexed(i) /\ index[i].content # cur[p][2]
          /\ End(p) /\ UNCHANGED <<index, acked>>
    /\ UNCHANGED <<reserved, store, publishing, todo, queue, forwarded, rejected, faults>>

(* publishArchivedRaw: the message goes to the raw topic and its mark into    *)
(* the buffer; a failure is recorded at once and counts as an attempt.  An     *)
(* exit between the two is a publication whose answer is lost.               *)
Sent == queue \cup forwarded \cup rejected

Publish(m) == queue' = queue \cup {m}

MarkPublished(p, i) == publishing' = [publishing EXCEPT ![p] = @ \cup {i}]

(* A publication that fails may have reached the broker nevertheless.        *)
LostAnswer(m) == Publish(m) \/ UNCHANGED queue

(* MarkRawPublished with an error: attempts only grow; the counter is kept up *)
(* to the limit it is compared with.  An error of the update is ignored.      *)
Incremented(n) == IF n < MaxAttempts THEN n + 1 ELSE n

CountAttempt(i) ==
    \/ index' = [index EXCEPT ![i].attempts = Incremented(@)]
    \/ UNCHANGED index

PublishArchived(p) ==
    /\ pc[p] = "publish"
    /\ Publish(cur[p])
    /\ MarkPublished(p, cur[p][1])
    /\ Answer(p)
    /\ UNCHANGED <<database, todo, forwarded, rejected, faults>>

PublishFails_Marks(p) ==
    /\ pc[p] = "publish" /\ Fault
    /\ LostAnswer(cur[p])
    /\ CountAttempt(cur[p][1])
    /\ MarkPublished(p, cur[p][1])
    /\ End(p)
    /\ UNCHANGED <<reserved, store, todo, forwarded, acked, rejected>>

PublishFails(p) ==
    /\ pc[p] = "publish" /\ Fault
    /\ LostAnswer(cur[p])
    /\ CountAttempt(cur[p][1])
    /\ End(p)
    /\ UNCHANGED <<reserved, store, publishing, todo, forwarded, acked, rejected>>

(* Any other call fails, or intake is paused: the sender gets an error and     *)
(* nothing else changes.  (A write whose answer is lost is a write followed   *)
(* by Crash.)                                                                *)
IngestFails(p) ==
    /\ pc[p] \in {"lookup", "put", "index"} /\ Fault
    /\ End(p)
    /\ UNCHANGED <<database, publishing, todo, queue, forwarded, acked, rejected>>

(***************************************************************************)
(* rawMarks: the buffer is written every few milliseconds; when that fails    *)
(* the marks stay for the next time.                                         *)
(***************************************************************************)
Flush(p) ==
    /\ publishing[p] # {}
    /\ index' = [i \in Ids |->
          IF i \in publishing[p] /\ Indexed(i)
          THEN [index[i] EXCEPT !.published = TRUE, !.attempts = Incremented(@)]
          ELSE index[i]]
    /\ publishing' = [publishing EXCEPT ![p] = {}]
    /\ UNCHANGED <<reserved, store, ingest, todo, queue, forwarded, acked, rejected, faults>>

(***************************************************************************)
(* retryPendingRawOnce, a singleton job: a batch is listed, then each message  *)
(* is read back and published by the process that runs the job.              *)
(***************************************************************************)
Pending_OnlyFailed(i) == Indexed(i) /\ ~index[i].published /\ index[i].attempts \in 1..(MaxAttempts - 1)

Pending(i) == Indexed(i) /\ ~index[i].published /\ index[i].attempts < MaxAttempts

ListPending ==
    /\ todo = {}
    /\ \E i \in Ids : Pending(i)
    /\ todo' = {i \in Ids : Pending(i)}
    /\ UNCHANGED <<database, publishing, ingest, queue, forwarded, acked, rejected, faults>>

Republish(p, i) ==
    /\ i \in todo /\ Readable(i)
    /\ todo' = todo \ {i}
    /\ Publish(<<i, index[i].content>>)
    /\ MarkPublished(p, i)
    /\ UNCHANGED <<database, ingest, forwarded, acked, rejected, faults>>

(* The read or the publication fails.                                        *)
RepublishFails(i) ==
    /\ i \in todo /\ Fault
    /\ todo' = todo \ {i}
    /\ LostAnswer(<<i, index[i].content>>)
    /\ CountAttempt(i)
    /\ UNCHANGED <<reserved, store, publishing, ingest, forwarded, acked, rejected>>

(***************************************************************************)
(* handleRaw in the consumer of the topic: a message that does not parse is    *)
(* done; otherwise it goes to the business stream, then to the external topic  *)
(* and MQTT.  After an error, which may come after the business stream, it is   *)
(* delivered again.                                                          *)
(***************************************************************************)
Reject(m) ==
    /\ m \in queue
    /\ queue' = queue \ {m} /\ rejected' = rejected \cup {m}
    /\ UNCHANGED <<database, publishing, ingest, todo, forwarded, acked, faults>>

Forward(m) ==
    /\ m \in queue
    /\ queue' = queue \ {m} /\ forwarded' = forwarded \cup {m}
    /\ UNCHANGED <<database, publishing, ingest, todo, acked, rejected, faults>>

HandleFails(m) ==
    /\ m \in queue /\ Fault
    /\ forwarded' = forwarded \cup {m}
    /\ UNCHANGED <<database, publishing, ingest, todo, queue, acked, rejected>>

(***************************************************************************)
(* A process exits and starts again: calls and buffered marks are lost.      *)
(***************************************************************************)
Crash(p) ==
    /\ Fault
    /\ End(p)
    /\ publishing' = [publishing EXCEPT ![p] = {}]
    /\ todo' \in {todo, {}}
    /\ UNCHANGED <<database, queue, forwarded, acked, rejected>>

Ingest(p) == Lookup(p) \/ Put(p) \/ SaveIndex(p) \/ PublishArchived(p)

Retry == ListPending \/ \E p \in Procs, i \in Ids : Republish(p, i)

Handle == \E m \in queue : Reject(m) \/ Forward(m)

Next ==
    \/ \E p \in Procs :
        \/ \E i \in Ids, c \in Contents : Reserve(p, i, c)
        \/ Ingest(p) \/ PublishFails(p) \/ IngestFails(p)
        \/ Flush(p)
        \/ Crash(p)
    \/ Retry \/ \E i \in Ids : RepublishFails(i)
    \/ Handle \/ \E m \in queue : HandleFails(m)

Spec == Init /\ [][Next]_vars

(* Calls return, the flusher's ticker runs in every process, the retry job on   *)
(* whichever process holds its lease, and the topic has a consumer.           *)
FairSpec ==
    /\ Spec
    /\ \A p \in Procs : WF_vars(Ingest(p)) /\ WF_vars(Flush(p))
    /\ WF_vars(Retry) /\ WF_vars(Handle)

(***************************************************************************)
(* Properties.                                                              *)
(***************************************************************************)
Message    == Messages \cup {NoMessage}
IndexEntry == [content : Contents \cup {NoContent}, bucket : Buckets \cup {NoBucket},
               published : BOOLEAN, attempts : 0..MaxAttempts]

(* Every variable has its type; a call holds a message exactly while it runs,  *)
(* and its database exactly from PutRaw to SaveRawIndex's answer.             *)
RawTypeOK ==
    /\ reserved \in [Ids -> Contents \cup {NoContent}]
    /\ store \in [Buckets -> SUBSET Messages]
    /\ index \in [Ids -> IndexEntry]
    /\ publishing \in [Procs -> SUBSET Ids]
    /\ pc \in [Procs -> {"idle", "lookup", "put", "index", "publish"}]
    /\ cur \in [Procs -> Message] /\ bucket \in [Procs -> Buckets \cup {NoBucket}]
    /\ todo \subseteq Ids
    /\ queue \subseteq Messages /\ forwarded \subseteq Messages /\ acked \subseteq Messages
    /\ rejected \subseteq Messages
    /\ faults \in 0..MaxFaults
    /\ \A p \in Procs : /\ pc[p] = "idle" <=> cur[p] = NoMessage
                        /\ pc[p] = "index" => bucket[p] # NoBucket

(* What IngestRaw acknowledged is indexed with that very content, and the      *)
(* database the index names holds it: an identity used again with another     *)
(* content, a race for the index row, a device whose frequency class changed   *)
(* between two attempts or a crash never leave the sender with an            *)
(* acknowledgement for a message replay and retry cannot read.               *)
AckedIsDurable ==
    \A m \in acked : index[m[1]].content = m[2] /\ Readable(m[1])

(* "It prevents conflicting writers before either tier archives data"          *)
(* (raw_reservation.go): an identity has one content, the same in both         *)
(* databases, on the raw topic and on the business stream.                    *)
OneContentPerId ==
    \A m \in (UNION {store[b] : b \in Buckets}) \cup Sent :
        m[2] = reserved[m[1]]

(* A message marked as published, in the index or in a buffer that will write   *)
(* the mark, has been published: the retry job, which skips it, has nothing    *)
(* left to do for it.                                                       *)
MarkedWasPublished ==
    \A i \in Ids :
        (index[i].published \/ \E p \in Procs : i \in publishing[p]) =>
            <<i, index[i].content>> \in Sent

(* A row of the archive index is never taken back: it keeps its content and     *)
(* its database, a published mark stays, and attempts are not forgotten,        *)
(* whatever other process archives the same message concurrently.             *)
IndexIsSticky ==
    [][\A i \in Ids : Indexed(i) =>
          /\ index'[i].content = index[i].content /\ index'[i].bucket = index[i].bucket
          /\ index[i].published => index'[i].published
          /\ index[i].attempts <= index'[i].attempts]_vars

Stalled(i) == ~index[i].published /\ index[i].attempts = MaxAttempts

(* An acknowledged message reaches the business stream, or is rejected by its   *)
(* parser, or is counted as stalled: processes that exit between two steps,    *)
(* failed publications and lost marks delay it and do not lose it.            *)
AckedIsProcessed ==
    \A m \in Messages :
        m \in acked ~> (m \in forwarded \cup rejected \/ Stalled(m[1]))
=============================================================================
