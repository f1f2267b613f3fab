--------------------------- MODULE RawIngestProofs ---------------------------
(***************************************************************************)
(* Proofs about raw ingest, for any processes, identities, contents and     *)
(* databases, and any number of faults: what IngestRaw acknowledged can be   *)
(* read back, an identity has one content, and a mark is never ahead of its   *)
(* publication.                                                             *)
(***************************************************************************)
EXTENDS RawIngest, TLAPS

----------------------------------------------------------------------------
(* The inductive invariant.                                                 *)

\* A running call works on the content that won the reservation.
CallReserved ==
    \A p \in Procs : pc[p] # "idle" =>
        cur[p] \in Messages /\ reserved[cur[p][1]] = cur[p][2]

\* Both databases hold only contents that won.
StoreReserved ==
    \A b \in Buckets : \A m \in store[b] : reserved[m[1]] = m[2]

\* An index row names the winning content and a database that holds it.
IndexStored ==
    \A i \in Ids : Indexed(i) =>
        /\ index[i].content = reserved[i]
        /\ index[i].bucket \in Buckets
        /\ Readable(i)

\* Where a call is tells what it has already made durable.
CallStored ==
    \A p \in Procs :
        /\ pc[p] = "index" => bucket[p] \in Buckets /\ cur[p] \in store[bucket[p]]
        /\ pc[p] = "publish" => Indexed(cur[p][1])

\* What was sent or acknowledged is indexed with its own content.
KnownIndexed ==
    \A m \in Sent \cup acked : index[m[1]].content = m[2]

\* The retry job works on indexed identities.
TodoIndexed == \A i \in todo : Indexed(i)

RawInv ==
    /\ RawTypeOK
    /\ CallReserved
    /\ StoreReserved
    /\ IndexStored
    /\ CallStored
    /\ KnownIndexed
    /\ TodoIndexed
    /\ MarkedWasPublished

----------------------------------------------------------------------------
(* What a step may not take back.                                           *)

\* Reservations, stored messages, index rows and publications stay.
Kept ==
    /\ \A i \in Ids : reserved[i] # NoContent => reserved'[i] = reserved[i]
    /\ \A b \in Buckets : store[b] \subseteq store'[b]
    /\ \A i \in Ids : Indexed(i) =>
          /\ index'[i].content = index[i].content
          /\ index'[i].bucket = index[i].bucket
          /\ index[i].published => index'[i].published
          /\ index[i].attempts <= index'[i].attempts
    /\ Sent \subseteq Sent'

\* A message is an identity with a content.
LEMMA MessageParts ==
  /\ \A m \in Messages : m[1] \in Ids /\ m[2] \in Contents /\ m = <<m[1], m[2]>> /\ m # NoMessage /\ m[2] # NoContent
  /\ \A i \in Ids, c \in Contents : <<i, c>> \in Messages /\ <<i, c>>[1] = i /\ <<i, c>>[2] = c
BY RawAssumption DEF Messages, NoMessage

\* Init establishes the invariant.
LEMMA RawInit == Init => RawInv
<1> SUFFICES ASSUME Init PROVE RawInv
  OBVIOUS
<1> USE RawAssumption DEF Init
<1>1. RawTypeOK
  BY DEF RawTypeOK, IndexEntry, Message, NoIndex
<1>2. CallReserved /\ StoreReserved /\ TodoIndexed /\ CallStored
  BY DEF CallReserved, StoreReserved, TodoIndexed, CallStored
<1>3. IndexStored
  BY DEF IndexStored, Indexed, NoIndex
<1>4. KnownIndexed
  BY DEF KnownIndexed, Sent
<1>5. MarkedWasPublished
  BY DEF MarkedWasPublished, NoIndex
<1> QED BY <1>1, <1>2, <1>3, <1>4, <1>5 DEF RawInv

\* The part of the types that is about the ingest calls.
CallTyped ==
    /\ pc \in [Procs -> {"idle", "lookup", "put", "index", "publish"}]
    /\ cur \in [Procs -> Message] /\ bucket \in [Procs -> Buckets \cup {NoBucket}]
    /\ \A p \in Procs : /\ pc[p] = "idle" <=> cur[p] = NoMessage
                        /\ pc[p] = "index" => bucket[p] # NoBucket

\* A call that ends leaves the calls typed.
LEMMA EndTyped ==
  ASSUME RawTypeOK, NEW p \in Procs, End(p)
  PROVE  CallTyped'
BY DEF RawTypeOK, CallTyped, End, Goto, Message

\* So does a call that goes on with its message.
LEMMA GotoTyped ==
  ASSUME RawTypeOK, NEW p \in Procs, pc[p] # "idle", NEW l \in {"put", "publish"},
         Goto(p, l), UNCHANGED <<cur, bucket>>
  PROVE  CallTyped'
BY DEF RawTypeOK, CallTyped, Goto

\* Counting an attempt changes nothing else of a row.
LEMMA CountKeeps ==
  ASSUME RawTypeOK, NEW i \in Ids, CountAttempt(i)
  PROVE  /\ index' \in [Ids -> IndexEntry]
         /\ \A j \in Ids : /\ index'[j].content = index[j].content
                           /\ index'[j].bucket = index[j].bucket
                           /\ index'[j].published = index[j].published
                           /\ index[j].attempts <= index'[j].attempts
<1> USE RawAssumption DEF RawTypeOK, IndexEntry
<1>1. CASE UNCHANGED index
  BY <1>1
<1>2. CASE index' = [index EXCEPT ![i].attempts = Incremented(@)]
  <2>1. index[i].attempts \in 0..MaxAttempts
    OBVIOUS
  <2>2. Incremented(index[i].attempts) \in 0..MaxAttempts /\ index[i].attempts <= Incremented(index[i].attempts)
    BY <2>1 DEF Incremented
  <2> QED BY <1>2, <2>2
<1> QED BY <1>1, <1>2 DEF CountAttempt

\* A flush marks the indexed identities of the buffer and keeps the rest.
LEMMA FlushKeeps ==
  ASSUME RawTypeOK, NEW p \in Procs, Flush(p)
  PROVE  /\ index' \in [Ids -> IndexEntry]
         /\ \A j \in Ids : /\ index'[j].content = index[j].content
                           /\ index'[j].bucket = index[j].bucket
                           /\ index[j].published => index'[j].published
                           /\ index'[j].published => index[j].published \/ j \in publishing[p]
                           /\ index[j].attempts <= index'[j].attempts
<1> USE RawAssumption DEF RawTypeOK, IndexEntry
<1> SUFFICES ASSUME NEW j \in Ids
             PROVE  /\ index'[j] \in IndexEntry
                    /\ index'[j].content = index[j].content
                    /\ index'[j].bucket = index[j].bucket
                    /\ index[j].published => index'[j].published
                    /\ index'[j].published => index[j].published \/ j \in publishing[p]
                    /\ index[j].attempts <= index'[j].attempts
  BY DEF Flush
<1>1. index[j].attempts \in 0..MaxAttempts /\ index[j] \in IndexEntry
  OBVIOUS
<1>2. Incremented(index[j].attempts) \in 0..MaxAttempts /\ index[j].attempts <= Incremented(index[j].attempts)
  BY <1>1 DEF Incremented
<1>3. CASE j \in publishing[p] /\ Indexed(j)
  <2>1. index'[j] = [index[j] EXCEPT !.published = TRUE, !.attempts = Incremented(index[j].attempts)]
    BY <1>3 DEF Flush
  <2> QED BY <1>1, <1>2, <1>3, <2>1
<1>4. CASE ~(j \in publishing[p] /\ Indexed(j))
  <2>1. index'[j] = index[j]
    BY <1>4 DEF Flush
  <2> QED BY <1>1, <2>1
<1> QED BY <1>3, <1>4

\* The identity of a running call, and its message.
LEMMA CallMessage ==
  ASSUME RawInv, NEW p \in Procs, pc[p] # "idle"
  PROVE  /\ cur[p] \in Messages /\ cur[p][1] \in Ids /\ cur[p][2] \in Contents
         /\ cur[p] = <<cur[p][1], cur[p][2]>>
         /\ reserved[cur[p][1]] = cur[p][2]
BY MessageParts DEF RawInv, CallReserved

\* What SaveRawIndex does to the index.
LEMMA SaveKeeps ==
  ASSUME RawInv, NEW p \in Procs, SaveIndex(p)
  PROVE  /\ index' \in [Ids -> IndexEntry]
         /\ \A j \in Ids : Indexed(j) => index'[j] = index[j]
         /\ \A j \in Ids : index'[j] # index[j] =>
               /\ j = cur[p][1] /\ pc'[p] = "publish"
               /\ index'[j].content = cur[p][2] /\ index'[j].bucket = bucket[p]
               /\ ~index'[j].published
<1>1. /\ pc[p] = "index" /\ bucket[p] \in Buckets /\ MaxAttempts \in Nat /\ pc \in [Procs -> {"idle", "lookup", "put", "index", "publish"}]
      /\ cur[p][1] \in Ids /\ cur[p][2] \in Contents /\ index \in [Ids -> IndexEntry]
  BY CallMessage, RawAssumption DEF SaveIndex, RawInv, RawTypeOK
<1>2. CASE UNCHANGED index
  BY <1>1, <1>2
<1>3. CASE /\ ~Indexed(cur[p][1]) /\ Goto(p, "publish")
           /\ index' = [index EXCEPT ![cur[p][1]] = [content |-> cur[p][2], bucket |-> bucket[p],
                                                     published |-> FALSE, attempts |-> 0]]
  BY <1>1, <1>3 DEF IndexEntry, Goto
<1> QED BY <1>2, <1>3 DEF SaveIndex

\* The row of a call that publishes holds the call's content.
LEMMA PublishesRow ==
  ASSUME RawInv, NEW p \in Procs, pc[p] = "publish"
  PROVE  /\ cur[p] \in Messages /\ cur[p][1] \in Ids
         /\ index[cur[p][1]].content = cur[p][2]
         /\ <<cur[p][1], index[cur[p][1]].content>> = cur[p]
BY CallMessage DEF RawInv, CallStored, IndexStored

\* A message of the retry job's list.
LEMMA RetriesRow ==
  ASSUME RawInv, NEW i \in todo
  PROVE  <<i, index[i].content>> \in Messages /\ i \in Ids /\ index[i].content # NoContent
BY MessageParts DEF RawInv, RawTypeOK, TodoIndexed, Indexed, IndexEntry

\* Published messages are indexed as long as rows keep their content.
LEMMA KnownKept ==
  ASSUME RawInv,
         \A j \in Ids : index'[j].content = index[j].content,
         \A m \in (Sent \cup acked)' : index[m[1]].content = m[2] /\ m \in Messages
  PROVE  KnownIndexed'
BY MessageParts DEF KnownIndexed

\* Everything known is a message with its row.
LEMMA KnownRow ==
  ASSUME RawInv, NEW m \in Sent \cup acked
  PROVE  index[m[1]].content = m[2] /\ m \in Messages
BY DEF RawInv, RawTypeOK, KnownIndexed, Sent

\* Marked identities stay published as long as rows keep their content and
\* only published identities are marked.
LEMMA MarkedKept ==
  ASSUME RawInv, Sent \subseteq Sent',
         \A j \in Ids : index'[j].content = index[j].content,
         \A j \in Ids : (index'[j].published \/ \E q \in Procs : j \in publishing'[q]) =>
             \/ index[j].published \/ \E q \in Procs : j \in publishing[q]
             \/ <<j, index[j].content>> \in Sent'
  PROVE  MarkedWasPublished'
<1> SUFFICES ASSUME NEW j \in Ids, index'[j].published \/ \E q \in Procs : j \in publishing'[q]
             PROVE  <<j, index[j].content>> \in Sent'
  BY DEF MarkedWasPublished
<1>1. CASE <<j, index[j].content>> \in Sent'
  BY <1>1
<1>2. CASE index[j].published \/ \E q \in Procs : j \in publishing[q]
  BY <1>2 DEF RawInv, MarkedWasPublished
<1> QED BY <1>1, <1>2

\* Every step keeps the types.
LEMMA RawTypeStep ==
  ASSUME RawInv, [Next]_vars
  PROVE  RawTypeOK'
<1> USE RawAssumption, MessageParts DEF RawInv, RawTypeOK, IndexEntry, Message, CallReserved
<1>1. ASSUME NEW p \in Procs, NEW i \in Ids, NEW c \in Contents, Reserve(p, i, c) PROVE RawTypeOK'
  BY <1>1 DEF Reserve, Goto
<1>2. ASSUME NEW p \in Procs, Lookup(p) PROVE RawTypeOK'
  <2>1. CallTyped'
    BY <1>2, EndTyped, GotoTyped DEF Lookup, Answer
  <2>2. cur[p] \in Messages
    BY <1>2 DEF Lookup
  <2>3. acked' \subseteq Messages
    BY <1>2, <2>2 DEF Lookup, Answer
  <2> QED BY <1>2, <2>1, <2>3 DEF Lookup, CallTyped, database
<1>3. ASSUME NEW p \in Procs, Put(p) PROVE RawTypeOK'
  BY <1>3 DEF Put, Goto
<1>4. ASSUME NEW p \in Procs, SaveIndex(p) PROVE RawTypeOK'
  <2>1. CallTyped'
    BY <1>4, EndTyped, GotoTyped DEF SaveIndex, Answer
  <2>2. index' \in [Ids -> IndexEntry]
    BY <1>4, SaveKeeps
  <2>3. cur[p] \in Messages
    BY <1>4 DEF SaveIndex
  <2>4. acked' \subseteq Messages
    BY <1>4, <2>3 DEF SaveIndex, Answer
  <2> QED BY <1>4, <2>1, <2>2, <2>4 DEF SaveIndex, CallTyped
<1>5. ASSUME NEW p \in Procs, PublishArchived(p) PROVE RawTypeOK'
  BY <1>5 DEF PublishArchived, Publish, MarkPublished, Answer, End, Goto, database
<1>6. ASSUME NEW p \in Procs, PublishFails(p) PROVE RawTypeOK'
  <2>1. CallTyped'
    BY <1>6, EndTyped DEF PublishFails
  <2>2. index' \in [Ids -> IndexEntry]
    BY <1>6, CountKeeps, CallMessage DEF PublishFails
  <2>3. queue' \subseteq Messages
    BY <1>6, CallMessage DEF PublishFails, LostAnswer, Publish
  <2> QED BY <1>6, <2>1, <2>2, <2>3 DEF PublishFails, Fault, CallTyped
<1>7. ASSUME NEW p \in Procs, IngestFails(p) PROVE RawTypeOK'
  BY <1>7 DEF IngestFails, Fault, End, Goto, database
<1>8. ASSUME NEW p \in Procs, Flush(p) PROVE RawTypeOK'
  <2>1. index' \in [Ids -> IndexEntry]
    BY <1>8, FlushKeeps
  <2>2. publishing' \in [Procs -> SUBSET Ids]
    BY <1>8 DEF Flush
  <2> QED BY <1>8, <2>1, <2>2 DEF Flush, ingest
<1>9. ASSUME NEW p \in Procs, Crash(p) PROVE RawTypeOK'
  BY <1>9 DEF Crash, Fault, End, Goto, database
<1>10. CASE ListPending
  BY <1>10 DEF ListPending, database, ingest
<1>11. ASSUME NEW p \in Procs, NEW i \in Ids, Republish(p, i) PROVE RawTypeOK'
  <2>1. <<i, index[i].content>> \in Messages
    BY <1>11, MessageParts DEF Republish, TodoIndexed, Indexed
  <2>2. queue' \subseteq Messages /\ publishing' \in [Procs -> SUBSET Ids]
    BY <1>11, <2>1 DEF Republish, Publish, MarkPublished
  <2> QED BY <1>11, <2>2 DEF Republish, database, ingest
<1>12. ASSUME NEW i \in Ids, RepublishFails(i) PROVE RawTypeOK'
  <2>1. <<i, index[i].content>> \in Messages
    BY <1>12, MessageParts DEF RepublishFails, TodoIndexed, Indexed
  <2>2. queue' \subseteq Messages
    BY <1>12, <2>1 DEF RepublishFails, LostAnswer, Publish
  <2>3. index' \in [Ids -> IndexEntry]
    BY <1>12, CountKeeps DEF RepublishFails
  <2> QED BY <1>12, <2>2, <2>3 DEF RepublishFails, Fault, ingest
<1>13. ASSUME NEW m \in queue, Reject(m) PROVE RawTypeOK'
  BY <1>13 DEF Reject, database, ingest
<1>14. ASSUME NEW m \in queue, Forward(m) PROVE RawTypeOK'
  BY <1>14 DEF Forward, database, ingest
<1>15. ASSUME NEW m \in queue, HandleFails(m) PROVE RawTypeOK'
  BY <1>15 DEF HandleFails, Fault, database, ingest
<1>16. CASE UNCHANGED vars
  BY <1>16 DEF vars, database, ingest
<1> QED
  BY <1>1, <1>2, <1>3, <1>4, <1>5, <1>6, <1>7, <1>8, <1>9, <1>10, <1>11, <1>12, <1>13, <1>14, <1>15, <1>16 DEF Next, Ingest, Retry, Handle

\* No step takes back a reservation, a stored message, a row or a publication.
LEMMA RawKept ==
  ASSUME RawInv, [Next]_vars
  PROVE  Kept
<1> USE RawAssumption, MessageParts DEF RawInv, RawTypeOK, IndexEntry, Kept, Sent, Indexed
<1>1. ASSUME NEW p \in Procs, NEW i \in Ids, NEW c \in Contents, Reserve(p, i, c) PROVE Kept
  BY <1>1 DEF Reserve, Goto
<1>2. ASSUME NEW p \in Procs, Lookup(p) PROVE Kept
  BY <1>2 DEF Lookup, Goto, End, Answer, database
<1>3. ASSUME NEW p \in Procs, Put(p) PROVE Kept
  BY <1>3 DEF Put, Goto
<1>4. ASSUME NEW p \in Procs, SaveIndex(p) PROVE Kept
  BY <1>4, SaveKeeps DEF SaveIndex
<1>5. ASSUME NEW p \in Procs, PublishArchived(p) PROVE Kept
  BY <1>5 DEF PublishArchived, Publish, MarkPublished, Answer, End, Goto, database
<1>6. ASSUME NEW p \in Procs, PublishFails(p) PROVE Kept
  BY <1>6, CountKeeps, CallMessage DEF PublishFails, LostAnswer, Publish
<1>7. ASSUME NEW p \in Procs, IngestFails(p) PROVE Kept
  BY <1>7 DEF IngestFails, Fault, End, Goto, database
<1>8. ASSUME NEW p \in Procs, Flush(p) PROVE Kept
  BY <1>8, FlushKeeps DEF Flush
<1>9. ASSUME NEW p \in Procs, Crash(p) PROVE Kept
  BY <1>9 DEF Crash, Fault, End, Goto, database
<1>10. CASE ListPending
  BY <1>10 DEF ListPending, database, ingest
<1>11. ASSUME NEW p \in Procs, NEW i \in Ids, Republish(p, i) PROVE Kept
  BY <1>11 DEF Republish, Publish, MarkPublished, database, ingest
<1>12. ASSUME NEW i \in Ids, RepublishFails(i) PROVE Kept
  BY <1>12, CountKeeps DEF RepublishFails, LostAnswer, Publish
<1>13. ASSUME NEW m \in queue, Reject(m) PROVE Kept
  BY <1>13 DEF Reject, database, ingest
<1>14. ASSUME NEW m \in queue, Forward(m) PROVE Kept
  BY <1>14 DEF Forward, database, ingest
<1>15. ASSUME NEW m \in queue, HandleFails(m) PROVE Kept
  BY <1>15 DEF HandleFails, Fault, database, ingest
<1>16. CASE UNCHANGED vars
  BY <1>16 DEF vars, database, ingest
<1> QED
  BY <1>1, <1>2, <1>3, <1>4, <1>5, <1>6, <1>7, <1>8, <1>9, <1>10, <1>11, <1>12, <1>13, <1>14, <1>15, <1>16 DEF Next, Ingest, Retry, Handle

----------------------------------------------------------------------------
(* Each part of the invariant is kept by every step.                        *)

\* A call keeps its message, and the reservation it made or found.
LEMMA CallReservedStep ==
  ASSUME RawInv, [Next]_vars
  PROVE  CallReserved'
<1> USE RawAssumption, MessageParts, RawKept DEF RawInv, RawTypeOK, Message, Kept, CallReserved
<1>1. ASSUME NEW p \in Procs, NEW i \in Ids, NEW c \in Contents, Reserve(p, i, c) PROVE CallReserved'
  BY <1>1 DEF Reserve, Goto
<1>2. ASSUME NEW p \in Procs, Lookup(p) PROVE CallReserved'
  BY <1>2 DEF Lookup, Goto, End, Answer, database
<1>3. ASSUME NEW p \in Procs, Put(p) PROVE CallReserved'
  BY <1>3 DEF Put, Goto
<1>4. ASSUME NEW p \in Procs, SaveIndex(p) PROVE CallReserved'
  BY <1>4 DEF SaveIndex, Goto, End, Answer
<1>5. ASSUME NEW p \in Procs, PublishArchived(p) PROVE CallReserved'
  BY <1>5 DEF PublishArchived, Publish, MarkPublished, Answer, End, Goto, database
<1>6. ASSUME NEW p \in Procs, PublishFails(p) PROVE CallReserved'
  BY <1>6 DEF PublishFails, LostAnswer, Publish, CountAttempt, Incremented, Fault, End, Goto
<1>7. ASSUME NEW p \in Procs, IngestFails(p) PROVE CallReserved'
  BY <1>7 DEF IngestFails, Fault, End, Goto, database
<1>8. ASSUME NEW p \in Procs, Flush(p) PROVE CallReserved'
  BY <1>8 DEF Flush, Incremented, ingest
<1>9. ASSUME NEW p \in Procs, Crash(p) PROVE CallReserved'
  BY <1>9 DEF Crash, Fault, End, Goto, database
<1>10. CASE ListPending
  BY <1>10 DEF ListPending, database, ingest
<1>11. ASSUME NEW p \in Procs, NEW i \in Ids, Republish(p, i) PROVE CallReserved'
  BY <1>11 DEF Republish, Publish, MarkPublished, database, ingest
<1>12. ASSUME NEW i \in Ids, RepublishFails(i) PROVE CallReserved'
  BY <1>12 DEF RepublishFails, LostAnswer, Publish, CountAttempt, Incremented, Fault, ingest
<1>13. ASSUME NEW m \in queue, Reject(m) PROVE CallReserved'
  BY <1>13 DEF Reject, database, ingest
<1>14. ASSUME NEW m \in queue, Forward(m) PROVE CallReserved'
  BY <1>14 DEF Forward, database, ingest
<1>15. ASSUME NEW m \in queue, HandleFails(m) PROVE CallReserved'
  BY <1>15 DEF HandleFails, Fault, database, ingest
<1>16. CASE UNCHANGED vars
  BY <1>16 DEF vars, database, ingest
<1> QED
  BY <1>1, <1>2, <1>3, <1>4, <1>5, <1>6, <1>7, <1>8, <1>9, <1>10, <1>11, <1>12, <1>13, <1>14, <1>15, <1>16 DEF Next, Ingest, Retry, Handle

\* PutRaw stores what was reserved.
LEMMA StoreReservedStep ==
  ASSUME RawInv, [Next]_vars
  PROVE  StoreReserved'
<1> USE RawAssumption, MessageParts, CallMessage, RawKept DEF RawInv, RawTypeOK, Kept, StoreReserved
<1>1. ASSUME NEW p \in Procs, NEW i \in Ids, NEW c \in Contents, Reserve(p, i, c) PROVE StoreReserved'
  BY <1>1 DEF Reserve, Goto
<1>2. ASSUME NEW p \in Procs, Lookup(p) PROVE StoreReserved'
  BY <1>2 DEF Lookup, Goto, End, Answer, database
<1>3. ASSUME NEW p \in Procs, Put(p) PROVE StoreReserved'
  BY <1>3 DEF Put, Goto
<1>4. ASSUME NEW p \in Procs, SaveIndex(p) PROVE StoreReserved'
  BY <1>4 DEF SaveIndex, Goto, End, Answer
<1>5. ASSUME NEW p \in Procs, PublishArchived(p) PROVE StoreReserved'
  BY <1>5 DEF PublishArchived, Publish, MarkPublished, Answer, End, Goto, database
<1>6. ASSUME NEW p \in Procs, PublishFails(p) PROVE StoreReserved'
  BY <1>6 DEF PublishFails, LostAnswer, Publish, CountAttempt, Incremented, Fault, End, Goto
<1>7. ASSUME NEW p \in Procs, IngestFails(p) PROVE StoreReserved'
  BY <1>7 DEF IngestFails, Fault, End, Goto, database
<1>8. ASSUME NEW p \in Procs, Flush(p) PROVE StoreReserved'
  <2>1. UNCHANGED <<store, reserved>>
    BY <1>8 DEF Flush
  <2> QED BY <2>1
<1>9. ASSUME NEW p \in Procs, Crash(p) PROVE StoreReserved'
  BY <1>9 DEF Crash, Fault, End, Goto, database
<1>10. CASE ListPending
  BY <1>10 DEF ListPending, database, ingest
<1>11. ASSUME NEW p \in Procs, NEW i \in Ids, Republish(p, i) PROVE StoreReserved'
  BY <1>11 DEF Republish, Publish, MarkPublished, database, ingest
<1>12. ASSUME NEW i \in Ids, RepublishFails(i) PROVE StoreReserved'
  BY <1>12 DEF RepublishFails, LostAnswer, Publish, CountAttempt, Incremented, Fault, ingest
<1>13. ASSUME NEW m \in queue, Reject(m) PROVE StoreReserved'
  BY <1>13 DEF Reject, database, ingest
<1>14. ASSUME NEW m \in queue, Forward(m) PROVE StoreReserved'
  BY <1>14 DEF Forward, database, ingest
<1>15. ASSUME NEW m \in queue, HandleFails(m) PROVE StoreReserved'
  BY <1>15 DEF HandleFails, Fault, database, ingest
<1>16. CASE UNCHANGED vars
  BY <1>16 DEF vars, database, ingest
<1> QED
  BY <1>1, <1>2, <1>3, <1>4, <1>5, <1>6, <1>7, <1>8, <1>9, <1>10, <1>11, <1>12, <1>13, <1>14, <1>15, <1>16 DEF Next, Ingest, Retry, Handle

\* A row is inserted after its message was stored, and stays.
LEMMA IndexStoredStep ==
  ASSUME RawInv, [Next]_vars
  PROVE  IndexStored'
<1> USE RawAssumption, MessageParts, CallMessage, RawKept DEF RawInv, RawTypeOK, Kept, IndexStored, Indexed, Readable
<1>1. ASSUME NEW p \in Procs, NEW i \in Ids, NEW c \in Contents, Reserve(p, i, c) PROVE IndexStored'
  BY <1>1 DEF Reserve, Goto
<1>2. ASSUME NEW p \in Procs, Lookup(p) PROVE IndexStored'
  BY <1>2 DEF Lookup, Goto, End, Answer, database
<1>3. ASSUME NEW p \in Procs, Put(p) PROVE IndexStored'
  BY <1>3 DEF Put, Goto
<1>4. ASSUME NEW p \in Procs, SaveIndex(p) PROVE IndexStored'
  <2>1. UNCHANGED <<store, reserved>>
    BY <1>4 DEF SaveIndex
  <2>2. bucket[p] \in Buckets /\ cur[p] \in store[bucket[p]] /\ cur[p][1] \in Ids
    BY <1>4 DEF SaveIndex, CallStored
  <2>3. cur[p] = <<cur[p][1], cur[p][2]>> /\ reserved[cur[p][1]] = cur[p][2]
    BY <1>4 DEF SaveIndex
  <2>4. ASSUME NEW j \in Ids, index'[j] = index[j], index'[j].content # NoContent
        PROVE  index'[j].content = reserved'[j] /\ index'[j].bucket \in Buckets /\ Readable(j)'
    BY <2>1, <2>4
  <2>5. ASSUME NEW j \in Ids, index'[j] # index[j]
        PROVE  index'[j].content = reserved'[j] /\ index'[j].bucket \in Buckets /\ Readable(j)'
    <3>1. j = cur[p][1] /\ index'[j].content = cur[p][2] /\ index'[j].bucket = bucket[p]
      BY <1>4, <2>5, SaveKeeps
    <3> QED BY <2>1, <2>2, <2>3, <3>1
  <2> QED BY <2>4, <2>5
<1>5. ASSUME NEW p \in Procs, PublishArchived(p) PROVE IndexStored'
  BY <1>5 DEF PublishArchived, Publish, MarkPublished, Answer, End, Goto, database
<1>6. ASSUME NEW p \in Procs, PublishFails(p) PROVE IndexStored'
  <2>1. UNCHANGED <<store, reserved>>
    BY <1>6 DEF PublishFails
  <2>2. \A j \in Ids : index'[j].content = index[j].content /\ index'[j].bucket = index[j].bucket
    BY <1>6, CountKeeps DEF PublishFails
  <2> QED BY <2>1, <2>2
<1>7. ASSUME NEW p \in Procs, IngestFails(p) PROVE IndexStored'
  BY <1>7 DEF IngestFails, Fault, End, Goto, database
<1>8. ASSUME NEW p \in Procs, Flush(p) PROVE IndexStored'
  <2>1. UNCHANGED <<store, reserved>>
    BY <1>8 DEF Flush
  <2>2. \A j \in Ids : index'[j].content = index[j].content /\ index'[j].bucket = index[j].bucket
    BY <1>8, FlushKeeps DEF Flush
  <2> QED BY <2>1, <2>2
<1>9. ASSUME NEW p \in Procs, Crash(p) PROVE IndexStored'
  BY <1>9 DEF Crash, Fault, End, Goto, database
<1>10. CASE ListPending
  BY <1>10 DEF ListPending, database, ingest
<1>11. ASSUME NEW p \in Procs, NEW i \in Ids, Republish(p, i) PROVE IndexStored'
  BY <1>11 DEF Republish, Publish, MarkPublished, database, ingest
<1>12. ASSUME NEW i \in Ids, RepublishFails(i) PROVE IndexStored'
  <2>1. UNCHANGED <<store, reserved>>
    BY <1>12 DEF RepublishFails
  <2>2. \A j \in Ids : index'[j].content = index[j].content /\ index'[j].bucket = index[j].bucket
    BY <1>12, CountKeeps DEF RepublishFails
  <2> QED BY <2>1, <2>2
<1>13. ASSUME NEW m \in queue, Reject(m) PROVE IndexStored'
  BY <1>13 DEF Reject, database, ingest
<1>14. ASSUME NEW m \in queue, Forward(m) PROVE IndexStored'
  BY <1>14 DEF Forward, database, ingest
<1>15. ASSUME NEW m \in queue, HandleFails(m) PROVE IndexStored'
  BY <1>15 DEF HandleFails, Fault, database, ingest
<1>16. CASE UNCHANGED vars
  BY <1>16 DEF vars, database, ingest
<1> QED
  BY <1>1, <1>2, <1>3, <1>4, <1>5, <1>6, <1>7, <1>8, <1>9, <1>10, <1>11, <1>12, <1>13, <1>14, <1>15, <1>16 DEF Next, Ingest, Retry, Handle

\* A call goes on to the next step only when the one before has taken effect.
LEMMA CallStoredStep ==
  ASSUME RawInv, [Next]_vars
  PROVE  CallStored'
<1> USE RawAssumption, MessageParts, CallMessage, RawKept DEF RawInv, RawTypeOK, Kept, CallStored, Indexed
<1>1. ASSUME NEW p \in Procs, NEW i \in Ids, NEW c \in Contents, Reserve(p, i, c) PROVE CallStored'
  BY <1>1 DEF Reserve, Goto
<1>2. ASSUME NEW p \in Procs, Lookup(p) PROVE CallStored'
  BY <1>2 DEF Lookup, Goto, End, Answer, database
<1>3. ASSUME NEW p \in Procs, Put(p) PROVE CallStored'
  BY <1>3 DEF Put, Goto
<1>4. ASSUME NEW p \in Procs, SaveIndex(p) PROVE CallStored'
  BY <1>4 DEF SaveIndex, Goto, End, Answer
<1>5. ASSUME NEW p \in Procs, PublishArchived(p) PROVE CallStored'
  BY <1>5 DEF PublishArchived, Publish, MarkPublished, Answer, End, Goto, database
<1>6. ASSUME NEW p \in Procs, PublishFails(p) PROVE CallStored'
  BY <1>6 DEF PublishFails, LostAnswer, Publish, CountAttempt, Incremented, Fault, End, Goto
<1>7. ASSUME NEW p \in Procs, IngestFails(p) PROVE CallStored'
  BY <1>7 DEF IngestFails, Fault, End, Goto, database
<1>8. ASSUME NEW p \in Procs, Flush(p) PROVE CallStored'
  BY <1>8 DEF Flush, Incremented, ingest
<1>9. ASSUME NEW p \in Procs, Crash(p) PROVE CallStored'
  BY <1>9 DEF Crash, Fault, End, Goto, database
<1>10. CASE ListPending
  BY <1>10 DEF ListPending, database, ingest
<1>11. ASSUME NEW p \in Procs, NEW i \in Ids, Republish(p, i) PROVE CallStored'
  BY <1>11 DEF Republish, Publish, MarkPublished, database, ingest
<1>12. ASSUME NEW i \in Ids, RepublishFails(i) PROVE CallStored'
  BY <1>12 DEF RepublishFails, LostAnswer, Publish, CountAttempt, Incremented, Fault, ingest
<1>13. ASSUME NEW m \in queue, Reject(m) PROVE CallStored'
  BY <1>13 DEF Reject, database, ingest
<1>14. ASSUME NEW m \in queue, Forward(m) PROVE CallStored'
  BY <1>14 DEF Forward, database, ingest
<1>15. ASSUME NEW m \in queue, HandleFails(m) PROVE CallStored'
  BY <1>15 DEF HandleFails, Fault, database, ingest
<1>16. CASE UNCHANGED vars
  BY <1>16 DEF vars, database, ingest
<1> QED
  BY <1>1, <1>2, <1>3, <1>4, <1>5, <1>6, <1>7, <1>8, <1>9, <1>10, <1>11, <1>12, <1>13, <1>14, <1>15, <1>16 DEF Next, Ingest, Retry, Handle

\* What is published or acknowledged has its row.
LEMMA KnownIndexedStep ==
  ASSUME RawInv, [Next]_vars
  PROVE  KnownIndexed'
<1> USE RawAssumption, MessageParts, CallMessage, RawKept DEF RawInv, RawTypeOK, Kept, KnownIndexed, Sent, Indexed
<1>1. ASSUME NEW p \in Procs, NEW i \in Ids, NEW c \in Contents, Reserve(p, i, c) PROVE KnownIndexed'
  BY <1>1 DEF Reserve, Goto
<1>2. ASSUME NEW p \in Procs, Lookup(p) PROVE KnownIndexed'
  BY <1>2 DEF Lookup, Goto, End, Answer, database
<1>3. ASSUME NEW p \in Procs, Put(p) PROVE KnownIndexed'
  BY <1>3 DEF Put, Goto
<1>4. ASSUME NEW p \in Procs, SaveIndex(p) PROVE KnownIndexed'
  BY <1>4 DEF SaveIndex, Goto, End, Answer
<1>5. ASSUME NEW p \in Procs, PublishArchived(p) PROVE KnownIndexed'
  <2>1. \A j \in Ids : index'[j].content = index[j].content
    BY <1>5, CallMessage DEF PublishArchived, database
  <2>2. (Sent \cup acked)' \subseteq Sent \cup acked \cup {cur[p]}
    BY <1>5 DEF PublishArchived, Sent, LostAnswer, Publish, Answer
  <2> QED BY <2>1, <2>2, KnownKept, KnownRow, PublishesRow, <1>5 DEF PublishArchived
<1>6. ASSUME NEW p \in Procs, PublishFails(p) PROVE KnownIndexed'
  <2>1. \A j \in Ids : index'[j].content = index[j].content
    BY <1>6, CountKeeps DEF PublishFails
  <2>2. (Sent \cup acked)' \subseteq Sent \cup acked \cup {cur[p]}
    BY <1>6 DEF PublishFails, Sent, LostAnswer, Publish, Answer
  <2> QED BY <2>1, <2>2, KnownKept, KnownRow, PublishesRow, <1>6 DEF PublishFails
<1>7. ASSUME NEW p \in Procs, IngestFails(p) PROVE KnownIndexed'
  BY <1>7 DEF IngestFails, Fault, End, Goto, database
<1>8. ASSUME NEW p \in Procs, Flush(p) PROVE KnownIndexed'
  <2>1. \A j \in Ids : index'[j].content = index[j].content
    BY <1>8, FlushKeeps
  <2>2. (Sent \cup acked)' = Sent \cup acked
    BY <1>8 DEF Flush, Sent
  <2> QED BY <2>1, <2>2, KnownKept, KnownRow
<1>9. ASSUME NEW p \in Procs, Crash(p) PROVE KnownIndexed'
  BY <1>9 DEF Crash, Fault, End, Goto, database
<1>10. CASE ListPending
  BY <1>10 DEF ListPending, database, ingest
<1>11. ASSUME NEW p \in Procs, NEW i \in Ids, Republish(p, i) PROVE KnownIndexed'
  BY <1>11 DEF Republish, Publish, MarkPublished, database, ingest
<1>12. ASSUME NEW i \in Ids, RepublishFails(i) PROVE KnownIndexed'
  <2>1. \A j \in Ids : index'[j].content = index[j].content
    BY <1>12, CountKeeps DEF RepublishFails
  <2>2. (Sent \cup acked)' \subseteq Sent \cup acked \cup {<<i, index[i].content>>}
    BY <1>12 DEF RepublishFails, Sent, LostAnswer, Publish, Answer
  <2> QED BY <2>1, <2>2, KnownKept, KnownRow, RetriesRow, <1>12 DEF RepublishFails
<1>13. ASSUME NEW m \in queue, Reject(m) PROVE KnownIndexed'
  BY <1>13 DEF Reject, database, ingest
<1>14. ASSUME NEW m \in queue, Forward(m) PROVE KnownIndexed'
  BY <1>14 DEF Forward, database, ingest
<1>15. ASSUME NEW m \in queue, HandleFails(m) PROVE KnownIndexed'
  BY <1>15 DEF HandleFails, Fault, database, ingest
<1>16. CASE UNCHANGED vars
  BY <1>16 DEF vars, database, ingest
<1> QED
  BY <1>1, <1>2, <1>3, <1>4, <1>5, <1>6, <1>7, <1>8, <1>9, <1>10, <1>11, <1>12, <1>13, <1>14, <1>15, <1>16 DEF Next, Ingest, Retry, Handle

\* The retry job's list stays indexed.
LEMMA TodoIndexedStep ==
  ASSUME RawInv, [Next]_vars
  PROVE  TodoIndexed'
<1> USE RawKept DEF RawInv, RawTypeOK, Kept, TodoIndexed, Indexed, Pending
<1>1. ASSUME NEW p \in Procs, NEW i \in Ids, NEW c \in Contents, Reserve(p, i, c) PROVE TodoIndexed'
  BY <1>1 DEF Reserve, Goto
<1>2. ASSUME NEW p \in Procs, Lookup(p) PROVE TodoIndexed'
  BY <1>2 DEF Lookup, Goto, End, Answer, database
<1>3. ASSUME NEW p \in Procs, Put(p) PROVE TodoIndexed'
  BY <1>3 DEF Put, Goto
<1>4. ASSUME NEW p \in Procs, SaveIndex(p) PROVE TodoIndexed'
  BY <1>4 DEF SaveIndex, Goto, End, Answer
<1>5. ASSUME NEW p \in Procs, PublishArchived(p) PROVE TodoIndexed'
  BY <1>5 DEF PublishArchived, Publish, MarkPublished, Answer, End, Goto, database
<1>6. ASSUME NEW p \in Procs, PublishFails(p) PROVE TodoIndexed'
  BY <1>6 DEF PublishFails, LostAnswer, Publish, CountAttempt, Incremented, Fault, End, Goto
<1>7. ASSUME NEW p \in Procs, IngestFails(p) PROVE TodoIndexed'
  BY <1>7 DEF IngestFails, Fault, End, Goto, database
<1>8. ASSUME NEW p \in Procs, Flush(p) PROVE TodoIndexed'
  BY <1>8 DEF Flush, Incremented, ingest
<1>9. ASSUME NEW p \in Procs, Crash(p) PROVE TodoIndexed'
  BY <1>9 DEF Crash, Fault, End, Goto, database
<1>10. CASE ListPending
  BY <1>10 DEF ListPending, database, ingest
<1>11. ASSUME NEW p \in Procs, NEW i \in Ids, Republish(p, i) PROVE TodoIndexed'
  BY <1>11 DEF Republish, Publish, MarkPublished, database, ingest
<1>12. ASSUME NEW i \in Ids, RepublishFails(i) PROVE TodoIndexed'
  BY <1>12 DEF RepublishFails, LostAnswer, Publish, CountAttempt, Incremented, Fault, ingest
<1>13. ASSUME NEW m \in queue, Reject(m) PROVE TodoIndexed'
  BY <1>13 DEF Reject, database, ingest
<1>14. ASSUME NEW m \in queue, Forward(m) PROVE TodoIndexed'
  BY <1>14 DEF Forward, database, ingest
<1>15. ASSUME NEW m \in queue, HandleFails(m) PROVE TodoIndexed'
  BY <1>15 DEF HandleFails, Fault, database, ingest
<1>16. CASE UNCHANGED vars
  BY <1>16 DEF vars, database, ingest
<1> QED
  BY <1>1, <1>2, <1>3, <1>4, <1>5, <1>6, <1>7, <1>8, <1>9, <1>10, <1>11, <1>12, <1>13, <1>14, <1>15, <1>16 DEF Next, Ingest, Retry, Handle

\* A mark follows its publication.
LEMMA MarkedStep ==
  ASSUME RawInv, [Next]_vars
  PROVE  MarkedWasPublished'
<1> USE RawAssumption DEF Kept
<1>1. ASSUME NEW p \in Procs, NEW i \in Ids, NEW c \in Contents, Reserve(p, i, c) PROVE MarkedWasPublished'
  <2>1. UNCHANGED <<index, publishing>>
    BY <1>1 DEF Reserve
  <2> QED BY <2>1, MarkedKept, RawKept
<1>2. ASSUME NEW p \in Procs, Lookup(p) PROVE MarkedWasPublished'
  <2>1. UNCHANGED <<index, publishing>>
    BY <1>2 DEF Lookup, database
  <2> QED BY <2>1, MarkedKept, RawKept
<1>3. ASSUME NEW p \in Procs, Put(p) PROVE MarkedWasPublished'
  <2>1. UNCHANGED <<index, publishing>>
    BY <1>3 DEF Put
  <2> QED BY <2>1, MarkedKept, RawKept
<1>4. ASSUME NEW p \in Procs, SaveIndex(p) PROVE MarkedWasPublished'
  <2>1. UNCHANGED publishing /\ Sent' = Sent
    BY <1>4 DEF SaveIndex, Sent
  <2>2. ASSUME NEW j \in Ids, index'[j] = index[j],
               index'[j].published \/ \E q \in Procs : j \in publishing'[q]
        PROVE  <<j, index'[j].content>> \in Sent'
    BY <2>1, <2>2 DEF RawInv, MarkedWasPublished
  <2>3. ASSUME NEW j \in Ids, index'[j] # index[j],
               index'[j].published \/ \E q \in Procs : j \in publishing'[q]
        PROVE  FALSE
    <3>1. ~Indexed(j) /\ ~index'[j].published
      BY <1>4, <2>3, SaveKeeps
    <3>2. <<j, NoContent>> \in Sent
      BY <2>1, <2>3, <3>1 DEF RawInv, MarkedWasPublished, Indexed
    <3>3. <<j, NoContent>> \in Messages
      BY <3>2, KnownRow
    <3> QED BY <3>3 DEF Messages
  <2> QED BY <2>2, <2>3 DEF MarkedWasPublished
<1>5. ASSUME NEW p \in Procs, PublishArchived(p) PROVE MarkedWasPublished'
  <2>1. UNCHANGED index
    BY <1>5 DEF PublishArchived, database
  <2>2. cur[p] \in Sent' /\ \A j \in Ids, q \in Procs : j \in publishing'[q] => j \in publishing[q] \/ j = cur[p][1]
    BY <1>5 DEF PublishArchived, Publish, MarkPublished, Sent, RawInv, RawTypeOK
  <2>3. cur[p] = <<cur[p][1], index[cur[p][1]].content>>
    BY <1>5, PublishesRow DEF PublishArchived
  <2> QED BY <2>1, <2>2, <2>3, MarkedKept, RawKept DEF Kept
<1>6. ASSUME NEW p \in Procs, PublishFails(p) PROVE MarkedWasPublished'
  <2>1. \A j \in Ids : index'[j].content = index[j].content /\ (index'[j].published => index[j].published)
    BY <1>6, CountKeeps, CallMessage DEF PublishFails, RawInv
  <2>2. UNCHANGED publishing
    BY <1>6 DEF PublishFails, LostAnswer, Publish, Sent
  <2> QED BY <2>1, <2>2, MarkedKept, RawKept DEF Kept
<1>7. ASSUME NEW p \in Procs, IngestFails(p) PROVE MarkedWasPublished'
  <2>1. UNCHANGED <<index, publishing>>
    BY <1>7 DEF IngestFails, Fault, database
  <2> QED BY <2>1, MarkedKept, RawKept
<1>8. ASSUME NEW p \in Procs, Flush(p) PROVE MarkedWasPublished'
  <2>1. \A j \in Ids : /\ index'[j].content = index[j].content
                       /\ index'[j].published => index[j].published \/ j \in publishing[p]
    BY <1>8, FlushKeeps DEF RawInv
  <2>2. \A q \in Procs : publishing'[q] \subseteq publishing[q]
    BY <1>8 DEF Flush, RawInv, RawTypeOK
  <2>3. \A j \in Ids : (index'[j].published \/ \E q \in Procs : j \in publishing'[q])
            => index[j].published \/ \E q \in Procs : j \in publishing[q]
    BY <2>1, <2>2
  <2>4. Sent \subseteq Sent'
    BY RawKept DEF Kept
  <2>5. SUFFICES ASSUME NEW j \in Ids, index'[j].published \/ \E q \in Procs : j \in publishing'[q]
        PROVE  <<j, index'[j].content>> \in Sent'
    BY DEF MarkedWasPublished
  <2>6. <<j, index[j].content>> \in Sent
    BY <2>3, <2>5 DEF RawInv, MarkedWasPublished
  <2> QED BY <2>1, <2>4, <2>6
<1>9. ASSUME NEW p \in Procs, Crash(p) PROVE MarkedWasPublished'
  <2>1. index' = index /\ \A q \in Procs : publishing'[q] \subseteq publishing[q]
    BY <1>9 DEF Crash, database, RawInv, RawTypeOK
  <2> QED BY <2>1, MarkedKept, RawKept
<1>10. CASE ListPending
  <2>1. UNCHANGED <<index, publishing>>
    BY <1>10 DEF ListPending, database, ingest
  <2> QED BY <2>1, MarkedKept, RawKept
<1>11. ASSUME NEW p \in Procs, NEW i \in Ids, Republish(p, i) PROVE MarkedWasPublished'
  <2>1. UNCHANGED index
    BY <1>11 DEF Republish, database
  <2>2. <<i, index[i].content>> \in Sent' /\ \A j \in Ids, q \in Procs : j \in publishing'[q] => j \in publishing[q] \/ j = i
    BY <1>11 DEF Republish, Publish, MarkPublished, Sent, RawInv, RawTypeOK
  <2>3. <<i, index[i].content>> = <<i, index[i].content>>
    BY <1>11
  <2> QED BY <2>1, <2>2, <2>3, MarkedKept, RawKept DEF Kept
<1>12. ASSUME NEW i \in Ids, RepublishFails(i) PROVE MarkedWasPublished'
  <2>1. \A j \in Ids : index'[j].content = index[j].content /\ (index'[j].published => index[j].published)
    BY <1>12, CountKeeps DEF RepublishFails, RawInv
  <2>2. UNCHANGED publishing
    BY <1>12 DEF RepublishFails, LostAnswer, Publish, Sent
  <2> QED BY <2>1, <2>2, MarkedKept, RawKept DEF Kept
<1>13. ASSUME NEW m \in queue, Reject(m) PROVE MarkedWasPublished'
  <2>1. UNCHANGED <<index, publishing>>
    BY <1>13 DEF Reject, database, ingest
  <2> QED BY <2>1, MarkedKept, RawKept
<1>14. ASSUME NEW m \in queue, Forward(m) PROVE MarkedWasPublished'
  <2>1. UNCHANGED <<index, publishing>>
    BY <1>14 DEF Forward, database, ingest
  <2> QED BY <2>1, MarkedKept, RawKept
<1>15. ASSUME NEW m \in queue, HandleFails(m) PROVE MarkedWasPublished'
  <2>1. UNCHANGED <<index, publishing>>
    BY <1>15 DEF HandleFails, Fault, database, ingest
  <2> QED BY <2>1, MarkedKept, RawKept
<1>16. CASE UNCHANGED vars
  <2>1. UNCHANGED <<index, publishing>>
    BY <1>16 DEF vars, database, ingest
  <2> QED BY <2>1, MarkedKept, RawKept
<1> QED
  BY <1>1, <1>2, <1>3, <1>4, <1>5, <1>6, <1>7, <1>8, <1>9, <1>10, <1>11, <1>12, <1>13, <1>14, <1>15, <1>16 DEF Next, Ingest, Retry, Handle

----------------------------------------------------------------------------
(* The theorems.                                                            *)

\* RawInv is an invariant of the specification.
LEMMA RawInvariant == Spec => []RawInv
<1>1. RawInv /\ [Next]_vars => RawInv'
  BY RawTypeStep, CallReservedStep, StoreReservedStep, IndexStoredStep, CallStoredStep,
     KnownIndexedStep, TodoIndexedStep, MarkedStep DEF RawInv
<1> QED BY RawInit, <1>1, PTL DEF Spec

\* Type correctness: in every reachable state a call of IngestRaw holds a message
\* exactly while it runs, and a database from PutRaw to SaveRawIndex's answer.
THEOREM RawTypeCorrect == Spec => []RawTypeOK
<1>1. RawInv => RawTypeOK
  BY DEF RawInv
<1> QED BY RawInvariant, <1>1, PTL

\* What IngestRaw acknowledged is indexed with that content, and the database
\* the index names holds it.
THEOREM AckedDurable == Spec => []AckedIsDurable
<1>1. ASSUME RawInv PROVE AckedIsDurable
  <2> SUFFICES ASSUME NEW m \in acked
               PROVE  index[m[1]].content = m[2] /\ Readable(m[1])
    BY DEF AckedIsDurable
  <2>1. m \in Messages
    BY <1>1 DEF RawInv, RawTypeOK
  <2>2. m[1] \in Ids /\ m[2] # NoContent
    BY <2>1, MessageParts
  <2>3. index[m[1]].content = m[2]
    BY <1>1 DEF RawInv, KnownIndexed
  <2> QED BY <1>1, <2>2, <2>3 DEF RawInv, IndexStored, Indexed
<1> QED BY RawInvariant, <1>1, PTL

\* An identity has one content, the one reserved first, in both databases, on
\* the raw topic and on the business stream.
THEOREM OneContent == Spec => []OneContentPerId
<1>1. ASSUME RawInv PROVE OneContentPerId
  <2>1. ASSUME NEW b \in Buckets, NEW m \in store[b]
        PROVE  m[2] = reserved[m[1]]
    BY <1>1 DEF RawInv, StoreReserved
  <2>2. ASSUME NEW m \in Sent
        PROVE  m[2] = reserved[m[1]]
    <3>1. m \in Messages
      BY <1>1 DEF RawInv, RawTypeOK, Sent
    <3>2. m[1] \in Ids /\ m[2] # NoContent
      BY <3>1, MessageParts
    <3>3. index[m[1]].content = m[2]
      BY <1>1 DEF RawInv, KnownIndexed
    <3> QED BY <1>1, <3>2, <3>3 DEF RawInv, IndexStored, Indexed
  <2> QED BY <2>1, <2>2 DEF OneContentPerId
<1> QED BY RawInvariant, <1>1, PTL

\* A message marked as published, in the index or in a buffer of marks, has been
\* published.
THEOREM MarkedPublished == Spec => []MarkedWasPublished
<1>1. RawInv => MarkedWasPublished
  BY DEF RawInv
<1> QED BY RawInvariant, <1>1, PTL

\* An index row keeps its content and its database, its mark stays, and its
\* attempts are not forgotten, in every step of every process.
THEOREM IndexSticky == Spec => IndexIsSticky
<1>1. ASSUME RawInv, [Next]_vars
      PROVE  [\A i \in Ids : Indexed(i) =>
                /\ index'[i].content = index[i].content /\ index'[i].bucket = index[i].bucket
                /\ index[i].published => index'[i].published
                /\ index[i].attempts <= index'[i].attempts]_vars
  BY <1>1, RawKept DEF Kept
<1> QED BY RawInvariant, <1>1, PTL DEF Spec, IndexIsSticky
=============================================================================
