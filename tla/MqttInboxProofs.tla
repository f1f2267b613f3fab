--------------------------- MODULE MqttInboxProofs ---------------------------
(***************************************************************************)
(* Proofs about the durable queue and the MQTT inbox on top of it, for any    *)
(* finite set of identities, any capacity and any number of failed flushes,   *)
(* crashes, redeliveries and operator actions.                              *)
(***************************************************************************)
EXTENDS MqttInbox, FunctionTheorems, FiniteSetTheorems, TLAPS

----------------------------------------------------------------------------
(* The inductive invariant of the queue.                                    *)

\* What the process sees is one of the states a crash may leave.
DirFound == \A i \in Ids : dir[i] \in maybe[i]

\* An entry has one file at most in each of them.
Single(s) == \A x, y \in s : x = y
OneKind == \A i \in Ids : \A s \in maybe[i] : Single(s)

\* With one file each, entries are counted by their identities.
Present(d) == {i \in Ids : d[i] # {}}
CountExact == open => items = Cardinality(Present(dir))

QueueInv ==
    /\ QueueTypeOK
    /\ DirFound
    /\ OneKind
    /\ CountExact
    /\ NothingStranded

(* The inductive invariant of the inbox.                                    *)

\* The drain loop works on an identity, and only while the queue is open.
DrainTyped ==
    /\ stage \in {"idle", "handling", "ack", "reject"}
    /\ stage # "idle" => open /\ cur \in Ids
    /\ acked \subseteq Ids

\* An entry is about to be removed only after it was handled.
AckSettled == stage = "ack" => cur \in settled

InboxInv ==
    /\ QueueInv
    /\ DrainTyped
    /\ AckSettled
    /\ AckedIsSafe
    /\ HandledEntryWaits

----------------------------------------------------------------------------
(* Counting files.                                                          *)

\* A set of kinds with one member at most has the cardinality the property names.
LEMMA SingleCardinality ==
  ASSUME NEW s \in SUBSET Kinds, Single(s)
  PROVE  Cardinality(s) <= 1
<1>1. CASE s = {}
  BY <1>1, FS_EmptySet
<1>2. CASE s # {}
  <2>1. PICK x : s = {x}
    BY <1>2 DEF Single
  <2>2. Cardinality({x}) = 1
    BY FS_Singleton
  <2> QED BY <2>1, <2>2
<1> QED BY <1>1, <1>2

\* Each identity of a set stands for one of its files.
LEMMA EntriesOf ==
  ASSUME NEW d \in [Ids -> SUBSET Kinds], \A i \in Ids : Single(d[i]), NEW D \in SUBSET Ids
  PROVE  Cardinality({e \in Entries(d) : e[1] \in D}) = Cardinality(Present(d) \cap D)
<1> DEFINE S == {e \in Entries(d) : e[1] \in D}
           T == Present(d) \cap D
           f == [e \in S |-> e[1]]
<1>1. f \in [S -> T]
  BY DEF Entries, Present
<1>2. \A e, g \in S : f[e] = f[g] => e = g
  BY DEF Entries, Single
<1>3. \A i \in T : \E e \in S : f[e] = i
  <2> SUFFICES ASSUME NEW i \in T PROVE \E e \in S : f[e] = i
    OBVIOUS
  <2>1. PICK k \in Kinds : k \in d[i]
    BY DEF Present
  <2>2. <<i, k>> \in S /\ f[<<i, k>>] = i
    BY <2>1 DEF Entries, Present
  <2> QED BY <2>2
<1>4. f \in Bijection(S, T)
  BY <1>1, <1>2, <1>3 DEF Bijection, Injection, Surjection, IsInjective
<1>5. ExistsBijection(T, S)
  BY <1>4, Fun_ExistsBijSymmetric DEF ExistsBijection
<1>6. IsFiniteSet(T)
  BY QueueAssumption, FS_Subset DEF Present
<1> QED BY <1>5, <1>6, FS_Bijection

\* All files.
LEMMA EntriesCount ==
  ASSUME NEW d \in [Ids -> SUBSET Kinds], \A i \in Ids : Single(d[i])
  PROVE  /\ Cardinality(Entries(d)) = Cardinality(Present(d))
         /\ Cardinality(Entries(d)) \in Nat
<1>1. {e \in Entries(d) : e[1] \in Ids} = Entries(d) /\ Present(d) \cap Ids = Present(d)
  BY DEF Entries, Present
<1>2. IsFiniteSet(Present(d))
  BY QueueAssumption, FS_Subset DEF Present
<1> QED BY <1>1, <1>2, EntriesOf, FS_CardinalityType

\* A sequence made of a set has exactly its members.
LEMMA SeqsOfSet ==
  ASSUME NEW S \in SUBSET Ids, NEW s \in SetToSeqs(S)
  PROVE  s \in Seq(Ids) /\ \A i \in S : \E k \in DOMAIN s : s[k] = i
<1> DEFINE D == 1..Cardinality(S)
<1>1. IsFiniteSet(S) /\ Cardinality(S) \in Nat
  BY QueueAssumption, FS_Subset, FS_CardinalityType
<1>2. s \in [D -> S] /\ \A i, j \in D : i # j => s[i] # s[j]
  BY DEF SetToSeqs
<1>3. s \in Seq(Ids)
  BY <1>1, <1>2
<1>4. IsFiniteSet(D) /\ Cardinality(D) = Cardinality(S)
  BY <1>1, FS_Interval
<1>5. s \in Injection(D, S)
  BY <1>2 DEF Injection, IsInjective
<1>6. s \in Surjection(D, S)
  BY <1>1, <1>4, <1>5, FS_Injection
<1> QED BY <1>2, <1>3, <1>6 DEF Surjection

----------------------------------------------------------------------------
(* The queue's operations.                                                  *)

\* What a flush of directory d leaves, whether it succeeds or not.
LEMMA FlushEffect ==
  ASSUME QueueInv, NEW d \in [Ids -> SUBSET Kinds], \A i \in Ids : Single(d[i]),
         NEW ok \in BOOLEAN, Flush(d, ok)
  PROVE  /\ dir' = d
         /\ dir' \in [Ids -> SUBSET Kinds]
         /\ maybe' \in [Ids -> SUBSET SUBSET Kinds]
         /\ errors' \in 0..MaxErrors
         /\ DirFound' /\ OneKind'
         /\ \A i \in Ids : {} \notin maybe[i] /\ d[i] # {} => {} \notin maybe'[i]
<1> USE DEF QueueInv, QueueTypeOK
<1>1. dir' = d /\ \A i \in Ids : d[i] \in SUBSET Kinds
  BY DEF Flush
<1>2. maybe' = [i \in Ids |-> IF ok THEN {d[i]} ELSE maybe[i] \cup {d[i]}]
  BY DEF Flush
<1>3. \A i \in Ids : maybe'[i] \in {{d[i]}, maybe[i] \cup {d[i]}}
  BY <1>2
<1>4. maybe' \in [Ids -> SUBSET SUBSET Kinds]
  BY <1>1, <1>2
<1>5. errors' \in 0..MaxErrors
  BY QueueAssumption DEF Flush, Outcome, Err
<1>6. DirFound'
  BY <1>1, <1>3 DEF DirFound
<1>7. OneKind'
  BY <1>3 DEF OneKind
<1> QED BY <1>1, <1>3, <1>4, <1>5, <1>6, <1>7

\* Every entry has at most one visible file.
LEMMA DirSingle == QueueInv => \A i \in Ids : Single(dir[i]) /\ dir[i] \in SUBSET Kinds
BY DEF QueueInv, QueueTypeOK, DirFound, OneKind

\* A directory with one entry more.
LEMMA PresentAdd ==
  ASSUME QueueInv, open, NEW i \in Ids, dir[i] = {}, dir'[i] # {},
         \A j \in Ids \ {i} : dir'[j] = dir[j]
  PROVE  Cardinality(Present(dir')) = items + 1
<1>1. Present(dir') = Present(dir) \cup {i} /\ i \notin Present(dir)
  BY DEF Present
<1>2. IsFiniteSet(Present(dir))
  BY QueueAssumption, FS_Subset DEF Present
<1> QED BY <1>1, <1>2, FS_AddElement DEF QueueInv, CountExact

\* A directory without the entries of D.
LEMMA PresentRemove ==
  ASSUME QueueInv, open, NEW D \in SUBSET Ids,
         \A j \in Ids : dir'[j] = IF j \in D THEN {} ELSE dir[j]
  PROVE  Cardinality(Present(dir')) = items - Cardinality(Present(dir) \cap D)
<1> DEFINE P == Present(dir)
<1>1. Present(dir') = P \ D
  BY DEF Present
<1>2. IsFiniteSet(P)
  BY QueueAssumption, FS_Subset DEF Present
<1>3. Cardinality(P \ D) = Cardinality(P) - Cardinality(P \cap D)
  BY <1>2, FS_Difference
<1> QED BY <1>1, <1>3 DEF QueueInv, CountExact

\* put of an entry that waits already.
LEMMA PutSameKeeps ==
  ASSUME QueueInv, NEW i \in Ids, NEW ok \in BOOLEAN, PutSame(i, ok)
  PROVE  /\ QueueInv' /\ UNCHANGED <<open, dir>>
         /\ \A j \in Ids : {} \notin maybe[j] => {} \notin maybe'[j]
         /\ ok => {} \notin maybe'[i]
<1>1. /\ open /\ "json" \in dir[i] /\ Flush(dir, ok) /\ UNCHANGED <<open, bad, written, order, active, items>>
  BY DEF PutSame, memory
<1>2. /\ UNCHANGED dir /\ maybe' \in [Ids -> SUBSET SUBSET Kinds] /\ errors' \in 0..MaxErrors
      /\ DirFound' /\ OneKind'
      /\ \A j \in Ids : {} \notin maybe[j] /\ dir[j] # {} => {} \notin maybe'[j]
  BY <1>1, FlushEffect, DirSingle DEF QueueInv, QueueTypeOK
<1>3. QueueTypeOK' /\ CountExact' /\ NothingStranded'
  BY <1>1, <1>2 DEF QueueInv, QueueTypeOK, CountExact, NothingStranded
<1>4. \A j \in Ids : {} \notin maybe[j] => dir[j] # {}
  BY DEF QueueInv, DirFound
<1>5. ok => maybe'[i] = {dir[i]}
  BY <1>1 DEF Flush
<1> QED BY <1>1, <1>2, <1>3, <1>4, <1>5 DEF QueueInv

\* put of a new entry: the file exists, counts and is served, flushed or not.
LEMMA PutNewKeeps ==
  ASSUME QueueInv, NEW i \in Ids, NEW ok \in BOOLEAN, PutNew(i, ok)
  PROVE  /\ QueueInv' /\ UNCHANGED open
         /\ dir[i] = {} /\ dir'[i] = {"json"} /\ \A j \in Ids \ {i} : dir'[j] = dir[j]
         /\ \A j \in Ids : {} \notin maybe[j] => {} \notin maybe'[j]
         /\ ok => {} \notin maybe'[i]
<1> DEFINE d == [dir EXCEPT ![i] = @ \cup {"json"}]
<1>1. /\ open /\ ~Quarantined(i) /\ "json" \notin dir[i] /\ Flush(d, ok) /\ writeFile(i)
      /\ items' = items + 1 /\ enqueue(i) /\ UNCHANGED <<open, bad>>
  BY DEF PutNew
<1>2. dir \in [Ids -> SUBSET Kinds] /\ dir[i] = {}
  BY <1>1 DEF QueueInv, QueueTypeOK, Quarantined, Kinds
<1>3. /\ d \in [Ids -> SUBSET Kinds] /\ d[i] = {"json"} /\ \A j \in Ids \ {i} : d[j] = dir[j]
  BY <1>2 DEF Kinds
<1>4. \A j \in Ids : Single(d[j])
  BY <1>3, DirSingle DEF Single
<1> HIDE DEF d
<1>5. /\ dir' = d /\ maybe' \in [Ids -> SUBSET SUBSET Kinds] /\ errors' \in 0..MaxErrors
      /\ DirFound' /\ OneKind'
      /\ \A j \in Ids : {} \notin maybe[j] /\ d[j] # {} => {} \notin maybe'[j]
  BY <1>1, <1>3, <1>4, FlushEffect
<1>6. order \in Seq(Ids) /\ active \subseteq Ids /\ items \in Nat /\ written \subseteq Ids \X Ids
  BY DEF QueueInv, QueueTypeOK
<1>7. /\ order' \in Seq(Ids) /\ active' = active \cup {i}
      /\ \A j \in active' : \E k \in DOMAIN order' : order'[k] = j
  <2>1. active' = active \cup {i}
    BY <1>1 DEF enqueue
  <2>2. \A j \in active : \E k \in DOMAIN order : order[k] = j
    BY <1>1 DEF QueueInv, NothingStranded
  <2>3. CASE i \in active
    BY <1>1, <1>6, <2>1, <2>2, <2>3 DEF enqueue
  <2>4. CASE i \notin active
    <3>1. order' = Append(order, i)
      BY <1>1, <2>4 DEF enqueue
    <3>2. /\ order' \in Seq(Ids) /\ Len(order') = Len(order) + 1 /\ order'[Len(order) + 1] = i
          /\ \A k \in 1..Len(order) : order'[k] = order[k]
      BY <1>6, <3>1
    <3>3. DOMAIN order = 1..Len(order) /\ DOMAIN order' = 1..Len(order) + 1 /\ Len(order) \in Nat
      BY <1>6, <3>2
    <3>4. ASSUME NEW j \in active' PROVE \E k \in DOMAIN order' : order'[k] = j
      <4>1. CASE j = i
        BY <3>2, <3>3, <4>1
      <4>2. CASE j \in active
        <5>1. PICK k \in 1..Len(order) : order[k] = j
          BY <2>2, <3>3, <4>2
        <5> QED BY <3>2, <3>3, <5>1
      <4> QED BY <2>1, <4>1, <4>2
    <3> QED BY <2>1, <3>2, <3>4
  <2> QED BY <2>3, <2>4
<1>8. written' \subseteq Ids \X Ids
  BY <1>1, <1>6 DEF writeFile
<1>9. QueueTypeOK'
  <2>1. items' \in Nat
    BY <1>1, <1>6
  <2> QED BY <1>1, <1>3, <1>5, <1>6, <1>7, <1>8, <2>1 DEF QueueTypeOK, QueueInv
<1>10. CountExact'
  BY <1>1, <1>2, <1>3, <1>5, PresentAdd DEF CountExact
<1>11. NothingStranded'
  BY <1>1, <1>3, <1>5, <1>7 DEF NothingStranded, QueueInv
<1>12. \A j \in Ids : {} \notin maybe[j] => dir[j] # {}
  BY DEF QueueInv, DirFound
<1>13. ok => maybe'[i] = {d[i]}
  BY <1>1 DEF Flush
<1> QED BY <1>1, <1>2, <1>3, <1>5, <1>9, <1>10, <1>11, <1>12, <1>13 DEF QueueInv

\* A file that keeps its place but changes its suffix keeps its capacity.
LEMMA PresentSame ==
  ASSUME QueueInv, open, \A j \in Ids : dir'[j] = {} <=> dir[j] = {}
  PROVE  Cardinality(Present(dir')) = items
<1>1. Present(dir') = Present(dir)
  BY DEF Present
<1> QED BY <1>1 DEF QueueInv, CountExact

\* What is left of the reception order after its head was found at k.
LEMMA OrderFrom ==
  ASSUME QueueInv, open, NEW k \in DOMAIN order, HeadAt(k), order' = SubSeq(order, k, Len(order))
  PROVE  /\ order' \in Seq(Ids) /\ order[k] \in Ids /\ "json" \in dir[order[k]]
         /\ \A j \in active : \E m \in DOMAIN order' : order'[m] = j
<1>1. order \in Seq(Ids) /\ Len(order) \in Nat /\ DOMAIN order = 1..Len(order) /\ order[k] \in Ids
  BY DEF QueueInv, QueueTypeOK
<1>2. /\ order' \in Seq(Ids) /\ Len(order') = Len(order) - k + 1
      /\ \A m \in 1..Len(order') : order'[m] = order[k + m - 1]
  BY <1>1
<1>3. DOMAIN order' = 1..Len(order')
  BY <1>2
<1>4. "json" \in dir[order[k]]
  BY <1>1 DEF HeadAt, QueueInv, NothingStranded
<1>5. ASSUME NEW j \in active PROVE \E m \in DOMAIN order' : order'[m] = j
  <2>1. PICK n \in 1..Len(order) : order[n] = j
    BY <1>1 DEF QueueInv, NothingStranded
  <2>2. n >= k
    BY <1>1, <2>1 DEF HeadAt
  <2>3. n - k + 1 \in 1..Len(order') /\ order'[n - k + 1] = j
    <3>1. n - k + 1 \in 1..Len(order') /\ k + (n - k + 1) - 1 = n
      BY <1>1, <1>2, <2>1, <2>2
    <3> QED BY <1>2, <2>1, <3>1
  <2> QED BY <1>3, <2>3
<1> QED BY <1>1, <1>2, <1>4, <1>5

\* Next returns an entry that waits.
LEMMA NextServeKeeps ==
  ASSUME QueueInv, NEW k \in DOMAIN order, NextServe(k)
  PROVE  QueueInv' /\ UNCHANGED <<open, dir, maybe>> /\ open /\ order[k] \in Ids /\ "json" \in dir[order[k]]
<1>1. /\ open /\ HeadAt(k) /\ order' = SubSeq(order, k, Len(order))
      /\ UNCHANGED <<open, dir, maybe, bad, written, active, items, errors>>
  BY DEF NextServe, disk
<1>2. /\ order' \in Seq(Ids) /\ order[k] \in Ids /\ "json" \in dir[order[k]]
      /\ \A j \in active : \E m \in DOMAIN order' : order'[m] = j
  BY <1>1, OrderFrom
<1>3. QueueTypeOK' /\ DirFound' /\ OneKind' /\ CountExact'
  BY <1>1, <1>2 DEF QueueInv, QueueTypeOK, DirFound, OneKind, CountExact
<1>4. NothingStranded'
  BY <1>1, <1>2 DEF QueueInv, NothingStranded
<1> QED BY <1>1, <1>2, <1>3, <1>4 DEF QueueInv

\* One waiting file becomes one of another suffix: Reject and an unreadable head.
LEMMA RenameKeeps ==
  ASSUME QueueInv, open, NEW i \in Ids, "json" \in dir[i], NEW to \in {"rejected", "corrupt"},
         NEW ok \in BOOLEAN, Flush([dir EXCEPT ![i] = (@ \ {"json"}) \cup {to}], ok),
         active' = active \ {i}, order' \in Seq(Ids),
         \A j \in active' : \E m \in DOMAIN order' : order'[m] = j,
         UNCHANGED <<open, bad, written, items>>
  PROVE  /\ QueueInv'
         /\ \A j \in Ids \ {i} : dir'[j] = dir[j]
         /\ \A j \in Ids : {} \notin maybe[j] => {} \notin maybe'[j]
<1> DEFINE d == [dir EXCEPT ![i] = (@ \ {"json"}) \cup {to}]
<1>1. dir \in [Ids -> SUBSET Kinds] /\ dir[i] = {"json"}
  BY DirSingle DEF QueueInv, QueueTypeOK, Single
<1>2. /\ d \in [Ids -> SUBSET Kinds] /\ d[i] = {to} /\ \A j \in Ids \ {i} : d[j] = dir[j]
  BY <1>1 DEF Kinds
<1>3. \A j \in Ids : Single(d[j])
  BY <1>2, DirSingle DEF Single
<1>4. Flush(d, ok)
  OBVIOUS
<1> HIDE DEF d
<1>5. /\ dir' = d /\ maybe' \in [Ids -> SUBSET SUBSET Kinds] /\ errors' \in 0..MaxErrors
      /\ DirFound' /\ OneKind'
      /\ \A j \in Ids : {} \notin maybe[j] /\ d[j] # {} => {} \notin maybe'[j]
  BY <1>2, <1>3, <1>4, FlushEffect
<1>6. QueueTypeOK'
  BY <1>2, <1>5 DEF QueueInv, QueueTypeOK
<1>7. CountExact'
  BY <1>1, <1>2, <1>5, PresentSame DEF CountExact
<1>8. NothingStranded'
  BY <1>1, <1>2, <1>5 DEF QueueInv, NothingStranded
<1>9. \A j \in Ids : {} \notin maybe[j] => d[j] # {}
  BY <1>2 DEF QueueInv, DirFound
<1> QED BY <1>2, <1>5, <1>6, <1>7, <1>8, <1>9 DEF QueueInv

\* Next sets an unreadable head aside.
LEMMA NextCorruptKeeps ==
  ASSUME QueueInv, NEW k \in DOMAIN order, NEW ok \in BOOLEAN, NextCorrupt(k, ok)
  PROVE  QueueInv' /\ UNCHANGED open /\ \A j \in Ids : {} \notin maybe[j] => {} \notin maybe'[j]
<1>1. /\ open /\ HeadAt(k) /\ order' = SubSeq(order, k, Len(order))
      /\ Flush([dir EXCEPT ![order[k]] = (@ \ {"json"}) \cup {"corrupt"}], ok)
      /\ active' = active \ {order[k]}
      /\ UNCHANGED <<open, bad, written, items>>
  BY DEF NextCorrupt
<1>2. /\ order' \in Seq(Ids) /\ order[k] \in Ids /\ "json" \in dir[order[k]]
      /\ \A j \in active : \E m \in DOMAIN order' : order'[m] = j
  BY <1>1, OrderFrom
<1> QED BY <1>1, <1>2, RenameKeeps

\* Next finds nothing: all names in the order are settled.
LEMMA NextEmptyKeeps ==
  ASSUME QueueInv, NextEmpty
  PROVE  QueueInv' /\ UNCHANGED <<open, dir, maybe>>
<1>1. /\ open /\ order' = <<>> /\ UNCHANGED <<open, dir, maybe, bad, written, active, items, errors>>
  BY DEF NextEmpty, disk
<1>2. active = {}
  BY <1>1 DEF NextEmpty, QueueInv, NothingStranded
<1>3. QueueTypeOK' /\ DirFound' /\ OneKind' /\ CountExact'
  BY <1>1 DEF QueueInv, QueueTypeOK, DirFound, OneKind, CountExact
<1>4. NothingStranded'
  BY <1>1, <1>2 DEF QueueInv, NothingStranded
<1> QED BY <1>1, <1>3, <1>4 DEF QueueInv

\* Ack removes a file.
LEMMA AckKeeps ==
  ASSUME QueueInv, NEW i \in Ids, NEW ok \in BOOLEAN, Ack(i, ok)
  PROVE  /\ QueueInv' /\ UNCHANGED open
         /\ \A j \in Ids \ {i} : {} \notin maybe[j] => {} \notin maybe'[j]
<1>1. CASE "json" \notin dir[i]
  BY <1>1 DEF Ack, qvars, disk, memory, QueueInv, QueueTypeOK, DirFound, OneKind, CountExact, NothingStranded
<1>2. CASE "json" \in dir[i]
  <2> DEFINE d == [dir EXCEPT ![i] = @ \ {"json"}]
  <2>1. /\ open /\ Flush(d, ok) /\ active' = active \ {i} /\ items' = items - 1 /\ bad' = bad \ {i}
        /\ UNCHANGED <<open, written, order>>
    BY <1>2 DEF Ack
  <2>2. dir \in [Ids -> SUBSET Kinds] /\ dir[i] = {"json"}
    BY <1>2, DirSingle DEF QueueInv, QueueTypeOK, Single
  <2>3. /\ d \in [Ids -> SUBSET Kinds] /\ d[i] = {} /\ \A j \in Ids \ {i} : d[j] = dir[j]
    BY <2>2
  <2>4. \A j \in Ids : Single(d[j])
    BY <2>3, DirSingle DEF Single
  <2> HIDE DEF d
  <2>5. /\ dir' = d /\ maybe' \in [Ids -> SUBSET SUBSET Kinds] /\ errors' \in 0..MaxErrors
        /\ DirFound' /\ OneKind'
        /\ \A j \in Ids : {} \notin maybe[j] /\ d[j] # {} => {} \notin maybe'[j]
    BY <2>1, <2>3, <2>4, FlushEffect
  <2>6. Cardinality(Present(dir')) = items - 1 /\ items' \in Nat
    <3>1. \A j \in Ids : dir'[j] = IF j \in {i} THEN {} ELSE dir[j]
      BY <2>3, <2>5
    <3>2. Present(dir) \cap {i} = {i} /\ Cardinality({i}) = 1
      BY <2>2, FS_Singleton DEF Present
    <3>3. Cardinality(Present(dir')) = items - 1
      BY <2>1, <3>1, <3>2, PresentRemove
    <3>4. IsFiniteSet(Present(dir'))
      BY QueueAssumption, FS_Subset DEF Present
    <3> QED BY <2>1, <3>3, <3>4, FS_CardinalityType
  <2>7. QueueTypeOK'
    BY <2>1, <2>3, <2>5, <2>6 DEF QueueInv, QueueTypeOK
  <2>8. CountExact'
    BY <2>1, <2>6 DEF CountExact
  <2>9. NothingStranded'
    BY <2>1, <2>2, <2>3, <2>5 DEF QueueInv, NothingStranded
  <2>10. \A j \in Ids \ {i} : {} \notin maybe[j] => d[j] # {}
    BY <2>3 DEF QueueInv, DirFound
  <2> QED BY <2>1, <2>5, <2>7, <2>8, <2>9, <2>10 DEF QueueInv
<1> QED BY <1>1, <1>2

\* Reject sets a file aside.
LEMMA RejectKeeps ==
  ASSUME QueueInv, NEW i \in Ids, NEW ok \in BOOLEAN, Reject(i, ok)
  PROVE  /\ QueueInv' /\ UNCHANGED open
         /\ \A j \in Ids : {} \notin maybe[j] => {} \notin maybe'[j]
<1>1. CASE "json" \notin dir[i]
  BY <1>1 DEF Reject, qvars, disk, memory, QueueInv, QueueTypeOK, DirFound, OneKind, CountExact, NothingStranded
<1>2. CASE "json" \in dir[i]
  <2>1. /\ open /\ Flush([dir EXCEPT ![i] = (@ \ {"json"}) \cup {"rejected"}], ok) /\ active' = active \ {i}
        /\ UNCHANGED <<open, bad, written, order, items>>
    BY <1>2 DEF Reject
  <2>2. order' \in Seq(Ids) /\ \A j \in active' : \E m \in DOMAIN order' : order'[m] = j
    BY <2>1 DEF QueueInv, QueueTypeOK, NothingStranded
  <2> QED BY <1>2, <2>1, <2>2, RenameKeeps
<1> QED BY <1>1, <1>2

\* A refused put, and a file that becomes unreadable, change no directory.
LEMMA UntouchedKeeps ==
  ASSUME QueueInv, NEW i \in Ids, PutRefused(i) \/ Decay(i)
  PROVE  QueueInv' /\ UNCHANGED <<open, dir, maybe>>
<1>1. /\ UNCHANGED <<open, dir, maybe, written, order, active, items>> /\ bad' \subseteq Ids
      /\ errors' \in 0..MaxErrors
  BY QueueAssumption DEF PutRefused, Decay, Err, disk, memory, QueueInv, QueueTypeOK
<1> QED BY <1>1 DEF QueueInv, QueueTypeOK, DirFound, OneKind, CountExact, NothingStranded

\* The operator's retry puts rejected entries at the end of the reception order.
LEMMA RetryRejectedKeeps ==
  ASSUME QueueInv, NEW R \in SUBSET Ids, NEW ok \in BOOLEAN, RetryRejected(R, ok)
  PROVE  /\ QueueInv' /\ UNCHANGED open
         /\ \A j \in Ids : "json" \in dir[j] => "json" \in dir'[j]
         /\ \A j \in Ids : {} \notin maybe[j] => {} \notin maybe'[j]
<1>1. /\ open /\ R \subseteq {i \in Ids : "rejected" \in dir[i]} /\ Flush(Moved(R), ok)
      /\ active' = active \cup R /\ UNCHANGED <<open, bad, written, items>>
  BY DEF RetryRejected
<1>2. PICK s \in SetToSeqs(R) : order' = order \o s
  BY DEF RetryRejected
<1> DEFINE d == Moved(R)
<1>3. dir \in [Ids -> SUBSET Kinds] /\ \A i \in R : dir[i] = {"rejected"}
  <2>1. ASSUME NEW i \in R PROVE dir[i] = {"rejected"}
    <3>1. i \in Ids /\ "rejected" \in dir[i] /\ Single(dir[i])
      BY <1>1, DirSingle
    <3> QED BY <3>1 DEF Single
  <2> QED BY <2>1 DEF QueueInv, QueueTypeOK
<1>4. d \in [Ids -> SUBSET Kinds] /\ \A i \in Ids : d[i] = IF i \in R THEN {"json"} ELSE dir[i]
  BY <1>3 DEF Moved, Kinds
<1>5. \A i \in Ids : Single(d[i])
  BY <1>4, DirSingle DEF Single
<1>6. Flush(d, ok)
  BY <1>1
<1> HIDE DEF d
<1>7. /\ dir' = d /\ maybe' \in [Ids -> SUBSET SUBSET Kinds] /\ errors' \in 0..MaxErrors
      /\ DirFound' /\ OneKind'
      /\ \A i \in Ids : {} \notin maybe[i] /\ d[i] # {} => {} \notin maybe'[i]
  BY <1>4, <1>5, <1>6, FlushEffect
<1>8. order \in Seq(Ids) /\ s \in Seq(Ids) /\ \A i \in R : \E k \in DOMAIN s : s[k] = i
  BY <1>2, SeqsOfSet DEF QueueInv, QueueTypeOK
<1>9. /\ order' \in Seq(Ids) /\ DOMAIN order' = 1..(Len(order) + Len(s))
      /\ \A k \in 1..Len(order) : order'[k] = order[k]
      /\ \A k \in 1..Len(s) : order'[Len(order) + k] = s[k]
  BY <1>2, <1>8
<1>10. Len(order) \in Nat /\ Len(s) \in Nat /\ DOMAIN order = 1..Len(order) /\ DOMAIN s = 1..Len(s)
  BY <1>8
<1>11. ASSUME NEW j \in active' PROVE \E k \in DOMAIN order' : order'[k] = j
  <2>1. CASE j \in active
    <3>1. PICK k \in 1..Len(order) : order[k] = j
      BY <1>1, <1>10, <2>1 DEF QueueInv, NothingStranded
    <3> QED BY <1>9, <1>10, <3>1
  <2>2. CASE j \in R
    <3>1. PICK k \in 1..Len(s) : s[k] = j
      BY <1>8, <1>10, <2>2
    <3>2. Len(order) + k \in DOMAIN order' /\ order'[Len(order) + k] = j
      BY <1>9, <1>10, <3>1
    <3> QED BY <3>2
  <2> QED BY <1>1, <2>1, <2>2
<1>12. QueueTypeOK'
  BY <1>1, <1>4, <1>7, <1>9 DEF QueueInv, QueueTypeOK
<1>13. CountExact'
  BY <1>1, <1>3, <1>4, <1>7, PresentSame DEF CountExact
<1>14. NothingStranded'
  BY <1>1, <1>4, <1>7, <1>11 DEF QueueInv, NothingStranded
<1>15. \A j \in Ids : {} \notin maybe[j] => d[j] # {}
  BY <1>4 DEF QueueInv, DirFound
<1> QED BY <1>1, <1>4, <1>7, <1>12, <1>13, <1>14, <1>15 DEF QueueInv

\* The cleanup removes the files of D, whose capacity becomes free.
LEMMA DiscardKeeps ==
  ASSUME QueueInv, NEW D \in SUBSET Ids, NEW match \in SUBSET Ids, NEW last \in D, NEW ok \in BOOLEAN,
         DiscardMatching(match, D, last, ok)
  PROVE  /\ QueueInv' /\ UNCHANGED open
         /\ \A j \in Ids \ D : {} \notin maybe[j] => {} \notin maybe'[j]
<1> DEFINE d == [i \in Ids |-> IF i \in D THEN {} ELSE dir[i]]
           n == Cardinality({e \in Entries(dir) : e[1] \in D})
<1>1. /\ open /\ dir' = d /\ Outcome(ok) /\ active' = active \ D /\ items' = items - n
      /\ UNCHANGED <<open, bad, written, order>>
  BY DEF DiscardMatching
<1>2. dir \in [Ids -> SUBSET Kinds] /\ maybe \in [Ids -> SUBSET SUBSET Kinds] /\ \A i \in Ids : Single(dir[i])
  BY DirSingle DEF QueueInv, QueueTypeOK
<1>3. d \in [Ids -> SUBSET Kinds] /\ \A i \in Ids : d[i] = IF i \in D THEN {} ELSE dir[i]
  BY <1>2
<1>4. maybe' = [i \in Ids |-> IF ok THEN {d[i]}
                              ELSE IF D = {last} THEN maybe[i] \cup {d[i]}
                              ELSE {IF i = last THEN dir[i] ELSE d[i], d[i]}]
  BY DEF DiscardMatching
<1> HIDE DEF d
<1>5. /\ \A i \in Ids : maybe'[i] \in {{d[i]}, maybe[i] \cup {d[i]}, {dir[i], d[i]}}
      /\ maybe' \in [Ids -> SUBSET SUBSET Kinds]
  BY <1>2, <1>3, <1>4
<1>6. DirFound'
  BY <1>1, <1>5 DEF DirFound
<1>7. \A i \in Ids : Single(d[i])
  BY <1>2, <1>3 DEF Single
<1>8. OneKind'
  BY <1>2, <1>5, <1>7 DEF QueueInv, OneKind
<1>9. Cardinality(Present(dir')) = items' /\ items' \in Nat
  <2>1. n = Cardinality(Present(dir) \cap D)
    BY <1>2, EntriesOf
  <2>2. Cardinality(Present(dir')) = items - Cardinality(Present(dir) \cap D)
    BY <1>1, <1>3, PresentRemove
  <2>3. IsFiniteSet(Present(dir'))
    BY QueueAssumption, FS_Subset DEF Present
  <2>4. Cardinality(Present(dir')) \in Nat
    BY <2>3, FS_CardinalityType
  <2> QED BY <1>1, <2>1, <2>2, <2>4
<1>10. QueueTypeOK'
  <2>1. errors' \in 0..MaxErrors
    BY <1>1, QueueAssumption DEF QueueInv, QueueTypeOK, Outcome, Err
  <2> QED BY <1>1, <1>3, <1>5, <1>9, <2>1 DEF QueueInv, QueueTypeOK
<1>11. CountExact'
  BY <1>9 DEF CountExact
<1>12. NothingStranded'
  BY <1>1, <1>3 DEF QueueInv, NothingStranded
<1>13. \A j \in Ids \ D : {} \notin maybe[j] => {} \notin maybe'[j]
  <2>1. \A j \in Ids \ D : d[j] = dir[j] /\ dir[j] \in maybe[j]
    BY <1>3 DEF QueueInv, DirFound
  <2> QED BY <1>5, <2>1
<1> QED BY <1>1, <1>6, <1>8, <1>10, <1>11, <1>12, <1>13 DEF QueueInv

\* A crash leaves one of the states that may have reached the disk.
LEMMA QueueCrashKeeps ==
  ASSUME QueueInv, QueueCrash
  PROVE  /\ QueueInv' /\ ~open'
         /\ \A j \in Ids : {} \notin maybe[j] => {} \notin maybe'[j]
<1>1. /\ open' = FALSE /\ \A i \in Ids : dir'[i] \in maybe[i]
      /\ maybe' = [i \in Ids |-> {dir'[i]}] /\ bad' \subseteq bad
      /\ order' = <<>> /\ active' = {} /\ items' = 0 /\ UNCHANGED written
  BY DEF QueueCrash
<1>2. dir' \in [Ids -> SUBSET Kinds]
  BY DEF QueueCrash, QueueInv, QueueTypeOK
<1>3. errors' \in 0..MaxErrors
  BY QueueAssumption DEF QueueCrash, Err, QueueInv, QueueTypeOK
<1>4. QueueTypeOK'
  <2>1. open' \in BOOLEAN
    BY <1>1, Zenon
  <2>2. maybe' \in [Ids -> SUBSET SUBSET Kinds]
    BY <1>1, <1>2
  <2> QED BY <1>1, <1>2, <1>3, <2>1, <2>2 DEF QueueInv, QueueTypeOK
<1>5. DirFound' /\ OneKind'
  BY <1>1 DEF QueueInv, DirFound, OneKind
<1>6. CountExact' /\ NothingStranded'
  BY <1>1 DEF CountExact, NothingStranded
<1> QED BY <1>1, <1>4, <1>5, <1>6 DEF QueueInv

\* A restart counts the files and orders the waiting ones by their age.
LEMMA OpenQueueKeeps ==
  ASSUME QueueInv, OpenQueue
  PROVE  QueueInv' /\ open' /\ ~open /\ UNCHANGED <<dir, maybe>>
<1> DEFINE W == {i \in Ids : "json" \in dir[i]}
<1>1. /\ ~open /\ open' = TRUE /\ active' = W /\ items' = Cardinality(Entries(dir))
      /\ UNCHANGED <<dir, maybe, bad, written, errors>>
  BY DEF OpenQueue, disk
<1>2. PICK s \in SetToSeqs(W) : order' = s
  BY DEF OpenQueue
<1>3. order' \in Seq(Ids) /\ \A i \in W : \E k \in DOMAIN order' : order'[k] = i
  BY <1>2, SeqsOfSet
<1>4. items' = Cardinality(Present(dir)) /\ items' \in Nat
  BY <1>1, EntriesCount, DirSingle DEF QueueInv, QueueTypeOK
<1>5. QueueTypeOK'
  <2>1. open' \in BOOLEAN
    BY <1>1, Zenon
  <2> QED BY <1>1, <1>3, <1>4, <2>1 DEF QueueInv, QueueTypeOK
<1>6. DirFound' /\ OneKind' /\ CountExact'
  BY <1>1, <1>4 DEF QueueInv, DirFound, OneKind, CountExact
<1>7. NothingStranded'
  BY <1>1, <1>3 DEF NothingStranded
<1> QED BY <1>1, <1>5, <1>6, <1>7 DEF QueueInv

----------------------------------------------------------------------------
(* The inbox.                                                               *)

\* Init establishes the invariant.
LEMMA InboxInit == Init => InboxInv
<1> SUFFICES ASSUME Init PROVE InboxInv
  OBVIOUS
<1> USE QueueAssumption DEF Init, QueueInit
<1>1. QueueTypeOK
  <2>1. open \in BOOLEAN
    BY Zenon
  <2> QED BY <2>1 DEF QueueTypeOK
<1>2. DirFound /\ OneKind /\ CountExact /\ NothingStranded
  BY DEF DirFound, OneKind, Single, CountExact, NothingStranded
<1>3. DrainTyped /\ AckSettled /\ AckedIsSafe /\ HandledEntryWaits
  BY DEF DrainTyped, AckSettled, AckedIsSafe, HandledEntryWaits
<1> QED BY <1>1, <1>2, <1>3 DEF InboxInv, QueueInv

\* The queue is left alone by steps of the broker, the handler and time.
LEMMA QueueUnchanged ==
  ASSUME QueueInv, UNCHANGED <<open, dir, maybe, bad, written, order, active, items>>,
         errors' \in 0..MaxErrors
  PROVE  QueueInv'
BY DEF QueueInv, QueueTypeOK, DirFound, OneKind, CountExact, NothingStranded

\* A delivery that was persisted, or could not be: the entry being handled still
\* waits, and only a flushed file is acknowledged.
LEMMA PersistStep ==
  ASSUME InboxInv, NEW i \in Ids, Persist(i) \/ AckLost(i) \/ PersistFailed(i)
  PROVE  InboxInv'
<1>0. QueueInv /\ DrainTyped /\ AckSettled /\ AckedIsSafe /\ HandledEntryWaits
  BY DEF InboxInv
<1>1. UNCHANGED <<stage, cur>>
  BY DEF Persist, AckLost, PersistFailed, drain
<1>2. ASSUME NEW ok \in BOOLEAN, PutNew(i, ok), settled' = settled \ {i},
             acked' = acked \ {i} \/ (ok /\ acked' = acked \cup {i})
      PROVE  InboxInv'
  <2>1. /\ QueueInv' /\ UNCHANGED open
        /\ dir[i] = {} /\ dir'[i] = {"json"} /\ \A j \in Ids \ {i} : dir'[j] = dir[j]
        /\ \A j \in Ids : {} \notin maybe[j] => {} \notin maybe'[j]
        /\ ok => {} \notin maybe'[i]
    BY <1>0, <1>2, PutNewKeeps
  <2>2. DrainTyped'
    BY <1>0, <1>1, <1>2, <2>1 DEF DrainTyped
  <2>3. stage = "ack" => cur # i
    BY <1>0, <2>1 DEF DrainTyped, HandledEntryWaits
  <2>4. AckSettled'
    BY <1>0, <1>1, <1>2, <2>3 DEF AckSettled
  <2>5. AckedIsSafe'
    BY <1>0, <1>2, <2>1 DEF AckedIsSafe, DrainTyped
  <2>6. HandledEntryWaits'
    BY <1>0, <1>1, <2>1 DEF HandledEntryWaits, DrainTyped
  <2> QED BY <2>1, <2>2, <2>4, <2>5, <2>6 DEF InboxInv
<1>3. ASSUME NEW ok \in BOOLEAN, PutSame(i, ok), UNCHANGED settled,
             UNCHANGED acked \/ (ok /\ acked' = acked \cup {i})
      PROVE  InboxInv'
  <2>1. /\ QueueInv' /\ UNCHANGED <<open, dir>>
        /\ \A j \in Ids : {} \notin maybe[j] => {} \notin maybe'[j]
        /\ ok => {} \notin maybe'[i]
    BY <1>0, <1>3, PutSameKeeps
  <2>2. DrainTyped' /\ AckSettled' /\ HandledEntryWaits'
    BY <1>0, <1>1, <1>3, <2>1 DEF DrainTyped, AckSettled, HandledEntryWaits
  <2>3. AckedIsSafe'
    BY <1>0, <1>3, <2>1 DEF AckedIsSafe, DrainTyped
  <2> QED BY <2>1, <2>2, <2>3 DEF InboxInv
<1>4. ASSUME PutRefused(i), UNCHANGED <<acked, settled>> PROVE InboxInv'
  <2>1. QueueInv' /\ UNCHANGED <<open, dir, maybe>>
    BY <1>0, <1>4, UntouchedKeeps
  <2>2. DrainTyped' /\ AckSettled' /\ HandledEntryWaits' /\ AckedIsSafe'
    BY <1>0, <1>1, <1>4, <2>1 DEF DrainTyped, AckSettled, HandledEntryWaits, AckedIsSafe
  <2> QED BY <2>1, <2>2 DEF InboxInv
<1> QED BY <1>2, <1>3, <1>4 DEF Persist, AckLost, PersistFailed, past

\* Steps that change only the broker, the drain loop and the handler's verdict.
LEMMA HandlerStep ==
  ASSUME InboxInv, Handler \/ Backpressure \/ Aged \/ Reconnect \/ \E i \in Ids : Publish(i) \/ Drop(i)
  PROVE  InboxInv'
<1>0. QueueInv /\ DrainTyped /\ AckSettled /\ AckedIsSafe /\ HandledEntryWaits
  BY DEF InboxInv
<1>1. ASSUME NEW to \in {"idle", "ack", "reject"}, Handled(to), errors' \in 0..MaxErrors,
             to = "ack" => settled' = settled \cup {cur}, to # "ack" => UNCHANGED settled
      PROVE  InboxInv'
  <2>1. /\ stage = "handling" /\ stage' = to /\ open
        /\ cur' = IF to = "idle" THEN None ELSE cur
        /\ UNCHANGED <<open, dir, maybe, bad, written, order, active, items, acked>>
    BY <1>1 DEF Handled, disk, memory
  <2>2. QueueInv'
    BY <1>0, <1>1, <2>1, QueueUnchanged
  <2>3. DrainTyped' /\ AckSettled' /\ HandledEntryWaits' /\ AckedIsSafe'
    BY <1>0, <1>1, <2>1 DEF DrainTyped, AckSettled, HandledEntryWaits, AckedIsSafe
  <2> QED BY <2>2, <2>3 DEF InboxInv
<1>2. errors \in 0..MaxErrors
  BY <1>0 DEF QueueInv, QueueTypeOK
<1>3. CASE Handler
  BY <1>1, <1>2, <1>3 DEF Handler, HandlerOk, HandlerPermanent, HandlerTransient, HandlerStuck
<1>4. CASE Backpressure
  <2>1. errors' \in 0..MaxErrors
    BY <1>2, <1>4, QueueAssumption DEF Backpressure, Err
  <2> QED BY <1>1, <1>4, <2>1 DEF Backpressure
<1>5. CASE Aged \/ Reconnect \/ \E i \in Ids : Publish(i) \/ Drop(i)
  <2>1. UNCHANGED <<open, dir, maybe, bad, written, order, active, items, errors, stage, cur, acked, settled>>
    BY <1>5 DEF Aged, Reconnect, Publish, Drop, qvars, disk, memory, drain, past
  <2>2. QueueInv'
    BY <1>0, <1>2, <2>1, QueueUnchanged
  <2>3. DrainTyped' /\ AckSettled' /\ HandledEntryWaits' /\ AckedIsSafe'
    BY <1>0, <2>1 DEF DrainTyped, AckSettled, HandledEntryWaits, AckedIsSafe
  <2> QED BY <2>2, <2>3 DEF InboxInv
<1> QED BY <1>3, <1>4, <1>5

\* The drain loop takes an entry, or finds none it can serve.
LEMMA DrainNextStep ==
  ASSUME InboxInv, DrainNext \/ DrainCorrupt \/ DrainEmpty
  PROVE  InboxInv'
<1>0. QueueInv /\ DrainTyped /\ AckSettled /\ AckedIsSafe /\ HandledEntryWaits
  BY DEF InboxInv
<1>1. CASE DrainNext
  <2>1. PICK k \in DOMAIN order : NextServe(k) /\ cur' = order[k]
    BY <1>1 DEF DrainNext
  <2>2. stage' = "handling" /\ UNCHANGED <<acked, settled>>
    BY <1>1 DEF DrainNext, past
  <2>3. QueueInv' /\ UNCHANGED <<open, dir, maybe>> /\ open /\ cur' \in Ids /\ "json" \in dir[cur']
    BY <1>0, <2>1, NextServeKeeps
  <2>4. DrainTyped' /\ AckSettled' /\ HandledEntryWaits' /\ AckedIsSafe'
    BY <1>0, <2>2, <2>3 DEF DrainTyped, AckSettled, HandledEntryWaits, AckedIsSafe
  <2> QED BY <2>3, <2>4 DEF InboxInv
<1>2. CASE DrainCorrupt \/ DrainEmpty
  <2>1. stage = "idle" /\ UNCHANGED <<stage, cur, acked, settled>>
    BY <1>2 DEF DrainCorrupt, DrainEmpty, drain, past
  <2>2. QueueInv' /\ UNCHANGED open /\ \A j \in Ids : {} \notin maybe[j] => {} \notin maybe'[j]
    BY <1>0, <1>2, NextCorruptKeeps, NextEmptyKeeps DEF DrainCorrupt, DrainEmpty
  <2>3. DrainTyped' /\ AckSettled' /\ HandledEntryWaits' /\ AckedIsSafe'
    BY <1>0, <2>1, <2>2 DEF DrainTyped, AckSettled, HandledEntryWaits, AckedIsSafe
  <2> QED BY <2>2, <2>3 DEF InboxInv
<1> QED BY <1>1, <1>2

\* The drain loop settles its entry: it is removed only once it was handled.
LEMMA SettleStep ==
  ASSUME InboxInv, NEW ok \in BOOLEAN, DrainAck(ok) \/ DrainReject(ok)
  PROVE  InboxInv'
<1>0. QueueInv /\ DrainTyped /\ AckSettled /\ AckedIsSafe /\ HandledEntryWaits
  BY DEF InboxInv
<1>1. cur \in Ids /\ stage' = "idle" /\ UNCHANGED <<acked, settled>>
  BY <1>0 DEF DrainAck, DrainReject, Settle, DrainTyped, past
<1>2. /\ QueueInv' /\ UNCHANGED open
      /\ \A j \in Ids : j \notin settled /\ {} \notin maybe[j] => {} \notin maybe'[j]
  <2>1. CASE DrainAck(ok)
    BY <1>0, <1>1, <2>1, AckKeeps DEF DrainAck, AckSettled
  <2>2. CASE DrainReject(ok)
    BY <1>0, <1>1, <2>2, RejectKeeps DEF DrainReject
  <2> QED BY <2>1, <2>2
<1>3. DrainTyped' /\ AckSettled' /\ HandledEntryWaits'
  BY <1>0, <1>1 DEF DrainTyped, AckSettled, HandledEntryWaits
<1>4. AckedIsSafe'
  BY <1>0, <1>1, <1>2 DEF DrainTyped, AckedIsSafe
<1> QED BY <1>2, <1>3, <1>4 DEF InboxInv

\* Operators, decay, crashes and restarts.
LEMMA FaultStep ==
  ASSUME InboxInv, RetryAll \/ DiscardCapacityInbox \/ Crash \/ Restart \/ \E i \in Ids : Rot(i)
  PROVE  InboxInv'
<1>0. QueueInv /\ DrainTyped /\ AckSettled /\ AckedIsSafe /\ HandledEntryWaits
  BY DEF InboxInv
<1>1. CASE RetryAll
  <2>1. PICK R \in SUBSET Ids, ok \in BOOLEAN : RetryRejected(R, ok)
    BY <1>1 DEF RetryAll
  <2>2. UNCHANGED <<stage, cur, acked, settled>>
    BY <1>1 DEF RetryAll, drain, past
  <2>3. /\ QueueInv' /\ UNCHANGED open
        /\ \A j \in Ids : "json" \in dir[j] => "json" \in dir'[j]
        /\ \A j \in Ids : {} \notin maybe[j] => {} \notin maybe'[j]
    BY <1>0, <2>1, RetryRejectedKeeps
  <2>4. DrainTyped' /\ AckSettled' /\ HandledEntryWaits' /\ AckedIsSafe'
    BY <1>0, <2>2, <2>3 DEF DrainTyped, AckSettled, HandledEntryWaits, AckedIsSafe
  <2> QED BY <2>3, <2>4 DEF InboxInv
<1>2. CASE DiscardCapacityInbox
  <2>1. PICK D \in SUBSET Fixtures : \E last \in D, ok \in BOOLEAN :
            DiscardMatching(Fixtures, D, last, ok) /\ settled' = settled \cup D
    BY <1>2 DEF DiscardCapacityInbox
  <2>2. stage = "idle" /\ UNCHANGED <<stage, cur, acked>>
    BY <1>2 DEF DiscardCapacityInbox, drain
  <2>3. D \in SUBSET Ids /\ Fixtures \in SUBSET Ids
    BY InboxAssumption
  <2>4. /\ QueueInv' /\ UNCHANGED open
        /\ \A j \in Ids \ D : {} \notin maybe[j] => {} \notin maybe'[j]
    BY <1>0, <2>1, <2>3, DiscardKeeps
  <2>5. DrainTyped' /\ AckSettled' /\ HandledEntryWaits' /\ AckedIsSafe'
    BY <1>0, <2>1, <2>2, <2>4 DEF DrainTyped, AckSettled, HandledEntryWaits, AckedIsSafe
  <2> QED BY <2>4, <2>5 DEF InboxInv
<1>3. CASE Crash
  <2>1. QueueInv' /\ ~open' /\ \A j \in Ids : {} \notin maybe[j] => {} \notin maybe'[j]
    BY <1>0, <1>3, QueueCrashKeeps DEF Crash
  <2>2. stage' = "idle" /\ UNCHANGED <<acked, settled>>
    BY <1>3 DEF Crash, past
  <2>3. DrainTyped' /\ AckSettled' /\ HandledEntryWaits' /\ AckedIsSafe'
    BY <1>0, <2>1, <2>2 DEF DrainTyped, AckSettled, HandledEntryWaits, AckedIsSafe
  <2> QED BY <2>1, <2>3 DEF InboxInv
<1>4. CASE Restart
  <2>1. QueueInv' /\ open' /\ ~open /\ UNCHANGED <<dir, maybe>>
    BY <1>0, <1>4, OpenQueueKeeps DEF Restart
  <2>2. UNCHANGED <<stage, cur, acked, settled>>
    BY <1>4 DEF Restart, drain, past
  <2>3. DrainTyped' /\ AckSettled' /\ HandledEntryWaits' /\ AckedIsSafe'
    BY <1>0, <2>1, <2>2 DEF DrainTyped, AckSettled, HandledEntryWaits, AckedIsSafe
  <2> QED BY <2>1, <2>3 DEF InboxInv
<1>5. ASSUME NEW i \in Ids, Rot(i) PROVE InboxInv'
  <2>1. QueueInv' /\ UNCHANGED <<open, dir, maybe>>
    BY <1>0, <1>5, UntouchedKeeps DEF Rot
  <2>2. UNCHANGED <<stage, cur, acked, settled>>
    BY <1>5 DEF Rot, drain, past
  <2>3. DrainTyped' /\ AckSettled' /\ HandledEntryWaits' /\ AckedIsSafe'
    BY <1>0, <2>1, <2>2 DEF DrainTyped, AckSettled, HandledEntryWaits, AckedIsSafe
  <2> QED BY <2>1, <2>3 DEF InboxInv
<1> QED BY <1>1, <1>2, <1>3, <1>4, <1>5

\* Every step preserves the invariant.
LEMMA InboxStep ==
  ASSUME InboxInv, [Next]_vars
  PROVE  InboxInv'
<1>1. CASE UNCHANGED vars
  BY <1>1 DEF vars, qvars, disk, memory, drain, past, InboxInv, QueueInv, QueueTypeOK, DirFound, OneKind,
              CountExact, NothingStranded, DrainTyped, AckSettled, AckedIsSafe, HandledEntryWaits
<1>2. CASE Next
  BY <1>2, PersistStep, HandlerStep, DrainNextStep, SettleStep, FaultStep DEF Next
<1> QED BY <1>1, <1>2

\* The invariant holds in every reachable state.
LEMMA InboxInvariant == Spec => []InboxInv
BY InboxInit, InboxStep, PTL DEF Spec

----------------------------------------------------------------------------
(* The theorems.                                                            *)

\* The directory and the queue's memory keep their types.
THEOREM QueueTypeCorrect == Spec => []QueueTypeOK
<1>1. InboxInv => QueueTypeOK
  BY DEF InboxInv, QueueInv
<1> QED BY <1>1, InboxInvariant, PTL

\* An acknowledged receipt survives any crash, whatever flushes failed before.
THEOREM AckedIsDurable == Spec => []AckedIsSafe
<1>1. InboxInv => AckedIsSafe
  BY DEF InboxInv
<1> QED BY <1>1, InboxInvariant, PTL

\* The entry being handled is still waiting when Ack or Reject looks for it.
THEOREM HandledEntryStays == Spec => []HandledEntryWaits
<1>1. InboxInv => HandledEntryWaits
  BY DEF InboxInv
<1> QED BY <1>1, InboxInvariant, PTL

\* No waiting file is out of the reception order.
THEOREM QueueServesAll == Spec => []NothingStranded
<1>1. InboxInv => NothingStranded
  BY DEF InboxInv, QueueInv
<1> QED BY <1>1, InboxInvariant, PTL

\* The capacity counter equals the files that use capacity.
THEOREM CapacityIsExact == Spec => []CapacityExact
<1>1. InboxInv => CapacityExact
  <2> SUFFICES ASSUME InboxInv, open PROVE items = Cardinality(Entries(dir))
    BY DEF CapacityExact
  <2>1. dir \in [Ids -> SUBSET Kinds] /\ \A i \in Ids : Single(dir[i])
    BY DirSingle DEF InboxInv, QueueInv, QueueTypeOK
  <2> QED BY <2>1, EntriesCount DEF InboxInv, QueueInv, CountExact
<1> QED BY <1>1, InboxInvariant, PTL

\* No crash leaves two files of one identity.
THEOREM OneFileEach == Spec => []OneFilePerId
<1>1. InboxInv => OneFilePerId
  <2> SUFFICES ASSUME InboxInv, NEW i \in Ids, NEW s \in maybe[i] PROVE Cardinality(s) <= 1
    BY DEF OneFilePerId
  <2>1. s \in SUBSET Kinds /\ Single(s)
    BY DEF InboxInv, QueueInv, QueueTypeOK, OneKind
  <2> QED BY <2>1, SingleCardinality
<1> QED BY <1>1, InboxInvariant, PTL

=============================================================================
