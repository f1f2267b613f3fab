----------------------------- MODULE TaskProofs -----------------------------
(***************************************************************************)
(* Proofs about two kinds of long-running tasks.  Batch registration, for any  *)
(* number of rows, workers, requests, failures, exits and retries: a secret is  *)
(* handed out once, its erasure waits for it, its row tells what became of it,  *)
(* and a settled batch has the counts of its rows.  Replay, for any requests,   *)
(* page size and traffic: a completed replay has taken what it had to take.    *)
(***************************************************************************)
EXTENDS OnboardingBatch, ReplayTasks, FiniteSetTheorems, TLAPS

----------------------------------------------------------------------------
(* Batches: types.                                                          *)

Actors   == Workers \cup Claimers \cup {Nobody}
Body     == [input: BOOLEAN, retry: SUBSET Rows, active: SUBSET Rows,
             succeeded: Nat, failed: Nat, pending: Int]
BatchRow == [status: {"INITIALIZING", "QUEUED", "RUNNING", "PAUSED", "COMPLETED", "PARTIAL_FAILED"},
             body: Body]
RowRow   == [status: {"none", "PENDING", "RUNNING", "SUCCEEDED", "FAILED"},
             credential: {"NONE", "AVAILABLE", "REISSUE_REQUIRED", "DELIVERED", "EXPIRED"},
             delivery: Nat]
Job      == [status: {"none", "QUEUED", "COMPLETED"}, secret: Nat]
NoJob    == [status |-> "none", secret |-> 0]

\* The steps in which a worker has counted all rows, and those in which it has a row in hand.
AtRow   == {"enroll", "expiry", "result"}
Tallied == {"template", "rows", "summary"} \cup AtRow
Steps   == {"idle", "input", "reset", "count"} \cup Tallied

RecordsTyped ==
    /\ batch \in BatchRow /\ row \in [Rows -> RowRow]
    /\ known \subseteq Workers /\ fresh \subseteq Actors \X Rows

\* The workers; the index is that of a row where one is needed.
WorkersTyped ==
    /\ lease \in Workers \cup {Nobody} /\ template \in {"ready", "changed", "unready"}
    /\ pc \in [Workers -> Steps] /\ b \in [Workers -> Body]
    /\ idx \in [Workers -> 1..Total + 1]
    /\ res \in [Workers -> [secret: Nat, ok: BOOLEAN]]
    /\ \A w \in Workers : /\ pc[w] \in {"count", "summary"} \cup AtRow => idx[w] \in Rows
                          /\ pc[w] = "reset" => idx[w] = 1

\* Devices, secrets, the jobs that erase them, and the bounds.
SecretsTyped ==
    /\ device \in [Rows -> Nat] /\ created \in [Rows -> Nat] /\ past \in [Rows -> Nat]
    /\ expiry \in [Rows -> Job]
    /\ handed \in [Rows \X Secrets -> Nat]
    /\ opened \in [Claimers -> [row: Rows \cup {0}, delivery: Nat, valid: BOOLEAN]]
    /\ faults \in Nat /\ stalls \in Nat /\ retries \in Nat /\ deletes \in Nat

BatchTyped == RecordsTyped /\ WorkersTyped /\ SecretsTyped

----------------------------------------------------------------------------
(* Batches: what copies and results say about the rows.                      *)

\* What was read and is still current says what is in the record.
CopiesCurrent ==
    /\ \A c \in Claimers : opened[c].row # 0 =>
           /\ opened[c].delivery # 0
           /\ <<c, opened[c].row>> \in fresh => row[opened[c].row].delivery = opened[c].delivery
    /\ \A w \in Workers : pc[w] \in AtRow /\ <<w, idx[w]>> \in fresh => row[idx[w]].status = "RUNNING"

\* A worker has a result only for the row in hand, and a secret only with success.
ResultInHand ==
    \A w \in Workers : /\ pc[w] \notin {"expiry", "result"} => res[w] = NoRes
                       /\ res[w].secret # 0 => res[w].ok /\ idx[w] \in Platform

\* Rows of devices with a secret tell what became of it.
RowTells(i, r) ==
    /\ r.status # "SUCCEEDED" => r.credential = "NONE" /\ r.delivery = 0
    /\ r.delivery # 0 => i \in Platform /\ r.credential = "AVAILABLE"
    /\ i \in Platform /\ r.status = "SUCCEEDED" =>
           /\ r.credential # "NONE"
           /\ r.credential = "AVAILABLE" => r.delivery # 0

RowsTell == \A i \in Rows : RowTells(i, row[i])

----------------------------------------------------------------------------
(* Batches: secrets.                                                        *)

\* Secrets are numbered by registrations, which deletions limit.
Numbered ==
    \A i \in Rows :
        /\ created[i] <= deletes + 1 /\ device[i] \in {0, created[i], Replaced}
        /\ device[i] = 0 => created[i] <= deletes
        /\ past[i] <= created[i] /\ row[i].delivery <= created[i]
        /\ created[i] = 0 => expiry[i] = NoJob
        /\ \A s \in Secrets : s > created[i] => handed[<<i, s>>] = 0

\* A secret on its way to the row of index i: only this worker has it, it was not
\* saved nor handed out, its window is open and its erasure will wait for it.
OnItsWay(w) ==
    LET i == idx[w]
        s == res[w].secret IN
    /\ past[i] < s /\ s <= created[i]
    /\ handed[<<i, s>>] = 0 /\ row[i].delivery # s
    /\ \A v \in Workers \ {w} : idx[v] = i => res[v].secret # s
    /\ created[i] = 1 => expiry[i] = IF pc[w] = "expiry" THEN NoJob
                                     ELSE [status |-> "QUEUED", secret |-> s]

\* A secret that is sealed in its row was not handed out.
Sealed(i) ==
    /\ handed[<<i, row[i].delivery>>] = 0
    /\ created[i] = 1 => expiry[i] = [status |-> "QUEUED", secret |-> row[i].delivery]

SecretsKept ==
    /\ \A w \in Workers : res[w].secret # 0 => OnItsWay(w)
    /\ \A i \in Rows : row[i].delivery # 0 => Sealed(i)

SecretInv ==
    /\ CopiesCurrent
    /\ ResultInHand
    /\ RowsTell
    /\ Numbered /\ deletes <= MaxDeletes
    /\ SecretsKept
    /\ SecretOnce

----------------------------------------------------------------------------
(* Batches: counts.                                                         *)

\* Without an overrun the lease excludes other workers; a worker whose copy of the
\* batch is current, and each that is alone, works on a batch that waits.
Alone ==
    /\ stalls = 0 => \A w \in Workers : pc[w] # "idle" => lease = w /\ Waiting
    /\ \A w \in known : pc[w] # "idle" => Waiting
    /\ retries = 0 => batch.body.retry = {} /\ \A w \in Workers : b[w].retry = {}

Undisturbed == stalls = 0 \/ retries = 0

With(status, n) == {i \in 1..n : row[i].status = status}

\* The counts of a worker that has been through the first n rows: they add up, and no
\* row was counted as finished that is not.
Adds(w, n) ==
    /\ b[w].succeeded + b[w].failed + b[w].pending = n
    /\ b[w].succeeded <= Cardinality(With("SUCCEEDED", n))
    /\ b[w].failed <= Cardinality(With("FAILED", n))

CountsAdd ==
    Undisturbed =>
        \A w \in Workers : /\ pc[w] = "count" => Adds(w, idx[w] - 1)
                           /\ pc[w] \in Tallied => Adds(w, Total)

CountInv == CopiesCurrent /\ Alone /\ CountsAdd /\ SettledUnlessOverrun

\* Without an overrun the row a worker has in hand is its own, and the secret it has for the
\* row, or that is sealed in a row, is that of the row's latest registration.
Latest ==
    stalls = 0 =>
        /\ \A w \in Workers : pc[w] \in AtRow => row[idx[w]].status = "RUNNING"
        /\ \A w \in Workers : res[w].secret # 0 => created[idx[w]] = res[w].secret
        /\ \A i \in Rows : row[i].delivery # 0 => created[i] = row[i].delivery

BatchInv == BatchTyped /\ SecretInv /\ CountInv /\ Latest

----------------------------------------------------------------------------
(* Batches: every step keeps the types.                                      *)

\* Counting one row, and what a worker that is done or that failed keeps.
LEMMA CountedBody ==
  ASSUME NEW c \in Body, NEW st
  PROVE  Counted(c, st) \in Body
BY DEF Counted, Body

LEMMA InactiveBody ==
  ASSUME NEW c \in Body
  PROVE  Inactive(c) \in Body
BY DEF Inactive, Body

LEMMA EmptyBody == Empty \in Body /\ NoRes \in [secret: Nat, ok: BOOLEAN]
BY DEF Empty, Body, NoRes

\* A row is saved by somebody.
LEMMA SaveRowTyped ==
  ASSUME RecordsTyped, NEW a \in Actors, NEW i \in Rows, NEW r \in RowRow, SaveRow(a, i, r)
  PROVE  row' \in [Rows -> RowRow] /\ fresh' \subseteq Actors \X Rows
BY DEF RecordsTyped, SaveRow

\* The batch record is saved by a worker.
LEMMA SaveBatchTyped ==
  ASSUME RecordsTyped, NEW w \in Workers, NEW body \in Body,
         NEW st \in {"INITIALIZING", "QUEUED", "RUNNING", "PAUSED", "COMPLETED", "PARTIAL_FAILED"},
         SaveBatch(w, st, body)
  PROVE  batch' \in BatchRow /\ known' \subseteq Workers
BY DEF SaveBatch, BatchRow

\* A worker returns.
LEMMA ReturnTyped ==
  ASSUME WorkersTyped, NEW w \in Workers, Return(w), UNCHANGED template
  PROVE  WorkersTyped'
<1> USE EmptyBody DEF WorkersTyped, Return, Goto
<1>1. pc' \in [Workers -> Steps]
  BY DEF Steps
<1>2. b' \in [Workers -> Body] /\ res' \in [Workers -> [secret: Nat, ok: BOOLEAN]]
  OBVIOUS
<1>3. idx' \in [Workers -> 1..Total + 1]
  BY BatchAssumption
<1>4. \A v \in Workers : /\ pc'[v] \in {"count", "summary"} \cup AtRow => idx'[v] \in Rows
                         /\ pc'[v] = "reset" => idx'[v] = 1
  BY DEF AtRow
<1> QED BY <1>1, <1>2, <1>3, <1>4

\* What the workers save is a row.
LEMMA SavedRows ==
  ASSUME BatchTyped
  PROVE  /\ \A i \in Rows : Recovered(i) \in RowRow
         /\ \A w \in Workers : idx[w] \in Rows => Result(w) \in RowRow
<1> USE DEF BatchTyped, RecordsTyped, WorkersTyped, RowRow
<1>1. ASSUME NEW i \in Rows PROVE Recovered(i) \in RowRow
  BY <1>1 DEF Recovered
<1>2. ASSUME NEW w \in Workers, idx[w] \in Rows PROVE Result(w) \in RowRow
  BY <1>2 DEF Result
<1> QED BY <1>1, <1>2

\* The batch and its rows.
LEMMA RecordsStep ==
  ASSUME BatchTyped, Next
  PROVE  RecordsTyped'
<1> USE DEF RecordsTyped, BatchTyped
<1>0. \A w \in Workers : b[w] \in Body /\ Inactive(b[w]) \in Body /\ (idx[w] <= Total => idx[w] \in Rows)
  <2> TAKE w \in Workers
  <2>1. b[w] \in Body /\ idx[w] \in 1..Total + 1
    BY DEF WorkersTyped
  <2> QED BY <2>1, InactiveBody, BatchAssumption DEF Rows
<1>1. ASSUME NEW w \in Workers, Begin(w) PROVE RecordsTyped'
  BY <1>1 DEF Begin
<1>2. ASSUME NEW w \in Workers, LeaseLost(w) \/ Outdated(w) \/ InputDone(w) \/ ResetDone(w) \/ SkipRow(w)
      PROVE  RecordsTyped'
  BY <1>2 DEF LeaseLost, Outdated, InputDone, ResetDone, SkipRow, records
<1>3. ASSUME NEW w \in Workers, MakeRow(w) PROVE RecordsTyped'
  <2>1. idx[w] \in Rows /\ [row[idx[w]] EXCEPT !.status = "PENDING"] \in RowRow
    BY <1>0, <1>3 DEF MakeRow, RowRow
  <2> QED BY <1>3, <2>1, SaveRowTyped DEF MakeRow, Actors
<1>4. ASSUME NEW w \in Workers, ResetRow(w) PROVE RecordsTyped'
  <2>1. PICK i \in b[w].retry : SaveRow(w, i, [row[i] EXCEPT !.status = "PENDING"])
    BY <1>4 DEF ResetRow
  <2>2. i \in Rows /\ [row[i] EXCEPT !.status = "PENDING"] \in RowRow
    BY <1>0, <2>1 DEF Body, RowRow
  <2> QED BY <1>4, <2>1, <2>2, SaveRowTyped DEF ResetRow, Actors
<1>5. ASSUME NEW w \in Workers, Count(w) PROVE RecordsTyped'
  <2>1. idx[w] \in Rows
    BY <1>0, <1>5 DEF Count
  <2> QED BY <1>5, <2>1, SavedRows, SaveRowTyped DEF Count, Actors
<1>6. ASSUME NEW w \in Workers, NEW st \in {"RUNNING", "PAUSED", "COMPLETED", "PARTIAL_FAILED"},
             NEW body \in Body, SaveBatch(w, st, body), UNCHANGED <<row, fresh>>
      PROVE  RecordsTyped'
  BY <1>6, SaveBatchTyped
<1>7. ASSUME NEW w \in Workers,
             TemplateChanged(w) \/ StartRows(w) \/ RowTemplateChanged(w) \/ SaveSummary(w) \/ Finish(w) \/ Denied(w)
      PROVE  RecordsTyped'
  BY <1>7, <1>6, <1>0 DEF TemplateChanged, StartRows, RowTemplateChanged, SaveSummary, Finish, Denied, Final
<1>8. ASSUME NEW w \in Workers, StartRow(w) PROVE RecordsTyped'
  <2>1. idx[w] \in Rows /\ [row[idx[w]] EXCEPT !.status = "RUNNING"] \in RowRow
    BY <1>0, <1>8 DEF StartRow, RowTurn, RowRow
  <2> QED BY <1>8, <2>1, SaveRowTyped DEF StartRow, Actors
<1>9. ASSUME NEW w \in Workers, Enroll(w) \/ EnrollRefused(w) \/ EnrollFails(w) \/ ScheduleExpiry(w)
      PROVE  RecordsTyped'
  BY <1>9 DEF Enroll, EnrollRefused, EnrollFails, ScheduleExpiry, records
<1>10. ASSUME NEW w \in Workers, SaveResult(w) PROVE RecordsTyped'
  <2>1. idx[w] \in Rows
    BY <1>10 DEF SaveResult, WorkersTyped, AtRow
  <2> QED BY <1>10, <2>1, SavedRows, SaveRowTyped DEF SaveResult, Actors
<1>11. ASSUME NEW w \in Workers, Stop(w) PROVE RecordsTyped'
  BY <1>11 DEF Stop
<1>12. CASE LeaseRunsOut \/ LeaseOverrun \/ ApplyTemplate \/ VerifyTemplate
  BY <1>12 DEF LeaseRunsOut, LeaseOverrun, ApplyTemplate, VerifyTemplate, records
<1>13. ASSUME NEW S \in SUBSET Rows, RetryBatch(S) PROVE RecordsTyped'
  BY <1>13 DEF RetryBatch, BatchRow, Body
<1>14. ASSUME NEW c \in Claimers, NEW i \in Rows, ReadRow(c, i) PROVE RecordsTyped'
  BY <1>14 DEF ReadRow, Actors
<1>15. ASSUME NEW c \in Claimers, Deliver(c) PROVE RecordsTyped'
  <2>1. opened[c].row # 0 => opened[c].row \in Rows
    BY DEF SecretsTyped
  <2>2. \A i \in Rows, x \in {"DELIVERED", "REISSUE_REQUIRED"} :
            [row[i] EXCEPT !.delivery = 0, !.credential = x] \in RowRow
    BY DEF RowRow
  <2> QED BY <1>15, <2>1, <2>2, SaveRowTyped DEF Deliver, Actors
<1>16. ASSUME NEW i \in Rows, WindowEnds(i) \/ DeleteDevice(i) \/ ChangeCredential(i) PROVE RecordsTyped'
  BY <1>16 DEF WindowEnds, DeleteDevice, ChangeCredential, records
<1>17. ASSUME NEW i \in Rows, ExpireDelivery(i) PROVE RecordsTyped'
  <2>1. [row[i] EXCEPT !.delivery = 0, !.credential = "EXPIRED"] \in RowRow
    BY DEF RowRow
  <2> QED BY <1>17, <2>1, SaveRowTyped DEF ExpireDelivery, Actors
<1> QED BY <1>1, <1>2, <1>3, <1>4, <1>5, <1>7, <1>8, <1>9, <1>10, <1>11, <1>12, <1>13, <1>14, <1>15,
           <1>16, <1>17 DEF Next, Step

\* A worker goes on: its index is that of a row where one is needed.
LEMMA WorkerMoves ==
  ASSUME WorkersTyped, NEW w \in Workers, NEW l \in Steps, Goto(w, l),
         b' \in [Workers -> Body], res' \in [Workers -> [secret: Nat, ok: BOOLEAN]],
         lease' \in {lease, w, Nobody}, UNCHANGED template,
         NEW k \in 1..Total + 1, idx' = [idx EXCEPT ![w] = k],
         l \in {"count", "summary"} \cup AtRow => k \in Rows, l = "reset" => k = 1
  PROVE  WorkersTyped'
<1> USE DEF WorkersTyped, Goto
<1>1. pc' \in [Workers -> Steps] /\ idx' \in [Workers -> 1..Total + 1]
  OBVIOUS
<1>2. \A v \in Workers : /\ pc'[v] \in {"count", "summary"} \cup AtRow => idx'[v] \in Rows
                         /\ pc'[v] = "reset" => idx'[v] = 1
  OBVIOUS
<1> QED BY <1>1, <1>2

\* The same where the index stays.
LEMMA WorkerStays ==
  ASSUME WorkersTyped, NEW w \in Workers, NEW l \in Steps, Goto(w, l),
         b' \in [Workers -> Body], res' \in [Workers -> [secret: Nat, ok: BOOLEAN]],
         lease' \in {lease, w, Nobody}, UNCHANGED <<template, idx>>,
         l \in {"count", "summary"} \cup AtRow => idx[w] \in Rows, l = "reset" => idx[w] = 1
  PROVE  WorkersTyped'
<1>1. idx[w] \in 1..Total + 1 /\ idx' = [idx EXCEPT ![w] = idx[w]]
  BY DEF WorkersTyped
<1> QED BY <1>1, WorkerMoves

\* The workers.
LEMMA WorkersStep ==
  ASSUME BatchTyped, Next
  PROVE  WorkersTyped'
<1>0. WorkersTyped /\ SecretsTyped /\ RecordsTyped
  BY DEF BatchTyped
<1>a. ASSUME NEW w \in Workers
      PROVE  /\ b[w] \in Body /\ pc[w] \in Steps /\ idx[w] \in 1..Total + 1
             /\ idx[w] <= Total => idx[w] \in Rows /\ idx[w] + 1 \in 1..Total + 1
             /\ pc[w] \in {"count", "summary"} \cup AtRow => idx[w] \in Rows
             /\ pc[w] = "reset" => idx[w] = 1
  BY <1>0, BatchAssumption DEF WorkersTyped, Rows
<1>b. 1 \in 1..Total + 1 /\ 1 \in Rows
  BY BatchAssumption DEF Rows
<1>c. /\ b \in [Workers -> Body] /\ res \in [Workers -> [secret: Nat, ok: BOOLEAN]]
      /\ \A w \in Workers, c \in Body : [b EXCEPT ![w] = c] \in [Workers -> Body]
      /\ \A w \in Workers, s \in Nat, o \in BOOLEAN :
             [res EXCEPT ![w] = [ok |-> o, secret |-> s]] \in [Workers -> [secret: Nat, ok: BOOLEAN]]
  BY <1>0 DEF WorkersTyped
<1>d. \A w \in Workers : [res EXCEPT ![w] = NoRes] \in [Workers -> [secret: Nat, ok: BOOLEAN]]
  BY <1>0, EmptyBody DEF WorkersTyped
<1>e. /\ {"count", "template", "rows"} \subseteq Steps
      /\ \A l \in {"template", "rows"} : l \notin {"count", "summary"} \cup AtRow
  BY DEF Steps, Tallied, AtRow
<1>1. ASSUME NEW w \in Workers, Begin(w) PROVE WorkersTyped'
  <2>1. batch.body \in Body /\ "input" \in Steps
    BY <1>0 DEF RecordsTyped, BatchRow, Steps
  <2> QED BY <1>0, <1>1, <1>c, <2>1, WorkerStays DEF Begin, AtRow
<1>2. ASSUME NEW w \in Workers, Return(w), UNCHANGED template PROVE WorkersTyped'
  BY <1>0, <1>2, ReturnTyped
<1>3. ASSUME NEW w \in Workers, LeaseLost(w) \/ Outdated(w) \/ Denied(w) \/ TemplateChanged(w)
                                \/ RowTemplateChanged(w) \/ Finish(w)
      PROVE  WorkersTyped'
  BY <1>2, <1>3 DEF LeaseLost, Outdated, Denied, TemplateChanged, RowTemplateChanged, Finish
<1>4. ASSUME NEW w \in Workers, MakeRow(w) PROVE WorkersTyped'
  <2>1. Goto(w, "input")
    BY <1>4, <1>0 DEF MakeRow, Goto, WorkersTyped
  <2> QED BY <1>0, <1>4, <1>a, <1>c, <2>1, WorkerMoves DEF MakeRow, Renewed, Steps, AtRow
<1>5. ASSUME NEW w \in Workers, InputDone(w) PROVE WorkersTyped'
  <2>1. b' \in [Workers -> Body]
    BY <1>0, <1>5 DEF InputDone, WorkersTyped, Body
  <2> QED BY <1>0, <1>5, <1>b, <1>c, <2>1, WorkerMoves DEF InputDone, Steps, AtRow
<1>6. ASSUME NEW w \in Workers, ResetRow(w) PROVE WorkersTyped'
  BY <1>0, <1>6 DEF ResetRow, local, WorkersTyped
<1>7. ASSUME NEW w \in Workers, ResetDone(w) PROVE WorkersTyped'
  <2>1. [Empty EXCEPT !.active = b[w].active] \in Body
    <3>1. b[w].active \in SUBSET Rows
      BY <1>a DEF Body
    <3> QED BY <3>1, EmptyBody DEF Body
  <2> QED BY <1>0, <1>7, <1>a, <1>b, <1>c, <2>1, WorkerStays DEF ResetDone, Steps, Tallied, AtRow
<1>8. ASSUME NEW w \in Workers, Count(w) PROVE WorkersTyped'
  <2>1. b' = [b EXCEPT ![w] = Counted(b[w], Recovered(idx[w]).status)] /\ lease' \in {lease, w, Nobody}
        /\ UNCHANGED <<template, res>> /\ idx' = [idx EXCEPT ![w] = idx[w] + 1]
    BY <1>8 DEF Count, Renewed
  <2>2. /\ b' \in [Workers -> Body] /\ res' \in [Workers -> [secret: Nat, ok: BOOLEAN]]
        /\ lease' \in {lease, w, Nobody} /\ UNCHANGED template
    BY <1>a, <1>c, <2>1, CountedBody
  <2>3. CASE idx[w] = Total /\ Goto(w, "template")
    <3> DEFINE k == idx[w] + 1
    <3>1. k \in 1..Total + 1 /\ idx' = [idx EXCEPT ![w] = k]
      BY <1>a, <2>1, <2>3, BatchAssumption
    <3> HIDE DEF k
    <3> QED BY <1>0, <1>e, <2>2, <2>3, <3>1, WorkerMoves
  <2>4. CASE idx[w] < Total /\ UNCHANGED pc
    <3> DEFINE k == idx[w] + 1
    <3>1. Goto(w, "count")
      BY <1>0, <1>8, <2>4 DEF Count, Goto, WorkersTyped
    <3>2. k \in Rows /\ k \in 1..Total + 1 /\ idx' = [idx EXCEPT ![w] = k]
      BY <1>a, <2>1, <2>4, BatchAssumption DEF Rows
    <3> HIDE DEF k
    <3> QED BY <1>0, <1>e, <2>2, <3>1, <3>2, WorkerMoves
  <2> QED BY <1>8, <2>3, <2>4 DEF Count
<1>9. ASSUME NEW w \in Workers, StartRows(w) PROVE WorkersTyped'
  BY <1>0, <1>9, <1>b, <1>c, WorkerMoves DEF StartRows, Steps, Tallied, AtRow
<1>10. ASSUME NEW w \in Workers, SkipRow(w) PROVE WorkersTyped'
  <2> DEFINE k == idx[w] + 1
  <2>1. Goto(w, "rows") /\ k \in 1..Total + 1 /\ idx' = [idx EXCEPT ![w] = k]
    BY <1>10, <1>0, <1>a DEF SkipRow, Goto, WorkersTyped
  <2> HIDE DEF k
  <2>2. /\ b' \in [Workers -> Body] /\ res' \in [Workers -> [secret: Nat, ok: BOOLEAN]]
        /\ lease' \in {lease, w, Nobody} /\ UNCHANGED template
    BY <1>10, <1>c DEF SkipRow, Renewed
  <2> QED BY <1>0, <1>e, <2>1, <2>2, WorkerMoves
<1>11. ASSUME NEW w \in Workers, StartRow(w) PROVE WorkersTyped'
  BY <1>0, <1>11, <1>a, <1>c, WorkerStays DEF StartRow, RowTurn, Renewed, Steps, Tallied, AtRow
<1>12. ASSUME NEW w \in Workers, Enroll(w) PROVE WorkersTyped'
  <2>1. res' \in [Workers -> [secret: Nat, ok: BOOLEAN]] /\ idx[w] \in Rows
    <3>1. idx[w] \in Rows
      BY <1>12, <1>a DEF Enroll, AtRow
    <3>2. created'[idx[w]] \in Nat \/ device[idx[w]] # 0
      BY <1>0, <1>12, <3>1 DEF Enroll, Register, SecretsTyped
    <3>3. \E s \in Nat : res' = [res EXCEPT ![w] = [ok |-> TRUE, secret |-> s]]
      BY <1>12, <3>1, <3>2 DEF Enroll
    <3> QED BY <1>c, <3>1, <3>3
  <2> QED BY <1>0, <1>12, <1>c, <2>1, WorkerStays DEF Enroll, Steps, Tallied, AtRow
<1>13. ASSUME NEW w \in Workers, EnrollRefused(w) \/ EnrollFails(w) \/ ScheduleExpiry(w)
       PROVE  WorkersTyped'
  BY <1>0, <1>13, <1>a, <1>c, WorkerStays DEF EnrollRefused, EnrollFails, ScheduleExpiry, Steps, Tallied, AtRow
<1>14. ASSUME NEW w \in Workers, SaveResult(w) PROVE WorkersTyped'
  <2> DEFINE c == Counted(b[w], Result(w).status)
  <2>1. c \in Body
    BY <1>a, CountedBody
  <2> HIDE DEF c
  <2>2. [c EXCEPT !.pending = @ - 1] \in Body
    BY <2>1 DEF Body
  <2>3. b' \in [Workers -> Body] /\ res' \in [Workers -> [secret: Nat, ok: BOOLEAN]]
    BY <1>14, <1>c, <1>d, <2>2 DEF SaveResult, c
  <2> QED BY <1>0, <1>14, <1>a, <2>3, WorkerStays DEF SaveResult, Steps, Tallied, AtRow
<1>15. ASSUME NEW w \in Workers, SaveSummary(w) PROVE WorkersTyped'
  <2> DEFINE k == idx[w] + 1
  <2>1. k \in 1..Total + 1 /\ idx' = [idx EXCEPT ![w] = k]
    BY <1>15, <1>a, BatchAssumption DEF SaveSummary, Rows
  <2> HIDE DEF k
  <2>2. /\ b' \in [Workers -> Body] /\ res' \in [Workers -> [secret: Nat, ok: BOOLEAN]]
        /\ lease' \in {lease, w, Nobody} /\ UNCHANGED template /\ Goto(w, "rows")
    BY <1>15, <1>c DEF SaveSummary
  <2> QED BY <1>0, <1>e, <2>1, <2>2, WorkerMoves
<1>16. ASSUME NEW w \in Workers, Stop(w) PROVE WorkersTyped'
  BY <1>0, <1>16, <1>b, <1>c, <1>d, EmptyBody, WorkerMoves DEF Stop, Steps, AtRow
<1>17. CASE LeaseRunsOut \/ LeaseOverrun
  BY <1>0, <1>17 DEF LeaseRunsOut, LeaseOverrun, local, WorkersTyped
<1>18. CASE ApplyTemplate \/ VerifyTemplate
  BY <1>0, <1>18 DEF ApplyTemplate, VerifyTemplate, local, WorkersTyped
<1>19. ASSUME NEW S \in SUBSET Rows, RetryBatch(S) PROVE WorkersTyped'
  BY <1>0, <1>19 DEF RetryBatch, local, WorkersTyped
<1>20. ASSUME NEW c \in Claimers, Deliver(c) \/ \E i \in Rows : ReadRow(c, i) PROVE WorkersTyped'
  BY <1>0, <1>20 DEF Deliver, ReadRow, local, WorkersTyped
<1>21. ASSUME NEW i \in Rows, WindowEnds(i) \/ ExpireDelivery(i) \/ DeleteDevice(i) \/ ChangeCredential(i) PROVE WorkersTyped'
  BY <1>0, <1>21 DEF WindowEnds, ExpireDelivery, DeleteDevice, ChangeCredential, local, WorkersTyped
<1> QED BY <1>1, <1>3, <1>4, <1>5, <1>6, <1>7, <1>8, <1>9, <1>10, <1>11, <1>12, <1>13, <1>14, <1>15, <1>16,
           <1>17, <1>18, <1>19, <1>20, <1>21 DEF Next, Step

\* Counting one more keeps a function of numbers one.
LEMMA CountTyped ==
  ASSUME NEW D, NEW f \in [D -> Nat], NEW q
  PROVE  [f EXCEPT ![q] = @ + 1] \in [D -> Nat]
<1>1. \A d \in D : [f EXCEPT ![q] = @ + 1][d] \in Nat
  <2>1. \A d \in D : d = q => [f EXCEPT ![q] = @ + 1][d] = f[d] + 1
    OBVIOUS
  <2>2. \A d \in D : d # q => [f EXCEPT ![q] = @ + 1][d] = f[d]
    OBVIOUS
  <2> QED BY <2>1, <2>2
<1> QED BY <1>1

\* Devices, secrets, jobs and bounds.
LEMMA SecretsStep ==
  ASSUME BatchTyped, Next
  PROVE  SecretsTyped'
<1> USE DEF BatchTyped, SecretsTyped
<1>1. ASSUME NEW w \in Workers, Begin(w) \/ LeaseLost(w) \/ Outdated(w) \/ MakeRow(w) \/ InputDone(w)
                                \/ ResetRow(w) \/ ResetDone(w) \/ Count(w) \/ StartRows(w)
      PROVE  SecretsTyped'
  BY <1>1 DEF Begin, LeaseLost, Outdated, MakeRow, InputDone, ResetRow, ResetDone, Count, StartRows,
              devices, windows, limits
<1>2. ASSUME NEW w \in Workers, SkipRow(w) \/ StartRow(w) \/ EnrollRefused(w) \/ SaveResult(w)
                                \/ SaveSummary(w) \/ Finish(w)
      PROVE  SecretsTyped'
  BY <1>2 DEF SkipRow, StartRow, EnrollRefused, SaveResult, SaveSummary, Finish,
              devices, windows, limits
<1>3. ASSUME NEW w \in Workers, TemplateChanged(w) \/ RowTemplateChanged(w) \/ Denied(w) \/ Stop(w)
      PROVE  SecretsTyped'
  BY <1>3, BatchAssumption DEF TemplateChanged, RowTemplateChanged, Differs, Denied, Stop, Fault, devices, windows,
                               limits
<1>4. ASSUME NEW w \in Workers, Enroll(w) \/ EnrollFails(w) PROVE SecretsTyped'
  <2>1. idx[w] \in Rows
    BY <1>4 DEF Enroll, EnrollFails, WorkersTyped, AtRow
  <2>2. device' \in [Rows -> Nat] /\ created' \in [Rows -> Nat]
    BY <1>4, <2>1 DEF Enroll, EnrollFails, Register, devices
  <2>3. faults' \in Nat /\ UNCHANGED <<stalls, retries, deletes, expiry, past, handed, opened>>
    BY <1>4, BatchAssumption DEF Enroll, EnrollFails, Fault, limits, windows
  <2> QED BY <2>2, <2>3
<1>5. ASSUME NEW w \in Workers, ScheduleExpiry(w) PROVE SecretsTyped'
  <2>1. idx[w] \in Rows /\ res[w].secret \in Nat
    BY <1>5 DEF ScheduleExpiry, WorkersTyped, AtRow
  <2>2. expiry' \in [Rows -> Job]
    BY <1>5, <2>1 DEF ScheduleExpiry, Job
  <2> QED BY <1>5, <2>2 DEF ScheduleExpiry, devices, limits
<1>6. CASE LeaseRunsOut \/ LeaseOverrun \/ ApplyTemplate \/ VerifyTemplate
  BY <1>6, BatchAssumption DEF LeaseRunsOut, LeaseOverrun, ApplyTemplate, VerifyTemplate, Fault, devices, windows, limits
<1>7. ASSUME NEW S \in SUBSET Rows, RetryBatch(S) PROVE SecretsTyped'
  BY <1>7, BatchAssumption DEF RetryBatch, devices, windows
<1>8. ASSUME NEW c \in Claimers, NEW i \in Rows, ReadRow(c, i) PROVE SecretsTyped'
  <2>1. row[i].delivery \in Nat
    BY DEF RecordsTyped, RowRow
  <2>2. opened' \in [Claimers -> [row: Rows \cup {0}, delivery: Nat, valid: BOOLEAN]]
    BY <1>8, <2>1, BatchAssumption DEF ReadRow
  <2> QED BY <1>8, <2>2 DEF ReadRow, devices, windows, limits
<1>9. ASSUME NEW c \in Claimers, Deliver(c) PROVE SecretsTyped'
  <2>1. opened' \in [Claimers -> [row: Rows \cup {0}, delivery: Nat, valid: BOOLEAN]]
    BY <1>9 DEF Deliver, NoRow
  <2>2. \/ handed' = [handed EXCEPT ![<<opened[c].row, opened[c].delivery>>] = @ + 1]
        \/ UNCHANGED handed
    BY <1>9 DEF Deliver
  <2>3. handed' \in [Rows \X Secrets -> Nat]
    <3> DEFINE D == Rows \X Secrets
               q == <<opened[c].row, opened[c].delivery>>
    <3>1. handed \in [D -> Nat] /\ (handed' = [handed EXCEPT ![q] = @ + 1] \/ handed' = handed)
      BY <2>2
    <3> HIDE DEF D, q, BatchTyped, SecretsTyped
    <3>2. handed' \in [D -> Nat]
      BY <3>1, CountTyped
    <3> QED BY <3>2 DEF D
  <2>4. faults' \in Nat /\ UNCHANGED <<stalls, retries, deletes>>
    BY <1>9, BatchAssumption DEF Deliver, Fault, limits
  <2> QED BY <1>9, <2>1, <2>3, <2>4 DEF Deliver, devices, windows
<1>10. ASSUME NEW i \in Rows, WindowEnds(i) PROVE SecretsTyped'
  BY <1>10 DEF WindowEnds, devices, limits
<1>11. ASSUME NEW i \in Rows, ExpireDelivery(i) PROVE SecretsTyped'
  <2>1. expiry' \in [Rows -> Job]
    BY <1>11 DEF ExpireDelivery, Job
  <2> QED BY <1>11, <2>1 DEF ExpireDelivery, devices, limits
<1>12. ASSUME NEW i \in Rows, DeleteDevice(i) PROVE SecretsTyped'
  BY <1>12, BatchAssumption DEF DeleteDevice, windows
<1>13. ASSUME NEW i \in Rows, ChangeCredential(i) PROVE SecretsTyped'
  BY <1>13, BatchAssumption DEF ChangeCredential, Replaced, windows, limits
<1> QED BY <1>1, <1>2, <1>3, <1>4, <1>5, <1>6, <1>7, <1>8, <1>9, <1>10, <1>11, <1>12, <1>13 DEF Next, Step

\* The types are kept.
LEMMA TypedStep ==
  ASSUME BatchTyped, [Next]_vars
  PROVE  BatchTyped'
<1>1. CASE Next
  BY <1>1, RecordsStep, WorkersStep, SecretsStep DEF BatchTyped
<1>2. CASE UNCHANGED vars
  BY <1>2 DEF vars, records, local, devices, windows, limits, BatchTyped, RecordsTyped, WorkersTyped, SecretsTyped
<1> QED BY <1>1, <1>2

----------------------------------------------------------------------------
(* Batches: steps that touch no secret.                                      *)

\* Only worker w moves.
Bystanders(w) ==
    \A v \in Workers \ {w} : pc'[v] = pc[v] /\ idx'[v] = idx[v] /\ res'[v] = res[v] /\ b'[v] = b[v]

\* A worker's step that has no result in the end, and touches neither devices nor secrets.
NoResult(w) ==
    /\ Bystanders(w) /\ res'[w] = NoRes
    /\ UNCHANGED <<device, created, expiry, past, handed, opened, deletes>>

PlainStep(w) ==
    \/ Begin(w) \/ LeaseLost(w) \/ Outdated(w) \/ Denied(w) \/ InputDone(w) \/ ResetDone(w)
    \/ TemplateChanged(w) \/ StartRows(w) \/ SkipRow(w) \/ RowTemplateChanged(w) \/ EnrollRefused(w)
    \/ SaveSummary(w) \/ Finish(w) \/ Stop(w)

SavingStep(w) == MakeRow(w) \/ ResetRow(w) \/ Count(w) \/ StartRow(w)

\* Most steps of a worker are of this kind.
LEMMA PlainHasNoResult ==
  ASSUME BatchTyped, ResultInHand, NEW w \in Workers, PlainStep(w)
  PROVE  NoResult(w) /\ UNCHANGED <<row, fresh>>
<1> USE DEF NoResult, Bystanders, BatchTyped, WorkersTyped, devices, windows, limits, records
<1>1. CASE LeaseLost(w) \/ Outdated(w) \/ Denied(w) \/ TemplateChanged(w) \/ RowTemplateChanged(w) \/ Finish(w)
  BY <1>1 DEF LeaseLost, Outdated, Denied, TemplateChanged, RowTemplateChanged, Differs, Finish, Return, Goto,
              Fault
<1>2. CASE Stop(w)
  BY <1>2 DEF Stop, Goto, Fault
<1>3. CASE Begin(w) \/ InputDone(w) \/ ResetDone(w) \/ StartRows(w)
  BY <1>3 DEF Begin, InputDone, ResetDone, StartRows, Goto, ResultInHand
<1>4. CASE SkipRow(w) \/ EnrollRefused(w) \/ SaveSummary(w)
  BY <1>4 DEF SkipRow, EnrollRefused, SaveSummary, Goto, ResultInHand
<1> QED BY <1>1, <1>2, <1>3, <1>4 DEF PlainStep

\* So are those that save a row whose secret they leave alone.
LEMMA SavingHasNoResult ==
  ASSUME BatchTyped, ResultInHand, NEW w \in Workers, SavingStep(w)
  PROVE  NoResult(w)
<1> USE DEF NoResult, Bystanders, BatchTyped, WorkersTyped, devices, windows, limits, ResultInHand
<1>1. CASE MakeRow(w)
  BY <1>1 DEF MakeRow
<1>2. CASE ResetRow(w)
  BY <1>2 DEF ResetRow, local
<1>3. CASE Count(w)
  BY <1>3 DEF Count, Goto
<1>4. CASE StartRow(w)
  BY <1>4 DEF StartRow, RowTurn, Goto
<1> QED BY <1>1, <1>2, <1>3, <1>4 DEF SavingStep

\* What they save: the row with another status, never a success without account.
LEMMA SavingSaves ==
  ASSUME BatchTyped, RowsTell, NEW w \in Workers, SavingStep(w)
  PROVE  \/ UNCHANGED <<row, fresh>> /\ pc'[w] \notin AtRow
         \/ \E i \in Rows, r \in RowRow :
                /\ SaveRow(w, i, r) /\ r.delivery = row[i].delivery /\ RowTells(i, r)
                /\ pc'[w] \in AtRow => StartRow(w) /\ r.status = "RUNNING" /\ idx'[w] = i
<1>0. \A i \in Rows : row[i] \in RowRow /\ RowTells(i, row[i])
  BY DEF BatchTyped, RecordsTyped, RowsTell
<1>1. ASSUME NEW i \in Rows, row[i].status # "SUCCEEDED", NEW x \in {"PENDING", "RUNNING"}
      PROVE  /\ [row[i] EXCEPT !.status = x] \in RowRow /\ RowTells(i, [row[i] EXCEPT !.status = x])
             /\ [row[i] EXCEPT !.status = x].delivery = row[i].delivery
             /\ [row[i] EXCEPT !.status = x].status = x
  BY <1>0, <1>1 DEF RowRow, RowTells
<1>2. idx[w] <= Total => idx[w] \in Rows
  BY BatchAssumption DEF BatchTyped, WorkersTyped, Rows
<1>3. CASE MakeRow(w)
  <2>1. pc'[w] \notin AtRow
    BY <1>3 DEF MakeRow, AtRow
  <2> QED BY <1>1, <1>2, <1>3, <2>1 DEF MakeRow
<1>4. CASE ResetRow(w)
  <2>1. PICK i \in b[w].retry : row[i].status = "FAILED" /\ SaveRow(w, i, [row[i] EXCEPT !.status = "PENDING"])
    BY <1>4 DEF ResetRow
  <2>2. i \in Rows
    BY <2>1 DEF BatchTyped, WorkersTyped, Body
  <2>3. pc'[w] \notin AtRow
    BY <1>4 DEF ResetRow, local, AtRow
  <2> QED BY <1>1, <2>1, <2>2, <2>3
<1>5. CASE Count(w)
  <2>1. pc'[w] \notin AtRow /\ idx[w] \in Rows
    BY <1>5, <1>2 DEF Count, Goto, AtRow, BatchTyped, WorkersTyped
  <2>2. CASE Recovered(idx[w]) # row[idx[w]]
    <3>1. Recovered(idx[w]) \in RowRow /\ SaveRow(w, idx[w], Recovered(idx[w]))
      BY <1>5, <2>1, <2>2, SavedRows DEF Count
    <3>2. Recovered(idx[w]).delivery = row[idx[w]].delivery /\ RowTells(idx[w], Recovered(idx[w]))
      BY <1>0, <2>1, <2>2 DEF Recovered, RowTells
    <3> QED BY <2>1, <3>1, <3>2
  <2> QED BY <1>5, <2>1, <2>2 DEF Count
<1>6. CASE StartRow(w)
  <2>1. idx[w] \in Rows /\ row[idx[w]].status # "SUCCEEDED" /\ idx'[w] = idx[w]
        /\ SaveRow(w, idx[w], [row[idx[w]] EXCEPT !.status = "RUNNING"])
    BY <1>2, <1>6 DEF StartRow, RowTurn, Finished
  <2> QED BY <1>1, <1>6, <2>1
<1> QED BY <1>3, <1>4, <1>5, <1>6 DEF SavingStep

\* Copies stay what they are while no row is saved, ...
LEMMA CopiesKept ==
  ASSUME CopiesCurrent, UNCHANGED <<row, fresh, opened>>,
         \A v \in Workers : pc'[v] \in AtRow => pc[v] \in AtRow /\ idx'[v] = idx[v]
  PROVE  CopiesCurrent'
BY DEF CopiesCurrent

\* ... and a save outdates the copies others have of that row.
LEMMA CopiesOutdated ==
  ASSUME BatchTyped, CopiesCurrent, NEW a, NEW i \in Rows, NEW r, SaveRow(a, i, r),
         \A c \in Claimers : opened'[c].row = 0 \/ (c # a /\ opened'[c] = opened[c]),
         \A v \in Workers : pc'[v] \in AtRow =>
            \/ v # a /\ pc[v] \in AtRow /\ idx'[v] = idx[v]
            \/ v = a /\ idx'[v] = i /\ r.status = "RUNNING"
  PROVE  CopiesCurrent'
<1>0. row' = [row EXCEPT ![i] = r] /\ fresh' = {f \in fresh : f[2] # i} \cup {<<a, i>>}
  BY DEF SaveRow
<1>1. DOMAIN row = Rows
  BY DEF BatchTyped, RecordsTyped
<1>2. ASSUME NEW c \in Claimers, opened'[c].row # 0, <<c, opened'[c].row>> \in fresh'
      PROVE  row'[opened'[c].row].delivery = opened'[c].delivery
  <2>1. opened[c].row # i /\ <<c, opened[c].row>> \in fresh /\ opened'[c] = opened[c]
    BY <1>0, <1>1, <1>2
  <2> QED BY <1>0, <1>1, <1>2, <2>1 DEF CopiesCurrent
<1>3. ASSUME NEW v \in Workers, pc'[v] \in AtRow, <<v, idx'[v]>> \in fresh'
      PROVE  row'[idx'[v]].status = "RUNNING"
  <2>1. CASE v = a
    BY <1>0, <1>1, <1>3, <2>1
  <2>2. CASE v # a
    <3>1. idx[v] # i /\ <<v, idx[v]>> \in fresh /\ pc[v] \in AtRow /\ idx'[v] = idx[v]
      BY <1>0, <1>3, <2>2
    <3> QED BY <1>0, <3>1 DEF CopiesCurrent
  <2> QED BY <2>1, <2>2
<1>4. \A c \in Claimers : opened'[c].row # 0 => opened'[c].delivery # 0
  BY DEF CopiesCurrent
<1> QED BY <1>2, <1>3, <1>4 DEF CopiesCurrent

\* The same for those who hand out nothing.
LEMMA CopiesSaved ==
  ASSUME BatchTyped, CopiesCurrent, UNCHANGED opened,
         NEW a \in Workers \cup {Nobody}, NEW i \in Rows, NEW r, SaveRow(a, i, r),
         \A v \in Workers : pc'[v] \in AtRow =>
            \/ v # a /\ pc[v] \in AtRow /\ idx'[v] = idx[v]
            \/ v = a /\ idx'[v] = i /\ r.status = "RUNNING"
  PROVE  CopiesCurrent'
<1>1. \A c \in Claimers : c # a
  BY BatchAssumption
<1> QED BY <1>1, CopiesOutdated

\* Rows stay in order when they are saved in order.
LEMMA RowsTellSaved ==
  ASSUME BatchTyped, RowsTell, NEW a, NEW i \in Rows, NEW r, SaveRow(a, i, r), RowTells(i, r)
  PROVE  RowsTell'
<1>1. \A j \in Rows : row'[j] = IF j = i THEN r ELSE row[j]
  BY DEF SaveRow, BatchTyped, RecordsTyped
<1> QED BY <1>1 DEF RowsTell, RowTells

\* A worker without a result, and rows with the secrets they had.
LEMMA QuietSecrets ==
  ASSUME BatchTyped, BatchTyped', SecretInv, NEW w \in Workers, NoResult(w),
         \A i \in Rows : row'[i].delivery = row[i].delivery
  PROVE  /\ ResultInHand' /\ Numbered' /\ SecretsKept' /\ SecretOnce'
         /\ deletes' <= MaxDeletes
<1>0. \A v \in Workers : v # w => pc'[v] = pc[v] /\ idx'[v] = idx[v] /\ res'[v] = res[v]
  BY DEF NoResult, Bystanders
<1>1. res'[w] = NoRes /\ res'[w].secret = 0
  BY DEF NoResult, NoRes
<1>2. ResultInHand'
  BY <1>0, <1>1 DEF SecretInv, ResultInHand, NoRes
<1>3. Numbered' /\ SecretOnce' /\ deletes' <= MaxDeletes
  BY DEF SecretInv, NoResult, Numbered, SecretOnce
<1>4. ASSUME NEW v \in Workers, res'[v].secret # 0 PROVE OnItsWay(v)'
  <2>1. v # w /\ OnItsWay(v) /\ idx[v] \in Rows
    BY <1>0, <1>1, <1>4, BatchAssumption DEF SecretInv, SecretsKept, ResultInHand
  <2>2. pc'[v] = pc[v] /\ idx'[v] = idx[v] /\ res'[v] = res[v] /\ row'[idx[v]].delivery = row[idx[v]].delivery
    BY <1>0, <2>1
  <2>3. \A u \in Workers \ {v} : idx'[u] = idx[v] => res'[u].secret # res[v].secret
    BY <1>0, <1>1, <1>4, <2>1, <2>2 DEF OnItsWay
  <2> QED BY <2>1, <2>2, <2>3 DEF OnItsWay, NoResult
<1>5. ASSUME NEW i \in Rows, row'[i].delivery # 0 PROVE Sealed(i)'
  BY <1>5 DEF SecretInv, SecretsKept, Sealed, NoResult
<1> QED BY <1>2, <1>3, <1>4, <1>5 DEF SecretsKept

\* A worker that has a row in hand after such a step had it before.
LEMMA PlainAtRow ==
  ASSUME BatchTyped, NEW w \in Workers, PlainStep(w), pc'[w] \in AtRow
  PROVE  pc[w] \in AtRow /\ idx'[w] = idx[w]
<1>1. pc'[w] \in AtRow => EnrollRefused(w) \/ pc'[w] = pc[w]
  BY DEF PlainStep, Begin, LeaseLost, Outdated, Denied, InputDone, ResetDone, TemplateChanged, StartRows,
         SkipRow, RowTemplateChanged, SaveSummary, Finish, Stop, Return, Goto, AtRow, BatchTyped, WorkersTyped
<1>2. EnrollRefused(w) => pc[w] \in AtRow /\ idx'[w] = idx[w]
  BY DEF EnrollRefused, AtRow
<1>3. pc'[w] = pc[w] /\ pc'[w] \in AtRow => idx'[w] = idx[w]
  BY DEF PlainStep, Begin, LeaseLost, Outdated, Denied, InputDone, ResetDone, TemplateChanged, StartRows,
         SkipRow, RowTemplateChanged, EnrollRefused, SaveSummary, Finish, Stop, Return, Goto, AtRow,
         BatchTyped, WorkersTyped
<1> QED BY <1>1, <1>2, <1>3

\* Steps of workers that touch no secret.
LEMMA QuietWorkers ==
  ASSUME BatchTyped, BatchTyped', SecretInv, NEW w \in Workers, PlainStep(w) \/ SavingStep(w)
  PROVE  SecretInv'
<1>0. CopiesCurrent /\ ResultInHand /\ RowsTell
  BY DEF SecretInv
<1>1. NoResult(w)
  BY <1>0, PlainHasNoResult, SavingHasNoResult
<1>2. CASE PlainStep(w)
  <2>1. UNCHANGED <<row, fresh, opened>>
    BY <1>0, <1>1, <1>2, PlainHasNoResult DEF NoResult
  <2>2. pc'[w] \in AtRow => pc[w] \in AtRow /\ idx'[w] = idx[w]
    BY <1>2, PlainAtRow
  <2>3. CopiesCurrent'
    BY <1>0, <1>1, <2>1, <2>2, CopiesKept DEF NoResult, Bystanders
  <2>4. RowsTell'
    BY <1>0, <2>1 DEF RowsTell, RowTells
  <2> QED BY <1>1, <2>1, <2>3, <2>4, QuietSecrets DEF SecretInv
<1>3. CASE UNCHANGED <<row, fresh>> /\ pc'[w] \notin AtRow
  <2>1. CopiesCurrent'
    BY <1>0, <1>1, <1>3, CopiesKept DEF NoResult, Bystanders
  <2>2. RowsTell'
    BY <1>0, <1>3 DEF RowsTell, RowTells
  <2> QED BY <1>1, <1>3, <2>1, <2>2, QuietSecrets DEF SecretInv
<1>4. ASSUME SavingStep(w), NEW i \in Rows, NEW r \in RowRow, SaveRow(w, i, r), r.delivery = row[i].delivery,
             RowTells(i, r), pc'[w] \in AtRow => StartRow(w) /\ r.status = "RUNNING" /\ idx'[w] = i
      PROVE  SecretInv'
  <2>1. CopiesCurrent'
    BY <1>0, <1>1, <1>4, CopiesSaved DEF NoResult, Bystanders
  <2>2. RowsTell'
    BY <1>0, <1>4, RowsTellSaved
  <2>3. \A j \in Rows : row'[j].delivery = row[j].delivery
    BY <1>4 DEF SaveRow, BatchTyped, RecordsTyped
  <2> QED BY <1>1, <2>1, <2>2, <2>3, QuietSecrets DEF SecretInv
<1> QED BY <1>0, <1>2, <1>3, <1>4, SavingSaves

----------------------------------------------------------------------------
(* Batches: registration, results, delivery and erasure.                     *)

\* Facts about the numbers of secrets that the steps below share.
LEMMA SecretNumbers ==
  ASSUME BatchTyped, SecretInv
  PROVE  /\ \A i \in Rows : created[i] \in Nat /\ past[i] \in Nat /\ row[i].delivery \in Nat /\ device[i] \in Nat
         /\ \A i \in Rows : created[i] <= MaxDeletes + 1
         /\ \A i \in Rows, s \in Nat : s # 0 /\ s <= created[i] => <<i, s>> \in Rows \X Secrets
         /\ \A w \in Workers : res[w].secret \in Nat
         /\ \A w \in Workers : res[w].secret # 0 => idx[w] \in Rows /\ OnItsWay(w)
<1>1. \A i \in Rows : created[i] \in Nat /\ past[i] \in Nat /\ row[i].delivery \in Nat /\ device[i] \in Nat
  BY DEF BatchTyped, RecordsTyped, SecretsTyped, RowRow
<1>2. \A i \in Rows : created[i] <= MaxDeletes + 1
  BY <1>1, BatchAssumption DEF SecretInv, Numbered, BatchTyped, SecretsTyped
<1>3. \A i \in Rows, s \in Nat : s # 0 /\ s <= created[i] => <<i, s>> \in Rows \X Secrets
  BY <1>1, <1>2, BatchAssumption DEF Secrets
<1>4. \A w \in Workers : res[w].secret \in Nat
  BY DEF BatchTyped, WorkersTyped
<1>5. \A w \in Workers : res[w].secret # 0 => idx[w] \in Rows /\ OnItsWay(w)
  BY BatchAssumption DEF SecretInv, SecretsKept, ResultInHand
<1> QED BY <1>1, <1>2, <1>3, <1>4, <1>5

\* What enroll leaves: perhaps a new device, and perhaps its secret in hand.
LEMMA RegisterSecrets ==
  ASSUME BatchTyped, BatchTyped', SecretInv, NEW w \in Workers, pc[w] = "enroll", Bystanders(w),
         UNCHANGED <<row, fresh, idx, expiry, past, handed, opened, deletes>>,
         \/ device[idx[w]] = 0 /\ Register(idx[w])
         \/ UNCHANGED <<device, created>>,
         pc'[w] \in {"expiry", "result"},
         \/ res'[w] \in {NoRes, [ok |-> TRUE, secret |-> 0]}
         \/ /\ device[idx[w]] = 0 /\ Register(idx[w]) /\ idx[w] \in Platform /\ pc'[w] = "expiry"
            /\ res'[w] = [ok |-> TRUE, secret |-> created'[idx[w]]]
  PROVE  SecretInv'
<1> DEFINE i == idx[w]
<1>0. i \in Rows
  BY DEF BatchTyped, WorkersTyped, AtRow
<1>1. \A v \in Workers : v # w => pc'[v] = pc[v] /\ res'[v] = res[v]
  BY DEF Bystanders
<1>2. CopiesCurrent'
  <2>1. \A v \in Workers : pc'[v] \in AtRow => pc[v] \in AtRow /\ idx'[v] = idx[v]
    BY <1>1 DEF AtRow
  <2> QED BY <2>1, CopiesKept DEF SecretInv
<1>3. ResultInHand'
  <2>1. ASSUME NEW v \in Workers, v # w
        PROVE  /\ pc'[v] \notin {"expiry", "result"} => res'[v] = NoRes
               /\ res'[v].secret # 0 => res'[v].ok /\ idx'[v] \in Platform
    BY <1>1, <2>1 DEF SecretInv, ResultInHand
  <2>2. res'[w].secret # 0 => res'[w].ok /\ idx'[w] \in Platform
    BY DEF NoRes
  <2> QED BY <2>1, <2>2 DEF ResultInHand, NoRes
<1>4. RowsTell' /\ SecretOnce' /\ deletes' <= MaxDeletes
  BY DEF SecretInv, RowsTell, RowTells, SecretOnce
<1>5. \A j \in Rows : /\ j # i => created'[j] = created[j] /\ device'[j] = device[j]
                      /\ created'[j] >= created[j]
                      /\ \/ created'[j] = created[j] /\ device'[j] = device[j]
                         \/ device[j] = 0 /\ created'[j] = created[j] + 1 /\ device'[j] = created[j] + 1
  BY <1>0 DEF Register, BatchTyped, SecretsTyped
<1>6. Numbered'
  BY <1>5, SecretNumbers DEF SecretInv, Numbered, BatchTyped, SecretsTyped, Secrets
<1>7. ASSUME NEW v \in Workers, res'[v].secret # 0 PROVE OnItsWay(v)'
  <2>1. CASE v # w
    <3> DEFINE j == idx[v]
               s == res[v].secret
    <3>1. j \in Rows /\ s \in Nat /\ s # 0 /\ OnItsWay(v)
      BY <1>1, <1>7, <2>1, SecretNumbers
    <3>2. s <= created'[j] /\ (created'[j] = 1 => created[j] = 1)
      BY <1>5, <3>1, SecretNumbers DEF OnItsWay
    <3>3. \A u \in Workers \ {v} : idx[u] = j => res'[u].secret # s
      <4>1. ASSUME idx[w] = j PROVE res'[w].secret # s
        <5>1. res'[w].secret \in {0, created[j] + 1}
          BY <1>0, <1>5, <4>1 DEF NoRes, Register, BatchTyped, SecretsTyped
        <5> QED BY <3>1, <5>1, SecretNumbers DEF OnItsWay
      <4> QED BY <1>1, <3>1, <4>1 DEF OnItsWay
    <3> QED BY <1>1, <2>1, <3>1, <3>2, <3>3 DEF OnItsWay
  <2>2. CASE v = w
    <3>1. /\ device[i] = 0 /\ created'[i] = created[i] + 1 /\ device'[i] = created[i] + 1
          /\ pc'[w] = "expiry" /\ res'[w].secret = created[i] + 1
      BY <1>0, <1>7, <2>2 DEF NoRes, Register, BatchTyped, SecretsTyped
    <3>2. past[i] < created[i] + 1 /\ row[i].delivery # created[i] + 1 /\ created[i] \in Nat
      BY <1>0, SecretNumbers DEF SecretInv, Numbered
    <3>3. handed[<<i, created[i] + 1>>] = 0
      <4>1. created[i] + 1 \in Secrets
        BY <1>0, <3>1, SecretNumbers, BatchAssumption DEF SecretInv, Numbered, BatchTyped, SecretsTyped, Secrets
      <4> QED BY <1>0, <3>2, <4>1 DEF SecretInv, Numbered
    <3>4. created'[i] = 1 => expiry[i] = NoJob
      BY <1>0, <3>1, <3>2 DEF SecretInv, Numbered
    <3>5. ASSUME NEW u \in Workers \ {w}, idx[u] = i PROVE res'[u].secret # created[i] + 1
      <4>1. CASE res[u].secret = 0
        BY <1>1, <3>2, <4>1
      <4>2. CASE res[u].secret # 0
        <5>1. res[u].secret \in Nat /\ res[u].secret <= created[i]
          BY <3>5, <4>2, SecretNumbers DEF OnItsWay
        <5> QED BY <1>1, <3>2, <5>1
      <4> QED BY <4>1, <4>2
    <3> QED BY <2>2, <3>1, <3>2, <3>3, <3>4, <3>5 DEF OnItsWay
  <2> QED BY <2>1, <2>2
<1>8. ASSUME NEW j \in Rows, row'[j].delivery # 0 PROVE Sealed(j)'
  <2>1. Sealed(j) /\ row[j].delivery \in Nat /\ row[j].delivery <= created[j]
    BY <1>8, SecretNumbers DEF SecretInv, SecretsKept, Numbered
  <2>2. created'[j] = 1 => created[j] = 1
    BY <1>5, <1>8, <2>1, SecretNumbers DEF Sealed
  <2> QED BY <2>1, <2>2 DEF Sealed
<1> QED BY <1>2, <1>3, <1>4, <1>6, <1>7, <1>8 DEF SecretInv, SecretsKept

\* enroll, whether it succeeds or fails.
LEMMA EnrollSecrets ==
  ASSUME BatchTyped, BatchTyped', SecretInv, NEW w \in Workers, Enroll(w) \/ EnrollFails(w)
  PROVE  SecretInv'
<1>0. pc[w] = "enroll" /\ res[w] = NoRes
  BY DEF Enroll, EnrollFails, SecretInv, ResultInHand
<1>1. /\ Bystanders(w) /\ pc'[w] \in {"expiry", "result"}
      /\ UNCHANGED <<row, fresh, idx, expiry, past, handed, opened, deletes>>
  BY DEF Enroll, EnrollFails, Goto, Bystanders, records, windows, limits, Fault, BatchTyped, WorkersTyped
<1>2. CASE Enroll(w)
  <2>1. w \in DOMAIN res /\ pc'[w] = "expiry"
    BY <1>2 DEF Enroll, Goto, BatchTyped, WorkersTyped
  <2>2. \/ device[idx[w]] = 0 /\ Register(idx[w])
        \/ UNCHANGED <<device, created>>
    BY <1>2 DEF Enroll, devices
  <2>3. \/ res'[w] \in {NoRes, [ok |-> TRUE, secret |-> 0]}
        \/ /\ device[idx[w]] = 0 /\ Register(idx[w]) /\ idx[w] \in Platform /\ pc'[w] = "expiry"
           /\ res'[w] = [ok |-> TRUE, secret |-> created'[idx[w]]]
    BY <1>2, <2>1 DEF Enroll
  <2> QED BY <1>0, <1>1, <2>2, <2>3, RegisterSecrets
<1>3. CASE EnrollFails(w)
  BY <1>0, <1>1, <1>3, RegisterSecrets DEF EnrollFails, devices
<1> QED BY <1>2, <1>3

\* scheduleCredentialExpiry: the job for a row's first secret is made before the row is saved.
LEMMA ScheduleSecrets ==
  ASSUME BatchTyped, BatchTyped', SecretInv, NEW w \in Workers, ScheduleExpiry(w)
  PROVE  SecretInv'
<1> DEFINE i == idx[w]
           s == res[w].secret
<1>0. /\ i \in Rows /\ s \in Nat /\ pc[w] = "expiry" /\ pc'[w] = "result"
      /\ UNCHANGED <<row, fresh, idx, res, device, created, past, handed, opened, deletes>>
      /\ \A v \in Workers : v # w => pc'[v] = pc[v]
  BY DEF ScheduleExpiry, Goto, records, devices, limits, BatchTyped, WorkersTyped, AtRow
<1>1. /\ s = 0 \/ expiry[i].status # "none" => expiry' = expiry
      /\ s # 0 /\ expiry[i].status = "none" => expiry' = [expiry EXCEPT ![i] = [status |-> "QUEUED", secret |-> s]]
  BY DEF ScheduleExpiry
<1>2. expiry \in [Rows -> Job] /\ \A j \in Rows : j # i => expiry'[j] = expiry[j]
  BY <1>1 DEF BatchTyped, SecretsTyped
<1>3. s # 0 => OnItsWay(w)
  BY SecretNumbers
<1>4. CopiesCurrent'
  BY <1>0, CopiesKept DEF SecretInv, AtRow
<1>5. ResultInHand'
  BY <1>0 DEF SecretInv, ResultInHand
<1>6. RowsTell' /\ SecretOnce' /\ deletes' <= MaxDeletes
  BY <1>0 DEF SecretInv, RowsTell, RowTells, SecretOnce
<1>7. Numbered'
  <2>1. ASSUME NEW j \in Rows, created[j] = 0 PROVE expiry'[j] = NoJob
    <3>1. expiry[j] = NoJob
      BY <2>1 DEF SecretInv, Numbered
    <3>2. j = i => s = 0
      BY <1>0, <1>3, <2>1, SecretNumbers DEF OnItsWay
    <3> QED BY <1>1, <1>2, <3>1, <3>2
  <2> QED BY <1>0, <2>1 DEF SecretInv, Numbered
<1>8. ASSUME NEW v \in Workers, res'[v].secret # 0 PROVE OnItsWay(v)'
  <2>1. OnItsWay(v) /\ idx[v] \in Rows /\ res[v].secret \in Nat
    BY <1>0, <1>8, SecretNumbers
  <2>2. CASE v # w
    <3>1. created[idx[v]] = 1 => expiry'[idx[v]] = expiry[idx[v]]
      <4>1. idx[v] = i /\ s # 0 => created[i] # 1
        <5>1. idx[v] = i /\ s # 0 => s # res[v].secret /\ s <= created[i] /\ res[v].secret <= created[i]
          BY <1>3, <2>1, <2>2 DEF OnItsWay
        <5> QED BY <1>0, <1>8, <2>1, <5>1
      <4> QED BY <1>1, <1>2, <2>1, <4>1
    <3> QED BY <1>0, <2>1, <2>2, <3>1 DEF OnItsWay
  <2>3. CASE v = w
    <3>1. created[i] = 1 => expiry'[i] = [status |-> "QUEUED", secret |-> s]
      <4>1. created[i] = 1 => expiry[i] = NoJob
        BY <1>0, <2>1, <2>3 DEF OnItsWay
      <4> QED BY <1>0, <1>1, <1>2, <1>8, <2>3, <4>1 DEF NoJob
    <3> QED BY <1>0, <2>1, <2>3, <3>1 DEF OnItsWay
  <2> QED BY <2>2, <2>3
<1>9. ASSUME NEW j \in Rows, row'[j].delivery # 0 PROVE Sealed(j)'
  <2>1. Sealed(j)
    BY <1>0, <1>9 DEF SecretInv, SecretsKept
  <2>2. created[j] = 1 => expiry'[j] = expiry[j]
    BY <1>1, <1>2, <2>1 DEF Sealed
  <2> QED BY <1>0, <2>1, <2>2 DEF Sealed
<1> QED BY <1>4, <1>5, <1>6, <1>7, <1>8, <1>9 DEF SecretInv, SecretsKept

\* A result is saved: the secret passes from the worker's hand into its row.
LEMMA ResultSecrets ==
  ASSUME BatchTyped, BatchTyped', SecretInv, NEW w \in Workers, SaveResult(w)
  PROVE  SecretInv'
<1> DEFINE i == idx[w]
           s == res[w].secret
<1>0. /\ i \in Rows /\ s \in Nat /\ pc[w] = "result" /\ pc'[w] = "summary" /\ res'[w] = NoRes
      /\ <<w, i>> \in fresh /\ SaveRow(w, i, Result(w))
      /\ UNCHANGED <<idx, device, created, expiry, past, handed, opened, deletes>>
      /\ \A v \in Workers : v # w => pc'[v] = pc[v] /\ res'[v] = res[v]
  BY DEF SaveResult, Goto, devices, windows, limits, BatchTyped, WorkersTyped, AtRow
<1>1. \A j \in Rows : row'[j] = IF j = i THEN Result(w) ELSE row[j]
  BY <1>0 DEF SaveRow, BatchTyped, RecordsTyped
<1>2. Result(w).delivery = s
  BY DEF Result
<1>3. row[i].status = "RUNNING" /\ row[i].credential = "NONE"
  <2>1. row[i].status = "RUNNING"
    BY <1>0 DEF SecretInv, CopiesCurrent, AtRow
  <2> QED BY <1>0, <2>1 DEF SecretInv, RowsTell, RowTells
<1>4. s # 0 => OnItsWay(w) /\ res[w].ok /\ i \in Platform
  BY SecretNumbers DEF SecretInv, ResultInHand
<1>5. CopiesCurrent'
  BY <1>0, CopiesSaved DEF SecretInv, AtRow
<1>6. ResultInHand'
  BY <1>0 DEF SecretInv, ResultInHand, NoRes
<1>7. RowTells(i, Result(w))
  <2>1. res[w].ok \in BOOLEAN
    BY DEF BatchTyped, WorkersTyped
  <2> QED BY <1>3, <1>4, <2>1 DEF RowTells, Result
<1>8. RowsTell'
  BY <1>0, <1>7, RowsTellSaved DEF SecretInv
<1>9. SecretOnce' /\ deletes' <= MaxDeletes
  BY <1>0 DEF SecretInv, SecretOnce
<1>10. Numbered'
  <2>1. ASSUME NEW j \in Rows PROVE row'[j].delivery <= created[j]
    <3>1. s <= created[i]
      BY <1>0, <1>4, SecretNumbers DEF OnItsWay
    <3> QED BY <1>1, <1>2, <3>1 DEF SecretInv, Numbered
  <2> QED BY <1>0, <2>1 DEF SecretInv, Numbered
<1>11. ASSUME NEW v \in Workers, res'[v].secret # 0 PROVE OnItsWay(v)'
  <2>1. v # w /\ res'[v] = res[v] /\ pc'[v] = pc[v]
    BY <1>0, <1>11 DEF NoRes
  <2>2. OnItsWay(v) /\ idx[v] \in Rows
    BY <1>11, <2>1, SecretNumbers
  <2>3. row'[idx[v]].delivery # res[v].secret
    BY <1>0, <1>1, <1>2, <2>1, <2>2 DEF OnItsWay
  <2>4. \A u \in Workers \ {v} : idx[u] = idx[v] => res'[u].secret # res[v].secret
    BY <1>0, <1>11, <2>1, <2>2 DEF OnItsWay, NoRes
  <2> QED BY <1>0, <2>1, <2>2, <2>3, <2>4 DEF OnItsWay
<1>12. ASSUME NEW j \in Rows, row'[j].delivery # 0 PROVE Sealed(j)'
  <2>1. CASE j = i
    <3>1. row'[i].delivery = s /\ s # 0
      BY <1>0, <1>1, <1>2, <1>12, <2>1
    <3>2. OnItsWay(w)
      BY <1>4, <3>1
    <3> QED BY <1>0, <2>1, <3>1, <3>2 DEF OnItsWay, Sealed
  <2>2. CASE j # i
    BY <1>0, <1>1, <1>12, <2>2 DEF SecretInv, SecretsKept, Sealed
  <2> QED BY <2>1, <2>2
<1> QED BY <1>5, <1>6, <1>8, <1>9, <1>10, <1>11, <1>12 DEF SecretInv, SecretsKept

\* ClaimCredentials reads a row.
LEMMA ReadSecrets ==
  ASSUME BatchTyped, BatchTyped', SecretInv, NEW c \in Claimers, NEW i \in Rows, ReadRow(c, i)
  PROVE  SecretInv'
<1>0. /\ UNCHANGED <<row, idx, res, pc, device, created, expiry, past, handed, deletes>>
      /\ opened' = [opened EXCEPT ![c] = [row |-> i, delivery |-> row[i].delivery,
                                          valid |-> device[i] = row[i].delivery]]
      /\ fresh' = fresh \cup {<<c, i>>} /\ row[i].delivery > past[i]
  BY DEF ReadRow, Open, devices, windows, local, limits
<1>1. row[i].delivery # 0
  BY <1>0, SecretNumbers
<1>2. \A d \in Claimers : opened'[d] = IF d = c THEN [row |-> i, delivery |-> row[i].delivery,
                                                    valid |-> device[i] = row[i].delivery]
                                       ELSE opened[d]
  BY <1>0 DEF BatchTyped, SecretsTyped
<1>3. \A d \in Claimers, j \in Rows : d # c /\ <<d, j>> \in fresh' => <<d, j>> \in fresh
  BY <1>0
<1>4. \A v \in Workers : <<v, idx[v]>> \in fresh' => <<v, idx[v]>> \in fresh
  BY <1>0, BatchAssumption
<1>5. CopiesCurrent'
  <2>1. ASSUME NEW d \in Claimers, opened'[d].row # 0
        PROVE  /\ opened'[d].delivery # 0
               /\ <<d, opened'[d].row>> \in fresh' => row'[opened'[d].row].delivery = opened'[d].delivery
    <3>1. CASE d = c
      BY <1>0, <1>1, <1>2, <3>1
    <3>2. CASE d # c
      <4>1. opened'[d] = opened[d] /\ opened[d].row \in Rows
        BY <1>2, <2>1, <3>2 DEF BatchTyped, SecretsTyped
      <4> QED BY <1>0, <1>3, <2>1, <3>2, <4>1 DEF SecretInv, CopiesCurrent
    <3> QED BY <3>1, <3>2
  <2> QED BY <1>0, <1>4, <2>1 DEF SecretInv, CopiesCurrent
<1>6. ResultInHand' /\ RowsTell' /\ Numbered' /\ deletes' <= MaxDeletes /\ SecretOnce'
  BY <1>0 DEF SecretInv, ResultInHand, RowsTell, RowTells, Numbered, SecretOnce
<1>7. SecretsKept'
  BY <1>0 DEF SecretInv, SecretsKept, OnItsWay, Sealed
<1> QED BY <1>5, <1>6, <1>7 DEF SecretInv

\* A row loses the secret that is sealed in it; that one may be handed out now.
LEMMA UnsealSecrets ==
  ASSUME BatchTyped, BatchTyped', SecretInv, NEW a, NEW i \in Rows, NEW x \in {"DELIVERED", "REISSUE_REQUIRED"},
         row[i].delivery # 0, SaveRow(a, i, [row[i] EXCEPT !.delivery = 0, !.credential = x]),
         CopiesCurrent', UNCHANGED <<pc, idx, res, device, created, expiry, past, deletes>>,
         \/ handed' = [handed EXCEPT ![<<i, row[i].delivery>>] = @ + 1]
         \/ UNCHANGED handed
  PROVE  SecretInv'
<1> DEFINE s == row[i].delivery
<1>1. /\ \A j \in Rows : row'[j] = IF j = i THEN [row[i] EXCEPT !.delivery = 0, !.credential = x] ELSE row[j]
      /\ row[i] \in RowRow
  BY DEF SaveRow, BatchTyped, RecordsTyped
<1>2. row'[i].delivery = 0 /\ \A j \in Rows : j # i => row'[j].delivery = row[j].delivery
  BY <1>1 DEF RowRow
<1>3. Sealed(i) /\ s \in Nat /\ s <= created[i] /\ <<i, s>> \in Rows \X Secrets
  BY SecretNumbers DEF SecretInv, SecretsKept, Numbered
<1>4. \A q \in Rows \X Secrets : q # <<i, s>> => handed'[q] = handed[q]
  BY DEF BatchTyped, SecretsTyped
<1>5. handed'[<<i, s>>] <= 1
  BY <1>3 DEF Sealed, BatchTyped, SecretsTyped
<1>6. SecretOnce'
  BY <1>4, <1>5 DEF SecretInv, SecretOnce
<1>7. RowsTell'
  <2>1. RowTells(i, [row[i] EXCEPT !.delivery = 0, !.credential = x])
    BY <1>1 DEF SecretInv, RowsTell, RowTells, RowRow
  <2> QED BY <2>1, RowsTellSaved DEF SecretInv
<1>8. Numbered'
  <2>1. ASSUME NEW j \in Rows PROVE row'[j].delivery <= created[j]
    BY <1>2, SecretNumbers DEF SecretInv, Numbered
  <2>2. ASSUME NEW j \in Rows, NEW q \in Secrets, q > created[j] PROVE handed'[<<j, q>>] = 0
    <3>1. <<j, q>> # <<i, s>>
      BY <1>3, <2>2, SecretNumbers
    <3> QED BY <1>4, <2>2, <3>1 DEF SecretInv, Numbered
  <2> QED BY <2>1, <2>2 DEF SecretInv, Numbered
<1>9. ASSUME NEW v \in Workers, res'[v].secret # 0 PROVE OnItsWay(v)'
  <2>1. OnItsWay(v) /\ idx[v] \in Rows /\ res[v].secret \in Nat
    BY <1>9, SecretNumbers
  <2>2. row'[idx[v]].delivery # res[v].secret
    BY <1>2, <1>9, <2>1 DEF OnItsWay
  <2>3. handed'[<<idx[v], res[v].secret>>] = 0
    <3>1. <<idx[v], res[v].secret>> \in Rows \X Secrets
      BY <1>9, <2>1, SecretNumbers DEF OnItsWay
    <3>2. <<idx[v], res[v].secret>> # <<i, s>>
      BY <2>1 DEF OnItsWay
    <3> QED BY <1>4, <2>1, <3>1, <3>2 DEF OnItsWay
  <2> QED BY <2>1, <2>2, <2>3 DEF OnItsWay
<1>10. ASSUME NEW j \in Rows, row'[j].delivery # 0 PROVE Sealed(j)'
  <2>1. j # i /\ row'[j].delivery = row[j].delivery /\ Sealed(j)
    BY <1>2, <1>10 DEF SecretInv, SecretsKept
  <2>2. <<j, row[j].delivery>> \in Rows \X Secrets
    BY <1>10, <2>1, SecretNumbers DEF SecretInv, Numbered
  <2>3. handed'[<<j, row[j].delivery>>] = handed[<<j, row[j].delivery>>]
    BY <1>4, <2>1, <2>2
  <2> QED BY <2>1, <2>3 DEF Sealed
<1>11. ResultInHand' /\ deletes' <= MaxDeletes
  BY DEF SecretInv, ResultInHand
<1> QED BY <1>6, <1>7, <1>8, <1>9, <1>10, <1>11 DEF SecretInv, SecretsKept

\* ClaimCredentials saves the row it has read and hands its secret out.
LEMMA DeliverSecrets ==
  ASSUME BatchTyped, BatchTyped', SecretInv, NEW c \in Claimers, Deliver(c)
  PROVE  SecretInv'
<1> DEFINE i == opened[c].row
           s == opened[c].delivery
<1>0. i \in Rows /\ i # 0 /\ s # 0 /\ opened'[c].row = 0 /\ \A d \in Claimers : d # c => opened'[d] = opened[d]
  BY DEF Deliver, NoRow, BatchTyped, SecretsTyped, SecretInv, CopiesCurrent
<1>1. UNCHANGED <<pc, idx, res, device, created, expiry, past>> /\ deletes' = deletes
  BY DEF Deliver, devices, windows, local, limits, Fault
<1>2. ASSUME NEW x \in {"DELIVERED", "REISSUE_REQUIRED"}, <<c, i>> \in fresh,
             SaveRow(c, i, [row[i] EXCEPT !.delivery = 0, !.credential = x]),
             handed' = [handed EXCEPT ![<<i, s>>] = @ + 1] \/ UNCHANGED handed
      PROVE  SecretInv'
  <2>1. row[i].delivery = s
    BY <1>0, <1>2 DEF SecretInv, CopiesCurrent
  <2>2. \A v \in Workers : pc'[v] \in AtRow => v # c /\ pc[v] \in AtRow /\ idx'[v] = idx[v]
    BY <1>1, BatchAssumption
  <2>3. \A d \in Claimers : opened'[d].row = 0 \/ (d # c /\ opened'[d] = opened[d])
    BY <1>0
  <2>4. CopiesCurrent
    BY DEF SecretInv
  <2>5. CopiesCurrent'
    BY <1>0, <1>2, <2>2, <2>3, <2>4, CopiesOutdated
  <2> QED BY <1>0, <1>1, <1>2, <2>1, <2>5, UnsealSecrets
<1>3. CASE UNCHANGED <<row, fresh, handed>>
  <2>1. CopiesCurrent'
    BY <1>0, <1>1, <1>3 DEF SecretInv, CopiesCurrent
  <2>2. ResultInHand' /\ RowsTell' /\ Numbered' /\ deletes' <= MaxDeletes /\ SecretOnce'
    BY <1>1, <1>3 DEF SecretInv, ResultInHand, RowsTell, RowTells, Numbered, SecretOnce
  <2>3. SecretsKept'
    BY <1>1, <1>3 DEF SecretInv, SecretsKept, OnItsWay, Sealed
  <2> QED BY <2>1, <2>2, <2>3 DEF SecretInv
<1> QED BY <1>2, <1>3 DEF Deliver, Unchanged

\* A delivery window ends.
LEMMA WindowSecrets ==
  ASSUME BatchTyped, BatchTyped', SecretInv, NEW i \in Rows, WindowEnds(i)
  PROVE  SecretInv'
<1>0. /\ UNCHANGED <<row, fresh, idx, res, pc, opened, device, created, expiry, handed, deletes>>
      /\ past[i] < created[i] /\ \A v \in Workers : idx[v] = i => res[v].secret # past[i] + 1
      /\ \A j \in Rows : past'[j] = IF j = i THEN past[i] + 1 ELSE past[j]
  BY DEF WindowEnds, records, devices, local, limits, BatchTyped, SecretsTyped
<1>1. CopiesCurrent' /\ ResultInHand' /\ RowsTell' /\ deletes' <= MaxDeletes /\ SecretOnce'
  BY <1>0 DEF SecretInv, CopiesCurrent, ResultInHand, RowsTell, RowTells, SecretOnce
<1>2. Numbered'
  <2>1. \A j \in Rows : past'[j] <= created[j]
    BY <1>0, SecretNumbers DEF SecretInv, Numbered
  <2> QED BY <1>0, <2>1 DEF SecretInv, Numbered
<1>3. ASSUME NEW v \in Workers, res'[v].secret # 0 PROVE OnItsWay(v)'
  <2>1. OnItsWay(v) /\ idx[v] \in Rows /\ res[v].secret \in Nat
    BY <1>0, <1>3, SecretNumbers
  <2>2. past'[idx[v]] < res[v].secret
    BY <1>0, <2>1, SecretNumbers DEF OnItsWay
  <2> QED BY <1>0, <2>1, <2>2 DEF OnItsWay
<1>4. \A j \in Rows : row'[j].delivery # 0 => Sealed(j)'
  BY <1>0 DEF SecretInv, SecretsKept, Sealed
<1> QED BY <1>1, <1>2, <1>3, <1>4 DEF SecretInv, SecretsKept

\* ExpireCredentialDeliveries never ends the job of a secret that is still on its way or sealed.
LEMMA ExpireSecrets ==
  ASSUME BatchTyped, BatchTyped', SecretInv, NEW i \in Rows, ExpireDelivery(i)
  PROVE  SecretInv'
<1> DEFINE r == [row[i] EXCEPT !.delivery = 0, !.credential = "EXPIRED"]
<1>0. /\ UNCHANGED <<idx, res, pc, opened, device, created, past, handed, deletes>>
      /\ expiry[i].status = "QUEUED" /\ expiry[i].secret <= past[i]
      /\ \A j \in Rows : j # i => expiry'[j] = expiry[j]
  BY DEF ExpireDelivery, devices, local, limits, BatchTyped, SecretsTyped
<1>1. \/ row[i].delivery # 0 /\ SaveRow(Nobody, i, r)
      \/ (row[i].delivery = 0 \/ row[i].delivery > past[i]) /\ UNCHANGED <<row, fresh>>
  BY DEF ExpireDelivery, Open
<1>2. row[i] \in RowRow
  BY DEF BatchTyped, RecordsTyped
<1>3. /\ \A j \in Rows : j # i => row'[j] = row[j]
      /\ row'[i].delivery = 0 \/ (row'[i] = row[i] /\ row[i].delivery > past[i])
  <2>1. CASE SaveRow(Nobody, i, r)
    <3>1. \A j \in Rows : row'[j] = IF j = i THEN r ELSE row[j]
      BY <2>1 DEF SaveRow, BatchTyped, RecordsTyped
    <3>2. r.delivery = 0
      BY <1>2 DEF RowRow
    <3> QED BY <3>1, <3>2
  <2> QED BY <1>1, <2>1
<1>4. created[i] # 0
  BY <1>0 DEF SecretInv, Numbered, NoJob
<1>5. CopiesCurrent'
  <2>1. CASE UNCHANGED <<row, fresh>>
    BY <1>0, <2>1, CopiesKept DEF SecretInv
  <2>2. CASE SaveRow(Nobody, i, r)
    <3>1. \A v \in Workers : pc'[v] \in AtRow => v # Nobody /\ pc[v] \in AtRow /\ idx'[v] = idx[v]
      BY <1>0, BatchAssumption
    <3>2. CopiesCurrent
      BY DEF SecretInv
    <3> QED BY <1>0, <2>2, <3>1, <3>2, CopiesSaved
  <2> QED BY <1>1, <2>1, <2>2
<1>6. RowsTell'
  <2>1. CASE UNCHANGED row
    BY <2>1 DEF SecretInv, RowsTell, RowTells
  <2>2. CASE row[i].delivery # 0 /\ SaveRow(Nobody, i, r)
    <3>1. RowTells(i, r)
      BY <1>2, <2>2 DEF SecretInv, RowsTell, RowTells, RowRow
    <3> QED BY <2>2, <3>1, RowsTellSaved DEF SecretInv
  <2> QED BY <1>1, <2>1, <2>2
<1>7. ResultInHand' /\ deletes' <= MaxDeletes /\ SecretOnce'
  BY <1>0 DEF SecretInv, ResultInHand, SecretOnce
<1>8. Numbered'
  <2>1. ASSUME NEW j \in Rows PROVE row'[j].delivery <= created[j] /\ (created[j] = 0 => expiry'[j] = NoJob)
    BY <1>0, <1>3, <1>4, SecretNumbers DEF SecretInv, Numbered
  <2> QED BY <1>0, <2>1 DEF SecretInv, Numbered
<1>9. ASSUME NEW v \in Workers, res'[v].secret # 0 PROVE OnItsWay(v)'
  <2>1. OnItsWay(v) /\ idx[v] \in Rows /\ res[v].secret \in Nat
    BY <1>0, <1>9, SecretNumbers
  <2>2. idx[v] = i => created[i] # 1
    <3>1. idx[v] = i /\ created[i] = 1 => past[i] < res[v].secret /\ expiry[i] = [status |-> "QUEUED", secret |-> res[v].secret]
      BY <1>0, <2>1 DEF OnItsWay, NoJob
    <3> QED BY <1>0, <2>1, <3>1, SecretNumbers
  <2>3. row'[idx[v]].delivery # res[v].secret
    BY <1>0, <1>3, <1>9, <2>1 DEF OnItsWay
  <2>4. created[idx[v]] = 1 => expiry'[idx[v]] = expiry[idx[v]]
    BY <1>0, <2>1, <2>2
  <2> QED BY <1>0, <2>1, <2>3, <2>4 DEF OnItsWay
<1>10. ASSUME NEW j \in Rows, row'[j].delivery # 0 PROVE Sealed(j)'
  <2>1. row'[j] = row[j] /\ Sealed(j) /\ (j = i => row[i].delivery > past[i])
    BY <1>3, <1>10 DEF SecretInv, SecretsKept
  <2>2. j = i => created[i] # 1
    BY <1>0, <2>1, SecretNumbers DEF Sealed
  <2>3. created[j] = 1 => expiry'[j] = expiry[j]
    BY <1>0, <2>2
  <2> QED BY <1>0, <2>1, <2>3 DEF Sealed
<1> QED BY <1>5, <1>6, <1>7, <1>8, <1>9, <1>10 DEF SecretInv, SecretsKept

\* A device is deleted.
LEMMA DeleteSecrets ==
  ASSUME BatchTyped, BatchTyped', SecretInv, NEW i \in Rows, DeleteDevice(i)
  PROVE  SecretInv'
<1>0. /\ UNCHANGED <<row, fresh, idx, res, pc, opened, created, expiry, past, handed>>
      /\ device[i] # 0 /\ deletes < MaxDeletes /\ deletes' = deletes + 1 /\ deletes \in Nat
      /\ \A j \in Rows : device'[j] = IF j = i THEN 0 ELSE device[j]
  BY DEF DeleteDevice, records, windows, local, BatchTyped, SecretsTyped
<1>1. CopiesCurrent' /\ ResultInHand' /\ RowsTell' /\ SecretOnce'
  BY <1>0 DEF SecretInv, CopiesCurrent, ResultInHand, RowsTell, RowTells, SecretOnce
<1>2. deletes' <= MaxDeletes
  BY <1>0, BatchAssumption
<1>3. Numbered'
  <2>1. \A j \in Rows : /\ created[j] <= deletes' + 1 /\ device'[j] \in {0, created[j], Replaced}
                        /\ device'[j] = 0 => created[j] <= deletes'
    BY <1>0, SecretNumbers DEF SecretInv, Numbered
  <2> QED BY <1>0, <2>1 DEF SecretInv, Numbered
<1>4. SecretsKept'
  BY <1>0 DEF SecretInv, SecretsKept, OnItsWay, Sealed
<1> QED BY <1>1, <1>2, <1>3, <1>4 DEF SecretInv

\* A device's secret is replaced or revoked.
LEMMA ChangeSecrets ==
  ASSUME BatchTyped, BatchTyped', SecretInv, NEW i \in Rows, ChangeCredential(i)
  PROVE  SecretInv'
<1>0. /\ UNCHANGED <<row, fresh, idx, res, pc, opened, created, expiry, past, handed, deletes>>
      /\ device[i] # 0 /\ \A j \in Rows : device'[j] = IF j = i THEN Replaced ELSE device[j]
  BY BatchAssumption DEF ChangeCredential, Secrets, records, windows, local, limits, BatchTyped, SecretsTyped
<1>1. CopiesCurrent' /\ ResultInHand' /\ RowsTell' /\ SecretOnce' /\ deletes' <= MaxDeletes
  BY <1>0 DEF SecretInv, CopiesCurrent, ResultInHand, RowsTell, RowTells, SecretOnce
<1>2. Numbered'
  <2>1. Replaced # 0
    BY BatchAssumption DEF Replaced
  <2>2. \A j \in Rows : /\ device'[j] \in {0, created[j], Replaced}
                        /\ device'[j] = 0 => created[j] <= deletes
    BY <1>0, <2>1 DEF SecretInv, Numbered
  <2> QED BY <1>0, <2>2 DEF SecretInv, Numbered
<1>3. SecretsKept'
  BY <1>0 DEF SecretInv, SecretsKept, OnItsWay, Sealed
<1> QED BY <1>1, <1>2, <1>3 DEF SecretInv

\* Every step keeps what is known about secrets.
LEMMA SecretStep ==
  ASSUME BatchTyped, SecretInv, [Next]_vars
  PROVE  SecretInv'
<1>0. BatchTyped'
  BY TypedStep
<1>1. ASSUME UNCHANGED <<row, fresh, idx, res, pc, opened, device, created, expiry, past, handed, deletes>>
      PROVE  SecretInv'
  BY <1>1 DEF SecretInv, CopiesCurrent, ResultInHand, RowsTell, RowTells, Numbered, SecretOnce, SecretsKept,
              OnItsWay, Sealed
<1>2. CASE LeaseRunsOut \/ LeaseOverrun \/ ApplyTemplate \/ VerifyTemplate \/ UNCHANGED vars
  BY <1>1, <1>2 DEF LeaseRunsOut, LeaseOverrun, ApplyTemplate, VerifyTemplate, Fault, vars, records, local, devices, windows, limits
<1>3. ASSUME NEW S \in SUBSET Rows, RetryBatch(S) PROVE SecretInv'
  BY <1>1, <1>3 DEF RetryBatch, local, devices, windows
<1>4. ASSUME NEW w \in Workers, Begin(w) \/ Step(w) \/ Denied(w) \/ EnrollFails(w) \/ Stop(w) PROVE SecretInv'
  BY <1>0, <1>4, QuietWorkers, EnrollSecrets, ScheduleSecrets, ResultSecrets DEF Step, PlainStep, SavingStep
<1>5. ASSUME NEW c \in Claimers, Deliver(c) \/ \E i \in Rows : ReadRow(c, i) PROVE SecretInv'
  BY <1>0, <1>5, DeliverSecrets, ReadSecrets
<1>6. ASSUME NEW i \in Rows, WindowEnds(i) \/ ExpireDelivery(i) \/ DeleteDevice(i) \/ ChangeCredential(i) PROVE SecretInv'
  BY <1>0, <1>6, WindowSecrets, ExpireSecrets, DeleteSecrets, ChangeSecrets
<1> QED BY <1>2, <1>3, <1>4, <1>5, <1>6 DEF Next

\* What the batch has to do at first.
LEMMA FirstBody == [Empty EXCEPT !.input = TRUE, !.pending = Total] \in Body
<1>1. Empty \in Body /\ Total \in Int
  BY EmptyBody, BatchAssumption
<1>2. [Empty EXCEPT !.input = TRUE] \in Body
  BY <1>1 DEF Body
<1> QED BY <1>1, <1>2 DEF Body

\* The beginning.
LEMMA BatchStart ==
  ASSUME Init
  PROVE  BatchTyped /\ SecretInv
<1> USE BatchAssumption DEF Init
<1>1. RecordsTyped
  BY FirstBody DEF RecordsTyped, BatchRow, RowRow
<1>2. WorkersTyped
  <2>1. pc \in [Workers -> Steps] /\ lease \in Workers \cup {Nobody} /\ template \in {"ready", "changed", "unready"}
    BY DEF Steps
  <2>2. b \in [Workers -> Body] /\ res \in [Workers -> [secret: Nat, ok: BOOLEAN]]
    BY EmptyBody
  <2>3. idx \in [Workers -> 1..Total + 1]
    OBVIOUS
  <2>4. \A w \in Workers : pc[w] = "idle"
    OBVIOUS
  <2> QED BY <2>1, <2>2, <2>3, <2>4 DEF WorkersTyped, AtRow
<1>3. SecretsTyped
  BY DEF SecretsTyped, Job, NoRow
<1>4. CopiesCurrent /\ ResultInHand /\ RowsTell
  BY DEF CopiesCurrent, ResultInHand, RowsTell, RowTells, NoRes, NoRow, AtRow
<1>5. Numbered /\ SecretsKept /\ SecretOnce
  BY DEF Numbered, SecretsKept, SecretOnce, NoRes, NoJob
<1> QED BY <1>1, <1>2, <1>3, <1>4, <1>5 DEF BatchTyped, SecretInv

\* The batch, its rows, workers, devices and secrets keep their types.
THEOREM BatchTypesHold == Spec => []BatchTyped
<1>1. Init => BatchTyped
  BY BatchStart
<1>2. BatchTyped /\ [Next]_vars => BatchTyped'
  BY TypedStep
<1> QED BY <1>1, <1>2, PTL DEF Spec

\* What is known about secrets holds at all times.
LEMMA SecretsHold == Spec => [](BatchTyped /\ SecretInv)
<1>1. Init => BatchTyped /\ SecretInv
  BY BatchStart
<1>2. (BatchTyped /\ SecretInv) /\ [Next]_vars => (BatchTyped /\ SecretInv)'
  BY TypedStep, SecretStep
<1> QED BY <1>1, <1>2, PTL DEF Spec

\* ClaimCredentials hands a secret out once at most, whatever requests, workers and
\* erasures save its row in between.
THEOREM SecretHandedOnce == Spec => []SecretOnce
<1>1. BatchTyped /\ SecretInv => SecretOnce
  BY DEF SecretInv
<1> QED BY <1>1, SecretsHold, PTL

\* While a secret is sealed in a row, the job that erases it waits (scheduleCredentialExpiry
\* comes before the row's save, ExpireCredentialDeliveries after its window).
THEOREM ErasureIsWaiting == Spec => []ErasureWaits
<1>1. BatchTyped /\ SecretInv => ErasureWaits
  BY DEF SecretInv, SecretsKept, Sealed, ErasureWaits
<1> QED BY <1>1, SecretsHold, PTL

----------------------------------------------------------------------------
(* Batches: counting.                                                       *)

\* Sets of row numbers.
LEMMA Counting ==
  ASSUME NEW n \in Nat, NEW S \in SUBSET (1..n)
  PROVE  IsFiniteSet(S) /\ Cardinality(S) \in Nat /\ Cardinality(S) <= n
<1>1. IsFiniteSet(1..n) /\ Cardinality(1..n) = n
  BY FS_Interval
<1> QED BY <1>1, FS_Subset, FS_CardinalityType

\* A set that has more in it counts for more.
LEMMA CountMore ==
  ASSUME NEW n \in Nat, NEW T \in SUBSET (1..n), NEW S \in SUBSET T
  PROVE  Cardinality(S) <= Cardinality(T)
BY Counting, FS_Subset

\* One more.
LEMMA CountOne ==
  ASSUME NEW n \in Nat, NEW T \in SUBSET (1..n), NEW S \in SUBSET T, NEW i \in T, i \notin S
  PROVE  Cardinality(S) + 1 <= Cardinality(T)
<1>1. IsFiniteSet(T) /\ IsFiniteSet(S) /\ Cardinality(S) \in Nat
  BY Counting, FS_Subset, FS_CardinalityType
<1>2. Cardinality(S \cup {i}) = Cardinality(S) + 1 /\ S \cup {i} \in SUBSET T
  BY <1>1, FS_AddElement
<1> QED BY <1>1, <1>2, FS_Subset

\* Two kinds of rows that together are as many as there are rows.
LEMMA CountAll ==
  ASSUME NEW n \in Nat, NEW S \in SUBSET (1..n), NEW F \in SUBSET (1..n), S \cap F = {}
  PROVE  \A k, l \in Nat : k <= Cardinality(S) /\ l <= Cardinality(F) /\ k + l = n
            => S \cup F = 1..n /\ k = Cardinality(S) /\ l = Cardinality(F)
<1>1. IsFiniteSet(S) /\ IsFiniteSet(F) /\ Cardinality(S) \in Nat /\ Cardinality(F) \in Nat
  BY Counting
<1>2. Cardinality(S \cup F) = Cardinality(S) + Cardinality(F)
  <2>1. Cardinality(S \cup F) = Cardinality(S) + Cardinality(F) - Cardinality(S \cap F)
    BY <1>1, FS_Union
  <2>2. Cardinality(S \cap F) = 0
    BY FS_EmptySet
  <2> QED BY <1>1, <2>1, <2>2
<1>3. S \cup F \in SUBSET (1..n) /\ Cardinality(S \cup F) <= n
  BY Counting
<1>4. IsFiniteSet(1..n) /\ Cardinality(1..n) = n
  BY FS_Interval
<1> TAKE k, l \in Nat
<1> HAVE k <= Cardinality(S) /\ l <= Cardinality(F) /\ k + l = n
<1>5. Cardinality(S \cup F) = n /\ k = Cardinality(S) /\ l = Cardinality(F)
  BY <1>1, <1>2, <1>3
<1> QED BY <1>3, <1>4, <1>5, FS_Subset

\* No finished row is taken back.
Kept == \A i \in Rows : Finished(i) => row'[i].status = row[i].status

\* Only the owner's retries take finished rows back.
LEMMA FinishedKept ==
  ASSUME BatchTyped, CopiesCurrent, Next, \A w \in Workers : ~ResetRow(w)
  PROVE  Kept
<1> USE DEF Kept
<1>0. DOMAIN row = Rows /\ \A i \in Rows : row[i] \in RowRow
  BY DEF BatchTyped, RecordsTyped
<1>1. CASE UNCHANGED row
  BY <1>1
<1>2. ASSUME NEW a, NEW i \in Rows, NEW r, SaveRow(a, i, r), Finished(i) => r.status = row[i].status
      PROVE  Kept
  BY <1>0, <1>2 DEF SaveRow
<1>3. ASSUME NEW w \in Workers, idx[w] <= Total PROVE idx[w] \in Rows
  BY <1>3, BatchAssumption DEF BatchTyped, WorkersTyped, Rows
<1>4. ASSUME NEW w \in Workers, MakeRow(w) PROVE Kept
  BY <1>1, <1>2, <1>3, <1>4 DEF MakeRow, Finished
<1>5. ASSUME NEW w \in Workers, Count(w) PROVE Kept
  BY <1>1, <1>2, <1>3, <1>5 DEF Count, Recovered, Finished
<1>6. ASSUME NEW w \in Workers, StartRow(w) PROVE Kept
  BY <1>2, <1>3, <1>6 DEF StartRow, RowTurn
<1>7. ASSUME NEW w \in Workers, SaveResult(w) PROVE Kept
  <2>1. idx[w] \in Rows /\ row[idx[w]].status = "RUNNING"
    BY <1>7 DEF SaveResult, CopiesCurrent, AtRow, BatchTyped, WorkersTyped
  <2>2. ~Finished(idx[w]) /\ SaveRow(w, idx[w], Result(w))
    BY <1>7, <2>1 DEF SaveResult, Finished
  <2> QED BY <1>2, <2>1, <2>2
<1>8. ASSUME NEW w \in Workers, PlainStep(w) \/ Enroll(w) \/ EnrollFails(w) \/ ScheduleExpiry(w) PROVE UNCHANGED row
  BY <1>8 DEF PlainStep, Begin, LeaseLost, Outdated, Denied, InputDone, ResetDone, TemplateChanged, StartRows,
              SkipRow, RowTemplateChanged, EnrollRefused, SaveSummary, Finish, Stop, Enroll, EnrollFails,
              ScheduleExpiry, records
<1>9. ASSUME NEW c \in Claimers, Deliver(c) PROVE Kept
  <2>1. opened[c].row \in Rows
    BY <1>9 DEF Deliver, BatchTyped, SecretsTyped
  <2>2. \A x : [row[opened[c].row] EXCEPT !.delivery = 0, !.credential = x].status = row[opened[c].row].status
    BY <1>0, <2>1 DEF RowRow
  <2> QED BY <1>1, <1>2, <1>9, <2>1, <2>2 DEF Deliver
<1>10. ASSUME NEW i \in Rows, ExpireDelivery(i) PROVE Kept
  <2>1. [row[i] EXCEPT !.delivery = 0, !.credential = "EXPIRED"].status = row[i].status
    BY <1>0 DEF RowRow
  <2> QED BY <1>1, <1>2, <1>10, <2>1 DEF ExpireDelivery
<1>11. ASSUME \/ LeaseRunsOut \/ LeaseOverrun \/ ApplyTemplate \/ VerifyTemplate
              \/ \E S \in SUBSET Rows : RetryBatch(S)
              \/ \E c \in Claimers, i \in Rows : ReadRow(c, i)
              \/ \E i \in Rows : WindowEnds(i) \/ DeleteDevice(i) \/ ChangeCredential(i)
       PROVE  UNCHANGED row
  BY <1>11 DEF LeaseRunsOut, LeaseOverrun, ApplyTemplate, VerifyTemplate, RetryBatch, ReadRow, WindowEnds, DeleteDevice, ChangeCredential, records
<1> QED BY <1>1, <1>4, <1>5, <1>6, <1>7, <1>8, <1>9, <1>10, <1>11 DEF Next, Step, PlainStep

\* A worker goes on and perhaps renews its lease or gives it back.
LEMMA AloneGoesOn ==
  ASSUME BatchTyped, Alone, NEW w \in Workers, Bystanders(w), pc[w] # "idle",
         \/ lease' = lease
         \/ lease' = w /\ lease \in {w, Nobody}
         \/ lease' = Nobody /\ pc'[w] = "idle" /\ lease = w,
         b'[w].retry \subseteq b[w].retry, UNCHANGED <<batch, stalls, retries>>, known' \subseteq known
  PROVE  Alone'
<1>1. ASSUME stalls = 0, NEW v \in Workers, pc'[v] # "idle" PROVE lease' = v /\ Waiting
  <2>1. lease = w /\ Waiting
    BY <1>1 DEF Alone
  <2>2. CASE v = w
    BY <1>1, <2>1, <2>2
  <2>3. CASE v # w
    BY <1>1, <2>1, <2>3 DEF Alone, Bystanders
  <2> QED BY <2>2, <2>3
<1>2. ASSUME NEW v \in known', pc'[v] # "idle" PROVE Waiting
  BY <1>2 DEF Alone, Bystanders, BatchTyped, RecordsTyped
<1>3. ASSUME retries = 0, NEW v \in Workers PROVE batch.body.retry = {} /\ b'[v].retry = {}
  BY <1>3 DEF Alone, Bystanders
<1> QED BY <1>1, <1>2, <1>3 DEF Alone, Waiting

\* A worker saves the batch, and is done unless the batch still waits.
LEMMA AloneSaves ==
  ASSUME BatchTyped, Alone, NEW w \in Workers, Bystanders(w), pc[w] # "idle",
         NEW st, NEW body, SaveBatch(w, st, body), body.retry = b[w].retry,
         st \in {"INITIALIZING", "QUEUED", "RUNNING"} \/ pc'[w] = "idle",
         \/ lease' = lease
         \/ lease' = Nobody /\ pc'[w] = "idle" /\ lease = w,
         b'[w].retry \subseteq b[w].retry, UNCHANGED <<stalls, retries>>
  PROVE  Alone'
<1>0. batch' = [status |-> st, body |-> body] /\ known' = {w} /\ w \in known
  BY DEF SaveBatch
<1>1. ASSUME stalls = 0, NEW v \in Workers, pc'[v] # "idle" PROVE lease' = v /\ Waiting'
  <2>1. lease = w
    BY <1>1 DEF Alone
  <2>2. CASE v = w
    BY <1>0, <1>1, <2>1, <2>2 DEF Waiting
  <2>3. CASE v # w
    BY <1>1, <2>1, <2>3 DEF Alone, Bystanders
  <2> QED BY <2>2, <2>3
<1>2. ASSUME NEW v \in known', pc'[v] # "idle" PROVE Waiting'
  BY <1>0, <1>2 DEF Waiting
<1>3. ASSUME retries = 0, NEW v \in Workers PROVE batch'.body.retry = {} /\ b'[v].retry = {}
  BY <1>0, <1>3 DEF Alone, Bystanders
<1> QED BY <1>1, <1>2, <1>3 DEF Alone

\* Counting and returning leave the rows to retry as they are, or forget them.
LEMMA RetriesLeft ==
  ASSUME NEW c \in Body
  PROVE  /\ Inactive(c).retry = c.retry /\ \A st : Counted(c, st).retry = c.retry
         /\ [c EXCEPT !.input = FALSE].retry = c.retry
         /\ \A st, n : [Counted(c, st) EXCEPT !.pending = n].retry = c.retry
         /\ Empty.retry = {} /\ \A x : [Empty EXCEPT !.active = x].retry = {}
BY DEF Body, Inactive, Counted, Empty

\* A worker's steps leave the workers as the lease admits.
LEMMA AloneWorks ==
  ASSUME BatchTyped, Alone, ResultInHand, NEW w \in Workers,
         Begin(w) \/ Step(w) \/ Denied(w) \/ EnrollFails(w) \/ Stop(w)
  PROVE  Alone'
<1>0. b[w] \in Body /\ DOMAIN b = Workers /\ DOMAIN pc = Workers
  BY DEF BatchTyped, WorkersTyped
<1>1. ASSUME Begin(w) PROVE Alone'
  <2>1. /\ lease = Nobody /\ lease' = w /\ Waiting /\ known' = known \cup {w} /\ b'[w] = batch.body
        /\ UNCHANGED <<batch, stalls, retries>> /\ Bystanders(w)
    BY <1>1 DEF Begin, Goto, Bystanders, limits, BatchTyped, WorkersTyped
  <2>2. stalls = 0 => \A v \in Workers : pc[v] = "idle"
    BY <2>1, BatchAssumption DEF Alone
  <2>3. stalls = 0 => \A v \in Workers : pc'[v] # "idle" => lease' = v /\ Waiting'
    BY <2>1, <2>2 DEF Bystanders, Waiting
  <2>4. \A v \in known' : pc'[v] # "idle" => Waiting'
    BY <2>1 DEF Waiting
  <2>5. retries = 0 => batch'.body.retry = {} /\ \A v \in Workers : b'[v].retry = {}
    BY <2>1 DEF Alone, Bystanders
  <2> QED BY <2>1, <2>3, <2>4, <2>5 DEF Alone
<1>2. CASE LeaseLost(w) \/ Outdated(w) \/ Stop(w)
  <2>1. /\ UNCHANGED <<batch, stalls, retries>> /\ Bystanders(w) /\ known' \subseteq known
        /\ pc'[w] = "idle" /\ b'[w] = Empty
        /\ lease' = lease \/ (lease' = Nobody /\ lease = w)
    BY <1>2 DEF LeaseLost, Outdated, Stop, Return, Goto, Fault, Bystanders, records, limits, BatchTyped, WorkersTyped
  <2>2. pc[w] # "idle"
    BY <1>2 DEF LeaseLost, Renews, Outdated, RowTurn, Stop
  <2> QED BY <1>0, <2>1, <2>2, RetriesLeft, AloneGoesOn
<1>3. CASE MakeRow(w) \/ ResetRow(w) \/ SkipRow(w) \/ StartRow(w)
  <2>1. /\ UNCHANGED <<batch, known, b, stalls, retries>> /\ pc[w] # "idle"
        /\ lease' = lease \/ (lease' = w /\ lease \in {w, Nobody})
    BY <1>3 DEF MakeRow, ResetRow, SkipRow, StartRow, RowTurn, Renewed, records, local, limits
  <2>2. Bystanders(w)
    BY <1>3 DEF MakeRow, ResetRow, SkipRow, StartRow, Goto, Bystanders, local, BatchTyped, WorkersTyped
  <2> QED BY <2>1, <2>2, AloneGoesOn
<1>4. CASE InputDone(w) \/ ResetDone(w) \/ Count(w) \/ SaveResult(w)
  <2>1. /\ UNCHANGED <<batch, known, stalls, retries>> /\ pc[w] # "idle"
        /\ lease' = lease \/ (lease' = w /\ lease \in {w, Nobody})
    BY <1>4 DEF InputDone, ResetDone, Count, SaveResult, Renewed, records, limits
  <2>2. Bystanders(w)
    BY <1>4 DEF InputDone, ResetDone, Count, SaveResult, Goto, Bystanders, BatchTyped, WorkersTyped
  <2>3. b'[w].retry \subseteq b[w].retry
    <3>1. CASE InputDone(w)
      BY <1>0, <3>1, RetriesLeft DEF InputDone
    <3>2. CASE ResetDone(w)
      BY <1>0, <3>2, RetriesLeft DEF ResetDone
    <3>3. CASE Count(w)
      BY <1>0, <3>3, RetriesLeft DEF Count
    <3>4. CASE SaveResult(w)
      BY <1>0, <3>4, RetriesLeft DEF SaveResult
    <3> QED BY <1>4, <3>1, <3>2, <3>3, <3>4
  <2> QED BY <2>1, <2>2, <2>3, AloneGoesOn
<1>5. CASE Enroll(w) \/ EnrollRefused(w) \/ EnrollFails(w) \/ ScheduleExpiry(w)
  <2>1. UNCHANGED <<batch, known, lease, b, stalls, retries>> /\ pc[w] # "idle" /\ Bystanders(w)
    BY <1>5 DEF Enroll, EnrollRefused, EnrollFails, ScheduleExpiry, Fault, Goto, Bystanders, records, limits,
                BatchTyped, WorkersTyped
  <2> QED BY <2>1, AloneGoesOn
<1>6. CASE TemplateChanged(w) \/ RowTemplateChanged(w) \/ Finish(w) \/ Denied(w)
  <2>1. PICK st, body : SaveBatch(w, st, body) /\ body \in {b[w], Inactive(b[w])}
    BY <1>6 DEF TemplateChanged, RowTemplateChanged, Finish, Denied
  <2>2. /\ UNCHANGED <<stalls, retries>> /\ Bystanders(w) /\ pc'[w] = "idle" /\ b'[w] = Empty
        /\ lease' = lease \/ (lease' = Nobody /\ lease = w)
    BY <1>6 DEF TemplateChanged, RowTemplateChanged, Differs, Finish, Denied, Return, Goto, Fault, Bystanders, limits,
                BatchTyped, WorkersTyped
  <2>3. pc[w] # "idle"
    BY <1>6 DEF TemplateChanged, RowTemplateChanged, Finish, Denied, RowTurn
  <2> QED BY <1>0, <2>1, <2>2, <2>3, RetriesLeft, AloneSaves
<1>7. CASE StartRows(w) \/ SaveSummary(w)
  <2>1. SaveBatch(w, "RUNNING", b[w]) /\ UNCHANGED <<b, lease, stalls, retries>> /\ pc[w] # "idle"
    BY <1>7 DEF StartRows, SaveSummary, limits
  <2>2. Bystanders(w)
    BY <1>7 DEF StartRows, SaveSummary, Goto, Bystanders, BatchTyped, WorkersTyped
  <2> QED BY <2>1, <2>2, AloneSaves
<1> QED BY <1>1, <1>2, <1>3, <1>4, <1>5, <1>6, <1>7 DEF Step

\* Every step does.
LEMMA AloneStep ==
  ASSUME BatchTyped, Alone, ResultInHand, [Next]_vars
  PROVE  Alone'
<1>1. ASSUME UNCHANGED <<batch, known, pc, b, stalls, retries, lease>> PROVE Alone'
  BY <1>1 DEF Alone, Waiting
<1>2. ASSUME NEW w \in Workers, Begin(w) \/ Step(w) \/ Denied(w) \/ EnrollFails(w) \/ Stop(w) PROVE Alone'
  BY <1>2, AloneWorks
<1>3. ASSUME LeaseRunsOut PROVE Alone'
  <2>1. stalls = 0 => \A w \in Workers : pc[w] = "idle"
    BY <1>3 DEF LeaseRunsOut, Alone
  <2> QED BY <1>3, <2>1 DEF LeaseRunsOut, records, local, limits, Alone, Waiting
<1>4. ASSUME LeaseOverrun PROVE Alone'
  BY <1>4 DEF LeaseOverrun, records, local, Alone, Waiting, BatchTyped, SecretsTyped
<1>5. ASSUME NEW S \in SUBSET Rows, RetryBatch(S) PROVE Alone'
  BY <1>5 DEF RetryBatch, local, Alone, Waiting, BatchTyped, SecretsTyped
<1>6. ASSUME NEW c \in Claimers, Deliver(c) \/ \E i \in Rows : ReadRow(c, i) PROVE Alone'
  BY <1>1, <1>6 DEF Deliver, ReadRow, Fault, local, limits
<1>7. ASSUME NEW i \in Rows, WindowEnds(i) \/ ExpireDelivery(i) \/ DeleteDevice(i) \/ ChangeCredential(i) PROVE Alone'
  BY <1>1, <1>7 DEF WindowEnds, ExpireDelivery, DeleteDevice, ChangeCredential, records, local, limits
<1>8. CASE ApplyTemplate \/ VerifyTemplate \/ UNCHANGED vars
  BY <1>1, <1>8 DEF ApplyTemplate, VerifyTemplate, Fault, vars, records, local, limits
<1> QED BY <1>2, <1>3, <1>4, <1>5, <1>6, <1>7, <1>8 DEF Next

\* Rows that stay finished stay counted.
LEMMA WithMore ==
  ASSUME BatchTyped, Kept, NEW n \in 0..Total, NEW st \in {"SUCCEEDED", "FAILED"}
  PROVE  /\ n \in Nat /\ With(st, n) \in SUBSET (1..n) /\ With(st, n)' \in SUBSET (1..n)
         /\ With(st, n) \subseteq With(st, n)'
         /\ \A j \in 1..n : j \in Rows
         /\ Cardinality(With(st, n)) \in Nat /\ Cardinality(With(st, n)') \in Nat
         /\ Cardinality(With(st, n)) <= Cardinality(With(st, n)')
<1>1. n \in Nat /\ \A j \in 1..n : j \in Rows
  BY BatchAssumption DEF Rows
<1>2. With(st, n) \in SUBSET (1..n) /\ With(st, n)' \in SUBSET (1..n)
  BY DEF With
<1>3. With(st, n) \subseteq With(st, n)'
  BY <1>1 DEF With, Kept, Finished
<1>4. Cardinality(With(st, n)) \in Nat /\ Cardinality(With(st, n)') \in Nat
  BY <1>1, <1>2, Counting
<1>5. Cardinality(With(st, n)) <= Cardinality(With(st, n)')
  BY <1>1, <1>2, <1>3, CountMore
<1> QED BY <1>1, <1>2, <1>3, <1>4, <1>5

\* The counts of a worker that does not count stay right, ...
LEMMA AddsKept ==
  ASSUME BatchTyped, Kept, NEW w \in Workers, NEW n \in 0..Total, Adds(w, n), b'[w] = b[w]
  PROVE  Adds(w, n)'
<1>1. b[w].succeeded \in Nat /\ b[w].failed \in Nat
  BY DEF BatchTyped, WorkersTyped, Body
<1>2. b[w].succeeded <= Cardinality(With("SUCCEEDED", n)') /\ b[w].failed <= Cardinality(With("FAILED", n)')
  BY <1>1, WithMore DEF Adds
<1> QED BY <1>2 DEF Adds

\* ... and so do those of one that adds a finished row it had not counted as finished.
LEMMA AddsOne ==
  ASSUME BatchTyped, Kept, NEW w \in Workers, NEW k \in 0..Total, NEW n \in 0..Total, k <= n, Adds(w, k),
         NEW i \in 1..n, NEW st \in {"SUCCEEDED", "FAILED"}, row'[i].status = st,
         \A x \in {"SUCCEEDED", "FAILED"} : i \notin With(x, k),
         b'[w].succeeded = b[w].succeeded + (IF st = "SUCCEEDED" THEN 1 ELSE 0),
         b'[w].failed = b[w].failed + (IF st = "FAILED" THEN 1 ELSE 0),
         b'[w].succeeded + b'[w].failed + b'[w].pending = n
  PROVE  Adds(w, n)'
<1>1. b[w].succeeded \in Nat /\ b[w].failed \in Nat /\ n \in Nat
  BY DEF BatchTyped, WorkersTyped, Body
<1>2. ASSUME NEW x \in {"SUCCEEDED", "FAILED"}
      PROVE  /\ Cardinality(With(x, k)) \in Nat /\ Cardinality(With(x, n)') \in Nat
             /\ Cardinality(With(x, k)) <= Cardinality(With(x, n)')
             /\ x = st => Cardinality(With(x, k)) + 1 <= Cardinality(With(x, n)')
  <2>1. With(x, n)' \in SUBSET (1..n) /\ With(x, k) \in SUBSET With(x, n)'
    <3>1. With(x, k) \subseteq With(x, n)
      BY DEF With
    <3> QED BY <3>1, WithMore
  <2>2. Cardinality(With(x, k)) \in Nat /\ Cardinality(With(x, n)') \in Nat
    BY WithMore
  <2>3. Cardinality(With(x, k)) <= Cardinality(With(x, n)')
    BY <1>1, <2>1, CountMore
  <2>4. ASSUME x = st PROVE Cardinality(With(x, k)) + 1 <= Cardinality(With(x, n)')
    <3>1. i \in With(x, n)' /\ i \notin With(x, k)
      BY <2>4 DEF With
    <3> QED BY <1>1, <2>1, <3>1, CountOne
  <2> QED BY <2>2, <2>3, <2>4
<1>3. /\ b'[w].succeeded <= Cardinality(With("SUCCEEDED", n)')
      /\ b'[w].failed <= Cardinality(With("FAILED", n)')
  BY <1>1, <1>2 DEF Adds
<1> QED BY <1>3 DEF Adds

\* A row that is not finished is added.
LEMMA AddsNone ==
  ASSUME BatchTyped, Kept, NEW w \in Workers, NEW k \in 0..Total, NEW n \in 0..Total, k <= n, Adds(w, k),
         b'[w].succeeded = b[w].succeeded, b'[w].failed = b[w].failed,
         b'[w].succeeded + b'[w].failed + b'[w].pending = n
  PROVE  Adds(w, n)'
<1>1. b[w].succeeded \in Nat /\ b[w].failed \in Nat /\ n \in Nat
  BY DEF BatchTyped, WorkersTyped, Body
<1>2. ASSUME NEW x \in {"SUCCEEDED", "FAILED"}
      PROVE  /\ Cardinality(With(x, k)) \in Nat /\ Cardinality(With(x, n)') \in Nat
             /\ Cardinality(With(x, k)) <= Cardinality(With(x, n)')
  <2>1. With(x, n)' \in SUBSET (1..n) /\ With(x, k) \in SUBSET With(x, n)'
    <3>1. With(x, k) \subseteq With(x, n)
      BY DEF With
    <3> QED BY <3>1, WithMore
  <2> QED BY <1>1, <2>1, CountMore, WithMore
<1> QED BY <1>1, <1>2 DEF Adds

\* The counts of a worker while others step.
LEMMA AddsMeanwhile ==
  ASSUME BatchTyped, CountsAdd, Kept, Undisturbed, NEW v \in Workers,
         pc'[v] = pc[v], idx'[v] = idx[v], b'[v] = b[v]
  PROVE  /\ pc'[v] = "count" => Adds(v, idx[v] - 1)'
         /\ pc'[v] \in Tallied => Adds(v, Total)'
<1>1. Total \in 0..Total /\ (pc[v] = "count" => idx[v] - 1 \in 0..Total)
  BY BatchAssumption DEF BatchTyped, WorkersTyped, Rows
<1>2. ASSUME pc[v] = "count" PROVE Adds(v, idx[v] - 1)'
  <2> DEFINE n == idx[v] - 1
  <2>1. n \in 0..Total /\ Adds(v, n) /\ idx'[v] - 1 = n
    BY <1>1, <1>2 DEF CountsAdd
  <2>2. /\ b'[v].succeeded <= Cardinality(With("SUCCEEDED", n)')
        /\ b'[v].failed <= Cardinality(With("FAILED", n)')
    BY <2>1, AddsKept DEF Adds
  <2> QED BY <2>1, <2>2 DEF Adds, With
<1>3. pc[v] \in Tallied => Adds(v, Total)'
  BY <1>1, AddsKept DEF CountsAdd
<1> QED BY <1>2, <1>3

\* A worker counts a row, or saves it as finished.
LEMMA AddsCounted ==
  ASSUME BatchTyped, BatchTyped', CountsAdd, CopiesCurrent, Kept, Undisturbed, NEW w \in Workers,
         Count(w) \/ SaveResult(w)
  PROVE  /\ pc'[w] = "count" => Adds(w, idx[w] - 1)'
         /\ pc'[w] \in Tallied => Adds(w, Total)'
<1> DEFINE i == idx[w]
<1>0. /\ b[w].succeeded \in Nat /\ b[w].failed \in Nat /\ b[w].pending \in Int /\ b[w] \in Body
      /\ DOMAIN b = Workers /\ DOMAIN idx = Workers /\ DOMAIN row = Rows
  BY DEF BatchTyped, WorkersTyped, RecordsTyped, Body
<1>1. CASE Count(w)
  <2>1. /\ pc[w] = "count" /\ i \in Rows /\ i \in Nat /\ i <= Total /\ i >= 1
        /\ idx'[w] = i + 1 /\ b'[w] = Counted(b[w], Recovered(i).status)
    BY <1>0, <1>1, BatchAssumption DEF Count, BatchTyped, WorkersTyped, Rows
  <2>2. row'[i].status = Recovered(i).status
    BY <1>0, <1>1, <2>1 DEF Count, SaveRow
  <2>3. Adds(w, i - 1)
    BY <2>1 DEF CountsAdd
  <2>4. i - 1 \in 0..Total /\ i \in 0..Total /\ i - 1 <= i /\ i \in 1..i
        /\ \A x \in {"SUCCEEDED", "FAILED"} : i \notin With(x, i - 1)
    BY <2>1, BatchAssumption DEF With
  <2>5. b[w].succeeded + b[w].failed + b[w].pending = i - 1
    BY <2>3 DEF Adds
  <2>6. ASSUME NEW n \in 0..Total, n = i PROVE Adds(w, n)'
    <3>1. CASE Recovered(i).status = "SUCCEEDED"
      <4>1. b'[w].succeeded = b[w].succeeded + 1 /\ b'[w].failed = b[w].failed /\ b'[w].pending = b[w].pending
        BY <1>0, <2>1, <3>1 DEF Counted, Body
      <4>2. b'[w].succeeded + b'[w].failed + b'[w].pending = n
        BY <1>0, <2>1, <2>5, <2>6, <4>1
      <4> QED BY <1>0, <2>2, <2>3, <2>4, <2>6, <3>1, <4>1, <4>2, AddsOne
    <3>2. CASE Recovered(i).status = "FAILED"
      <4>1. b'[w].succeeded = b[w].succeeded /\ b'[w].failed = b[w].failed + 1 /\ b'[w].pending = b[w].pending
        BY <1>0, <2>1, <3>2 DEF Counted, Body
      <4>2. b'[w].succeeded + b'[w].failed + b'[w].pending = n
        BY <1>0, <2>1, <2>5, <2>6, <4>1
      <4> QED BY <1>0, <2>2, <2>3, <2>4, <2>6, <3>2, <4>1, <4>2, AddsOne
    <3>3. CASE Recovered(i).status \notin {"SUCCEEDED", "FAILED"}
      <4>1. b'[w].succeeded = b[w].succeeded /\ b'[w].failed = b[w].failed /\ b'[w].pending = b[w].pending + 1
        BY <1>0, <2>1, <3>3 DEF Counted, Body
      <4>2. b'[w].succeeded + b'[w].failed + b'[w].pending = n
        BY <1>0, <2>1, <2>5, <2>6, <4>1
      <4> QED BY <2>3, <2>4, <2>6, <4>1, <4>2, AddsNone
    <3> QED BY <3>1, <3>2, <3>3
  <2>7. CASE i < Total
    <3>1. pc'[w] = "count" /\ idx'[w] - 1 = i
      BY <1>1, <2>1, <2>7 DEF Count
    <3>2. Adds(w, idx[w] - 1)'
      BY <2>4, <2>6, <3>1 DEF Adds, With
    <3> QED BY <3>1, <3>2 DEF Tallied, AtRow
  <2>8. CASE i = Total
    <3>1. pc'[w] = "template" /\ Adds(w, Total)'
      BY <1>1, <2>4, <2>6, <2>8 DEF Count, Goto, BatchTyped, WorkersTyped
    <3> QED BY <3>1
  <2> QED BY <2>1, <2>7, <2>8, BatchAssumption
<1>2. CASE SaveResult(w)
  <2> DEFINE st == Result(w).status
  <2>1. /\ pc[w] = "result" /\ pc'[w] = "summary" /\ i \in Rows /\ row[i].status = "RUNNING"
        /\ row'[i].status = st /\ st \in {"SUCCEEDED", "FAILED"}
        /\ b'[w] = [Counted(b[w], st) EXCEPT !.pending = @ - 1]
    BY <1>0, <1>2 DEF SaveResult, SaveRow, Goto, Result, CopiesCurrent, AtRow, BatchTyped, WorkersTyped
  <2>2. Adds(w, Total) /\ Total \in 0..Total /\ Total <= Total /\ i \in 1..Total
    BY <2>1, BatchAssumption DEF CountsAdd, Tallied, AtRow, Rows
  <2>3. \A x \in {"SUCCEEDED", "FAILED"} : i \notin With(x, Total)
    BY <2>1 DEF With
  <2>4. /\ b'[w].succeeded = b[w].succeeded + (IF st = "SUCCEEDED" THEN 1 ELSE 0)
        /\ b'[w].failed = b[w].failed + (IF st = "FAILED" THEN 1 ELSE 0)
        /\ b'[w].pending = b[w].pending - 1
    BY <1>0, <2>1 DEF Counted, Body
  <2>5. b'[w].succeeded + b'[w].failed + b'[w].pending = Total
    <3>1. b[w].succeeded + b[w].failed + b[w].pending = Total
      BY <2>2 DEF Adds
    <3> QED BY <1>0, <2>1, <2>4, <3>1
  <2>6. Adds(w, Total)'
    BY <2>1, <2>2, <2>3, <2>4, <2>5, AddsOne
  <2> QED BY <2>1, <2>6
<1> QED BY <1>1, <1>2

\* Steps of a worker after which it has counted, without having counted in the step.
LEMMA CountedBefore ==
  ASSUME BatchTyped, NEW w \in Workers,
         Begin(w) \/ Step(w) \/ Denied(w) \/ EnrollFails(w) \/ Stop(w), ~Count(w), ~SaveResult(w)
  PROVE  /\ pc'[w] \in Tallied => pc[w] \in Tallied /\ b'[w] = b[w]
         /\ pc'[w] = "count" => ResetDone(w)
<1> USE DEF BatchTyped, WorkersTyped, Goto, Tallied, AtRow
<1>1. CASE LeaseLost(w) \/ Outdated(w) \/ Denied(w) \/ TemplateChanged(w) \/ RowTemplateChanged(w) \/ Finish(w) \/ Stop(w)
  <2>1. pc'[w] = "idle"
    BY <1>1 DEF LeaseLost, Outdated, Denied, TemplateChanged, RowTemplateChanged, Finish, Stop, Return
  <2> QED BY <2>1
<1>2. CASE Begin(w) \/ InputDone(w) \/ ResetDone(w)
  BY <1>2 DEF Begin, InputDone, ResetDone
<1>3. CASE MakeRow(w) \/ ResetRow(w) \/ SkipRow(w)
  BY <1>3 DEF MakeRow, ResetRow, SkipRow, local
<1>4. CASE StartRows(w) \/ StartRow(w) \/ SaveSummary(w)
  BY <1>4 DEF StartRows, StartRow, RowTurn, SaveSummary
<1>5. CASE Enroll(w) \/ EnrollRefused(w) \/ EnrollFails(w) \/ ScheduleExpiry(w)
  BY <1>5 DEF Enroll, EnrollRefused, EnrollFails, ScheduleExpiry
<1> QED BY <1>1, <1>2, <1>3, <1>4, <1>5 DEF Step

\* Overruns and retries are counted for good.
LEMMA DisturbanceStays ==
  ASSUME BatchTyped, [Next]_vars
  PROVE  /\ stalls' = 0 => stalls = 0
         /\ retries' = 0 => retries = 0
         /\ Undisturbed' => Undisturbed
<1>0. stalls \in Nat /\ retries \in Nat
  BY DEF BatchTyped, SecretsTyped
<1>1. ASSUME NEW w \in Workers, Begin(w) \/ Step(w) \/ Denied(w) \/ EnrollFails(w) \/ Stop(w)
      PROVE  UNCHANGED <<stalls, retries>>
  BY <1>1 DEF Begin, Step, LeaseLost, Outdated, MakeRow, InputDone, ResetRow, ResetDone, Count, TemplateChanged,
              Differs, StartRows, SkipRow, RowTemplateChanged, StartRow, Enroll, EnrollRefused, ScheduleExpiry, SaveResult,
              SaveSummary, Finish, Denied, EnrollFails, Stop, Fault, limits
<1>2. ASSUME \/ LeaseRunsOut \/ ApplyTemplate \/ VerifyTemplate \/ UNCHANGED vars
             \/ \E c \in Claimers : Deliver(c) \/ \E i \in Rows : ReadRow(c, i)
             \/ \E i \in Rows : WindowEnds(i) \/ ExpireDelivery(i) \/ DeleteDevice(i) \/ ChangeCredential(i)
      PROVE  UNCHANGED <<stalls, retries>>
  BY <1>2 DEF LeaseRunsOut, ApplyTemplate, VerifyTemplate, Deliver, ReadRow, WindowEnds, ExpireDelivery, DeleteDevice, ChangeCredential, Fault, limits, vars
<1>3. CASE LeaseOverrun
  BY <1>0, <1>3 DEF LeaseOverrun, Undisturbed
<1>4. ASSUME NEW S \in SUBSET Rows, RetryBatch(S)
      PROVE  /\ stalls' = 0 => stalls = 0
             /\ retries' = 0 => retries = 0
             /\ Undisturbed' => Undisturbed
  BY <1>0, <1>4 DEF RetryBatch, Undisturbed
<1> QED BY <1>1, <1>2, <1>3, <1>4 DEF Next, Undisturbed

\* Every step keeps the counts, unless a worker is overrun while the owner retries.
LEMMA CountsStep ==
  ASSUME BatchTyped, BatchTyped', CopiesCurrent, Alone, CountsAdd, Next
  PROVE  CountsAdd'
<1>0. SUFFICES ASSUME Undisturbed' PROVE CountsAdd'
  BY DEF CountsAdd
<1>1. Undisturbed
  BY <1>0, DisturbanceStays
<1>2. ASSUME NEW w \in Workers, ResetRow(w) PROVE CountsAdd'
  <2>1. pc[w] = "reset" /\ b[w].retry # {} /\ UNCHANGED <<pc, stalls, retries>>
    BY <1>2 DEF ResetRow, local, limits
  <2>2. stalls = 0
    BY <1>1, <2>1 DEF Undisturbed, Alone
  <2>3. \A v \in Workers : v # w => pc[v] = "idle"
    BY <2>1, <2>2 DEF Alone
  <2> QED BY <2>1, <2>3 DEF CountsAdd, Tallied, AtRow
<1>3. ASSUME \A w \in Workers : ~ResetRow(w) PROVE CountsAdd'
  <2>0. Kept
    BY <1>3, FinishedKept
  <2>1. ASSUME NEW w \in Workers, Begin(w) \/ Step(w) \/ Denied(w) \/ EnrollFails(w) \/ Stop(w) PROVE CountsAdd'
    <3>1. Bystanders(w)
      BY <2>1 DEF Begin, Step, LeaseLost, Outdated, MakeRow, InputDone, ResetRow, ResetDone, Count, TemplateChanged,
                  StartRows, SkipRow, RowTemplateChanged, StartRow, Enroll, EnrollRefused, ScheduleExpiry, SaveResult,
                  SaveSummary, Finish, Denied, EnrollFails, Stop, Return, Goto, Bystanders, local, BatchTyped, WorkersTyped
    <3>2. \A v \in Workers : v # w => /\ pc'[v] = "count" => Adds(v, idx[v] - 1)'
                                      /\ pc'[v] \in Tallied => Adds(v, Total)'
      BY <1>1, <2>0, <3>1, AddsMeanwhile DEF Bystanders
    <3>3. CASE Count(w) \/ SaveResult(w)
      BY <1>1, <2>0, <3>2, <3>3, AddsCounted DEF CountsAdd
    <3>4. CASE ~Count(w) /\ ~SaveResult(w)
      <4>1. pc'[w] \in Tallied => Adds(w, Total)'
        BY <1>1, <2>0, <2>1, <3>4, CountedBefore, AddsKept, BatchAssumption DEF CountsAdd
      <4>2. ASSUME pc'[w] = "count" PROVE Adds(w, idx[w] - 1)'
        <5>1. ResetDone(w)
          BY <2>1, <3>4, <4>2, CountedBefore
        <5>2. /\ idx'[w] - 1 = 0 /\ b'[w].succeeded = 0 /\ b'[w].failed = 0 /\ b'[w].pending = 0
          BY <5>1 DEF ResetDone, Empty, BatchTyped, WorkersTyped
        <5>3. 0 \in 0..Total
          BY BatchAssumption
        <5>4. Cardinality(With("SUCCEEDED", 0)') \in Nat /\ Cardinality(With("FAILED", 0)') \in Nat
          BY <2>0, <5>3, WithMore
        <5> QED BY <5>2, <5>4 DEF Adds, With
      <4> QED BY <3>2, <4>1, <4>2 DEF CountsAdd
    <3> QED BY <3>3, <3>4
  <2>2. ASSUME UNCHANGED <<pc, idx, b>> PROVE CountsAdd'
    BY <1>1, <2>0, <2>2, AddsMeanwhile DEF CountsAdd
  <2>3. CASE \/ LeaseRunsOut \/ LeaseOverrun \/ ApplyTemplate \/ VerifyTemplate
             \/ \E S \in SUBSET Rows : RetryBatch(S)
             \/ \E c \in Claimers : Deliver(c) \/ \E i \in Rows : ReadRow(c, i)
             \/ \E i \in Rows : WindowEnds(i) \/ ExpireDelivery(i) \/ DeleteDevice(i) \/ ChangeCredential(i)
    BY <2>2, <2>3 DEF LeaseRunsOut, LeaseOverrun, ApplyTemplate, VerifyTemplate, RetryBatch, Deliver, ReadRow, WindowEnds,
                      ExpireDelivery, DeleteDevice, ChangeCredential, local
  <2> QED BY <2>1, <2>3 DEF Next
<1> QED BY <1>2, <1>3

\* A worker that has counted all rows as finished is right.
LEMMA CountsSettle ==
  ASSUME BatchTyped, CountsAdd, Undisturbed, NEW w \in Workers, pc[w] \in Tallied, b[w].pending = 0
  PROVE  /\ \A i \in Rows : Finished(i)
         /\ b[w].succeeded = Cardinality({i \in Rows : row[i].status = "SUCCEEDED"})
         /\ b[w].failed = Cardinality({i \in Rows : row[i].status = "FAILED"})
<1> DEFINE S == {i \in Rows : row[i].status = "SUCCEEDED"}
           F == {i \in Rows : row[i].status = "FAILED"}
<1>1. b[w].succeeded \in Nat /\ b[w].failed \in Nat /\ Total \in Nat /\ Rows = 1..Total
  BY BatchAssumption DEF BatchTyped, WorkersTyped, Body, Rows
<1>2. With("SUCCEEDED", Total) = S /\ With("FAILED", Total) = F
  BY DEF With, Rows
<1>3. Adds(w, Total)
  BY DEF CountsAdd
<1>4. S \in SUBSET (1..Total) /\ F \in SUBSET (1..Total) /\ S \cap F = {}
  BY <1>1
<1> DEFINE k == b[w].succeeded
           l == b[w].failed
<1>a. k \in Nat /\ l \in Nat /\ k + l = Total /\ k <= Cardinality(S) /\ l <= Cardinality(F)
  <2>1. k + l + 0 = Total
    BY <1>3 DEF Adds
  <2>2. k <= Cardinality(S) /\ l <= Cardinality(F)
    BY <1>2, <1>3 DEF Adds
  <2> QED BY <1>1, <2>1, <2>2
<1> HIDE DEF S, F, k, l
<1>b. S \cup F = 1..Total /\ k = Cardinality(S) /\ l = Cardinality(F)
  <2>1. \A x, y \in Nat : x <= Cardinality(S) /\ y <= Cardinality(F) /\ x + y = Total
           => S \cup F = 1..Total /\ x = Cardinality(S) /\ y = Cardinality(F)
    BY <1>1, <1>4, CountAll
  <2> QED BY <1>a, <2>1
<1>5. S \cup F = 1..Total /\ b[w].succeeded = Cardinality(S) /\ b[w].failed = Cardinality(F)
  BY <1>b DEF k, l
<1>6. \A i \in Rows : Finished(i)
  BY <1>1, <1>5 DEF S, F, Finished
<1> QED BY <1>5, <1>6 DEF S, F

\* A settled batch stays in step with its rows.
LEMMA SettledStep ==
  ASSUME BatchTyped, BatchTyped', CopiesCurrent, Alone, CountsAdd, SettledUnlessOverrun, Next
  PROVE  SettledUnlessOverrun'
<1>0. SUFFICES ASSUME Undisturbed', batch'.status \in {"COMPLETED", "PARTIAL_FAILED"} PROVE SettledMatchesRows'
  BY DEF SettledUnlessOverrun, SettledMatchesRows, Undisturbed
<1>1. Undisturbed
  BY <1>0, DisturbanceStays
<1>2. CASE UNCHANGED batch
  <2>1. /\ \A i \in Rows : Finished(i)
        /\ batch.body.succeeded = Cardinality({i \in Rows : row[i].status = "SUCCEEDED"})
        /\ batch.body.failed = Cardinality({i \in Rows : row[i].status = "FAILED"})
    BY <1>0, <1>1, <1>2 DEF SettledUnlessOverrun, SettledMatchesRows, Undisturbed
  <2>2. \A w \in Workers : ~ResetRow(w)
    <3> SUFFICES ASSUME NEW w \in Workers, ResetRow(w) PROVE FALSE
      OBVIOUS
    <3>1. pc[w] = "reset" /\ b[w].retry # {}
      BY DEF ResetRow
    <3>2. retries # 0
      BY <3>1 DEF Alone
    <3>3. stalls # 0
      BY <1>0, <1>2, <3>1 DEF Alone, Waiting
    <3> QED BY <1>1, <3>2, <3>3 DEF Undisturbed
  <2>3. \A i \in Rows : row'[i].status = row[i].status
    BY <2>1, <2>2, FinishedKept DEF Kept
  <2>4. /\ {i \in Rows : row'[i].status = "SUCCEEDED"} = {i \in Rows : row[i].status = "SUCCEEDED"}
        /\ {i \in Rows : row'[i].status = "FAILED"} = {i \in Rows : row[i].status = "FAILED"}
    BY <2>3
  <2> QED BY <1>2, <2>1, <2>3, <2>4 DEF SettledMatchesRows, Finished
<1>3. ASSUME NEW w \in Workers, TemplateChanged(w) \/ Finish(w), b[w].pending = 0, batch'.body = Inactive(b[w])
      PROVE  SettledMatchesRows'
  <2>1. pc[w] \in Tallied /\ UNCHANGED row
    BY <1>3 DEF TemplateChanged, Finish, Tallied
  <2>2. batch'.body.succeeded = b[w].succeeded /\ batch'.body.failed = b[w].failed
    BY <1>3 DEF Inactive, BatchTyped, WorkersTyped, Body
  <2> QED BY <1>1, <1>3, <2>1, <2>2, CountsSettle DEF SettledMatchesRows, Finished
<1>4. ASSUME NEW w \in Workers, TemplateChanged(w) \/ Finish(w) PROVE SettledMatchesRows'
  BY <1>0, <1>3, <1>4 DEF TemplateChanged, Finish, SaveBatch
<1>5. ASSUME NEW w \in Workers, StartRows(w) \/ RowTemplateChanged(w) \/ SaveSummary(w) \/ Denied(w) PROVE FALSE
  BY <1>0, <1>5 DEF StartRows, RowTemplateChanged, SaveSummary, Denied, SaveBatch
<1>6. ASSUME NEW S \in SUBSET Rows, RetryBatch(S) PROVE FALSE
  BY <1>0, <1>6 DEF RetryBatch
<1>7. ASSUME NEW w \in Workers,
             \/ Begin(w) \/ LeaseLost(w) \/ Outdated(w) \/ MakeRow(w) \/ InputDone(w) \/ ResetRow(w) \/ ResetDone(w)
             \/ Count(w) \/ SkipRow(w) \/ StartRow(w) \/ Enroll(w) \/ EnrollRefused(w) \/ EnrollFails(w)
             \/ ScheduleExpiry(w) \/ SaveResult(w) \/ Stop(w)
      PROVE  UNCHANGED batch
  BY <1>7 DEF Begin, LeaseLost, Outdated, MakeRow, InputDone, ResetRow, ResetDone, Count, SkipRow, StartRow, Enroll,
              EnrollRefused, EnrollFails, ScheduleExpiry, SaveResult, Stop, records
<1>8. ASSUME \/ LeaseRunsOut \/ LeaseOverrun \/ ApplyTemplate \/ VerifyTemplate
             \/ \E c \in Claimers : Deliver(c) \/ \E i \in Rows : ReadRow(c, i)
             \/ \E i \in Rows : WindowEnds(i) \/ ExpireDelivery(i) \/ DeleteDevice(i) \/ ChangeCredential(i)
      PROVE  UNCHANGED batch
  BY <1>8 DEF LeaseRunsOut, LeaseOverrun, ApplyTemplate, VerifyTemplate, Deliver, ReadRow, WindowEnds, ExpireDelivery,
              DeleteDevice, ChangeCredential, records
<1> QED BY <1>2, <1>4, <1>5, <1>6, <1>7, <1>8 DEF Next, Step

\* A worker's step keeps the secrets those of the latest registrations: no other worker is
\* at work, and the row whose device it registers has no secret.
LEMMA LatestWorks ==
  ASSUME BatchTyped, BatchTyped', SecretInv, SecretInv', Alone, Latest, stalls = 0, NEW w \in Workers,
         Begin(w) \/ Step(w) \/ Denied(w) \/ EnrollFails(w) \/ Stop(w)
  PROVE  Latest'
<1>0. ResultInHand /\ ResultInHand' /\ RowsTell /\ \A i \in Rows : row[i] \in RowRow
  BY DEF SecretInv, BatchTyped, RecordsTyped
<1>1. CASE PlainStep(w)
  <2>1. NoResult(w) /\ UNCHANGED row
    BY <1>0, <1>1, PlainHasNoResult
  <2>2. \A v \in Workers : pc'[v] \in AtRow => pc[v] \in AtRow /\ idx'[v] = idx[v]
    BY <1>1, <2>1, PlainAtRow DEF NoResult, Bystanders
  <2>3. \A v \in Workers : res'[v].secret # 0 => res'[v] = res[v] /\ idx'[v] = idx[v]
    BY <2>1 DEF NoResult, Bystanders, NoRes
  <2> QED BY <2>1, <2>2, <2>3 DEF Latest, NoResult
<1>2. ASSUME ~PlainStep(w) PROVE pc[w] # "idle"
  BY <1>2 DEF Step, PlainStep, EnrollFails, MakeRow, ResetRow, Count, StartRow, RowTurn, Enroll, ScheduleExpiry,
              SaveResult
<1>3. \A v \in Workers : v # w => pc[v] = "idle" \/ pc[w] = "idle"
  BY DEF Alone
<1>4. ASSUME Bystanders(w), ~PlainStep(w), NEW v \in Workers, v # w
      PROVE  pc'[v] \notin AtRow /\ res'[v].secret = 0
  <2>1. pc'[v] = "idle"
    BY <1>2, <1>3, <1>4 DEF Bystanders
  <2> QED BY <1>0, <2>1 DEF AtRow, ResultInHand, NoRes
<1>5. ASSUME SavingStep(w), ~PlainStep(w) PROVE Latest'
  <2>1. NoResult(w)
    BY <1>0, <1>5, SavingHasNoResult
  <2>2. \A v \in Workers : res'[v].secret = 0
    BY <1>4, <1>5, <2>1 DEF NoResult, NoRes
  <2>3. CASE UNCHANGED row /\ pc'[w] \notin AtRow
    BY <1>4, <1>5, <2>1, <2>2, <2>3 DEF Latest, NoResult
  <2>4. ASSUME NEW i \in Rows, NEW r \in RowRow, SaveRow(w, i, r), r.delivery = row[i].delivery,
               pc'[w] \in AtRow => r.status = "RUNNING" /\ idx'[w] = i
        PROVE  Latest'
    <3>1. \A j \in Rows : row'[j] = IF j = i THEN r ELSE row[j]
      BY <2>4 DEF SaveRow, BatchTyped, RecordsTyped
    <3>2. \A j \in Rows : row'[j].delivery = row[j].delivery
      BY <2>4, <3>1
    <3>3. \A v \in Workers : pc'[v] \in AtRow => row'[idx'[v]].status = "RUNNING"
      BY <1>4, <1>5, <2>1, <2>4, <3>1 DEF NoResult
    <3> QED BY <2>1, <2>2, <3>2, <3>3 DEF Latest, NoResult
  <2> QED BY <1>0, <1>5, <2>3, <2>4, SavingSaves
<1>6. ASSUME Enroll(w) \/ EnrollFails(w), ~PlainStep(w) PROVE Latest'
  <2>1. /\ pc[w] = "enroll" /\ idx[w] \in Rows /\ Bystanders(w) /\ UNCHANGED <<row, idx>> /\ res[w] = NoRes
        /\ (device[idx[w]] = 0 /\ Register(idx[w])) \/ UNCHANGED created
    BY <1>0, <1>6 DEF Enroll, EnrollFails, Goto, Bystanders, records, devices, BatchTyped, WorkersTyped, AtRow,
                      ResultInHand
  <2>2. row[idx[w]].status = "RUNNING" /\ row[idx[w]].delivery = 0
    BY <1>0, <2>1 DEF Latest, AtRow, RowsTell, RowTells
  <2>3. \A j \in Rows : j # idx[w] => created'[j] = created[j]
    BY <2>1 DEF Register, BatchTyped, SecretsTyped
  <2>4. res'[w].secret # 0 => res'[w].secret = created'[idx[w]]
    BY <1>6, <2>1 DEF Enroll, EnrollFails, NoRes, BatchTyped, WorkersTyped
  <2>5. \A v \in Workers : pc'[v] \in AtRow => row'[idx'[v]].status = "RUNNING"
    BY <1>4, <1>6, <2>1, <2>2
  <2>6. \A v \in Workers : res'[v].secret # 0 => created'[idx'[v]] = res'[v].secret
    BY <1>4, <1>6, <2>1, <2>4
  <2>7. \A j \in Rows : row'[j].delivery # 0 => created'[j] = row'[j].delivery
    BY <2>1, <2>2, <2>3 DEF Latest
  <2> QED BY <2>5, <2>6, <2>7 DEF Latest
<1>7. CASE ScheduleExpiry(w)
  <2>1. /\ UNCHANGED <<row, idx, res, created>> /\ pc[w] \in AtRow
        /\ \A v \in Workers : v # w => pc'[v] = pc[v]
    BY <1>7 DEF ScheduleExpiry, Goto, records, devices, AtRow, BatchTyped, WorkersTyped
  <2> QED BY <2>1 DEF Latest
<1>8. ASSUME SaveResult(w), ~PlainStep(w) PROVE Latest'
  <2>1. /\ idx[w] \in Rows /\ Bystanders(w) /\ pc'[w] \notin AtRow /\ res'[w] = NoRes /\ UNCHANGED <<idx, created>>
        /\ SaveRow(w, idx[w], Result(w))
    BY <1>8 DEF SaveResult, Goto, Bystanders, devices, AtRow, BatchTyped, WorkersTyped
  <2>2. \A j \in Rows : row'[j] = IF j = idx[w] THEN Result(w) ELSE row[j]
    BY <2>1 DEF SaveRow, BatchTyped, RecordsTyped
  <2>3. Result(w).delivery = res[w].secret
    BY DEF Result
  <2>4. \A j \in Rows : row'[j].delivery # 0 => created'[j] = row'[j].delivery
    BY <2>1, <2>2, <2>3 DEF Latest
  <2>5. \A v \in Workers : pc'[v] \notin AtRow /\ res'[v].secret = 0
    BY <1>4, <1>8, <2>1 DEF NoRes
  <2> QED BY <2>4, <2>5 DEF Latest
<1> QED BY <1>1, <1>5, <1>6, <1>7, <1>8 DEF Step, PlainStep, SavingStep

\* Every step does.
LEMMA LatestStep ==
  ASSUME BatchTyped, BatchTyped', SecretInv, SecretInv', Alone, Latest, [Next]_vars
  PROVE  Latest'
<1> SUFFICES ASSUME stalls' = 0 PROVE Latest'
  BY DEF Latest
<1>0. stalls = 0
  BY DisturbanceStays
<1>1. ASSUME NEW w \in Workers, Begin(w) \/ Step(w) \/ Denied(w) \/ EnrollFails(w) \/ Stop(w) PROVE Latest'
  BY <1>0, <1>1, LatestWorks
<1>2. ASSUME UNCHANGED <<row, pc, idx, res, created>> PROVE Latest'
  BY <1>0, <1>2 DEF Latest
<1>3. CASE LeaseRunsOut \/ LeaseOverrun \/ ApplyTemplate \/ VerifyTemplate \/ UNCHANGED vars
  BY <1>2, <1>3 DEF LeaseRunsOut, LeaseOverrun, ApplyTemplate, VerifyTemplate, vars, records, local, devices
<1>4. ASSUME NEW S \in SUBSET Rows, RetryBatch(S) PROVE Latest'
  BY <1>2, <1>4 DEF RetryBatch, local, devices
<1>5. ASSUME NEW i \in Rows, WindowEnds(i) \/ DeleteDevice(i) \/ ChangeCredential(i) PROVE Latest'
  BY <1>2, <1>5 DEF WindowEnds, DeleteDevice, ChangeCredential, records, local, devices
<1>6. ASSUME NEW c \in Claimers, NEW i \in Rows, ReadRow(c, i) PROVE Latest'
  BY <1>2, <1>6 DEF ReadRow, local, devices
<1>7. ASSUME NEW a, NEW i \in Rows, NEW x, SaveRow(a, i, [row[i] EXCEPT !.delivery = 0, !.credential = x]),
             UNCHANGED <<pc, idx, res, created>>
      PROVE  Latest'
  <2>1. /\ row[i] \in RowRow
        /\ \A j \in Rows : row'[j] = IF j = i THEN [row[i] EXCEPT !.delivery = 0, !.credential = x] ELSE row[j]
    BY <1>7 DEF SaveRow, BatchTyped, RecordsTyped
  <2>2. \A j \in Rows : row'[j].status = row[j].status /\ row'[j].delivery \in {0, row[j].delivery}
    BY <2>1 DEF RowRow
  <2>3. \A v \in Workers : pc[v] \in AtRow => idx[v] \in Rows
    BY DEF BatchTyped, WorkersTyped, AtRow
  <2> QED BY <1>0, <1>7, <2>2, <2>3 DEF Latest
<1>8. ASSUME NEW i \in Rows, ExpireDelivery(i) PROVE Latest'
  BY <1>2, <1>7, <1>8 DEF ExpireDelivery, local, devices
<1>9. ASSUME NEW c \in Claimers, Deliver(c) PROVE Latest'
  <2>1. opened[c].row \in Rows
    BY <1>9 DEF Deliver, BatchTyped, SecretsTyped
  <2> QED BY <1>2, <1>7, <1>9, <2>1 DEF Deliver, local, devices
<1> QED BY <1>1, <1>3, <1>4, <1>5, <1>6, <1>8, <1>9 DEF Next

\* Everything that is known about batches holds at all times.
LEMMA BatchHolds == Spec => []BatchInv
<1>1. Init => BatchInv
  <2> SUFFICES ASSUME Init PROVE BatchInv
    OBVIOUS
  <2>1. BatchTyped /\ SecretInv /\ CopiesCurrent
    BY BatchStart DEF SecretInv
  <2>2. Alone
    <3>1. [Empty EXCEPT !.input = TRUE, !.pending = Total].retry = {} /\ Empty.retry = {}
      BY DEF Empty
    <3> QED BY <3>1 DEF Init, Alone
  <2>3. Latest
    BY DEF Init, Latest, NoRes, AtRow
  <2>4. CountsAdd /\ SettledUnlessOverrun
    BY DEF Init, CountsAdd, SettledUnlessOverrun, SettledMatchesRows, Tallied, AtRow
  <2> QED BY <2>1, <2>2, <2>3, <2>4 DEF BatchInv, CountInv
<1>2. BatchInv /\ [Next]_vars => BatchInv'
  <2> SUFFICES ASSUME BatchInv, [Next]_vars PROVE BatchInv'
    OBVIOUS
  <2>1. BatchTyped /\ SecretInv /\ CopiesCurrent /\ ResultInHand /\ Alone /\ CountsAdd /\ SettledUnlessOverrun
        /\ Latest
    BY DEF BatchInv, CountInv, SecretInv
  <2>2. BatchTyped' /\ SecretInv' /\ CopiesCurrent' /\ Alone' /\ Latest'
    BY <2>1, TypedStep, SecretStep, AloneStep, LatestStep DEF SecretInv
  <2>3. CASE Next
    BY <2>1, <2>2, <2>3, CountsStep, SettledStep DEF BatchInv, CountInv
  <2>4. CASE UNCHANGED vars
    <3>1. CountsAdd' /\ SettledUnlessOverrun'
      BY <2>1, <2>4 DEF vars, records, local, limits, CountsAdd, Undisturbed, Adds, With, SettledUnlessOverrun,
                        SettledMatchesRows, Finished
    <3> QED BY <2>2, <3>1 DEF BatchInv, CountInv
  <2> QED BY <2>3, <2>4
<1> QED BY <1>1, <1>2, PTL DEF Spec

\* A batch that RunBatch reports as settled has no row left and the counts of its rows,
\* whatever failures, exits and retries it went through, and whatever overruns as long
\* as the owner retries nothing.
THEOREM SettledCountsRows == Spec => []SettledUnlessOverrun
<1>1. BatchInv => SettledUnlessOverrun
  BY DEF BatchInv, CountInv
<1> QED BY <1>1, BatchHolds, PTL

\* A registered row is never without an account of its secret, whatever exits fell between
\* registration, sealing and the row's save (recoverCommittedBatchRow).  The secret that is
\* sealed in it is that of the latest registration, which is the device's unless the device
\* was deleted (DeleteDevice) or its secret replaced (ChangeCredential).
THEOREM SecretIsAccounted == Spec => []SecretAccounted
<1>1. ASSUME BatchInv PROVE SecretAccounted
  <2> SUFFICES ASSUME NEW i \in Platform, row[i].status = "SUCCEEDED"
               PROVE  /\ row[i].credential # "NONE"
                      /\ row[i].credential = "AVAILABLE" <=> row[i].delivery # 0
                      /\ row[i].credential = "AVAILABLE" /\ (stalls = 0 \/ deletes = 0) =>
                             device[i] \in {row[i].delivery, 0, Replaced}
    BY DEF SecretAccounted
  <2>1. i \in Rows
    BY BatchAssumption
  <2>2. RowTells(i, row[i])
    BY <1>1, <2>1 DEF BatchInv, SecretInv, RowsTell
  <2>3. /\ row[i].delivery \in Nat /\ created[i] \in Nat /\ row[i].delivery <= created[i]
        /\ created[i] <= deletes + 1 /\ device[i] \in {0, created[i], Replaced}
    BY <1>1, <2>1, SecretNumbers DEF BatchInv, SecretInv, Numbered
  <2>4. row[i].delivery # 0 /\ (stalls = 0 \/ deletes = 0) => created[i] = row[i].delivery
    BY <1>1, <2>1, <2>3 DEF BatchInv, Latest
  <2> QED BY <2>2, <2>3, <2>4 DEF RowTells
<1> QED BY <1>1, BatchHolds, PTL

----------------------------------------------------------------------------
(* Replays.  Module Replay is instantiated with its own constants and          *)
(* variables; pc, faults and MaxFaults are here those of replays.  What        *)
(* its ReplayAssumption says of the constants is a hypothesis of the theorems.  *)

CONSTANTS Tenant, MaxTotal, PageSize, Archived, MaxArrivals, MaxExpired, MaxPauses
VARIABLES silent, cancelled, offset, page, size, result, stale, paused, pauses

Replays == INSTANCE Replay

ReplayTyped ==
    /\ lo \in Int /\ hi \in Int
    /\ state \in [Requests -> {"NONE", "PENDING", "RUNNING", "COMPLETED", "FAILED", "CANCELLED", "INTERRUPTED"}]
    /\ pc \in [Requests -> {"idle", "run", "list", "page", "read", "wait", "end"}]
    /\ offset \in [Requests -> Nat] /\ size \in [Requests -> Nat]
    /\ page \in [Requests -> SUBSET Int] /\ old \in [Requests -> SUBSET Int] /\ DOMAIN done = Requests
    /\ result \in [Requests -> {"NONE", "COMPLETED", "FAILED", "CANCELLED"}]
    /\ \A r \in Requests : \A m \in old[r] : m <= hi

\* What a replay has to take.
Due(r) == old[r] \cap lo..hi

\* What its runner has taken, or has left of the page in hand, by the steps it goes through:
\* offsets count from the newest message, so that arrivals only make pages overlap.
Covers(r) ==
    /\ state[r] = "NONE" => pc[r] = "idle"
    /\ pc[r] \in {"idle", "run"} => offset[r] = 0
    /\ pc[r] = "list" => \A m \in Due(r) : m > hi - offset[r] => m \in done[r]
    /\ pc[r] \in {"page", "read", "wait"} =>
           /\ \A m \in Due(r) : m > hi - offset[r] - size[r] => m \in done[r] \cup page[r]
           /\ size[r] < PageSize => Due(r) \subseteq done[r] \cup page[r]
    /\ pc[r] = "end" => result[r] # "NONE"
    /\ pc[r] = "end" /\ result[r] = "COMPLETED" => Due(r) \subseteq done[r]
    /\ state[r] = "COMPLETED" => Due(r) \subseteq done[r]

ReplayInv == ReplayTyped /\ \A r \in Requests : Covers(r)

\* Replays count as batches do.
LEMMA SameCardinality ==
  ASSUME NEW S
  PROVE  Replays!Cardinality(S) = Cardinality(S)
BY DEF Replays!Cardinality, Cardinality, Replays!IsFiniteSet, IsFiniteSet

\* What a page holds: all that is left, when it is not full.
LEMMA PageHolds ==
  ASSUME PageSize \in Nat \ {0}, lo \in Int, hi \in Int, NEW n \in Nat
  PROVE  /\ Replays!PageAt(n) \in SUBSET Int /\ Cardinality(Replays!PageAt(n)) \in Nat
         /\ Cardinality(Replays!PageAt(n)) <= PageSize
         /\ \A m \in lo..hi : m <= hi - n /\ m > hi - n - PageSize => m \in Replays!PageAt(n)
         /\ Cardinality(Replays!PageAt(n)) < PageSize => \A m \in lo..hi : m <= hi - n => m \in Replays!PageAt(n)
         /\ Replays!PageAt(n) = {} => \A m \in lo..hi : m > hi - n
<1> DEFINE P == Replays!PageAt(n)
           a == hi - n - PageSize + 1
           z == hi - n
<1>1. P \in SUBSET Int /\ P \subseteq a..z /\ \A m \in lo..hi : m <= hi - n /\ m > hi - n - PageSize => m \in P
  BY DEF Replays!PageAt
<1>2. IsFiniteSet(a..z) /\ Cardinality(a..z) = PageSize
  <2>1. a \in Int /\ z \in Int /\ ~(a > z) /\ z - a + 1 = PageSize
    OBVIOUS
  <2> HIDE DEF a, z
  <2> QED BY <2>1, FS_Interval
<1>3. IsFiniteSet(P) /\ Cardinality(P) \in Nat /\ Cardinality(P) <= PageSize
  BY <1>1, <1>2, FS_Subset, FS_CardinalityType
<1>4. ASSUME Cardinality(P) < PageSize, NEW m \in lo..hi, m <= hi - n PROVE m \in P
  <2>1. CASE lo <= a
    <3>1. P = a..z
      BY <2>1 DEF Replays!PageAt
    <3> QED BY <1>2, <1>4, <3>1
  <2>2. CASE lo > a
    BY <1>1, <1>4, <2>2
  <2> QED BY <2>1, <2>2
<1>5. ASSUME P = {}, NEW m \in lo..hi PROVE m > hi - n
  <2>1. SUFFICES ASSUME m <= hi - n PROVE FALSE
    BY <1>5
  <2>2. hi - n \in lo..hi
    BY <2>1
  <2>3. hi - n <= hi - n /\ hi - n > hi - n - PageSize
    OBVIOUS
  <2>4. hi - n \in P
    BY <1>1, <2>2, <2>3
  <2> QED BY <1>5, <2>4
<1> QED BY <1>1, <1>3, <1>4, <1>5

\* A request another request's step leaves alone, while the archive may move on.
Aside(r) ==
    /\ state'[r] = state[r] \/ state'[r] \in {"RUNNING", "INTERRUPTED"}
    /\ pc'[r] = pc[r] /\ offset'[r] = offset[r] /\ page'[r] = page[r] /\ size'[r] = size[r]
    /\ result'[r] = result[r] /\ done'[r] = done[r] /\ old'[r] = old[r]

\* What is due becomes no more.
LEMMA DueShrinks ==
  ASSUME ReplayTyped, ReplayTyped', NEW r \in Requests, old'[r] = old[r], lo' >= lo, hi' >= hi
  PROVE  Due(r)' \subseteq Due(r)
<1> SUFFICES ASSUME NEW m \in Due(r)' PROVE m \in Due(r)
  OBVIOUS
<1>1. m \in old[r] /\ m \in lo'..hi'
  BY DEF Due
<1>2. m \in Int /\ m <= hi /\ m >= lo
  BY <1>1 DEF ReplayTyped
<1> QED BY <1>1, <1>2 DEF Due, ReplayTyped

\* Such a request keeps what it has covered.
LEMMA AsideCovers ==
  ASSUME ReplayTyped, ReplayTyped', NEW r \in Requests, Covers(r), Aside(r), lo' >= lo, hi' >= hi
  PROVE  Covers(r)'
<1>0. Due(r)' \subseteq Due(r) /\ hi \in Int /\ hi' \in Int /\ offset[r] \in Nat /\ size[r] \in Nat
  BY DueShrinks DEF Aside, ReplayTyped
<1>1. \A m \in Due(r)' : m \in Int
  BY DEF Due, ReplayTyped
<1>2. /\ state'[r] = "NONE" => pc'[r] = "idle"
      /\ pc'[r] \in {"idle", "run"} => offset'[r] = 0
      /\ pc'[r] = "end" => result'[r] # "NONE"
      /\ pc'[r] = "end" /\ result'[r] = "COMPLETED" => Due(r)' \subseteq done'[r]
      /\ state'[r] = "COMPLETED" => Due(r)' \subseteq done'[r]
  BY <1>0 DEF Covers, Aside
<1>3. pc'[r] = "list" => \A m \in Due(r)' : m > hi' - offset'[r] => m \in done'[r]
  BY <1>0, <1>1 DEF Covers, Aside
<1>4. pc'[r] \in {"page", "read", "wait"} =>
         /\ \A m \in Due(r)' : m > hi' - offset'[r] - size'[r] => m \in done'[r] \cup page'[r]
         /\ size'[r] < PageSize => Due(r)' \subseteq done'[r] \cup page'[r]
  BY <1>0, <1>1 DEF Covers, Aside
<1> QED BY <1>2, <1>3, <1>4 DEF Covers

\* Saving the status of a task touches no other one.
LEMMA UpdateRows ==
  ASSUME ReplayTyped, NEW r \in Requests, NEW st \in {"RUNNING", "NONE", "COMPLETED", "FAILED", "CANCELLED"},
         Replays!Update(r, st) \/ UNCHANGED <<state, silent, faults>>
  PROVE  /\ state' \in [Requests -> {"NONE", "PENDING", "RUNNING", "COMPLETED", "FAILED", "CANCELLED", "INTERRUPTED"}]
         /\ state'[r] \in {state[r], st} /\ \A q \in Requests : q # r => state'[q] = state[q]
BY DEF Replays!Update, Replays!Write, Replays!task, ReplayTyped

\* The parts of a replay keep their types.
LEMMA ReplayTypedStep ==
  ASSUME PageSize \in Nat \ {0}, ReplayTyped, [Replays!Next]_Replays!vars
  PROVE  ReplayTyped'
<1> USE DEF ReplayTyped, Replays!archive, Replays!history, Replays!runner, Replays!task
<1>1. ASSUME NEW r \in Requests, Replays!Start(r) PROVE ReplayTyped'
  BY <1>1 DEF Replays!Start, Replays!Write, Replays!Goto
<1>2. ASSUME NEW r \in Requests, Replays!Cancel(r) \/ Replays!GoesSilent(r) \/ Replays!FindsSilent(r) PROVE ReplayTyped'
  BY <1>2 DEF Replays!Cancel, Replays!GoesSilent, Replays!FindsSilent
<1>3. ASSUME NEW r \in Requests, Replays!ReportsInterrupted(r) PROVE ReplayTyped'
  BY <1>3 DEF Replays!ReportsInterrupted
<1>4. ASSUME NEW r \in Requests, Replays!Run(r) \/ Replays!Message(r) PROVE ReplayTyped'
  <2>1. state' \in [Requests -> {"NONE", "PENDING", "RUNNING", "COMPLETED", "FAILED", "CANCELLED", "INTERRUPTED"}]
    BY <1>4, UpdateRows DEF Replays!Run, Replays!Message
  <2> QED BY <1>4, <2>1 DEF Replays!Run, Replays!Message, Replays!Goto
<1>5. ASSUME NEW r \in Requests, Replays!List(r) PROVE ReplayTyped'
  <2>1. Replays!PageAt(offset[r]) \in SUBSET Int /\ Cardinality(Replays!PageAt(offset[r])) \in Nat
    BY PageHolds
  <2>2. pc' \in [Requests -> {"idle", "run", "list", "page", "read", "wait", "end"}]
        /\ result' \in [Requests -> {"NONE", "COMPLETED", "FAILED", "CANCELLED"}]
    BY <1>5 DEF Replays!List, Replays!End, Replays!Goto
  <2>3. page' \in [Requests -> SUBSET Int] /\ size' \in [Requests -> Nat]
    <3> DEFINE P == Replays!PageAt(offset[r])
               c == Cardinality(P)
    <3>1. page' = [page EXCEPT ![r] = P] /\ size' = [size EXCEPT ![r] = c] /\ P \in SUBSET Int /\ c \in Nat
      BY <1>5, <2>1, SameCardinality DEF Replays!List
    <3> HIDE DEF P, c
    <3> QED BY <3>1
  <2>4. UNCHANGED <<lo, hi, state, offset, done, old>>
    BY <1>5 DEF Replays!List
  <2> QED BY <2>2, <2>3, <2>4
<1>6. ASSUME NEW r \in Requests, Replays!ListFails(r) \/ Replays!Read(r) \/ Replays!Stopped(r) PROVE ReplayTyped'
  BY <1>6 DEF Replays!ListFails, Replays!Read, Replays!Stopped, Replays!End, Replays!Goto
<1>7. ASSUME NEW r \in Requests, Replays!Taken(r) PROVE ReplayTyped'
  BY <1>7 DEF Replays!Taken, Replays!Goto
<1>8. ASSUME NEW r \in Requests, Replays!NextPage(r) PROVE ReplayTyped'
  <2>1. state' \in [Requests -> {"NONE", "PENDING", "RUNNING", "COMPLETED", "FAILED", "CANCELLED", "INTERRUPTED"}]
    BY <1>8, UpdateRows DEF Replays!NextPage
  <2>2. pc' \in [Requests -> {"idle", "run", "list", "page", "read", "wait", "end"}]
        /\ result' \in [Requests -> {"NONE", "COMPLETED", "FAILED", "CANCELLED"}]
    BY <1>8 DEF Replays!NextPage, Replays!End, Replays!Goto
  <2>3. offset' \in [Requests -> Nat] /\ UNCHANGED <<lo, hi, page, size, done, old>>
    BY <1>8 DEF Replays!NextPage
  <2> QED BY <2>1, <2>2, <2>3
<1>9. ASSUME NEW S, Replays!Leave(S), UNCHANGED <<lo, hi, done, old>>,
             state' \in [Requests -> {"NONE", "PENDING", "RUNNING", "COMPLETED", "FAILED", "CANCELLED", "INTERRUPTED"}]
      PROVE  ReplayTyped'
  BY <1>9 DEF Replays!Leave
<1>10. ASSUME NEW r \in Requests, Replays!Finish(r) PROVE ReplayTyped'
  <2>1. state' \in [Requests -> {"NONE", "PENDING", "RUNNING", "COMPLETED", "FAILED", "CANCELLED", "INTERRUPTED"}]
    BY <1>10, UpdateRows DEF Replays!Finish
  <2> QED BY <1>9, <1>10, <2>1 DEF Replays!Finish
<1>11. CASE Replays!Crash
  BY <1>9, <1>11 DEF Replays!Crash
<1>12. CASE Replays!Arrive \/ Replays!Expire
  BY <1>12 DEF Replays!Arrive, Replays!Expire
<1>13. CASE Replays!Pause \/ Replays!Resume \/ UNCHANGED Replays!vars
  BY <1>13 DEF Replays!Pause, Replays!Resume, Replays!vars
<1> QED BY <1>1, <1>2, <1>3, <1>4, <1>5, <1>6, <1>7, <1>8, <1>10, <1>11, <1>12, <1>13
        DEF Replays!Next, Replays!Runs, Replays!Refresh, Replays!Reingest, Replays!ReadFails

\* The runner's steps keep what its replay has covered.
LEMMA RunnerCovers ==
  ASSUME PageSize \in Nat \ {0}, ReplayTyped, ReplayTyped', NEW r \in Requests, Covers(r), Replays!Runs(r)
  PROVE  Covers(r)'
<1> USE DEF Replays!archive, Replays!history, Replays!runner, Replays!task
<1>0. /\ lo \in Int /\ hi \in Int /\ offset[r] \in Nat /\ size[r] \in Nat
      /\ pc[r] \in {"idle", "run", "list", "page", "read", "wait", "end"}
      /\ result[r] \in {"NONE", "COMPLETED", "FAILED", "CANCELLED"}
      /\ \A m \in Due(r) : m \in Int /\ m \in lo..hi
  BY DEF ReplayTyped, Due
<1>1. UNCHANGED <<lo, hi, old>>
  BY DEF Replays!Runs, Replays!Run, Replays!List, Replays!ListFails, Replays!Message, Replays!Read, Replays!Reingest,
         Replays!ReadFails, Replays!Taken, Replays!Stopped, Replays!NextPage, Replays!Finish
<1>2. Due(r)' = Due(r)
  BY <1>1 DEF Due
<1>3. CASE Replays!Run(r)
  <2>1. /\ pc[r] = "run" /\ pc'[r] = "list" /\ offset'[r] = offset[r] /\ done' = done
        /\ state'[r] \in {state[r], "RUNNING"}
    BY <1>3, UpdateRows DEF Replays!Run, Replays!Goto, ReplayTyped
  <2>2. offset'[r] = 0
    BY <2>1 DEF Covers
  <2>3. \A m \in Due(r) : ~(m > hi - 0)
    BY <1>0
  <2> QED BY <1>1, <1>2, <2>1, <2>2, <2>3 DEF Covers
<1>4. CASE Replays!List(r)
  <2> DEFINE n == offset[r]
             P == Replays!PageAt(n)
             c == Cardinality(P)
  <2>1. /\ pc[r] = "list" /\ UNCHANGED <<state, offset, done>> /\ page'[r] = P /\ size'[r] = c
        /\ \/ P = {} /\ pc'[r] = "end" /\ result'[r] = "COMPLETED"
           \/ P # {} /\ pc'[r] = "page"
    BY <1>4, SameCardinality DEF Replays!List, Replays!End, Replays!Goto, ReplayTyped
  <2>2. /\ c \in Nat /\ c <= PageSize
        /\ \A m \in lo..hi : m <= hi - n /\ m > hi - n - PageSize => m \in P
        /\ c < PageSize => \A m \in lo..hi : m <= hi - n => m \in P
        /\ P = {} => \A m \in lo..hi : m > hi - n
    BY <1>0, PageHolds
  <2>3. n \in Nat /\ \A m \in Due(r) : m > hi - n => m \in done[r]
    BY <1>0, <2>1 DEF Covers
  <2> HIDE DEF P, c, n
  <2>4. ASSUME NEW m \in Due(r), m > hi - n - c PROVE m \in done[r] \cup P
    <3>1. CASE m > hi - n
      BY <2>3, <3>1
    <3>2. CASE m <= hi - n
      BY <1>0, <2>2, <2>3, <2>4, <3>2
    <3> QED BY <1>0, <2>3, <3>1, <3>2
  <2>5. ASSUME c < PageSize, NEW m \in Due(r) PROVE m \in done[r] \cup P
    BY <1>0, <2>2, <2>3, <2>5
  <2>6. ASSUME P = {}, NEW m \in Due(r) PROVE m \in done[r]
    BY <1>0, <2>2, <2>3, <2>6
  <2>7. CASE P = {}
    BY <1>2, <2>1, <2>6, <2>7 DEF Covers
  <2>8. CASE P # {}
    <3>1. \A m \in Due(r)' : m > hi' - offset'[r] - size'[r] => m \in done'[r] \cup page'[r]
      BY <1>1, <1>2, <2>1, <2>4 DEF n
    <3>2. size'[r] < PageSize => Due(r)' \subseteq done'[r] \cup page'[r]
      BY <1>2, <2>1, <2>5
    <3> QED BY <1>2, <2>1, <2>8, <3>1, <3>2 DEF Covers
  <2> QED BY <2>7, <2>8
<1>5. CASE Replays!ListFails(r) \/ Replays!Stopped(r)
  <2>1. /\ pc'[r] = "end" /\ result'[r] \in {"FAILED", "CANCELLED"} /\ UNCHANGED <<state, done>> /\ pc[r] # "idle"
    BY <1>5 DEF Replays!ListFails, Replays!Stopped, Replays!End, Replays!Goto, ReplayTyped
  <2> QED BY <1>2, <2>1 DEF Covers
<1>6. CASE Replays!Message(r) \/ Replays!Read(r)
  <2>1. /\ pc[r] \in {"page", "read"} /\ pc'[r] \in {"read", "wait"} /\ UNCHANGED <<offset, page, size, done>>
    BY <1>6 DEF Replays!Message, Replays!Read, Replays!Goto, ReplayTyped
  <2>2. state'[r] \in {state[r], "RUNNING"}
    BY <1>6, UpdateRows DEF Replays!Message, Replays!Read
  <2> QED BY <1>1, <1>2, <2>1, <2>2 DEF Covers
<1>7. CASE Replays!Reingest(r) \/ Replays!ReadFails(r)
  <2>1. /\ pc[r] \in {"read", "wait"} /\ pc'[r] = "page" /\ UNCHANGED <<state, offset, size>>
        /\ done[r] \cup page[r] \subseteq done'[r] \cup page'[r] /\ done[r] \subseteq done'[r]
    BY <1>7 DEF Replays!Reingest, Replays!ReadFails, Replays!Taken, Replays!Goto, ReplayTyped
  <2> QED BY <1>1, <1>2, <2>1 DEF Covers
<1>8. CASE Replays!NextPage(r)
  <2>1. /\ pc[r] = "page" /\ page[r] = {} /\ offset'[r] = offset[r] + size[r] /\ UNCHANGED done
        /\ state'[r] \in {state[r], "RUNNING"}
        /\ \/ size[r] < PageSize /\ pc'[r] = "end" /\ result'[r] = "COMPLETED"
           \/ pc'[r] = "list"
    BY <1>8, UpdateRows DEF Replays!NextPage, Replays!End, Replays!Goto, ReplayTyped
  <2>2. /\ \A m \in Due(r) : m > hi - offset[r] - size[r] => m \in done[r]
        /\ size[r] < PageSize => Due(r) \subseteq done[r]
    BY <2>1 DEF Covers
  <2>3. hi' - offset'[r] = hi - offset[r] - size[r]
    BY <1>0, <1>1, <2>1
  <2> QED BY <1>2, <2>1, <2>2, <2>3 DEF Covers
<1>9. CASE Replays!Finish(r)
  <2>1. /\ pc[r] = "end" /\ pc'[r] = "idle" /\ offset'[r] = 0 /\ UNCHANGED done
        /\ state'[r] \in {state[r], result[r]}
    BY <1>0, <1>9, UpdateRows DEF Replays!Finish, Replays!Leave, ReplayTyped
  <2> QED BY <1>2, <2>1 DEF Covers
<1> QED BY <1>3, <1>4, <1>5, <1>6, <1>7, <1>8, <1>9 DEF Replays!Runs

\* Whose steps leave a request aside.
LEMMA OthersAside ==
  ASSUME ReplayTyped, NEW r \in Requests, Replays!Start(r) \/ Replays!Runs(r), NEW q \in Requests, q # r
  PROVE  Aside(q) /\ UNCHANGED <<lo, hi>>
<1> USE DEF Aside, ReplayTyped, Replays!archive, Replays!history, Replays!runner, Replays!task, Replays!Goto, Replays!End
<1>1. CASE Replays!Start(r)
  BY <1>1 DEF Replays!Start, Replays!Write
<1>2. CASE Replays!Run(r) \/ Replays!Message(r)
  <2>1. state'[q] = state[q]
    BY <1>2, UpdateRows DEF Replays!Run, Replays!Message
  <2> QED BY <1>2, <2>1 DEF Replays!Run, Replays!Message
<1>3. CASE Replays!List(r) \/ Replays!ListFails(r) \/ Replays!Read(r) \/ Replays!Stopped(r)
  BY <1>3 DEF Replays!List, Replays!ListFails, Replays!Read, Replays!Stopped
<1>4. CASE Replays!Reingest(r) \/ Replays!ReadFails(r)
  BY <1>4 DEF Replays!Reingest, Replays!ReadFails, Replays!Taken
<1>5. CASE Replays!NextPage(r)
  <2>1. state'[q] = state[q]
    BY <1>5, UpdateRows DEF Replays!NextPage
  <2> QED BY <1>5, <2>1 DEF Replays!NextPage
<1>6. CASE Replays!Finish(r)
  <2>1. state'[q] = state[q]
    BY <1>6, UpdateRows DEF Replays!Finish
  <2> QED BY <1>6, <2>1 DEF Replays!Finish, Replays!Leave
<1> QED BY <1>1, <1>2, <1>3, <1>4, <1>5, <1>6 DEF Replays!Runs

\* Every step keeps what replays have covered.
LEMMA ReplayStep ==
  ASSUME PageSize \in Nat \ {0}, ReplayInv, [Replays!Next]_Replays!vars
  PROVE  ReplayInv'
<1>0. ReplayTyped /\ ReplayTyped' /\ (\A r \in Requests : Covers(r)) /\ lo \in Int /\ hi \in Int
  BY ReplayTypedStep DEF ReplayInv, ReplayTyped
<1>1. ASSUME lo' >= lo, hi' >= hi, \A q \in Requests : Aside(q) PROVE ReplayInv'
  BY <1>0, <1>1, AsideCovers DEF ReplayInv
<1>2. ASSUME NEW r \in Requests, Replays!Start(r) \/ Replays!Runs(r), Covers(r)' PROVE ReplayInv'
  <2>1. \A q \in Requests : q # r => Aside(q) /\ lo' >= lo /\ hi' >= hi
    BY <1>0, <1>2, OthersAside
  <2>2. \A q \in Requests : q # r => Covers(q)'
    BY <1>0, <2>1, AsideCovers
  <2> QED BY <1>0, <1>2, <2>2 DEF ReplayInv
<1>3. ASSUME NEW r \in Requests, Replays!Runs(r) PROVE ReplayInv'
  BY <1>0, <1>2, <1>3, RunnerCovers
<1>4. ASSUME NEW r \in Requests, Replays!Start(r) PROVE ReplayInv'
  <2>1. /\ state[r] = "NONE" /\ pc'[r] = "run" /\ state'[r] = "PENDING" /\ offset'[r] = offset[r]
    BY <1>0, <1>4 DEF Replays!Start, Replays!Goto, Replays!Write, ReplayTyped
  <2>2. offset[r] = 0
    BY <1>0, <2>1 DEF Covers
  <2>3. Covers(r)'
    BY <2>1, <2>2 DEF Covers
  <2> QED BY <1>2, <1>4, <2>3
<1>5. ASSUME NEW r \in Requests,
             Replays!Cancel(r) \/ Replays!GoesSilent(r) \/ Replays!FindsSilent(r) \/ Replays!ReportsInterrupted(r)
      PROVE  ReplayInv'
  BY <1>0, <1>1, <1>5
     DEF Replays!Cancel, Replays!GoesSilent, Replays!FindsSilent, Replays!ReportsInterrupted, Aside, ReplayTyped,
         Replays!archive, Replays!history, Replays!runner, Replays!task
<1>6. CASE Replays!Crash
  <2>1. UNCHANGED <<lo, hi, state, done, old>> /\ Replays!Leave(Replays!Registered)
    BY <1>6 DEF Replays!Crash, Replays!archive, Replays!history, Replays!task
  <2>2. ASSUME NEW r \in Requests PROVE Covers(r)'
    <3>1. Due(r)' = Due(r) /\ state'[r] = state[r] /\ done'[r] = done[r] /\ Covers(r)
      BY <1>0, <2>1 DEF Due
    <3>2. pc'[r] = "idle" /\ offset'[r] = 0
      BY <1>0, <2>1 DEF Replays!Leave, Replays!Registered, Covers
    <3> QED BY <3>1, <3>2 DEF Covers
  <2> QED BY <1>0, <2>2 DEF ReplayInv
<1>7. CASE Replays!Arrive \/ Replays!Expire \/ Replays!Pause \/ Replays!Resume \/ UNCHANGED Replays!vars
  BY <1>0, <1>1, <1>7
     DEF Replays!Arrive, Replays!Expire, Replays!Pause, Replays!Resume, Aside, Replays!vars,
         Replays!archive, Replays!history, Replays!runner, Replays!task
<1> QED BY <1>3, <1>4, <1>5, <1>6, <1>7 DEF Replays!Next, Replays!Refresh

\* A replay whose task says COMPLETED has taken every message that was archived when it
\* started and still is (runReplay), however the archive moved under its pages, whatever
\* calls failed, and whatever a reader reported in between.
THEOREM ReplayCovers ==
  ASSUME PageSize \in Nat \ {0}, Archived \in Nat
  PROVE  Replays!Spec => []CompletedCovers
<1>1. Replays!Init => ReplayInv
  <2> SUFFICES ASSUME Replays!Init PROVE ReplayInv
    OBVIOUS
  <2>1. ReplayTyped
    BY DEF Replays!Init, ReplayTyped
  <2>2. \A r \in Requests : Covers(r)
    BY DEF Replays!Init, Covers
  <2> QED BY <2>1, <2>2 DEF ReplayInv
<1>2. ReplayInv /\ [Replays!Next]_Replays!vars => ReplayInv'
  BY ReplayStep
<1>3. ReplayInv => CompletedCovers
  BY DEF ReplayInv, Covers, Due, CompletedCovers
<1> QED BY <1>1, <1>2, <1>3, PTL DEF Replays!Spec

\* replayRegistry: replays that run at a time.
Limited ==
    /\ IsFiniteSet(Replays!Registered) /\ Cardinality(Replays!Registered) <= MaxTotal
    /\ \A q, r \in Replays!Registered : Tenant[q] = Tenant[r] => q = r

\* Only StartReplay registers a request.
LEMMA RegisteredStep ==
  ASSUME ReplayTyped, [Replays!Next]_Replays!vars
  PROVE  \/ Replays!Registered' \subseteq Replays!Registered
         \/ \E r \in Requests : Replays!Start(r) /\ Replays!Registered' = Replays!Registered \cup {r}
<1> USE DEF Replays!Registered
<1>1. ASSUME NEW r \in Requests, Replays!Start(r) PROVE Replays!Registered' = Replays!Registered \cup {r}
  BY <1>1 DEF Replays!Start, Replays!Goto, ReplayTyped
<1>2. ASSUME NEW r \in Requests, Replays!Runs(r) PROVE Replays!Registered' \subseteq Replays!Registered
  <2>1. pc[r] # "idle"
    BY <1>2 DEF Replays!Runs, Replays!Run, Replays!List, Replays!ListFails, Replays!Message, Replays!Read,
                Replays!Reingest, Replays!ReadFails, Replays!Stopped, Replays!NextPage, Replays!Finish
  <2>2. \A q \in Requests : q # r => pc'[q] = pc[q]
    BY <1>2, OthersAside DEF Aside
  <2> QED BY <2>1, <2>2
<1>3. ASSUME UNCHANGED pc PROVE Replays!Registered' \subseteq Replays!Registered
  BY <1>3
<1>4. CASE Replays!Crash
  BY <1>4 DEF Replays!Crash, Replays!Leave
<1>5. CASE \/ \E r \in Requests : Replays!Cancel(r) \/ Replays!GoesSilent(r) \/ Replays!Refresh(r)
           \/ Replays!Arrive \/ Replays!Expire \/ Replays!Pause \/ Replays!Resume \/ UNCHANGED Replays!vars
  BY <1>3, <1>5 DEF Replays!Cancel, Replays!GoesSilent, Replays!Refresh, Replays!FindsSilent,
         Replays!ReportsInterrupted, Replays!Arrive, Replays!Expire, Replays!Pause, Replays!Resume, Replays!vars,
         Replays!runner
<1> QED BY <1>1, <1>2, <1>4, <1>5 DEF Replays!Next

\* No tenant has two replays running, and the process no more than its limit, although
\* registered requests end, are cancelled and vanish with their process.
THEOREM ReplaysLimited ==
  ASSUME PageSize \in Nat \ {0}, Archived \in Nat, MaxTotal \in Nat
  PROVE  Replays!Spec => []Limited
<1>1. Replays!Init => ReplayTyped /\ Limited
  <2> SUFFICES ASSUME Replays!Init PROVE ReplayTyped /\ Limited
    OBVIOUS
  <2>1. Replays!Registered = {}
    BY DEF Replays!Init, Replays!Registered
  <2> QED BY <2>1, FS_EmptySet DEF Replays!Init, ReplayTyped, Limited
<1>2. (ReplayTyped /\ Limited) /\ [Replays!Next]_Replays!vars => (ReplayTyped /\ Limited)'
  <2> SUFFICES ASSUME ReplayTyped, Limited, [Replays!Next]_Replays!vars PROVE ReplayTyped' /\ Limited'
    OBVIOUS
  <2> DEFINE R == Replays!Registered
             T == Replays!Registered'
  <2>1. ReplayTyped' /\ IsFiniteSet(R) /\ Cardinality(R) \in Nat
    BY ReplayTypedStep, FS_CardinalityType DEF Limited
  <2>2. ASSUME T \subseteq R PROVE Limited'
    <3>1. IsFiniteSet(T) /\ Cardinality(T) \in Nat /\ Cardinality(T) <= Cardinality(R)
      BY <2>1, <2>2, FS_Subset, FS_CardinalityType
    <3> QED BY <2>1, <2>2, <3>1 DEF Limited
  <2>3. ASSUME NEW r \in Requests, Replays!Start(r), T = R \cup {r} PROVE Limited'
    <3>1. Cardinality(R) < MaxTotal /\ \A q \in R : Tenant[q] # Tenant[r]
      BY <2>3, SameCardinality DEF Replays!Start
    <3>2. IsFiniteSet(T) /\ Cardinality(T) <= Cardinality(R) + 1
      <4> HIDE DEF R, T
      <4>1. IsFiniteSet(R \cup {r}) /\ Cardinality(R \cup {r}) \in {Cardinality(R), Cardinality(R) + 1}
        BY <2>1, FS_AddElement
      <4> QED BY <2>1, <2>3, <4>1
    <3>3. \A p, q \in T : Tenant[p] = Tenant[q] => p = q
      BY <2>3, <3>1 DEF Limited
    <3>4. Cardinality(T) \in Nat
      BY <3>2, FS_CardinalityType
    <3> QED BY <2>1, <3>1, <3>2, <3>3, <3>4 DEF Limited
  <2> QED BY <2>1, <2>2, <2>3, RegisteredStep
<1> QED BY <1>1, <1>2, PTL DEF Replays!Spec
=============================================================================
