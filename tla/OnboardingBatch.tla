-------------------------- MODULE OnboardingBatch --------------------------
(***************************************************************************)
(* Batch registration of devices (onboarding/task_runner.go): the batch and   *)
(* its rows are records that are saved under the revision that was read, a     *)
(* worker runs the batch under an execution lease, registers a row's device,   *)
(* seals its secret into the row for one delivery, and counts.  Beside the    *)
(* workers run the owner, who retries rows and collects secrets, and the       *)
(* erasure of secrets nobody collected.                                     *)
(*                                                                          *)
(* `known` is the set of workers whose copy of the batch record is current,    *)
(* `fresh` the pairs of an actor and a row whose copy it holds is current.     *)
(* The secrets a row's device was registered with are numbered; 0 is no device, *)
(* Replaced a device whose secret was changed or revoked.  A row's device is    *)
(* registered by this batch only.                                           *)
(***************************************************************************)
EXTENDS Naturals, FiniteSets

CONSTANTS
    Total,         \* rows of the batch
    Platform,      \* rows whose devices have a secret of the platform
    Workers,
    Claimers,      \* requests for secrets
    Nobody,
    MaxFaults,     \* bound on failures, exits and withdrawn permissions
    MaxStalls,     \* bound on leases that run out while their worker goes on
    MaxRetries,    \* bound on the owner's retries
    MaxDeletes     \* bound on deletions of devices

Rows == 1..Total

ASSUME BatchAssumption ==
    /\ Total \in Nat \ {0} /\ Platform \subseteq Rows
    /\ Nobody \notin Workers \cup Claimers /\ Workers \cap Claimers = {}
    /\ MaxFaults \in Nat /\ MaxStalls \in Nat /\ MaxRetries \in Nat /\ MaxDeletes \in Nat

VARIABLES
    batch,     \* the batch record
    row,       \* the row records
    known, fresh,
    lease,     \* owner of the execution lease
    template,  \* "ready", "changed" since the batch was created, or as it was then
               \* but "unready": not verified again
    device,    \* secret of the registered device of each row
    created,   \* registrations of each row's device
    expiry,    \* job that erases the row's secret, by the secret it was made for
    past,      \* the last of each row's secrets whose delivery window is over
    handed,    \* how often each secret was handed out
    pc, b, idx, res,   \* of each worker: step, batch in memory, index, result
    opened,    \* row a request has read, the secret in it, whether its device has it
    faults, stalls, retries, deletes

records == <<batch, row, known, fresh>>
local   == <<pc, b, idx, res>>
devices == <<device, created>>
windows == <<expiry, past>>
limits  == <<faults, stalls, retries, deletes>>
vars    == <<records, lease, template, devices, windows, handed, local, opened, limits>>

Secrets == 1..(MaxDeletes + 1)
Replaced == MaxDeletes + 2
Empty   == [input |-> FALSE, retry |-> {}, active |-> {}, succeeded |-> 0, failed |-> 0, pending |-> 0]
NoRes   == [secret |-> 0, ok |-> FALSE]
NoRow   == [row |-> 0, delivery |-> 0, valid |-> FALSE]

Init ==
    /\ batch = [status |-> "INITIALIZING", body |-> [Empty EXCEPT !.input = TRUE, !.pending = Total]]
    /\ row = [i \in Rows |-> [status |-> "none", credential |-> "NONE", delivery |-> 0]]
    /\ known = {} /\ fresh = {}
    /\ lease = Nobody /\ template = "ready"
    /\ device = [i \in Rows |-> 0] /\ created = [i \in Rows |-> 0]
    /\ expiry = [i \in Rows |-> [status |-> "none", secret |-> 0]]
    /\ past = [i \in Rows |-> 0]
    /\ handed = [s \in Rows \X Secrets |-> 0]
    /\ pc = [w \in Workers |-> "idle"]
    /\ b = [w \in Workers |-> Empty]
    /\ idx = [w \in Workers |-> 1]
    /\ res = [w \in Workers |-> NoRes]
    /\ opened = [c \in Claimers |-> NoRow]
    /\ faults = 0 /\ stalls = 0 /\ retries = 0 /\ deletes = 0

Fault == faults < MaxFaults /\ faults' = faults + 1 /\ UNCHANGED <<stalls, retries, deletes>>

Goto(w, l) == pc' = [pc EXCEPT ![w] = l]

(* A row is saved: copies others have of it are out of date.                 *)
SaveRow(a, i, r) ==
    /\ row' = [row EXCEPT ![i] = r]
    /\ fresh' = {f \in fresh : f[2] # i} \cup {<<a, i>>}

(* RunBatch returns: the deferred release gives the lease back if it is still  *)
(* the worker's.                                                            *)
Return(w) ==
    /\ Goto(w, "idle")
    /\ b' = [b EXCEPT ![w] = Empty]
    /\ idx' = [idx EXCEPT ![w] = 1]
    /\ res' = [res EXCEPT ![w] = NoRes]
    /\ lease' = IF lease = w THEN Nobody ELSE lease

(***************************************************************************)
(* The start of RunBatch: lease, batch record, permission.                   *)
(***************************************************************************)
Waiting == batch.status \in {"INITIALIZING", "QUEUED", "RUNNING"}

Begin(w) ==
    /\ pc[w] = "idle" /\ Waiting /\ lease = Nobody
    /\ lease' = w
    /\ known' = known \cup {w}
    /\ b' = [b EXCEPT ![w] = batch.body]
    /\ Goto(w, "input")
    /\ UNCHANGED <<batch, row, fresh, template, devices, windows, handed, idx, res, opened, limits>>

Finished(i) == row[i].status \in {"SUCCEEDED", "FAILED"}
Chosen(w)   == b[w].active # {} => idx[w] \in b[w].active
RowTurn(w)  == pc[w] = "rows" /\ idx[w] <= Total /\ Chosen(w) /\ ~Finished(idx[w])

(* AcquireExecutionLease again: renewed, or taken by another worker.          *)
Renewed(w) == lease \in {w, Nobody} /\ lease' = w

Renews(w) ==
    \/ pc[w] = "input" /\ b[w].input /\ idx[w] = 1
    \/ pc[w] = "count" /\ idx[w] = 1
    \/ pc[w] = "rows" /\ idx[w] <= Total /\ Chosen(w)

LeaseLost(w) ==
    /\ Renews(w) /\ lease \notin {w, Nobody}
    /\ Return(w)
    /\ UNCHANGED <<records, template, devices, windows, handed, opened, limits>>

(* The batch record is saved, or was changed since it was read.              *)
SaveBatch(w, status, body) ==
    /\ w \in known /\ known' = {w}
    /\ batch' = [status |-> status, body |-> body]

Outdated(w) ==
    /\ \/ pc[w] \in {"template", "summary"} /\ w \notin known
       \/ pc[w] = "rows" /\ idx[w] > Total /\ w \notin known
       \/ RowTurn(w) /\ lease \in {w, Nobody} /\ template = "changed" /\ w \notin known
       \/ pc[w] = "result" /\ <<w, idx[w]>> \notin fresh
    /\ Return(w)
    /\ UNCHANGED <<records, template, devices, windows, handed, opened, limits>>

(* The owner's session, account or scope is no longer what it was.            *)
Denied(w) ==
    /\ \/ pc[w] = "input" /\ idx[w] = 1
       \/ RowTurn(w) /\ lease \in {w, Nobody}
    /\ Fault
    /\ SaveBatch(w, "PAUSED", b[w])
    /\ Return(w)
    /\ UNCHANGED <<row, fresh, template, devices, windows, handed, opened>>

(***************************************************************************)
(* Rows are made from the input, failed rows reset, all rows counted.         *)
(***************************************************************************)
MakeRow(w) ==
    LET i == idx[w] IN
    /\ pc[w] = "input" /\ b[w].input /\ i <= Total
    /\ \/ i = 1 /\ Renewed(w)
       \/ i > 1 /\ UNCHANGED lease
    /\ \/ row[i].status = "none" /\ SaveRow(w, i, [row[i] EXCEPT !.status = "PENDING"])
       \/ row[i].status # "none" /\ UNCHANGED <<row, fresh>>
    /\ idx' = [idx EXCEPT ![w] = i + 1]
    /\ UNCHANGED <<batch, known, template, devices, windows, handed, pc, b, res, opened, limits>>

InputDone(w) ==
    /\ pc[w] = "input" /\ (b[w].input => idx[w] > Total)
    /\ b' = [b EXCEPT ![w].input = FALSE]
    /\ idx' = [idx EXCEPT ![w] = 1]
    /\ Goto(w, "reset")
    /\ UNCHANGED <<records, lease, template, devices, windows, handed, res, opened, limits>>

ResetRow(w) ==
    /\ pc[w] = "reset"
    /\ \E i \in b[w].retry :
        /\ row[i].status = "FAILED"
        /\ SaveRow(w, i, [row[i] EXCEPT !.status = "PENDING"])
    /\ UNCHANGED <<batch, known, lease, template, devices, windows, handed, local, opened, limits>>

ResetDone(w) ==
    /\ pc[w] = "reset" /\ \A i \in b[w].retry : row[i].status # "FAILED"
    /\ b' = [b EXCEPT ![w] = [Empty EXCEPT !.active = b[w].active]]
    /\ Goto(w, "count")
    /\ UNCHANGED <<records, lease, template, devices, windows, handed, idx, res, opened, limits>>

(* recoverCommittedBatchRow: the device was registered, its secret is lost.     *)
Recovered_WithoutReissue(i) ==
    IF row[i].status = "RUNNING" /\ device[i] # 0
    THEN [status |-> "SUCCEEDED", credential |-> "NONE", delivery |-> 0]
    ELSE row[i]

Recovered(i) ==
    IF row[i].status = "RUNNING" /\ device[i] # 0
    THEN [status |-> "SUCCEEDED", delivery |-> 0,
          credential |-> IF i \in Platform THEN "REISSUE_REQUIRED" ELSE "NONE"]
    ELSE row[i]

Counted(c, status) ==
    CASE status = "SUCCEEDED" -> [c EXCEPT !.succeeded = @ + 1]
      [] status = "FAILED"    -> [c EXCEPT !.failed = @ + 1]
      [] OTHER                -> [c EXCEPT !.pending = @ + 1]

Count(w) ==
    LET i == idx[w] IN
    /\ pc[w] = "count" /\ i <= Total
    /\ \/ i = 1 /\ Renewed(w)
       \/ i > 1 /\ UNCHANGED lease
    /\ \/ Recovered(i) # row[i] /\ SaveRow(w, i, Recovered(i))
       \/ Recovered(i) = row[i] /\ UNCHANGED <<row, fresh>>
    /\ b' = [b EXCEPT ![w] = Counted(@, Recovered(i).status)]
    /\ idx' = [idx EXCEPT ![w] = i + 1]
    /\ \/ i < Total /\ UNCHANGED pc
       \/ i = Total /\ Goto(w, "template")
    /\ UNCHANGED <<batch, known, template, devices, windows, handed, res, opened, limits>>

(* The template is compared with the one the batch was created for; one that     *)
(* cannot be read counts as changed.                                         *)
Differs ==
    \/ template = "changed" /\ UNCHANGED limits
    \/ template # "changed" /\ Fault

Inactive(c) == [c EXCEPT !.active = {}]
Final(c) == IF c.failed > 0 THEN "PARTIAL_FAILED" ELSE "COMPLETED"

TemplateChanged(w) ==
    /\ pc[w] = "template" /\ Differs
    /\ \/ b[w].pending = 0 /\ SaveBatch(w, Final(b[w]), Inactive(b[w]))
       \/ b[w].pending > 0 /\ SaveBatch(w, "PAUSED", b[w])
    /\ Return(w)
    /\ UNCHANGED <<row, fresh, template, devices, windows, handed, opened>>

StartRows(w) ==
    /\ pc[w] = "template" /\ template # "changed"
    /\ SaveBatch(w, "RUNNING", b[w])
    /\ idx' = [idx EXCEPT ![w] = 1]
    /\ Goto(w, "rows")
    /\ UNCHANGED <<row, fresh, lease, template, devices, windows, handed, b, res, opened, limits>>

(***************************************************************************)
(* The rows one after the other.                                            *)
(***************************************************************************)
SkipRow(w) ==
    /\ pc[w] = "rows" /\ idx[w] <= Total
    /\ \/ ~Chosen(w) /\ UNCHANGED lease
       \/ Chosen(w) /\ Renewed(w) /\ Finished(idx[w])
    /\ idx' = [idx EXCEPT ![w] = @ + 1]
    /\ UNCHANGED <<records, template, devices, windows, handed, pc, b, res, opened, limits>>

RowTemplateChanged(w) ==
    /\ RowTurn(w) /\ lease \in {w, Nobody} /\ Differs
    /\ SaveBatch(w, "PAUSED", b[w])
    /\ Return(w)
    /\ UNCHANGED <<row, fresh, template, devices, windows, handed, opened>>

StartRow(w) ==
    LET i == idx[w] IN
    /\ RowTurn(w) /\ Renewed(w) /\ template # "changed"
    /\ SaveRow(w, i, [row[i] EXCEPT !.status = "RUNNING"])
    /\ Goto(w, "enroll")
    /\ UNCHANGED <<batch, known, template, devices, windows, handed, b, idx, res, opened, limits>>

(* enroll: the device is registered with a new secret, or was before by the     *)
(* same request and keeps the one it has.  Sealing the secret may fail, and the *)
(* answer to the registration may be lost.                                  *)
Register(i) ==
    /\ created' = [created EXCEPT ![i] = @ + 1]
    /\ device' = [device EXCEPT ![i] = created'[i]]

Enroll(w) ==
    LET i == idx[w] IN
    /\ pc[w] = "enroll"
    /\ \/ /\ device[i] = 0 /\ template = "ready" /\ Register(i)
          /\ res' = [res EXCEPT ![w] = [ok |-> TRUE, secret |-> IF i \in Platform THEN created'[i] ELSE 0]]
          /\ UNCHANGED limits
       \/ /\ device[i] = 0 /\ template = "ready" /\ Register(i) /\ i \in Platform /\ Fault
          /\ res' = [res EXCEPT ![w] = [ok |-> TRUE, secret |-> 0]]
       \/ /\ device[i] # 0 /\ UNCHANGED <<devices, limits>>
          /\ res' = [res EXCEPT ![w] = [ok |-> TRUE, secret |-> 0]]
    /\ Goto(w, "expiry")
    /\ UNCHANGED <<records, lease, template, windows, handed, b, idx, opened>>

(* The template was changed under the row, or was put back and not verified.     *)
EnrollRefused(w) ==
    /\ pc[w] = "enroll" /\ device[idx[w]] = 0 /\ template # "ready"
    /\ Goto(w, "result")
    /\ UNCHANGED <<records, lease, template, devices, windows, handed, b, idx, res, opened, limits>>

(* It fails, perhaps after the transaction was committed.                    *)
EnrollFails(w) ==
    /\ pc[w] = "enroll" /\ Fault
    /\ \/ device[idx[w]] = 0 /\ template = "ready" /\ Register(idx[w])
       \/ UNCHANGED devices
    /\ Goto(w, "result")
    /\ UNCHANGED <<records, lease, template, windows, handed, b, idx, res, opened>>

(* scheduleCredentialExpiry: one job for each row; an existing one is kept.     *)
ScheduleExpiry_Never(w) ==
    /\ pc[w] = "expiry"
    /\ Goto(w, "result")
    /\ UNCHANGED <<records, lease, template, devices, windows, handed, b, idx, res, opened, limits>>

ScheduleExpiry(w) ==
    LET i == idx[w] IN
    /\ pc[w] = "expiry"
    /\ \/ /\ res[w].secret # 0 /\ expiry[i].status = "none"
          /\ expiry' = [expiry EXCEPT ![i] = [status |-> "QUEUED", secret |-> res[w].secret]]
       \/ /\ res[w].secret = 0 \/ expiry[i].status # "none"
          /\ UNCHANGED expiry
    /\ Goto(w, "result")
    /\ UNCHANGED <<records, lease, template, devices, past, handed, b, idx, res, opened, limits>>

Result(w) ==
    [delivery |-> res[w].secret,
     status |-> IF res[w].ok THEN "SUCCEEDED" ELSE "FAILED",
     credential |-> CASE ~res[w].ok -> row[idx[w]].credential
                      [] res[w].ok /\ res[w].secret # 0 -> "AVAILABLE"
                      [] res[w].ok /\ res[w].secret = 0 ->
                            IF idx[w] \in Platform THEN "REISSUE_REQUIRED" ELSE "NONE"]

SaveResult(w) ==
    LET c == Counted(b[w], Result(w).status) IN
    /\ pc[w] = "result" /\ <<w, idx[w]>> \in fresh
    /\ SaveRow(w, idx[w], Result(w))
    /\ b' = [b EXCEPT ![w] = [c EXCEPT !.pending = @ - 1]]
    /\ res' = [res EXCEPT ![w] = NoRes]
    /\ Goto(w, "summary")
    /\ UNCHANGED <<batch, known, lease, template, devices, windows, handed, idx, opened, limits>>

SaveSummary(w) ==
    /\ pc[w] = "summary" /\ SaveBatch(w, "RUNNING", b[w])
    /\ idx' = [idx EXCEPT ![w] = @ + 1]
    /\ Goto(w, "rows")
    /\ UNCHANGED <<row, fresh, lease, template, devices, windows, handed, b, res, opened, limits>>

Finish_IgnoresPending(w) ==
    /\ pc[w] = "rows" /\ idx[w] > Total
    /\ SaveBatch(w, Final(b[w]), Inactive(b[w]))
    /\ Return(w)
    /\ UNCHANGED <<row, fresh, template, devices, windows, handed, opened, limits>>

Finish(w) ==
    /\ pc[w] = "rows" /\ idx[w] > Total
    /\ \/ b[w].pending > 0 /\ SaveBatch(w, "PAUSED", Inactive(b[w]))
       \/ b[w].pending = 0 /\ SaveBatch(w, Final(b[w]), Inactive(b[w]))
    /\ Return(w)
    /\ UNCHANGED <<row, fresh, template, devices, windows, handed, opened, limits>>

(* A call fails, a time limit ends the row, or the process exits: an error       *)
(* releases the lease, after an exit it must run out.                        *)
Stop(w) ==
    /\ pc[w] # "idle" /\ Fault
    /\ Goto(w, "idle")
    /\ b' = [b EXCEPT ![w] = Empty]
    /\ idx' = [idx EXCEPT ![w] = 1]
    /\ res' = [res EXCEPT ![w] = NoRes]
    /\ known' = known \ {w}
    /\ \/ lease = w /\ lease' = Nobody
       \/ UNCHANGED lease
    /\ UNCHANGED <<batch, row, fresh, template, devices, windows, handed, opened>>

(* The lease of a worker that is gone runs out; a row's work has 20 s of the     *)
(* lease's 30 s, so that of a worker that goes on only if it was held up        *)
(* outside.                                                                *)
LeaseRunsOut ==
    /\ \E w \in Workers : lease = w /\ pc[w] = "idle"
    /\ lease' = Nobody
    /\ UNCHANGED <<records, template, devices, windows, handed, local, opened, limits>>

LeaseOverrun ==
    /\ \E w \in Workers : lease = w /\ pc[w] # "idle"
    /\ stalls < MaxStalls /\ stalls' = stalls + 1
    /\ lease' = Nobody
    /\ UNCHANGED <<records, template, devices, windows, handed, local, opened, faults, retries, deletes>>

(***************************************************************************)
(* The owner: retries and secrets.                                          *)
(***************************************************************************)
Retryable(i) ==
    \/ row[i].status = "FAILED"
    \/ batch.status = "PAUSED" /\ row[i].status \in {"PENDING", "RUNNING"}
    \/ batch.status = "PAUSED" /\ row[i].status = "none" /\ batch.body.input

RetryBatch(S) ==
    /\ batch.status \in {"PARTIAL_FAILED", "PAUSED"} /\ template # "changed" /\ retries < MaxRetries
    /\ S # {} /\ \A i \in S : Retryable(i)
    /\ retries' = retries + 1
    /\ batch' = [status |-> "QUEUED", body |-> [batch.body EXCEPT !.retry = S, !.active = S]]
    /\ known' = {}
    /\ UNCHANGED <<row, fresh, lease, template, devices, windows, handed, local, opened, faults, stalls, deletes>>

Open(i) == row[i].delivery > past[i]

(* ClaimCredentials reads a row and looks at its device, then saves the row      *)
(* without the secret before it hands the secret out; an error at a later row of  *)
(* the request discards the whole answer.  A secret that is not the device's any   *)
(* more is not handed out.                                                   *)
ReadRow(c, i) ==
    /\ opened[c].row = 0 /\ Open(i)
    /\ opened' = [opened EXCEPT ![c] = [row |-> i, delivery |-> row[i].delivery,
                                        valid |-> device[i] = row[i].delivery]]
    /\ fresh' = fresh \cup {<<c, i>>}
    /\ UNCHANGED <<batch, row, known, lease, template, devices, windows, handed, local, limits>>

Unchanged_Ignored(c) == TRUE

Unchanged(c) == <<c, opened[c].row>> \in fresh

Deliver(c) ==
    LET i == opened[c].row
        s == opened[c].delivery IN
    /\ i # 0
    /\ \/ /\ Unchanged(c) /\ opened[c].valid
          /\ SaveRow(c, i, [row[i] EXCEPT !.delivery = 0, !.credential = "DELIVERED"])
          /\ \/ handed' = [handed EXCEPT ![<<i, s>>] = @ + 1] /\ UNCHANGED limits
             \/ Fault /\ UNCHANGED handed
       \/ /\ Unchanged(c) /\ ~opened[c].valid
          /\ SaveRow(c, i, [row[i] EXCEPT !.delivery = 0, !.credential = "REISSUE_REQUIRED"])
          /\ UNCHANGED <<handed, limits>>
       \/ ~Unchanged(c) /\ UNCHANGED <<row, fresh, handed, limits>>
    /\ opened' = [opened EXCEPT ![c] = NoRow]
    /\ UNCHANGED <<batch, known, lease, template, devices, windows, local>>

(***************************************************************************)
(* Time, templates, devices.                                                *)
(***************************************************************************)
(* Fifteen minutes after it was sealed, long after its row was saved or lost.   *)
WindowEnds(i) ==
    /\ i \in Platform /\ past[i] < created[i]
    /\ \A w \in Workers : idx[w] = i => res[w].secret # past[i] + 1
    /\ past' = [past EXCEPT ![i] = @ + 1]
    /\ UNCHANGED <<records, lease, template, devices, expiry, handed, local, opened, limits>>

(* ExpireCredentialDeliveries.                                              *)
ExpireDelivery(i) ==
    /\ expiry[i].status = "QUEUED" /\ expiry[i].secret <= past[i]
    /\ \/ /\ row[i].delivery # 0 /\ ~Open(i)
          /\ SaveRow(Nobody, i, [row[i] EXCEPT !.delivery = 0, !.credential = "EXPIRED"])
       \/ /\ row[i].delivery = 0 \/ Open(i)
          /\ UNCHANGED <<row, fresh>>
    /\ expiry' = [expiry EXCEPT ![i].status = "COMPLETED"]
    /\ UNCHANGED <<batch, known, lease, template, devices, past, handed, local, opened, limits>>

(* applyPreparedCandidate, also to roll back: a template that was applied anew    *)
(* must be verified with a device before more are registered.                  *)
ApplyTemplate ==
    /\ template' \in {"changed", "unready"} \ {template}
    /\ \/ template = "ready" /\ Fault
       \/ template # "ready" /\ UNCHANGED limits
    /\ UNCHANGED <<records, lease, devices, windows, handed, local, opened>>

VerifyTemplate ==
    /\ template = "unready" /\ template' = "ready"
    /\ UNCHANGED <<records, lease, devices, windows, handed, local, opened, limits>>

(* ChangeCredential: the device gets a new secret that no row holds, or its       *)
(* secret is revoked.                                                        *)
ChangeCredential(i) ==
    /\ i \in Platform /\ device[i] \in Secrets
    /\ device' = [device EXCEPT ![i] = Replaced]
    /\ UNCHANGED <<records, lease, template, created, windows, handed, local, opened, limits>>

DeleteDevice(i) ==
    /\ device[i] # 0 /\ deletes < MaxDeletes
    /\ deletes' = deletes + 1
    /\ device' = [device EXCEPT ![i] = 0]
    /\ UNCHANGED <<records, lease, template, created, windows, handed, local, opened, faults, stalls, retries>>

Step(w) ==
    \/ LeaseLost(w) \/ Outdated(w) \/ MakeRow(w) \/ InputDone(w) \/ ResetRow(w) \/ ResetDone(w)
    \/ Count(w) \/ TemplateChanged(w) \/ StartRows(w) \/ SkipRow(w) \/ RowTemplateChanged(w)
    \/ StartRow(w) \/ Enroll(w) \/ EnrollRefused(w) \/ ScheduleExpiry(w) \/ SaveResult(w)
    \/ SaveSummary(w) \/ Finish(w)

Next ==
    \/ \E w \in Workers : Begin(w) \/ Step(w) \/ Denied(w) \/ EnrollFails(w) \/ Stop(w)
    \/ LeaseRunsOut \/ LeaseOverrun
    \/ \E S \in SUBSET Rows : RetryBatch(S)
    \/ \E c \in Claimers : Deliver(c) \/ \E i \in Rows : ReadRow(c, i)
    \/ \E i \in Rows : WindowEnds(i) \/ ExpireDelivery(i) \/ DeleteDevice(i) \/ ChangeCredential(i)
    \/ ApplyTemplate \/ VerifyTemplate

Spec == Init /\ [][Next]_vars

(***************************************************************************)
(* Properties.                                                              *)
(***************************************************************************)

(* "Row records are the durable source of aggregate counts" (RunBatch): a batch  *)
(* that is reported as settled has no row left, and its counts are those of     *)
(* its rows.                                                                *)
SettledMatchesRows ==
    batch.status \in {"COMPLETED", "PARTIAL_FAILED"} =>
        /\ \A i \in Rows : Finished(i)
        /\ batch.body.succeeded = Cardinality({i \in Rows : row[i].status = "SUCCEEDED"})
        /\ batch.body.failed = Cardinality({i \in Rows : row[i].status = "FAILED"})

(* It is so after exits, failures and retries, and also when a worker is         *)
(* overtaken, as long as that one does not reset rows the owner wants retried:  *)
(* the loop that resets them renews no lease.                               *)
SettledUnlessOverrun == stalls = 0 \/ retries = 0 => SettledMatchesRows

(* A secret is handed out once at most, however many requests ask for it while  *)
(* workers and the erasure save the same row.                               *)
SecretOnce == \A s \in Rows \X Secrets : handed[s] <= 1

(* A registered row tells its owner how to come by the secret: it is sealed in  *)
(* the row, a request took it out, it was erased, or it must be issued anew.  A   *)
(* secret that was lost between registration and the row's save is never passed   *)
(* off as ready for delivery or as not needed.  The one that is sealed is the    *)
(* device's unless the device was deleted or its secret replaced since; a worker  *)
(* that was overtaken may register a deleted device once more, with a secret      *)
(* that no row gets.                                                         *)
SecretAccounted ==
    \A i \in Platform : row[i].status = "SUCCEEDED" =>
        /\ row[i].credential # "NONE"
        /\ row[i].credential = "AVAILABLE" <=> row[i].delivery # 0
        /\ row[i].credential = "AVAILABLE" /\ (stalls = 0 \/ deletes = 0) =>
               device[i] \in {row[i].delivery, 0, Replaced}

(* "erases ciphertext after its delivery window even when the browser never     *)
(* returns" (ExpireCredentialDeliveries): while a secret is sealed in a row,    *)
(* the job that erases it waits, whatever exits fell between the registration,   *)
(* the job and the row, unless the row's device was deleted and registered      *)
(* anew.                                                                    *)
ErasureWaits ==
    \A i \in Rows : row[i].delivery # 0 /\ created[i] = 1 =>
        expiry[i] = [status |-> "QUEUED", secret |-> row[i].delivery]
=============================================================================
