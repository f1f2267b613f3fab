------------------------------- MODULE Replay -------------------------------
(***************************************************************************)
(* Replay of archived messages (core/replay.go): requests are registered in    *)
(* the process that runs them, one per tenant; the runner pages through the     *)
(* archive, newest message first, while messages arrive and old ones expire;   *)
(* it proves that it is alive by heartbeats, and a reader of the task list     *)
(* reports a silent replay as interrupted.                                   *)
(*                                                                          *)
(* The archived messages of the requested range are numbered by age: lo..hi.   *)
(* Requests are of mode REINGEST.                                            *)
(***************************************************************************)
EXTENDS ReplayTasks, FiniteSets, FiniteSetsExt

CONSTANTS
    Tenant,        \* Tenant[r]: the tenant of a request
    MaxTotal,      \* maxReplaysTotal
    PageSize,      \* 500
    Archived,      \* messages in the archive at the beginning
    MaxArrivals,   \* bound on messages that arrive
    MaxExpired,    \* bound on messages that retention removes
    MaxPauses,     \* bound on pauses of ingest
    MaxFaults      \* bound on failed calls and process exits

ASSUME ReplayAssumption ==
    /\ MaxTotal \in Nat \ {0} /\ PageSize \in Nat \ {0} /\ Archived \in Nat
    /\ MaxArrivals \in Nat /\ MaxExpired \in Nat /\ MaxPauses \in Nat /\ MaxFaults \in Nat

VARIABLES
    silent,      \* whether its last heartbeat is older than replayStale
    pc,          \* step of the runner; "idle" when the request is not registered
    cancelled,   \* whether its context is cancelled
    offset,      \* its offset into the archive
    page,        \* messages left of the page it read
    size,        \* number of messages the page had
    result,      \* final status to be saved
    stale,       \* requests a reader found silent and is about to report
    paused,      \* ingestPaused
    pauses, faults

archive == <<lo, hi>>
task    == <<state, silent>>
runner  == <<pc, cancelled, offset, page, size, result>>
history == <<done, old>>
vars == <<archive, task, runner, history, stale, paused, pauses, faults>>

Open  == {"PENDING", "RUNNING"}
Final == {"COMPLETED", "FAILED", "CANCELLED", "INTERRUPTED"}

Init ==
    /\ lo = 1 /\ hi = Archived
    /\ state = [r \in Requests |-> "NONE"]
    /\ silent = [r \in Requests |-> FALSE]
    /\ pc = [r \in Requests |-> "idle"]
    /\ cancelled = [r \in Requests |-> FALSE]
    /\ offset = [r \in Requests |-> 0]
    /\ page = [r \in Requests |-> {}]
    /\ size = [r \in Requests |-> 0]
    /\ result = [r \in Requests |-> "NONE"]
    /\ done = [r \in Requests |-> {}] /\ old = [r \in Requests |-> {}]
    /\ stale = {}
    /\ paused = FALSE /\ pauses = 0 /\ faults = 0

Fault == faults < MaxFaults /\ faults' = faults + 1

Goto(r, label) == pc' = [pc EXCEPT ![r] = label]

Write(r, status) ==
    /\ state' = [state EXCEPT ![r] = status]
    /\ silent' = [silent EXCEPT ![r] = FALSE]

(* UpdateReplay of the runner, with a new heartbeat; its error is ignored.       *)
Update(r, status) ==
    \/ Write(r, status) /\ UNCHANGED faults
    \/ Fault /\ UNCHANGED task

(***************************************************************************)
(* StartReplay and replayRegistry.                                          *)
(***************************************************************************)
Registered == {r \in Requests : pc[r] # "idle"}

Start(r) ==
    /\ state[r] = "NONE"
    /\ \A q \in Registered : Tenant[q] # Tenant[r]
    /\ Cardinality(Registered) < MaxTotal
    /\ Write(r, "PENDING")
    /\ Goto(r, "run")
    /\ old' = [old EXCEPT ![r] = lo..hi]
    /\ UNCHANGED <<archive, cancelled, offset, page, size, result, done, stale, paused, pauses, faults>>

(* CancelReplay.                                                            *)
Cancel(r) ==
    /\ r \in Registered /\ ~cancelled[r]
    /\ cancelled' = [cancelled EXCEPT ![r] = TRUE]
    /\ UNCHANGED <<archive, task, pc, offset, page, size, result, history, stale, paused, pauses, faults>>

(***************************************************************************)
(* runReplay.                                                               *)
(***************************************************************************)
Run(r) ==
    /\ pc[r] = "run"
    /\ Update(r, "RUNNING")
    /\ Goto(r, "list")
    /\ UNCHANGED <<archive, cancelled, offset, page, size, result, history, stale, paused, pauses>>

End(r, status) ==
    /\ result' = [result EXCEPT ![r] = status]
    /\ Goto(r, "end")

(* ListRawIndexes: newest first, by offset.                                  *)
PageAt_OldestFirst(n) == {m \in lo..hi : m >= lo + n /\ m < lo + n + PageSize}

PageAt(n) == {m \in lo..hi : m <= hi - n /\ m > hi - n - PageSize}

List(r) ==
    /\ pc[r] = "list" /\ ~cancelled[r]
    /\ page' = [page EXCEPT ![r] = PageAt(offset[r])]
    /\ size' = [size EXCEPT ![r] = Cardinality(PageAt(offset[r]))]
    /\ IF PageAt(offset[r]) = {} THEN End(r, "COMPLETED") ELSE Goto(r, "page") /\ UNCHANGED result
    /\ UNCHANGED <<archive, task, cancelled, offset, history, stale, paused, pauses, faults>>

(* The query fails, also because its context is cancelled.                    *)
ListFails(r) ==
    /\ pc[r] = "list"
    /\ \/ cancelled[r] /\ UNCHANGED faults
       \/ ~cancelled[r] /\ Fault
    /\ End(r, "FAILED")
    /\ UNCHANGED <<archive, task, cancelled, offset, page, size, history, stale, paused, pauses>>

(* A message of the page: the heartbeat is written when it is due, the archived    *)
(* message is read, and the replay waits while ingest is paused.               *)
Message(r) ==
    /\ pc[r] = "page" /\ page[r] # {} /\ ~cancelled[r]
    /\ Update(r, "RUNNING") \/ UNCHANGED <<task, faults>>
    /\ Goto(r, "read")
    /\ UNCHANGED <<archive, cancelled, offset, page, size, result, history, stale, paused, pauses>>

Read(r) ==
    /\ pc[r] = "read" /\ ~cancelled[r]
    /\ Goto(r, "wait")
    /\ UNCHANGED <<archive, task, cancelled, offset, page, size, result, history, stale, paused, pauses, faults>>

(* The message is prepared and published, or its error is counted and the        *)
(* replay goes on.                                                          *)
Taken(r) ==
    /\ done' = [done EXCEPT ![r] = @ \cup {Max(page[r])}]
    /\ page' = [page EXCEPT ![r] = @ \ {Max(@)}]
    /\ Goto(r, "page")
    /\ UNCHANGED <<archive, task, cancelled, offset, size, result, old, stale, paused, pauses>>

Reingest(r) ==
    /\ pc[r] = "wait" /\ ~paused /\ ~cancelled[r]
    /\ Taken(r) /\ UNCHANGED faults

(* The archived message cannot be read, also because the context is cancelled.     *)
ReadFails(r) ==
    /\ pc[r] = "read"
    /\ \/ cancelled[r] /\ UNCHANGED faults
       \/ ~cancelled[r] /\ Fault
    /\ Taken(r)

Stopped(r) ==
    /\ cancelled[r]
    /\ pc[r] = "wait" \/ (pc[r] = "page" /\ page[r] # {})
    /\ End(r, "CANCELLED")
    /\ UNCHANGED <<archive, task, cancelled, offset, page, size, history, stale, paused, pauses, faults>>

(* A page that was not full is the last one.                                 *)
NextPage(r) ==
    /\ pc[r] = "page" /\ page[r] = {}
    /\ offset' = [offset EXCEPT ![r] = @ + size[r]]
    /\ Update(r, "RUNNING")
    /\ IF size[r] < PageSize THEN End(r, "COMPLETED") ELSE Goto(r, "list") /\ UNCHANGED result
    /\ UNCHANGED <<archive, cancelled, page, size, history, stale, paused, pauses>>

(* What the goroutines of these requests kept is gone with them.                *)
Leave(gone) ==
    /\ pc' = [r \in Requests |-> IF r \in gone THEN "idle" ELSE pc[r]]
    /\ offset' = [r \in Requests |-> IF r \in gone THEN 0 ELSE offset[r]]
    /\ page' = [r \in Requests |-> IF r \in gone THEN {} ELSE page[r]]
    /\ size' = [r \in Requests |-> IF r \in gone THEN 0 ELSE size[r]]
    /\ result' = [r \in Requests |-> IF r \in gone THEN "NONE" ELSE result[r]]
    /\ UNCHANGED cancelled

(* The final status is saved and the request leaves the registry.               *)
Finish(r) ==
    /\ pc[r] = "end"
    /\ Update(r, result[r])
    /\ Leave({r})
    /\ UNCHANGED <<archive, history, stale, paused, pauses>>

(* The process exits with its replays.                                       *)
Crash ==
    /\ Registered # {} /\ Fault
    /\ Leave(Registered)
    /\ UNCHANGED <<archive, task, history, stale, paused, pauses>>

(***************************************************************************)
(* RefreshReplay: a reader of the task list, in any process, works on the state    *)
(* it read.                                                                 *)
(***************************************************************************)
(* replayStale passes without a heartbeat: the runner is gone, or it waits for    *)
(* ingest, which sends none.                                                *)
GoesSilent(r) ==
    /\ state[r] \in Open /\ ~silent[r]
    /\ pc[r] = "idle" \/ (pc[r] = "wait" /\ paused)
    /\ silent' = [silent EXCEPT ![r] = TRUE]
    /\ UNCHANGED <<archive, state, runner, history, stale, paused, pauses, faults>>

FindsSilent_RunningOnly(r) ==
    /\ state[r] = "RUNNING" /\ silent[r]
    /\ stale' = stale \cup {r}
    /\ UNCHANGED <<archive, task, runner, history, paused, pauses, faults>>

FindsSilent(r) ==
    /\ state[r] \in Open /\ silent[r]
    /\ stale' = stale \cup {r}
    /\ UNCHANGED <<archive, task, runner, history, paused, pauses, faults>>

ReportsInterrupted(r) ==
    /\ r \in stale
    /\ state' = [state EXCEPT ![r] = "INTERRUPTED"]
    /\ stale' = stale \ {r}
    /\ UNCHANGED <<archive, silent, runner, history, paused, pauses, faults>>

(***************************************************************************)
(* The surroundings: the archive and backpressure.                           *)
(***************************************************************************)
Arrive ==
    /\ hi < Archived + MaxArrivals
    /\ hi' = hi + 1
    /\ UNCHANGED <<lo, task, runner, history, stale, paused, pauses, faults>>

Expire ==
    /\ lo <= MaxExpired /\ lo <= hi
    /\ lo' = lo + 1
    /\ UNCHANGED <<hi, task, runner, history, stale, paused, pauses, faults>>

Pause ==
    /\ ~paused /\ pauses < MaxPauses
    /\ paused' = TRUE /\ pauses' = pauses + 1
    /\ UNCHANGED <<archive, task, runner, history, stale, faults>>

Resume ==
    /\ paused /\ paused' = FALSE
    /\ UNCHANGED <<archive, task, runner, history, stale, pauses, faults>>

Runs(r) ==
    \/ Run(r) \/ List(r) \/ ListFails(r) \/ Message(r) \/ Read(r) \/ Reingest(r)
    \/ ReadFails(r) \/ Stopped(r) \/ NextPage(r) \/ Finish(r)

Refresh(r) == FindsSilent(r) \/ ReportsInterrupted(r)

Next ==
    \/ \E r \in Requests : Start(r) \/ Cancel(r) \/ Runs(r) \/ GoesSilent(r) \/ Refresh(r)
    \/ Crash
    \/ Arrive \/ Expire \/ Pause \/ Resume

Spec == Init /\ [][Next]_vars

(* The runner's goroutine runs, time passes for a silent replay, and somebody     *)
(* looks at the list again.  Nothing says that a pause ends.                   *)
FairSpec ==
    /\ Spec
    /\ \A r \in Requests : WF_vars(Runs(r)) /\ WF_vars(GoesSilent(r)) /\ WF_vars(Refresh(r))

(***************************************************************************)
(* Properties.                                                              *)
(***************************************************************************)
(* Every variable has its type; no tenant has two replays running, and the      *)
(* process no more than its limit.                                           *)
ReplayTypeOK ==
    /\ lo \in 1..(MaxExpired + 1) /\ hi \in Archived..(Archived + MaxArrivals)
    /\ state \in [Requests -> {"NONE"} \cup Open \cup Final]
    /\ silent \in [Requests -> BOOLEAN] /\ cancelled \in [Requests -> BOOLEAN]
    /\ pc \in [Requests -> {"idle", "run", "list", "page", "read", "wait", "end"}]
    /\ offset \in [Requests -> 0..(Archived + MaxArrivals)]
    /\ size \in [Requests -> 0..PageSize]
    /\ result \in [Requests -> {"NONE"} \cup Final]
    /\ \A r \in Requests : page[r] \subseteq 1..hi /\ done[r] \subseteq 1..hi /\ old[r] \subseteq 1..hi
    /\ stale \subseteq Requests
    /\ paused \in BOOLEAN /\ pauses \in 0..MaxPauses /\ faults \in 0..MaxFaults
    /\ Cardinality(Registered) <= MaxTotal
    /\ \A q, r \in Registered : Tenant[q] = Tenant[r] => q = r

(* Every replay ends with a final status that stays, after a failed query, a lost    *)
(* final update and the exit of its process too, and although a reader reports a     *)
(* replay that waits out a pause as interrupted, unless ingest stays paused.        *)
ReplayEnds ==
    []<>~paused =>
        \A r \in Requests : (state[r] \in Open) ~> [](state[r] \in Final)

=============================================================================
