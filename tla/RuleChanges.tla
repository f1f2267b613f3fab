----------------------------- MODULE RuleChanges -----------------------------
(***************************************************************************)
(* An alarm rule is changed while messages are evaluated: the rule cache of     *)
(* each process (core/rule_cache.go), the evaluation of one rule by the         *)
(* processes' workers (handleStandard and core/alarm_rules.go), and the          *)
(* requests that disable, enable or delete it (httpapi/rules.go, DeleteRule,    *)
(* DisableRule).  A request that fails is made again.                        *)
(*                                                                          *)
(* The rule raises one alarm per device and has no duration.  Alarms of other    *)
(* rules share the alarm list that closeRuleAlarms pages through.             *)
(***************************************************************************)
EXTENDS RuleAlarms, Integers, FiniteSets

CONSTANTS
    Procs,         \* processes
    Workers,       \* concurrent evaluations of messages, each in some process
    AdminProc,     \* the process that serves the requests
    Others,        \* alarms of other rules
    BatchSize,     \* batchSize
    MaxChanges,    \* bound on requests
    MaxFaults      \* bound on failed requests

ASSUME RuleAssumption ==
    /\ AdminProc \in Procs /\ Devices \cap Others = {}
    /\ BatchSize \in Nat \ {0} /\ MaxChanges \in Nat /\ MaxFaults \in Nat

VARIABLES
    cache,       \* cache[p]: what the entry of the process says; "none" when there is
                 \* none younger than ruleCacheTTL
    wpc, got,    \* step of a worker and the rule it works with
    host,        \* the process whose entry it is about to store
    acked,       \* acknowledged ones of the open alarms
    later,       \* pairs of open alarms: the first was triggered after the second
    wanted,      \* request being served or to be repeated
    apc,         \* its step
    status, offset, listed, page, changed, affected,  \* locals of closeRuleAlarms
    changes      \* requests so far

workers == <<wpc, got, host>>
alarms  == <<open, acked, later>>
closing == <<status, offset, listed, page, changed, affected>>
vars == <<rule, cache, workers, alarms, alarmed, wanted, apc, closing, quiet, changes, failures>>

Rule == {"on", "off", "gone"}

Init ==
    /\ rule \in {"on", "off"}
    /\ cache = [p \in Procs |-> "none"]
    /\ wpc = [w \in Workers |-> "idle"] /\ got = [w \in Workers |-> "on"]
    /\ host = [w \in Workers |-> AdminProc]
    /\ open = {} /\ acked = {} /\ later = {} /\ alarmed = {}
    /\ wanted = "none" /\ apc = "idle"
    /\ status = "ACTIVE" /\ offset = 0 /\ listed = 0 /\ page = {} /\ changed = FALSE
    /\ affected = {}
    /\ quiet = FALSE /\ changes = 0 /\ failures = 0

(***************************************************************************)
(* tenantRules.                                                             *)
(***************************************************************************)
Hit(w, p) ==
    /\ wpc[w] = "idle" /\ cache[p] # "none"
    /\ wpc' = [wpc EXCEPT ![w] = "eval"]
    /\ got' = [got EXCEPT ![w] = cache[p]]
    /\ UNCHANGED <<host, rule, cache, alarms, alarmed, wanted, apc, closing, quiet, changes, failures>>

Load(w, p) ==
    /\ wpc[w] = "idle" /\ cache[p] = "none"
    /\ wpc' = [wpc EXCEPT ![w] = "store"]
    /\ got' = [got EXCEPT ![w] = rule] /\ host' = [host EXCEPT ![w] = p]
    /\ UNCHANGED <<rule, cache, alarms, alarmed, wanted, apc, closing, quiet, changes, failures>>

Store(w) ==
    /\ wpc[w] = "store"
    /\ wpc' = [wpc EXCEPT ![w] = "eval"]
    /\ cache' = [cache EXCEPT ![host[w]] = got[w]]
    /\ host' = [host EXCEPT ![w] = AdminProc]
    /\ UNCHANGED <<rule, got, alarms, alarmed, wanted, apc, closing, quiet, changes, failures>>

Ages_Unread(p) == cache[p] # "none" /\ UNCHANGED vars

Ages(p) ==
    /\ cache[p] # "none"
    /\ cache' = [cache EXCEPT ![p] = "none"]
    /\ UNCHANGED <<rule, workers, alarms, alarmed, wanted, apc, closing, quiet, changes, failures>>

RulesChanged(p) == cache' = [cache EXCEPT ![p] = "none"]

(***************************************************************************)
(* The alarm table.  Alarms whose place closeRuleAlarms has already passed      *)
(* move the ones behind them forward when they leave its list.                *)
(***************************************************************************)
WithStatus(s) == IF s = "ACKED" THEN acked ELSE open \ acked

(* ORDER BY last_triggered_at DESC with LIMIT and OFFSET: what is listed after    *)
(* skip others, and before as many more as the limit.                         *)
Place(x, s) == Cardinality({y \in WithStatus(s) : <<y, x>> \in later})
Slice(s, skip, limit) == {x \in WithStatus(s) : Place(x, s) \in skip .. skip + limit - 1}

IsOpen(x) == x \in open

Passed(x) ==
    LET reach == IF apc = "close" THEN offset + listed ELSE offset
    IN  apc \in {"list", "close"} /\ x \in Slice(status, 0, reach)

Without(x) == {p \in later : x \notin {p[1], p[2]}}

(* UpsertAlarm: a report of an open alarm is added to it.                      *)
Upsert(x) ==
    /\ open' = open \cup {x}
    /\ later' = Without(x) \cup ({x} \X (open \ {x}))
    /\ UNCHANGED acked

(* mutateAlarm to RECOVERED, when the alarm is still open.                      *)
Recovered(x) == open' = open \ {x} /\ acked' = acked \ {x} /\ later' = Without(x)

(***************************************************************************)
(* Evaluation of the rule, to the completion of the message, which sets the      *)
(* status of the device.  A disabled rule matches nothing but recovers.        *)
(***************************************************************************)
Evaluated(w) ==
    /\ wpc[w] = "eval"
    /\ wpc' = [wpc EXCEPT ![w] = "idle"]
    /\ got' = [got EXCEPT ![w] = "on"]
    /\ UNCHANGED <<host, rule, cache, wanted, apc, closing, changes, failures>>

Raise(w, d) ==
    /\ got[w] = "on"
    /\ Evaluated(w)
    /\ Upsert(d)
    /\ alarmed' = alarmed \cup {d}
    /\ UNCHANGED quiet

Recover(w, d) ==
    /\ got[w] \in {"on", "off"} /\ IsOpen(d)
    /\ Evaluated(w)
    /\ Recovered(d)
    /\ alarmed' = alarmed \ {d}
    /\ quiet' = (quiet /\ ~Passed(d))

NoMatch(w, d) ==
    /\ Evaluated(w)
    /\ alarmed' = IF IsOpen(d) THEN alarmed \cup {d} ELSE alarmed \ {d}
    /\ UNCHANGED <<alarms, quiet>>

(***************************************************************************)
(* Other alarms, and operators who acknowledge.                              *)
(***************************************************************************)
RaiseOther(x) ==
    /\ Upsert(x)
    /\ UNCHANGED <<rule, cache, workers, alarmed, wanted, apc, closing, quiet, changes, failures>>

RecoverOther(x) ==
    /\ IsOpen(x)
    /\ Recovered(x)
    /\ quiet' = (quiet /\ ~Passed(x))
    /\ UNCHANGED <<rule, cache, workers, alarmed, wanted, apc, closing, changes, failures>>

Acknowledge(x) ==
    /\ IsOpen(x) /\ x \notin acked
    /\ acked' = acked \cup {x}
    /\ quiet' = (quiet /\ ~Passed(x))
    /\ UNCHANGED <<rule, cache, workers, open, later, alarmed, wanted, apc, closing, changes, failures>>

(***************************************************************************)
(* closeRuleAlarms.                                                         *)
(***************************************************************************)
BeginClosing == apc' = "list" /\ UNCHANGED closing

NextStatus ==
    IF status = "ACTIVE"
    THEN status' = "ACKED" /\ offset' = 0 /\ UNCHANGED apc
    ELSE apc' = "sync" /\ status' = "ACTIVE" /\ offset' = 0

ListAlarms ==
    LET batch == Slice(status, offset, BatchSize) IN
    /\ apc = "list"
    /\ IF batch = {}
       THEN NextStatus /\ UNCHANGED <<listed, page, changed>>
       ELSE /\ apc' = "close"
            /\ listed' = Cardinality(batch) /\ page' = batch \cap Devices /\ changed' = FALSE
            /\ UNCHANGED <<status, offset>>
    /\ UNCHANGED <<rule, cache, workers, alarms, alarmed, wanted, affected, quiet, changes, failures>>

CloseAlarm(d) ==
    /\ apc = "close" /\ d \in page
    /\ page' = page \ {d}
    /\ IF IsOpen(d)
       THEN Recovered(d) /\ affected' = affected \cup {d} /\ changed' = TRUE
       ELSE UNCHANGED <<alarms, affected, changed>>
    /\ UNCHANGED <<rule, cache, workers, alarmed, wanted, apc, status, offset, listed, quiet, changes, failures>>

(* "restart at zero so offset pagination cannot skip the next row".             *)
PageDone_NoRestart ==
    /\ apc = "close" /\ page = {}
    /\ apc' = "list" /\ listed' = 0 /\ changed' = FALSE
    /\ offset' = offset + listed
    /\ UNCHANGED <<rule, cache, workers, alarms, alarmed, wanted, status, page, affected, quiet, changes, failures>>

PageDone ==
    /\ apc = "close" /\ page = {}
    /\ apc' = "list" /\ listed' = 0 /\ changed' = FALSE
    /\ offset' = IF changed THEN 0 ELSE offset + listed
    /\ UNCHANGED <<rule, cache, workers, alarms, alarmed, wanted, status, page, affected, quiet, changes, failures>>

(* syncDeviceBusinessStatus of one of the devices.                            *)
SyncDevice(d) ==
    /\ apc = "sync" /\ d \in affected
    /\ affected' = affected \ {d}
    /\ alarmed' = IF IsOpen(d) THEN alarmed \cup {d} ELSE alarmed \ {d}
    /\ UNCHANGED <<rule, cache, workers, alarms, wanted, apc, status, offset, listed, page, changed, quiet, changes, failures>>

(***************************************************************************)
(* The requests: saveRule and deleteRule.                                    *)
(***************************************************************************)
Request(op) ==
    /\ wanted = "none" /\ changes < MaxChanges
    /\ \/ op = "delete" /\ rule # "gone"
       \/ op = "disable" /\ rule = "on"
       \/ op = "enable" /\ rule = "off"
    /\ wanted' = op /\ changes' = changes + 1
    /\ UNCHANGED <<rule, cache, workers, alarms, alarmed, apc, closing, quiet, failures>>

Served == apc' = "idle" /\ wanted' = "none"

Enable ==
    /\ wanted = "enable"
    /\ rule' = "on" /\ RulesChanged(AdminProc) /\ Served
    /\ UNCHANGED <<workers, alarms, alarmed, closing, quiet, changes, failures>>

BeginDisable ==
    /\ wanted = "disable" /\ apc = "idle"
    /\ BeginClosing
    /\ quiet' = FALSE
    /\ UNCHANGED <<rule, cache, workers, alarms, alarmed, wanted, changes, failures>>

DisableDone ==
    /\ wanted = "disable" /\ apc = "sync" /\ affected = {}
    /\ RulesChanged(AdminProc)
    /\ apc' = "save"
    /\ UNCHANGED <<rule, workers, alarms, alarmed, wanted, closing, quiet, changes, failures>>

SaveDisabled ==
    /\ apc = "save"
    /\ rule' = "off" /\ RulesChanged(AdminProc) /\ Served
    /\ UNCHANGED <<workers, alarms, alarmed, closing, quiet, changes, failures>>

(* Whether a message may still be evaluated with the rule switched on.           *)
EnabledCopy ==
    \/ \E p \in Procs : cache'[p] = "on"
    \/ \E w \in Workers : wpc[w] # "idle" /\ got[w] = "on"

BeginDelete ==
    /\ wanted = "delete" /\ apc = "idle" /\ rule # "gone"
    /\ rule' = "off" /\ RulesChanged(AdminProc)
    /\ BeginClosing
    /\ quiet' = ~EnabledCopy
    /\ UNCHANGED <<workers, alarms, alarmed, wanted, changes, failures>>

RemoveRule ==
    /\ wanted = "delete" /\ apc = "sync" /\ affected = {}
    /\ rule' = "gone" /\ RulesChanged(AdminProc) /\ apc' = "idle"
    /\ \/ wanted' = "none" /\ UNCHANGED failures
       \/ /\ failures < MaxFaults /\ failures' = failures + 1   \* the answer is lost
          /\ UNCHANGED wanted
    /\ UNCHANGED <<workers, alarms, alarmed, closing, quiet, changes>>

NotFound ==
    /\ wanted = "delete" /\ apc = "idle" /\ rule = "gone"
    /\ Served
    /\ UNCHANGED <<rule, cache, workers, alarms, alarmed, closing, quiet, changes, failures>>

(* A call of the request fails: it returns, and RulesChanged runs where it was     *)
(* deferred.                                                                *)
RequestFails ==
    /\ apc # "idle"
    /\ failures < MaxFaults /\ failures' = failures + 1
    /\ IF \/ wanted = "disable" /\ apc # "save"
          \/ apc = "sync" /\ affected = {}
       THEN RulesChanged(AdminProc)
       ELSE UNCHANGED cache
    /\ apc' = "idle"
    /\ status' = "ACTIVE" /\ offset' = 0 /\ listed' = 0 /\ page' = {} /\ changed' = FALSE
    /\ affected' = {}
    /\ UNCHANGED <<rule, workers, alarms, alarmed, wanted, quiet, changes>>

(***************************************************************************)
Evaluates(w) ==
    \/ Store(w)
    \/ \E d \in Devices : Raise(w, d) \/ Recover(w, d) \/ NoMatch(w, d)

Administers ==
    \/ Enable \/ BeginDisable \/ DisableDone \/ SaveDisabled
    \/ BeginDelete \/ RemoveRule \/ NotFound
    \/ ListAlarms \/ PageDone
    \/ \E d \in Devices : CloseAlarm(d) \/ SyncDevice(d)

Next ==
    \/ \E w \in Workers : Evaluates(w) \/ \E p \in Procs : Hit(w, p) \/ Load(w, p)
    \/ \E p \in Procs : Ages(p)
    \/ \E x \in Others : RaiseOther(x) \/ RecoverOther(x)
    \/ \E x \in Devices \cup Others : Acknowledge(x)
    \/ \E op \in {"delete", "disable", "enable"} : Request(op)
    \/ Administers \/ RequestFails

Spec == Init /\ [][Next]_vars

(* A message that is being processed is finished, an entry reaches its age, and a   *)
(* request is served and repeated until it succeeds.                          *)
FairSpec ==
    /\ Spec
    /\ \A w \in Workers : WF_workers(Evaluates(w))
    /\ \A p \in Procs : WF_cache(Ages(p))
    /\ WF_vars(Administers)

(***************************************************************************)
(* Properties.                                                              *)
(***************************************************************************)
(* Every variable has its type, and of two alarms one was triggered later.        *)
RulesTypeOK ==
    /\ rule \in Rule /\ cache \in [Procs -> Rule \cup {"none"}]
    /\ wpc \in [Workers -> {"idle", "store", "eval"}] /\ got \in [Workers -> Rule]
    /\ host \in [Workers -> Procs]
    /\ open \subseteq Devices \cup Others /\ acked \subseteq open /\ later \subseteq open \X open
    /\ \A x, y \in open : x # y => (<<x, y>> \in later <=> <<y, x>> \notin later)
    /\ alarmed \subseteq Devices
    /\ wanted \in {"none", "delete", "disable", "enable"}
    /\ apc \in {"idle", "list", "close", "sync", "save"} /\ (apc # "idle" => wanted # "none")
    /\ status \in {"ACTIVE", "ACKED"} /\ offset \in Nat /\ listed \in 0..BatchSize
    /\ page \subseteq Devices /\ changed \in BOOLEAN /\ affected \subseteq Devices
    /\ quiet \in BOOLEAN /\ changes \in 0..MaxChanges /\ failures \in 0..MaxFaults

(* The cache of the process that serves the requests has an outdated list, and a      *)
(* load is about to put one there.                                            *)
Outdated == cache[AdminProc] \notin {"none", rule}
StoresOld == \E w \in Workers : wpc[w] = "store" /\ host[w] = AdminProc /\ got[w] # rule

(* "another replica may keep evaluating a tenant's previous rules" only for a while, *)
(* and "changes made through this process take effect immediately" (rule_cache.go):   *)
(* in the end messages are evaluated with the rule that is stored, in every process,   *)
(* whatever load and change raced; and in the process that serves the change no step   *)
(* leaves an outdated entry but the store of a list that was read before the change.   *)
ChangeReachesAll ==
    /\ <>[](\A w \in Workers : wpc[w] # "idle" => got[w] = rule)
    /\ [][Outdated' => Outdated \/ StoresOld]_vars

=============================================================================
