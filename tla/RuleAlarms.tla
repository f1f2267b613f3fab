----------------------------- MODULE RuleAlarms -----------------------------
(***************************************************************************)
(* An alarm rule, its alarms and the business status of its devices, and what   *)
(* DeleteRule (core/alarm_rules.go) promises about them.  Module RuleChanges     *)
(* has the steps.                                                           *)
(***************************************************************************)
CONSTANT Devices     \* devices the rule covers; also names the rule's alarm of each

VARIABLES
    rule,        \* row of the rule: "on", "off" or "gone"
    open,        \* open alarms, also those of other rules
    alarmed,     \* devices whose business status is ALARM
    quiet,       \* history: nothing has disturbed the closing of the alarms
    failures     \* failed requests so far

(* DeleteRule "closes any alarms that can no longer be recovered by the deleted     *)
(* rule": it does when no process could still evaluate the enabled rule as the       *)
(* closing began, and no alarm left the part of the list that was already paged;    *)
(* acknowledgements between the two lists and its own updates cost it no alarm.     *)
(* Without a failed call it also leaves no device in status ALARM.                *)
DeletedQuietly ==
    rule = "gone" /\ quiet =>
        Devices \cap open = {} /\ (failures = 0 => alarmed = {})

=============================================================================
