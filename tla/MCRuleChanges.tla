---------------------------- MODULE MCRuleChanges ----------------------------
(* Two processes that evaluate messages; one of them serves the requests.         *)
EXTENDS RuleChanges
CONSTANTS p1, p2, w1, d1, d2, o

ProcSet == {p1, p2}
=============================================================================
