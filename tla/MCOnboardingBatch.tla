------------------------- MODULE MCOnboardingBatch -------------------------
(* Two workers and two requests; a device with a secret of the platform, and   *)
(* one without.                                                             *)
EXTENDS OnboardingBatch, TLC
CONSTANTS w1, w2, c1, c2

WorkerSet  == {w1, w2}
ClaimerSet == {c1, c2}
Symmetric  == Permutations(WorkerSet) \cup Permutations(ClaimerSet)
=============================================================================
