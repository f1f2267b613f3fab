------------------------ MODULE MCStandardProcessing ------------------------
(* Instances of StandardProcessing for TLC. *)
EXTENDS StandardProcessing, TLC

CONSTANTS w1, w2

\* A report, its recovery, and a late retransmission with an older timestamp.
LateKind == <<"raise", "recover", "none">>
LateTs   == <<2, 3, 1>>

\* A report and its recovery.
PairKind == <<"raise", "recover">>
PairTs   == <<1, 2>>

\* The two processes are used alike.
WorkerSymmetry == Permutations({w1, w2})

=============================================================================
